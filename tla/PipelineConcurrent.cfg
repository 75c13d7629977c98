SPECIFICATION Spec
CONSTANTS
  Caller = {t1, t2}
  MCDocs = {"a", "b"}
  Entities <- MCEntities
  Relations <- MCRelations
  ChunkMultivector = TRUE
  MaxBatchSize = 2
  EmbedBatchSize = 2
  Doc <- MCDocs
  Node <- MCNode
  Text <- MCText
  NoText = "no"
  None = None
  SourceOf <- MCSourceOf
  Rows <- MCRows
  Rels <- MCRels
  Embedded <- MCEmbedded
  InsertOf <- MCInsertOf
  EffectsOf <- MCEffectsOf
  Concurrent = TRUE
  Faults = {"rolled_back", "applied", "late"}
  MaxCalls = 4
  MaxFaults = 1
SYMMETRY CallerSymmetry
INVARIANTS
  PrivateStays
  PrivateGoes
CHECK_DEADLOCK FALSE
