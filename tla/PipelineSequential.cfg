SPECIFICATION Spec
CONSTANTS
  Caller = {t1}
  MCDocs = {"a", "b", "c"}
  Entities <- MCEntities
  Relations <- MCRelations
  ChunkMultivector = TRUE
  MaxBatchSize = 2
  EmbedBatchSize = 1
  Doc <- MCDocs
  Node <- MCNode
  Text <- MCText
  NoText = "no"
  None = None
  SourceOf <- MCSourceOf
  Rows <- MCRows
  Rels <- MCRels
  Embedded <- MCEmbedded
  InsertOf <- MCInsertOf
  EffectsOf <- MCEffectsOf
  Concurrent = FALSE
  Faults = {"rolled_back", "applied"}
  MaxCalls = 5
  MaxFaults = 2
INVARIANTS
  TypeOK
  PointsHaveNodes
  CacheCoversAcked
PROPERTY ImplementsStore
CHECK_DEADLOCK FALSE
