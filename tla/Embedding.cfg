SPECIFICATION Spec
CONSTANTS
  Context = 3
  MaxSequences = 2
  RerankTokens = 4
  RerankSequences = 2
  ProgressChunk = 2
  InsertChunk = 2
  Jobs <- MCJobs
  MaxFailures = 1
INVARIANTS
  EachItsOwn
  DecodesFit
CHECK_DEADLOCK FALSE
