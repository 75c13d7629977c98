\* One question after another while one ingest writes and returns.
SPECIFICATION Spec
CONSTANTS
  Malformed <- MCMalformed
  HiddenProps <- MCHiddenProps
  Folded <- MCFolded
  ToLower <- MCFolded
  Alternatives <- MCAlternatives
  Holding <- MCHolding
  Catalog <- MCCatalog
  MaxDepth = 3
  MaxLimit = 4
  Versions <- MCVersions
  Tenant = "t1"
  Outputs <- MCOutputs
  HandWritten <- MCHandWritten
  MaxRepairs = 1
  Grounding = TRUE
  HasReranker = TRUE
  SearchesBm25 = TRUE
  FetchK = 3
  CandidateK = 2
  ScoreIn <- MCScoreIn
  Reranked <- MCReranked
  Relevant <- MCRelevant
  Words <- MCWords
INVARIANTS
  EveryNameBound OwnTenantRows RepairLosesNothing
PROPERTIES
  RowsAsAsked PinnedAsFound AsksEnd
