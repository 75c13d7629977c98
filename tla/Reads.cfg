SPECIFICATION Spec
CONSTANTS
  Node <- MCNode
  Text <- MCText
  NoText = "no"
  Prefix = "A"
  NoPrefix = "none"
  Term = {"x", "y"}
  Similarity <- MCSimilarity
  TopKFloor = 3
  RerankTopK = 2
  RerankScore <- MCRerankScore
  RerankThreshold = 3
  MaxSamples = 1
  TraversalCalls <- MCTraversalCalls
  TypeCalls <- MCTypeCalls
  WithId <- MCWithId
  AsInternalId <- MCAsInternalId
  NameOf <- MCNameOf
  Needles <- MCNeedles
  CachedLabels = {{"Org"}}
  MaxSubgraphNodes = 3
  MaxSubgraphEdges = 2
  BrowseCalls <- MCBrowseCalls
  Writes <- MCWrites
  MaxWrites = 1
  Start <- MCStart
INVARIANTS
  OwnTenantOnly
  EdgesHaveEnds
  TableAligned
PROPERTIES
  ScoresAddUp
  BestChunks
  NotTruncatedIsWhole
  FoundIfThere
CHECK_DEADLOCK FALSE
