SPECIFICATION Spec
CONSTANTS
  MCEntities = {"a1", "b", "b2", "c", "bare", "org", "law"}
  Entity <- MCEntity
  Score <- MCScore
  AlikeNames <- MCAlikeNames
  TypeOnly <- MCTypeOnly
  NoProp = "none"
  SimilarityThreshold = 90
  ReviewThreshold = 90
  AutoMergeThreshold = 96
  MinMargin = 2
  CloseDelta = 3
  MaxClose = 1
  TopK = 10
  AllowTypeOnly = FALSE
  MaxEntities = 3
  MaxIngests = 1
  MaxChanges = 2
INVARIANTS
  NoChains
  ExactMatchWins
PROPERTY
  PropertiesStand
CHECK_DEADLOCK FALSE
