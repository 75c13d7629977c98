SPECIFICATION Spec
CONSTANTS
  NodePool <- MCNodePool
  StoredNodes <- MCStoredNodes
  StoredLinks <- MCStoredLinks
  LinkPool <- MCLinkPool
  Specs <- MCSpecs
  Domains <- MCDomains
  Labels <- MCLabels
  Letters <- MCLetters
  Questions <- MCQuestions
  Numerals = {"7"}
  Lower <- MCLower
  Ids = {"ref_id"}
  Hidden = {"_canonical"}
  SampleSize = 2
  EnumCap = 2
  TopK = 2
  MaxEntities = 2
  MinEntities = 0
  Hops = 1
  MaxChanges = 2
INVARIANTS ClosedSetIsClosed PathsAreWalkable RelevantIsShown
