SPECIFICATION Spec
CONSTANTS
  NoSource = NoSource
  Runners = {r1, r2}
  Suites <- MCSuites
  Leftover <- MCLeftover
  Drafts <- MCDrafts
  Answers <- MCAnswers
  Numeral <- MCNumeral
  Within <- MCWithin
  ChunkColumns = {"id", "text"}
  CleanupBatch = 2
  MaxSuites = 2
  MaxFaults = 1
INVARIANTS ReportIsTrue FixtureIsFresh
PROPERTY PrefixIsolated
SYMMETRY Symmetric
CHECK_DEADLOCK FALSE
