SPECIFICATION Spec
CONSTANTS
  Caller = {c1, c2}
  d1 = d1
  d2 = d2
  x = x
  y = y
  p = p
  Domain = {d1, d2}
  Desc = {x, y}
  Prop = {p}
  Patch <- MCPatch
  Drafts <- MCDrafts
  Stored <- MCStored
  Builtin <- MCBuiltin
  Ops = {"create", "replace", "patch", "read", "rename", "delete", "refresh", "import"}
  Chunk = 1
  None = None
  Unknown = Unknown
  MaxCalls = 4
  MaxFaults = 1
SYMMETRY Callers
INVARIANTS
  IndexFollows
  AcknowledgedStays
  GuardHonoured
PROPERTY
  RenameKeeps
CHECK_DEADLOCK FALSE
