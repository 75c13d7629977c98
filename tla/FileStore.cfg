SPECIFICATION Spec
CONSTANTS
  Domains = {d1, d2}
  Ontologies = {o1, o2}
  Callers = {c1, c2}
  Inodes = {i1, i2, i3}
  NoOntology = NoOntology
  NoInode = NoInode
  Failed = Failed
  Empty = Empty
  Torn = Torn
  MaxCalls = 3
  MaxFaults = 2
SYMMETRY Symmetric
PROPERTY ImplementsDomainStore
CHECK_DEADLOCK FALSE
