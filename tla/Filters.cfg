\* Every value of each type, and every filter on it.
SPECIFICATION Spec
CONSTANTS
  Malformed <- MCMalformed
  HiddenProps <- MCHiddenProps
  Folded <- MCFolded
  ToLower <- MCToLower
  Alternatives <- NoUnions
  Holding <- MCHolding
  Samples <- MCSamples
  Operands <- MCOperands
INVARIANTS
  StoredInstant FilterMeansWhatItSays
