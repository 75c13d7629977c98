SPECIFICATION Spec
CONSTANTS
  ann = ann  bob = bob  film = film  firm = firm
  Nodes <- MCNodes
  TypeOf <- MCTypeOf
  AllEdges <- MCEdges
  StartNodes <- MCStartNodes
  StartEdges <- MCStartEdges
  TypeFilters <- MCTypeFilters
  EdgeFilters <- MCEdgeFilters
  Names <- MCNames
  NoNode = NoNode
  MaxCommands = 4
  MaxChanges = 1
  MaxFaults = 1
INVARIANTS TrailLeadsHere
PROPERTY FilterHonoured
CHECK_DEADLOCK FALSE
