SPECIFICATION WalkSpec
CONSTANTS
  Catalogue <- MCCatalogue
  Signature <- MCSignature
  PortHint <- MCPortHint
  Machines <- MCMachines
  Others <- MCOthers
  Weaker <- MCWeaker
  Probe = TRUE
  MaxMoves = 2
INVARIANTS
  OneAssetPerService
  NamedIsListed
  OrderOnlyMattersForStacks
CHECK_DEADLOCK FALSE
