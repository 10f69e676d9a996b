SPECIFICATION Spec
CONSTANTS
  g1 = g1  g2 = g2  p1 = p1  p2 = p2
  Catalogue <- MCCatalogue
  Signature <- MCSignature
  PortHint <- MCPortHint
  Probe = FALSE
  Grants <- MCGrants
  Dangerous <- MCGrants
  MaxLine = 2
  Sockets <- MCSockets
  Start <- MCStart
  Process <- One
  Nil = Nil
  MaxChanges = 1
  MaxEdits = 0
  MaxRuns = 3
INVARIANTS
  NewGrantIsRegression
CHECK_DEADLOCK FALSE
