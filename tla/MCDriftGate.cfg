SPECIFICATION Spec
CONSTANTS
  g1 = g1  g2 = g2  p1 = p1  p2 = p2
  Catalogue <- MCCatalogue
  Signature <- MCSignature
  PortHint <- MCPortHint
  Probe = FALSE
  Grants <- MCGrants
  Dangerous <- OneOfThem
  MaxLine = 2
  Sockets <- MCSockets
  Start <- MCStart
  Process <- Two
  Nil = Nil
  MaxChanges = 1
  MaxEdits = 1
  MaxRuns = 3
SYMMETRY Symmetry
INVARIANTS
  PublicOnlyByOthers
  OnlyTakenBaselines
  QuietMeansNoNewPlace
  AlarmMeansNewPlace
  SamePostureNoDrift
CHECK_DEADLOCK FALSE
