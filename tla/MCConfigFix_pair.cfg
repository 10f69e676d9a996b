CONSTANTS
  Grant <- MCGrant
  Unsafe <- MCUnsafe
  NotJson = NotJson
  Absent = Absent
  c1 = c1
  c2 = c2
  Order <- OneFile
  Fixer = {f1, f2}
  Racing = FALSE
  Bit <- MCBit
  Umask <- MCUmask
  UserMode <- Shared
SPECIFICATION Spec
PROPERTY FixEnds
