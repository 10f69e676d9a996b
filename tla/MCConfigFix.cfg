CONSTANTS
  Grant <- MCGrant
  Unsafe <- MCUnsafe
  NotJson = NotJson
  Absent = Absent
  c1 = c1
  c2 = c2
  Order <- TwoFiles
  Fixer = {f1}
  Racing = FALSE
  Bit <- MCBit
  Umask <- MCUmask
  UserMode <- Shared
SPECIFICATION Spec
INVARIANTS
  NothingInvented
  Reversible
  CleanWhenDone
  ModeNeverWidened
PROPERTIES
  ImplementsAtomicFix
