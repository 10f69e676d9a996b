CONSTANTS
  MaxServers = 2
  MaxArgs = 2
  FailOn = "high"
SPECIFICATION Spec
INVARIANT OnlyPinnedIsSent
CHECK_DEADLOCK FALSE
