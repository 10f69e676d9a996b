CONSTANTS
  MaxServers = 2
  MaxArgs = 2
  FailOn = "high"
SPECIFICATION Spec
INVARIANT OnlineNeverBreaksScan
CHECK_DEADLOCK FALSE
