CONSTANTS
  MaxServers = 2
  MaxArgs = 2
  FailOn = "high"
SPECIFICATION Spec
INVARIANT AlertsStayApart
CHECK_DEADLOCK FALSE
