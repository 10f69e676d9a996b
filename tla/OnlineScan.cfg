CONSTANTS
  MaxServers = 2
  MaxArgs = 2
  FailOn = "high"
SPECIFICATION Spec
INVARIANTS
  OnlineOnlyAdds
  ResultsTellFindings
CHECK_DEADLOCK FALSE
