SPECIFICATION Spec
CONSTANTS
  Absent = Absent
  Candidates <- MCCandidates
  Env <- MCEnv
  States <- MCStates
  Start <- MCStart
  Sockets <- MCSockets
  FailOn = "high"
  MaxChanges = 1
INVARIANT NeverCrashes
CHECK_DEADLOCK FALSE
