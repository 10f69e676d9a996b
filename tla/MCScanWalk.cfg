SPECIFICATION Spec
CONSTANTS
  Absent = Absent
  Candidates <- MCCandidates
  Env <- MCEnv
  States <- MCStates
  Start <- MCStart
  Sockets <- MCSockets
  FailOn = "high"
  MaxChanges = 2
INVARIANTS
  SteadyFilesAreReported
  FindingsWereThere
  TrustFollowsScan
CHECK_DEADLOCK FALSE
