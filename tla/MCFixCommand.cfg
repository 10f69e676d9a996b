CONSTANTS
  Entry <- MCEntry
  Dangerous <- MCDangerous
  Broad <- MCBroad
  NonString = {"Read"}
  Begin <- MCBegin
  Versions <- MCVersions
  Volatile <- MCVolatile
  FailOn = "high"
  MaxRuns = 2
  MaxChanges = 1
  Absent = Absent
SPECIFICATION Spec
INVARIANTS
  RescanClean
  FixesWhatWasReported
  KeepsTheRest
  SecondRunIsQuiet
  StatusCoversWhatIsLeft
  NoGap
CHECK_DEADLOCK FALSE
