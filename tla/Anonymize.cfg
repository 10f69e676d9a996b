SPECIFICATION Spec
CONSTANTS
  MaxStrings = 2
  MaxMarks = 2
CHECK_DEADLOCK FALSE
INVARIANT FaithfulFixture
