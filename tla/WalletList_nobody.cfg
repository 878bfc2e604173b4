SPECIFICATION ListSpec
CONSTANTS
  MaxChanged = 1
  MaxEntered = 2
  Short = {}
INVARIANT NobodyMeansReadNow
CHECK_DEADLOCK FALSE
