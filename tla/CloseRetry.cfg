SPECIFICATION Spec
CONSTANTS
  Proc = {p1}
  MaxRuns = 1
  MaxEvents = 6
  MaxCrashes = 1
INVARIANT AckedIsReadable
CHECK_DEADLOCK FALSE
