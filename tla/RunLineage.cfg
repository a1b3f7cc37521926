SPECIFICATION RSpec
CONSTANTS
  Phase <- ShortPhase
  Order <- ShortOrder
  Participation <- ShortParticipation
  Family <- OnlyDiff
  AC = {a1}
  MaxLoops = 0
  MaxSlips = 1
  ReclassifyIn <- Never
  MaxRuns = 2
  MaxAdopts = 1
INVARIANT DoctorAgrees
\* After its last run is closed the system rests.
CHECK_DEADLOCK FALSE
