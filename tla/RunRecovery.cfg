SPECIFICATION RSpec
CONSTANTS
  Phase <- ShortPhase
  Order <- ShortOrder
  Participation <- ShortParticipation
  Family <- DiffAndArtifact
  AC = {a1}
  MaxLoops = 2
  MaxSlips = 1
  ReclassifyIn <- OnlyFrame
  MaxRuns = 1
  MaxAdopts = 1
INVARIANT RTypeOK
INVARIANT GrantsAreLogged
INVARIANT CapsSurviveAdoption
\* After its last run is closed the system rests.
CHECK_DEADLOCK FALSE
