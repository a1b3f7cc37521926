SPECIFICATION Spec
CONSTANTS
  Proc = {p1}
  MaxRuns = 2
  MaxEvents = 8
  MaxCrashes = 2
INVARIANT TypeOK
INVARIANT ChainIntact
PROPERTY AckedMeansReadable
INVARIANT FollowupsStayLive
PROPERTY MovedNotDropped
\* Commands stop at the bound on events.
CHECK_DEADLOCK FALSE
