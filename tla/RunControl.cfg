SPECIFICATION FairSpec
CONSTANTS
  Phase <- WorkflowPhase
  Order <- WorkflowOrder
  Participation <- WorkflowParticipation
  Family <- WorkflowFamily
  AC = {a1, a2}
  MaxLoops = 3
  MaxSlips = 1
  ReclassifyIn <- OnlyFrame
  MaxRuns = 2
INVARIANT TypeOK
INVARIANT NoPhaseJumped
INVARIANT CloseableAsReported
PROPERTY ClosedRunIsComplete
PROPERTY ReworkIsRewalked
PROPERTY EveryRunEnds
\* After its last run is closed the system rests.
CHECK_DEADLOCK FALSE
