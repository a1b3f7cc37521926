SPECIFICATION Spec
CONSTANTS
  Phase <- WorkflowPhase
  Order <- WorkflowOrder
  Participation <- WorkflowParticipation
  Family <- WorkflowFamily
  AC = {a1}
  MaxLoops = 2
  MaxSlips = 1
  ReclassifyIn <- OnlyFrame
  MaxRuns = 1
INVARIANT NoPhaseMeansCloseable
CHECK_DEADLOCK FALSE
