CONSTANTS
  Proc = {p1, p2}
  p1 = p1
  p2 = p2
  Gate = {scope, design}
  scope = scope
  design = design
  NoTopic = NoTopic
  MaxAnswers = 3
  MaxAsked = 4
  MaxKills = 1
SYMMETRY MCSymmetry
SPECIFICATION Spec
INVARIANT TypeOK
PROPERTIES ApprovalsConsented SingleUse
CHECK_DEADLOCK FALSE
