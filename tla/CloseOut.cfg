CONSTANTS
  Proc = {p1, p2}
  p1 = p1
  p2 = p2
  Prior <- MCPrior
  Writes <- MCWrites
  Updates <- MCUpdates
  Gate = {"scope"}
  Gating <- MCGating
  Intent = "new"
  Flag = {}
  Failing = {"changes-required", "unsafe", "unparsed"}
  MaxWrites = 3
  MaxForces = 1
  MaxMoves = 5
SYMMETRY MCSymmetry
SPECIFICATION Spec
INVARIANT TypeOK
PROPERTIES TraceAnswers CleanMeansAnswered ShippedIsVerified
CHECK_DEADLOCK FALSE
