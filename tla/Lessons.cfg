CONSTANTS
  Proc = {p1, p2}
  Text <- MCText
  Check <- MCCheck
  Suggestible <- MCSuggestible
  Pack <- MCPack
  Plugin <- MCPlugin
  Shipped = "v1"
  MaxEvents = 4
  MaxRuns = 2
  MaxCommands = 4
  MaxKills = 1
  MaxEdits = 1
SYMMETRY MCSymmetry
SPECIFICATION Spec
INVARIANTS TypeOK NothingUnaccepted
PROPERTIES CommandsLeaveItLoading ApplyDelivers NotProposedAgain
CHECK_DEADLOCK FALSE
