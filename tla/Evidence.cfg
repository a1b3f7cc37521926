SPECIFICATION FairSpec
CONSTANTS
  Agent = {a1, a2}
  PhaseSeq <- LatePhases
  Scope <- AdversaryScope
  RiskyOK = FALSE
  Word <- SomeWord
  Said = {"clean"}
  MaxManual = 2
INVARIANT TypeOK
INVARIANT GateNeedsCapture
INVARIANT FailSticks
INVARIANT BlockedTwice
PROPERTY ReviewsEnd
\* It rests when agents, records and runs are used up.
CHECK_DEADLOCK FALSE
