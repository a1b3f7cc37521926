SPECIFICATION FairSpec
CONSTANTS
  Session = {s1, s2, off}
  Unenforced = {off}
  Item <- TwoItems
  MaxHashed = 1
  LastPhase = 1
  MaxChanges = 4
  MaxTurns = 2
INVARIANT TypeOK
INVARIANT ReleaseIsEarned
INVARIANT BlocksAreCapped
PROPERTY EveryTurnEnds
\* It rests when changes and prompts are used up.
CHECK_DEADLOCK FALSE
