SPECIFICATION FairSpec
CONSTANTS
  Native <- SomeNative
  Title = {"parse", "print"}
  Subject <- SomeSubject
  Name <- SomeName
  Cmd <- SomeCmd
  Testless = {2}
  MaxTasks = 2
INVARIANT TypeOK
INVARIANT ClosedIsProven
INVARIANT NeverUnjudged
PROPERTY FocusedTaskCloses
\* It rests when every native task is closed and no record is left to make.
CHECK_DEADLOCK FALSE
