SPECIFICATION FairSpec
CONSTANTS
  f1 = f1
  f2 = f2
  c1 = c1
  c2 = c2
  Names = {cm}
  None = None
  MaxLag = 2
  MaxFaults = 1
  MaxCrashes = 1
  Files = {f1, f2}
  Contents = {c1, c2}
  Empty = Empty
  Written <- MCWritten
  MaxEdits = 2
  OwnPods = {p1}
  OtherPods = {q1}
INVARIANTS
  RestartedForNewData
PROPERTIES
  FollowsBundle
  EventuallyCarried
  EventuallyQuiet
CHECK_DEADLOCK FALSE
