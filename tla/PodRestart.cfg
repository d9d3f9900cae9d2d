SPECIFICATION FairSpec
CONSTANTS
  f1 = f1
  f2 = f2
  c1 = c1
  c2 = c2
  Names = {cm}
  None = None
  MaxLag = 2
  MaxFaults = 0
  MaxCrashes = 0
  Files = {f1, f2}
  Contents = {c1, c2}
  Empty = Empty
  Written <- MCTwoContents
  MaxEdits = 1
  OwnPods = {p1, p2}
  OtherPods = {}
PROPERTY PodsFollow
CHECK_DEADLOCK FALSE
