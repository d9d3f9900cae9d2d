SPECIFICATION FairSpec
CONSTANTS
  v1 = v1
  v2 = v2
  i1 = i1
  p1 = p1
  l1 = l1
  s1 = s1
  own = own
  old = old
  Names = {d}
  None = None
  MaxLag = 2
  MaxFaults = 1
  MaxCrashes = 1
  Keys = {1, 2, 3}
  Nvidia = 3
  Values = {v1, v2}
  Empty = Empty
  Sources = {s1}
  Images = {i1}
  Handlers = {p1}
  Default = 10
  Labels = {l1}
  Selectors = {own, old}
  Own = own
  Found <- MCFound
  Written <- MCWritten
  MaxEdits = 2
INVARIANTS
  DeletedForSelector
PROPERTIES
  FollowsBundle
  
  EventuallyQuiet
CHECK_DEADLOCK FALSE
