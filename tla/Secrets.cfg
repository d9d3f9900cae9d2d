SPECIFICATION FairSpec
CONSTANTS
  r1 = r1
  r2 = r2
  c1 = c1
  c2 = c2
  s1 = s1
  Names = {es}
  None = None
  MaxLag = 2
  MaxFaults = 1
  MaxCrashes = 1
  Keys = {1, 2}
  Refs = {r1, r2}
  Configs = {c1, c2}
  Stores = {s1}
  Written <- MCWritten
  MaxEdits = 2
PROPERTIES
  FollowsBundle
  EventuallyProvided
  EventuallyQuiet
CHECK_DEADLOCK FALSE
