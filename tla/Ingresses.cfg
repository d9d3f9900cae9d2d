SPECIFICATION FairSpec
CONSTANTS
  h1 = h1
  h2 = h2
  g1 = g1
  Names = {1, 2}
  None = None
  MaxLag = 2
  MaxFaults = 1
  MaxCrashes = 1
  Hosts = {h1, h2}
  Ports = {80, 81}
  Groups = {g1}
  Web = {2}
  Written <- MCWritten
  MaxEdits = 2
INVARIANTS
  OfOneVersion
PROPERTIES
  FollowsBundle
  EventuallyRouted
  EventuallyGuarded
  EventuallyQuiet
CHECK_DEADLOCK FALSE
