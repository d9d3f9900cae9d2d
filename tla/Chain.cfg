SPECIFICATION FairSpec
CONSTANTS
  b1 = b1
  b2 = b2
  a1 = a1
  a2 = a2
  m1 = m1
  m2 = m2
  m3 = m3
  m4 = m4
  Bundles = {b1}
  Bases = {a1, a2}
  Contents = {c1}
  BundleWorkers = {w1}
  BaseWorkers = {}
  Mutexes = {m1, m2, m3, m4}
  MutexOf <- MCMutexOf
  MayName <- MCChain
  Clock <- MCClock
  None = None
  NoHash = NoHash
  MaxWrites = 2
  MaxFaults = 1
  MaxCrashes = 1
PROPERTIES
  EventuallyApplied
  RolloutsOrdered
CHECK_DEADLOCK FALSE
