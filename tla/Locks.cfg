SPECIFICATION Spec
CONSTANTS
  b1 = b1
  b2 = b2
  a1 = a1
  a2 = a2
  m1 = m1
  m2 = m2
  m3 = m3
  m4 = m4
  Bundles = {b1, b2}
  Bases = {a1}
  Contents = {c1}
  BundleWorkers = {w1}
  BaseWorkers = {w2}
  Mutexes = {m1, m2, m3, m4}
  MutexOf <- MCMutexShared
  MayName <- MCMayName
  Clock <- MCClock
  None = None
  NoHash = NoHash
  MaxWrites = 1
  MaxFaults = 1
  MaxCrashes = 1
INVARIANTS
  NoLeakedLock
  SpecHashNeverRaced
  NobodyWaitsForAWaiter
  NeverForgotten
  ResetsStay
CHECK_DEADLOCK FALSE
