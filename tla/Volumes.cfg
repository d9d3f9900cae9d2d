SPECIFICATION FairSpec
CONSTANTS
  e1 = e1
  job = job
  s1 = s1
  s2 = s2
  f1 = f1
  l1 = l1
  l2 = l2
  Names <- MCNames
  None = None
  MaxLag = 2
  MaxFaults = 1
  MaxCrashes = 1
  Keys = {1, 2}
  Existing = {e1}
  Job = job
  Sizes = {s1, s2}
  Frequencies = {f1}
  Labels = {l1, l2}
  Others = {o1}
  Written <- MCWritten
  MaxEdits = 1
PROPERTIES
  ClaimsNeverLost
  LabelsKept
  OwnerKept
  EventuallyClaimed
  EventuallyQuiet
  OthersProceed
CHECK_DEADLOCK FALSE
