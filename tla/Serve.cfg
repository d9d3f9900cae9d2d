SPECIFICATION FairSpec
CONSTANTS
  lb = lb
  l1 = l1
  Names = {svc}
  None = None
  MaxLag = 2
  MaxFaults = 1
  MaxCrashes = 1
  Routes = {1, 2}
  Ports = {80, 81}
  Types = {clusterIP, lb}
  Default = clusterIP
  Exposed = {lb}
  NodePort = 30000
  Labels = {l1}
  ClusterIPs = {ip1, ip2}
  Written <- MCWritten
  MaxEdits = 2
PROPERTIES
  FollowsBundle
  EventuallyServed
  EventuallyQuiet
CHECK_DEADLOCK FALSE
