SPECIFICATION FairSpec

CONSTANTS
  None = None
  p1 = p1
  p2 = p2
  e1 = e1
  Pods <- MCPods
  Events <- MCEvents
  Versions = {1, 2}
  Configs <- MCConfigs
  Deployments <- MCDeployments
  MaxFaults = 2
  MaxAttempts = 2

INVARIANTS
  TypeOK
  ResourcesOutliveWork
  AnnouncedIffHappened
  OnlyOutagesCostAttempts

PROPERTIES
  EventuallyAnnounced
  PodsStop
  Settles


CHECK_DEADLOCK FALSE
