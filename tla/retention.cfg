SPECIFICATION FairSpec

CONSTANTS
  None = None
  Ids = {d1, d2}
  Messages = {m1}
  Settings <- MCSettings
  QueueLife = 1
  DefaultRetentionDays = 2
  DefaultTTLDays = 2
  DefaultLimit = 1
  MaxTime = 4
  MaxFaults = 1

INVARIANTS
  TypeOK
  PurgedOnlyExpired
  NewGrantsSurvive
  SuccessMeansSwept

PROPERTIES
  BacklogRemoved

CHECK_DEADLOCK FALSE
