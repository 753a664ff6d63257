CONSTANTS
  Omitted = Omitted
  Requests = {r1}
  Ids = {d1}
  Inputs <- MCInputs
  PolicyInputs <- MCPolicyInputs
  ExtendInputs = {Omitted, 0, 1}
  PolicyDaysMin = 1
  PolicyDaysMax = 3
  DefaultDays = 2
  UpCap = 3
  Day = 2
  SkewTolerance = 1
  MaxFutureStart = 3
  CatalogConfigured = TRUE
  Faults = {"db_fail", "db_lost", "hung"}
  MaxVersion = 3
  MaxSettings = 2
  MaxEpoch = 1
SPECIFICATION FairSpec
CHECK_DEADLOCK FALSE
INVARIANT TypeOK
INVARIANT OnlyVettedInserted
INVARIANT JudgedByOnePolicy
INVARIANT SchemaAccepts
INVARIANT WindowAccepted
INVARIANT VersionNamesPolicy
PROPERTY RequestsAnswered
