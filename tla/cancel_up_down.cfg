CONSTANTS
  NoUser = NoUser
  NoId = NoId
  Ids = {d1}
  Users = {alice, bob}
  Requests = {r1}
  Crons = {j1}
  Consumers = {}
  Ops = {"create", "cancel", "expiry", "review"}
  Faults = {"up_fail"}
  Leads = {0}
  Spans = {1}
  ReviewWindow = 1
  ExtendDays = {1}
  BatchLimit = 2
  MaxTime = 2
  MaxDue = 3
  Served = {d1}
SPECIFICATION FairSpec
CHECK_DEADLOCK FALSE
PROPERTY StalePointerCleared
