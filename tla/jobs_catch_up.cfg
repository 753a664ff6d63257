CONSTANTS
  NoUser = NoUser
  NoId = NoId
  Ids = {d1, d2}
  Users = {alice, bob}
  Requests = {r1}
  Crons = {j1}
  Consumers = {}
  Ops = {"create", "activation", "expiry", "review"}
  Faults = {"up_fail"}
  Leads = {0, 1}
  Spans = {1}
  ReviewWindow = 1
  ExtendDays = {1}
  BatchLimit = 2
  MaxTime = 2
  MaxDue = 3
  Served = {d2}
SPECIFICATION FairSpec
CHECK_DEADLOCK FALSE
PROPERTY JobsCatchUp
