CONSTANTS
  NoUser = NoUser
  NoId = NoId
  Ids = {d1, d2}
  Users = {alice, bob}
  Requests = {r1}
  Crons = {j1}
  Consumers = {c1}
  Ops = {"create", "cancel", "extend", "reassign", "revoked", "disabled", "scrub", "activation"}
  Faults = {"up_fail", "tx_lost", "stale", "crash"}
  Leads = {0, 1}
  Spans = {1}
  ReviewWindow = 1
  ExtendDays = {1}
  BatchLimit = 2
  MaxTime = 1
  MaxDue = 2
  Served = {}
SPECIFICATION Spec
SYMMETRY Symmetry
CHECK_DEADLOCK FALSE
PROPERTY LifecycleSpec
