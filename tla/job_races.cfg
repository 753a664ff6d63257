CONSTANTS
  NoUser = NoUser
  NoId = NoId
  Ids = {d1}
  Users = {alice, bob}
  Requests = {r1}
  Crons = {j1}
  Consumers = {}
  Ops = {"create", "cancel", "extend", "activation", "expiry", "review"}
  Faults = {"up_fail", "up_lost", "tx_fail", "tx_lost", "check_fail"}
  Leads = {0, 1}
  Spans = {1}
  ReviewWindow = 3
  ExtendDays = {1, 2}
  BatchLimit = 2
  MaxTime = 5
  MaxDue = 6
  Served = {}
SPECIFICATION Spec
SYMMETRY Symmetry
CHECK_DEADLOCK FALSE
INVARIANT TypeOK
INVARIANT ListedRowsHold
PROPERTY LifecycleSpec
PROPERTY ActsWhenDue
PROPERTY RemindersCountDown
