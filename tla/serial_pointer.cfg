CONSTANTS
  NoUser = NoUser
  NoId = NoId
  Ids = {d1}
  Users = {alice, bob, carol}
  Requests = {r1}
  Crons = {j1}
  Consumers = {c1}
  Ops = {"create", "cancel", "extend", "activation", "expiry", "review", "revoked"}
  Faults = {}
  Leads = {0, 1}
  Spans = {1}
  ReviewWindow = 1
  ExtendDays = {1}
  BatchLimit = 2
  MaxTime = 4
  MaxDue = 5
  Served = {}
SPECIFICATION SerialSpec
SYMMETRY Symmetry
CHECK_DEADLOCK FALSE
INVARIANT NoStalePointer
INVARIANT InForceIsShown
