CONSTANTS
  NoMessage = NoMessage
  Messages = {m1, m2}
  Users = {alice}
  Workers = {w1, w2}
  Kinds <- FirstIsAny
  Faults = {"crash", "probe_fail", "tx_fail", "tx_lost", "ack_lost"}
  MaxReceive = 2
SPECIFICATION FairSpec
CHECK_DEADLOCK FALSE
INVARIANT NoCascadeLost
INVARIANT OnlyLateGrantsRemain
INVARIANT RedeliveryIsNoOp
PROPERTY EveryMessageSettled
