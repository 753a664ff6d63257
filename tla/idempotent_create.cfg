CONSTANTS
  None = None
  Pending = Pending
  Calls = {c1, c2, c3}
  Ids = {d1, d2, d3}
  Faults = {"valkey_fail", "valkey_lost", "tx_fail", "tx_lost", "find_fail", "crash"}
SPECIFICATION Spec
SYMMETRY Symmetry
CHECK_DEADLOCK FALSE
INVARIANT OneDelegationPerKey
INVARIANT KeyNotStuck
INVARIANT SuccessIsReal
