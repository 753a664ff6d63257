CONSTANTS
  None = None
  Tenants = {t1, t2}
  Users = {ann, root}
  Admins = {root}
  Ids = {d1}
  Requests = {r1, r2}
  Faults = {"valkey_fail", "tx_lost"}
  ListTTL = 1
  RequestTimeout = 1
  MaxVer = 2
SPECIFICATION Spec
SYMMETRY Symmetry
INVARIANT TenantsApart
INVARIANT StalenessBounded
INVARIANT FreshUnlessRaced
PROPERTY OnlyEntitledChange
