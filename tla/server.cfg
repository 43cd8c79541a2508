\* Three connections over a pool of two isolates, four requests on two paths.
SPECIFICATION Spec
CONSTANTS
  Conns = {c1, c2, c3}
  Paths = {"/health", "/"}
  None = None
  MaxIdle = 2
  MaxRequests = 4
INVARIANTS
  ArenasIsolated
  PoolAccounts
PROPERTY
  PoolImplementsLease
