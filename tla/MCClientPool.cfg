\* Three callers, a pool of two; dials fail, connections drop, the pool is closed.
SPECIFICATION MCSpec
CONSTANTS
  Callers = {x1, x2, x3}
  Clients = {k1, k2, k3, k4, k5}
  NoClient = NoClient
  PoolSize = 2
  MaxCalls = 5
INVARIANTS PlacesExact
PROPERTY CallsReturn
\* The calls are finitely many.
CHECK_DEADLOCK FALSE
