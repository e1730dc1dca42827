\* Three callers, a pool of two; dials and calls fail, the pool is closed.
SPECIFICATION Spec
CONSTANTS
  Callers = {x1, x2, x3}
  Conns = {k1, k2, k3, k4, k5}
  NoConn = NoConn
  PoolSize = 2
  MaxCalls = 2
INVARIANTS PlacesExact OwnReply
\* The calls are finitely many.
CHECK_DEADLOCK FALSE
