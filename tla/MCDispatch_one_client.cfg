\* One client that keeps a single request in flight, as Client.Do does.
SPECIFICATION Spec
CONSTANTS
  c1 = c1  c2 = c2  w1 = w1  w2 = w2  p1 = p1  f1 = f1  r1 = r1  r2 = r2  r3 = r3  r4 = r4
  Funcs = {f1}
  NoFunc = NoFunc  NoWorker = NoWorker  NoReq = NoReq
  Clients = {c1}
  Workers = {w1, w2}
  Procs = {p1}
  Reqs = {r1, r2, r3, r4}
  ClientOf <- OneClientOf
  Handle <- SomeInvalid
  PLen <- OnePLen
  Proc <- OneProc
  Faulty = {w1}
  Leaving = {c1}
  CanTimeout = FALSE
  PoolWorkers = 2
  PoolCap = 1
  ChanCap = 1
  SendCap = 1
  Routers = 2
  RouterCap = 1
INVARIANTS OwnResult
\* The instance has finitely many requests: the system stops when all are served.
CHECK_DEADLOCK FALSE
