\* Two concurrent requests with parameters of different lengths, one worker process
\* that loses its connection and reconnects, a client that leaves; every queue holds
\* one entry.
SPECIFICATION FairSpec
CONSTANTS
  c1 = c1  c2 = c2  w1 = w1  w2 = w2  p1 = p1  f1 = f1  r1 = r1  r2 = r2  r3 = r3  r4 = r4
  Funcs = {f1}
  NoFunc = NoFunc  NoWorker = NoWorker  NoReq = NoReq
  Clients = {c1, c2}
  Workers = {w1, w2}
  Procs = {p1}
  Reqs = {r1, r2}
  ClientOf <- TwoClientOf
  Handle <- OneHandle
  PLen <- MixedPLen
  Proc <- OneProc
  Faulty = {w1}
  Leaving = {c1}
  CanTimeout = TRUE
  PoolWorkers = 2
  PoolCap = 1
  ChanCap = 1
  SendCap = 1
  Routers = 1
  RouterCap = 1
INVARIANTS IInv AtMostOneReply ReturnConfined
PROPERTIES ImplementsService PoolDrains RouterDrains
\* The instance has finitely many requests: the system stops when all are served.
CHECK_DEADLOCK FALSE
