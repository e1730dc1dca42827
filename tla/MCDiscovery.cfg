\* Two nodes, one of them a seed; a watcher that comes and goes and the client's own;
\* a service that is registered and cancelled, by two calls of its cancelFunc.
SPECIFICATION FairSpec
CONSTANTS
  n1 = n1  n2 = n2  self = self  app = app  r0 = r0  r1 = r1  g1 = g1  s = s
  NoNode = NoNode
  Nodes = {n1, n2}
  Seeds <- OneSeed
  Apps = {self, app}
  Self = self
  Resolvers = {r0, r1}
  SelfR = r0
  AppOf <- WatchOf
  Regs = {g1}
  ServiceOf <- OneService
  Lists <- SomeLists
  MaxVer = 1
  MaxCancels = 2
  Cycle = 2
INVARIANTS PollIsCurrent NoLostUpdate
PROPERTIES SeedsRejoin StopsAll
