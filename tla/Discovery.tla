----------------------------- MODULE Discovery ------------------------------
(***************************************************************************)
(* The discovery client, src/pkg/registry/discovery/discovery.go: one      *)
(* goroutine, serverproc, asks a discovery node by a long poll for the     *)
(* instances of all applications somebody watches, stores the answer and   *)
(* signals the watchers; watching a new application cancels the poll that  *)
(* does not ask for it.  The list of nodes is itself an application,       *)
(* followed by selfproc.  Instances registered here are renewed by a       *)
(* goroutine each.  The discovery nodes are external; a timestamp only     *)
(* means something to the node that issued it.                             *)
(***************************************************************************)
EXTENDS Naturals, Sequences, FiniteSets, SequencesExt

CONSTANTS
  Nodes,       \* discovery nodes
  Seeds,       \* Config.Nodes: a sequence of nodes without repetition
  Apps, Self,  \* the applications, and _appid among them
  Resolvers,   \* the Resolves that are built
  SelfR,       \* the one of NewRegistry
  AppOf,       \* the application of each
  Regs,        \* calls of Register
  ServiceOf,   \* the ServiceId of each
  Lists,       \* what may be published: for each application, sets of instances
  MaxVer,      \* bound: publications of an application
  MaxCancels,  \* bound: calls of one cancelFunc
  Cycle,       \* bound: nodeIdx counts modulo this
  NoNode

ASSUME DiscoveryAssumption ==
  /\ IsFiniteSet(Nodes) /\ NoNode \notin Nodes
  /\ Seeds \in Seq(Nodes) \ {<<>>} /\ IsInjective(Seeds)
  /\ Self \in Apps /\ SelfR \in Resolvers /\ AppOf \in [Resolvers -> Apps]
  /\ AppOf[SelfR] = Self /\ Lists[Self] \subseteq SUBSET Nodes /\ MaxVer \in Nat /\ MaxCancels \in Nat
  /\ Cycle \in Nat \ {0} /\ \A n \in 1..Cardinality(Nodes) : Cycle % n = 0

VARIABLES
  view,        \* what the discovery nodes have: a version and the instances
  apps,        \* the keys of Discovery.apps
  resolver,    \* appInfo.resolver
  lastTs,      \* appInfo.lastTs: a version and the node that named it
  zoneIns,     \* appInfo.zoneIns
  node,        \* Discovery.node, <<>> before the first Store
  nodeIdx,     \* Discovery.nodeIdx, modulo a multiple of every length of node
  lastHost,    \* Discovery.lastHost, from pickNode on the node that is asked
  once,        \* serverproc was started
  ready,       \* NewRegistry has returned
  closed,      \* Discovery.ctx is done
  spc,         \* where serverproc stands
  ctx,         \* its context: "nil", "own" (not in cancelPolls yet), "stored", "done"
  asked,       \* what polls asks for: a function from applications to their lastTs
  pend,        \* what is left to broadcast, a function from applications, and
  noting,      \* the one whose watchers are still to be signalled
  retry, old,  \* locals of serverproc and tryAppendSeedNodes
  rpc,         \* where each watcher stands
  existed,     \* its ok in Build
  event,       \* Resolve.event holds a signal
  seen,        \* the version it fetched last
  got,         \* the nodes newSelf works on
  registry,    \* Discovery.registry
  gpc,         \* where each Register and its goroutine stand
  callers,     \* the callers of its cancelFunc that wait on ch
  ch           \* its channel: "empty", or its one value "sent", then "taken"

appVars == <<apps, resolver, lastTs, zoneIns>>
nodeVars == <<node, nodeIdx>>
pollVars == <<lastHost, asked>>
procVars == <<spc, pend, noting, retry, old>>
watchVars == <<rpc, existed, event, seen, got>>
regVars == <<registry, gpc, callers, ch>>
vars == <<view, appVars, nodeVars, pollVars, procVars, watchVars, regVars, once, ready, closed, ctx>>

NoTs == [node |-> NoNode, ver |-> 0]
Nothing == [ver |-> 0, ins |-> {}]

Versions == 0..MaxVer
Published == [ver : Versions, ins : SUBSET UNION {UNION Lists[a] : a \in Apps}]

TypeOK ==
  /\ view \in [Apps -> Published] /\ zoneIns \in [Apps -> Published]
  /\ apps \subseteq Apps /\ resolver \in [Apps -> SUBSET Resolvers]
  /\ lastTs \in [Apps -> [node : Nodes \cup {NoNode}, ver : Versions]]
  /\ node \in Seq(Nodes) /\ nodeIdx \in 0..Cycle - 1
  /\ lastHost \in Nodes \cup {NoNode}
  /\ once \in BOOLEAN /\ ready \in BOOLEAN /\ closed \in BOOLEAN
  /\ spc \in {"off", "top", "store", "select", "get", "bcast", "load", "seed", "ended"}
  /\ ctx \in {"nil", "own", "stored", "done"}
  /\ DOMAIN asked \subseteq Apps /\ DOMAIN pend \subseteq Apps /\ noting \subseteq Apps
  /\ \A a \in DOMAIN pend : pend[a] \in Published
  /\ retry \in 0..Cardinality(Nodes) /\ old \in Seq(Nodes)
  /\ rpc \in [Resolvers -> {"none", "signal", "wait", "fetch", "put"}]
  /\ existed \in [Resolvers -> BOOLEAN] /\ event \in [Resolvers -> BOOLEAN]
  /\ seen \in [Resolvers -> Versions] /\ got \subseteq Nodes
  /\ gpc \in [Regs -> {"none", "post", "run", "ended"}]
  /\ callers \in [Regs -> 0..MaxCancels] /\ ch \in [Regs -> {"empty", "sent", "taken"}]

\* NewRegistry, up to its Build.
Init ==
  /\ view = [a \in Apps |-> Nothing]
  /\ apps = {} /\ resolver = [a \in Apps |-> {}] /\ lastTs = [a \in Apps |-> NoTs]
  /\ zoneIns = [a \in Apps |-> Nothing]
  /\ node = <<>> /\ nodeIdx = 0 /\ lastHost = NoNode
  /\ once = FALSE /\ ready = FALSE /\ closed = FALSE
  /\ spc = "off" /\ ctx = "nil" /\ asked = <<>>
  /\ pend = <<>> /\ noting = {} /\ retry = 0 /\ old = <<>>
  /\ rpc = [r \in Resolvers |-> "none"] /\ existed = [r \in Resolvers |-> FALSE]
  /\ event = [r \in Resolvers |-> FALSE] /\ seen = [r \in Resolvers |-> 0] /\ got = {}
  /\ registry = {} /\ gpc = [g \in Regs |-> "none"]
  /\ callers = [g \in Regs |-> 0] /\ ch = [g \in Regs |-> "empty"]

switchNode == nodeIdx' = (nodeIdx + 1) % Cycle

\* pickNode: the node at nodeIdx, or any seed before there is a list.
Picks(i) == IF node = <<>> THEN Range(Seeds) ELSE {node[(i % Len(node)) + 1]}

\* ctx.Err() = context.Canceled: its own cancel was called, or Discovery.ctx is done.
Canceled == ctx = "done" \/ closed

-----------------------------------------------------------------------------
(* Watching: Build, Watch, Fetch, Close *)

\* The caller of NewRegistry first; everybody else has a Discovery only after it.
MayCall(r) == r = SelfR \/ ready

\* Build: the application and the resolver are entered under the mutex; a new
\* application cancels the poll whose cancel is in cancelPolls.
BuildAdd(r) ==
  LET a == AppOf[r] IN
  /\ rpc[r] = "none" /\ MayCall(r)
  /\ existed' = [existed EXCEPT ![r] = a \in apps]
  /\ apps' = apps \cup {a} /\ resolver' = [resolver EXCEPT ![a] = @ \cup {r}]
  /\ ctx' = IF a \notin apps /\ ctx = "stored" THEN "done" ELSE ctx
  /\ rpc' = [rpc EXCEPT ![r] = "signal"]
  /\ UNCHANGED <<view, lastTs, zoneIns, nodeVars, pollVars, procVars, event, seen, got, regVars,
                 once, ready, closed>>

\* Mutant of BuildSignal: the second watcher of an application is not signalled.
BuildSignalNot(r) ==
  /\ rpc[r] = "signal"
  /\ once' = TRUE /\ spc' = IF once THEN spc ELSE "top"
  /\ rpc' = [rpc EXCEPT ![r] = "wait"]
  /\ UNCHANGED <<view, appVars, nodeVars, pollVars, pend, noting, retry, old, event, existed, seen, got,
                 regVars, ready, closed, ctx>>

\* The rest of Build: there may be instances to fetch at once; the first call
\* starts serverproc.
BuildSignal(r) ==
  /\ rpc[r] = "signal"
  /\ event' = [event EXCEPT ![r] = @ \/ existed[r]] /\ existed' = [existed EXCEPT ![r] = FALSE]
  /\ once' = TRUE /\ spc' = IF once THEN spc ELSE "top"
  /\ rpc' = [rpc EXCEPT ![r] = "wait"]
  /\ UNCHANGED <<view, appVars, nodeVars, pollVars, pend, noting, retry, old, seen, got,
                 regVars, ready, closed, ctx>>

\* A watcher receives the signal.
Receive(r) ==
  /\ rpc[r] = "wait" /\ event[r]
  /\ event' = [event EXCEPT ![r] = FALSE] /\ rpc' = [rpc EXCEPT ![r] = "fetch"]
  /\ UNCHANGED <<view, appVars, nodeVars, pollVars, procVars, existed, seen, got, regVars, once,
                 ready, closed, ctx>>

\* Fetch.
Fetch(r) ==
  /\ r # SelfR /\ rpc[r] = "fetch"
  /\ seen' = [seen EXCEPT ![r] = zoneIns[AppOf[r]].ver] /\ rpc' = [rpc EXCEPT ![r] = "wait"]
  /\ UNCHANGED <<view, appVars, nodeVars, pollVars, procVars, existed, event, got, regVars, once, ready,
                 closed, ctx>>

\* Fetch of the client's own watcher, and newSelf when there is something, which
\* has nothing to do when every node is known already.
SelfFetch ==
  LET ins == zoneIns[Self]
      known == ins.ins \subseteq Range(node)
  IN
  /\ rpc[SelfR] = "fetch"
  /\ seen' = [seen EXCEPT ![SelfR] = ins.ver]
  /\ rpc' = [rpc EXCEPT ![SelfR] = IF known THEN "wait" ELSE "put"]
  /\ got' = IF known THEN {} ELSE ins.ins
  /\ ready' = (ready \/ known)
  /\ UNCHANGED <<view, appVars, nodeVars, pollVars, procVars, existed, event, regVars, once, closed, ctx>>

\* newSelf: the new list in any order; NewRegistry returns after the first.
SelfPut ==
  /\ rpc[SelfR] = "put"
  /\ node' \in SetToSeqs(got) /\ got' = {}
  /\ rpc' = [rpc EXCEPT ![SelfR] = "wait"] /\ ready' = TRUE
  /\ UNCHANGED <<view, appVars, nodeIdx, pollVars, procVars, existed, event, seen, regVars,
                 once, closed, ctx>>

\* Resolve.Close; the application stays, and may be watched again by a new Resolve.
ResolveClose(r) ==
  /\ r # SelfR /\ rpc[r] = "wait"
  /\ resolver' = [resolver EXCEPT ![AppOf[r]] = @ \ {r}]
  /\ rpc' = [rpc EXCEPT ![r] = "none"] /\ event' = [event EXCEPT ![r] = FALSE]
  /\ seen' = [seen EXCEPT ![r] = 0]
  /\ UNCHANGED <<view, apps, lastTs, zoneIns, nodeVars, pollVars, procVars, existed, got, regVars, once,
                 ready, closed, ctx>>

-----------------------------------------------------------------------------
(* serverproc *)

\* The next round of the loop, which needs a context.
Continue == spc' = IF ctx' = "nil" THEN "top" ELSE "select"

\* A context is made.
MakeContext ==
  /\ spc = "top" /\ ctx' = "own" /\ spc' = "store"
  /\ UNCHANGED <<view, appVars, nodeVars, pollVars, pend, noting, retry, old, watchVars, regVars, once,
                 ready, closed>>

\* d.cancelPolls = cancel.  Until then Build calls the cancel of an older context.
StoreCancel ==
  /\ spc = "store" /\ ctx' = "stored" /\ spc' = "select"
  /\ UNCHANGED <<view, appVars, nodeVars, pollVars, pend, noting, retry, old, watchVars, regVars, once,
                 ready, closed>>

\* select: Discovery.ctx is done.
SelectDone ==
  /\ spc = "select" /\ closed /\ spc' = "ended"
  /\ UNCHANGED <<view, appVars, nodeVars, pollVars, pend, noting, retry, old, watchVars, regVars, once,
                 ready, closed, ctx>>

\* Mutant of Polls: the timestamps of the last node are kept.
PollsKeepTs ==
  /\ spc = "select" /\ spc' = "get"
  /\ switchNode \/ (~closed /\ UNCHANGED nodeIdx)
  /\ lastHost' \in Picks(nodeIdx') /\ asked' = [a \in apps |-> lastTs[a]]
  /\ UNCHANGED <<view, appVars, node, pend, noting, retry, old, watchVars, regVars, once, ready,
                 closed, ctx>>

\* select: the ticker, which may be chosen although ctx is done, or neither.  Then
\* polls, up to its request: the node to ask, the applications and their timestamps,
\* which start again when it is another node than the last.
Polls ==
  /\ spc = "select" /\ spc' = "get"
  /\ switchNode \/ (~closed /\ UNCHANGED nodeIdx)
  /\ lastHost' \in Picks(nodeIdx')
  /\ lastTs' = [a \in Apps |-> IF lastHost' # lastHost /\ a \in apps THEN NoTs ELSE lastTs[a]]
  /\ asked' = [a \in apps |-> lastTs'[a]]
  /\ UNCHANGED <<view, apps, resolver, zoneIns, node, pend, noting, retry, old, watchVars, regVars,
                 once, ready, closed, ctx>>

\* The applications asked for of which the node has something newer.
Newer == {a \in DOMAIN asked : view[a].ver > asked[a].ver}

\* httpClient.Get answers: what is newer, or NotModified after a while.
GetOk ==
  /\ spc = "get" /\ spc' = "bcast" /\ asked' = <<>>
  /\ pend' = [a \in Newer |-> view[a]] /\ retry' = 0
  /\ UNCHANGED <<view, appVars, nodeVars, lastHost, noting, old, watchVars, regVars, once, ready,
                 closed, ctx>>

\* Mutant of GetFails: every failure is the first.
GetFailsForgets ==
  /\ spc = "get" /\ asked' = <<>> /\ switchNode
  /\ IF Canceled THEN ctx' = "nil" /\ Continue /\ UNCHANGED retry
     ELSE /\ retry' = 0 /\ UNCHANGED ctx
          /\ IF retry >= Len(node) THEN spc' = "load" ELSE Continue
  /\ UNCHANGED <<view, appVars, node, lastHost, pend, noting, old, watchVars, regVars, once, ready, closed>>

\* httpClient.Get fails: the context was cancelled, no connection, a timeout, an
\* error code or an answer that polls refuses.  The next node, and a new context
\* when this one was cancelled; otherwise the seeds join when the whole list has
\* failed.
GetFails ==
  /\ spc = "get" /\ asked' = <<>> /\ switchNode
  /\ IF Canceled THEN ctx' = "nil" /\ Continue /\ UNCHANGED retry
     ELSE /\ retry' = (IF retry >= Len(node) THEN 0 ELSE retry) + 1 /\ UNCHANGED ctx
          /\ IF retry >= Len(node) THEN spc' = "load" ELSE Continue
  /\ UNCHANGED <<view, appVars, node, lastHost, pend, noting, old, watchVars, regVars, once, ready, closed>>

\* tryAppendSeedNodes loads the list.
LoadNodes ==
  /\ spc = "load" /\ spc' = "seed" /\ old' = node
  /\ UNCHANGED <<view, appVars, nodeVars, pollVars, pend, noting, retry, watchVars, regVars, once, ready,
                 closed, ctx>>

\* The seeds that are not in the list it loaded, in the order of Config.Nodes.
InOrder(s) ==
  \A i, k \in DOMAIN s : i < k => \E m, n \in DOMAIN Seeds : m < n /\ s[i] = Seeds[m] /\ s[k] = Seeds[n]
Missing == {s \in SetToSeqs(Range(Seeds) \ Range(old)) : InOrder(s)}

\* tryAppendSeedNodes: the list it loaded and the seeds that are missing in it; a
\* list that newSelf stored meanwhile is lost.
AppendSeeds ==
  /\ spc = "seed" /\ UNCHANGED ctx /\ Continue /\ old' = <<>>
  /\ \E s \in Missing : node' = IF old = <<>> \/ s = <<>> THEN node ELSE old \o s
  /\ UNCHANGED <<view, appVars, nodeIdx, pollVars, pend, noting, retry, watchVars, regVars, once, ready,
                 closed>>

\* broadcast: the next application; one without instances is passed over.
BroadcastStore(a) ==
  /\ spc = "bcast" /\ noting = {} /\ a \in DOMAIN pend /\ pend' = Restrict(pend, DOMAIN pend \ {a})
  /\ IF pend[a].ins = {} THEN UNCHANGED <<lastTs, zoneIns, noting>>
     ELSE /\ lastTs' = [lastTs EXCEPT ![a] = [node |-> lastHost, ver |-> pend[a].ver]]
          /\ zoneIns' = [zoneIns EXCEPT ![a] = pend[a]]
          /\ noting' = {a}
  /\ UNCHANGED <<view, apps, resolver, nodeVars, pollVars, spc, retry, old, watchVars, regVars, once,
                 ready, closed, ctx>>

\* broadcast: the watchers of the application are signalled, under the read lock.
BroadcastSignal ==
  /\ spc = "bcast" /\ noting # {} /\ noting' = {}
  /\ event' = [r \in Resolvers |-> event[r] \/ \E a \in noting : r \in resolver[a]]
  /\ UNCHANGED <<view, appVars, nodeVars, pollVars, spc, pend, retry, old, rpc, existed, seen, got,
                 regVars, once, ready, closed, ctx>>

BroadcastEnds ==
  /\ spc = "bcast" /\ noting = {} /\ pend = <<>> /\ UNCHANGED ctx /\ Continue
  /\ UNCHANGED <<view, appVars, nodeVars, pollVars, pend, noting, retry, old, watchVars, regVars, once,
                 ready, closed>>

-----------------------------------------------------------------------------
(* Register, its goroutine, and Set *)

othersOfReg == <<view, appVars, node, pollVars, procVars, watchVars, once, ready, closed, ctx>>

\* A request to a discovery node: it fails on the way, which turns to the next
\* node, or it is answered.
Post == switchNode \/ UNCHANGED nodeIdx

GotoReg(g, s) == gpc' = [gpc EXCEPT ![g] = s]

\* Register: the service is entered; ErrDuplication and no change when it is there, as
\* it still is after it was cancelled.
Register(g) ==
  /\ gpc[g] = "none" /\ ready /\ ServiceOf[g] \notin registry
  /\ GotoReg(g, "post") /\ registry' = registry \cup {ServiceOf[g]}
  /\ UNCHANGED <<othersOfReg, nodeIdx, callers, ch>>

\* Register: the first request is answered OK, and the goroutine is started.
RegisterOk(g) ==
  /\ gpc[g] = "post" /\ ~closed /\ GotoReg(g, "run")
  /\ UNCHANGED <<othersOfReg, nodeIdx, registry, callers, ch>>

\* Register: it failed; the caller may try again.
RegisterFails(g) ==
  /\ gpc[g] = "post" /\ Post /\ GotoReg(g, "none")
  /\ registry' = registry \ {ServiceOf[g]}
  /\ UNCHANGED <<othersOfReg, callers, ch>>

\* The goroutine's ticker: renew, and register when the node does not know the
\* instance; each request may turn to the next node.
Renew(g) ==
  /\ gpc[g] = "run"
  /\ nodeIdx' \in {(nodeIdx + n) % Cycle : n \in 0..2}
  /\ UNCHANGED <<othersOfReg, regVars>>

\* The context of the goroutine was cancelled by a call of cancelFunc.
Stopped(g) == callers[g] > 0 \/ ch[g] = "taken"

\* Any goroutine calls the cancelFunc that Register returned, at any time and again:
\* cancel, and it receives from ch or waits for it.
CancelFunc(g) ==
  /\ gpc[g] \in {"run", "ended"}
  /\ callers[g] + (IF ch[g] = "taken" THEN 1 ELSE 0) < MaxCancels
  /\ \/ ch[g] = "sent" /\ ch' = [ch EXCEPT ![g] = "taken"] /\ UNCHANGED callers
     \/ ch[g] # "sent" /\ callers' = [callers EXCEPT ![g] = @ + 1] /\ UNCHANGED ch
  /\ UNCHANGED <<othersOfReg, nodeIdx, registry, gpc>>

\* ch <- struct{}{}: to a caller that waits, which returns, or into the buffer.  It
\* is the only value.
Send(g) ==
  \/ callers[g] > 0 /\ callers' = [callers EXCEPT ![g] = @ - 1] /\ ch' = [ch EXCEPT ![g] = "taken"]
  \/ callers[g] = 0 /\ ch' = [ch EXCEPT ![g] = "sent"] /\ UNCHANGED callers

\* Mutant of RunDone: the goroutine goes on while cancel fails.
RunDoneRetries(g) ==
  /\ gpc[g] = "run" /\ (Stopped(g) \/ closed)
  /\ \/ switchNode /\ UNCHANGED <<gpc, callers, ch>>
     \/ UNCHANGED nodeIdx /\ GotoReg(g, "ended") /\ Send(g)
  /\ UNCHANGED <<othersOfReg, registry>>

\* The goroutine's ctx is done, by cancelFunc or Close: cancel, whatever becomes of
\* it, and the send.
RunDone(g) ==
  /\ gpc[g] = "run" /\ (Stopped(g) \/ closed) /\ Post /\ GotoReg(g, "ended") /\ Send(g)
  /\ UNCHANGED <<othersOfReg, registry>>

\* Set, which any goroutine may call: one request.
Set ==
  /\ ready /\ switchNode
  /\ UNCHANGED <<othersOfReg, regVars>>

\* Discovery.Close.
Close ==
  /\ ready /\ ~closed /\ closed' = TRUE
  /\ UNCHANGED <<view, appVars, nodeVars, pollVars, procVars, watchVars, regVars, once, ready, ctx>>

\* The discovery nodes learn of other instances of an application.
Publish(a) ==
  /\ view[a].ver < MaxVer
  /\ \E ins \in Lists[a] : view' = [view EXCEPT ![a] = [ver |-> @.ver + 1, ins |-> ins]]
  /\ UNCHANGED <<appVars, nodeVars, pollVars, procVars, watchVars, regVars, once, ready, closed, ctx>>

-----------------------------------------------------------------------------
ServerProc ==
  \/ MakeContext \/ StoreCancel \/ SelectDone \/ Polls \/ GetOk \/ GetFails \/ LoadNodes
  \/ AppendSeeds \/ BroadcastSignal \/ BroadcastEnds
  \/ \E a \in Apps : BroadcastStore(a)

Watcher(r) == BuildAdd(r) \/ BuildSignal(r) \/ Receive(r) \/ Fetch(r) \/ ResolveClose(r)

SelfProc == SelfFetch \/ SelfPut

Registration(g) == RegisterOk(g) \/ RegisterFails(g) \/ Renew(g) \/ RunDone(g)

Next ==
  \/ ServerProc \/ SelfProc \/ Set \/ Close
  \/ \E r \in Resolvers : Watcher(r)
  \/ \E g \in Regs : Register(g) \/ CancelFunc(g) \/ Registration(g)
  \/ \E a \in Apps : Publish(a)

Spec == Init /\ [][Next]_vars

\* serverproc and the renewing goroutines run when they can, and their requests
\* end by their timeout; a select whose cases are both ready takes each in the end.
FairSpec ==
  /\ Spec /\ WF_vars(ServerProc) /\ SF_vars(SelectDone)
  /\ \A g \in Regs : WF_vars(RegisterOk(g) \/ RegisterFails(g)) /\ SF_vars(RunDone(g))

-----------------------------------------------------------------------------
(* Properties *)

\* The types, and: a poll in progress asks for every application that is watched,
\* or has been cancelled, and the timestamps it carries were issued by the node it
\* goes to, although nodeIdx is moved by every failing request meanwhile.
PollIsCurrent ==
  TypeOK /\ (spc = "get" =>
    /\ apps \subseteq DOMAIN asked \/ Canceled
    /\ \A a \in DOMAIN asked : asked[a] = NoTs \/ asked[a].node = lastHost)

\* A watcher that has not fetched what is stored has a signal, is about to have
\* one or is about to fetch, whether it watched before the instances came, while they
\* were stored, or after.
NoLostUpdate ==
  \A r \in Resolvers : rpc[r] = "wait" /\ seen[r] # zoneIns[AppOf[r]].ver =>
    event[r] \/ AppOf[r] \in noting

\* While no poll succeeds, the seeds join the list of nodes, unless Close is called:
\* a list of nodes that are all gone does not cut the client off for ever.
SeedsRejoin ==
  \/ []<>(spc = "bcast" \/ closed \/ ctx = "done")
  \/ <>[](spc = "off" \/ node = <<>> \/ Range(Seeds) \subseteq Range(node))

\* Close ends serverproc and every renewing goroutine, and a call of cancelFunc ends
\* its goroutine, however their requests go; and of the calls of a cancelFunc, before
\* or after a Close, one returns.  (Any further call waits for ever.)
StopsAll ==
  \A g \in Regs : (closed \/ Stopped(g)) ~>
    /\ gpc[g] \in {"none", "ended"}
    /\ closed => spc = "ended"
    /\ Stopped(g) => ch[g] = "taken"
=============================================================================
