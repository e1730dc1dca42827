--------------------------- MODULE ServiceProofs ----------------------------
(***************************************************************************)
(* A service in the direct mode, for any services, instances, callers and  *)
(* calls: what Discovery tells of its instances however polls, renewals    *)
(* and updates interleave, and that a caller that has a direct.Client for  *)
(* itself gets the reply to its own request.                               *)
(***************************************************************************)
EXTENDS Discovery, MCDirectClient, QueueLemmas, TLAPS

-----------------------------------------------------------------------------
(* Discovery *)

\* The lists of nodes hold nodes, each once.
NodeLists ==
  /\ IsInjective(node) /\ IsInjective(old)
  /\ view[Self].ins \subseteq Nodes /\ zoneIns[Self].ins \subseteq Nodes
  /\ Self \in DOMAIN pend => pend[Self].ins \subseteq Nodes

\* serverproc is started once, and has a context whose cancel is in cancelPolls
\* whenever it polls.
Context ==
  /\ once <=> spc # "off"
  /\ spc \in {"off", "top"} => ctx = "nil"
  /\ spc = "store" => ctx = "own"
  /\ spc \in {"select", "get", "bcast", "load", "seed"} => ctx \in {"stored", "done"}

\* What is asked for, stored or signalled is watched or was, and a watcher from
\* Build to Close is among those that are signalled.
Entered ==
  /\ DOMAIN asked \subseteq apps /\ DOMAIN pend \subseteq apps
  /\ \A a \in Apps \ apps : lastTs[a] = NoTs /\ zoneIns[a] = Nothing
  /\ \A r \in Resolvers : rpc[r] # "none" => AppOf[r] \in apps /\ r \in resolver[AppOf[r]]

\* All timestamps come from the node that was asked last.
Issued == \A a \in Apps : lastTs[a] = NoTs \/ lastTs[a].node = lastHost

\* The poll in progress.
Poll ==
  spc = "get" =>
    /\ apps \subseteq DOMAIN asked \/ Canceled
    /\ \A a \in DOMAIN asked : asked[a] = NoTs \/ asked[a].node = lastHost

\* A watcher is up to date, or it has a signal, or it is about to have one.  The one
\* that Build is about to signal needs nothing yet.
UpToDate(r) == seen[r] = zoneIns[AppOf[r]].ver \/ event[r] \/ AppOf[r] \in noting
Signals ==
  \A r \in Resolvers :
    /\ rpc[r] \in {"none", "signal"} => seen[r] = 0
    /\ rpc[r] \in {"wait", "put"} => UpToDate(r)
    /\ rpc[r] = "signal" /\ ~existed[r] => UpToDate(r)

IInv == TypeOK /\ NodeLists /\ Context /\ Entered /\ Issued /\ Poll /\ Signals

\* What the assumptions give.
LEMMA Constants ==
  /\ Cardinality(Nodes) \in Nat /\ Cardinality(Nodes) >= 1
  /\ NoTs \in [node : Nodes \cup {NoNode}, ver : Versions] /\ Nothing \in Published
<1>1. Cardinality(Nodes) \in Nat /\ (Cardinality(Nodes) = 0 <=> Nodes = {})
  BY DiscoveryAssumption, FS_CardinalityType, FS_EmptySet
<1>2. Head(Seeds) \in Nodes
  BY DiscoveryAssumption, TailQueue
<1>3. 0 \in Versions
  BY DiscoveryAssumption DEF Versions
<1>4. NoTs \in [node : Nodes \cup {NoNode}, ver : Versions] /\ Nothing \in Published
  BY <1>3 DEF NoTs, Nothing, Published
<1>. QED
  BY <1>1, <1>2, <1>4

\* A list of nodes without repetition is no longer than there are nodes.
LEMMA ListLength ==
  ASSUME NEW s \in Seq(Nodes), IsInjective(s)
  PROVE  Len(s) \in Nat /\ Len(s) <= Cardinality(Nodes)
<1>1. Range(s) \subseteq Nodes /\ Cardinality(Range(s)) = Len(s)
  BY QueueCount, RangeOfSeq
<1>. QED
  BY <1>1, DiscoveryAssumption, FS_Subset, LenProperties

\* An enumeration of a set of nodes is a list without repetition.
LEMMA Enumeration ==
  ASSUME NEW S \in SUBSET Nodes, NEW s \in SetToSeqs(S)
  PROVE  s \in Seq(Nodes) /\ IsInjective(s) /\ Range(s) \subseteq S
<1>1. Cardinality(S) \in Nat
  BY DiscoveryAssumption, FS_Subset, FS_CardinalityType
<1>2. s \in [1..Cardinality(S) -> S] /\ IsInjective(s)
  BY DEF SetToSeqs, IsInjective
<1>3. s \in Seq(Nodes)
  BY <1>1, <1>2, SeqDef
<1>. QED
  BY <1>2, <1>3 DEF Range

\* Two lists without repetition that share no node make one.
LEMMA Joined ==
  ASSUME NEW s \in Seq(Nodes), NEW t \in Seq(Nodes), IsInjective(s), IsInjective(t),
         Range(s) \cap Range(t) = {}
  PROVE  s \o t \in Seq(Nodes) /\ IsInjective(s \o t)
<1>1. /\ s \o t \in Seq(Nodes) /\ Len(s \o t) = Len(s) + Len(t)
      /\ \A i \in 1..Len(s) + Len(t) : (s \o t)[i] = IF i <= Len(s) THEN s[i] ELSE t[i - Len(s)]
  BY ConcatProperties
<1>2. Len(s) \in Nat /\ Len(t) \in Nat
  BY LenProperties
<1>3. /\ \A i, k \in 1..Len(s) : s[i] = s[k] => i = k
      /\ \A i, k \in 1..Len(t) : t[i] = t[k] => i = k
  BY InjectiveIndex
<1>4. \A i \in 1..Len(s), k \in 1..Len(t) : s[i] # t[k]
  BY RangeIndex
<1>5. \A i, k \in 1..Len(s) + Len(t) : (s \o t)[i] = (s \o t)[k] => i = k
  BY <1>1, <1>2, <1>3, <1>4
<1>. QED
  BY <1>1, <1>5, InjectiveIndex

\* Before NewRegistry calls Build the inductive invariant holds.
LEMMA InitIInv ==
  ASSUME Init
  PROVE  IInv
<1>. USE DEF Init
<1>1. /\ 0 \in 0..Cycle - 1 /\ 0 \in Versions /\ 0 \in 0..Cardinality(Nodes)
      /\ 0 \in 0..MaxCancels
  BY Constants, DiscoveryAssumption DEF Versions
<1>2. <<>> \in Seq(Nodes) /\ DOMAIN <<>> = {}
  OBVIOUS
<1>3. TypeOK
  BY <1>1, <1>2, Constants DEF TypeOK
<1>4. NodeLists
  BY <1>2, EmptyQueue, DiscoveryAssumption DEF NodeLists, Nothing
<1>5. Context /\ Entered /\ Issued /\ Poll
  BY <1>2 DEF Context, Entered, Issued, Poll
<1>6. Signals
  BY DiscoveryAssumption DEF Signals, UpToDate, Nothing
<1>. QED
  BY <1>3, <1>4, <1>5, <1>6 DEF IInv

-----------------------------------------------------------------------------
(* Watching *)

\* Build enters its watcher: an application that is new has nothing stored, and cancels the
\* poll that does not ask for it.
LEMMA BuildAddStep ==
  ASSUME NEW r \in Resolvers, IInv, BuildAdd(r)
  PROVE  IInv'
<1>. USE IInv, BuildAdd(r) DEF IInv, BuildAdd, nodeVars, pollVars, procVars, regVars
<1>0. AppOf[r] \in Apps
  BY DiscoveryAssumption
<1>1. TypeOK'
  BY <1>0 DEF TypeOK
<1>2. NodeLists'
  BY DEF NodeLists
<1>3. Context'
  BY DEF Context
<1>4. Entered'
  BY <1>0 DEF Entered, TypeOK
<1>5. Issued'
  BY DEF Issued
<1>6. Poll'
  BY DEF Poll, Canceled, Context
<1>7. Signals'
  <2>1. AppOf[r] \notin apps => zoneIns[AppOf[r]].ver = 0
    BY <1>0 DEF Entered, Nothing
  <2>2. seen[r] = 0
    BY DEF Signals
  <2>3. ~existed'[r] => UpToDate(r)
    <3>1. existed' = [existed EXCEPT ![r] = AppOf[r] \in apps] /\ existed \in [Resolvers -> BOOLEAN]
      BY DEF TypeOK
    <3>2. existed'[r] <=> AppOf[r] \in apps
      BY <3>1, Zenon
    <3>. QED
      BY <2>1, <2>2, <3>2 DEF UpToDate
  <2>4. rpc'[r] = "signal" /\ \A q \in Resolvers \ {r} : rpc'[q] = rpc[q] /\ existed'[q] = existed[q]
    BY DEF TypeOK
  <2>5. UNCHANGED <<seen, zoneIns, event, noting>>
    OBVIOUS
  <2>6. \A q \in Resolvers : UpToDate(q) => UpToDate(q)'
    BY <2>5 DEF UpToDate
  <2>. QED
    BY <2>2, <2>3, <2>4, <2>5, <2>6 DEF Signals
<1>. QED
  BY <1>1, <1>2, <1>3, <1>4, <1>5, <1>6, <1>7

\* A watcher of a known application starts with a signal; another is up to date.
LEMMA BuildSignalStep ==
  ASSUME NEW r \in Resolvers, IInv, BuildSignal(r)
  PROVE  IInv'
<1>. USE IInv, BuildSignal(r) DEF IInv, BuildSignal, appVars, nodeVars, pollVars, regVars
<1>1. TypeOK'
  BY DEF TypeOK
<1>2. NodeLists'
  BY DEF NodeLists
<1>3. Context'
  BY DEF Context
<1>4. Entered' /\ Issued'
  BY DEF Entered, Issued, TypeOK
<1>5. Poll'
  BY DEF Poll, Canceled, Context
<1>6. Signals'
  BY DEF Signals, UpToDate, TypeOK
<1>. QED
  BY <1>1, <1>2, <1>3, <1>4, <1>5, <1>6

\* A watcher that took its signal is going to fetch.
LEMMA ReceiveStep ==
  ASSUME NEW r \in Resolvers, IInv, Receive(r)
  PROVE  IInv'
<1>. USE IInv, Receive(r) DEF IInv, Receive, appVars, nodeVars, pollVars, procVars, regVars
<1>1. TypeOK'
  BY DEF TypeOK
<1>2. NodeLists' /\ Context' /\ Issued' /\ Poll'
  BY DEF NodeLists, Context, Issued, Poll, Canceled
<1>3. Entered'
  BY DEF Entered, TypeOK
<1>4. Signals'
  BY DEF Signals, UpToDate, TypeOK
<1>. QED
  BY <1>1, <1>2, <1>3, <1>4

\* A watcher that fetched is up to date.
LEMMA FetchStep ==
  ASSUME NEW r \in Resolvers, IInv, Fetch(r)
  PROVE  IInv'
<1>. USE IInv, Fetch(r) DEF IInv, Fetch, appVars, nodeVars, pollVars, procVars, regVars
<1>0. zoneIns[AppOf[r]].ver \in Versions
  BY DiscoveryAssumption DEF TypeOK, Published
<1>1. TypeOK'
  BY <1>0 DEF TypeOK
<1>2. NodeLists' /\ Context' /\ Issued' /\ Poll'
  BY DEF NodeLists, Context, Issued, Poll, Canceled
<1>3. Entered'
  BY DEF Entered, TypeOK
<1>4. Signals'
  BY DEF Signals, UpToDate, TypeOK
<1>. QED
  BY <1>1, <1>2, <1>3, <1>4

\* The client's own watcher fetches, and has nodes to put, or none.
LEMMA SelfFetchStep ==
  ASSUME IInv, SelfFetch
  PROVE  IInv'
<1>. USE IInv, SelfFetch DEF IInv, SelfFetch, appVars, nodeVars, pollVars, procVars, regVars
<1>0. /\ SelfR \in Resolvers /\ AppOf[SelfR] = Self /\ zoneIns[Self].ver \in Versions
      /\ zoneIns[Self].ins \subseteq Nodes
  BY DiscoveryAssumption DEF TypeOK, Published, NodeLists
<1>1. TypeOK'
  <2>1. got' \subseteq Nodes
    BY <1>0
  <2>2. ready' \in BOOLEAN
    OBVIOUS
  <2>. QED
    BY <1>0, <2>1, <2>2 DEF TypeOK
<1>2. NodeLists' /\ Context' /\ Issued' /\ Poll'
  BY DEF NodeLists, Context, Issued, Poll, Canceled
<1>3. Entered'
  BY DEF Entered, TypeOK
<1>4. Signals'
  BY <1>0 DEF Signals, UpToDate, TypeOK
<1>. QED
  BY <1>1, <1>2, <1>3, <1>4

\* The new list of nodes is an enumeration of what was fetched.
LEMMA SelfPutStep ==
  ASSUME IInv, SelfPut
  PROVE  IInv'
<1>. USE IInv, SelfPut DEF IInv, SelfPut, appVars, pollVars, procVars, regVars
<1>0. SelfR \in Resolvers /\ node' \in Seq(Nodes) /\ IsInjective(node')
  BY DiscoveryAssumption, Enumeration DEF TypeOK
<1>1. TypeOK'
  BY <1>0 DEF TypeOK
<1>2. NodeLists' /\ Context' /\ Issued' /\ Poll'
  BY <1>0 DEF NodeLists, Context, Issued, Poll, Canceled
<1>3. Entered'
  BY DEF Entered, TypeOK
<1>4. Signals'
  BY <1>0 DEF Signals, UpToDate, TypeOK
<1>. QED
  BY <1>1, <1>2, <1>3, <1>4

\* A watcher that closes is not among those to signal any more, and owes nothing.
LEMMA ResolveCloseStep ==
  ASSUME NEW r \in Resolvers, IInv, ResolveClose(r)
  PROVE  IInv'
<1>. USE IInv, ResolveClose(r) DEF IInv, ResolveClose, nodeVars, pollVars, procVars, regVars
<1>0. AppOf[r] \in Apps /\ 0 \in Versions
  BY DiscoveryAssumption DEF Versions
<1>1. TypeOK'
  BY <1>0 DEF TypeOK
<1>2. NodeLists' /\ Context' /\ Issued' /\ Poll'
  BY DEF NodeLists, Context, Issued, Poll, Canceled
<1>3. Entered'
  BY <1>0 DEF Entered, TypeOK
<1>4. Signals'
  BY DEF Signals, UpToDate, TypeOK
<1>. QED
  BY <1>1, <1>2, <1>3, <1>4

-----------------------------------------------------------------------------
(* serverproc *)

\* A step of serverproc that only moves on, with what it does to its context.
LEMMA ServerStep ==
  ASSUME IInv, spc' \in {"top", "store", "select", "load", "seed", "ended"}, spc # "off",
         ctx' \in {"nil", "own", "stored", "done"}, Context',
         asked' = asked \/ asked' = <<>>, nodeIdx' \in 0..Cycle - 1,
         retry' \in 0..Cardinality(Nodes), node' \in Seq(Nodes), IsInjective(node'),
         old' \in Seq(Nodes), IsInjective(old'),
         UNCHANGED <<view, appVars, lastHost, pend, noting, watchVars, regVars, once, ready, closed>>
  PROVE  IInv'
<1>. USE IInv DEF IInv, appVars, watchVars, regVars
<1>0. DOMAIN <<>> = {}
  OBVIOUS
<1>1. TypeOK'
  BY <1>0 DEF TypeOK
<1>2. NodeLists' /\ Issued' /\ Poll'
  BY DEF NodeLists, Issued, Poll
<1>3. Entered'
  BY <1>0 DEF Entered
<1>4. Signals'
  BY DEF Signals, UpToDate
<1>. QED
  BY <1>1, <1>2, <1>3, <1>4

\* nodeIdx stays in its range.
LEMMA NextNode ==
  ASSUME IInv, switchNode \/ UNCHANGED nodeIdx
  PROVE  nodeIdx' \in 0..Cycle - 1
<1>1. nodeIdx \in 0..Cycle - 1 /\ Cycle \in Nat \ {0}
  BY DiscoveryAssumption DEF IInv, TypeOK
<1>2. (nodeIdx + 1) % Cycle \in 0..Cycle - 1
  BY <1>1
<1>. QED
  BY <1>1, <1>2 DEF switchNode

\* Making a context, storing its cancel and ending keep context and place in step.
LEMMA ContextStep ==
  ASSUME IInv, MakeContext \/ StoreCancel \/ SelectDone
  PROVE  IInv'
<1>. USE DEF MakeContext, StoreCancel, SelectDone, nodeVars, pollVars
<1>1. Context'
  BY DEF IInv, Context
<1>2. /\ nodeIdx' \in 0..Cycle - 1 /\ retry' \in 0..Cardinality(Nodes)
      /\ node' \in Seq(Nodes) /\ old' \in Seq(Nodes)
  BY DEF IInv, TypeOK
<1>3. IsInjective(node') /\ IsInjective(old')
  BY DEF IInv, NodeLists
<1>4. spc # "off" /\ ctx' \in {"nil", "own", "stored", "done"}
  BY DEF IInv, TypeOK
<1>. QED
  BY <1>1, <1>2, <1>3, <1>4, ServerStep

\* The list that is loaded is the list there is.
LEMMA LoadNodesStep ==
  ASSUME IInv, LoadNodes
  PROVE  IInv'
<1>. USE DEF LoadNodes, nodeVars, pollVars
<1>1. Context'
  BY DEF IInv, Context
<1>2. /\ nodeIdx' \in 0..Cycle - 1 /\ retry' \in 0..Cardinality(Nodes)
      /\ node' \in Seq(Nodes) /\ old' \in Seq(Nodes)
  BY DEF IInv, TypeOK
<1>3. IsInjective(node') /\ IsInjective(old')
  BY DEF IInv, NodeLists
<1>4. ctx' \in {"nil", "own", "stored", "done"}
  BY DEF IInv, TypeOK
<1>. QED
  BY <1>1, <1>2, <1>3, <1>4, ServerStep

\* The list that was loaded and the missing seeds make a list without repetition.
LEMMA AppendSeedsStep ==
  ASSUME IInv, AppendSeeds
  PROVE  IInv'
<1>. USE DEF AppendSeeds, Continue, pollVars
<1>1. Context'
  BY DEF IInv, Context
<1>2. /\ nodeIdx' \in 0..Cycle - 1 /\ retry' \in 0..Cardinality(Nodes)
      /\ old' \in Seq(Nodes) /\ IsInjective(old')
  BY EmptyQueue DEF IInv, TypeOK
<1>3. node' \in Seq(Nodes) /\ IsInjective(node')
  <2>1. /\ node \in Seq(Nodes) /\ old \in Seq(Nodes)
        /\ IsInjective(node) /\ IsInjective(old)
    BY DEF IInv, TypeOK, NodeLists
  <2>2. PICK s \in Missing : node' = IF old = <<>> \/ s = <<>> THEN node ELSE old \o s
    OBVIOUS
  <2>3. Range(Seeds) \ Range(old) \subseteq Nodes
    BY DiscoveryAssumption, RangeOfSeq
  <2>4. s \in Seq(Nodes) /\ IsInjective(s) /\ Range(s) \subseteq Range(Seeds) \ Range(old)
    BY <2>3, Enumeration DEF Missing
  <2>5. old \o s \in Seq(Nodes) /\ IsInjective(old \o s)
    BY <2>1, <2>4, Joined
  <2>. QED
    BY <2>1, <2>2, <2>5
<1>4. ctx' \in {"nil", "own", "stored", "done"}
  BY DEF IInv, TypeOK
<1>. QED
  BY <1>1, <1>2, <1>3, <1>4, ServerStep

\* retry counts up to the length of the list, and a cancelled context is replaced.
LEMMA GetFailsStep ==
  ASSUME IInv, GetFails
  PROVE  IInv'
<1>1. nodeIdx' \in 0..Cycle - 1
  BY NextNode DEF GetFails
<1>2. retry' \in 0..Cardinality(Nodes)
  <2>1. retry \in 0..Cardinality(Nodes) /\ Len(node) \in Nat /\ Len(node) <= Cardinality(Nodes)
    BY ListLength DEF IInv, TypeOK, NodeLists
  <2>2. retry' = retry \/ retry' = (IF retry >= Len(node) THEN 0 ELSE retry) + 1
    BY DEF GetFails
  <2>. QED
    BY <2>1, <2>2, Constants
<1>3. node' \in Seq(Nodes) /\ IsInjective(node') /\ old' \in Seq(Nodes) /\ IsInjective(old')
  BY DEF GetFails, IInv, TypeOK, NodeLists
<1>4. Context' /\ ctx' \in {"nil", "own", "stored", "done"} /\ spc' \in {"top", "select", "load"}
  BY DEF GetFails, Continue, IInv, TypeOK, Context
<1>. QED
  BY <1>1, <1>2, <1>3, <1>4, ServerStep DEF GetFails

\* A new poll asks for everything that is watched, and forgets the timestamps of another node.
LEMMA PollsStep ==
  ASSUME IInv, Polls
  PROVE  IInv'
<1>. USE IInv, Polls DEF IInv, Polls, watchVars, regVars
<1>1. nodeIdx' \in 0..Cycle - 1
  BY NextNode
<1>2. lastHost' \in Nodes
  <2>1. CASE node = <<>>
    BY <2>1, DiscoveryAssumption, RangeOfSeq DEF Picks
  <2>2. CASE node # <<>>
    <3>1. Len(node) \in Nat \ {0} /\ node \in Seq(Nodes)
      BY <2>2, LenProperties, EmptySeq DEF TypeOK
    <3>2. (nodeIdx' % Len(node)) + 1 \in 1..Len(node)
      BY <1>1, <3>1, DiscoveryAssumption
    <3>3. node[(nodeIdx' % Len(node)) + 1] \in Nodes
      BY <3>1, <3>2, ElementOfSeq
    <3>. QED
      BY <2>2, <3>3 DEF Picks
  <2>. QED
    BY <2>1, <2>2
<1>3. lastTs' \in [Apps -> [node : Nodes \cup {NoNode}, ver : Versions]]
  BY Constants DEF TypeOK
<1>4. DOMAIN asked' = apps /\ apps \subseteq Apps
  BY DEF TypeOK
<1>5. TypeOK'
  BY <1>1, <1>2, <1>3, <1>4 DEF TypeOK
<1>6. NodeLists' /\ Context'
  BY DEF NodeLists, Context
<1>7. Entered'
  BY <1>4 DEF Entered
<1>8. Issued'
  BY DEF Issued, Entered
<1>9. Poll'
  BY <1>4, <1>8 DEF Poll, Issued
<1>10. Signals'
  BY DEF Signals, UpToDate
<1>. QED
  BY <1>5, <1>6, <1>7, <1>8, <1>9, <1>10

\* What was answered is of applications that are watched or were.
LEMMA GetOkStep ==
  ASSUME IInv, GetOk
  PROVE  IInv'
<1>. USE IInv, GetOk DEF IInv, GetOk, appVars, nodeVars, watchVars, regVars
<1>0. /\ DOMAIN <<>> = {} /\ DOMAIN pend' \subseteq apps /\ apps \subseteq Apps
      /\ \A a \in DOMAIN pend' : pend'[a] = view[a]
      /\ 0 \in 0..Cardinality(Nodes)
  BY Constants DEF Newer, Entered, TypeOK
<1>1. TypeOK'
  BY <1>0 DEF TypeOK
<1>2. NodeLists'
  BY <1>0 DEF NodeLists
<1>3. Context' /\ Issued' /\ Poll'
  BY DEF Context, Issued, Poll
<1>4. Entered'
  BY <1>0 DEF Entered
<1>5. Signals'
  BY DEF Signals, UpToDate
<1>. QED
  BY <1>1, <1>2, <1>3, <1>4, <1>5

\* What is stored carries the timestamp of the node that answered, and its watchers are owed
\* a signal.
LEMMA BroadcastStoreStep ==
  ASSUME NEW a \in Apps, IInv, BroadcastStore(a)
  PROVE  IInv'
<1>. USE IInv, BroadcastStore(a) DEF IInv, BroadcastStore, nodeVars, pollVars, watchVars, regVars
<1>0. /\ a \in DOMAIN pend /\ pend[a] \in Published /\ pend[a].ver \in Versions /\ a \in apps
      /\ DOMAIN pend' \subseteq DOMAIN pend /\ \A b \in DOMAIN pend' : pend'[b] = pend[b]
  BY DEF TypeOK, Published, Entered, Restrict
<1>1. TypeOK'
  <2>1. [node |-> lastHost, ver |-> pend[a].ver] \in [node : Nodes \cup {NoNode}, ver : Versions]
    BY <1>0 DEF TypeOK
  <2>2. /\ lastTs' \in [Apps -> [node : Nodes \cup {NoNode}, ver : Versions]]
        /\ zoneIns' \in [Apps -> Published] /\ noting' \subseteq Apps
    <3>1. /\ lastTs \in [Apps -> [node : Nodes \cup {NoNode}, ver : Versions]]
          /\ zoneIns \in [Apps -> Published] /\ noting \subseteq Apps
      BY DEF TypeOK
    <3>2. CASE pend[a].ins = {}
      BY <3>1, <3>2
    <3>3. CASE pend[a].ins # {}
      BY <1>0, <2>1, <3>1, <3>3
    <3>. QED
      BY <3>2, <3>3
  <2>. QED
    BY <1>0, <2>2 DEF TypeOK
<1>2. NodeLists'
  <2>1. zoneIns'[Self] \in {zoneIns[Self]} \cup {pend[b] : b \in DOMAIN pend \cap {Self}}
    BY <1>0, DiscoveryAssumption DEF TypeOK
  <2>2. zoneIns'[Self].ins \subseteq Nodes
    BY <2>1 DEF NodeLists
  <2>3. Self \in DOMAIN pend' => pend'[Self].ins \subseteq Nodes
    BY <1>0 DEF NodeLists
  <2>. QED
    BY <2>2, <2>3 DEF NodeLists
<1>3. Context' /\ Poll'
  BY DEF Context, Poll
<1>4. Entered'
  BY <1>0 DEF Entered, TypeOK
<1>5. Issued'
  <2>1. [node |-> lastHost, ver |-> pend[a].ver].node = lastHost
    OBVIOUS
  <2>. QED
    BY <2>1 DEF Issued, TypeOK
<1>6. Signals'
  <2>1. \A r \in Resolvers : AppOf[r] \in Apps
    BY DiscoveryAssumption
  <2>. QED
    BY <2>1 DEF Signals, UpToDate, TypeOK
<1>. QED
  BY <1>1, <1>2, <1>3, <1>4, <1>5, <1>6

\* The watchers that broadcast signals are all those that are owed a signal: Build
\* enters a watcher before it reads anything.
LEMMA BroadcastSignalStep ==
  ASSUME IInv, BroadcastSignal
  PROVE  IInv'
<1>. USE IInv, BroadcastSignal DEF IInv, BroadcastSignal, appVars, nodeVars, pollVars, regVars
<1>1. TypeOK'
  <2>1. event' \in [Resolvers -> BOOLEAN]
    BY Zenon DEF TypeOK
  <2>. QED
    BY <2>1 DEF TypeOK
<1>2. NodeLists' /\ Context' /\ Issued' /\ Poll' /\ Entered'
  BY DEF NodeLists, Context, Issued, Poll, Entered
<1>3. Signals'
  <2>1. ASSUME NEW r \in Resolvers, rpc[r] # "none", UpToDate(r) PROVE UpToDate(r)'
    <3>1. AppOf[r] \in noting => r \in resolver[AppOf[r]]
      BY <2>1 DEF Entered
    <3>2. event'[r] <=> (event[r] \/ \E a \in noting : r \in resolver[a])
      BY Zenon
    <3>. QED
      BY <2>1, <3>1, <3>2 DEF UpToDate
  <2>. QED
    BY <2>1 DEF Signals
<1>. QED
  BY <1>1, <1>2, <1>3

\* After the broadcast serverproc goes on with the context it has.
LEMMA BroadcastEndsStep ==
  ASSUME IInv, BroadcastEnds
  PROVE  IInv'
<1>. USE DEF BroadcastEnds, Continue, nodeVars, pollVars
<1>1. Context'
  BY DEF IInv, Context
<1>2. /\ nodeIdx' \in 0..Cycle - 1 /\ retry' \in 0..Cardinality(Nodes)
      /\ node' \in Seq(Nodes) /\ old' \in Seq(Nodes)
  BY DEF IInv, TypeOK
<1>3. IsInjective(node') /\ IsInjective(old')
  BY DEF IInv, NodeLists
<1>4. ctx' \in {"nil", "own", "stored", "done"}
  BY DEF IInv, TypeOK
<1>. QED
  BY <1>1, <1>2, <1>3, <1>4, ServerStep

-----------------------------------------------------------------------------
(* Registration, Close and the nodes *)

\* Where each Register, its goroutine and its channel stand.
Registrations ==
  /\ gpc \in [Regs -> {"none", "post", "run", "ended"}]
  /\ callers \in [Regs -> 0..MaxCancels] /\ ch \in [Regs -> {"empty", "sent", "taken"}]

\* A step of Register, of its goroutine or of Set moves nodeIdx and nothing else
\* that serverproc or a watcher looks at.
LEMMA RegStep ==
  ASSUME IInv, nodeIdx' \in 0..Cycle - 1, UNCHANGED othersOfReg, Registrations'
  PROVE  IInv'
<1>0. TypeOK
  BY DEF IInv
<1>1. TypeOK'
  BY <1>0 DEF TypeOK, Registrations, othersOfReg, appVars, pollVars, procVars, watchVars
<1>. USE IInv DEF IInv, othersOfReg, appVars, pollVars, procVars, watchVars
<1>2. NodeLists' /\ Context' /\ Entered' /\ Issued' /\ Poll'
  BY DEF NodeLists, Context, Entered, Issued, Poll, Canceled
<1>3. Signals'
  BY DEF Signals, UpToDate
<1>. QED
  BY <1>1, <1>2, <1>3

\* The steps of Register and its goroutine are such steps.
LEMMA RegistrationStep ==
  ASSUME NEW g \in Regs, IInv, Register(g) \/ CancelFunc(g) \/ Registration(g)
  PROVE  IInv'
<1>0. /\ Registrations /\ MaxCancels \in Nat
      /\ callers[g] \in 0..MaxCancels /\ ch[g] \in {"empty", "sent", "taken"}
  <2>1. Registrations
    BY Zenon DEF IInv, TypeOK, Registrations
  <2>2. callers[g] \in 0..MaxCancels /\ ch[g] \in {"empty", "sent", "taken"}
    BY <2>1 DEF Registrations
  <2>3. MaxCancels \in Nat
    BY Zenon, DiscoveryAssumption
  <2>. QED
    BY <2>1, <2>2, <2>3
<1>1. Registrations'
  <2>1. CASE Register(g) \/ RegisterOk(g) \/ RegisterFails(g) \/ Renew(g)
    BY <1>0, <2>1 DEF Registrations, Register, RegisterOk, RegisterFails, Renew, GotoReg, regVars
  <2>2. CASE CancelFunc(g)
    <3>1. CASE UNCHANGED <<gpc, callers>> /\ ch' = [ch EXCEPT ![g] = "taken"]
      BY <1>0, <3>1 DEF Registrations
    <3>2. CASE UNCHANGED <<gpc, ch>> /\ callers' = [callers EXCEPT ![g] = @ + 1]
      <4>1. PICK x, y, n : x = callers[g] /\ y = (IF ch[g] = "taken" THEN 1 ELSE 0) /\ n = MaxCancels
        OBVIOUS
      <4>2. x \in 0..n /\ n \in Nat /\ y \in {0, 1} /\ x + y < n
        BY <1>0, <2>2, <4>1 DEF CancelFunc
      <4>3. x + 1 \in 0..n
        BY <4>2
      <4>. QED
        BY <1>0, <3>2, <4>1, <4>3 DEF Registrations
    <3>. QED
      BY <2>2, <3>1, <3>2 DEF CancelFunc
  <2>3. CASE RunDone(g)
    <3>1. gpc' \in [Regs -> {"none", "post", "run", "ended"}]
      BY <1>0, <2>3 DEF RunDone, GotoReg, Registrations
    <3>2. CASE callers[g] > 0 /\ callers' = [callers EXCEPT ![g] = @ - 1] /\ ch' = [ch EXCEPT ![g] = "taken"]
      <4>1. callers[g] - 1 \in 0..MaxCancels
        BY <1>0, <3>2
      <4>. QED
        BY <1>0, <3>1, <3>2, <4>1 DEF Registrations
    <3>3. CASE ch' = [ch EXCEPT ![g] = "sent"] /\ UNCHANGED callers
      BY <1>0, <3>1, <3>3 DEF Registrations
    <3>. QED
      BY <2>3, <3>2, <3>3 DEF RunDone, Send
  <2>. QED
    BY <2>1, <2>2, <2>3 DEF Registration
<1>2. nodeIdx' \in 0..Cycle - 1
  <2>1. CASE Renew(g)
    <3>1. PICK n \in 0..2 : nodeIdx' = (nodeIdx + n) % Cycle
      BY <2>1 DEF Renew
    <3>2. nodeIdx \in 0..Cycle - 1 /\ Cycle \in Nat \ {0}
      BY DiscoveryAssumption DEF IInv, TypeOK
    <3>. QED
      BY <3>1, <3>2
  <2>2. CASE ~Renew(g)
    BY <2>2, NextNode DEF Register, CancelFunc, Registration, RegisterOk, RegisterFails, RunDone, Post
  <2>. QED
    BY <2>1, <2>2
<1>3. UNCHANGED othersOfReg
  BY DEF Register, CancelFunc, Registration, RegisterOk, RegisterFails, Renew, RunDone
<1>. QED
  BY <1>1, <1>2, <1>3, RegStep

\* So is Set.
LEMMA SetStep ==
  ASSUME IInv, Set
  PROVE  IInv'
<1>1. nodeIdx' \in 0..Cycle - 1
  BY NextNode DEF Set
<1>2. Registrations'
  <2>1. Registrations
    BY Zenon DEF IInv, TypeOK, Registrations
  <2>. QED
    BY <2>1 DEF Set, regVars, Registrations
<1>. QED
  BY <1>1, <1>2, RegStep DEF Set

\* Close cancels whatever poll there is.
LEMMA CloseStep ==
  ASSUME IInv, Close
  PROVE  IInv'
<1>. USE IInv, Close DEF IInv, Close, appVars, nodeVars, pollVars, procVars, watchVars, regVars
<1>1. TypeOK'
  BY DEF TypeOK
<1>2. NodeLists' /\ Context' /\ Entered' /\ Issued' /\ Poll'
  BY DEF NodeLists, Context, Entered, Issued, Poll, Canceled
<1>3. Signals'
  BY DEF Signals, UpToDate
<1>. QED
  BY <1>1, <1>2, <1>3

\* What the nodes learn reaches the client only by a poll.
LEMMA PublishStep ==
  ASSUME NEW a \in Apps, IInv, Publish(a)
  PROVE  IInv'
<1>. USE IInv, Publish(a) DEF IInv, Publish, appVars, nodeVars, pollVars, procVars, watchVars, regVars
<1>0. PICK ins \in Lists[a] : view' = [view EXCEPT ![a] = [ver |-> @.ver + 1, ins |-> ins]]
  OBVIOUS
<1>1. TypeOK'
  <2>1. view[a] \in Published /\ view[a].ver \in Versions /\ view[a].ver < MaxVer
    BY DEF TypeOK, Published
  <2>2. view[a].ver + 1 \in Versions
    BY <2>1, DiscoveryAssumption DEF Versions
  <2>3. ins \subseteq UNION {UNION Lists[b] : b \in Apps}
    OBVIOUS
  <2>4. [ver |-> view[a].ver + 1, ins |-> ins] \in Published
    BY <2>2, <2>3 DEF Published
  <2>5. view' \in [Apps -> Published]
    BY <1>0, <2>4 DEF TypeOK
  <2>. QED
    BY <2>5 DEF TypeOK
<1>2. NodeLists'
  <2>1. view'[Self].ins \subseteq Nodes
    BY <1>0, DiscoveryAssumption DEF NodeLists, TypeOK
  <2>. QED
    BY <2>1 DEF NodeLists
<1>3. Context' /\ Entered' /\ Issued' /\ Poll'
  BY DEF Context, Entered, Issued, Poll, Canceled
<1>4. Signals'
  BY DEF Signals, UpToDate
<1>. QED
  BY <1>1, <1>2, <1>3, <1>4

-----------------------------------------------------------------------------
\* Every step keeps the inductive invariant.
LEMMA NextIInv == IInv /\ [Next]_vars => IInv'
<1>. SUFFICES ASSUME IInv, [Next]_vars PROVE IInv'
  OBVIOUS
<1>1. CASE ServerProc
  BY <1>1, ContextStep, PollsStep, GetOkStep, GetFailsStep, LoadNodesStep, AppendSeedsStep,
     BroadcastStoreStep, BroadcastSignalStep, BroadcastEndsStep DEF ServerProc
<1>2. CASE SelfProc \/ Set \/ Close
  BY <1>2, SelfFetchStep, SelfPutStep, SetStep, CloseStep DEF SelfProc
<1>3. ASSUME NEW r \in Resolvers, Watcher(r) PROVE IInv'
  BY <1>3, BuildAddStep, BuildSignalStep, ReceiveStep, FetchStep, ResolveCloseStep DEF Watcher
<1>4. ASSUME NEW g \in Regs, Register(g) \/ CancelFunc(g) \/ Registration(g) PROVE IInv'
  BY <1>4, RegistrationStep
<1>5. ASSUME NEW a \in Apps, Publish(a) PROVE IInv'
  BY <1>5, PublishStep
<1>6. CASE UNCHANGED vars
  <2>. USE <1>6 DEF vars, appVars, nodeVars, pollVars, procVars, watchVars, regVars
  <2>1. TypeOK'
    BY DEF IInv, TypeOK
  <2>2. (NodeLists /\ Context /\ Entered /\ Issued /\ Poll)'
    BY DEF IInv, NodeLists, Context, Entered, Issued, Poll, Canceled
  <2>3. Signals'
    BY DEF IInv, Signals, UpToDate
  <2>. QED
    BY <2>1, <2>2, <2>3 DEF IInv
<1>. QED
  BY <1>1, <1>2, <1>3, <1>4, <1>5, <1>6 DEF Next

\* The inductive invariant holds in every reachable state.
THEOREM Invariance == Spec => []IInv
<1>1. Init => IInv
  BY InitIInv
<1>. QED
  BY <1>1, NextIInv, PTL DEF Spec

\* A poll in progress asks for every application somebody watches, or Build or Close
\* has cancelled it, and it never shows a node the timestamp of another, however
\* many goroutines turn nodeIdx while it is prepared and however often the list of
\* nodes is replaced.
THEOREM PollsAreCurrent == Spec => []PollIsCurrent
<1>1. IInv => PollIsCurrent
  BY DEF IInv, PollIsCurrent, Poll
<1>. QED
  BY <1>1, Invariance, PTL

\* No watcher sleeps on an update: between the storing of instances and its fetch
\* there is a signal in its channel or broadcast has it still to send, also for a
\* watcher that Build enters meanwhile.
THEOREM NoUpdateIsLost == Spec => []NoLostUpdate
<1>1. IInv => NoLostUpdate
  BY DEF IInv, NoLostUpdate, Signals, UpToDate
<1>. QED
  BY <1>1, Invariance, PTL

-----------------------------------------------------------------------------
(* DirectCodec *)

\* A field that stands in a frame is what a slice of the frame returns.
LEMMA FieldRead ==
  \A d, at, x : Stands(d, at, x) => Slice(d, at, at + Len(x)) = x
  BY PartStands, Zenon DEF Slice

\* A read at a cell.
LEMMA CellRead ==
  \A d, at, v : Stands(d, at, <<v>>) => Uint32(d, at) = v
<1>. SUFFICES ASSUME NEW d, NEW at, NEW v, Stands(d, at, <<v>>)
              PROVE  Uint32(d, at) = v
  OBVIOUS
<1>1. Len(<<v>>) = 1 /\ <<v>>[1] = v
  OBVIOUS
<1>. QED
  BY <1>1 DEF Stands, Uint32

\* A frame has a whole header; its fields and its content are what was packed.
LEMMA FrameParts ==
  ASSUME NEW t \in Nat, NEW u \in Nat, NEW c \in Seq(Nat), NEW f, f = PackFrame(t, u, c)
  PROVE  /\ f \in Seq(Nat) /\ HasHeader(f)
         /\ ConnTypeOf(f) = t /\ DataTypeOf(f) = u /\ ContentLenOf(f) = Len(c) /\ AfterHeader(f) = c
<1>1. Len(c) \in Nat
  BY LenProperties
<1>2. PICK h : h = <<t, u, Len(c)>>
  OBVIOUS
<1>3. h \in Seq(Nat) /\ Len(h) = 3 /\ h[1] = t /\ h[2] = u /\ h[3] = Len(c)
  BY <1>1, <1>2
<1>4. f = h \o c
  BY <1>2 DEF PackFrame
<1>5. f \in Seq(Nat) /\ Len(f) = Len(h) + Len(c)
  <2>1. h \o c \in Seq(Nat) /\ Len(h \o c) = Len(h) + Len(c)
    BY <1>3, ConcatProperties
  <2>. QED
    BY <1>4, <2>1
<1>6. Stands(f, 0, h) /\ Stands(f, 0 + Len(h), c)
  BY <1>3, <1>4, <1>5, StandsSelf, StandsConcat
<1>7. f[1] = t /\ f[2] = u /\ f[3] = Len(c)
  BY <1>3, <1>6 DEF Stands
<1>8. Stands(f, 3, c) /\ Len(f) = 3 + Len(c)
  BY <1>3, <1>5, <1>6
<1>9. Slice(f, 3, Len(f)) = c
  BY <1>8, FieldRead
<1>. QED
  BY <1>1, <1>5, <1>7, <1>8, <1>9
  DEF HasHeader, ConnTypeOf, DataTypeOf, ContentLenOf, AfterHeader, FrameHeaderSize, UINT32_SIZE, Uint32

\* All of a stream is taken, and nothing is left.
LEMMA AllTaken ==
  ASSUME NEW c \in Seq(Nat)
  PROVE  Taken(c, Len(c)) = c /\ Rest(c, Len(c)) = <<>>
<1>1. Len(c) \in Nat
  BY LenProperties
<1>2. Stands(c, 0, c)
  BY StandsSelf
<1>3. Slice(c, 0, 0 + Len(c)) = c
  BY <1>2, FieldRead
<1>4. 0 + Len(c) = Len(c)
  BY <1>1
<1>5. Slice(c, 0, Len(c)) = c
  BY <1>3, <1>4
<1>6. SubSeq(c, Len(c) + 1, Len(c)) = <<>>
  BY <1>1, SubSeqEmpty
<1>. QED
  BY <1>5, <1>6 DEF Taken, Rest, Slice

\* UnpackReply gives back what PackReply packed.
LEMMA ReplyRead ==
  ASSUME NEW s \in Nat, NEW x \in Seq(Nat), NEW d, d = PackReply(s, x)
  PROVE  d \in Seq(Nat) /\ UnpackReply(d) = [ok |-> TRUE, Status |-> s, Data |-> x]
<1>1. Len(x) \in Nat
  BY LenProperties
<1>2. PICK h : h = <<s, Len(x)>>
  OBVIOUS
<1>3. /\ d \in Seq(Nat) /\ Len(d) = 2 + Len(x)
      /\ Uint32(d, 0) = s /\ Uint32(d, 1) = Len(x) /\ Slice(d, 2, 2 + Len(x)) = x
  <2>1. h \in Seq(Nat) /\ Len(h) = 2 /\ h[1] = s /\ h[2] = Len(x)
    BY <1>1, <1>2
  <2>2. d = h \o x
    BY <1>2 DEF PackReply
  <2>3. h \o x \in Seq(Nat) /\ Len(h \o x) = Len(h) + Len(x)
    BY <2>1, ConcatProperties
  <2>4. Stands(d, 0, h) /\ Stands(d, 0 + Len(h), x)
    BY <2>1, <2>2, <2>3, StandsSelf, StandsConcat
  <2>5. Stands(d, 2, x)
    BY <2>1, <2>4
  <2>6. d[1] = s /\ d[2] = Len(x)
    BY <2>1, <2>4 DEF Stands
  <2>7. Slice(d, 2, 2 + Len(x)) = x
    BY <2>5, FieldRead
  <2>. QED
    BY <2>1, <2>2, <2>3, <2>6, <2>7 DEF Uint32
<1>4. ~(Len(d) < 2) /\ ~(2 + Len(x) > Len(d))
  BY <1>1, <1>3
<1>5. 2 * UINT32_SIZE = 2 /\ UINT32_SIZE = 1
  BY DEF UINT32_SIZE
<1>. QED
  BY <1>3, <1>4, <1>5 DEF UnpackReply

\* UnpackCall gives back what PackCall packed.
LEMMA CallRead ==
  ASSUME NEW x \in Seq(Nat), NEW y \in Seq(Nat), NEW d, d = PackCall(x, y)
  PROVE  d \in Seq(Nat) /\ UnpackCall(d) = [ok |-> TRUE, Service |-> x, Payload |-> y]
<1>1. Len(x) \in Nat /\ Len(y) \in Nat
  BY LenProperties
<1>2. PICK a : a = <<Len(x)>>
  OBVIOUS
<1>3. PICK b : b = <<Len(y)>>
  OBVIOUS
<1>4. /\ a \in Seq(Nat) /\ Len(a) = 1 /\ a[1] = Len(x)
      /\ b \in Seq(Nat) /\ Len(b) = 1 /\ b[1] = Len(y)
  BY <1>1, <1>2, <1>3
<1>5. d = ((a \o x) \o b) \o y
  BY <1>2, <1>3 DEF PackCall
<1>6. a \o x \in Seq(Nat) /\ Len(a \o x) = 1 + Len(x)
  <2>1. a \o x \in Seq(Nat) /\ Len(a \o x) = Len(a) + Len(x)
    BY <1>4, ConcatProperties
  <2>. QED
    BY <1>4, <2>1
<1>7. (a \o x) \o b \in Seq(Nat) /\ Len((a \o x) \o b) = 1 + Len(x) + 1
  BY <1>4, <1>6, ConcatProperties
<1>8. d \in Seq(Nat) /\ Len(d) = 1 + Len(x) + 1 + Len(y)
  <2>1. PICK z : z = (a \o x) \o b
    OBVIOUS
  <2>2. z \in Seq(Nat)
    BY <1>7, <2>1
  <2>3. z \o y \in Seq(Nat) /\ Len(z \o y) = Len(z) + Len(y)
    BY <2>2, ConcatProperties
  <2>. QED
    BY <1>5, <1>7, <2>1, <2>3
<1>9. Stands(d, 0, (a \o x) \o b) /\ Stands(d, 0 + Len((a \o x) \o b), y)
  BY <1>5, <1>7, <1>8, StandsSelf, StandsConcat
<1>10. Stands(d, 0, a \o x) /\ Stands(d, 0 + Len(a \o x), b)
  BY <1>4, <1>6, <1>9, StandsConcat
<1>11. Stands(d, 0, a) /\ Stands(d, 0 + Len(a), x)
  BY <1>4, <1>10, StandsConcat
<1>12. PICK off \in Nat : off = 1 + Len(x)
  BY <1>1
<1>13. PICK start \in Nat : start = off + 1
  OBVIOUS
<1>14. Stands(d, 1, x) /\ Stands(d, off, b) /\ Stands(d, start, y)
  BY <1>1, <1>4, <1>6, <1>7, <1>9, <1>10, <1>11, <1>12, <1>13
<1>15. Uint32(d, 0) = Len(x)
  BY <1>2, <1>11, CellRead
<1>16. Uint32(d, off) = Len(y)
  BY <1>3, <1>14, CellRead
<1>17. Slice(d, 1, off) = x /\ Slice(d, start, start + Len(y)) = y
  BY <1>12, <1>14, FieldRead
<1>18. ~(Len(d) < 2) /\ ~(start > Len(d)) /\ ~(start + Len(y) > Len(d))
  BY <1>1, <1>8, <1>12, <1>13
<1>19. 2 * UINT32_SIZE = 2 /\ UINT32_SIZE = 1
  BY DEF UINT32_SIZE
<1>. QED
  BY <1>8, <1>12, <1>13, <1>15, <1>16, <1>17, <1>18, <1>19 DEF UnpackCall

-----------------------------------------------------------------------------
(***************************************************************************)
(* As long as calls do not overlap, the connection of the Client carries   *)
(* the request of the call that is in progress, or its reply, or nothing.  *)
(* Only the connection in conn is described: what is left on an earlier    *)
(* one can no longer be read.                                              *)
(***************************************************************************)
Steps == {"idle", "connect", "lookup", "write", "head", "body", "fail"}
Outcomes == {"none", "failed", "data", "error"}
Request(k) == PackFrame(ConnTypeDirectClient, DTCall, PackCall(Service[k], Input[k]))
Result(k) == Handler(Service[k], Input[k])
UnknownService == [how |-> "error", text |-> NoSuchService]

\* The content of a reply that call k may get.
Fits(k, content) ==
  \/ /\ content = PackReply(2, NoSuchService)
     /\ Service[k] \notin Services \ Late /\ k \notin knew
  \/ Service[k] \in handlers /\ content = PackReply(IF Result(k).err THEN 3 ELSE 0, Result(k).data)

DirectTypes ==
  /\ dialled \in 0..MaxConns /\ conn \in 0..dialled /\ open \subseteq {conn} \ {0}
  /\ requests = [n \in Conns |-> requests[n]] /\ stream = [n \in Conns |-> stream[n]]
  /\ pc \in [Callers -> Steps] /\ mine \in [Callers -> 0..MaxConns] /\ want \in [Callers -> Nat]
  /\ nth \in [Callers -> 0..MaxCalls] /\ outcome \in [CallIds -> [how : Outcomes, text : Seq(Nat)]]
  /\ Services \ Late \subseteq handlers /\ knew \subseteq CallIds

\* One call at a time.
OneIn == \A x, y \in Callers : pc[x] # "idle" /\ pc[y] # "idle" => x = y

\* A connection that is dialled is empty, and so is the one in use between two calls.
Unused == \A n \in Conns : n > dialled => requests[n] = <<>> /\ stream[n] = <<>>
Still ==
  conn # 0 /\ (\A x \in Callers : pc[x] \notin {"head", "body", "fail"}) =>
    requests[conn] = <<>> /\ stream[conn] = <<>>

\* A call uses the connection that is in conn.
OnConn ==
  \A x \in Callers :
    /\ pc[x] \in {"write", "head", "body", "fail"} => mine[x] = conn /\ conn # 0
    /\ pc[x] # "idle" => nth[x] >= 1

\* A call that waits has its request or its reply on the way.
Asked(x) ==
  \/ requests[conn] = Request(Id(x)) /\ stream[conn] = <<>>
  \/ /\ requests[conn] = <<>>
     /\ \E c : Fits(Id(x), c) /\ stream[conn] = PackFrame(ConnTypeDirectServer, DTReply, c)
Answered(x) ==
  requests[conn] = <<>> /\ \E c : Fits(Id(x), c) /\ stream[conn] = c /\ want[x] = Len(c)
Awaited == \A x \in Callers : (pc[x] = "head" => Asked(x)) /\ (pc[x] = "body" => Answered(x))

\* What is known of a call when it begins, and of one that has not begun.
Known == \A k \in knew : Service[k] \in handlers /\ nth[k[1]] >= k[2]
NotYet == \A k \in CallIds : k[2] > nth[k[1]] => outcome[k].how = "none"

\* No call was told what is wrong.
Told == OwnReply /\ \A k \in knew : outcome[k] # UnknownService

AloneInv == DirectTypes /\ OneIn /\ Unused /\ Still /\ OnConn /\ Awaited /\ Known /\ NotYet /\ Told
DirectInv == shared \in BOOLEAN /\ (~shared => AloneInv)

-----------------------------------------------------------------------------
(* Requests and replies *)

\* What the constants say of a call.
LEMMA CallTypes ==
  \A k \in CallIds :
    /\ Service[k] \in Seq(Nat) /\ Input[k] \in Seq(Nat)
    /\ Result(k).err \in BOOLEAN /\ Result(k).data \in Seq(Nat)
    /\ Result(k).err => Result(k).data # NoSuchService
  BY DirectClientAssumption DEF Result

\* The server's own words are cells.
LEMMA NoSuchTyped == NoSuchService \in Seq(Nat)
  BY DEF NoSuchService

\* A fitting reply, unpacked: the service is missing, or the handler's own words.
LEMMA FitsRead ==
  ASSUME NEW k \in CallIds, NEW c, Fits(k, c)
  PROVE  /\ c \in Seq(Nat)
         /\ \/ /\ UnpackReply(c) = [ok |-> TRUE, Status |-> 2, Data |-> NoSuchService]
               /\ Service[k] \notin Services \ Late /\ k \notin knew
            \/ /\ UnpackReply(c) = [ok |-> TRUE, Status |-> IF Result(k).err THEN 3 ELSE 0, Data |-> Result(k).data]
               /\ Service[k] \in handlers
<1>1. CASE /\ c = PackReply(2, NoSuchService)
           /\ Service[k] \notin Services \ Late /\ k \notin knew
  <2>1. 2 \in Nat /\ NoSuchService \in Seq(Nat)
    BY NoSuchTyped
  <2>2. c \in Seq(Nat) /\ UnpackReply(c) = [ok |-> TRUE, Status |-> 2, Data |-> NoSuchService]
    BY <1>1, <2>1, ReplyRead
  <2>. QED
    BY <1>1, <2>2
<1>2. CASE Service[k] \in handlers /\ c = PackReply(IF Result(k).err THEN 3 ELSE 0, Result(k).data)
  <2>1. PICK s \in Nat : s = IF Result(k).err THEN 3 ELSE 0
    OBVIOUS
  <2>2. PICK t \in Seq(Nat) : t = Result(k).data
    BY CallTypes
  <2>3. c = PackReply(s, t)
    BY <1>2, <2>1, <2>2
  <2>4. c \in Seq(Nat) /\ UnpackReply(c) = [ok |-> TRUE, Status |-> s, Data |-> t]
    BY <2>1, <2>2, <2>3, ReplyRead
  <2>. QED
    BY <1>2, <2>1, <2>2, <2>4
<1>. QED
  BY <1>1, <1>2 DEF Fits

\* A reply that fits goes on fitting while handlers are only added.
LEMMA FitsStays ==
  ASSUME NEW k, NEW c, Fits(k, c), handlers \subseteq handlers', knew' = knew
  PROVE  Fits(k, c)'
  BY DEF Fits, Result

\* The request of a call, read by the server.
LEMMA RequestRead ==
  ASSUME NEW k \in CallIds, NEW f, f = Request(k)
  PROVE  /\ f \in Seq(Nat) /\ DataTypeOf(f) = DTCall
         /\ Taken(AfterHeader(f), ContentLenOf(f)) = PackCall(Service[k], Input[k])
         /\ Rest(AfterHeader(f), ContentLenOf(f)) = <<>>
<1>1. PICK x \in Seq(Nat) : x = Service[k]
  BY CallTypes
<1>2. PICK y \in Seq(Nat) : y = Input[k]
  BY CallTypes
<1>3. PICK d : d = PackCall(x, y)
  OBVIOUS
<1>4. d \in Seq(Nat)
  BY <1>1, <1>2, <1>3, CallRead
<1>5. ConnTypeDirectClient \in Nat /\ DTCall \in Nat
  BY DEF ConnTypeDirectClient, DTCall
<1>6. f = PackFrame(ConnTypeDirectClient, DTCall, d)
  BY <1>1, <1>2, <1>3 DEF Request
<1>7. f \in Seq(Nat) /\ DataTypeOf(f) = DTCall /\ ContentLenOf(f) = Len(d) /\ AfterHeader(f) = d
  BY <1>4, <1>5, <1>6, FrameParts
<1>. QED
  BY <1>1, <1>2, <1>3, <1>4, <1>7, AllTaken

\* What the server answers to it fits the call.
LEMMA ReplyFits ==
  ASSUME NEW k \in CallIds, Known, Services \ Late \subseteq handlers
  PROVE  Fits(k, ReplyTo(DTCall, PackCall(Service[k], Input[k])))
<1>1. PICK x \in Seq(Nat) : x = Service[k]
  BY CallTypes
<1>2. PICK y \in Seq(Nat) : y = Input[k]
  BY CallTypes
<1>3. PICK d : d = PackCall(x, y)
  OBVIOUS
<1>4. UnpackCall(d) = [ok |-> TRUE, Service |-> x, Payload |-> y]
  BY <1>1, <1>2, <1>3, CallRead
<1>5. UnpackCall(d).ok = TRUE /\ UnpackCall(d).Service = x /\ UnpackCall(d).Payload = y
  BY <1>4
<1>6. DTCall # DTHealth
  BY DEF DTCall, DTHealth
<1>7. CASE x \in handlers
  <2>1. ReplyTo(DTCall, d) = PackReply(IF Result(k).err THEN 3 ELSE 0, Result(k).data)
    BY <1>1, <1>2, <1>5, <1>6, <1>7 DEF ReplyTo, getHandler, Result
  <2>. QED
    BY <1>1, <1>2, <1>3, <1>7, <2>1 DEF Fits
<1>8. CASE x \notin handlers
  <2>1. ReplyTo(DTCall, d) = PackReply(2, NoSuchService)
    BY <1>5, <1>6, <1>8 DEF ReplyTo, getHandler
  <2>2. Service[k] \notin Services \ Late /\ k \notin knew
    BY <1>1, <1>8 DEF Known
  <2>. QED
    BY <1>1, <1>2, <1>3, <2>1, <2>2 DEF Fits
<1>. QED
  BY <1>7, <1>8

-----------------------------------------------------------------------------
(* The invariant holds initially, and of a call that is alone *)

\* A new Client satisfies the invariant.
LEMMA DirectInitInv == MCInit => DirectInv
<1>. SUFFICES ASSUME MCInit PROVE AloneInv /\ shared = FALSE
  BY DEF DirectInv
<1>1. shared = FALSE /\ knew = {} /\ DirectInit
  BY DEF MCInit
<1>2. DirectTypes
  <2>1. <<>> \in Seq(Nat) /\ [how |-> "none", text |-> <<>>] \in [how : Outcomes, text : Seq(Nat)]
    BY DEF Outcomes
  <2>2. dialled \in 0..MaxConns /\ conn \in 0..dialled /\ 0 \in 0..MaxConns /\ 0 \in 0..MaxCalls
    BY <1>1, DirectClientAssumption DEF DirectInit
  <2>3. outcome \in [CallIds -> [how : Outcomes, text : Seq(Nat)]]
    BY <1>1, <2>1 DEF DirectInit
  <2>. QED
    BY <1>1, <2>2, <2>3 DEF DirectInit, DirectTypes, Steps
<1>3. OneIn /\ Unused /\ Still /\ OnConn /\ Awaited
  BY <1>1 DEF DirectInit, OneIn, Unused, Still, OnConn, Awaited
<1>4. Known /\ NotYet /\ Told
  <2>1. \A k \in CallIds : outcome[k].how = "none" /\ outcome[k] # UnknownService
    BY <1>1 DEF DirectInit, UnknownService
  <2>. QED
    BY <1>1, <2>1 DEF Known, NotYet, Told, OwnReply, UnknownService
<1>. QED
  BY <1>1, <1>2, <1>3, <1>4 DEF AloneInv

\* A caller that is in Call is there alone, and in one of its calls.
LEMMA AloneIn ==
  ASSUME AloneInv, NEW x \in Callers, pc[x] # "idle"
  PROVE  /\ \A y \in Callers : y # x => pc[y] = "idle"
         /\ Id(x) \in CallIds /\ nth[x] \in 1..MaxCalls
<1>1. nth[x] \in 0..MaxCalls /\ nth[x] >= 1
  BY DEF AloneInv, DirectTypes, OnConn
<1>2. nth[x] \in 1..MaxCalls
  BY <1>1, DirectClientAssumption
<1>. QED
  BY <1>2 DEF AloneInv, OneIn, Id, CallIds

\* A connection that carries something is one of Conns.
LEMMA ConnIn ==
  ASSUME DirectTypes, conn # 0
  PROVE  conn \in Conns
  BY DirectClientAssumption DEF DirectTypes, Conns

\* A call that has begun goes to another place, and is still alone.
LEMMA StillOne ==
  ASSUME AloneInv, NEW x \in Callers, pc[x] # "idle", NEW p \in Steps, Goto(x, p)
  PROVE  /\ pc' \in [Callers -> Steps] /\ pc'[x] = p /\ \A y \in Callers : y # x => pc'[y] = "idle"
         /\ OneIn'
<1>1. pc' \in [Callers -> Steps] /\ pc'[x] = p /\ \A y \in Callers : y # x => pc'[y] = pc[y]
  BY DEF AloneInv, DirectTypes, Goto
<1>2. \A y \in Callers : y # x => pc'[y] = "idle"
  BY <1>1, AloneIn
<1>. QED
  BY <1>1, <1>2 DEF OneIn

\* A step that ends no call leaves what calls were told.
LEMMA TellsNothing ==
  ASSUME AloneInv, UNCHANGED <<outcome, nth, knew>>, handlers \subseteq handlers'
  PROVE  Known' /\ NotYet' /\ Told'
<1>1. Known'
  BY DEF AloneInv, Known
<1>2. NotYet'
  BY DEF AloneInv, NotYet
<1>3. Told'
  BY DEF AloneInv, Told, OwnReply, UnknownService
<1>. QED
  BY <1>1, <1>2, <1>3

\* A call ends.  What it is told is about itself; the others keep what they were told.
LEMMA Tells ==
  ASSUME AloneInv, NEW x \in Callers, pc[x] # "idle", NEW h \in Outcomes, NEW t \in Seq(Nat),
         End(x, h, t), UNCHANGED <<nth, handlers, knew>>,
         \/ h = "failed"
         \/ /\ h = "error" /\ t = NoSuchService
            /\ Service[Id(x)] \notin Services \ Late /\ Id(x) \notin knew
         \/ /\ h = IF Result(Id(x)).err THEN "error" ELSE "data"
            /\ t = Result(Id(x)).data /\ Service[Id(x)] \in handlers
  PROVE  outcome' \in [CallIds -> [how : Outcomes, text : Seq(Nat)]] /\ Known' /\ NotYet' /\ Told'
<1>. PICK k \in CallIds : k = Id(x)
  BY AloneIn
<1>. PICK o : o = [how |-> h, text |-> t]
  OBVIOUS
<1>1. o \in [how : Outcomes, text : Seq(Nat)] /\ o.how = h /\ o.text = t
  OBVIOUS
<1>2. outcome' = [outcome EXCEPT ![k] = o]
  BY DEF End
<1>3. outcome' \in [CallIds -> [how : Outcomes, text : Seq(Nat)]]
  BY <1>1, <1>2 DEF AloneInv, DirectTypes
<1>4. outcome'[k] = o /\ \A j \in CallIds : j # k => outcome'[j] = outcome[j]
  BY <1>2 DEF AloneInv, DirectTypes
<1>5. Known'
  BY DEF AloneInv, Known
<1>6. NotYet'
  <2>1. k[1] = x /\ k[2] = nth[x] /\ nth[x] \in Nat
    BY AloneIn DEF Id
  <2>2. ~(k[2] > nth'[k[1]])
    BY <2>1
  <2>. QED
    BY <1>4, <2>2 DEF AloneInv, NotYet
<1>7. Result(k).err \in BOOLEAN /\ (Result(k).err => Result(k).data # NoSuchService)
  BY CallTypes
<1>8. o = UnknownService => Service[k] \notin Services \ Late /\ k \notin knew
  BY <1>1, <1>7 DEF UnknownService
<1>9. o.how \in {"data", "error"} /\ o # UnknownService =>
        /\ Service[k] \in handlers
        /\ o = [how |-> IF Result(k).err THEN "error" ELSE "data", text |-> Result(k).data]
  BY <1>1, <1>7 DEF UnknownService
<1>10. Told'
  <2>1. \A j \in CallIds :
          LET r == Handler(Service[j], Input[j])
              missing == outcome'[j] = [how |-> "error", text |-> NoSuchService]
          IN /\ missing => Service[j] \notin Services \ Late
             /\ outcome'[j].how \in {"data", "error"} /\ ~missing =>
                  /\ Service[j] \in handlers'
                  /\ outcome'[j] = [how |-> IF r.err THEN "error" ELSE "data", text |-> r.data]
    <3>. TAKE j \in CallIds
    <3>1. CASE j = k
      BY <1>4, <1>8, <1>9, <3>1 DEF Result, UnknownService
    <3>2. CASE j # k
      BY <1>4, <3>2 DEF AloneInv, Told, OwnReply
    <3>. QED
      BY <3>1, <3>2
  <2>2. \A j \in knew : outcome'[j] # UnknownService
    <3>. TAKE j \in knew
    <3>1. j \in CallIds
      BY DEF AloneInv, DirectTypes
    <3>. QED
      BY <1>4, <1>8, <3>1 DEF AloneInv, Told
  <2>. QED
    BY <2>1, <2>2 DEF Told, OwnReply, UnknownService
<1>. QED
  BY <1>3, <1>5, <1>6, <1>10

\* A call fails: it is told nothing.
LEMMA TellsFailure ==
  ASSUME AloneInv, NEW x \in Callers, pc[x] # "idle", Fails(x), UNCHANGED <<nth, handlers, knew>>
  PROVE  outcome' \in [CallIds -> [how : Outcomes, text : Seq(Nat)]] /\ Known' /\ NotYet' /\ Told'
<1>1. "failed" \in Outcomes /\ <<>> \in Seq(Nat)
  BY DEF Outcomes
<1>2. End(x, "failed", <<>>)
  BY DEF Fails
<1>. QED
  BY <1>1, <1>2, Tells

-----------------------------------------------------------------------------
(* One lemma for each action *)

\* A call begins when nobody is inside: the connection is as the last one left it.
LEMMA CallAlone ==
  ASSUME AloneInv, NEW x \in Callers, Call(x), \A y \in Callers : pc[y] = "idle",
         knew' = knew \cup {k \in CallIds : nth'[k[1]] = k[2] /\ nth[k[1]] < k[2] /\ Service[k] \in handlers}
  PROVE  AloneInv'
<1>. USE DEF AloneInv
<1>1. nth[x] \in Nat /\ nth[x] + 1 \in 1..MaxCalls /\ nth'[x] = nth[x] + 1
  BY DirectClientAssumption DEF Call, DirectTypes
<1>2. nth' \in [Callers -> 0..MaxCalls] /\ \A y \in Callers : y # x => nth'[y] = nth[y]
  BY <1>1, DirectClientAssumption DEF Call, DirectTypes
<1>3. /\ pc' \in [Callers -> Steps] /\ pc'[x] = "connect"
      /\ \A y \in Callers : y # x => pc'[y] = "idle"
  BY DEF Call, DirectTypes, Goto, Steps
<1>4. \A y \in Callers : nth[y] \in Nat /\ nth'[y] \in Nat /\ nth'[y] >= nth[y]
  <2>1. \A y \in Callers : nth[y] \in Nat /\ nth'[y] \in Nat
    BY <1>2, DirectClientAssumption DEF DirectTypes
  <2>. QED
    BY <1>1, <1>2, <2>1
<1>5. DirectTypes'
  BY <1>2, <1>3 DEF Call, DirectTypes, netVars
<1>6. OneIn' /\ Unused' /\ Still' /\ Awaited'
  BY <1>3 DEF Call, netVars, OneIn, Unused, Still, Awaited
<1>7. OnConn'
  BY <1>1, <1>3 DEF OnConn
<1>8. \A k \in CallIds : k[1] \in Callers /\ k[2] \in Nat
  BY DEF CallIds
<1>9. Known'
  <2>. SUFFICES ASSUME NEW k \in knew' PROVE Service[k] \in handlers /\ nth'[k[1]] >= k[2]
    BY DEF Call, netVars, Known
  <2>1. CASE k \in knew
    BY <1>4, <1>8, <2>1 DEF Known, DirectTypes
  <2>2. CASE k \notin knew
    BY <1>4, <1>8, <2>2
  <2>. QED
    BY <2>1, <2>2
<1>10. NotYet'
  <2>. SUFFICES ASSUME NEW k \in CallIds, k[2] > nth'[k[1]] PROVE outcome[k].how = "none"
    BY DEF Call, NotYet
  <2>1. k[2] > nth[k[1]]
    BY <1>4, <1>8
  <2>. QED
    BY <2>1 DEF NotYet
<1>11. Told'
  <2>1. ASSUME NEW k \in knew' PROVE outcome[k] # UnknownService
    <3>1. CASE k \in knew
      BY <3>1 DEF Told
    <3>2. CASE k \notin knew
      <4>1. k \in CallIds /\ nth[k[1]] < k[2]
        BY <3>2
      <4>2. outcome[k].how = "none"
        BY <1>4, <1>8, <4>1 DEF NotYet
      <4>. QED
        BY <4>2 DEF UnknownService
    <3>. QED
      BY <3>1, <3>2
  <2>. QED
    BY <2>1 DEF Call, netVars, Told, OwnReply
<1>. QED
  BY <1>5, <1>6, <1>7, <1>9, <1>10, <1>11

\* Connect: a connection that is dialled is empty, and so is the one that is there.
LEMMA ConnectAlone ==
  ASSUME AloneInv, NEW x \in Callers, Connect(x), knew' = knew
  PROVE  AloneInv'
<1>0. pc[x] = "connect" /\ UNCHANGED <<requests, stream, handlers, mine, want, nth>>
  BY DEF Connect, netVars
<1>1. CASE conn # 0 /\ Goto(x, "lookup") /\ UNCHANGED <<conn, dialled, open, outcome>>
  <2>1. "lookup" \in Steps
    BY DEF Steps
  <2>2. /\ pc' \in [Callers -> Steps] /\ pc'[x] = "lookup"
        /\ \A y \in Callers : y # x => pc'[y] = "idle"
        /\ OneIn'
    BY <1>0, <1>1, <2>1, StillOne
  <2>3. Known' /\ NotYet' /\ Told'
    BY <1>0, <1>1, TellsNothing
  <2>4. \A y \in Callers : pc[y] \notin {"head", "body", "fail"}
    BY <1>0, AloneIn
  <2>5. DirectTypes' /\ Unused'
    BY <1>0, <1>1, <2>2 DEF AloneInv, DirectTypes, Unused
  <2>6. Still'
    BY <1>0, <1>1, <2>4 DEF AloneInv, Still
  <2>7. OnConn' /\ Awaited'
    BY <1>0, <1>1, <2>2 DEF AloneInv, OnConn, Awaited
  <2>. QED
    BY <2>2, <2>3, <2>5, <2>6, <2>7 DEF AloneInv
<1>2. CASE /\ conn = 0 /\ dialled < MaxConns /\ Goto(x, "lookup")
           /\ dialled' = dialled + 1 /\ conn' = dialled' /\ open' = open \cup {dialled'}
           /\ UNCHANGED outcome
  <2>1. "lookup" \in Steps
    BY DEF Steps
  <2>2. /\ pc' \in [Callers -> Steps] /\ pc'[x] = "lookup"
        /\ \A y \in Callers : y # x => pc'[y] = "idle"
        /\ OneIn'
    BY <1>0, <1>2, <2>1, StillOne
  <2>3. Known' /\ NotYet' /\ Told'
    BY <1>0, <1>2, TellsNothing
  <2>4. /\ dialled \in Nat /\ dialled' \in 0..MaxConns /\ conn' \in 0..dialled' /\ conn' # 0
        /\ conn' \in Conns /\ conn' > dialled /\ \A n \in Conns : n > dialled' => n > dialled
    BY <1>2, DirectClientAssumption DEF AloneInv, DirectTypes, Conns
  <2>5. open' \subseteq {conn'} \ {0}
    BY <1>2, <2>4 DEF AloneInv, DirectTypes
  <2>6. DirectTypes'
    BY <1>0, <1>2, <2>2, <2>4, <2>5 DEF AloneInv, DirectTypes
  <2>7. Unused' /\ Still'
    BY <1>0, <2>4 DEF AloneInv, Unused, Still
  <2>8. OnConn' /\ Awaited'
    BY <1>0, <2>2 DEF AloneInv, OnConn, Awaited
  <2>. QED
    BY <2>2, <2>3, <2>6, <2>7, <2>8 DEF AloneInv
<1>3. CASE conn = 0 /\ Fails(x) /\ UNCHANGED <<conn, dialled, open>>
  <2>1. "idle" \in Steps /\ Goto(x, "idle")
    BY <1>3 DEF Steps, Fails, End
  <2>2. /\ pc' \in [Callers -> Steps] /\ pc'[x] = "idle"
        /\ \A y \in Callers : y # x => pc'[y] = "idle"
        /\ OneIn'
    BY <1>0, <2>1, StillOne
  <2>3. outcome' \in [CallIds -> [how : Outcomes, text : Seq(Nat)]] /\ Known' /\ NotYet' /\ Told'
    BY <1>0, <1>3, TellsFailure
  <2>4. DirectTypes' /\ Unused' /\ Still'
    BY <1>0, <1>3, <2>2, <2>3 DEF AloneInv, DirectTypes, Unused, Still
  <2>5. OnConn' /\ Awaited'
    BY <2>2 DEF OnConn, Awaited
  <2>. QED
    BY <2>2, <2>3, <2>4, <2>5 DEF AloneInv
<1>. QED
  BY <1>1, <1>2, <1>3 DEF Connect

\* The call takes the connection that is in conn.
LEMMA LookUpAlone ==
  ASSUME AloneInv, NEW x \in Callers, LookUp(x), knew' = knew
  PROVE  AloneInv'
<1>0. pc[x] = "lookup" /\ UNCHANGED <<conn, dialled, open, requests, stream, handlers, want, nth>>
  BY DEF LookUp, netVars
<1>1. \A y \in Callers : pc[y] \notin {"head", "body", "fail"}
  BY <1>0, AloneIn
<1>2. CASE conn # 0 /\ mine' = [mine EXCEPT ![x] = conn] /\ Goto(x, "write") /\ UNCHANGED outcome
  <2>1. "write" \in Steps
    BY DEF Steps
  <2>2. /\ pc' \in [Callers -> Steps] /\ pc'[x] = "write"
        /\ \A y \in Callers : y # x => pc'[y] = "idle"
        /\ OneIn'
    BY <1>0, <1>2, <2>1, StillOne
  <2>3. Known' /\ NotYet' /\ Told'
    BY <1>0, <1>2, TellsNothing
  <2>4. conn \in 0..MaxConns
    BY DirectClientAssumption DEF AloneInv, DirectTypes
  <2>5. mine' \in [Callers -> 0..MaxConns] /\ mine'[x] = conn
    BY <1>2, <2>4 DEF AloneInv, DirectTypes
  <2>6. DirectTypes' /\ Unused'
    BY <1>0, <1>2, <2>2, <2>5 DEF AloneInv, DirectTypes, Unused
  <2>7. Still'
    BY <1>0, <1>1 DEF AloneInv, Still
  <2>8. OnConn' /\ Awaited'
    BY <1>0, <1>2, <2>2, <2>5 DEF AloneInv, OnConn, Awaited
  <2>. QED
    BY <2>2, <2>3, <2>6, <2>7, <2>8 DEF AloneInv
<1>3. CASE conn = 0 /\ Fails(x) /\ UNCHANGED mine
  <2>1. "idle" \in Steps /\ Goto(x, "idle")
    BY <1>3 DEF Steps, Fails, End
  <2>2. /\ pc' \in [Callers -> Steps] /\ pc'[x] = "idle"
        /\ \A y \in Callers : y # x => pc'[y] = "idle"
        /\ OneIn'
    BY <1>0, <2>1, StillOne
  <2>3. outcome' \in [CallIds -> [how : Outcomes, text : Seq(Nat)]] /\ Known' /\ NotYet' /\ Told'
    BY <1>0, <1>3, TellsFailure
  <2>4. DirectTypes' /\ Unused' /\ Still'
    BY <1>0, <1>3, <2>2, <2>3 DEF AloneInv, DirectTypes, Unused, Still
  <2>5. OnConn' /\ Awaited'
    BY <2>2 DEF OnConn, Awaited
  <2>. QED
    BY <2>2, <2>3, <2>4, <2>5 DEF AloneInv
<1>. QED
  BY <1>2, <1>3 DEF LookUp

\* The connection is empty when a request is written.
LEMMA WriteAlone ==
  ASSUME AloneInv, NEW x \in Callers, Write(x), knew' = knew
  PROVE  AloneInv'
<1>0. pc[x] = "write" /\ UNCHANGED <<conn, dialled, open, stream, handlers, mine, want, nth, outcome>>
  BY DEF Write
<1>1. /\ mine[x] = conn /\ conn # 0 /\ requests[conn] = <<>> /\ stream[conn] = <<>> /\ conn \in Conns
      /\ Id(x) \in CallIds /\ nth[x] >= 1
  <2>1. mine[x] = conn /\ conn # 0 /\ Id(x) \in CallIds /\ nth[x] >= 1
    BY <1>0, AloneIn DEF AloneInv, OnConn
  <2>2. \A y \in Callers : pc[y] \notin {"head", "body", "fail"}
    BY <1>0, AloneIn
  <2>. QED
    BY <2>1, <2>2, ConnIn DEF AloneInv, Still
<1>2. Known' /\ NotYet' /\ Told'
  BY <1>0, TellsNothing
<1>3. CASE /\ mine[x] \in open /\ Goto(x, "head")
           /\ requests' = [requests EXCEPT ![mine[x]] = @ \o Request(Id(x))]
  <2>1. "head" \in Steps
    BY DEF Steps
  <2>2. /\ pc' \in [Callers -> Steps] /\ pc'[x] = "head"
        /\ \A y \in Callers : y # x => pc'[y] = "idle"
        /\ OneIn'
    BY <1>0, <1>3, <2>1, StillOne
  <2>3. PICK f : f = Request(Id(x))
    OBVIOUS
  <2>4. f \in Seq(Nat)
    BY <1>1, <2>3, RequestRead
  <2>5. <<>> \o f = f
    BY <2>4, ConcatEmptySeq
  <2>6. requests' = [requests EXCEPT ![conn] = f]
    BY <1>1, <1>3, <2>3, <2>5
  <2>7. /\ requests' = [n \in Conns |-> requests'[n]] /\ requests'[conn] = f
        /\ \A n \in Conns : n # conn => requests'[n] = requests[n]
    BY <1>1, <2>6 DEF AloneInv, DirectTypes
  <2>8. DirectTypes'
    BY <1>0, <2>2, <2>7 DEF AloneInv, DirectTypes
  <2>9. \A n \in Conns : n > dialled => n # conn
    BY <1>1, DirectClientAssumption DEF AloneInv, DirectTypes, Conns
  <2>10. Unused'
    BY <1>0, <2>7, <2>9 DEF AloneInv, Unused
  <2>11. Still'
    BY <2>2 DEF Still
  <2>12. Request(Id(x))' = f
    BY <1>0, <2>3 DEF Request, Id
  <2>13. OnConn' /\ Awaited'
    BY <1>0, <1>1, <2>2, <2>7, <2>12 DEF OnConn, Awaited, Asked
  <2>. QED
    BY <1>2, <2>2, <2>8, <2>10, <2>11, <2>13 DEF AloneInv
<1>4. CASE mine[x] \notin open /\ Goto(x, "fail") /\ UNCHANGED requests
  <2>1. "fail" \in Steps
    BY DEF Steps
  <2>2. /\ pc' \in [Callers -> Steps] /\ pc'[x] = "fail"
        /\ \A y \in Callers : y # x => pc'[y] = "idle"
        /\ OneIn'
    BY <1>0, <1>4, <2>1, StillOne
  <2>3. DirectTypes' /\ Unused'
    BY <1>0, <1>4, <2>2 DEF AloneInv, DirectTypes, Unused
  <2>4. Still' /\ OnConn' /\ Awaited'
    BY <1>0, <1>1, <2>2 DEF Still, OnConn, Awaited
  <2>. QED
    BY <1>2, <2>2, <2>3, <2>4 DEF AloneInv
<1>. QED
  BY <1>3, <1>4 DEF Write, Request

\* The header that is read is that of the reply to the call.
LEMMA ReadHeadAlone ==
  ASSUME AloneInv, NEW x \in Callers, ReadHead(x), knew' = knew
  PROVE  AloneInv'
<1>0. /\ pc[x] = "head" /\ HasHeader(stream[mine[x]])
      /\ UNCHANGED <<conn, dialled, open, requests, handlers, mine, nth, outcome>>
  BY DEF ReadHead
<1>1. mine[x] = conn /\ conn # 0 /\ conn \in Conns /\ Id(x) \in CallIds /\ nth[x] >= 1
  BY <1>0, AloneIn, ConnIn DEF AloneInv, OnConn
<1>2. Known' /\ NotYet' /\ Told'
  BY <1>0, TellsNothing
<1>3. ~HasHeader(<<>>)
  BY DEF HasHeader, FrameHeaderSize, UINT32_SIZE
<1>4. PICK c : Fits(Id(x), c) /\ stream[conn] = PackFrame(ConnTypeDirectServer, DTReply, c) /\ requests[conn] = <<>>
  BY <1>0, <1>1, <1>3 DEF AloneInv, Awaited, Asked
<1>5. c \in Seq(Nat) /\ Len(c) \in Nat
  BY <1>1, <1>4, FitsRead, LenProperties
<1>6. PICK f : f = stream[conn]
  OBVIOUS
<1>7. ConnTypeDirectServer \in Nat /\ DTReply \in Nat
  BY DEF ConnTypeDirectServer, DTReply
<1>8. /\ ConnTypeOf(f) = ConnTypeDirectServer /\ DataTypeOf(f) = DTReply
      /\ ContentLenOf(f) = Len(c) /\ AfterHeader(f) = c
  <2>1. PICK t \in Nat, u \in Nat : t = ConnTypeDirectServer /\ u = DTReply
    BY <1>7
  <2>2. c \in Seq(Nat) /\ f = PackFrame(t, u, c)
    BY <1>4, <1>5, <1>6, <2>1
  <2>3. ConnTypeOf(f) = t /\ DataTypeOf(f) = u /\ ContentLenOf(f) = Len(c) /\ AfterHeader(f) = c
    BY <2>2, FrameParts
  <2>. QED
    BY <2>1, <2>3
<1>9. /\ stream' = [stream EXCEPT ![conn] = c] /\ want' = [want EXCEPT ![x] = Len(c)]
      /\ Goto(x, "body")
  BY <1>1, <1>6, <1>8 DEF ReadHead
<1>10. "body" \in Steps
  BY DEF Steps
<1>11. /\ pc' \in [Callers -> Steps] /\ pc'[x] = "body"
       /\ \A y \in Callers : y # x => pc'[y] = "idle"
       /\ OneIn'
  BY <1>0, <1>9, <1>10, StillOne
<1>12. /\ stream' = [n \in Conns |-> stream'[n]] /\ stream'[conn] = c
       /\ \A n \in Conns : n # conn => stream'[n] = stream[n]
  BY <1>1, <1>9 DEF AloneInv, DirectTypes
<1>13. want' \in [Callers -> Nat] /\ want'[x] = Len(c)
  BY <1>5, <1>9 DEF AloneInv, DirectTypes
<1>14. DirectTypes'
  BY <1>0, <1>11, <1>12, <1>13 DEF AloneInv, DirectTypes
<1>15. \A n \in Conns : n > dialled => n # conn
  BY <1>1, DirectClientAssumption DEF AloneInv, DirectTypes, Conns
<1>16. Unused' /\ Still'
  BY <1>0, <1>11, <1>12, <1>15 DEF AloneInv, Unused, Still
<1>17. Fits(Id(x), c)'
  <2>1. PICK k : k = Id(x)
    OBVIOUS
  <2>2. Fits(k, c)'
    BY <1>0, <1>4, <2>1, FitsStays
  <2>. QED
    BY <1>0, <2>1, <2>2 DEF Fits, Result, Id
<1>18. OnConn' /\ Awaited'
  BY <1>0, <1>1, <1>4, <1>11, <1>12, <1>13, <1>17 DEF OnConn, Awaited, Answered
<1>. QED
  BY <1>2, <1>11, <1>14, <1>16, <1>18 DEF AloneInv

\* The content that is read is all there is on the connection, and it fits.
LEMMA ReadBodyAlone ==
  ASSUME AloneInv, NEW x \in Callers, ReadBody(x), knew' = knew
  PROVE  AloneInv'
<1>0. /\ pc[x] = "body" /\ want' = [want EXCEPT ![x] = 0]
      /\ UNCHANGED <<conn, dialled, open, requests, handlers, mine, nth>>
  BY DEF ReadBody
<1>1. mine[x] = conn /\ conn # 0 /\ conn \in Conns /\ Id(x) \in CallIds
  BY <1>0, AloneIn, ConnIn DEF AloneInv, OnConn
<1>2. PICK c : Fits(Id(x), c) /\ stream[conn] = c /\ want[x] = Len(c) /\ requests[conn] = <<>>
  BY <1>0 DEF AloneInv, Awaited, Answered
<1>3. c \in Seq(Nat)
  BY <1>1, <1>2, FitsRead
<1>4. Taken(c, Len(c)) = c /\ Rest(c, Len(c)) = <<>>
  BY <1>3, AllTaken
<1>5. stream' = [stream EXCEPT ![conn] = <<>>]
  BY <1>1, <1>2, <1>4 DEF ReadBody
<1>6. PICK reply : reply = UnpackReply(c)
  OBVIOUS
<1>7. \/ ~reply.ok /\ Goto(x, "fail") /\ UNCHANGED outcome
      \/ reply.ok /\ End(x, IF reply.Status = 0 THEN "data" ELSE "error", reply.Data)
  BY <1>1, <1>2, <1>4, <1>6 DEF ReadBody
<1>8. PICK h \in Outcomes, t \in Seq(Nat) :
        /\ End(x, h, t)
        /\ \/ /\ h = "error" /\ t = NoSuchService
              /\ Service[Id(x)] \notin Services \ Late /\ Id(x) \notin knew
           \/ /\ h = IF Result(Id(x)).err THEN "error" ELSE "data"
              /\ t = Result(Id(x)).data /\ Service[Id(x)] \in handlers
  <2>1. "data" \in Outcomes /\ "error" \in Outcomes
    BY DEF Outcomes
  <2>2. CASE /\ reply = [ok |-> TRUE, Status |-> 2, Data |-> NoSuchService]
             /\ Service[Id(x)] \notin Services \ Late /\ Id(x) \notin knew
    <3>1. reply.ok = TRUE /\ reply.Status = 2 /\ reply.Data = NoSuchService
      BY <2>2
    <3>2. End(x, "error", NoSuchService)
      BY <1>7, <3>1
    <3>. QED
      BY <2>1, <2>2, <3>2, NoSuchTyped
  <2>3. CASE /\ reply = [ok |-> TRUE, Status |-> IF Result(Id(x)).err THEN 3 ELSE 0, Data |-> Result(Id(x)).data]
             /\ Service[Id(x)] \in handlers
    <3>1. /\ reply.ok = TRUE /\ reply.Status = (IF Result(Id(x)).err THEN 3 ELSE 0)
          /\ reply.Data = Result(Id(x)).data
      BY <2>3
    <3>2. PICK h \in Outcomes : h = IF Result(Id(x)).err THEN "error" ELSE "data"
      BY <2>1
    <3>3. h = IF reply.Status = 0 THEN "data" ELSE "error"
      BY <3>1, <3>2
    <3>4. PICK t \in Seq(Nat) : t = Result(Id(x)).data
      BY <1>1, CallTypes
    <3>5. End(x, h, t)
      BY <1>7, <3>1, <3>3, <3>4
    <3>. QED
      BY <2>3, <3>2, <3>4, <3>5
  <2>. QED
    BY <1>1, <1>2, <1>6, <2>2, <2>3, FitsRead
<1>9. outcome' \in [CallIds -> [how : Outcomes, text : Seq(Nat)]] /\ Known' /\ NotYet' /\ Told'
  BY <1>0, <1>8, Tells
<1>10. "idle" \in Steps /\ Goto(x, "idle")
  BY <1>8 DEF Steps, End
<1>11. /\ pc' \in [Callers -> Steps] /\ pc'[x] = "idle"
       /\ \A y \in Callers : y # x => pc'[y] = "idle"
       /\ OneIn'
  BY <1>0, <1>10, StillOne
<1>12. /\ stream' = [n \in Conns |-> stream'[n]] /\ stream'[conn] = <<>>
       /\ \A n \in Conns : n # conn => stream'[n] = stream[n]
  BY <1>1, <1>5 DEF AloneInv, DirectTypes
<1>13. want' \in [Callers -> Nat]
  BY <1>0 DEF AloneInv, DirectTypes
<1>14. DirectTypes'
  BY <1>0, <1>9, <1>11, <1>12, <1>13 DEF AloneInv, DirectTypes
<1>15. Unused' /\ Still'
  BY <1>0, <1>2, <1>12 DEF AloneInv, Unused, Still
<1>16. OnConn' /\ Awaited'
  BY <1>11 DEF OnConn, Awaited
<1>. QED
  BY <1>9, <1>11, <1>14, <1>15, <1>16 DEF AloneInv

\* After a failed read the connection may carry anything.
LEMMA ReadFailsAlone ==
  ASSUME AloneInv, NEW x \in Callers, ReadFails(x), knew' = knew
  PROVE  AloneInv'
<1>0. /\ pc[x] \in {"head", "body"} /\ Goto(x, "fail")
      /\ UNCHANGED <<conn, dialled, open, requests, stream, handlers, mine, want, nth, outcome>>
  BY DEF ReadFails, netVars
<1>1. mine[x] = conn /\ conn # 0 /\ nth[x] >= 1
  BY <1>0 DEF AloneInv, OnConn
<1>2. Known' /\ NotYet' /\ Told'
  BY <1>0, TellsNothing
<1>3. "fail" \in Steps
  BY DEF Steps
<1>4. /\ pc' \in [Callers -> Steps] /\ pc'[x] = "fail"
      /\ \A y \in Callers : y # x => pc'[y] = "idle"
      /\ OneIn'
  BY <1>0, <1>3, StillOne
<1>5. DirectTypes' /\ Unused'
  BY <1>0, <1>4 DEF AloneInv, DirectTypes, Unused
<1>6. Still' /\ OnConn' /\ Awaited'
  BY <1>0, <1>1, <1>4 DEF Still, OnConn, Awaited
<1>. QED
  BY <1>2, <1>4, <1>5, <1>6 DEF AloneInv

\* What has not been read when a call fails is left on a connection nobody has.
LEMMA CloseConnAlone ==
  ASSUME AloneInv, NEW x \in Callers, CloseConn(x), knew' = knew
  PROVE  AloneInv'
<1>0. /\ pc[x] = "fail" /\ Fails(x) /\ conn' = 0 /\ open' = open \ {conn}
      /\ stream' = [n \in Conns |-> IF n = conn THEN <<>> ELSE stream[n]]
      /\ UNCHANGED <<dialled, requests, handlers, mine, want, nth>>
  BY DEF CloseConn
<1>1. "idle" \in Steps /\ Goto(x, "idle")
  BY <1>0 DEF Steps, Fails, End
<1>2. /\ pc' \in [Callers -> Steps] /\ pc'[x] = "idle"
      /\ \A y \in Callers : y # x => pc'[y] = "idle"
      /\ OneIn'
  BY <1>0, <1>1, StillOne
<1>3. outcome' \in [CallIds -> [how : Outcomes, text : Seq(Nat)]] /\ Known' /\ NotYet' /\ Told'
  BY <1>0, TellsFailure
<1>4. open' = {} /\ conn' \in 0..dialled' /\ stream' = [n \in Conns |-> stream'[n]]
  BY <1>0, DirectClientAssumption DEF AloneInv, DirectTypes
<1>5. DirectTypes'
  BY <1>0, <1>2, <1>3, <1>4 DEF AloneInv, DirectTypes
<1>6. Unused' /\ Still'
  BY <1>0 DEF AloneInv, Unused, Still
<1>7. OnConn' /\ Awaited'
  BY <1>2 DEF OnConn, Awaited
<1>. QED
  BY <1>2, <1>3, <1>5, <1>6, <1>7 DEF AloneInv

\* The server answers the request of the call, or what a failed call has left.
LEMMA ServeAlone ==
  ASSUME AloneInv, NEW n \in Conns, Serve(n), knew' = knew
  PROVE  AloneInv'
<1>0. /\ n \in open /\ HasHeader(requests[n])
      /\ UNCHANGED <<conn, dialled, open, handlers, pc, mine, want, nth, outcome>>
  BY DEF Serve
<1>1. n = conn /\ conn # 0
  BY <1>0 DEF AloneInv, DirectTypes
<1>2. ~HasHeader(<<>>)
  BY DEF HasHeader, FrameHeaderSize, UINT32_SIZE
<1>3. Known' /\ NotYet' /\ Told'
  BY <1>0, TellsNothing
<1>4. /\ requests' = [m \in Conns |-> requests'[m]] /\ stream' = [m \in Conns |-> stream'[m]]
      /\ \A m \in Conns : m # n => requests'[m] = requests[m] /\ stream'[m] = stream[m]
  BY DEF Serve, AloneInv, DirectTypes
<1>5. \A m \in Conns : m > dialled => m # n
  BY <1>1, DirectClientAssumption DEF AloneInv, DirectTypes, Conns
<1>6. DirectTypes' /\ OneIn' /\ OnConn'
  BY <1>0, <1>4 DEF AloneInv, DirectTypes, OneIn, OnConn
<1>7. Unused'
  BY <1>0, <1>4, <1>5 DEF AloneInv, Unused
<1>8. PICK x \in Callers : pc[x] \in {"head", "body", "fail"}
  BY <1>0, <1>1, <1>2 DEF AloneInv, Still
<1>9. \A y \in Callers : y # x => pc[y] = "idle"
  BY <1>8, AloneIn
<1>10. Still'
  BY <1>0, <1>8 DEF Still
<1>11. Awaited'
  <2>1. CASE pc[x] = "fail"
    BY <1>0, <1>9, <2>1 DEF Awaited
  <2>2. CASE pc[x] = "body"
    BY <1>0, <1>1, <1>2, <2>2 DEF AloneInv, Awaited, Answered
  <2>3. CASE pc[x] = "head"
    <3>1. requests[n] = Request(Id(x)) /\ stream[n] = <<>>
      BY <1>0, <1>1, <1>2, <2>3 DEF AloneInv, Awaited, Asked
    <3>2. PICK k \in CallIds : k = Id(x)
      BY <2>3, AloneIn
    <3>3. PICK f : f = requests[n]
      OBVIOUS
    <3>4. /\ DataTypeOf(f) = DTCall
          /\ Taken(AfterHeader(f), ContentLenOf(f)) = PackCall(Service[k], Input[k])
          /\ Rest(AfterHeader(f), ContentLenOf(f)) = <<>>
      BY <3>1, <3>2, <3>3, RequestRead
    <3>5. PICK c : c = ReplyTo(DTCall, PackCall(Service[k], Input[k]))
      OBVIOUS
    <3>6. Fits(k, c)
      BY <3>2, <3>5, ReplyFits DEF AloneInv, DirectTypes
    <3>7. PICK g : g = PackFrame(ConnTypeDirectServer, DTReply, c)
      OBVIOUS
    <3>8. g \in Seq(Nat)
      <4>1. c \in Seq(Nat)
        BY <3>2, <3>6, FitsRead
      <4>2. ConnTypeDirectServer \in Nat /\ DTReply \in Nat
        BY DEF ConnTypeDirectServer, DTReply
      <4>. QED
        BY <3>7, <4>1, <4>2, FrameParts
    <3>9. requests' = [requests EXCEPT ![n] = <<>>]
      BY <3>3, <3>4 DEF Serve
    <3>10. stream' = [stream EXCEPT ![n] = <<>> \o g]
      BY <3>1, <3>3, <3>4, <3>5, <3>7 DEF Serve
    <3>11. <<>> \o g = g
      BY <3>8, ConcatEmptySeq
    <3>12. requests'[n] = <<>> /\ stream'[n] = g
      BY <3>9, <3>10, <3>11 DEF AloneInv, DirectTypes
    <3>13. Fits(k, c)'
      BY <1>0, <3>6, FitsStays
    <3>14. Fits(Id(x), c)'
      BY <1>0, <3>2, <3>13 DEF Fits, Result, Id
    <3>15. Asked(x)'
      BY <1>0, <1>1, <3>7, <3>12, <3>14 DEF Asked
    <3>. QED
      BY <1>0, <1>9, <2>3, <3>15 DEF Awaited
  <2>. QED
    BY <1>8, <2>1, <2>2, <2>3
<1>. QED
  BY <1>3, <1>6, <1>7, <1>10, <1>11 DEF AloneInv

\* Register: what fits a call goes on fitting it.
LEMMA RegisterAlone ==
  ASSUME AloneInv, NEW name, ServerRegister(name), knew' = knew
  PROVE  AloneInv'
<1>0. /\ handlers \subseteq handlers'
      /\ UNCHANGED <<conn, dialled, open, requests, stream, pc, mine, want, nth, outcome>>
  BY DEF ServerRegister
<1>1. Known' /\ NotYet' /\ Told'
  BY <1>0, TellsNothing
<1>2. DirectTypes' /\ OneIn' /\ Unused' /\ Still' /\ OnConn'
  BY <1>0 DEF AloneInv, DirectTypes, OneIn, Unused, Still, OnConn
<1>3. ASSUME NEW x, NEW c, Fits(Id(x), c) PROVE Fits(Id(x), c)'
  <2>1. PICK k : k = Id(x)
    OBVIOUS
  <2>2. Fits(k, c)'
    BY <1>0, <1>3, <2>1, FitsStays
  <2>. QED
    BY <1>0, <2>1, <2>2 DEF Fits, Result, Id
<1>4. \A x \in Callers : (Asked(x) => Asked(x)') /\ (Answered(x) => Answered(x)')
  <2>. TAKE x \in Callers
  <2>1. Request(Id(x))' = Request(Id(x))
    BY <1>0 DEF Request, Id
  <2>2. Asked(x) => Asked(x)'
    BY <1>0, <1>3, <2>1 DEF Asked
  <2>3. Answered(x) => Answered(x)'
    BY <1>0, <1>3 DEF Answered
  <2>. QED
    BY <2>2, <2>3
<1>5. Awaited'
  BY <1>0, <1>4 DEF AloneInv, Awaited
<1>. QED
  BY <1>1, <1>2, <1>5 DEF AloneInv

\* Nothing but open changes, or nothing at all.
LEMMA QuietAlone ==
  ASSUME AloneInv, open' \subseteq open,
         UNCHANGED <<conn, dialled, requests, stream, handlers, pc, mine, want, nth, outcome, knew>>
  PROVE  AloneInv'
<1>1. Known' /\ NotYet' /\ Told'
  BY TellsNothing
<1>2. DirectTypes' /\ OneIn' /\ Unused' /\ Still' /\ OnConn'
  BY DEF AloneInv, DirectTypes, OneIn, Unused, Still, OnConn
<1>3. Awaited'
  BY DEF AloneInv, Awaited, Asked, Answered, Fits, Request, Result, Id
<1>. QED
  BY <1>1, <1>2, <1>3 DEF AloneInv

-----------------------------------------------------------------------------
(* The theorem *)

\* A second caller in Call is what shared records.
LEMMA SecondIsSeen ==
  ASSUME AloneInv, NEW x \in Callers, Call(x), ~(Cardinality({y \in Callers : pc'[y] # "idle"}) > 1)
  PROVE  \A y \in Callers : pc[y] = "idle"
<1>. SUFFICES ASSUME NEW z \in Callers, pc[z] # "idle" PROVE FALSE
  OBVIOUS
<1>1. z # x /\ pc'[x] = "connect" /\ \A y \in Callers : y # x => pc'[y] = pc[y]
  BY DEF AloneInv, DirectTypes, Call, Goto
<1>2. \A y \in Callers : y # z => pc[y] = "idle"
  BY AloneIn
<1>3. {y \in Callers : pc'[y] # "idle"} = {x, z}
  BY <1>1, <1>2
<1>4. Cardinality({x, z}) = 2
  <2>1. IsFiniteSet({z}) /\ Cardinality({z}) = 1
    BY FS_Singleton
  <2>2. Cardinality({z} \cup {x}) = 2
    <3>1. x \notin {z}
      BY <1>1
    <3>2. Cardinality({z} \cup {x}) = Cardinality({z}) + 1
      BY <2>1, <3>1, FS_AddElement
    <3>. QED
      BY <2>1, <3>2
  <2>3. {z} \cup {x} = {x, z}
    OBVIOUS
  <2>. QED
    BY <2>2, <2>3
<1>. QED
  BY <1>3, <1>4

\* Every step keeps the invariant.
LEMMA DirectNextInv == DirectInv /\ [MCNext]_<<directVars, shared, knew>> => DirectInv'
<1>. SUFFICES ASSUME DirectInv, [MCNext]_<<directVars, shared, knew>> PROVE DirectInv'
  OBVIOUS
<1>1. CASE UNCHANGED <<directVars, shared, knew>>
  <2>1. AloneInv => AloneInv'
    BY <1>1, QuietAlone DEF directVars
  <2>. QED
    BY <1>1, <2>1 DEF DirectInv
<1>2. CASE MCNext
  <2>1. shared \in BOOLEAN /\ shared' \in BOOLEAN
    BY <1>2 DEF DirectInv, MCNext
  <2>. SUFFICES ASSUME ~shared' PROVE AloneInv'
    BY <2>1 DEF DirectInv
  <2>2. ~shared /\ ~(Cardinality({y \in Callers : pc'[y] # "idle"}) > 1)
    BY <1>2, <2>1 DEF MCNext
  <2>3. AloneInv
    BY <2>2 DEF DirectInv
  <2>4. knew' = knew \cup {k \in CallIds : nth'[k[1]] = k[2] /\ nth[k[1]] < k[2] /\ Service[k] \in handlers}
    BY <1>2 DEF MCNext
  <2>5. ASSUME nth' = nth PROVE knew' = knew
    <3>1. \A k \in CallIds : nth[k[1]] \in Nat
      BY <2>3, DirectClientAssumption DEF AloneInv, DirectTypes, CallIds
    <3>2. \A k \in CallIds : ~(nth[k[1]] = k[2] /\ nth[k[1]] < k[2])
      BY <3>1
    <3>. QED
      BY <2>4, <2>5, <3>2
  <2>6. ASSUME NEW x \in Callers, Call(x) PROVE AloneInv'
    BY <2>2, <2>3, <2>4, <2>6, SecondIsSeen, CallAlone
  <2>7. ASSUME NEW x \in Callers, CallStep(x) PROVE AloneInv'
    <3>1. nth' = nth
      BY <2>7 DEF CallStep, Connect, LookUp, Write, ReadHead, ReadBody, ReadFails, CloseConn
    <3>2. knew' = knew
      BY <2>5, <3>1
    <3>. QED
      BY <2>3, <2>7, <3>2, ConnectAlone, LookUpAlone, WriteAlone, ReadHeadAlone, ReadBodyAlone,
         ReadFailsAlone, CloseConnAlone DEF CallStep
  <2>8. ASSUME NEW n \in Conns, Serve(n) PROVE AloneInv'
    <3>1. knew' = knew
      BY <2>5, <2>8 DEF Serve
    <3>. QED
      BY <2>3, <2>8, <3>1, ServeAlone
  <2>9. ASSUME NEW n \in Conns, ServerCloses(n) PROVE AloneInv'
    <3>1. knew' = knew
      BY <2>5, <2>9 DEF ServerCloses
    <3>. QED
      BY <2>3, <2>9, <3>1, QuietAlone DEF ServerCloses, netVars
  <2>10. ASSUME NEW name \in Late, ServerRegister(name) PROVE AloneInv'
    <3>1. knew' = knew
      BY <2>5, <2>10 DEF ServerRegister
    <3>. QED
      BY <2>3, <2>10, <3>1, RegisterAlone
  <2>11. DirectNext
    BY <1>2 DEF MCNext
  <2>. QED
    BY <2>6, <2>7, <2>8, <2>9, <2>10, <2>11 DEF DirectNext
<1>. QED
  BY <1>1, <1>2

\* The strengthening is an invariant: while calls do not overlap, conn carries the
\* request of the call in progress, or its reply, or nothing.
THEOREM DirectInvariance == MCSpec => []DirectInv
<1>. QED
  BY DirectInitInv, DirectNextInv, PTL DEF MCSpec

\* Call: a caller that is alone on the Client gets the reply to its own request,
\* whatever timeouts, lost connections and late registrations came before it.
THEOREM RepliesAreOwn == MCSpec => []OwnReplyAlone
<1>1. DirectInv => OwnReplyAlone
  BY DEF DirectInv, AloneInv, Told, UnknownService, OwnReplyAlone
<1>. QED
  BY <1>1, DirectInvariance, PTL
=============================================================================
