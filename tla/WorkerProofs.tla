---------------------------- MODULE WorkerProofs ----------------------------
(***************************************************************************)
(* The worker, for any number of jobs, functions, heartbeats, connections, *)
(* frames and callers of WorkerClose: what its Agent sends (WorkerAgent),  *)
(* and how the worker ends (WorkerLife).                                   *)
(***************************************************************************)
EXTENDS MCWorkerAgent, WorkerLife, FiniteSetTheorems, SequenceTheorems, TLAPS

-----------------------------------------------------------------------------
(* WorkerAgent: what is sent *)

Reconnecting == rpc \in {"name", "nameWrite", "add", "addWrite"}

\* The connection: at most the Agent's own is up; WorkerReConnect has closed it
\* before it dials, and has a later one than the first or none afterwards.
Link ==
  /\ rpc \in {"watch", "del", "delWrite", "dial", "name", "nameWrite", "add", "addWrite"}
  /\ wire = [n \in Conns |-> wire[n]]
  /\ conn \notin up \/ rpc \in {"del", "delWrite", "dial"} => conn < MaxConns
  /\ rpc = "dial" => up = {}
  /\ Reconnecting => 1 \notin up

\* Who packs or writes a result or a heartbeat holds the lock.
Locked ==
  /\ \A j \in Jobs : jpc[j] \in {"pack", "write"} => lock = j
  /\ bpc \in {"sleep", "grab", "packPing", "writePing", "packGrab", "writeGrab"}
  /\ bpc \in {"packPing", "writePing", "packGrab", "writeGrab"} => lock = "beat"

\* While every frame is packed under the lock: what is written is what its writer
\* packed, and the results sent are of jobs done, one of each.
UnderLock ==
  OnlyLocked =>
    /\ \A j \in Jobs : jpc[j] = "write" => packed.type = "RETURN_DATA" /\ packed.ret = j
    /\ bpc \in {"writePing", "writeGrab"} => packed.type \notin {"RETURN_DATA", "ADD_FUNC"}
    /\ \A n \in Conns : \A m \in DOMAIN wire[n] : m.type = "RETURN_DATA" =>
         n = 1 /\ wire[n][m] = 1 /\ m.ret \in Jobs /\ jpc[m.ret] = "done"
    /\ \A k, m \in DOMAIN wire[1] :
         k.type = "RETURN_DATA" /\ m.type = "RETURN_DATA" /\ k.ret = m.ret => k = m

\* While jobs run one at a time: the header in Req is of the job that has set one,
\* and so is that of a result packed.
OneHeader ==
  ~crowd =>
    /\ \A j, k \in Jobs : jpc[j] \notin {"none", "done"} /\ jpc[k] \notin {"none", "done"} => j = k
    /\ \A j \in Jobs : jpc[j] \in {"ready", "pack", "write"} => head = j
    /\ packed.type = "RETURN_DATA" => packed.of = packed.ret
    /\ OwnHeader

\* While no frame is packed over another: an announcement to be written is packed,
\* and those written are on the wire.
Announcing ==
  ~clash =>
    /\ \A f \in Late : apc[f] = "write" => packed = Frame("ADD_FUNC", f)
    /\ rpc = "addWrite" => packed.type = "ADD_FUNC"
    /\ rpc \in {"watch", "del", "delWrite"} /\ conn \in up => Funcs \subseteq SentOn(conn)
    /\ rpc \in {"add", "addWrite"} /\ conn \in up =>
         \A f \in Funcs \ todo : f \in SentOn(conn) \/ (rpc = "addWrite" /\ packed.of = f)
    /\ \A f \in Late : apc[f] = "done" /\ up = {1} => f \in SentOn(1)

IInv == TypeOK /\ Link /\ Locked /\ UnderLock /\ OneHeader /\ Announcing

\* A worker that has just announced its functions satisfies the inductive invariant.
LEMMA InitIInv ==
  ASSUME MCInit
  PROVE  IInv
<1>. USE MCInit, WorkerAgentAssumption DEF MCInit, Init
<1>1. \A n \in Conns : DOMAIN wire[n] = IF n = 1 THEN {Frame("ADD_FUNC", f) : f \in Funcs} ELSE {}
  BY DEF SetToBag, EmptyBag
<1>2. \A n \in Conns : \A m \in DOMAIN wire[n] : m.type = "ADD_FUNC"
  BY <1>1 DEF Frame
<1>3. 1 \in Conns
  BY DEF Conns
<1>4. TypeOK
  BY <1>3 DEF TypeOK, Conns
<1>5. Link /\ Locked
  BY DEF Link, Reconnecting, Locked
<1>6. UnderLock
  BY <1>2, <1>3 DEF UnderLock
<1>7. OwnHeader
  BY <1>2 DEF OwnHeader, Sent
<1>8. OneHeader
  BY <1>7 DEF OneHeader, Plain, Frame
<1>9. Funcs \subseteq SentOn(1)
  <2>1. SUFFICES ASSUME NEW f \in Funcs PROVE f \in SentOn(1)
    OBVIOUS
  <2>2. Frame("ADD_FUNC", f) \in DOMAIN wire[1]
    BY <1>1, <1>3
  <2>3. Frame("ADD_FUNC", f).type = "ADD_FUNC" /\ Frame("ADD_FUNC", f).of = f
    BY DEF Frame
  <2>. QED
    BY <2>2, <2>3 DEF SentOn
<1>10. Announcing
  BY <1>9 DEF Announcing
<1>. QED
  BY <1>4, <1>5, <1>6, <1>8, <1>10 DEF IInv

-----------------------------------------------------------------------------
(* What a step does to the wire *)

\* Agent.Write adds the frame that is packed, if a connection is up and the frame is
\* one that the model keeps.
LEMMA WriteSays ==
  ASSUME TypeOK, Link, Write
  PROVE  /\ wire' = [n \in Conns |-> wire'[n]]
         /\ \A n \in Conns : n # conn => wire'[n] = wire[n]
         /\ IF conn \in up /\ packed.type \in {"RETURN_DATA", "ADD_FUNC"}
            THEN wire'[conn] = wire[conn] (+) SetToBag({packed}) ELSE wire' = wire
  BY DEF TypeOK, Link, Write

\* A step writes or leaves the wire alone.
LEMMA NextWrites ==
  ASSUME Next
  PROVE  wire' = wire \/ Write
  BY DEF Next, StartJob, JobStep, JobFails, SetHead, LockJob, RetPack, WriteJob,
         BeatStep, LockBeat, PackBeat, WriteBeat, AddFunction, AddStep, PackAdd, WriteAdd,
         WatchStep, Timeout, PackDel, WriteDel, CloseOld, Redial, RedialFails, PackName, WriteName,
         PackReAdd, WriteReAdd, ReAddDone, ConnLost, Silence

\* What was sent stays sent.
LEMMA WireGrows ==
  ASSUME TypeOK, Link, Next
  PROVE  /\ wire' = [n \in Conns |-> wire'[n]]
         /\ \A n \in Conns : DOMAIN wire[n] \subseteq DOMAIN wire'[n]
         /\ \A n \in Conns : SentOn(n) \subseteq SentOn(n)'
<1>1. wire' = [n \in Conns |-> wire'[n]]
  BY NextWrites, WriteSays DEF Link
<1>2. \A n \in Conns : DOMAIN wire[n] \subseteq DOMAIN wire'[n]
  <2>1. CASE wire' = wire
    BY <2>1
  <2>2. CASE Write
    <3>1. DOMAIN wire[conn] \subseteq DOMAIN (wire[conn] (+) SetToBag({packed}))
      BY DEF (+), SetToBag
    <3>. QED
      BY <2>2, <3>1, WriteSays
  <2>. QED
    BY <2>1, <2>2, NextWrites
<1>3. ASSUME NEW n \in Conns, NEW f \in SentOn(n)
      PROVE  f \in SentOn(n)'
  <2>1. PICK m \in DOMAIN wire[n] : m.type = "ADD_FUNC" /\ m.of = f
    BY <1>3, Zenon DEF SentOn
  <2>2. m \in DOMAIN wire'[n]
    BY <1>2, <2>1
  <2>. QED
    BY <2>1, <2>2 DEF SentOn
<1>. QED
  BY <1>1, <1>2, <1>3

-----------------------------------------------------------------------------
(* The steps, one part of the inductive invariant at a time *)

\* Every step keeps the types.
LEMMA TypeNext ==
  ASSUME TypeOK, Link, Next
  PROVE  TypeOK'
<1>. USE WorkerAgentAssumption DEF TypeOK
<1>1. ASSUME NEW j \in Jobs, StartJob(j) \/ JobStep(j) PROVE TypeOK'
  BY <1>1 DEF StartJob, JobStep, JobFails, SetHead, LockJob, RetPack, WriteJob, Step, Known
<1>2. CASE BeatStep
  BY <1>2 DEF BeatStep, LockBeat, PackBeat, WriteBeat, Known
<1>3. ASSUME NEW f \in Late, AddFunction(f) \/ AddStep(f) PROVE TypeOK'
  BY <1>3 DEF AddFunction, AddStep, PackAdd, WriteAdd, Step, Known
<1>4. CASE Redial
  BY <1>4 DEF Redial, Link, Known, Conns
<1>5. CASE WatchStep /\ ~Redial
  BY <1>5 DEF WatchStep, Timeout, PackDel, WriteDel, CloseOld, RedialFails, PackName, WriteName,
         PackReAdd, WriteReAdd, ReAddDone, Known
<1>6. CASE ConnLost \/ Silence
  BY <1>6 DEF ConnLost, Silence, Known
<1>. QED
  BY <1>1, <1>2, <1>3, <1>4, <1>5, <1>6 DEF Next

\* Every step keeps Link: WorkerReConnect dials only after it has closed.
LEMMA LinkNext ==
  ASSUME TypeOK, Link, Next
  PROVE  Link'
<1>. USE WorkerAgentAssumption DEF TypeOK, Link, Reconnecting
<1>0. wire' = [n \in Conns |-> wire'[n]]
  BY WireGrows
<1>1. ASSUME NEW j \in Jobs, StartJob(j) \/ JobStep(j) PROVE Link'
  BY <1>0, <1>1 DEF StartJob, JobStep, JobFails, SetHead, LockJob, RetPack, WriteJob
<1>2. CASE BeatStep
  BY <1>0, <1>2 DEF BeatStep, LockBeat, PackBeat, WriteBeat
<1>3. ASSUME NEW f \in Late, AddFunction(f) \/ AddStep(f) PROVE Link'
  BY <1>0, <1>3 DEF AddFunction, AddStep, PackAdd, WriteAdd
<1>4. CASE Redial
  BY <1>0, <1>4 DEF Redial, Conns
<1>5. CASE WatchStep /\ ~Redial
  BY <1>0, <1>5 DEF WatchStep, Timeout, PackDel, WriteDel, CloseOld, RedialFails, PackName, WriteName,
         PackReAdd, WriteReAdd, ReAddDone
<1>6. CASE ConnLost \/ Silence
  BY <1>0, <1>6 DEF ConnLost, Silence
<1>. QED
  BY <1>1, <1>2, <1>3, <1>4, <1>5, <1>6 DEF Next

\* Every step keeps Locked: the lock is taken when it is free and given up by its holder.
LEMMA LockedNext ==
  ASSUME TypeOK, Locked, Next
  PROVE  Locked'
<1>. USE WorkerAgentAssumption DEF TypeOK, Locked
<1>1. ASSUME NEW j \in Jobs, StartJob(j) \/ JobStep(j) PROVE Locked'
  BY <1>1 DEF StartJob, JobStep, JobFails, SetHead, LockJob, RetPack, WriteJob, Step
<1>2. CASE BeatStep
  BY <1>2 DEF BeatStep, LockBeat, PackBeat, WriteBeat
<1>3. ASSUME NEW f \in Late, AddFunction(f) \/ AddStep(f) PROVE Locked'
  BY <1>3 DEF AddFunction, AddStep, PackAdd, WriteAdd
<1>5. CASE WatchStep \/ ConnLost \/ Silence
  BY <1>5 DEF WatchStep, Timeout, PackDel, WriteDel, CloseOld, Redial, RedialFails, PackName, WriteName,
         PackReAdd, WriteReAdd, ReAddDone, ConnLost, Silence
<1>. QED
  BY <1>1, <1>2, <1>3, <1>5 DEF Next

\* While every frame is packed under the lock, no other goroutine has taken a step
\* but those that lose the connection.
LEMMA OnlyLockedBefore ==
  ASSUME TypeOK, Link, Next, OnlyLocked'
  PROVE  /\ OnlyLocked /\ conn = 1 /\ conn' = 1
         /\ \/ \E j \in Jobs : StartJob(j) \/ JobStep(j)
            \/ BeatStep
<1>. USE WorkerAgentAssumption DEF TypeOK, Link, Reconnecting, OnlyLocked
<1>1. ASSUME NEW j \in Jobs, StartJob(j) \/ JobStep(j) PROVE OnlyLocked /\ conn = 1 /\ conn' = 1
  BY <1>1 DEF StartJob, JobStep, JobFails, SetHead, LockJob, RetPack, WriteJob
<1>2. ASSUME BeatStep PROVE OnlyLocked /\ conn = 1 /\ conn' = 1
  BY <1>2 DEF BeatStep, LockBeat, PackBeat, WriteBeat
<1>3. ASSUME NEW f \in Late, AddFunction(f) \/ AddStep(f) PROVE FALSE
  BY <1>3 DEF AddFunction, AddStep, PackAdd, WriteAdd, Step
<1>5. ASSUME WatchStep \/ ConnLost \/ Silence PROVE FALSE
  BY <1>5 DEF WatchStep, Timeout, PackDel, WriteDel, CloseOld, Redial, RedialFails, PackName, WriteName,
         PackReAdd, WriteReAdd, ReAddDone, ConnLost, Silence
<1>. QED
  BY <1>1, <1>2, <1>3, <1>5 DEF Next

\* Every step keeps UnderLock: a result goes out once, when its job gets done.
LEMMA UnderLockNext ==
  ASSUME TypeOK, Link, Locked, UnderLock, Next
  PROVE  UnderLock'
<1>. SUFFICES ASSUME OnlyLocked' PROVE UnderLock'
  BY DEF UnderLock
<1>0. OnlyLocked /\ conn = 1 /\ conn' = 1
  BY OnlyLockedBefore
<1>. USE WorkerAgentAssumption, <1>0 DEF TypeOK, UnderLock, Locked
<1>1. ASSUME NEW j \in Jobs, StartJob(j) \/ JobFails(j) \/ SetHead(j) \/ LockJob(j) PROVE UnderLock'
  BY <1>1 DEF StartJob, JobFails, SetHead, LockJob, Step
<1>2. ASSUME NEW j \in Jobs, RetPack(j) PROVE UnderLock'
  BY <1>2 DEF RetPack, Step, Result
<1>3. ASSUME NEW j \in Jobs, WriteJob(j) PROVE UnderLock'
  <2>. USE <1>3 DEF WriteJob
  <2>1. packed.type = "RETURN_DATA" /\ packed.ret = j /\ packed \notin DOMAIN wire[1] /\ 1 \in Conns
    BY DEF Step, Conns
  <2>2. wire'[1] = (wire[1] (+) SetToBag({packed})) /\ \A n \in Conns : n # 1 => wire'[n] = wire[n]
    BY <2>1, WriteSays DEF OnlyLocked
  <2>3. /\ DOMAIN wire'[1] = DOMAIN wire[1] \cup {packed} /\ wire'[1][packed] = 1
        /\ \A m \in DOMAIN wire[1] : m.type = "RETURN_DATA" => wire'[1][m] = 1
    <3>1. \A m \in DOMAIN wire[1] : m.type = "RETURN_DATA" => wire[1][m] = 1 /\ m # packed
      BY <2>1
    <3>. HIDE DEF TypeOK, UnderLock, Locked
    <3>2. DOMAIN wire'[1] = DOMAIN wire[1] \cup {packed} /\ wire'[1][packed] = 1
      BY <2>1, <2>2 DEF (+), SetToBag
    <3>3. \A m \in DOMAIN wire[1] : m.type = "RETURN_DATA" => wire'[1][m] = 1
      BY <2>2, <3>1 DEF (+), SetToBag
    <3>. QED
      BY <3>2, <3>3
  <2>4. \A i \in Jobs : jpc'[i] = IF i = j THEN "done" ELSE jpc[i]
    BY DEF Step
  <2>5. \A n \in Conns : \A m \in DOMAIN wire'[n] : m.type = "RETURN_DATA" =>
          n = 1 /\ wire'[n][m] = 1 /\ m.ret \in Jobs /\ jpc'[m.ret] = "done"
    BY <2>1, <2>2, <2>3, <2>4
  <2>6. \A m \in DOMAIN wire[1] : m.type = "RETURN_DATA" => m.ret # j
    BY <2>1 DEF Step
  <2>7. \A k, m \in DOMAIN wire'[1] :
         k.type = "RETURN_DATA" /\ m.type = "RETURN_DATA" /\ k.ret = m.ret => k = m
    BY <2>1, <2>3, <2>6
  <2>8. \A i \in Jobs : jpc'[i] # "write"
    BY <2>4 DEF Step
  <2>9. bpc' \notin {"writePing", "writeGrab"}
    BY DEF Step
  <2>. QED
    BY <2>5, <2>7, <2>8, <2>9
<1>4. CASE LockBeat \/ PackBeat
  BY <1>4 DEF LockBeat, PackBeat, Plain, Frame
<1>5. CASE WriteBeat
  <2>1. wire' = wire
    BY <1>5 DEF WriteBeat, Write
  <2>. QED
    BY <1>5, <2>1 DEF WriteBeat
<1>. QED
  BY <1>1, <1>2, <1>3, <1>4, <1>5, OnlyLockedBefore DEF JobStep, BeatStep

\* What is on the wire after a step was there before or was packed.
LEMMA SentBefore ==
  ASSUME TypeOK, Link, Next
  PROVE  \A n \in Conns : \A m \in DOMAIN wire'[n] : m \in DOMAIN wire[n] \/ (Write /\ m = packed)
<1>1. CASE wire' = wire
  BY <1>1
<1>2. CASE Write
  <2>1. DOMAIN (wire[conn] (+) SetToBag({packed})) = DOMAIN wire[conn] \cup {packed}
    BY DEF (+), SetToBag
  <2>. QED
    BY <1>2, <2>1, WriteSays
<1>. QED
  BY <1>1, <1>2, NextWrites

\* The steps that are not of DoFunction leave its header and its goroutines alone.
LEMMA OtherSteps ==
  ASSUME Next
  PROVE  (\E j \in Jobs : StartJob(j) \/ JobStep(j)) \/ UNCHANGED <<head, jpc>>
  BY DEF Next,
         BeatStep, LockBeat, PackBeat, WriteBeat, AddFunction, AddStep, PackAdd, WriteAdd,
         WatchStep, Timeout, PackDel, WriteDel, CloseOld, Redial, RedialFails, PackName, WriteName,
         PackReAdd, WriteReAdd, ReAddDone, ConnLost, Silence

\* Only RetPack packs a result.
LEMMA PacksSays ==
  ASSUME Next
  PROVE  (\E j \in Jobs : RetPack(j)) \/ packed' = packed \/ packed'.type # "RETURN_DATA"
<1>. USE DEF Plain, Frame
<1>1. ASSUME NEW j \in Jobs, StartJob(j) \/ JobStep(j), ~RetPack(j) PROVE packed' = packed
  BY <1>1 DEF StartJob, JobStep, JobFails, SetHead, LockJob, WriteJob
<1>2. CASE BeatStep
  BY <1>2 DEF BeatStep, LockBeat, PackBeat, WriteBeat
<1>3. ASSUME NEW f \in Late, AddFunction(f) \/ AddStep(f)
      PROVE  packed' = packed \/ packed'.type # "RETURN_DATA"
  BY <1>3 DEF AddFunction, AddStep, PackAdd, WriteAdd
<1>4. CASE PackDel \/ PackReAdd \/ PackName
  BY <1>4 DEF PackDel, PackReAdd, PackName
<1>5. CASE UNCHANGED packed
  BY <1>5
<1>6. WatchStep => PackDel \/ PackReAdd \/ PackName \/ packed' = packed
  BY DEF WatchStep, Timeout, WriteDel, CloseOld, Redial, RedialFails, WriteName, WriteReAdd, ReAddDone
<1>. QED
  BY <1>1, <1>2, <1>3, <1>4, <1>5, <1>6 DEF Next, ConnLost, Silence

\* Every step keeps OneHeader: no other job is there to set the header.
LEMMA OneHeaderNext ==
  ASSUME TypeOK, Link, OneHeader, MCNext
  PROVE  OneHeader'
<1>. SUFFICES ASSUME ~crowd' PROVE OneHeader'
  BY DEF OneHeader
<1>0. Next /\ ~crowd /\ TypeOK'
  BY TypeNext DEF MCNext
<1>. USE WorkerAgentAssumption, <1>0
<1>1. \A j, k \in Jobs : jpc'[j] \notin {"none", "done"} /\ jpc'[k] \notin {"none", "done"} => j = k
  <2>. DEFINE R == Running(jpc')
  <2>1. IsFiniteSet(R) /\ R \subseteq Jobs
    BY FS_Subset DEF Running
  <2>2. ~(Cardinality(R) > 1) /\ Cardinality(R) \in Nat
    BY <2>1, FS_CardinalityType DEF MCNext
  <2>3. ASSUME NEW j \in R, NEW k \in R, j # k
        PROVE  FALSE
    <3>1. Cardinality({j, k}) = 2
      <4>1. IsFiniteSet({j}) /\ Cardinality({j}) = 1
        BY FS_Singleton
      <4>2. Cardinality({j} \cup {k}) = Cardinality({j}) + 1
        BY <2>3, <4>1, FS_AddElement
      <4>3. {j} \cup {k} = {j, k}
        OBVIOUS
      <4>. QED
        BY <4>1, <4>2, <4>3
    <3>2. Cardinality({j, k}) <= Cardinality(R)
      <4>1. {j, k} \subseteq R
        OBVIOUS
      <4>. QED
        BY <2>1, <4>1, FS_Subset
    <3>. QED
      BY <2>2, <3>1, <3>2
  <2>. QED
    BY <2>3 DEF Running
<1>2. \A j \in Jobs : jpc'[j] \in {"ready", "pack", "write"} => head' = j
  <2>. USE DEF TypeOK, OneHeader
  <2>1. ASSUME NEW i \in Jobs, StartJob(i) \/ JobStep(i)
        PROVE  \A j \in Jobs : jpc'[j] \in {"ready", "pack", "write"} => head' = j
    BY <2>1 DEF StartJob, JobStep, JobFails, SetHead, LockJob, RetPack, WriteJob, Step
  <2>2. CASE UNCHANGED <<head, jpc>>
    BY <2>2
  <2>. QED
    BY <2>1, <2>2, OtherSteps
<1>3. packed'.type = "RETURN_DATA" => packed'.of = packed'.ret
  <2>. USE DEF OneHeader
  <2>1. ASSUME NEW i \in Jobs, RetPack(i) PROVE packed'.of = packed'.ret
    BY <2>1 DEF RetPack, Result, Step
  <2>. QED
    BY <2>1, PacksSays
<1>4. OwnHeader'
  BY SentBefore DEF OwnHeader, Sent, OneHeader
<1>. QED
  BY <1>1, <1>2, <1>3, <1>4 DEF OneHeader

\* While no frame is packed over another, who is to write one has it packed.
LEMMA OwnFrame ==
  ASSUME TypeOK, Announcing, MCNext, ~clash'
  PROVE  /\ ~clash /\ (Packed => packed' = packed)
         /\ \A f \in Late : apc'[f] = "write" => packed' = Frame("ADD_FUNC", f)
         /\ rpc' = "addWrite" => packed'.type = "ADD_FUNC"
<1>1. Next /\ ~clash /\ (Packed => packed' = packed)
  BY DEF MCNext
<1>2. ASSUME NEW f \in Late, apc'[f] = "write"
      PROVE  packed' = Frame("ADD_FUNC", f)
  <2>1. CASE apc[f] = "write"
    BY <1>1, <2>1 DEF Packed, Announcing
  <2>2. CASE apc[f] # "write"
    <3>1. PackAdd(f)
      BY <1>1, <1>2, <2>2 DEF Next, StartJob, JobStep, JobFails, SetHead, LockJob, RetPack, WriteJob,
         BeatStep, LockBeat, PackBeat, WriteBeat, AddFunction, AddStep, PackAdd, WriteAdd,
         WatchStep, Timeout, PackDel, WriteDel, CloseOld, Redial, RedialFails, PackName, WriteName,
         PackReAdd, WriteReAdd, ReAddDone, ConnLost, Silence, Step, TypeOK
    <3>. QED
      BY <3>1 DEF PackAdd
  <2>. QED
    BY <2>1, <2>2
<1>3. ASSUME rpc' = "addWrite"
      PROVE  packed'.type = "ADD_FUNC"
  <2>1. CASE rpc = "addWrite"
    BY <1>1, <2>1 DEF Packed, Announcing
  <2>2. CASE rpc # "addWrite"
    <3>1. PackReAdd
      BY <1>1, <1>3, <2>2 DEF Next, StartJob, JobStep, JobFails, SetHead, LockJob, RetPack, WriteJob,
         BeatStep, LockBeat, PackBeat, WriteBeat, AddFunction, AddStep, PackAdd, WriteAdd,
         WatchStep, Timeout, PackDel, WriteDel, CloseOld, Redial, RedialFails, PackName, WriteName,
         PackReAdd, WriteReAdd, ReAddDone, ConnLost, Silence, Step, TypeOK
    <3>. QED
      BY <3>1 DEF PackReAdd, Frame
  <2>. QED
    BY <2>1, <2>2
<1>. QED
  BY <1>1, <1>2, <1>3

\* A frame written that announces a function announces it.
LEMMA WriteAnnounces ==
  ASSUME TypeOK, Link, Write, conn \in up, packed.type = "ADD_FUNC", NEW n, n = conn
  PROVE  packed.of \in SentOn(n)'
<1>1. packed \in DOMAIN (wire[conn] (+) SetToBag({packed}))
  BY DEF (+), SetToBag
<1>2. packed \in DOMAIN wire'[n]
  BY <1>1, WriteSays
<1>. QED
  BY <1>2, Zenon DEF SentOn

\* Only MsgBroadcast itself goes on with a function added late.
LEMMA AddsSays ==
  ASSUME TypeOK, Next, NEW f \in Late
  PROVE  apc'[f] = apc[f] \/ AddFunction(f) \/ PackAdd(f) \/ WriteAdd(f)
<1>1. apc' = apc \/ \E g \in Late : AddFunction(g) \/ AddStep(g)
  BY DEF Next, StartJob, JobStep, JobFails, SetHead, LockJob, RetPack, WriteJob,
         BeatStep, LockBeat, PackBeat, WriteBeat,
         WatchStep, Timeout, PackDel, WriteDel, CloseOld, Redial, RedialFails, PackName, WriteName,
         PackReAdd, WriteReAdd, ReAddDone, ConnLost, Silence
<1>. QED
  BY <1>1 DEF TypeOK, AddFunction, AddStep, PackAdd, WriteAdd, Step

\* What the steps do to a reconnection.
LEMMA WatchSays ==
  ASSUME TypeOK, Link, Next
  PROVE  \/ UNCHANGED <<rpc, todo, conn>> /\ up' \subseteq up
         \/ ReAddDone \/ WriteName \/ PackReAdd \/ WriteReAdd
         \/ /\ rpc \in {"watch", "del", "delWrite"} /\ rpc' \in {"del", "delWrite", "dial"}
            /\ conn' = conn /\ up' \subseteq up
         \/ rpc' \in {"name", "nameWrite"} /\ (up' \subseteq up \/ 1 \notin up')
<1>1. ASSUME NEW j \in Jobs, StartJob(j) \/ JobStep(j)
      PROVE  UNCHANGED <<rpc, todo, conn, up>>
  BY <1>1 DEF StartJob, JobStep, JobFails, SetHead, LockJob, RetPack, WriteJob
<1>2. ASSUME NEW f \in Late, AddFunction(f) \/ AddStep(f)
      PROVE  UNCHANGED <<rpc, todo, conn, up>>
  BY <1>2 DEF AddFunction, AddStep, PackAdd, WriteAdd
<1>3. CASE BeatStep \/ ConnLost
  BY <1>3 DEF BeatStep, LockBeat, PackBeat, WriteBeat, ConnLost
<1>4. CASE Redial
  BY <1>4 DEF Redial, TypeOK, Link, Conns
<1>5. CASE WatchStep \/ Silence
  BY <1>4, <1>5 DEF WatchStep, Timeout, PackDel, WriteDel, CloseOld, RedialFails, PackName, Silence
<1>. QED
  BY <1>1, <1>2, <1>3, <1>5 DEF Next

\* A step keeps Announcing.
LEMMA AnnouncingNext ==
  ASSUME TypeOK, Link, Announcing, MCNext
  PROVE  Announcing'
<1>. SUFFICES ASSUME ~clash' PROVE Announcing'
  BY DEF Announcing
<1>0. Next /\ conn \in Conns /\ up \subseteq {conn} /\ ~clash /\ (Packed => packed' = packed)
  BY OwnFrame DEF MCNext, TypeOK
<1>1. \A n \in Conns : SentOn(n) \subseteq SentOn(n)'
  BY <1>0, WireGrows
<1>2. rpc' \in {"watch", "del", "delWrite"} /\ conn' \in up' => Funcs \subseteq SentOn(conn)'
  <2>. SUFFICES ASSUME rpc' \in {"watch", "del", "delWrite"}, conn' \in up', NEW f \in Funcs
                PROVE  f \in SentOn(conn)'
    OBVIOUS
  <2>1. CASE ReAddDone
    <3>1. conn' = conn /\ f \in SentOn(conn)
      BY <1>0, <2>1 DEF ReAddDone, Announcing
    <3>. QED
      BY <1>0, <1>1, <3>1
  <2>2. CASE rpc \in {"watch", "del", "delWrite"} /\ conn' = conn /\ up' \subseteq up
    <3>1. f \in SentOn(conn)
      BY <1>0, <2>2 DEF Announcing
    <3>. QED
      BY <1>0, <1>1, <2>2, <3>1
  <2>. QED
    BY <1>0, <2>1, <2>2, WatchSays DEF WriteName, PackReAdd, WriteReAdd
<1>3. ASSUME rpc' \in {"add", "addWrite"}, conn' \in up', NEW f \in Funcs \ todo'
      PROVE  f \in SentOn(conn)' \/ (rpc' = "addWrite" /\ packed'.of = f)
  <2>1. CASE UNCHANGED <<rpc, todo, conn>> /\ up' \subseteq up
    <3>1. f \in SentOn(conn) \/ (rpc = "addWrite" /\ packed.of = f)
      BY <1>0, <1>3, <2>1 DEF Announcing
    <3>2. rpc = "addWrite" => packed' = packed
      BY <1>0 DEF Packed
    <3>. QED
      BY <1>0, <1>1, <2>1, <3>1, <3>2
  <2>2. CASE WriteName
    BY <1>3, <2>2 DEF WriteName, Known
  <2>3. CASE PackReAdd
    <3>1. rpc' = "addWrite" /\ UNCHANGED <<conn, up>> /\ rpc = "add"
      BY <2>3 DEF PackReAdd
    <3>2. f \in todo => packed'.of = f
      BY <1>3, <2>3 DEF PackReAdd, Frame
    <3>3. f \notin todo => f \in SentOn(conn)
      BY <1>0, <1>3, <3>1 DEF Announcing
    <3>. QED
      BY <1>0, <1>1, <3>1, <3>2, <3>3
  <2>4. CASE WriteReAdd
    <3>1. UNCHANGED <<conn, up, todo>> /\ rpc = "addWrite" /\ Write
      BY <2>4 DEF WriteReAdd
    <3>2. packed.type = "ADD_FUNC" /\ (f \in SentOn(conn) \/ packed.of = f)
      BY <1>0, <1>3, <3>1 DEF Announcing
    <3>3. packed.of \in SentOn(conn)'
      BY <1>3, <3>1, <3>2, WriteAnnounces
    <3>. QED
      BY <1>0, <1>1, <3>1, <3>2, <3>3
  <2>. QED
    BY <1>0, <1>3, <2>1, <2>2, <2>3, <2>4, WatchSays DEF ReAddDone
<1>4. ASSUME NEW f \in Late, apc'[f] = "done", up' = {1}
      PROVE  f \in SentOn(1)'
  <2>1. up = {1} /\ conn = 1 /\ 1 \in Conns
    BY <1>0, <1>4, WatchSays DEF Conns, ReAddDone, WriteName, PackReAdd, WriteReAdd
  <2>2. CASE apc[f] = "done"
    BY <1>0, <1>1, <2>1, <2>2 DEF Announcing
  <2>3. CASE WriteAdd(f)
    <3>1. packed.type = "ADD_FUNC" /\ packed.of = f /\ Write
      BY <1>0, <2>3 DEF Announcing, WriteAdd, Step, Frame
    <3>. QED
      BY <2>1, <3>1, WriteAnnounces
  <2>. QED
    BY <1>0, <1>4, <2>2, <2>3, AddsSays DEF AddFunction, PackAdd, Step, TypeOK
<1>. QED
  BY <1>2, <1>3, <1>4, OwnFrame DEF Announcing

-----------------------------------------------------------------------------
(* The theorems *)

\* Every step keeps the inductive invariant.
LEMMA NextIInv ==
  ASSUME IInv, [MCNext]_<<vars, crowd, clash>>
  PROVE  IInv'
<1>1. CASE MCNext
  BY <1>1, TypeNext, LinkNext, LockedNext, UnderLockNext, OneHeaderNext, AnnouncingNext DEF IInv, MCNext
<1>2. CASE UNCHANGED <<vars, crowd, clash>>
  <2>. USE <1>2 DEF vars
  <2>1. TypeOK' <=> TypeOK
    BY DEF TypeOK, Known
  <2>2. (Link' <=> Link) /\ (Locked' <=> Locked)
    BY DEF Link, Reconnecting, Locked
  <2>3. UnderLock' <=> UnderLock
    BY DEF UnderLock, OnlyLocked
  <2>4. OneHeader' <=> OneHeader
    BY DEF OneHeader, OwnHeader, Sent
  <2>5. Announcing' <=> Announcing
    BY DEF Announcing, SentOn
  <2>. QED
    BY <2>1, <2>2, <2>3, <2>4, <2>5 DEF IInv
<1>. QED
  BY <1>1, <1>2

\* The inductive invariant holds of every behaviour.
LEMMA Invariance == MCSpec => []IInv
  BY InitIInv, NextIInv, PTL DEF MCSpec

\* At most one result of a job is on the wire.
LEMMA OneResult ==
  ASSUME TypeOK, UnderLock, OnlyLocked, NEW j \in Jobs
  PROVE  Cardinality(Results(j)) <= 1 /\ (Results(j) # {} => jpc[j] = "done")
<1>1. \A r \in Results(j) : /\ r = <<r[1], r[2]>> /\ r[1] = <<r[1][1], r[1][2]>>
                            /\ r[1][1] \in Conns /\ r[1][2] \in ResultsOn(r[1][1], j)
                            /\ r[2] \in 1..wire[r[1][1]][r[1][2]]
  BY DEF Results
<1>2. \A r \in Results(j) : /\ r = <<<<1, r[1][2]>>, 1>>
                            /\ r[1][2] \in DOMAIN wire[1] /\ r[1][2].type = "RETURN_DATA" /\ r[1][2].ret = j
                            /\ jpc[j] = "done"
  BY <1>1 DEF ResultsOn, UnderLock
<1>3. \A q, r \in Results(j) : q = r
  BY <1>2 DEF UnderLock
<1>4. Results(j) = {} \/ \E r : Results(j) = {r}
  BY <1>3
<1>5. Cardinality(Results(j)) <= 1
  <2>1. CASE Results(j) = {}
    <3>1. Cardinality({}) = 0
      BY FS_EmptySet
    <3>. QED
      BY <2>1, <3>1
  <2>2. ASSUME NEW r, Results(j) = {r} PROVE Cardinality(Results(j)) <= 1
    <3>1. Cardinality({r}) = 1
      BY FS_Singleton
    <3>. QED
      BY <2>2, <3>1
  <2>. QED
    BY <1>4, <2>1, <2>2
<1>. QED
  BY <1>2, <1>5

\* DoFunction, HeartBeatPing and Grab: as long as every frame is packed under the
\* Agent's lock, the result of a job is sent at most once, and not before it is done.
THEOREM ResultSentOnce == MCSpec => []ResultOnce
<1>1. IInv => ResultOnce
  BY OneResult DEF IInv, ResultOnce
<1>. QED
  BY <1>1, Invariance, PTL

\* DoFunction: as long as jobs run one at a time, each result goes out under the header
\* of its own job, whatever heartbeats, announcements and reconnections come between.
THEOREM HeaderIsOwn == MCSpec => []OwnHeaderAlone
<1>1. IInv => OwnHeaderAlone
  BY DEF IInv, OneHeader, OwnHeaderAlone
<1>. QED
  BY <1>1, Invariance, PTL

\* WorkerReConnect and MsgBroadcast: as long as no frame is packed over one that is
\* still to be written, all functions are announced on every new connection, and a
\* function added late on the first one.
THEOREM FunctionsAnnounced == MCSpec => []AnnouncedUnlessOverwritten
<1>1. IInv => AnnouncedUnlessOverwritten
  BY DEF IInv, Announcing, AnnouncedUnlessOverwritten, Announced
<1>. QED
  BY <1>1, Invariance, PTL

-----------------------------------------------------------------------------
(* WorkerLife: a worker that was closed stays closed *)

\* The flags, and a bound of what waits: every response was a frame once.
Flags == running \in BOOLEAN /\ midway \in BOOLEAN
Flow ==
  /\ frames \in 0..MaxFrames /\ waiting + Len(Resps) <= frames
  /\ wpc = "send" => held \in Kinds /\ waiting + Len(Resps) < frames

\* A WorkerClose past Agent.Close.
Past(c) == cpc[c] \in {"nil", "stop", "flag", "resps", "done"}

\* Unless the watcher was in a pass during a WorkerClose, it rests while one runs and
\* after one has returned.
Watch ==
  /\ \A c \in Closers : cpc[c] \in {"resps", "done"} => ~running
  /\ ~midway => /\ Closing => vpc \in {"sleep", "ended"}
                /\ \A c \in Closers : cpc[c] = "done" => vpc \in {"sleep", "ended"}

\* And then the one open connection is the Agent's, none is open when the watcher
\* dials, and none after Agent.Close.
Lone ==
  ~midway => /\ open \subseteq {aconn}
             /\ vpc = "dial" => open = {}
             /\ \A c \in Closers : Past(c) => open = {}

LifeInv == LifeTypeOK /\ Flags /\ Flow /\ Watch /\ Lone

\* A worker that has just connected satisfies the inductive invariant.
LEMMA InitLife ==
  ASSUME LifeInit
  PROVE  LifeInv
<1>. USE LifeInit, WorkerLifeAssumption DEF LifeInit
<1>1. LifeTypeOK
  <2>1. Resps \in Seq(Kinds) /\ Len(Resps) <= QUEUE_SIZE /\ waiting \in 0..MaxFrames
    OBVIOUS
  <2>2. aconn \in 0..dialled /\ open \subseteq 1..dialled /\ dialled \in Dials
    BY DEF Dials
  <2>3. cpc \in [Closers -> {"idle", "del", "delUse", "conn", "nil", "stop", "flag", "resps", "done", "noop"}]
    OBVIOUS
  <2>. QED
    BY <2>1, <2>2, <2>3 DEF LifeTypeOK, Dials
<1>2. Flags
  BY DEF Flags
<1>3. Flow
  <2>1. frames \in 0..MaxFrames /\ waiting + Len(Resps) <= frames
    OBVIOUS
  <2>. QED
    BY <2>1, Zenon DEF Flow
<1>4. Watch /\ Lone
  BY DEF Watch, Closing, Lone, Past
<1>. QED
  BY <1>1, <1>2, <1>3, <1>4, Zenon DEF LifeInv

-----------------------------------------------------------------------------
(* The steps of the frames *)

\* The variables of the connection and of those who make and close it.
lifeVars == <<running, aconn, dialled, open, vpc, cpc>>

\* What Notes says, once and for all.
LEMMA NotesSays ==
  ASSUME LifeInv, Notes
  PROVE  /\ midway' \in BOOLEAN /\ (midway => midway')
         /\ ~midway' /\ Closing' => vpc' \in {"sleep", "ended"}
  BY DEF LifeInv, Flags, Notes

\* A step of the frames leaves the life of the connection as it was.
LEMMA LifeSame ==
  ASSUME LifeInv, UNCHANGED lifeVars, midway' = midway \/ Notes
  PROVE  Watch' /\ Lone' /\ Flags'
<1>. USE DEF LifeInv, lifeVars
<1>1. Closing' = Closing
  BY DEF Closing
<1>2. midway' \in BOOLEAN /\ (~midway' => ~midway)
  BY NotesSays DEF Flags
<1>3. Watch' /\ Lone' /\ Flags'
  BY <1>1, <1>2 DEF Watch, Lone, Past, Flags
<1>. QED
  BY <1>3

\* The counts of the frames, as numbers.
LEMMA Counts ==
  ASSUME LifeInv
  PROVE  /\ MaxFrames \in Nat /\ QUEUE_SIZE \in Nat
         /\ frames \in Nat /\ frames <= MaxFrames /\ waiting \in Nat
         /\ Len(Resps) \in Nat /\ Len(Resps) <= QUEUE_SIZE
         /\ waiting + Len(Resps) <= frames
         /\ wpc = "send" => waiting + Len(Resps) < frames
<1>1. Resps \in Seq(Kinds) /\ Len(Resps) <= QUEUE_SIZE /\ waiting \in 0..MaxFrames
  BY Zenon DEF LifeInv, LifeTypeOK
<1>2. frames \in 0..MaxFrames /\ waiting + Len(Resps) <= frames
  BY Zenon DEF LifeInv, Flow
<1>3. wpc = "send" => waiting + Len(Resps) < frames
  BY Zenon DEF LifeInv, Flow
<1>. QED
  BY <1>1, <1>2, <1>3, WorkerLifeAssumption, LenProperties

\* The main loop takes a response, and hands one that is answered on.
LEMMA MainTakesStep ==
  ASSUME LifeInv, MainTakes, Notes
  PROVE  LifeInv'
<1>1. Watch' /\ Lone' /\ Flags'
  BY LifeSame DEF MainTakes, lifeVars
<1>2. /\ Resps \in Seq(Kinds) /\ Resps # <<>> /\ Resps' = Tail(Resps)
      /\ frames' = frames /\ wpc' = wpc /\ held' = held
  BY DEF LifeInv, LifeTypeOK, MainTakes
<1>3. /\ Resps' \in Seq(Kinds) /\ Len(Resps') = Len(Resps) - 1
      /\ Len(Resps) \in Nat /\ Len(Resps') \in Nat
  BY <1>2, HeadTailProperties, LenProperties
<1>4. waiting' \in {waiting, waiting + 1}
  BY DEF MainTakes
<1>5. /\ waiting' \in 0..MaxFrames /\ waiting' + Len(Resps') <= frames /\ Len(Resps') <= QUEUE_SIZE
      /\ wpc = "send" => waiting' + Len(Resps') < frames
  BY <1>3, <1>4, Counts
<1>6. Flow'
  BY <1>2, <1>5 DEF LifeInv, Flow
<1>7. LifeTypeOK'
  <2>1. UNCHANGED <<aconn, dialled, open, alock, mpc, vpc, hbpc, wpc, held, hpc, cpc, panicked>>
    BY DEF MainTakes
  <2>2. Resps' \in Seq(Kinds) /\ Len(Resps') <= QUEUE_SIZE /\ waiting' \in 0..MaxFrames
    BY <1>3, <1>5, Zenon
  <2>3. LifeTypeOK
    BY DEF LifeInv
  <2>. QED
    BY <2>1, <2>2, <2>3 DEF LifeTypeOK, Dials
<1>. QED
  BY <1>1, <1>6, <1>7, Zenon DEF LifeInv

\* A handleResponse gets the lock.
LEMMA HandleLocksStep ==
  ASSUME LifeInv, HandleLocks, Notes
  PROVE  LifeInv'
<1>1. Watch' /\ Lone' /\ Flags'
  BY LifeSame DEF HandleLocks, lifeVars
<1>2. /\ waiting > 0 /\ waiting' = waiting - 1 /\ alock' = "handle" /\ hpc' = "check"
      /\ UNCHANGED <<frames, Resps, wpc, held>>
  BY DEF HandleLocks
<1>3. /\ waiting' \in 0..MaxFrames /\ waiting' + Len(Resps) <= frames
      /\ wpc = "send" => waiting' + Len(Resps) < frames
  BY <1>2, Counts
<1>4. Flow'
  BY <1>2, <1>3 DEF LifeInv, Flow
<1>5. LifeTypeOK'
  BY <1>2, <1>3, Zenon DEF LifeInv, LifeTypeOK, HandleLocks
<1>. QED
  BY <1>1, <1>4, <1>5, Zenon DEF LifeInv

\* Agent.Work reads a frame.
LEMMA WorkReadsStep ==
  ASSUME LifeInv, WorkReads, Notes
  PROVE  LifeInv'
<1>1. Watch' /\ Lone' /\ Flags'
  BY LifeSame DEF WorkReads, shared, lifeVars
<1>2. /\ frames < MaxFrames /\ frames' = frames + 1 /\ held' \in Kinds /\ wpc' = "send"
      /\ UNCHANGED <<waiting, Resps>>
  BY DEF WorkReads, shared
<1>3. frames' \in 0..MaxFrames /\ waiting + Len(Resps) < frames' /\ waiting + Len(Resps) <= frames'
  BY <1>2, Counts
<1>4. Flow'
  BY <1>2, <1>3 DEF Flow
<1>5. LifeTypeOK'
  BY <1>2 DEF LifeInv, LifeTypeOK, WorkReads, shared
<1>. QED
  BY <1>1, <1>4, <1>5, Zenon DEF LifeInv

\* Agent.Work sends the response to the main loop, or on the closed channel.
LEMMA WorkSendsStep ==
  ASSUME LifeInv, WorkSends, Notes
  PROVE  LifeInv'
<1>1. Watch' /\ Lone' /\ Flags'
  BY LifeSame DEF WorkSends, lifeVars
<1>2. held \in Kinds /\ Resps \in Seq(Kinds) /\ wpc = "send"
  BY Zenon DEF LifeInv, LifeTypeOK, Flow, WorkSends
<1>3. /\ Resps' \in Seq(Kinds) /\ Len(Resps') \in Nat /\ Len(Resps') <= QUEUE_SIZE
      /\ Len(Resps') <= Len(Resps) + 1
  <2>1. CASE Resps' = Resps
    BY <1>2, <2>1, Counts
  <2>2. CASE Len(Resps) < QUEUE_SIZE /\ Resps' = Append(Resps, held)
    BY <1>2, <2>2, Counts, AppendProperties
  <2>. QED
    BY <2>1, <2>2, Zenon DEF WorkSends
<1>4. /\ wpc' = "top" /\ held' = "none" /\ frames' = frames /\ waiting' = waiting
      /\ panicked' \in {panicked, "sendOnClosed"}
  BY DEF WorkSends
<1>5. waiting + Len(Resps') <= frames
  BY <1>2, <1>3, Counts
<1>6. Flow'
  BY <1>4, <1>5 DEF LifeInv, Flow
<1>7. LifeTypeOK'
  BY <1>3, <1>4, ZenonT(60) DEF LifeInv, LifeTypeOK, WorkSends
<1>. QED
  BY <1>1, <1>6, <1>7, Zenon DEF LifeInv

\* The steps that move a goroutine, the lock or the age of lastTime, and no more.
Moves ==
  /\ alock' \in {"free", "beat", "handle"} /\ hpc' \in {"none", "check", "use"}
  /\ hbpc' \in {"loop", "timer", "check", "use", "ended"}
  /\ wpc' \in {"top", "read", "send", "ended"} /\ (wpc' = "send" <=> wpc = "send")
  /\ panicked' \in {"no", "nilConn", "sendOnClosed", "closeOfClosed"}
  /\ UNCHANGED <<lifeVars, Resps, waiting, mpc, held, frames>>
  /\ midway' = midway \/ Notes

\* Such a step keeps the invariant.
LEMMA MovesStep ==
  ASSUME LifeInv, Moves
  PROVE  LifeInv'
<1>. USE DEF LifeInv, Moves
<1>1. Watch' /\ Lone' /\ Flags'
  BY LifeSame
<1>2. LifeTypeOK'
  BY DEF LifeTypeOK, lifeVars
<1>3. Flow'
  BY <1>1 DEF Flow, lifeVars
<1>. QED
  BY <1>1, <1>2, <1>3

\* The steps of the handlers, the heartbeat and Work that only move are such steps.
LEMMA LifeOthers ==
  ASSUME LifeInv, \/ Notes /\ (HandleWrites \/ Beats \/ WorkTop \/ WorkFails \/ ServerSilent)
                  \/ UNCHANGED workerVars
  PROVE  Moves
<1>. USE DEF LifeInv, LifeTypeOK, Moves, lifeVars, shared
<1>1. CASE HandleWrites /\ Notes
  BY <1>1 DEF HandleWrites, UseConn
<1>2. CASE Beats /\ Notes
  BY <1>2 DEF Beats, UseConn
<1>3. CASE (WorkTop \/ WorkFails) /\ Notes
  BY <1>3 DEF WorkTop, WorkFails
<1>4. CASE ServerSilent /\ Notes
  BY <1>4 DEF ServerSilent
<1>5. CASE UNCHANGED workerVars
  BY <1>5 DEF workerVars
<1>. QED
  BY <1>1, <1>2, <1>3, <1>4, <1>5

-----------------------------------------------------------------------------
(* The steps of the connection *)

\* What the steps of this section leave alone.
flowVars == <<Resps, waiting, held, wpc, frames, alock, hpc>>

\* The connections, as numbers.
LEMMA ConnTypes ==
  ASSUME LifeInv
  PROVE  /\ MaxDials \in Nat /\ dialled \in Nat /\ dialled >= 1 /\ dialled <= MaxDials
         /\ aconn \in Nat /\ aconn <= dialled /\ open \subseteq 1..dialled /\ 0 \notin open
<1>1. aconn \in 0..dialled /\ open \subseteq 1..dialled /\ dialled \in 1..MaxDials
  BY Zenon DEF LifeInv, LifeTypeOK, Dials
<1>. QED
  BY <1>1, WorkerLifeAssumption

\* The frames are as they were.
LEMMA FlowSame ==
  ASSUME LifeInv, UNCHANGED flowVars
  PROVE  Flow'
  BY DEF LifeInv, Flow, flowVars

\* A closer that goes on from a place to another.
Goes(c, from, to) == c \in Closers /\ cpc[c] = from /\ cpc' = [cpc EXCEPT ![c] = to]

\* A step that neither opens nor closes a connection and moves the watcher and closers
\* in a way that begins nothing new: a closer before Agent.Close stays before it.
Passes ==
  /\ UNCHANGED <<running, aconn, dialled, open, flowVars>>
  /\ mpc' \in {"select", "ended"} /\ hbpc' \in {"loop", "timer", "check", "use", "ended"}
  /\ vpc' \in {"sleep", "pass", "del", "delUse", "shut", "shutUse", "dial", "add", "addUse", "ended"}
  /\ panicked' \in {"no", "nilConn", "sendOnClosed", "closeOfClosed"}
  /\ cpc' \in [Closers -> {"idle", "del", "delUse", "conn", "nil", "stop", "flag", "resps", "done", "noop"}]
  /\ \A c \in Closers : Past(c)' => Past(c)
  /\ \A c \in Closers : cpc'[c] \in {"resps", "done"} => cpc[c] = cpc'[c]
  /\ \/ vpc' = vpc
     \/ vpc = "sleep" /\ vpc' = (IF running THEN "pass" ELSE "ended")
     \/ vpc \notin {"sleep", "ended"}
  /\ vpc' = "dial" => vpc = "dial" \/ aconn = 0
  /\ Notes

\* A step of the watcher keeps the invariant: it rests, or midway records its pass.
LEMMA PassesStep ==
  ASSUME LifeInv, Passes
  PROVE  LifeInv'
<1>1. Flow'
  BY FlowSame DEF Passes
<1>2. LifeTypeOK'
  BY Zenon DEF LifeInv, LifeTypeOK, Passes, flowVars
<1>3. /\ midway' \in BOOLEAN /\ (midway => midway')
      /\ ~midway' /\ Closing' => vpc' \in {"sleep", "ended"}
  BY NotesSays DEF Passes
<1>4. Flags'
  BY <1>3 DEF LifeInv, Flags, Passes
<1>5. Watch'
  <2>1. \A c \in Closers : cpc'[c] \in {"resps", "done"} => ~running'
    BY DEF LifeInv, Watch, Passes
  <2>2. ASSUME ~midway', NEW c \in Closers, cpc'[c] = "done" PROVE vpc' \in {"sleep", "ended"}
    <3>1. cpc[c] = "done" /\ ~midway
      BY <1>3, <2>2 DEF Passes
    <3>2. vpc \in {"sleep", "ended"} /\ ~running
      BY <3>1 DEF LifeInv, Watch
    <3>. QED
      BY <3>2 DEF Passes
  <2>. QED
    BY <1>3, <2>1, <2>2 DEF Watch
<1>6. Lone'
  <2>1. SUFFICES ASSUME ~midway'
                 PROVE  /\ open' \subseteq {aconn'}
                        /\ vpc' = "dial" => open' = {}
                        /\ \A c \in Closers : Past(c)' => open' = {}
    BY DEF Lone
  <2>2. /\ open \subseteq {aconn}
        /\ vpc = "dial" => open = {}
        /\ \A c \in Closers : Past(c) => open = {}
    BY <1>3, <2>1 DEF LifeInv, Lone
  <2>3. aconn = 0 => open = {}
    BY <2>2, ConnTypes
  <2>. QED
    BY <2>2, <2>3 DEF Passes
<1>. QED
  BY <1>1, <1>2, <1>4, <1>5, <1>6 DEF LifeInv

\* The stop of one closer is received.
LEMMA RecvStopGoes ==
  ASSUME RecvStop
  PROVE  \E c \in Closers : Goes(c, "stop", "flag")
  BY DEF RecvStop, Goes

\* A closer that goes on without a connection being closed.
LEMMA GoesPasses ==
  ASSUME LifeInv, NEW c \in Closers, NEW from, NEW to, Goes(c, from, to),
         \/ from = "stop" /\ to = "flag"
         \/ from \in {"idle", "del", "delUse"} /\ to \in {"noop", "del", "delUse", "conn"}
  PROVE  /\ cpc' \in [Closers -> {"idle", "del", "delUse", "conn", "nil", "stop", "flag", "resps", "done", "noop"}]
         /\ \A d \in Closers : Past(d)' => Past(d)
         /\ \A d \in Closers : cpc'[d] \in {"resps", "done"} => cpc[d] = cpc'[d]
  BY DEF LifeInv, LifeTypeOK, Goes, Past

\* A step that leaves every WorkerClose where it is.
LEMMA StillPasses ==
  ASSUME LifeInv, UNCHANGED cpc
  PROVE  /\ cpc' \in [Closers -> {"idle", "del", "delUse", "conn", "nil", "stop", "flag", "resps", "done", "noop"}]
         /\ \A d \in Closers : Past(d)' => Past(d)
         /\ \A d \in Closers : cpc'[d] \in {"resps", "done"} => cpc[d] = cpc'[d]
  BY DEF LifeInv, LifeTypeOK, Past

\* The main loop and the heartbeat goroutine end, or go on.
LEMMA LoopsPass ==
  ASSUME LifeInv, MainEnds \/ BeatLoops, Notes
  PROVE  Passes
<1>1. /\ UNCHANGED <<running, aconn, dialled, open, flowVars, vpc, panicked>>
      /\ mpc' \in {"select", "ended"} /\ hbpc' \in {"loop", "timer", "check", "use", "ended"}
  BY DEF LifeInv, LifeTypeOK, MainEnds, BeatLoops, shared, flowVars
<1>2. UNCHANGED cpc \/ RecvStop
  BY DEF MainEnds, BeatLoops
<1>3. /\ cpc' \in [Closers -> {"idle", "del", "delUse", "conn", "nil", "stop", "flag", "resps", "done", "noop"}]
      /\ \A d \in Closers : Past(d)' => Past(d)
      /\ \A d \in Closers : cpc'[d] \in {"resps", "done"} => cpc[d] = cpc'[d]
  BY <1>2, RecvStopGoes, GoesPasses, StillPasses
<1>. QED
  BY <1>1, <1>3 DEF LifeInv, LifeTypeOK, Passes

\* The watcher wakes, selects, takes leave of the old connection and announces itself.
LEMMA WatchPass ==
  ASSUME LifeInv, \/ WatchWakes \/ WatchSelects \/ Announces
                  \/ LeavesOld /\ vpc # "shutUse",
         Notes
  PROVE  Passes
<1>1. UNCHANGED <<running, aconn, dialled, open, flowVars, mpc, hbpc>>
  BY DEF WatchWakes, WatchSelects, LeavesOld, Announces, shared, flowVars
<1>2. UNCHANGED cpc \/ RecvStop
  BY DEF WatchWakes, WatchSelects, LeavesOld, Announces
<1>3. /\ cpc' \in [Closers -> {"idle", "del", "delUse", "conn", "nil", "stop", "flag", "resps", "done", "noop"}]
      /\ \A d \in Closers : Past(d)' => Past(d)
      /\ \A d \in Closers : cpc'[d] \in {"resps", "done"} => cpc[d] = cpc'[d]
  BY <1>2, RecvStopGoes, GoesPasses, StillPasses
<1>4. /\ vpc' \in {"sleep", "pass", "del", "delUse", "shut", "shutUse", "dial", "add", "addUse", "ended"}
      /\ panicked' \in {"no", "nilConn", "sendOnClosed", "closeOfClosed"}
  BY DEF LifeInv, LifeTypeOK, WatchWakes, WatchSelects, LeavesOld, Announces, UseConn
<1>5. \/ vpc' = vpc
      \/ vpc = "sleep" /\ vpc' = (IF running THEN "pass" ELSE "ended")
      \/ vpc \notin {"sleep", "ended"}
  BY DEF WatchWakes, WatchSelects, LeavesOld, Announces
<1>6. vpc' = "dial" => vpc = "dial" \/ aconn = 0
  BY DEF WatchWakes, WatchSelects, LeavesOld, Announces
<1>. QED
  BY <1>1, <1>3, <1>4, <1>5, <1>6 DEF LifeInv, LifeTypeOK, Passes

\* WorkerClose begins, or finds the worker closed, and tells the server.
LEMMA ClosePass ==
  ASSUME LifeInv, NEW c \in Closers, CloseStarts(c) \/ CloseDels(c), Notes
  PROVE  Passes
<1>1. UNCHANGED <<running, aconn, dialled, open, flowVars, mpc, hbpc, vpc>>
  BY DEF CloseStarts, CloseDels, shared, flowVars
<1>2. panicked' \in {"no", "nilConn", "sendOnClosed", "closeOfClosed"}
  BY DEF LifeInv, LifeTypeOK, CloseStarts, CloseDels, UseConn
<1>3. \/ Goes(c, "idle", "del") \/ Goes(c, "idle", "noop") \/ Goes(c, "del", "conn")
      \/ Goes(c, "del", "delUse") \/ Goes(c, "delUse", "conn")
  BY DEF CloseStarts, CloseDels, Goes
<1>4. /\ cpc' \in [Closers -> {"idle", "del", "delUse", "conn", "nil", "stop", "flag", "resps", "done", "noop"}]
      /\ \A d \in Closers : Past(d)' => Past(d)
      /\ \A d \in Closers : cpc'[d] \in {"resps", "done"} => cpc[d] = cpc'[d]
  BY <1>3, GoesPasses
<1>. QED
  BY <1>1, <1>2, <1>4 DEF LifeInv, LifeTypeOK, Passes

\* The watcher closes the old connection: none is left open.
LEMMA ShutUseStep ==
  ASSUME LifeInv, LeavesOld, vpc = "shutUse", Notes
  PROVE  LifeInv'
<1>1. /\ UNCHANGED <<running, aconn, dialled, flowVars, mpc, hbpc, cpc>>
      /\ open' = open \ {aconn} /\ vpc' = "dial"
      /\ panicked' \in {"no", "nilConn", "sendOnClosed", "closeOfClosed"}
  BY DEF LifeInv, LifeTypeOK, LeavesOld, UseConn, flowVars
<1>2. Flow'
  BY <1>1, FlowSame
<1>3. LifeTypeOK'
  BY <1>1, Zenon DEF LifeInv, LifeTypeOK, flowVars
<1>4. /\ midway' \in BOOLEAN /\ (midway => midway')
      /\ ~midway' /\ Closing' => vpc' \in {"sleep", "ended"}
  BY NotesSays
<1>5. Flags'
  BY <1>1, <1>4 DEF LifeInv, Flags
<1>6. Watch'
  BY <1>1, <1>4 DEF LifeInv, Watch
<1>7. Lone'
  BY <1>1, <1>4 DEF LifeInv, Lone, Past
<1>. QED
  BY <1>2, <1>3, <1>5, <1>6, <1>7 DEF LifeInv

\* ReConnect: the watcher dials when no WorkerClose runs or has returned, or in a pass
\* that one met.
LEMMA ReConnectStep ==
  ASSUME LifeInv, ReConnect, Notes
  PROVE  LifeInv'
<1>1. /\ UNCHANGED <<running, flowVars, mpc, hbpc, cpc, panicked>> /\ vpc = "dial" /\ vpc' = "add"
      /\ \/ /\ dialled < MaxDials /\ dialled' = dialled + 1 /\ aconn' = dialled + 1
            /\ open' = open \cup {dialled + 1}
         \/ UNCHANGED <<dialled, aconn, open>>
  BY DEF ReConnect, flowVars
<1>2. Flow'
  BY <1>1, FlowSame
<1>3. aconn' \in 0..dialled' /\ open' \subseteq 1..dialled' /\ dialled' \in Dials
  BY <1>1, ConnTypes DEF Dials
<1>4. LifeTypeOK'
  BY <1>1, <1>3, ZenonT(60) DEF LifeInv, LifeTypeOK, flowVars
<1>5. /\ midway' \in BOOLEAN /\ (midway => midway')
      /\ ~midway' /\ Closing' => vpc' \in {"sleep", "ended"}
  BY NotesSays
<1>6. Flags'
  BY <1>1, <1>5 DEF LifeInv, Flags
<1>7. Watch'
  BY <1>1, <1>5 DEF LifeInv, Watch
<1>8. Lone'
  <2>1. SUFFICES ASSUME ~midway'
                 PROVE  /\ open' \subseteq {aconn'}
                        /\ vpc' = "dial" => open' = {}
                        /\ \A c \in Closers : Past(c)' => open' = {}
    BY DEF Lone
  <2>2. open = {}
    BY <1>1, <1>5, <2>1 DEF LifeInv, Lone
  <2>3. \A c \in Closers : ~Past(c)
    <3>1. ~Closing /\ \A c \in Closers : cpc[c] # "done"
      BY <1>1, <1>5, <2>1 DEF LifeInv, Watch
    <3>. QED
      BY <3>1 DEF Closing, Past
  <2>. QED
    BY <1>1, <2>2, <2>3 DEF Past
<1>. QED
  BY <1>2, <1>4, <1>6, <1>7, <1>8 DEF LifeInv

\* Agent.Close: the one open connection is closed, or there is none.
LEMMA CloseAgentStep ==
  ASSUME LifeInv, NEW c \in Closers, CloseAgent(c), Notes
  PROVE  LifeInv'
<1>1. /\ UNCHANGED <<running, dialled, flowVars, mpc, hbpc, vpc, panicked>>
      /\ \/ aconn # 0 /\ open' = open \ {aconn} /\ aconn' = aconn /\ Goes(c, "conn", "nil")
         \/ aconn = 0 /\ UNCHANGED <<open, aconn>> /\ Goes(c, "conn", "stop")
         \/ aconn' = 0 /\ open' = open /\ Goes(c, "nil", "stop")
  BY DEF CloseAgent, Goes, flowVars
<1>2. Flow'
  BY <1>1, FlowSame
<1>3. aconn' \in 0..dialled' /\ open' \subseteq 1..dialled'
  BY <1>1, ConnTypes
<1>4. /\ cpc' \in [Closers -> {"idle", "del", "delUse", "conn", "nil", "stop", "flag", "resps", "done", "noop"}]
      /\ cpc[c] \in {"conn", "nil"} /\ cpc'[c] \in {"nil", "stop"}
      /\ \A d \in Closers : d # c => cpc'[d] = cpc[d]
  BY <1>1 DEF LifeInv, LifeTypeOK, Goes
<1>5. LifeTypeOK'
  BY <1>1, <1>3, <1>4 DEF LifeInv, LifeTypeOK, flowVars
<1>6. /\ midway' \in BOOLEAN /\ (midway => midway')
      /\ ~midway' /\ Closing' => vpc' \in {"sleep", "ended"}
  BY NotesSays
<1>7. Flags'
  BY <1>1, <1>6 DEF LifeInv, Flags
<1>8. Watch'
  <2>1. \A d \in Closers : cpc'[d] \in {"resps", "done"} => cpc[d] = cpc'[d]
    BY <1>4
  <2>. QED
    BY <1>1, <1>6, <2>1 DEF LifeInv, Watch
<1>9. Lone'
  <2>1. SUFFICES ASSUME ~midway' PROVE open' = {}
    BY DEF Lone
  <2>2. ~midway /\ open \subseteq {aconn} /\ \A d \in Closers : Past(d) => open = {}
    BY <1>6, <2>1 DEF LifeInv, Lone
  <2>3. CASE cpc[c] = "nil"
    BY <1>1, <2>2, <2>3 DEF Past, Goes
  <2>4. CASE cpc[c] = "conn"
    BY <1>1, <2>2, <2>4, ConnTypes DEF Goes
  <2>. QED
    BY <1>4, <2>3, <2>4
<1>. QED
  BY <1>2, <1>5, <1>7, <1>8, <1>9 DEF LifeInv

\* running = false, then close(w.Resps): WorkerClose returns with the watcher at rest.
LEMMA CloseEndsStep ==
  ASSUME LifeInv, NEW c \in Closers, CloseEnds(c), Notes
  PROVE  LifeInv'
<1>1. /\ UNCHANGED <<aconn, dialled, open, flowVars, mpc, hbpc, vpc>>
      /\ panicked' \in {panicked, "closeOfClosed"}
      /\ \/ running' = FALSE /\ Goes(c, "flag", "resps")
         \/ running' = running /\ Goes(c, "resps", "done")
  BY DEF CloseEnds, Goes, flowVars
<1>2. Flow'
  BY <1>1, FlowSame
<1>3. /\ cpc' \in [Closers -> {"idle", "del", "delUse", "conn", "nil", "stop", "flag", "resps", "done", "noop"}]
      /\ cpc[c] \in {"flag", "resps"} /\ cpc'[c] \in {"resps", "done"}
      /\ \A d \in Closers : d # c => cpc'[d] = cpc[d]
  BY <1>1 DEF LifeInv, LifeTypeOK, Goes
<1>4. LifeTypeOK'
  BY <1>1, <1>3 DEF LifeInv, LifeTypeOK, flowVars
<1>5. /\ midway' \in BOOLEAN /\ (midway => midway')
      /\ ~midway' /\ Closing' => vpc' \in {"sleep", "ended"}
  BY NotesSays
<1>6. Flags'
  BY <1>1, <1>5 DEF LifeInv, Flags
<1>7. Watch'
  <2>1. running' = FALSE
    BY <1>1, <1>3 DEF LifeInv, Watch, Flags, Goes
  <2>2. ~midway' => vpc' \in {"sleep", "ended"}
    <3>1. Closing
      BY <1>3 DEF Closing
    <3>. QED
      BY <1>1, <1>5, <3>1 DEF LifeInv, Watch
  <2>. QED
    BY <2>1, <2>2 DEF Watch
<1>8. Lone'
  <2>1. \A d \in Closers : Past(d)' => Past(d)
    BY <1>3 DEF Past
  <2>. QED
    BY <1>1, <1>5, <2>1 DEF LifeInv, Lone
<1>. QED
  BY <1>2, <1>4, <1>6, <1>7, <1>8 DEF LifeInv

-----------------------------------------------------------------------------
(* The theorems *)

\* The invariant is inductive.
LEMMA NextLife ==
  ASSUME LifeInv, [LifeNext]_workerVars
  PROVE  LifeInv'
<1>1. CASE Notes /\ (MainTakes \/ HandleLocks \/ WorkReads \/ WorkSends)
  BY <1>1, MainTakesStep, HandleLocksStep, WorkReadsStep, WorkSendsStep
<1>2. CASE \/ Notes /\ (HandleWrites \/ Beats \/ WorkTop \/ WorkFails \/ ServerSilent)
           \/ UNCHANGED workerVars
  BY <1>2, LifeOthers, MovesStep
<1>3. CASE Notes /\ (MainEnds \/ BeatLoops \/ WatchWakes \/ WatchSelects \/ Announces)
  BY <1>3, LoopsPass, WatchPass, PassesStep
<1>4. CASE Notes /\ (LeavesOld \/ ReConnect)
  BY <1>4, WatchPass, PassesStep, ShutUseStep, ReConnectStep
<1>5. CASE Notes /\ \E c \in Closers : CloseStarts(c) \/ CloseStep(c)
  BY <1>5, ClosePass, PassesStep, CloseAgentStep, CloseEndsStep DEF CloseStep
<1>. QED
  BY <1>1, <1>2, <1>3, <1>4, <1>5 DEF LifeNext, MainStep, HandleStep, HeartbeatStep, WatcherStep, WorkStep

\* The inductive invariant holds in every behaviour of the worker.
THEOREM LifeInvariance == LifeSpec => []LifeInv
<1>1. LifeInit => LifeInv
  BY InitLife
<1>2. LifeInv /\ [LifeNext]_workerVars => LifeInv'
  BY NextLife
<1>. QED
  BY <1>1, <1>2, PTL DEF LifeSpec

\* WorkerClose: once a call of it has returned no connection is open and none is made,
\* however many calls there are, unless a pass of the watcher met one of them.
THEOREM ClosedStaysClosed == LifeSpec => []ClosedForGood
<1>1. LifeInv => ClosedForGood
  BY DEF LifeInv, Lone, Past, ClosedForGood
<1>. QED
  BY <1>1, LifeInvariance, PTL
=============================================================================
