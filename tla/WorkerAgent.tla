---------------------------- MODULE WorkerAgent -----------------------------
(***************************************************************************)
(* A worker process and its Agent, src/pkg/worker/worker.go and agent.go.  *)
(* The Agent has one Request object that every frame is packed into before *)
(* it is written: results (DoFunction), heartbeats and grabs under the     *)
(* Agent's lock; the header of a result, the announcements of functions    *)
(* (MsgBroadcast) and the whole of WorkerReConnect without it.             *)
(***************************************************************************)
EXTENDS Naturals, FiniteSets, Bags

CONSTANTS
  Jobs,        \* jobs the server sends
  Funcs,       \* functions of the worker from the start
  Late,        \* functions added with AddFunction while the worker runs
  MaxRunning,  \* bound: jobs in DoFunction at a time
  MaxBeats,    \* bound: heartbeats (with their grab)
  MaxConns,    \* bound: connections
  NoJob

ASSUME WorkerAgentAssumption ==
  /\ Funcs \cap Late = {} /\ NoJob \notin Jobs
  /\ IsFiniteSet(Jobs) /\ "beat" \notin Jobs /\ "free" \notin Jobs
  /\ MaxRunning \in Nat /\ MaxBeats \in Nat /\ MaxConns \in Nat \ {0}

VARIABLES
  head,      \* Req.Handle, Params and JobId: the job they are of
  packed,    \* Req.DataType and Data: the frame that EncodePack would make
  lock,      \* who holds the Agent's lock: a job, "beat", or "free"
  jpc,       \* where DoFunction stands with a job
  bpc,       \* where the heartbeat goroutine stands
  beats,     \* heartbeats sent
  apc,       \* where MsgBroadcast stands with a function added late
  rpc,       \* where WorkerReConnect stands
  todo,      \* functions WorkerReConnect has still to announce
  conn,      \* the connection the Agent writes to
  up,        \* the connections that are up
  wire       \* the results and announcements sent on each connection, a bag: no
             \* property is of their order or of the other frames

vars == <<head, packed, lock, jpc, bpc, beats, apc, rpc, todo, conn, up, wire>>

Conns == 1..MaxConns
Result(j) == [type |-> "RETURN_DATA", of |-> head, ret |-> j]
Frame(type, f) == [type |-> type, of |-> f, ret |-> NoJob]
Plain(type) == Frame(type, NoJob)
Known == Funcs \cup {f \in Late : apc[f] # "none"}

\* WorkerReady has connected, sent the name and announced Funcs.
Init ==
  /\ head = NoJob /\ packed = Plain("SET_NAME") /\ lock = "free"
  /\ jpc = [j \in Jobs |-> "none"] /\ bpc = "sleep" /\ beats = 0
  /\ apc = [f \in Late |-> "none"] /\ rpc = "watch" /\ todo = {}
  /\ conn = 1 /\ up = {1}
  /\ wire = [n \in Conns |-> IF n = 1 THEN SetToBag({Frame("ADD_FUNC", f) : f \in Funcs})
                          ELSE EmptyBag]

\* Agent.Write: EncodePack of what is packed by now; errors are dropped.
Write ==
  wire' = IF conn \in up /\ packed.type \in {"RETURN_DATA", "ADD_FUNC"}
          THEN [wire EXCEPT ![conn] = @ (+) SetToBag({packed})] ELSE wire

Step(pc, g, from, to) == pc[g] = from /\ pc' = [pc EXCEPT ![g] = to]

-----------------------------------------------------------------------------
(* DoFunction *)

\* Work, handleResponse, DoFunction: the function runs in its own goroutine.
StartJob(j) ==
  /\ jpc[j] = "none" /\ jpc' = [jpc EXCEPT ![j] = "run"]
  /\ Cardinality({k \in Jobs : jpc[k] \notin {"none", "done"}}) < MaxRunning
  /\ UNCHANGED <<head, packed, lock, bpc, beats, apc, rpc, todo, conn, up, wire>>

\* The function returned an error: no result is sent.
JobFails(j) ==
  /\ Step(jpc, j, "run", "done")
  /\ UNCHANGED <<head, packed, lock, bpc, beats, apc, rpc, todo, conn, up, wire>>

\* Mutant of SetHead: Req keeps the header of an earlier job.
SetHeadStale(j) ==
  /\ Step(jpc, j, "run", "ready") /\ head' = IF head = NoJob THEN j ELSE head
  /\ UNCHANGED <<packed, lock, bpc, beats, apc, rpc, todo, conn, up, wire>>

\* The function returned: its header goes into the shared Req, without the lock.
SetHead(j) ==
  /\ Step(jpc, j, "run", "ready") /\ head' = j
  /\ UNCHANGED <<packed, lock, bpc, beats, apc, rpc, todo, conn, up, wire>>

\* Mutant of LockJob: the result is packed without the lock.
LockJobNot(j) ==
  /\ Step(jpc, j, "ready", "pack")
  /\ UNCHANGED <<head, packed, lock, bpc, beats, apc, rpc, todo, conn, up, wire>>

LockJob(j) ==
  /\ Step(jpc, j, "ready", "pack") /\ lock = "free" /\ lock' = j
  /\ UNCHANGED <<head, packed, bpc, beats, apc, rpc, todo, conn, up, wire>>

\* RetPack: the header in Req, whoever set it, with this job's ret.
RetPack(j) ==
  /\ Step(jpc, j, "pack", "write") /\ packed' = Result(j)
  /\ UNCHANGED <<head, lock, bpc, beats, apc, rpc, todo, conn, up, wire>>

WriteJob(j) ==
  /\ Step(jpc, j, "write", "done") /\ Write /\ lock' = "free"
  /\ UNCHANGED <<head, packed, bpc, beats, apc, rpc, todo, conn, up>>

-----------------------------------------------------------------------------
(* The heartbeat goroutine: HeartBeatPing, then Grab *)

LockBeat ==
  /\ bpc \in {"sleep", "grab"} /\ lock = "free" /\ lock' = "beat"
  /\ \/ bpc = "sleep" /\ beats < MaxBeats /\ beats' = beats + 1 /\ bpc' = "packPing"
     \/ bpc = "grab" /\ bpc' = "packGrab" /\ UNCHANGED beats
  /\ UNCHANGED <<head, packed, jpc, apc, rpc, todo, conn, up, wire>>

PackBeat ==
  /\ \/ bpc = "packPing" /\ bpc' = "writePing" /\ packed' = Plain("HEARTBEAT_PING")
     \/ bpc = "packGrab" /\ bpc' = "writeGrab" /\ packed' = Plain("GRAB_JOB")
  /\ UNCHANGED <<head, lock, jpc, beats, apc, rpc, todo, conn, up, wire>>

WriteBeat ==
  /\ \/ bpc = "writePing" /\ bpc' = "grab"
     \/ bpc = "writeGrab" /\ bpc' = "sleep"
  /\ Write /\ lock' = "free"
  /\ UNCHANGED <<head, packed, jpc, beats, apc, rpc, todo, conn, up>>

-----------------------------------------------------------------------------
(* AddFunction while running: MsgBroadcast in a goroutine, without the lock *)

AddFunction(f) ==
  /\ Step(apc, f, "none", "pack")
  /\ UNCHANGED <<head, packed, lock, jpc, bpc, beats, rpc, todo, conn, up, wire>>

PackAdd(f) ==
  /\ Step(apc, f, "pack", "write") /\ packed' = Frame("ADD_FUNC", f)
  /\ UNCHANGED <<head, lock, jpc, bpc, beats, rpc, todo, conn, up, wire>>

WriteAdd(f) ==
  /\ Step(apc, f, "write", "done") /\ Write
  /\ UNCHANGED <<head, packed, lock, jpc, bpc, beats, rpc, todo, conn, up>>

-----------------------------------------------------------------------------
(* The connection, and the goroutine that watches lastTime *)

ConnLost ==
  /\ conn \in up /\ conn < MaxConns /\ up' = up \ {conn}
  /\ UNCHANGED <<head, packed, lock, jpc, bpc, beats, apc, rpc, todo, conn, wire>>

\* lastTime is older than NMID_SERVER_TIMEOUT: the connection was lost ...
Timeout ==
  /\ rpc = "watch" /\ conn \notin up /\ rpc' = "del" /\ todo' = Known
  /\ UNCHANGED <<head, packed, lock, jpc, bpc, beats, apc, conn, up, wire>>

\* ... or it is up and the server was silent.
Silence ==
  /\ rpc = "watch" /\ conn \in up /\ conn < MaxConns /\ rpc' = "del" /\ todo' = Known
  /\ UNCHANGED <<head, packed, lock, jpc, bpc, beats, apc, conn, up, wire>>

\* WorkerReConnect, without the lock: DelOldFuncMsg for each function, ...
PackDel ==
  /\ rpc = "del" /\ rpc' = "delWrite"
  /\ \E f \in todo : packed' = Frame("DEL_FUNC", f) /\ todo' = todo \ {f}
  /\ UNCHANGED <<head, lock, jpc, bpc, beats, apc, conn, up, wire>>

WriteDel ==
  /\ rpc = "delWrite" /\ rpc' = "del" /\ Write
  /\ UNCHANGED <<head, packed, lock, jpc, bpc, beats, apc, todo, conn, up>>

\* ... then the old connection is closed, ...
CloseOld ==
  /\ rpc = "del" /\ todo = {} /\ rpc' = "dial" /\ up' = up \ {conn}
  /\ UNCHANGED <<head, packed, lock, jpc, bpc, beats, apc, todo, conn, wire>>

\* ... and dialled anew.  WorkerReConnect drops ReConnect's error: it goes on
\* with the closed connection, and the watcher comes back after 5 s.
Redial ==
  /\ rpc = "dial" /\ rpc' = "name" /\ conn' = conn + 1 /\ up' = up \cup {conn'}
  /\ UNCHANGED <<head, packed, lock, jpc, bpc, beats, apc, todo, wire>>

RedialFails ==
  /\ rpc = "dial" /\ rpc' = "name"
  /\ UNCHANGED <<head, packed, lock, jpc, bpc, beats, apc, todo, conn, up, wire>>

\* ReSetWorkerName, then ReAddFuncMsg for each function.
PackName ==
  /\ rpc = "name" /\ rpc' = "nameWrite" /\ packed' = Plain("SET_NAME")
  /\ UNCHANGED <<head, lock, jpc, bpc, beats, apc, todo, conn, up, wire>>

WriteName ==
  /\ rpc = "nameWrite" /\ rpc' = "add" /\ todo' = Known /\ Write
  /\ UNCHANGED <<head, packed, lock, jpc, bpc, beats, apc, conn, up>>

PackReAdd ==
  /\ rpc = "add" /\ rpc' = "addWrite"
  /\ \E f \in todo : packed' = Frame("ADD_FUNC", f) /\ todo' = todo \ {f}
  /\ UNCHANGED <<head, lock, jpc, bpc, beats, apc, conn, up, wire>>

\* Mutant of WriteReAdd: only one function is announced again.
WriteReAddOne ==
  /\ rpc = "addWrite" /\ rpc' = "watch" /\ Write
  /\ UNCHANGED <<head, packed, lock, jpc, bpc, beats, apc, todo, conn, up>>

WriteReAdd ==
  /\ rpc = "addWrite" /\ rpc' = "add" /\ Write
  /\ UNCHANGED <<head, packed, lock, jpc, bpc, beats, apc, todo, conn, up>>

ReAddDone ==
  /\ rpc = "add" /\ todo = {} /\ rpc' = "watch"
  /\ UNCHANGED <<head, packed, lock, jpc, bpc, beats, apc, todo, conn, up, wire>>

-----------------------------------------------------------------------------
JobStep(j) == JobFails(j) \/ SetHead(j) \/ LockJob(j) \/ RetPack(j) \/ WriteJob(j)
BeatStep == LockBeat \/ PackBeat \/ WriteBeat
AddStep(f) == PackAdd(f) \/ WriteAdd(f)
WatchStep ==
  \/ Timeout \/ PackDel \/ WriteDel \/ CloseOld \/ Redial \/ RedialFails
  \/ PackName \/ WriteName \/ PackReAdd \/ WriteReAdd \/ ReAddDone

Next ==
  \/ \E j \in Jobs : StartJob(j) \/ JobStep(j)
  \/ BeatStep \/ WatchStep \/ ConnLost \/ Silence
  \/ \E f \in Late : AddFunction(f) \/ AddStep(f)

Spec == Init /\ [][Next]_vars

-----------------------------------------------------------------------------
(* Properties *)

Sent == UNION {DOMAIN wire[n] : n \in Conns}
SentOn(n) == {m.of : m \in {k \in DOMAIN wire[n] : k.type = "ADD_FUNC"}}
ResultsOn(n, j) == {m \in DOMAIN wire[n] : m.type = "RETURN_DATA" /\ m.ret = j}
Results(j) == UNION {{p} \X (1..wire[p[1]][p[2]]) : p \in
                       {q \in Conns \X Sent : q[2] \in ResultsOn(q[1], j)}}

TypeOK ==
  /\ head \in Jobs \cup {NoJob} /\ lock \in Jobs \cup {"beat", "free"}
  /\ jpc \in [Jobs -> {"none", "run", "ready", "pack", "write", "done"}]
  /\ beats \in 0..MaxBeats /\ apc \in [Late -> {"none", "pack", "write", "done"}]
  /\ todo \subseteq Known /\ conn \in Conns /\ up \subseteq {conn}

\* Only DoFunction and the heartbeat goroutine, which take the Agent's lock, have
\* packed a frame so far.
OnlyLocked == rpc = "watch" /\ up = {1} /\ \A f \in Late : apc[f] = "none"

\* The types, and: while every frame is packed under the Agent's lock, the result
\* of a job is sent at most once, and not before the job is done.
ResultOnce ==
  /\ TypeOK
  /\ OnlyLocked =>
       \A j \in Jobs : Cardinality(Results(j)) <= 1 /\ (Results(j) # {} => jpc[j] = "done")

\* A result goes out under the header of its own job.
OwnHeader == \A m \in Sent : m.type = "RETURN_DATA" => m.of = m.ret

\* Once WorkerReConnect is through, all functions were announced on the new
\* connection, and a function added to a running worker was announced on the
\* connection there was.
Announced ==
  /\ rpc = "watch" /\ conn \in up => Funcs \subseteq SentOn(conn)
  /\ \A f \in Late : apc[f] = "done" /\ up = {1} => f \in SentOn(1)
=============================================================================
