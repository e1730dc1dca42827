----------------------------- MODULE WorkerLife -----------------------------
(***************************************************************************)
(* The life of a worker, src/pkg/worker/worker.go and agent.go: the main   *)
(* loop of WorkerDo, the goroutine that watches the server's silence and   *)
(* reconnects, the one that sends heartbeats, Agent.Work, which reads, the *)
(* goroutines of handleResponse, and WorkerClose, which takes them all     *)
(* down while they run.  WorkerAgent is about what is in the frames; here  *)
(* one write stands for all that a goroutine writes in a row, and one      *)
(* Agent for all of them.                                                  *)
(***************************************************************************)
EXTENDS Naturals, Sequences, FiniteSets

CONSTANTS
  Closers,    \* goroutines of the application that call WorkerClose
  MaxDials,   \* bound: connections
  MaxFrames,  \* bound: frames from the server
  QUEUE_SIZE  \* capacity of Resps

ASSUME WorkerLifeAssumption == MaxDials \in Nat \ {0} /\ MaxFrames \in Nat /\ QUEUE_SIZE \in Nat

Dials == 1..MaxDials
\* NO_JOB stands for every response that makes the Agent write.
Kinds == {"PONG", "NO_JOB"}

VARIABLES
  running,   \* Worker.running
  Resps,     \* the buffered responses
  closed,    \* Resps was closed
  aconn,     \* Agent.conn: a connection, 0 for nil
  dialled,   \* connections made so far
  open,      \* connections that the worker has not closed
  ctxDone,   \* Agent.cancel was called
  old,       \* lastTime is older than NMID_SERVER_TIMEOUT
  alock,     \* who holds the Agent's lock: "beat", "handle" or "free"
  mpc,       \* the main loop
  vpc,       \* the watcher
  hbpc,      \* the heartbeat goroutine
  wpc, rd, held, \* Agent.Work, the connection it reads, the response it holds
  hpc, waiting,  \* the handleResponse that has the lock; how many wait for it
  cpc,       \* each WorkerClose
  frames,    \* frames the server sent so far
  midway,    \* history: the watcher was in a pass of its loop during a WorkerClose
  panicked   \* "no", or what the process died of

shared == <<running, Resps, closed, aconn, dialled, open, ctxDone, old, alock>>
workerVars == <<shared, mpc, vpc, hbpc, wpc, rd, held, hpc, waiting, cpc, frames, midway, panicked>>

Alive == panicked = "no"
Closing == \E c \in Closers : cpc[c] \notin {"idle", "noop", "done"}

\* Two calls of WorkerClose have both found the worker running.
Overlap == Cardinality({c \in Closers : cpc[c] \notin {"idle", "noop"}}) > 1

LifeTypeOK ==
  /\ Resps \in Seq(Kinds) /\ Len(Resps) <= QUEUE_SIZE /\ waiting \in 0..MaxFrames
  /\ aconn \in 0..dialled /\ open \subseteq 1..dialled /\ dialled \in Dials
  /\ alock \in {"free", "beat", "handle"} /\ mpc \in {"select", "ended"}
  /\ vpc \in {"sleep", "pass", "del", "delUse", "shut", "shutUse", "dial", "add", "addUse", "ended"}
  /\ hbpc \in {"loop", "timer", "check", "use", "ended"} /\ hpc \in {"none", "check", "use"}
  /\ wpc \in {"top", "read", "send", "ended"} /\ held \in Kinds \cup {"none"}
  /\ cpc \in [Closers -> {"idle", "del", "delUse", "conn", "nil", "stop", "flag", "resps", "done", "noop"}]
  /\ panicked \in {"no", "nilConn", "sendOnClosed", "closeOfClosed"}

\* WorkerReady has connected the Agent, and WorkerDo has started its goroutines.
LifeInit ==
  /\ running = TRUE /\ Resps = <<>> /\ closed = FALSE
  /\ aconn = 1 /\ dialled = 1 /\ open = {1} /\ ctxDone = FALSE /\ old = FALSE /\ alock = "free"
  /\ mpc = "select" /\ vpc = "sleep" /\ hbpc = "loop" /\ wpc = "top" /\ rd = 0 /\ held = "none"
  /\ hpc = "none" /\ waiting = 0 /\ cpc = [c \in Closers |-> "idle"]
  /\ frames = 0 /\ midway = FALSE /\ panicked = "no"

\* A use of Agent.conn after a test that it is not nil, which another goroutine
\* may have made nil since.
UseConn == panicked' = IF aconn = 0 THEN "nilConn" ELSE panicked

\* The receiver's side of the unbuffered channel stop: one WorkerClose goes on.
RecvStop == \E c \in Closers : cpc[c] = "stop" /\ cpc' = [cpc EXCEPT ![c] = "flag"]
StopReady == \E c \in Closers : cpc[c] = "stop"

-----------------------------------------------------------------------------
(* WorkerDo: the main loop *)

MainTakes ==
  /\ Alive /\ mpc = "select" /\ Resps # <<>> /\ Resps' = Tail(Resps)
  /\ old' = IF Head(Resps) = "PONG" THEN FALSE ELSE old
  /\ waiting' = IF Head(Resps) = "NO_JOB" THEN waiting + 1 ELSE waiting
  /\ UNCHANGED <<running, closed, aconn, dialled, open, ctxDone, alock, mpc, vpc, hbpc, wpc, rd, held,
                 hpc, cpc, frames, panicked>>

\* Resps is closed, a stop arrives, or the check every 100 ms finds running false.
MainEnds ==
  /\ Alive /\ mpc = "select" /\ mpc' = "ended"
  /\ \/ closed /\ Resps = <<>> /\ UNCHANGED cpc
     \/ RecvStop
     \/ ~running /\ UNCHANGED cpc
  /\ UNCHANGED <<shared, vpc, hbpc, wpc, rd, held, hpc, waiting, frames, panicked>>

\* handleResponse, for an answer that leads to Grab or Wakeup: Lock, then Write tests
\* conn and uses it.
HandleLocks ==
  /\ Alive /\ waiting > 0 /\ hpc = "none" /\ alock = "free" /\ alock' = "handle"
  /\ hpc' = "check" /\ waiting' = waiting - 1
  /\ UNCHANGED <<running, Resps, closed, aconn, dialled, open, ctxDone, old, mpc, vpc, hbpc, wpc, rd,
                 held, cpc, frames, panicked>>

HandleWrites ==
  /\ Alive
  /\ \/ /\ hpc = "check" /\ aconn # 0 /\ hpc' = "use" /\ UNCHANGED <<alock, panicked>>
     \/ /\ hpc = "check" /\ aconn = 0 /\ hpc' = "none" /\ alock' = "free" /\ UNCHANGED panicked
     \/ /\ hpc = "use" /\ UseConn /\ hpc' = "none" /\ alock' = "free"
  /\ UNCHANGED <<running, Resps, closed, aconn, dialled, open, ctxDone, old, mpc, vpc, hbpc, wpc, rd,
                 held, waiting, cpc, frames>>

-----------------------------------------------------------------------------
(* WorkerDo: the heartbeat goroutine *)

\* for w.running, and the select with stop and default.
BeatLoops ==
  /\ Alive /\ hbpc = "loop"
  /\ \/ ~running /\ hbpc' = "ended" /\ UNCHANGED cpc
     \/ running /\ RecvStop /\ hbpc' = "ended"
     \/ running /\ ~StopReady /\ hbpc' = "timer" /\ UNCHANGED cpc
  /\ UNCHANGED <<shared, mpc, vpc, wpc, rd, held, hpc, waiting, frames, panicked>>

\* HeartBeatPing and Grab, after the timer.
Beats ==
  /\ Alive
  /\ \/ /\ hbpc = "timer" /\ alock = "free" /\ alock' = "beat" /\ hbpc' = "check" /\ UNCHANGED panicked
     \/ /\ hbpc = "check" /\ aconn # 0 /\ hbpc' = "use" /\ UNCHANGED <<alock, panicked>>
     \/ /\ hbpc = "check" /\ aconn = 0 /\ hbpc' = "loop" /\ alock' = "free" /\ UNCHANGED panicked
     \/ /\ hbpc = "use" /\ UseConn /\ hbpc' = "loop" /\ alock' = "free"
  /\ UNCHANGED <<running, Resps, closed, aconn, dialled, open, ctxDone, old, mpc, vpc, wpc, rd, held,
                 hpc, waiting, cpc, frames>>

-----------------------------------------------------------------------------
(* WorkerDo: the watcher, and WorkerReConnect *)

\* Mutant of WatchWakes: the loop does not test running.
WatchWakesAlways ==
  /\ Alive /\ vpc = "sleep" /\ vpc' = "pass"
  /\ UNCHANGED <<shared, mpc, hbpc, wpc, rd, held, hpc, waiting, cpc, frames, panicked>>

\* for w.running, after 5 seconds.
WatchWakes ==
  /\ Alive /\ vpc = "sleep" /\ vpc' = IF running THEN "pass" ELSE "ended"
  /\ UNCHANGED <<shared, mpc, hbpc, wpc, rd, held, hpc, waiting, cpc, frames, panicked>>

\* The select: a stop that is waiting is taken; otherwise the age of lastTime counts.
WatchSelects ==
  /\ Alive /\ vpc = "pass"
  /\ \/ RecvStop /\ vpc' = "ended"
     \/ ~StopReady /\ vpc' = (IF old THEN "del" ELSE "sleep") /\ UNCHANGED cpc
  /\ UNCHANGED <<shared, mpc, hbpc, wpc, rd, held, hpc, waiting, frames, panicked>>

\* DelOldFuncMsg, and the Close of the connection: each tests conn and uses it.
LeavesOld ==
  /\ Alive
  /\ \/ vpc = "del" /\ vpc' = (IF aconn = 0 THEN "shut" ELSE "delUse") /\ UNCHANGED <<open, panicked>>
     \/ vpc = "delUse" /\ UseConn /\ vpc' = "shut" /\ UNCHANGED open
     \/ vpc = "shut" /\ vpc' = (IF aconn = 0 THEN "dial" ELSE "shutUse") /\ UNCHANGED <<open, panicked>>
     \/ vpc = "shutUse" /\ UseConn /\ open' = open \ {aconn} /\ vpc' = "dial"
  /\ UNCHANGED <<running, Resps, closed, aconn, dialled, ctxDone, old, alock, mpc, hbpc, wpc, rd, held,
                 hpc, waiting, cpc, frames>>

\* ReConnect, whose error is dropped: a failed dial changes nothing.
ReConnect ==
  /\ Alive /\ vpc = "dial" /\ vpc' = "add"
  /\ \/ /\ dialled < MaxDials /\ dialled' = dialled + 1 /\ aconn' = dialled'
        /\ open' = open \cup {aconn'} /\ old' = FALSE
     \/ UNCHANGED <<dialled, aconn, open, old>>
  /\ UNCHANGED <<running, Resps, closed, ctxDone, alock, mpc, hbpc, wpc, rd, held, hpc, waiting, cpc,
                 frames, panicked>>

\* ReSetWorkerName and ReAddFuncMsg.
Announces ==
  /\ Alive
  /\ \/ vpc = "add" /\ vpc' = (IF aconn = 0 THEN "sleep" ELSE "addUse") /\ UNCHANGED panicked
     \/ vpc = "addUse" /\ UseConn /\ vpc' = "sleep"
  /\ UNCHANGED <<shared, mpc, hbpc, wpc, rd, held, hpc, waiting, cpc, frames>>

-----------------------------------------------------------------------------
(* Agent.Work *)

\* The select: the context is done, or ReadFrame begins on the reader there is.
WorkTop ==
  /\ Alive /\ wpc = "top"
  /\ \/ ctxDone /\ wpc' = "ended" /\ UNCHANGED rd
     \/ ~ctxDone /\ wpc' = "read" /\ rd' = aconn
  /\ UNCHANGED <<shared, mpc, vpc, hbpc, held, hpc, waiting, cpc, frames, panicked>>

\* A frame of the server.
WorkReads ==
  /\ Alive /\ wpc = "read" /\ rd \in open /\ frames < MaxFrames /\ frames' = frames + 1
  /\ held' \in Kinds /\ wpc' = "send" /\ rd' = 0
  /\ UNCHANGED <<shared, mpc, vpc, hbpc, hpc, waiting, cpc, panicked>>

\* ReadFrame fails: the loop goes on, whatever the error.
WorkFails ==
  /\ Alive /\ wpc = "read" /\ rd \notin open /\ wpc' = "top" /\ rd' = 0
  /\ UNCHANGED <<shared, mpc, vpc, hbpc, held, hpc, waiting, cpc, frames, panicked>>

\* a.Worker.Resps <- resp
WorkSends ==
  /\ Alive /\ wpc = "send" /\ held' = "none" /\ wpc' = "top"
  /\ \/ closed /\ panicked' = "sendOnClosed" /\ UNCHANGED Resps
     \/ ~closed /\ Len(Resps) < QUEUE_SIZE /\ Resps' = Append(Resps, held) /\ UNCHANGED panicked
  /\ UNCHANGED <<running, closed, aconn, dialled, open, ctxDone, old, alock, mpc, vpc, hbpc, rd, hpc,
                 waiting, cpc, frames>>

-----------------------------------------------------------------------------
(* WorkerClose *)

\* if w.running
CloseStarts(c) ==
  /\ Alive /\ cpc[c] = "idle"
  /\ cpc' = [cpc EXCEPT ![c] = IF running THEN "del" ELSE "noop"]
  /\ UNCHANGED <<shared, mpc, vpc, hbpc, wpc, rd, held, hpc, waiting, frames, panicked>>

\* MsgBroadcast of PDT_W_DEL_FUNC.
CloseDels(c) ==
  /\ Alive
  /\ \/ /\ cpc[c] = "del" /\ UNCHANGED panicked
        /\ cpc' = [cpc EXCEPT ![c] = IF aconn = 0 THEN "conn" ELSE "delUse"]
     \/ cpc[c] = "delUse" /\ UseConn /\ cpc' = [cpc EXCEPT ![c] = "conn"]
  /\ UNCHANGED <<shared, mpc, vpc, hbpc, wpc, rd, held, hpc, waiting, frames>>

\* Mutant of CloseAgent: the context is not cancelled.
CloseAgentOnly(c) ==
  /\ Alive
  /\ \/ /\ cpc[c] = "conn" /\ aconn # 0 /\ open' = open \ {aconn}
        /\ cpc' = [cpc EXCEPT ![c] = "nil"] /\ UNCHANGED <<aconn, ctxDone>>
     \/ /\ cpc[c] = "conn" /\ aconn = 0 /\ cpc' = [cpc EXCEPT ![c] = "stop"]
        /\ UNCHANGED <<open, aconn, ctxDone>>
     \/ /\ cpc[c] = "nil" /\ aconn' = 0
        /\ cpc' = [cpc EXCEPT ![c] = "stop"] /\ UNCHANGED <<open, ctxDone>>
  /\ UNCHANGED <<running, Resps, closed, dialled, old, alock, mpc, vpc, hbpc, wpc, rd, held, hpc,
                 waiting, frames, panicked>>

\* Agent.Close: the connection is closed, then conn made nil and the context
\* cancelled; nothing if conn is nil.
CloseAgent(c) ==
  /\ Alive
  /\ \/ /\ cpc[c] = "conn" /\ aconn # 0 /\ open' = open \ {aconn}
        /\ cpc' = [cpc EXCEPT ![c] = "nil"] /\ UNCHANGED <<aconn, ctxDone>>
     \/ /\ cpc[c] = "conn" /\ aconn = 0 /\ cpc' = [cpc EXCEPT ![c] = "stop"]
        /\ UNCHANGED <<open, aconn, ctxDone>>
     \/ /\ cpc[c] = "nil" /\ aconn' = 0 /\ ctxDone' = TRUE
        /\ cpc' = [cpc EXCEPT ![c] = "stop"] /\ UNCHANGED open
  /\ UNCHANGED <<running, Resps, closed, dialled, old, alock, mpc, vpc, hbpc, wpc, rd, held, hpc,
                 waiting, frames, panicked>>

\* After its stop was received: running = false, then close(w.Resps).
CloseEnds(c) ==
  /\ Alive
  /\ \/ /\ cpc[c] = "flag" /\ running' = FALSE /\ cpc' = [cpc EXCEPT ![c] = "resps"]
        /\ UNCHANGED <<closed, panicked>>
     \/ /\ cpc[c] = "resps" /\ closed' = TRUE /\ cpc' = [cpc EXCEPT ![c] = "done"]
        /\ panicked' = IF closed THEN "closeOfClosed" ELSE panicked
        /\ UNCHANGED running
  /\ UNCHANGED <<Resps, aconn, dialled, open, ctxDone, old, alock, mpc, vpc, hbpc, wpc, rd, held, hpc,
                 waiting, frames>>

-----------------------------------------------------------------------------
\* The server has been silent for NMID_SERVER_TIMEOUT.
ServerSilent ==
  /\ Alive /\ ~old /\ old' = TRUE
  /\ UNCHANGED <<running, Resps, closed, aconn, dialled, open, ctxDone, alock, mpc, vpc, hbpc, wpc, rd,
                 held, hpc, waiting, cpc, frames, panicked>>

MainStep == MainTakes \/ MainEnds
HandleStep == HandleLocks \/ HandleWrites
HeartbeatStep == BeatLoops \/ Beats
WatcherStep == WatchWakes \/ WatchSelects \/ LeavesOld \/ ReConnect \/ Announces
WorkStep == WorkTop \/ WorkFails \/ WorkSends
CloseStep(c) == CloseDels(c) \/ CloseAgent(c) \/ CloseEnds(c)

\* The history of a step.
Notes == midway' = (midway \/ (Closing' /\ vpc' \notin {"sleep", "ended"}))

LifeNext ==
  /\ \/ MainStep \/ HandleStep \/ HeartbeatStep \/ WatcherStep \/ WorkStep \/ WorkReads \/ ServerSilent
     \/ \E c \in Closers : CloseStarts(c) \/ CloseStep(c)
  /\ Notes

LifeSpec == LifeInit /\ [][LifeNext]_workerVars

\* Goroutines run and timers fire.  The main loop's select takes an end that stays
\* ready, and a lock that is free again and again is given to whoever waits for it.
FairLifeSpec ==
  /\ LifeSpec
  /\ WF_workerVars(MainEnds /\ Notes) /\ WF_workerVars(MainTakes /\ Notes)
  /\ SF_workerVars(HandleStep /\ Notes) /\ SF_workerVars(HeartbeatStep /\ Notes)
  /\ WF_workerVars(WatcherStep /\ Notes) /\ WF_workerVars(WorkStep /\ Notes)
  /\ \A c \in Closers : WF_workerVars(CloseStep(c) /\ Notes)

-----------------------------------------------------------------------------
(* Properties *)

\* The types, and: once WorkerClose has returned no connection is left open, and so
\* none is made: only a pass of the watcher that met WorkerClose can leave one, on
\* which the functions are announced and nobody reads.
ClosedForGood ==
  /\ LifeTypeOK
  /\ (\E c \in Closers : cpc[c] = "done") /\ ~midway => open = {}

\* WorkerClose returns and every goroutine of the worker ends, whichever of them
\* has taken the one stop there is, unless the watcher was in a pass of its loop,
\* WorkerClose was called twice at once, or the process died.
WindsDown ==
  Closing ~> \/ /\ mpc = "ended" /\ vpc = "ended" /\ hbpc = "ended" /\ wpc = "ended"
                /\ waiting = 0 /\ hpc = "none" /\ ~Closing
             \/ midway \/ Overlap \/ ~Alive
=============================================================================
