------------------------------ MODULE Connect -------------------------------
(***************************************************************************)
(* One connection of the server, src/pkg/server/connect.go: the frames     *)
(* that any goroutine may Write, the bounded queue and the byte budget in  *)
(* front of the socket, the writeLoop goroutine that empties it, and the   *)
(* DoIO goroutine that ends the connection.  The three touch closed,       *)
(* pendingBytes, writeCh, Conn and RunWorker/RunClient without a lock.     *)
(***************************************************************************)
EXTENDS Naturals, Sequences, FiniteSets, SequencesExt

CONSTANTS
  Frames,    \* packets handed to Write, each by a call of its own
  FLen,      \* the length of a frame
  MaxBytes,  \* maxPendingBytes                       (4 MiB)
  QueueCap,  \* capacity of writeCh                   (256)
  NoFrame

ASSUME ConnectAssumption ==
  /\ FLen \in [Frames -> Nat \ {0}] /\ MaxBytes \in Nat /\ QueueCap \in Nat
  /\ NoFrame \notin Frames

VARIABLES
  closed,    \* Connect.closed, and closeCh with it
  pending,   \* pendingBytes
  writeCh,   \* frames accepted and not yet taken by writeLoop
  wpc,       \* where the Write of a frame stands
  lpc,       \* where writeLoop stands
  cur,       \* the frame writeLoop holds
  wire,      \* frames written to the socket
  accepted,  \* history: the frames Write accepted, in order
  sock,      \* the socket: "up", "broken" by the peer, "shut" by conn.Close
  hasConn,   \* Connect.Conn # nil
  hasRun,    \* RunWorker or RunClient # nil
  dpc        \* where DoIO stands

vars == <<closed, pending, writeCh, wpc, lpc, cur, wire, accepted, sock, hasConn, hasRun, dpc>>

TypeOK ==
  /\ closed \in BOOLEAN /\ pending \in Nat /\ writeCh \in Seq(Frames)
  /\ wpc \in [Frames -> {"idle", "checked", "added", "over", "full", "ok", "refused"}]
  /\ lpc \in {"select", "got", "writing", "drain", "ended"} /\ cur \in Frames \cup {NoFrame}
  /\ wire \in Seq(Frames) /\ accepted \in Seq(Frames)
  /\ sock \in {"up", "broken", "shut"} /\ hasConn \in BOOLEAN /\ hasRun \in BOOLEAN
  /\ dpc \in {"read", "signal", "shut", "nil", "forget", "ended"}

Init ==
  /\ closed = FALSE /\ pending = 0 /\ writeCh = <<>>
  /\ wpc = [f \in Frames |-> "idle"] /\ lpc = "select" /\ cur = NoFrame
  /\ wire = <<>> /\ accepted = <<>>
  /\ sock = "up" /\ hasConn = TRUE /\ hasRun = FALSE /\ dpc = "read"

ioVars == <<closed, sock, hasConn, hasRun, dpc>>
loopVars == <<lpc, cur, wire>>

-----------------------------------------------------------------------------
(* Write *)

\* closed and Conn are looked at once, before anything else.
WriteCheck(f) ==
  /\ wpc[f] = "idle"
  /\ wpc' = [wpc EXCEPT ![f] = IF closed \/ ~hasConn THEN "refused" ELSE "checked"]
  /\ UNCHANGED <<pending, writeCh, accepted, loopVars, ioVars>>

\* AddInt64 and the comparison of its result with maxPendingBytes.
WriteAdd(f) ==
  /\ wpc[f] = "checked"
  /\ pending' = pending + FLen[f]
  /\ wpc' = [wpc EXCEPT ![f] = IF pending' > MaxBytes THEN "over" ELSE "added"]
  /\ UNCHANGED <<writeCh, accepted, loopVars, ioVars>>

\* The non-blocking send: accepted, or the queue is full.
WriteSend(f) ==
  /\ wpc[f] = "added"
  /\ \/ /\ Len(writeCh) < QueueCap
        /\ writeCh' = Append(writeCh, f) /\ accepted' = Append(accepted, f)
        /\ wpc' = [wpc EXCEPT ![f] = "ok"]
     \/ /\ Len(writeCh) >= QueueCap
        /\ wpc' = [wpc EXCEPT ![f] = "full"] /\ UNCHANGED <<writeCh, accepted>>
  /\ UNCHANGED <<pending, loopVars, ioVars>>

\* Mutant of WriteUndo: the budget is given back only when it was exceeded.
WriteUndoOverOnly(f) ==
  /\ wpc[f] \in {"over", "full"}
  /\ pending' = IF wpc[f] = "over" THEN pending - FLen[f] ELSE pending
  /\ wpc' = [wpc EXCEPT ![f] = "refused"]
  /\ UNCHANGED <<writeCh, accepted, loopVars, ioVars>>

\* Both refusals give the bytes back.
WriteUndo(f) ==
  /\ wpc[f] \in {"over", "full"}
  /\ pending' = pending - FLen[f]
  /\ wpc' = [wpc EXCEPT ![f] = "refused"]
  /\ UNCHANGED <<writeCh, accepted, loopVars, ioVars>>

-----------------------------------------------------------------------------
(* writeLoop *)

\* The case closeCh of the select; it may lose against writeCh.
LoopSeesClose ==
  /\ lpc = "select" /\ closed /\ lpc' = "drain"
  /\ UNCHANGED <<pending, writeCh, wpc, cur, wire, accepted, ioVars>>

\* The case writeCh of the select.
LoopTake ==
  /\ lpc = "select" /\ writeCh # <<>>
  /\ cur' = Head(writeCh) /\ writeCh' = Tail(writeCh) /\ lpc' = "got"
  /\ UNCHANGED <<pending, wpc, wire, accepted, ioVars>>

\* conn := c.Conn, which DoIO may have set to nil.
LoopConn ==
  /\ lpc = "got"
  /\ \/ hasConn /\ lpc' = "writing" /\ UNCHANGED <<closed, pending, cur>>
     \/ /\ ~hasConn /\ closed' = TRUE
        /\ pending' = pending - FLen[cur] /\ cur' = NoFrame /\ lpc' = "ended"
  /\ UNCHANGED <<writeCh, wpc, wire, accepted, sock, hasConn, hasRun, dpc>>

\* Mutant of LoopWrite: a short write is taken for a whole one.
LoopWriteShort ==
  /\ lpc = "writing" /\ sock = "up"
  /\ pending' = pending - FLen[cur]
  /\ cur' = NoFrame /\ lpc' = "select"
  /\ UNCHANGED <<writeCh, wpc, wire, accepted, ioVars>>

\* conn.Write takes the whole frame.
LoopWrite ==
  /\ lpc = "writing" /\ sock = "up"
  /\ wire' = Append(wire, cur) /\ pending' = pending - FLen[cur]
  /\ cur' = NoFrame /\ lpc' = "select"
  /\ UNCHANGED <<writeCh, wpc, accepted, ioVars>>

\* Mutant of LoopFail: the connection is marked closed and the socket left open.
LoopFailKeepsSocket ==
  /\ lpc = "writing" /\ sock # "shut"
  /\ closed' = TRUE
  /\ pending' = pending - FLen[cur] /\ cur' = NoFrame /\ lpc' = "ended"
  /\ UNCHANGED <<writeCh, wpc, wire, accepted, sock, hasConn, hasRun, dpc>>

\* Mutant of LoopFail: a frame whose deadline passed is skipped.
LoopFailSkips ==
  /\ lpc = "writing"
  /\ pending' = pending - FLen[cur] /\ cur' = NoFrame /\ lpc' = "select"
  /\ UNCHANGED <<writeCh, wpc, wire, accepted, ioVars>>

\* conn.Write fails, or its deadline of 10 s passes: closeSignal, conn.Close.
LoopFail ==
  /\ lpc = "writing"
  /\ closed' = TRUE /\ sock' = "shut"
  /\ pending' = pending - FLen[cur] /\ cur' = NoFrame /\ lpc' = "ended"
  /\ UNCHANGED <<writeCh, wpc, wire, accepted, hasConn, hasRun, dpc>>

\* After closeCh the queue is emptied, its bytes given back ...
LoopDrain ==
  /\ lpc = "drain" /\ writeCh # <<>>
  /\ writeCh' = Tail(writeCh) /\ pending' = pending - FLen[Head(writeCh)]
  /\ UNCHANGED <<wpc, lpc, cur, wire, accepted, ioVars>>

\* ... and writeLoop returns when it finds it empty.
LoopReturn ==
  /\ lpc = "drain" /\ writeCh = <<>> /\ lpc' = "ended"
  /\ UNCHANGED <<pending, writeCh, wpc, cur, wire, accepted, ioVars>>

-----------------------------------------------------------------------------
(* DoIO and the socket *)

\* The peer goes away.
PeerBreaks ==
  /\ sock = "up" /\ sock' = "broken"
  /\ UNCHANGED <<closed, pending, writeCh, wpc, accepted, loopVars, hasConn, hasRun, dpc>>

\* A frame arrives: getSWClinet or getSCClient makes the SWorker or SClient.
ReadOk ==
  /\ dpc = "read" /\ sock = "up" /\ ~hasRun
  /\ hasRun' = TRUE
  /\ UNCHANGED <<closed, pending, writeCh, wpc, accepted, loopVars, sock, hasConn, dpc>>

\* ReadFrame fails (the peer is gone, the socket shut here, or a bad header):
\* every branch, with the deferred CloseAll, comes to one closing sequence.
ReadFails ==
  /\ dpc = "read" /\ dpc' = "signal"
  /\ UNCHANGED <<closed, pending, writeCh, wpc, accepted, loopVars, sock, hasConn, hasRun>>

\* closeSignal.
CloseSignal ==
  /\ dpc = "signal" /\ closed' = TRUE /\ dpc' = "shut"
  /\ UNCHANGED <<pending, writeCh, wpc, accepted, loopVars, sock, hasConn, hasRun>>

\* c.Conn.Close().
CloseSocket ==
  /\ dpc = "shut" /\ sock' = "shut" /\ dpc' = "nil"
  /\ UNCHANGED <<closed, pending, writeCh, wpc, accepted, loopVars, hasConn, hasRun>>

\* c.Conn = nil.
CloseConn ==
  /\ dpc = "nil" /\ hasConn' = FALSE /\ dpc' = "forget"
  /\ UNCHANGED <<closed, pending, writeCh, wpc, accepted, loopVars, sock, hasRun>>

\* RunWorker and RunClient are forgotten.
CloseRun ==
  /\ dpc = "forget" /\ hasRun' = FALSE /\ dpc' = "ended"
  /\ UNCHANGED <<closed, pending, writeCh, wpc, accepted, loopVars, sock, hasConn>>

-----------------------------------------------------------------------------
WriteStep(f) == WriteCheck(f) \/ WriteAdd(f) \/ WriteSend(f) \/ WriteUndo(f)

LoopStep ==
  \/ LoopSeesClose \/ LoopTake \/ LoopConn \/ LoopWrite \/ LoopFail \/ LoopDrain \/ LoopReturn

CloseStep == CloseSignal \/ CloseSocket \/ CloseConn \/ CloseRun

Next ==
  \/ \E f \in Frames : WriteStep(f)
  \/ LoopStep \/ CloseStep \/ PeerBreaks \/ ReadOk \/ ReadFails

Spec == Init /\ [][Next]_vars

\* writeLoop and DoIO are goroutines the scheduler runs; conn.Write returns by
\* its deadline, and a read on a socket that is shut or broken returns.
FairSpec ==
  /\ Spec
  /\ WF_vars(LoopStep) /\ WF_vars(CloseStep)
  /\ WF_vars(ReadFails /\ sock # "up")

-----------------------------------------------------------------------------
(* Properties *)

\* The bytes of a set of frames, each by its frame and its place there.
BytesOf(S) == UNION {{f} \X (1..FLen[f]) : f \in S}
Bytes(S) == Cardinality(BytesOf(S))
Queued == ToSet(writeCh) \cup ({cur} \ {NoFrame})
Trying == {f \in Frames : wpc[f] \in {"added", "over", "full"}}

\* The types, and: pendingBytes counts every frame between its AddInt64 and its
\* disposal once: the writers in Write, the queue and the frame in writeLoop's hands;
\* and the frames Write accepted and writeLoop has not disposed of stay within
\* maxPendingBytes, however many goroutines write at once.
PendingExact ==
  TypeOK /\ pending = Bytes(Queued) + Bytes(Trying) /\ Bytes(Queued) <= MaxBytes

\* The peer receives accepted frames in the order they were accepted, without
\* a gap or a repetition, also while the connection is being closed.
WireInOrder == IsPrefix(wire, accepted)

\* An accepted frame is written, unless the connection closes.
AcceptedIsWritten ==
  \A f \in Frames : wpc[f] = "ok" ~> (f \in ToSet(wire) \/ closed)

\* A connection that is marked closed by any goroutine is taken down whole:
\* writeLoop returns, DoIO returns, the socket is shut and RunWorker forgotten.
ClosedGoesDown ==
  closed ~> (lpc = "ended" /\ dpc = "ended" /\ sock = "shut" /\ ~hasRun)
=============================================================================
