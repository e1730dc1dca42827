----------------------------- MODULE RpcClient ------------------------------
(***************************************************************************)
(* The client library, src/pkg/client/client.go: one goroutine calls Do,   *)
(* call after call; the goroutine ClientRead reads frames and hands them   *)
(* over the unbuffered channel ResQueue to ProcessResp, which waits for    *)
(* one response or the timer.  Responses carry no call number: only the    *)
(* function name connects one with its callback.  Requests and responses   *)
(* are the frames of Codec; server and worker are present as what they do  *)
(* to the frames, their scheduling is external.                            *)
(***************************************************************************)
EXTENDS Codec, FiniteSets

CONSTANTS
  Funcs,       \* function names, sequences of bytes
  Fn,          \* the function each call names: a sequence, one call per entry
  Args,        \* the parameters of each call, never empty: a sequence of sequences of bytes
  PType, HType,\* Request.ParamsType and ParamsHandleType
  JobId,       \* the uuid of a job, a sequence of bytes
  Work(_),     \* what the worker's function returns for the job it was given
  MaxConns,    \* bound: connections dialled
  Breaks,      \* how a connection may end: "eof", "reset"
  CanClose     \* does the application Close the client between calls?

Calls == DOMAIN Fn
Conns == 1..MaxConns

\* The Request that ContentPack fills for a call.
Request(k) == [ParamsType |-> PType, ParamsHandleType |-> HType, Handle |-> Fn[k], Params |-> Args[k]]

ASSUME RpcClientAssumption ==
  /\ Fn \in Seq(Funcs) /\ \A f \in Funcs : f \in Seq(Nat) /\ f # <<>>
  /\ DOMAIN Args = DOMAIN Fn /\ \A k \in DOMAIN Args : Args[k] \in Seq(Nat) /\ Args[k] # <<>>
  /\ PType \in Nat /\ HType \in Nat /\ JobId \in Seq(Nat)
  /\ \A k \in DOMAIN Fn : Work(JobOf(Request(k), JobId)) \in Seq(Nat)
  /\ MaxConns \in Nat \ {0} /\ Breaks \subseteq {"eof", "reset"}
  /\ CanClose \in BOOLEAN

VARIABLES
  cpc, call,   \* where Do stands, and in which call
  waitQ,       \* the ResQueue that ProcessResp selects on
  conn,        \* Client.conn: a connection, 0 for nil
  dialled,     \* connections made so far
  link,        \* each connection: "up", or how it ended
  queue,       \* Client.ResQueue, numbered by the connection it was made for
  qClosed,     \* the ResQueues that were closed
  handlers,    \* RespHandlers: the call whose callback is under a name, 0 for none
  noMap,       \* RespHandlers = nil
  rpc, held,   \* where ClientRead stands, and the response it holds
  atServer,    \* requests the server has: calls and their connections
  stream,      \* the cells on their way to the client on each connection
  order,       \* history: the calls whose responses they are
  outcome,     \* how each Do ended
  calledBack,  \* for each callback, the responses it was given
  panicked     \* "no", or what the process died of

callVars == <<cpc, call, waitQ>>
netVars == <<link, atServer, stream, order>>
ownVars == <<conn, dialled, queue, qClosed, noMap>>
vars == <<callVars, ownVars, netVars, handlers, rpc, held, outcome, calledBack, panicked>>

\* The Response the callback of a call should be given.
Expected(k) ==
  [DataType |-> PDT_S_RETURN_DATA, Handle |-> Fn[k], Params |-> Args[k],
   Ret |-> Work(JobOf(Request(k), JobId))]

Errors == {PDT_ERROR, PDT_CANT_DO, PDT_RATELIMIT}

\* A decoded response and the call it answers, which the program does not know.
NoFrame == [call |-> 0, resp |-> <<>>]

TypeOK ==
  /\ cpc \in {"idle", "put", "write", "wait"} /\ call \in 0..Len(Fn) /\ waitQ \in 0..MaxConns
  /\ conn \in 0..MaxConns /\ dialled \in Conns /\ link \in [Conns -> {"up", "eof", "reset", "shut"}]
  /\ queue \in Conns /\ qClosed \subseteq Conns
  /\ handlers \in [Funcs -> {0} \cup Calls] /\ noMap \in BOOLEAN
  /\ rpc \in {"loop", "frame", "read", "send", "dial", "make", "ended"} /\ held.call \in {0} \cup Calls
  /\ atServer \subseteq Calls \X Conns /\ stream \in [Conns -> Seq(Nat)] /\ order \in [Conns -> Seq(Calls)]
  /\ outcome \in [Calls -> {"none", "data", "other", "err", "timeout", "refused", "nothing"}]
  /\ DOMAIN calledBack = Calls
  /\ panicked \in {"no", "nil handlers", "send on closed queue", "nil client"}

\* After NewClient and Start.
Init ==
  /\ cpc = "idle" /\ call = 0 /\ waitQ = 0
  /\ conn = 1 /\ dialled = 1 /\ link = [n \in Conns |-> "up"] /\ queue = 1 /\ qClosed = {}
  /\ handlers = [f \in Funcs |-> 0] /\ noMap = FALSE
  /\ rpc = "loop" /\ held = NoFrame
  /\ atServer = {} /\ stream = [n \in Conns |-> <<>>] /\ order = [n \in Conns |-> <<>>]
  /\ outcome = [k \in Calls |-> "none"] /\ calledBack = [k \in Calls |-> <<>>]
  /\ panicked = "no"

Alive == panicked = "no"
End(how) == cpc' = "idle" /\ outcome' = [outcome EXCEPT ![call] = how]

-----------------------------------------------------------------------------
(* Do *)

\* The next call; "conn fail" when conn = nil.
DoStart ==
  /\ Alive /\ cpc = "idle" /\ call < Len(Fn) /\ call' = call + 1
  /\ \/ conn # 0 /\ cpc' = "put" /\ UNCHANGED outcome
     \/ /\ conn = 0 /\ UNCHANGED cpc
        /\ outcome' = [outcome EXCEPT ![call'] = "refused"]
  /\ UNCHANGED <<waitQ, ownVars, netVars, handlers, rpc, held, calledBack, panicked>>

\* PutResHandlerMap, which locks RespHandlers.
DoPut ==
  /\ Alive /\ cpc = "put"
  /\ \/ noMap /\ panicked' = "nil handlers" /\ UNCHANGED <<handlers, cpc>>
     \/ /\ ~noMap /\ cpc' = "write" /\ UNCHANGED panicked
        /\ handlers' = [handlers EXCEPT ![Fn[call]] = call]
  /\ UNCHANGED <<call, waitQ, ownVars, netVars, rpc, held, outcome, calledBack>>

\* Write, on whatever conn is by now; a connection the peer has ended may still
\* take the bytes.
DoWrite ==
  /\ Alive /\ cpc = "write"
  /\ \/ /\ conn # 0 /\ cpc' = "wait" /\ waitQ' = queue
        /\ atServer' = IF link[conn] = "up" THEN atServer \cup {<<call, conn>>} ELSE atServer
        /\ UNCHANGED outcome
     \/ /\ conn # 0 => link[conn] # "up"
        /\ End("refused") /\ UNCHANGED <<waitQ, atServer>>
  /\ UNCHANGED <<call, ownVars, link, stream, order, handlers, rpc, held, calledBack, panicked>>

\* Mutant of Deliver: the callback stays in the map.
DeliverKeeps ==
  LET name == held.resp.Handle IN
  IF name \notin Funcs \/ handlers[name] = 0 THEN End("nothing") /\ UNCHANGED <<handlers, calledBack>>
  ELSE /\ End(IF held.call = call THEN "data" ELSE "other")
       /\ calledBack' = [calledBack EXCEPT ![handlers[name]] = Append(@, held)]
       /\ UNCHANGED handlers

\* HandlerResp: the callback under the response's function name, then deleted.
Deliver ==
  LET name == held.resp.Handle IN
  IF name \notin Funcs \/ handlers[name] = 0 THEN End("nothing") /\ UNCHANGED <<handlers, calledBack>>
  ELSE /\ End(IF held.call = call THEN "data" ELSE "other")
       /\ calledBack' = [calledBack EXCEPT ![handlers[name]] = Append(@, held)]
       /\ handlers' = [handlers EXCEPT ![name] = 0]

\* Mutant of Receive: ClientRead sends the same response again.
ReceiveAgain ==
  /\ Alive /\ cpc = "wait" /\ rpc = "send" /\ waitQ = queue /\ queue \notin qClosed
  /\ held.resp.DataType = PDT_S_RETURN_DATA /\ ~noMap /\ Deliver
  /\ UNCHANGED <<call, waitQ, ownVars, netVars, rpc, held, panicked>>

\* ProcessResp receives what ClientRead is sending on the same ResQueue.
Receive ==
  /\ Alive /\ cpc = "wait" /\ rpc = "send" /\ waitQ = queue /\ queue \notin qClosed
  /\ \/ /\ held.resp.DataType \in Errors
        /\ End(IF held.call = call THEN "err" ELSE "other") /\ UNCHANGED <<handlers, calledBack, panicked>>
     \/ /\ held.resp.DataType = PDT_S_RETURN_DATA /\ ~noMap
        /\ Deliver /\ UNCHANGED panicked
     \/ /\ held.resp.DataType = PDT_S_RETURN_DATA /\ noMap
        /\ panicked' = "nil handlers" /\ UNCHANGED <<handlers, calledBack, cpc, outcome>>
  /\ rpc' = "loop" /\ held' = NoFrame
  /\ UNCHANGED <<call, waitQ, ownVars, netVars>>

\* ProcessResp receives nil from a closed ResQueue: no callback, no error.
ReceiveNil ==
  /\ Alive /\ cpc = "wait" /\ waitQ \in qClosed
  /\ End("nothing")
  /\ UNCHANGED <<call, waitQ, ownVars, netVars, handlers, rpc, held, calledBack, panicked>>

\* Mutant of Timeout: the timer is not part of the select.
TimeoutNever ==
  /\ Alive /\ cpc = "wait" /\ UNCHANGED vars

\* ProcessResp gives up; a response to this call may come later.
Timeout ==
  /\ Alive /\ cpc = "wait"
  /\ End("timeout")
  /\ UNCHANGED <<call, waitQ, ownVars, netVars, handlers, rpc, held, calledBack, panicked>>

-----------------------------------------------------------------------------
(* ClientRead *)

\* Client.Close: conn and RespHandlers become nil and ResQueue is closed.  It
\* panics when ClientRead is blocked in its send or ResQueue is closed already,
\* and when RespHandlers is nil already.
CloseClient ==
  /\ conn' = 0 /\ qClosed' = qClosed \cup {queue} /\ noMap' = TRUE
  /\ panicked' = IF rpc = "send" \/ queue \in qClosed THEN "send on closed queue"
                 ELSE IF noMap THEN "nil handlers" ELSE panicked

\* The head of the loop, "for c.conn != nil", which takes no lock.
LoopTest ==
  /\ Alive /\ rpc = "loop" /\ rpc' = IF conn = 0 THEN "ended" ELSE "frame"
  /\ UNCHANGED <<callVars, ownVars, netVars, handlers, held, outcome, calledBack, panicked>>

\* The same test at the head of ReadFrame.  After a Close between the two the error
\* is no net.OpError: ClientRead calls Close, which finds conn = nil and does
\* nothing, and dials again for a client that is closed.
FrameTest ==
  /\ Alive /\ rpc = "frame" /\ rpc' = IF conn = 0 THEN "dial" ELSE "read"
  /\ UNCHANGED <<callVars, ownVars, netVars, handlers, held, outcome, calledBack, panicked>>

\* ReadFrame, when the stream holds a whole frame, and DecodePack; the send on
\* ResQueue follows.  (A frame in the reader's buffer counts as read before a Close.)
ReadFrame ==
  /\ Alive /\ rpc = "read" /\ conn # 0 /\ HasFrame(stream[conn])
  /\ LET n == FrameLen(stream[conn]) IN
       /\ held' = [call |-> Head(order[conn]), resp |-> ClientDecodePack(Slice(stream[conn], 0, n))]
       /\ stream' = [stream EXCEPT ![conn] = Slice(@, n, Len(@))]
  /\ order' = [order EXCEPT ![conn] = Tail(@)] /\ rpc' = "send"
  /\ UNCHANGED <<callVars, ownVars, link, atServer, handlers, outcome, calledBack, panicked>>

\* Mutant of ReadEnds: every error closes and reconnects.
ReadEndsReconnects ==
  /\ Alive /\ rpc = "read"
  /\ conn # 0 /\ link[conn] \in {"reset", "shut"}
  /\ CloseClient /\ rpc' = "dial"
  /\ UNCHANGED <<callVars, dialled, queue, netVars, handlers, held, outcome, calledBack>>

\* The read fails with a net.OpError: a reset by the peer, which leaves conn as it
\* is, or a Close while ReadFrame waits.  The loop ends.
ReadEnds ==
  /\ Alive /\ rpc = "read"
  /\ conn # 0 => link[conn] \in {"reset", "shut"}
  /\ rpc' = "ended"
  /\ UNCHANGED <<callVars, ownVars, netVars, handlers, held, outcome, calledBack, panicked>>

\* EOF, before a frame or in the middle of one: Close, and reconnect.
ReadEof ==
  /\ Alive /\ rpc = "read" /\ conn # 0 /\ link[conn] = "eof" /\ ~HasFrame(stream[conn])
  /\ CloseClient /\ rpc' = "dial"
  /\ UNCHANGED <<callVars, dialled, queue, netVars, handlers, held, outcome, calledBack>>

\* ClientConn: the dial succeeds, or the loop ends with conn = nil.
Dial ==
  /\ Alive /\ rpc = "dial"
  /\ \/ /\ dialled < MaxConns /\ dialled' = dialled + 1 /\ conn' = dialled' /\ rpc' = "make"
     \/ rpc' = "ended" /\ UNCHANGED <<dialled, conn>>
  /\ UNCHANGED <<callVars, queue, qClosed, noMap, netVars, handlers, held, outcome, calledBack,
                 panicked>>

\* c.ResQueue = make(chan *Response); RespHandlers stays nil.
MakeQueue ==
  /\ Alive /\ rpc = "make" /\ queue' = dialled /\ rpc' = "loop"
  /\ UNCHANGED <<callVars, conn, dialled, qClosed, noMap, netVars, handlers, held, outcome,
                 calledBack, panicked>>

-----------------------------------------------------------------------------
(* The application, the server and the network *)

\* The application calls Close between two calls.
Close ==
  /\ CanClose /\ Alive /\ cpc = "idle" /\ conn # 0
  /\ link' = [link EXCEPT ![conn] = "shut"]
  /\ CloseClient
  /\ UNCHANGED <<callVars, dialled, queue, atServer, stream, order, handlers, rpc, held, outcome, calledBack>>

\* The answer to a call's frame, with what the worker's function makes of the job.
AnswerTo(frame) == Answer(frame, JobId, Work(AtWorker(frame, JobId)))

\* The server answers a request on the connection it came from, in any order,
\* with the worker's result or with an error.
ServerAnswers(k, n) ==
  /\ Alive /\ <<k, n>> \in atServer /\ link[n] = "up"
  /\ \E frame \in {AnswerTo(ClientEncodePack(Request(k))), ResEncodePack(PDT_CANT_DO, <<>>)} :
       /\ stream' = [stream EXCEPT ![n] = @ \o frame]
       /\ order' = IF frame = <<>> THEN order ELSE [order EXCEPT ![n] = Append(@, k)]
  /\ atServer' = atServer \ {<<k, n>>}
  /\ UNCHANGED <<callVars, ownVars, link, handlers, rpc, held, outcome, calledBack, panicked>>

\* The server ends a connection, which may cut the stream anywhere; a reset loses
\* all that was on its way.
LinkBreaks(n) ==
  /\ Alive /\ n <= dialled /\ link[n] = "up"
  /\ \E how \in Breaks : \E m \in 0..Len(stream[n]) :
       /\ link' = [link EXCEPT ![n] = how]
       /\ how = "reset" => m = 0
       /\ stream' = [stream EXCEPT ![n] = Slice(@, 0, m)]
  /\ atServer' = {p \in atServer : p[2] # n}
  /\ UNCHANGED <<callVars, ownVars, order, handlers, rpc, held, outcome, calledBack, panicked>>

-----------------------------------------------------------------------------
DoStep == DoPut \/ DoWrite \/ Receive \/ ReceiveNil \/ Timeout

ReadStep == LoopTest \/ FrameTest \/ ReadFrame \/ ReadEnds \/ ReadEof \/ Dial \/ MakeQueue

Next ==
  \/ DoStart \/ DoStep \/ ReadStep \/ Close
  \/ \E n \in Conns : LinkBreaks(n) \/ \E k \in Calls : ServerAnswers(k, n)

Spec == Init /\ [][Next]_vars

\* The calling goroutine runs when it can, and its timer fires.
FairSpec == Spec /\ WF_vars(DoStep)

-----------------------------------------------------------------------------
(* Properties *)

\* The types, and: a callback runs at most once, however late, repeated or
\* reordered the responses are.
CallbackOnce == TypeOK /\ \A k \in Calls : Len(calledBack[k]) <= 1

\* A callback is only given the answer to a call of the function it was registered
\* for, and it is given exactly what that call asked and what the worker's function
\* returned for it: nothing is lost, cut or moved on the four hops, nor by a
\* connection that ends in the middle of a frame.
IntactAnswer ==
  \A k \in Calls : \A i \in DOMAIN calledBack[k] :
    LET r == calledBack[k][i] IN Fn[r.call] = Fn[k] /\ r.resp = Expected(r.call)

\* Until a call times out, a call ends with the response to that very call, and
\* its callback is given that call's data; after that the late response may
\* shift every later call by one.
OwnResponse ==
  (\A k \in Calls : outcome[k] # "timeout") => \A k \in Calls :
    outcome[k] # "other" /\ \A i \in DOMAIN calledBack[k] : calledBack[k][i].call = k

\* Every Do returns, answered or not, unless the process died.
DoReturns == cpc # "idle" ~> (cpc = "idle" \/ ~Alive)
=============================================================================
