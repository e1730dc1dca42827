------------------------------ MODULE Gateway -------------------------------
(***************************************************************************)
(* The users of an RPC client: an application, which goes on calling (all  *)
(* that RpcClient allows), and the two that make a Client for one call and *)
(* close it by a defer: the HTTP gateway of the server,                    *)
(* src/pkg/server/gateway.go, and a worker's function that calls another   *)
(* worker, ClientCall in src/pkg/worker/response.go.  A panic of an HTTP   *)
(* handler is recovered by net/http; any other ends the process.           *)
(***************************************************************************)
EXTENDS RpcClient

VARIABLES
  user,  \* who uses the client: "application", "gateway" or "worker"
  hpc    \* where the handler stands that makes one call

handlerVars == <<user, hpc>>

OneShot == user \in {"gateway", "worker"}

GatewayInit ==
  /\ Init /\ user \in {"application", "gateway", "worker"}
  /\ hpc = (IF OneShot THEN "start" ELSE "done")

-----------------------------------------------------------------------------
(* HTTPDoWorkByClientHandle and ClientCall *)

\* GetClient, or Start in ClientCall.  When the dial fails the client is nil, and
\* the next line stores into it.
Open ==
  /\ OneShot /\ hpc = "start"
  /\ \/ hpc' = "begin" /\ UNCHANGED panicked
     \/ /\ hpc' = "aborted"
        /\ panicked' = IF user = "worker" THEN "nil client" ELSE panicked
  /\ UNCHANGED <<callVars, ownVars, netVars, handlers, rpc, held, outcome, calledBack, user>>

\* The gateway returns when there are no parameters or they cannot be converted.
Refuse ==
  /\ user = "gateway" /\ hpc = "begin" /\ Alive /\ hpc' = "close"
  /\ UNCHANGED <<vars, user>>

BeginDo ==
  /\ OneShot /\ hpc = "begin" /\ DoStart
  /\ hpc' = IF cpc' = "idle" THEN "close" ELSE "do"
  /\ UNCHANGED user

InDo ==
  /\ OneShot /\ hpc = "do" /\ DoStep
  /\ user = "gateway" => panicked' = panicked
  /\ hpc' = IF cpc' = "idle" THEN "close" ELSE "do"
  /\ UNCHANGED user

\* Do uses RespHandlers, which is nil after a reconnection; the gateway's panic is
\* recovered, and the deferred Close still runs.
DoPanics ==
  /\ Alive /\ user = "gateway" /\ hpc = "do" /\ noMap
  /\ \/ cpc = "put" /\ UNCHANGED <<rpc, held>>
     \/ /\ cpc = "wait" /\ rpc = "send" /\ waitQ = queue /\ queue \notin qClosed
        /\ held.resp.DataType = PDT_S_RETURN_DATA /\ rpc' = "loop" /\ held' = NoFrame
  /\ cpc' = "idle" /\ hpc' = "close"
  /\ UNCHANGED <<call, waitQ, ownVars, netVars, handlers, outcome, calledBack, panicked, user>>

\* Mutant of DeferredClose: a handler that refuses its parameters does not close.
DeferredCloseAfterDo ==
  /\ Alive /\ OneShot /\ hpc = "close" /\ hpc' = "done"
  /\ \/ /\ conn # 0 /\ call = 1 /\ link' = [link EXCEPT ![conn] = "shut"]
        /\ conn' = 0 /\ qClosed' = qClosed \cup {queue} /\ noMap' = TRUE
        /\ panicked' = IF rpc = "send" /\ queue \notin qClosed THEN "send on closed queue"
                       ELSE IF user = "worker" /\ noMap THEN "nil handlers" ELSE panicked
     \/ (conn = 0 \/ call = 0) /\ UNCHANGED <<conn, link, qClosed, noMap, panicked>>
  /\ UNCHANGED <<callVars, dialled, queue, atServer, stream, order, handlers, rpc, held, outcome,
                 calledBack, user>>

\* defer client.Close().  It panics in ClientRead when that is blocked in its send;
\* it panics itself, which only the gateway survives, when the client has
\* reconnected: ResQueue is closed already or RespHandlers is nil.
DeferredClose ==
  /\ Alive /\ OneShot /\ hpc = "close" /\ hpc' = "done"
  /\ \/ /\ conn # 0 /\ link' = [link EXCEPT ![conn] = "shut"]
        /\ conn' = 0 /\ qClosed' = qClosed \cup {queue} /\ noMap' = TRUE
        /\ panicked' = IF rpc = "send" /\ queue \notin qClosed THEN "send on closed queue"
                       ELSE IF user = "worker" /\ noMap THEN "nil handlers" ELSE panicked
     \/ conn = 0 /\ UNCHANGED <<conn, link, qClosed, noMap, panicked>>
  /\ UNCHANGED <<callVars, dialled, queue, atServer, stream, order, handlers, rpc, held, outcome,
                 calledBack, user>>

HandlerStep == Open \/ Refuse \/ BeginDo \/ InDo \/ DoPanics \/ DeferredClose

-----------------------------------------------------------------------------
Started == OneShot /\ hpc \notin {"start", "aborted"}

\* What goes on beside the handler once its client is started.
Beside ==
  /\ Started
  /\ \/ ReadStep
     \/ \E n \in Conns : LinkBreaks(n) \/ ServerAnswers(1, n)
  /\ UNCHANGED handlerVars

GatewayNext ==
  \/ user = "application" /\ Next /\ UNCHANGED handlerVars
  \/ HandlerStep \/ Beside

GatewaySpec == GatewayInit /\ [][GatewayNext]_<<vars, handlerVars>>

\* The calling goroutine and ClientRead run when they can, and the timer fires.
GatewayFairSpec ==
  GatewaySpec /\ WF_<<vars, handlerVars>>(user = "application" /\ DoStep /\ UNCHANGED handlerVars)
              /\ WF_<<vars, handlerVars>>(HandlerStep)
              /\ WF_<<vars, handlerVars>>(Started /\ ReadStep /\ UNCHANGED handlerVars)

-----------------------------------------------------------------------------
(* Properties *)

\* Resets, late responses and the deferred Close do not stop the process: an
\* application's client may take it down when the connection ends in an orderly
\* way or is closed; the client of a single call only when that call has timed
\* out, so that its response may come while the client is being closed, or when
\* the connection ended in an orderly way.
NoPanic ==
  /\ (\A n \in Conns : link[n] \in {"up", "reset"}) => panicked \in {"no", "nil client"}
  /\ OneShot /\ panicked \in {"nil handlers", "send on closed queue"} =>
       outcome[1] = "timeout" \/ \E n \in Conns : link[n] = "eof"

\* A handler that makes one call comes to its end, whatever the call and the
\* connection end with.  So does the reading goroutine it started, and none is left
\* behind for each request, unless ClientRead dials once the deferred Close is over:
\* because this Close came between its two tests of conn, or while it was dialling
\* after an orderly end.  That connection nobody closes.
OneShotEnds ==
  OneShot ~> \/ hpc = "aborted" \/ ~Alive
             \/ hpc = "done" /\ (rpc = "ended" \/ (dialled > 1 /\ conn # 0))
=============================================================================
