------------------------------ MODULE Dispatch ------------------------------
(***************************************************************************)
(* The request path of the nmid server: a client frame PDT_C_DO_JOB goes   *)
(* through the dispatch pool to the job channel of one worker connection   *)
(* (SWorker) and on to the worker; the worker's PDT_W_RETURN_DATA frame    *)
(* goes through the result router to returnData, which pops the job at the *)
(* head of the channel and answers that job's client.                      *)
(*   src/pkg/server/optimize.go  DispatchPool, ResultRouter, doJobAsync    *)
(*   src/pkg/server/worker.go    job channels, doWork, returnData          *)
(*   src/pkg/server/function.go  GetBestWorker, at the level of sets       *)
(*   src/pkg/worker/worker.go    DoFunction, the worker's side             *)
(* Every goroutine step that another goroutine can observe is an action.   *)
(***************************************************************************)
EXTENDS Naturals, Sequences, FiniteSets, Functions

CONSTANTS
  Clients,      \* client connections
  Workers,      \* SWorker objects: one per connection of a worker process
  Procs,        \* worker processes
  Funcs,        \* function names
  Reqs,         \* client requests; a request that becomes a job keeps its name
  NoFunc,       \* the empty handle
  NoWorker,     \* a job that has no worker yet
  NoReq,        \* returnData that holds no job
  ClientOf,     \* the connection a request arrives on
  Handle,       \* the function a request names, or NoFunc
  PLen,         \* the length of a request's parameters
  Proc,         \* the process behind an SWorker
  Faulty,       \* SWorkers whose connection may break
  Leaving,      \* clients that may disconnect
  CanTimeout,   \* may a client send before its last request is answered?
  PoolWorkers,  \* goroutines of the dispatch pool        (512 in the code)
  PoolCap,      \* capacity of its jobCh                  (2 * 512)
  ChanCap,      \* capacity of a job channel              (1024)
  SendCap,      \* frames a worker connection buffers     (256 + socket)
  Routers,      \* goroutines of the result router        (256)
  RouterCap     \* capacity of its resultCh               (4 * 256)

ASSUME DispatchAssumption ==
  /\ ClientOf \in [Reqs -> Clients]
  /\ Handle \in [Reqs -> Funcs \cup {NoFunc}]
  /\ PLen \in [Reqs -> Nat]
  /\ Proc \in [Workers -> Procs]
  /\ Faulty \subseteq Workers
  /\ Leaving \subseteq Clients
  /\ CanTimeout \in BOOLEAN
  /\ NoFunc \notin Funcs
  /\ NoWorker \notin Workers
  /\ NoReq \notin Reqs
  /\ {PoolWorkers, PoolCap, ChanCap, SendCap, Routers, RouterCap} \subseteq Nat

VARIABLES
  pc,          \* where the dispatch of a request stands
  jobCh,       \* DispatchPool.jobCh
  workerOf,    \* JobData.WorkerId
  status,      \* JobData.status
  response,    \* JobData.Response # nil
  chan,        \* SWorker.JobChannels
  registry,    \* FuncMap: the SWorkers registered for a function
  conn,        \* the life of a worker connection
  cconn,       \* is a client connection open?
  toWorker,    \* PDT_S_GET_DATA frames accepted by Connect.Write
  working,     \* jobs a worker process is executing
  fromWorker,  \* PDT_W_RETURN_DATA frames not yet read by DoIO
  resultCh,    \* ResultRouter.resultCh
  rpc,         \* where returnData stands with the result of a request
  via,         \* the SWorker whose connection carried the result
  sync,        \* results handled in the DoIO goroutine itself
  retJob,      \* the job that returnData popped for the result
  replies      \* the frames written to the client, by request

jobVars == <<workerOf, status, response>>
connVars == <<registry, conn>>
netVars == <<toWorker, working, fromWorker>>
retVars == <<resultCh, rpc, via, sync, retJob>>
vars == <<pc, jobCh, jobVars, chan, connVars, cconn, netVars, retVars, replies>>

-----------------------------------------------------------------------------
(* Types and state formulae *)

DispatchStates ==
  {"unsent", "queued", "running", "pushing", "pushed", "doing", "written", "gone"}
ReturnStates == {"none", "pop", "status", "check", "end"}
ReplyKinds == {"ERROR", "RATELIMIT", "CANT_DO", "RETURN_DATA"}
Replies == [kind : ReplyKinds, ret : Reqs \cup {NoReq}]

TypeOK ==
  /\ pc \in [Reqs -> DispatchStates]
  /\ jobCh \in Seq(Reqs)
  /\ workerOf \in [Reqs -> Workers \cup {NoWorker}]
  /\ status \in [Reqs -> {"init", "doing", "done"}]
  /\ response \in [Reqs -> BOOLEAN]
  /\ chan \in [Workers -> [Funcs -> Seq(Reqs)]]
  /\ registry \in [Funcs -> SUBSET Workers]
  /\ conn \in [Workers -> {"new", "open", "closed", "gone"}]
  /\ cconn \in [Clients -> BOOLEAN]
  /\ toWorker \in [Workers -> Seq(Reqs)]
  /\ working \in SUBSET Reqs
  /\ fromWorker \in [Workers -> Seq(Reqs)]
  /\ resultCh \in Seq(Reqs)
  /\ rpc \in [Reqs -> ReturnStates]
  /\ via \in [Reqs -> Workers \cup {NoWorker}]
  /\ sync \in SUBSET Reqs
  /\ retJob \in [Reqs -> Reqs \cup {NoReq}]
  /\ replies \in [Reqs -> Seq(Replies)]

\* doJobAsync refuses an empty handle and empty parameters.
Valid(r) == Handle[r] # NoFunc /\ PLen[r] > 0

\* The goroutines of the dispatch pool that run a doJobFn.
Dispatching ==
  {r \in Reqs : pc[r] \in {"running", "pushing", "pushed", "doing", "written"}}

\* The results that some goroutine is handling in returnData.
Returning == {r \in Reqs : rpc[r] \in {"pop", "status", "check"}}

\* DoIO of connection w is inside a synchronous returnData.
DoIOBusy(w) == \E r \in Returning \cap sync : via[r] = w

\* Client.Do keeps one request in flight until it is answered or times out.
MaySend(r) ==
  \/ CanTimeout
  \/ \A q \in Reqs : ClientOf[q] = ClientOf[r] /\ pc[q] # "unsent" => replies[q] # <<>>

\* Connect.Write to the client of r: it fails when the connection is closed, and
\* may fail when it is not (queue full, too many pending bytes); no caller
\* looks at the error.
ClientWrite(r, kind, ret) ==
  \/ /\ cconn[ClientOf[r]]
     /\ replies' = [replies EXCEPT ![r] = Append(@, [kind |-> kind, ret |-> ret])]
  \/ UNCHANGED replies

-----------------------------------------------------------------------------
Init ==
  /\ pc = [r \in Reqs |-> "unsent"]
  /\ jobCh = <<>>
  /\ workerOf = [r \in Reqs |-> NoWorker]
  /\ status = [r \in Reqs |-> "init"]
  /\ response = [r \in Reqs |-> FALSE]
  /\ chan = [w \in Workers |-> [f \in Funcs |-> <<>>]]
  /\ registry = [f \in Funcs |-> {}]
  /\ conn = [w \in Workers |-> "new"]
  /\ cconn = [c \in Clients |-> TRUE]
  /\ toWorker = [w \in Workers |-> <<>>]
  /\ working = {}
  /\ fromWorker = [w \in Workers |-> <<>>]
  /\ resultCh = <<>>
  /\ rpc = [r \in Reqs |-> "none"]
  /\ via = [r \in Reqs |-> NoWorker]
  /\ sync = {}
  /\ retJob = [r \in Reqs |-> NoReq]
  /\ replies = [r \in Reqs |-> <<>>]

-----------------------------------------------------------------------------
(* doJobAsync in the DoIO goroutine of the client connection *)

\* An empty handle or empty parameters: PDT_ERROR.
RejectInvalid(r) ==
  /\ pc[r] = "unsent" /\ cconn[ClientOf[r]] /\ MaySend(r)
  /\ ~Valid(r)
  /\ ClientWrite(r, "ERROR", NoReq)
  /\ pc' = [pc EXCEPT ![r] = "gone"]
  /\ UNCHANGED <<jobCh, jobVars, chan, connVars, cconn, netVars, retVars>>

\* Mutant of Submit: the result of Submit is tested the wrong way round, so a
\* request that was queued is answered PDT_RATELIMIT as well.
SubmitNegated(r) ==
  /\ pc[r] = "unsent" /\ cconn[ClientOf[r]] /\ MaySend(r)
  /\ Valid(r)
  /\ Len(jobCh) < PoolCap
  /\ jobCh' = Append(jobCh, r)
  /\ pc' = [pc EXCEPT ![r] = "queued"]
  /\ ClientWrite(r, "RATELIMIT", NoReq)
  /\ UNCHANGED <<jobVars, chan, connVars, cconn, netVars, retVars>>

\* DispatchPool.Submit finds room in jobCh.
Submit(r) ==
  /\ pc[r] = "unsent" /\ cconn[ClientOf[r]] /\ MaySend(r)
  /\ Valid(r)
  /\ Len(jobCh) < PoolCap
  /\ jobCh' = Append(jobCh, r)
  /\ pc' = [pc EXCEPT ![r] = "queued"]
  /\ UNCHANGED <<jobVars, chan, connVars, cconn, netVars, retVars, replies>>

\* DispatchPool.Submit finds jobCh full: PDT_RATELIMIT.
RateLimit(r) ==
  /\ pc[r] = "unsent" /\ cconn[ClientOf[r]] /\ MaySend(r)
  /\ Valid(r)
  /\ Len(jobCh) >= PoolCap
  /\ ClientWrite(r, "RATELIMIT", NoReq)
  /\ pc' = [pc EXCEPT ![r] = "gone"]
  /\ UNCHANGED <<jobCh, jobVars, chan, connVars, cconn, netVars, retVars>>

-----------------------------------------------------------------------------
(* A goroutine of the dispatch pool *)

\* DispatchPool.worker receives from jobCh.
Take ==
  /\ jobCh # <<>>
  /\ Cardinality(Dispatching) < PoolWorkers
  /\ jobCh' = Tail(jobCh)
  /\ pc' = [pc EXCEPT ![Head(jobCh)] = "running"]
  /\ UNCHANGED <<jobVars, chan, connVars, cconn, netVars, retVars, replies>>

\* GetBestWorker returns nil: PDT_CANT_DO.
NoBestWorker(r) ==
  /\ pc[r] = "running"
  /\ registry[Handle[r]] = {}
  /\ ClientWrite(r, "CANT_DO", NoReq)
  /\ pc' = [pc EXCEPT ![r] = "gone"]
  /\ UNCHANGED <<jobCh, jobVars, chan, connVars, cconn, netVars, retVars>>

\* GetBestWorker picks an SWorker whose connection is gone (RunWorker = nil):
\* CloseSelfWorker takes it out of every function, and it picks again.
CleanStale(r, w) ==
  /\ pc[r] = "running"
  /\ w \in registry[Handle[r]]
  /\ conn[w] = "gone"
  /\ registry' = [f \in Funcs |-> registry[f] \ {w}]
  /\ UNCHANGED <<pc, jobCh, jobVars, chan, conn, cconn, netVars, retVars, replies>>

\* GetBestWorker returns w; NewJobData with its worker and client.
PickWorker(r, w) ==
  /\ pc[r] = "running"
  /\ w \in registry[Handle[r]]
  /\ conn[w] # "gone"
  /\ workerOf' = [workerOf EXCEPT ![r] = w]
  /\ pc' = [pc EXCEPT ![r] = "pushing"]
  /\ UNCHANGED <<jobCh, status, response, chan, connVars, cconn, netVars, retVars, replies>>

\* PushJobToChannelWithBackpressure: the send succeeds.
Push(r) ==
  /\ pc[r] = "pushing"
  /\ Len(chan[workerOf[r]][Handle[r]]) < ChanCap
  /\ chan' = [chan EXCEPT ![workerOf[r]][Handle[r]] = Append(@, r)]
  /\ pc' = [pc EXCEPT ![r] = "pushed"]
  /\ UNCHANGED <<jobCh, jobVars, connVars, cconn, netVars, retVars, replies>>

\* Mutant of PushTimeout: no return after PDT_CANT_DO, doWork still runs.
PushTimeoutGoesOn(r) ==
  /\ pc[r] = "pushing"
  /\ Len(chan[workerOf[r]][Handle[r]]) >= ChanCap
  /\ ClientWrite(r, "CANT_DO", NoReq)
  /\ pc' = [pc EXCEPT ![r] = "pushed"]
  /\ UNCHANGED <<jobCh, jobVars, chan, connVars, cconn, netVars, retVars>>

\* Mutant of PushTimeout: the timer is rearmed and the send tried again.
PushTimeoutRetries(r) ==
  /\ pc[r] = "pushing"
  /\ Len(chan[workerOf[r]][Handle[r]]) >= ChanCap
  /\ UNCHANGED vars

\* PushJobToChannelWithBackpressure: the channel stays full for 100ms.
PushTimeout(r) ==
  /\ pc[r] = "pushing"
  /\ Len(chan[workerOf[r]][Handle[r]]) >= ChanCap
  /\ ClientWrite(r, "CANT_DO", NoReq)
  /\ pc' = [pc EXCEPT ![r] = "gone"]
  /\ UNCHANGED <<jobCh, jobVars, chan, connVars, cconn, netVars, retVars>>

\* Mutant of DoWorkStart: the status is left for after the write.
DoWorkStartUnmarked(r) ==
  /\ pc[r] = "pushed"
  /\ status[r] = "init"
  /\ pc' = [pc EXCEPT ![r] = "doing"]
  /\ UNCHANGED <<jobCh, jobVars, chan, connVars, cconn, netVars, retVars, replies>>

\* doWork: status becomes DOING.
DoWorkStart(r) ==
  /\ pc[r] = "pushed"
  /\ status[r] = "init"
  /\ status' = [status EXCEPT ![r] = "doing"]
  /\ pc' = [pc EXCEPT ![r] = "doing"]
  /\ UNCHANGED <<jobCh, workerOf, response, chan, connVars, cconn, netVars, retVars, replies>>

\* doWork: Connect.Write of the job; a failed write is not noticed.
DoWorkWrite(r) ==
  /\ pc[r] = "doing"
  /\ \/ /\ conn[workerOf[r]] = "open"
        /\ Len(toWorker[workerOf[r]]) < SendCap
        /\ toWorker' = [toWorker EXCEPT ![workerOf[r]] = Append(@, r)]
     \/ /\ conn[workerOf[r]] # "open" \/ Len(toWorker[workerOf[r]]) >= SendCap
        /\ UNCHANGED toWorker
  /\ pc' = [pc EXCEPT ![r] = "written"]
  /\ UNCHANGED <<jobCh, jobVars, chan, connVars, cconn, working, fromWorker, retVars, replies>>

\* doWork: job.Response = res, after the write.
DoWorkArm(r) ==
  /\ pc[r] = "written"
  /\ response' = [response EXCEPT ![r] = TRUE]
  /\ pc' = [pc EXCEPT ![r] = "gone"]
  /\ UNCHANGED <<jobCh, workerOf, status, chan, connVars, cconn, netVars, retVars, replies>>

-----------------------------------------------------------------------------
(* The worker process *)

\* Agent.Work reads the frame and DoFunction starts a goroutine for it.
WorkerTake(w) ==
  /\ toWorker[w] # <<>>
  /\ toWorker' = [toWorker EXCEPT ![w] = Tail(@)]
  /\ working' = working \cup {Head(toWorker[w])}
  /\ UNCHANGED <<pc, jobCh, jobVars, chan, connVars, cconn, fromWorker, retVars, replies>>

\* The function returned: Agent.Write sends the result on the agent's current
\* connection, which after a reconnect is not the one the job came from.
WorkerReturn(r, w) ==
  /\ r \in working
  /\ conn[w] = "open"
  /\ Proc[w] = Proc[workerOf[r]]
  /\ working' = working \ {r}
  /\ fromWorker' = [fromWorker EXCEPT ![w] = Append(@, r)]
  /\ via' = [via EXCEPT ![r] = w]
  /\ UNCHANGED <<pc, jobCh, jobVars, chan, connVars, cconn, toWorker,
                 resultCh, rpc, sync, retJob, replies>>

\* The function returned an error, or the write failed: no result is sent.
WorkerFail(r) ==
  /\ r \in working
  /\ working' = working \ {r}
  /\ UNCHANGED <<pc, jobCh, jobVars, chan, connVars, cconn, toWorker, fromWorker, retVars, replies>>

-----------------------------------------------------------------------------
(* The DoIO goroutine of a worker connection, and its write loop *)

\* A worker process connects: at most one live connection per process.
WorkerConnect(w) ==
  /\ conn[w] = "new"
  /\ \A v \in Workers : Proc[v] = Proc[w] => conn[v] # "open"
  /\ conn' = [conn EXCEPT ![w] = "open"]
  /\ UNCHANGED <<pc, jobCh, jobVars, chan, registry, cconn, netVars, retVars, replies>>

\* PDT_W_ADD_FUNC: FuncMap.AddFunc.
AddFunction(w, f) ==
  /\ conn[w] = "open" /\ ~DoIOBusy(w)
  /\ registry' = [registry EXCEPT ![f] = @ \cup {w}]
  /\ UNCHANGED <<pc, jobCh, jobVars, chan, conn, cconn, netVars, retVars, replies>>

\* PDT_W_DEL_FUNC: FuncMap.DelWorkerFunc.
DelFunction(w, f) ==
  /\ conn[w] = "open" /\ ~DoIOBusy(w)
  /\ registry' = [registry EXCEPT ![f] = @ \ {w}]
  /\ UNCHANGED <<pc, jobCh, jobVars, chan, conn, cconn, netVars, retVars, replies>>

\* PDT_W_RETURN_DATA: ResultRouter.Submit finds room in resultCh.
RouteResult(w) ==
  /\ fromWorker[w] # <<>> /\ conn[w] # "gone" /\ ~DoIOBusy(w)
  /\ Len(resultCh) < RouterCap
  /\ resultCh' = Append(resultCh, Head(fromWorker[w]))
  /\ fromWorker' = [fromWorker EXCEPT ![w] = Tail(@)]
  /\ UNCHANGED <<pc, jobCh, jobVars, chan, connVars, cconn, toWorker, working,
                 rpc, via, sync, retJob, replies>>

\* PDT_W_RETURN_DATA: resultCh is full, DoIO calls returnData itself.
HandleSync(w) ==
  /\ fromWorker[w] # <<>> /\ conn[w] # "gone" /\ ~DoIOBusy(w)
  /\ Len(resultCh) >= RouterCap
  /\ rpc' = [rpc EXCEPT ![Head(fromWorker[w])] = "pop"]
  /\ sync' = sync \cup {Head(fromWorker[w])}
  /\ fromWorker' = [fromWorker EXCEPT ![w] = Tail(@)]
  /\ UNCHANGED <<pc, jobCh, jobVars, chan, connVars, cconn, toWorker, working,
                 resultCh, via, retJob, replies>>

\* writeLoop gives up: closeSignal and conn.Close, RunWorker stays set.
WriteLoopFails(w) ==
  /\ w \in Faulty /\ conn[w] = "open"
  /\ conn' = [conn EXCEPT ![w] = "closed"]
  /\ toWorker' = [toWorker EXCEPT ![w] = <<>>]
  /\ UNCHANGED <<pc, jobCh, jobVars, chan, registry, cconn, working, fromWorker, retVars, replies>>

\* The connection ends for DoIO; frames not yet read or written are lost.
LoseFrames(w) ==
  /\ toWorker' = [toWorker EXCEPT ![w] = <<>>]
  /\ fromWorker' = [fromWorker EXCEPT ![w] = <<>>]

\* DoIO sees EOF or a net.OpError: CloseWorkerConnect, CloseSelfWorker.
DoIOClose(w) ==
  /\ w \in Faulty /\ conn[w] \in {"open", "closed"} /\ ~DoIOBusy(w)
  /\ conn' = [conn EXCEPT ![w] = "gone"]
  /\ registry' = [f \in Funcs |-> registry[f] \ {w}]
  /\ LoseFrames(w)
  /\ UNCHANGED <<pc, jobCh, jobVars, chan, cconn, working, retVars, replies>>

\* DoIO sees any other error (a truncated frame): CloseConnect forgets
\* RunWorker and leaves the SWorker in the FuncMap.
DoIOCloseStale(w) ==
  /\ w \in Faulty /\ conn[w] \in {"open", "closed"} /\ ~DoIOBusy(w)
  /\ conn' = [conn EXCEPT ![w] = "gone"]
  /\ LoseFrames(w)
  /\ UNCHANGED <<pc, jobCh, jobVars, chan, registry, cconn, working, retVars, replies>>

\* DoIO of a client connection ends: CloseClientConnect.
ClientClose(c) ==
  /\ c \in Leaving /\ cconn[c]
  /\ cconn' = [cconn EXCEPT ![c] = FALSE]
  /\ UNCHANGED <<pc, jobCh, jobVars, chan, connVars, netVars, retVars, replies>>

-----------------------------------------------------------------------------
(* returnData, in a router goroutine or in DoIO *)

\* ResultRouter.worker receives from resultCh.
RouterTake ==
  /\ resultCh # <<>>
  /\ Cardinality(Returning \ sync) < Routers
  /\ resultCh' = Tail(resultCh)
  /\ rpc' = [rpc EXCEPT ![Head(resultCh)] = "pop"]
  /\ UNCHANGED <<pc, jobCh, jobVars, chan, connVars, cconn, netVars, via, sync, retJob, replies>>

\* PopJobFromChannel takes the head of the channel, whatever its JobId.
PopJob(r) ==
  /\ rpc[r] = "pop"
  /\ chan[via[r]][Handle[r]] # <<>>
  /\ retJob' = [retJob EXCEPT ![r] = Head(chan[via[r]][Handle[r]])]
  /\ chan' = [chan EXCEPT ![via[r]][Handle[r]] = Tail(@)]
  /\ rpc' = [rpc EXCEPT ![r] = "status"]
  /\ UNCHANGED <<pc, jobCh, jobVars, connVars, cconn, netVars, resultCh, via, sync, replies>>

\* Mutant of PopTimeout: the receive is tried again for ever.
PopTimeoutRetries(r) ==
  /\ rpc[r] = "pop"
  /\ chan[via[r]][Handle[r]] = <<>>
  /\ UNCHANGED vars

\* PopJobFromChannel: the channel stays empty for 50ms, the result is dropped.
PopTimeout(r) ==
  /\ rpc[r] = "pop"
  /\ chan[via[r]][Handle[r]] = <<>>
  /\ rpc' = [rpc EXCEPT ![r] = "end"]
  /\ UNCHANGED <<pc, jobCh, jobVars, chan, connVars, cconn, netVars, resultCh, via, sync,
                 retJob, replies>>

\* returnData reads job.status; a job that is not DOING is dropped.
CheckStatus(r) ==
  /\ rpc[r] = "status"
  /\ rpc' = [rpc EXCEPT ![r] = IF status[retJob[r]] = "doing" THEN "check" ELSE "end"]
  /\ UNCHANGED <<pc, jobCh, jobVars, chan, connVars, cconn, netVars, resultCh, via, sync,
                 retJob, replies>>

\* The completion test of returnData for job j and the result of request r.
Alike(j, r) == Handle[j] = Handle[r] /\ PLen[j] = PLen[r]

\* Mutant of Completes: function and length are not compared.
CompletesAny(j, r) == response[j]

Completes(j, r) == response[j] /\ Alike(j, r)

\* returnData: the job is DONE and its client gets the result.
Finish(r) ==
  /\ rpc[r] = "check"
  /\ Completes(retJob[r], r)
  /\ status' = [status EXCEPT ![retJob[r]] = "done"]
  /\ ClientWrite(retJob[r], "RETURN_DATA", r)
  /\ rpc' = [rpc EXCEPT ![r] = "end"]
  /\ UNCHANGED <<pc, jobCh, workerOf, response, chan, connVars, cconn, netVars,
                 resultCh, via, sync, retJob>>

\* returnData: "worker return data error", job and result are dropped.
DropResult(r) ==
  /\ rpc[r] = "check"
  /\ ~Completes(retJob[r], r)
  /\ rpc' = [rpc EXCEPT ![r] = "end"]
  /\ UNCHANGED <<pc, jobCh, jobVars, chan, connVars, cconn, netVars, resultCh, via, sync,
                 retJob, replies>>

-----------------------------------------------------------------------------
\* The steps of the server's own goroutines for request r.
DispatchStep(r) ==
  \/ NoBestWorker(r) \/ (\E w \in Workers : CleanStale(r, w) \/ PickWorker(r, w))
  \/ Push(r) \/ PushTimeout(r) \/ DoWorkStart(r) \/ DoWorkWrite(r) \/ DoWorkArm(r)

ReturnStep(r) ==
  PopJob(r) \/ PopTimeout(r) \/ CheckStatus(r) \/ Finish(r) \/ DropResult(r)

ClientStep(r) == RejectInvalid(r) \/ Submit(r) \/ RateLimit(r)

WorkerStep(r) == WorkerFail(r) \/ \E w \in Workers : WorkerReturn(r, w)

ConnStep(w) ==
  \/ WorkerConnect(w) \/ WorkerTake(w) \/ RouteResult(w) \/ HandleSync(w)
  \/ WriteLoopFails(w) \/ DoIOClose(w) \/ DoIOCloseStale(w)
  \/ \E f \in Funcs : AddFunction(w, f) \/ DelFunction(w, f)

Next ==
  \/ Take \/ RouterTake
  \/ \E r \in Reqs : ClientStep(r) \/ DispatchStep(r) \/ ReturnStep(r) \/ WorkerStep(r)
  \/ \E w \in Workers : ConnStep(w)
  \/ \E c \in Clients : ClientClose(c)

Spec == Init /\ [][Next]_vars

\* The Go scheduler runs every runnable goroutine of the pool and the router,
\* and their timers fire; clients, workers and connections owe nothing.
FairSpec ==
  /\ Spec
  /\ WF_vars(Take) /\ WF_vars(RouterTake)
  /\ \A r \in Reqs : WF_vars(DispatchStep(r)) /\ WF_vars(ReturnStep(r))

-----------------------------------------------------------------------------
(* Properties *)

\* A request is answered at most once, whatever path its answer takes.
AtMostOneReply == \A r \in Reqs : Len(replies[r]) <= 1

\* A job is in one place: a job channel slot or the hands of one returnData,
\* never two; otherwise two results could complete it.
JobHeldOnce ==
  /\ \A w \in Workers, f \in Funcs : IsInjective(chan[w][f])
  /\ \A r \in Returning, w \in Workers, f \in Funcs : retJob[r] \notin Range(chan[w][f])
  /\ \A q, r \in Returning : retJob[q] = retJob[r] /\ retJob[q] # NoReq => q = r

\* Data returned to a request comes from a job of the same function and the
\* same parameter length that the same worker process ran to its end; which
\* job of those it is, returnData does not look at.  This takes a worker that
\* returns each result under the header of its own job; module WorkerAgent
\* says when the Go worker does.
ReturnConfined ==
  \A r \in Reqs : \A i \in DOMAIN replies[r] :
    replies[r][i].kind = "RETURN_DATA" =>
      /\ Alike(r, replies[r][i].ret)
      /\ Proc[workerOf[replies[r][i].ret]] = Proc[workerOf[r]]

\* The answer to a request carries the result of that very request.
OwnResult ==
  \A r \in Reqs : \A i \in DOMAIN replies[r] :
    replies[r][i].kind = "RETURN_DATA" => replies[r][i].ret = r

\* The requests handed to a worker, and those whose execution gave a result.
Handed == {r \in Reqs : status[r] # "init"}
Finished == {r \in Reqs : via[r] # NoWorker}

Service == INSTANCE RpcService WITH
  Refusals <- ReplyKinds \ {"RETURN_DATA"}, answer <- replies, handed <- Handed, finished <- Finished

\* The pool, the channels and the router together keep the promise of
\* RpcService: refused or handed out, answered at most once, and one answer
\* at most for each result.
ImplementsService == Service!SvcSpec

\* Every submitted request leaves the dispatch pool: no goroutine of the pool
\* waits for ever on a full job channel.
PoolDrains == \A r \in Reqs : pc[r] = "queued" ~> pc[r] = "gone"

\* Every result that reached the router, or that DoIO handles itself, is
\* disposed of, whether or not a job waits for it.
RouterDrains ==
  \A r \in Reqs : (r \in Range(resultCh) \/ rpc[r] = "pop") ~> rpc[r] = "end"
=============================================================================
