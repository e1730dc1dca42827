---------------------------- MODULE DispatchInv -----------------------------
(***************************************************************************)
(* The inductive invariant behind the safety properties of Dispatch: where *)
(* a request can be, and that it is in one place at a time.                *)
(***************************************************************************)
EXTENDS Dispatch

\* The dispatch states before the job is in a channel.
Early == {"unsent", "queued", "running", "pushing"}

\* A job that is not in a channel yet has left no trace anywhere, and one that
\* doWork has not started is unanswered.
InvEarly ==
  \A r \in Reqs :
    /\ pc[r] \in Early =>
         /\ \A w \in Workers, f \in Funcs : r \notin Range(chan[w][f])
         /\ \A k \in Reqs : retJob[k] # r
    /\ pc[r] \in Early \cup {"pushed"} => status[r] = "init" /\ replies[r] = <<>>
    /\ pc[r] \in Early \ {"pushing"} => workerOf[r] = NoWorker
    /\ pc[r] \in {"pushing", "pushed", "doing", "written"} => workerOf[r] \in Workers
    /\ pc[r] \in {"queued", "running", "pushing", "pushed"} => Handle[r] \in Funcs

\* jobCh holds each queued request once.
InvPool ==
  /\ IsInjective(jobCh)
  /\ \A r \in Range(jobCh) : pc[r] = "queued"

\* A channel holds each of its jobs once: jobs of its worker and function,
\* unanswered and not done.
InvChan ==
  \A w \in Workers, f \in Funcs :
    /\ IsInjective(chan[w][f])
    /\ \A r \in Range(chan[w][f]) :
         workerOf[r] = w /\ Handle[r] = f /\ status[r] # "done" /\ replies[r] = <<>>

\* doWork has set the status of a job before it writes it.
InvHanded ==
  \A r \in Reqs :
    /\ status[r] # "init" => Handle[r] \in Funcs
    /\ pc[r] \in {"doing", "written"} => status[r] # "init"

\* A request is on its way to the worker, executed or returned, one of the
\* three, and only after doWork started it.
InvToWorker ==
  \A w \in Workers :
    /\ IsInjective(toWorker[w])
    /\ \A r \in Range(toWorker[w]) :
         /\ pc[r] \in {"written", "gone"} /\ status[r] # "init"
         /\ workerOf[r] = w /\ via[r] = NoWorker /\ r \notin working

InvWorking ==
  \A r \in working :
    /\ pc[r] \in {"written", "gone"} /\ status[r] # "init"
    /\ workerOf[r] \in Workers /\ via[r] = NoWorker

InvVia ==
  \A r \in Reqs : via[r] # NoWorker =>
    /\ pc[r] \in {"written", "gone"} /\ status[r] # "init"
    /\ workerOf[r] \in Workers /\ Proc[via[r]] = Proc[workerOf[r]]

\* A result is unread, in the router's queue, or with one returnData.
InvFromWorker ==
  \A w \in Workers :
    /\ IsInjective(fromWorker[w])
    /\ \A r \in Range(fromWorker[w]) : via[r] = w /\ rpc[r] = "none" /\ r \notin Range(resultCh)

InvResultCh ==
  /\ IsInjective(resultCh)
  /\ \A r \in Range(resultCh) : via[r] # NoWorker /\ rpc[r] = "none"

InvTaken == \A r \in Reqs : rpc[r] # "none" => via[r] # NoWorker

\* returnData holds a job of its own connection, which is in no channel any
\* more and which no other returnData holds.
InvHeld ==
  \A r \in Reqs :
    /\ rpc[r] \in {"none", "pop"} => retJob[r] = NoReq
    /\ retJob[r] # NoReq =>
         /\ \A w \in Workers, f \in Funcs : retJob[r] \notin Range(chan[w][f])
         /\ workerOf[retJob[r]] = via[r]
         /\ \A q \in Reqs : retJob[q] = retJob[r] => q = r

\* Until returnData ends, the job it holds is unanswered.
InvOpen ==
  \A r \in Reqs :
    /\ rpc[r] \in {"status", "check"} =>
         retJob[r] \in Reqs /\ status[retJob[r]] # "done" /\ replies[retJob[r]] = <<>>
    /\ rpc[r] = "check" => status[retJob[r]] = "doing"

\* An answer is the only one of its request, and a result that answered is used up.
InvReply ==
  \A r \in Reqs : replies[r] # <<>> =>
    /\ Len(replies[r]) = 1
    /\ replies[r][1].kind = "RETURN_DATA" =>
         /\ replies[r][1].ret \in Reqs /\ rpc[replies[r][1].ret] = "end"
         /\ Alike(r, replies[r][1].ret)
         /\ workerOf[r] = via[replies[r][1].ret]
    /\ replies[r][1].kind # "RETURN_DATA" => replies[r][1].ret = NoReq

\* A request is in one place at a time on its way through the server, and its
\* status and replies agree with that place.
IInv ==
  /\ TypeOK /\ InvEarly /\ InvPool /\ InvChan
  /\ InvHanded /\ InvToWorker /\ InvWorking /\ InvVia
  /\ InvFromWorker /\ InvResultCh /\ InvTaken
  /\ InvHeld /\ InvOpen /\ InvReply

-----------------------------------------------------------------------------
(* One client that waits for each answer *)

\* All requests come on one connection, whose client sends no request before
\* its last one is answered: Client.Do as long as its timer does not fire.
OneCaller ==
  /\ CanTimeout = FALSE
  /\ \A q, r \in Reqs : ClientOf[q] = ClientOf[r]

\* At most one request that was sent is unanswered.
InvInFlight ==
  \A q, r \in Reqs :
    (/\ pc[q] # "unsent" /\ replies[q] = <<>>
     /\ pc[r] # "unsent" /\ replies[r] = <<>>) => q = r

\* A refused request was never handed to a worker, and data that answers a
\* request is the request's own.
InvAnswer ==
  \A r \in Reqs : replies[r] # <<>> =>
    IF replies[r][1].kind = "RETURN_DATA" THEN replies[r][1].ret = r ELSE status[r] = "init"

\* returnData pops the job whose result it has.
InvOwn == \A r \in Reqs : retJob[r] \in {NoReq, r}

\* With one caller the head of a job channel is the job a result belongs to.
\* IInv does not say so: it holds for clients that overtake each other too.
AloneInv == InvInFlight /\ InvAnswer /\ InvOwn
=============================================================================
