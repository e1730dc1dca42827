--------------------------- MODULE DispatchProofs ---------------------------
(***************************************************************************)
(* The safety of the request path for every number of clients, workers,    *)
(* requests and goroutines and every channel capacity.  IInv (DispatchInv) *)
(* is inductive: it follows a request through jobCh, a job channel, the    *)
(* worker and the router and says that it is in one of these at a time.    *)
(* There is one lemma per action; the refusals share one.                  *)
(***************************************************************************)
EXTENDS DispatchInv, QueueLemmas, TLAPS

\* A write to the client of an unanswered request: at most one answer appears.
LEMMA ClientWriteEffect ==
  ASSUME TypeOK, NEW r \in Reqs, NEW kind \in ReplyKinds, NEW ret \in Reqs \cup {NoReq},
         replies[r] = <<>>, ClientWrite(r, kind, ret)
  PROVE  /\ replies' \in [Reqs -> Seq(Replies)]
         /\ \A q \in Reqs \ {r} : replies'[q] = replies[q]
         /\ replies'[r] # <<>> => /\ Len(replies'[r]) = 1
                                 /\ replies'[r][1] = [kind |-> kind, ret |-> ret]
<1>. DEFINE a == [kind |-> kind, ret |-> ret]
<1>1. a \in Replies
  BY DEF Replies
<1>2. CASE UNCHANGED replies
  BY <1>2 DEF TypeOK
<1>3. CASE replies' = [replies EXCEPT ![r] = Append(@, a)]
  <2>1. Append(<<>>, a) = <<a>>
    OBVIOUS
  <2>2. <<a>> \in Seq(Replies) /\ Len(<<a>>) = 1 /\ <<a>>[1] = a
    BY <1>1
  <2>3. replies' = [replies EXCEPT ![r] = <<a>>]
    BY <1>3, <2>1
  <2>. QED
    BY <2>2, <2>3 DEF TypeOK
<1>. QED
  BY <1>2, <1>3 DEF ClientWrite

\* The queues hold requests.
LEMMA QueueTypes ==
  ASSUME TypeOK
  PROVE  /\ Range(jobCh) \subseteq Reqs /\ Range(resultCh) \subseteq Reqs
         /\ \A w \in Workers : Range(toWorker[w]) \subseteq Reqs /\ Range(fromWorker[w]) \subseteq Reqs
         /\ \A w \in Workers, f \in Funcs : Range(chan[w][f]) \subseteq Reqs
  BY RangeOfSeq DEF TypeOK

\* A refusal keeps the inductive invariant: the request has left no trace and is
\* answered for the first time.
LEMMA RefusalStep ==
  ASSUME IInv, NEW r \in Reqs, pc[r] \in {"unsent", "running", "pushing"},
         NEW kind \in ReplyKinds \ {"RETURN_DATA"}, ClientWrite(r, kind, NoReq),
         pc' = [pc EXCEPT ![r] = "gone"],
         UNCHANGED <<jobCh, jobVars, chan, connVars, cconn, netVars, retVars>>
  PROVE  IInv'
<1>. USE IInv DEF IInv, jobVars, connVars, netVars, retVars
<1>1. replies[r] = <<>>
  BY DEF InvEarly, Early
<1>2. /\ replies' \in [Reqs -> Seq(Replies)]
      /\ \A q \in Reqs \ {r} : replies'[q] = replies[q]
      /\ replies'[r] # <<>> => /\ Len(replies'[r]) = 1
                              /\ replies'[r][1] = [kind |-> kind, ret |-> NoReq]
  BY <1>1, ClientWriteEffect
<1>3. TypeOK'
  BY <1>2 DEF TypeOK, DispatchStates
<1>4. InvEarly'
  BY <1>2 DEF TypeOK, InvEarly, Early
<1>5. InvPool'
  BY DEF TypeOK, InvPool
<1>6. InvChan'
  <2>1. \A w \in Workers, f \in Funcs : Range(chan[w][f]) \subseteq Reqs \ {r}
    BY QueueTypes DEF InvEarly, Early
  <2>. QED
    BY <1>2, <2>1 DEF InvChan
<1>7. InvHanded' /\ InvToWorker' /\ InvWorking' /\ InvVia'
  <2>1. \A w \in Workers : Range(toWorker[w]) \subseteq Reqs \ {r}
    BY QueueTypes DEF InvToWorker
  <2>2. working \subseteq Reqs \ {r} /\ via[r] = NoWorker
    BY DEF TypeOK, InvWorking, InvVia
  <2>. QED
    BY <2>1, <2>2 DEF TypeOK, InvHanded, InvToWorker, InvWorking, InvVia
<1>8. InvFromWorker' /\ InvResultCh' /\ InvTaken'
  BY DEF InvFromWorker, InvResultCh, InvTaken
<1>9. InvHeld' /\ InvOpen'
  BY <1>2 DEF InvHeld, InvOpen, InvEarly, Early
<1>10. InvReply'
  <2>1. [kind |-> kind, ret |-> NoReq].kind # "RETURN_DATA" /\ [kind |-> kind, ret |-> NoReq].ret = NoReq
    OBVIOUS
  <2>. QED
    BY <1>2, <2>1 DEF InvReply
<1>. QED
  BY <1>3, <1>4, <1>5, <1>6, <1>7, <1>8, <1>9, <1>10

\* Submit keeps the inductive invariant.
LEMMA SubmitStep ==
  ASSUME NEW r \in Reqs, IInv, Submit(r)
  PROVE  IInv'
<1>. USE IInv DEF IInv
<1>1. /\ Append(jobCh, r) \in Seq(Reqs)
      /\ Range(Append(jobCh, r)) = Range(jobCh) \cup {r}
      /\ IsInjective(jobCh) /\ r \notin Range(jobCh) => IsInjective(Append(jobCh, r))
  BY AppendQueue DEF TypeOK
<1>2. TypeOK'
  BY <1>1, DispatchAssumption DEF Submit, jobVars, connVars, netVars, retVars, TypeOK,
     DispatchStates
<1>3. InvEarly'
  BY <1>1, DispatchAssumption, SMTT(30) DEF Submit, Valid, jobVars, connVars, netVars, retVars, TypeOK,
     InvEarly, Early
<1>4. InvPool'
  BY <1>1 DEF Submit, jobVars, connVars, netVars, retVars, TypeOK, InvPool
<1>5. InvHanded'
  BY <1>1 DEF Submit, jobVars, connVars, netVars, retVars, TypeOK, InvHanded
<1>6. InvToWorker'
  BY <1>1, QueueTypes DEF Submit, jobVars, connVars, netVars, retVars, TypeOK, InvToWorker
<1>7. InvWorking'
  BY <1>1 DEF Submit, jobVars, connVars, netVars, retVars, TypeOK, InvWorking
<1>8. InvVia'
  BY <1>1 DEF Submit, jobVars, connVars, netVars, retVars, TypeOK, InvVia
<1>. QED
  BY <1>2, <1>3, <1>4, <1>5, <1>6, <1>7, <1>8 DEF Submit, jobVars, connVars, netVars, retVars,
     InvChan, InvFromWorker, InvResultCh, InvTaken, InvHeld, InvOpen, InvReply, Alike

\* Take keeps the inductive invariant.
LEMMA TakeStep ==
  ASSUME IInv, Take
  PROVE  IInv'
<1>. USE IInv DEF IInv
<1>1. /\ Head(jobCh) \in Reqs /\ Tail(jobCh) \in Seq(Reqs)
      /\ Head(jobCh) \in Range(jobCh) /\ Range(Tail(jobCh)) \subseteq Range(jobCh)
      /\ IsInjective(jobCh) => IsInjective(Tail(jobCh)) /\ Head(jobCh) \notin Range(Tail(jobCh))
  BY TailQueue DEF TypeOK, Take
<1>2. TypeOK'
  BY <1>1, DispatchAssumption DEF Take, jobVars, connVars, netVars, retVars, TypeOK,
     DispatchStates
<1>3. InvEarly'
  BY <1>1 DEF Take, jobVars, connVars, netVars, retVars, TypeOK, InvEarly, Early, InvPool
<1>4. InvPool'
  BY <1>1 DEF Take, jobVars, connVars, netVars, retVars, TypeOK, InvPool
<1>5. InvHanded'
  BY <1>1 DEF Take, jobVars, connVars, netVars, retVars, TypeOK, InvHanded, InvPool
<1>6. InvToWorker'
  BY <1>1, QueueTypes DEF Take, jobVars, connVars, netVars, retVars, TypeOK, InvToWorker, InvPool
<1>7. InvWorking'
  BY <1>1 DEF Take, jobVars, connVars, netVars, retVars, TypeOK, InvWorking, InvPool
<1>8. InvVia'
  BY <1>1 DEF Take, jobVars, connVars, netVars, retVars, TypeOK, InvVia, InvPool
<1>. QED
  BY <1>2, <1>3, <1>4, <1>5, <1>6, <1>7, <1>8 DEF Take, jobVars, connVars, netVars, retVars,
     InvChan, InvFromWorker, InvResultCh, InvTaken, InvHeld, InvOpen, InvReply, Alike

\* CleanStale keeps the inductive invariant.
LEMMA CleanStaleStep ==
  ASSUME NEW r \in Reqs, NEW w \in Workers, IInv, CleanStale(r, w)
  PROVE  IInv'
<1>. USE IInv DEF IInv
<1>1. TypeOK'
  BY DispatchAssumption DEF CleanStale, jobVars, netVars, retVars, TypeOK
<1>. QED
  BY <1>1 DEF CleanStale, jobVars, netVars, retVars, InvEarly, InvPool, InvChan, InvHanded,
     InvToWorker, InvWorking, InvVia, InvFromWorker, InvResultCh, InvTaken, InvHeld, InvOpen,
     InvReply, Alike

\* PickWorker keeps the inductive invariant.
LEMMA PickWorkerStep ==
  ASSUME NEW r \in Reqs, NEW w \in Workers, IInv, PickWorker(r, w)
  PROVE  IInv'
<1>. USE IInv DEF IInv
<1>1. TypeOK'
  BY DispatchAssumption DEF PickWorker, connVars, netVars, retVars, TypeOK, DispatchStates
<1>2. InvEarly'
  BY DEF PickWorker, connVars, netVars, retVars, TypeOK, InvEarly, Early
<1>3. InvPool'
  BY DEF PickWorker, connVars, netVars, retVars, TypeOK, InvPool
<1>4. InvChan'
  BY DEF PickWorker, connVars, netVars, retVars, TypeOK, InvChan, InvEarly, Early
<1>5. InvHanded'
  BY DEF PickWorker, connVars, netVars, retVars, TypeOK, InvHanded
<1>6. InvToWorker'
  BY QueueTypes DEF PickWorker, connVars, netVars, retVars, TypeOK, InvToWorker
<1>7. InvWorking'
  BY DEF PickWorker, connVars, netVars, retVars, TypeOK, InvWorking
<1>8. InvVia'
  BY DEF PickWorker, connVars, netVars, retVars, TypeOK, InvVia
<1>9. InvHeld'
  BY DEF PickWorker, connVars, netVars, retVars, TypeOK, InvHeld, InvEarly, Early
<1>10. InvReply'
  BY DEF PickWorker, connVars, netVars, retVars, TypeOK, InvReply, InvEarly, Early
<1>. QED
  BY <1>1, <1>2, <1>3, <1>4, <1>5, <1>6, <1>7, <1>8, <1>9, <1>10 DEF PickWorker, connVars,
     netVars, retVars, InvFromWorker, InvResultCh, InvTaken, InvOpen

\* Push keeps the inductive invariant.
LEMMA PushStep ==
  ASSUME NEW r \in Reqs, IInv, Push(r)
  PROVE  IInv'
<1>. USE IInv DEF IInv
<1>1. workerOf[r] \in Workers /\ Handle[r] \in Funcs /\ chan[workerOf[r]][Handle[r]] \in Seq(Reqs)
  BY DispatchAssumption DEF Push, TypeOK, InvEarly, Early
<1>2. /\ Append(chan[workerOf[r]][Handle[r]], r) \in Seq(Reqs)
      /\ Range(Append(chan[workerOf[r]][Handle[r]], r)) = Range(chan[workerOf[r]][Handle[r]]) \cup {r}
      /\ IsInjective(chan[workerOf[r]][Handle[r]]) /\ r \notin Range(chan[workerOf[r]][Handle[r]]) => IsInjective(Append(chan[workerOf[r]][Handle[r]], r))
  BY <1>1, AppendQueue DEF TypeOK
<1>3. TypeOK'
  BY <1>1, <1>2, DispatchAssumption DEF Push, jobVars, connVars, netVars, retVars, TypeOK,
     DispatchStates
<1>4. InvEarly'
  <2>1. ASSUME NEW w \in Workers, NEW f \in Funcs
        PROVE  Range(chan'[w][f]) \subseteq Range(chan[w][f]) \cup {r}
    <3>1. CASE w = workerOf[r] /\ f = Handle[r]
      BY <1>1, <1>2, <3>1 DEF Push, TypeOK
    <3>2. CASE ~(w = workerOf[r] /\ f = Handle[r])
      BY <1>1, <3>2 DEF Push, TypeOK
    <3>. QED
      BY <3>1, <3>2
  <2>2. pc'[r] = "pushed" /\ \A q \in Reqs \ {r} : pc'[q] = pc[q]
    BY DEF Push, TypeOK
  <2>3. UNCHANGED <<retJob, status, replies, workerOf>>
    BY DEF Push, jobVars, retVars
  <2>4. \A q \in Reqs \ {r} : pc'[q] \in Early => \A w \in Workers, f \in Funcs : q \notin Range(chan'[w][f])
    BY <2>1, <2>2 DEF InvEarly
  <2>5. status[r] = "init" /\ replies[r] = <<>>
    BY DEF Push, InvEarly, Early
  <2>. QED
    BY <1>1, <2>2, <2>3, <2>4, <2>5 DEF InvEarly, Early
<1>5. InvPool'
  BY <1>1, <1>2 DEF Push, jobVars, connVars, netVars, retVars, TypeOK, InvPool
<1>6. InvChan'
  BY <1>1, <1>2, SMTT(30) DEF Push, jobVars, connVars, netVars, retVars, TypeOK, InvChan, InvEarly, Early
<1>7. InvHanded'
  BY <1>1, <1>2 DEF Push, jobVars, connVars, netVars, retVars, TypeOK, InvHanded
<1>8. InvToWorker'
  BY <1>1, <1>2, QueueTypes DEF Push, jobVars, connVars, netVars, retVars, TypeOK, InvToWorker
<1>9. InvWorking'
  BY <1>1, <1>2 DEF Push, jobVars, connVars, netVars, retVars, TypeOK, InvWorking
<1>10. InvVia'
  BY <1>1, <1>2 DEF Push, jobVars, connVars, netVars, retVars, TypeOK, InvVia
<1>11. InvHeld'
  BY <1>1, <1>2 DEF Push, jobVars, connVars, netVars, retVars, TypeOK, InvHeld, InvEarly, Early
<1>. QED
  BY <1>3, <1>4, <1>5, <1>6, <1>7, <1>8, <1>9, <1>10, <1>11 DEF Push, jobVars, connVars, netVars,
     retVars, InvFromWorker, InvResultCh, InvTaken, InvOpen, InvReply, Alike

\* DoWorkStart keeps the inductive invariant.
LEMMA DoWorkStartStep ==
  ASSUME NEW r \in Reqs, IInv, DoWorkStart(r)
  PROVE  IInv'
<1>. USE IInv DEF IInv
<1>1. TypeOK'
  BY DispatchAssumption DEF DoWorkStart, connVars, netVars, retVars, TypeOK, DispatchStates
<1>2. InvEarly'
  BY DEF DoWorkStart, connVars, netVars, retVars, TypeOK, InvEarly, Early
<1>3. InvPool'
  BY DEF DoWorkStart, connVars, netVars, retVars, TypeOK, InvPool
<1>4. InvChan'
  BY DEF DoWorkStart, connVars, netVars, retVars, TypeOK, InvChan
<1>5. InvHanded'
  BY DEF DoWorkStart, connVars, netVars, retVars, TypeOK, InvHanded, InvEarly, Early
<1>6. InvToWorker'
  BY QueueTypes DEF DoWorkStart, connVars, netVars, retVars, TypeOK, InvToWorker
<1>7. InvWorking'
  BY DEF DoWorkStart, connVars, netVars, retVars, TypeOK, InvWorking
<1>8. InvVia'
  BY DEF DoWorkStart, connVars, netVars, retVars, TypeOK, InvVia
<1>9. InvOpen'
  BY DEF DoWorkStart, connVars, netVars, retVars, TypeOK, InvOpen
<1>. QED
  BY <1>1, <1>2, <1>3, <1>4, <1>5, <1>6, <1>7, <1>8, <1>9 DEF DoWorkStart, connVars, netVars,
     retVars, InvFromWorker, InvResultCh, InvTaken, InvHeld, InvReply, Alike

\* DoWorkWrite keeps the inductive invariant.
LEMMA DoWorkWriteStep ==
  ASSUME NEW r \in Reqs, IInv, DoWorkWrite(r)
  PROVE  IInv'
<1>. USE IInv DEF IInv
<1>1. workerOf[r] \in Workers /\ toWorker[workerOf[r]] \in Seq(Reqs)
  BY DEF DoWorkWrite, TypeOK, InvEarly
<1>2. /\ Append(toWorker[workerOf[r]], r) \in Seq(Reqs)
      /\ Range(Append(toWorker[workerOf[r]], r)) = Range(toWorker[workerOf[r]]) \cup {r}
      /\ IsInjective(toWorker[workerOf[r]]) /\ r \notin Range(toWorker[workerOf[r]]) => IsInjective(Append(toWorker[workerOf[r]], r))
  BY <1>1, AppendQueue DEF TypeOK
<1>3. TypeOK'
  <2>1. toWorker' \in [Workers -> Seq(Reqs)]
    BY <1>1, <1>2 DEF DoWorkWrite, TypeOK
  <2>. QED
    BY <2>1 DEF DoWorkWrite, jobVars, connVars, retVars, TypeOK, DispatchStates
<1>4. InvEarly'
  BY <1>1, <1>2 DEF DoWorkWrite, jobVars, connVars, retVars, TypeOK, InvEarly, Early
<1>5. InvPool'
  BY <1>1, <1>2 DEF DoWorkWrite, jobVars, connVars, retVars, TypeOK, InvPool
<1>6. InvHanded'
  BY <1>1, <1>2 DEF DoWorkWrite, jobVars, connVars, retVars, TypeOK, InvHanded
<1>7. InvToWorker'
  <2>1. status[r] # "init" /\ via[r] = NoWorker /\ r \notin working
    BY DEF DoWorkWrite, InvHanded, InvWorking, InvVia
  <2>2. \A w \in Workers : Range(toWorker[w]) \subseteq Reqs \ {r}
    BY QueueTypes DEF DoWorkWrite, InvToWorker
  <2>3. pc'[r] = "written" /\ \A q \in Reqs \ {r} : pc'[q] = pc[q]
    BY DEF DoWorkWrite, TypeOK
  <2>4. UNCHANGED <<status, workerOf, via, working>>
    BY DEF DoWorkWrite, jobVars, retVars
  <2>5. CASE UNCHANGED toWorker
    BY <2>2, <2>3, <2>4, <2>5 DEF InvToWorker
  <2>6. CASE toWorker' = [toWorker EXCEPT ![workerOf[r]] = Append(@, r)]
    <3>1. /\ toWorker'[workerOf[r]] = Append(toWorker[workerOf[r]], r)
          /\ \A w \in Workers \ {workerOf[r]} : toWorker'[w] = toWorker[w]
      BY <1>1, <2>6 DEF TypeOK
    <3>2. ASSUME NEW w \in Workers
          PROVE  /\ IsInjective(toWorker'[w])
                 /\ \A q \in Range(toWorker'[w]) : q \in Range(toWorker[w]) \/ (q = r /\ w = workerOf[r])
      <4>1. CASE w = workerOf[r]
        <5>1. r \notin Range(toWorker[w]) /\ IsInjective(toWorker[w])
          BY <2>2 DEF InvToWorker
        <5>. QED
          BY <1>2, <3>1, <4>1, <5>1
      <4>2. CASE w # workerOf[r]
        BY <3>1, <4>2 DEF InvToWorker
      <4>. QED
        BY <4>1, <4>2
    <3>. QED
      BY <2>1, <2>2, <2>3, <2>4, <3>2 DEF InvToWorker
  <2>. QED
    BY <2>5, <2>6 DEF DoWorkWrite
<1>8. InvWorking'
  BY <1>1, <1>2 DEF DoWorkWrite, jobVars, connVars, retVars, TypeOK, InvWorking
<1>9. InvVia'
  BY <1>1, <1>2 DEF DoWorkWrite, jobVars, connVars, retVars, TypeOK, InvVia
<1>10. UNCHANGED <<chan, workerOf, status, replies, fromWorker, resultCh, rpc, via, retJob>>
  BY DEF DoWorkWrite, jobVars, retVars
<1>11. InvChan'
  BY <1>10 DEF InvChan
<1>12. InvFromWorker' /\ InvResultCh' /\ InvTaken'
  BY <1>10 DEF InvFromWorker, InvResultCh, InvTaken
<1>13. InvHeld'
  BY <1>10 DEF InvHeld
<1>14. InvOpen'
  BY <1>10 DEF InvOpen
<1>15. InvReply'
  BY <1>10 DEF InvReply, Alike
<1>. QED
  BY <1>3, <1>4, <1>5, <1>6, <1>7, <1>8, <1>9, <1>11, <1>12, <1>13, <1>14, <1>15

\* DoWorkArm keeps the inductive invariant.
LEMMA DoWorkArmStep ==
  ASSUME NEW r \in Reqs, IInv, DoWorkArm(r)
  PROVE  IInv'
<1>. USE IInv DEF IInv
<1>1. TypeOK'
  BY DispatchAssumption DEF DoWorkArm, connVars, netVars, retVars, TypeOK, DispatchStates
<1>2. InvEarly'
  BY DEF DoWorkArm, connVars, netVars, retVars, TypeOK, InvEarly, Early
<1>3. InvPool'
  BY DEF DoWorkArm, connVars, netVars, retVars, TypeOK, InvPool
<1>4. InvHanded'
  BY DEF DoWorkArm, connVars, netVars, retVars, TypeOK, InvHanded
<1>5. InvToWorker'
  BY QueueTypes DEF DoWorkArm, connVars, netVars, retVars, TypeOK, InvToWorker
<1>6. InvWorking'
  BY DEF DoWorkArm, connVars, netVars, retVars, TypeOK, InvWorking
<1>7. InvVia'
  BY DEF DoWorkArm, connVars, netVars, retVars, TypeOK, InvVia
<1>. QED
  BY <1>1, <1>2, <1>3, <1>4, <1>5, <1>6, <1>7 DEF DoWorkArm, connVars, netVars, retVars, InvChan,
     InvFromWorker, InvResultCh, InvTaken, InvHeld, InvOpen, InvReply, Alike

\* WorkerTake keeps the inductive invariant.
LEMMA WorkerTakeStep ==
  ASSUME NEW w \in Workers, IInv, WorkerTake(w)
  PROVE  IInv'
<1>. USE IInv DEF IInv
<1>1. /\ Head(toWorker[w]) \in Reqs /\ Tail(toWorker[w]) \in Seq(Reqs)
      /\ Head(toWorker[w]) \in Range(toWorker[w]) /\ Range(Tail(toWorker[w])) \subseteq Range(toWorker[w])
      /\ IsInjective(toWorker[w]) => IsInjective(Tail(toWorker[w])) /\ Head(toWorker[w]) \notin Range(Tail(toWorker[w]))
  BY TailQueue DEF TypeOK, WorkerTake
<1>2. TypeOK'
  BY <1>1, DispatchAssumption DEF WorkerTake, jobVars, connVars, retVars, TypeOK
<1>3. InvToWorker'
  BY <1>1 DEF WorkerTake, jobVars, connVars, retVars, TypeOK, InvToWorker
<1>4. InvWorking'
  BY <1>1 DEF WorkerTake, jobVars, connVars, retVars, TypeOK, InvWorking, InvToWorker
<1>. QED
  BY <1>2, <1>3, <1>4 DEF WorkerTake, jobVars, connVars, retVars, InvEarly, InvPool, InvChan,
     InvHanded, InvVia, InvFromWorker, InvResultCh, InvTaken, InvHeld, InvOpen, InvReply, Alike

\* WorkerReturn keeps the inductive invariant.
LEMMA WorkerReturnStep ==
  ASSUME NEW r \in Reqs, NEW w \in Workers, IInv, WorkerReturn(r, w)
  PROVE  IInv'
<1>. USE IInv DEF IInv
<1>1. /\ Append(fromWorker[w], r) \in Seq(Reqs)
      /\ Range(Append(fromWorker[w], r)) = Range(fromWorker[w]) \cup {r}
      /\ IsInjective(fromWorker[w]) /\ r \notin Range(fromWorker[w]) => IsInjective(Append(fromWorker[w], r))
  BY AppendQueue DEF TypeOK
<1>2. TypeOK'
  BY <1>1, DispatchAssumption DEF WorkerReturn, jobVars, connVars, TypeOK
<1>3. InvToWorker'
  BY <1>1 DEF WorkerReturn, jobVars, connVars, TypeOK, InvToWorker, InvWorking
<1>4. InvWorking'
  BY <1>1 DEF WorkerReturn, jobVars, connVars, TypeOK, InvWorking
<1>5. InvVia'
  BY <1>1 DEF WorkerReturn, jobVars, connVars, TypeOK, InvVia, InvWorking
<1>6. InvFromWorker'
  <2>1. /\ via[r] = NoWorker /\ rpc[r] = "none" /\ w # NoWorker
        /\ r \notin Range(resultCh) /\ \A v \in Workers : r \notin Range(fromWorker[v])
    BY DispatchAssumption DEF WorkerReturn, TypeOK, InvWorking, InvFromWorker, InvResultCh,
       InvTaken
  <2>2. via'[r] = w /\ \A q \in Reqs \ {r} : via'[q] = via[q]
    BY DEF WorkerReturn, TypeOK
  <2>3. fromWorker'[w] = Append(fromWorker[w], r) /\ \A v \in Workers \ {w} : fromWorker'[v] = fromWorker[v]
    BY DEF WorkerReturn, TypeOK
  <2>4. \A v \in Workers : Range(fromWorker[v]) \subseteq Reqs \ {r}
    BY <2>1, QueueTypes
  <2>. QED
    BY <1>1, <2>1, <2>2, <2>3, <2>4 DEF WorkerReturn, InvFromWorker
<1>7. InvResultCh'
  BY <1>1, QueueTypes DEF WorkerReturn, jobVars, connVars, TypeOK, InvResultCh, InvWorking
<1>8. InvTaken'
  BY <1>1 DEF WorkerReturn, jobVars, connVars, TypeOK, InvTaken, InvWorking
<1>9. InvHeld'
  BY <1>1 DEF WorkerReturn, jobVars, connVars, TypeOK, InvHeld, InvWorking, InvTaken
<1>10. InvReply'
  BY <1>1 DEF WorkerReturn, jobVars, connVars, TypeOK, InvReply, InvWorking, InvTaken, Replies
<1>. QED
  BY <1>2, <1>3, <1>4, <1>5, <1>6, <1>7, <1>8, <1>9, <1>10 DEF WorkerReturn, jobVars, connVars,
     InvEarly, InvPool, InvChan, InvHanded, InvOpen

\* WorkerFail keeps the inductive invariant.
LEMMA WorkerFailStep ==
  ASSUME NEW r \in Reqs, IInv, WorkerFail(r)
  PROVE  IInv'
<1>. USE IInv DEF IInv
<1>1. TypeOK'
  BY DispatchAssumption DEF WorkerFail, jobVars, connVars, retVars, TypeOK
<1>2. InvToWorker'
  BY DEF WorkerFail, jobVars, connVars, retVars, TypeOK, InvToWorker
<1>3. InvWorking'
  BY DEF WorkerFail, jobVars, connVars, retVars, TypeOK, InvWorking
<1>. QED
  BY <1>1, <1>2, <1>3 DEF WorkerFail, jobVars, connVars, retVars, InvEarly, InvPool, InvChan,
     InvHanded, InvVia, InvFromWorker, InvResultCh, InvTaken, InvHeld, InvOpen, InvReply, Alike

\* WorkerConnect keeps the inductive invariant.
LEMMA WorkerConnectStep ==
  ASSUME NEW w \in Workers, IInv, WorkerConnect(w)
  PROVE  IInv'
<1>. USE IInv DEF IInv
<1>1. TypeOK'
  BY DispatchAssumption DEF WorkerConnect, jobVars, netVars, retVars, TypeOK
<1>. QED
  BY <1>1 DEF WorkerConnect, jobVars, netVars, retVars, InvEarly, InvPool, InvChan, InvHanded,
     InvToWorker, InvWorking, InvVia, InvFromWorker, InvResultCh, InvTaken, InvHeld, InvOpen,
     InvReply, Alike

\* AddFunction keeps the inductive invariant.
LEMMA AddFunctionStep ==
  ASSUME NEW w \in Workers, NEW f \in Funcs, IInv, AddFunction(w, f)
  PROVE  IInv'
<1>. USE IInv DEF IInv
<1>1. TypeOK'
  BY DispatchAssumption DEF AddFunction, jobVars, netVars, retVars, TypeOK
<1>. QED
  BY <1>1 DEF AddFunction, jobVars, netVars, retVars, InvEarly, InvPool, InvChan, InvHanded,
     InvToWorker, InvWorking, InvVia, InvFromWorker, InvResultCh, InvTaken, InvHeld, InvOpen,
     InvReply, Alike

\* DelFunction keeps the inductive invariant.
LEMMA DelFunctionStep ==
  ASSUME NEW w \in Workers, NEW f \in Funcs, IInv, DelFunction(w, f)
  PROVE  IInv'
<1>. USE IInv DEF IInv
<1>1. TypeOK'
  BY DispatchAssumption DEF DelFunction, jobVars, netVars, retVars, TypeOK
<1>. QED
  BY <1>1 DEF DelFunction, jobVars, netVars, retVars, InvEarly, InvPool, InvChan, InvHanded,
     InvToWorker, InvWorking, InvVia, InvFromWorker, InvResultCh, InvTaken, InvHeld, InvOpen,
     InvReply, Alike

\* RouteResult keeps the inductive invariant.
LEMMA RouteResultStep ==
  ASSUME NEW w \in Workers, IInv, RouteResult(w)
  PROVE  IInv'
<1>. USE IInv DEF IInv
<1>1. /\ Head(fromWorker[w]) \in Reqs /\ Tail(fromWorker[w]) \in Seq(Reqs)
      /\ Head(fromWorker[w]) \in Range(fromWorker[w]) /\ Range(Tail(fromWorker[w])) \subseteq Range(fromWorker[w])
      /\ IsInjective(fromWorker[w]) => IsInjective(Tail(fromWorker[w])) /\ Head(fromWorker[w]) \notin Range(Tail(fromWorker[w]))
  BY TailQueue DEF TypeOK, RouteResult
<1>2. /\ Append(resultCh, Head(fromWorker[w])) \in Seq(Reqs)
      /\ Range(Append(resultCh, Head(fromWorker[w]))) = Range(resultCh) \cup {Head(fromWorker[w])}
      /\ IsInjective(resultCh) /\ Head(fromWorker[w]) \notin Range(resultCh) => IsInjective(Append(resultCh, Head(fromWorker[w])))
  BY <1>1, AppendQueue DEF TypeOK
<1>3. TypeOK'
  BY <1>1, <1>2, DispatchAssumption DEF RouteResult, jobVars, connVars, TypeOK
<1>4. InvFromWorker'
  <2>. DEFINE h == Head(fromWorker[w])
  <2>1. fromWorker'[w] = Tail(fromWorker[w]) /\ \A v \in Workers \ {w} : fromWorker'[v] = fromWorker[v]
    BY DEF RouteResult, TypeOK
  <2>2. ASSUME NEW v \in Workers
        PROVE  IsInjective(fromWorker'[v]) /\ Range(fromWorker'[v]) \subseteq Range(fromWorker[v]) \ {h}
    <3>1. CASE v = w
      BY <1>1, <2>1, <3>1 DEF InvFromWorker
    <3>2. CASE v # w
      <4>1. via[h] = w
        BY <1>1 DEF InvFromWorker
      <4>. QED
        BY <2>1, <3>2, <4>1 DEF InvFromWorker
    <3>. QED
      BY <3>1, <3>2
  <2>3. Range(resultCh') = Range(resultCh) \cup {h} /\ UNCHANGED <<rpc, via>>
    BY <1>2 DEF RouteResult
  <2>. HIDE DEF h
  <2>. QED
    BY <2>2, <2>3 DEF InvFromWorker
<1>5. InvResultCh'
  <2>1. /\ via[Head(fromWorker[w])] # NoWorker /\ rpc[Head(fromWorker[w])] = "none"
        /\ Head(fromWorker[w]) \notin Range(resultCh)
    BY <1>1, DispatchAssumption DEF InvFromWorker
  <2>. QED
    BY <1>2, <2>1 DEF RouteResult, InvResultCh
<1>. QED
  BY <1>3, <1>4, <1>5 DEF RouteResult, jobVars, connVars, InvEarly, InvPool, InvChan, InvHanded,
     InvToWorker, InvWorking, InvVia, InvTaken, InvHeld, InvOpen, InvReply, Alike

\* HandleSync keeps the inductive invariant.
LEMMA HandleSyncStep ==
  ASSUME NEW w \in Workers, IInv, HandleSync(w)
  PROVE  IInv'
<1>. USE IInv DEF IInv
<1>1. /\ Head(fromWorker[w]) \in Reqs /\ Tail(fromWorker[w]) \in Seq(Reqs)
      /\ Head(fromWorker[w]) \in Range(fromWorker[w]) /\ Range(Tail(fromWorker[w])) \subseteq Range(fromWorker[w])
      /\ IsInjective(fromWorker[w]) => IsInjective(Tail(fromWorker[w])) /\ Head(fromWorker[w]) \notin Range(Tail(fromWorker[w]))
  BY TailQueue DEF TypeOK, HandleSync
<1>2. TypeOK'
  BY <1>1, DispatchAssumption DEF HandleSync, jobVars, connVars, TypeOK, ReturnStates
<1>3. InvFromWorker'
  <2>. DEFINE h == Head(fromWorker[w])
  <2>1. fromWorker'[w] = Tail(fromWorker[w]) /\ \A v \in Workers \ {w} : fromWorker'[v] = fromWorker[v]
    BY DEF HandleSync, TypeOK
  <2>2. ASSUME NEW v \in Workers
        PROVE  IsInjective(fromWorker'[v]) /\ Range(fromWorker'[v]) \subseteq Range(fromWorker[v]) \ {h}
    <3>1. CASE v = w
      BY <1>1, <2>1, <3>1 DEF InvFromWorker
    <3>2. CASE v # w
      <4>1. via[h] = w
        BY <1>1 DEF InvFromWorker
      <4>. QED
        BY <2>1, <3>2, <4>1 DEF InvFromWorker
    <3>. QED
      BY <3>1, <3>2
  <2>3. \A q \in Reqs \ {h} : rpc'[q] = rpc[q]
    BY <1>1 DEF HandleSync, TypeOK
  <2>4. UNCHANGED <<resultCh, via>>
    BY DEF HandleSync
  <2>. HIDE DEF h
  <2>. QED
    BY <2>2, <2>3, <2>4, QueueTypes DEF InvFromWorker
<1>4. InvResultCh'
  BY <1>1, QueueTypes DEF HandleSync, jobVars, connVars, TypeOK, InvResultCh, InvFromWorker
<1>5. InvTaken'
  BY <1>1, DispatchAssumption, SMTT(30) DEF HandleSync, TypeOK, InvTaken, InvFromWorker
<1>6. InvHeld'
  BY <1>1 DEF HandleSync, jobVars, connVars, TypeOK, InvHeld, InvFromWorker
<1>7. InvOpen'
  BY <1>1 DEF HandleSync, jobVars, connVars, TypeOK, InvOpen, InvFromWorker
<1>8. InvReply'
  BY <1>1 DEF HandleSync, jobVars, connVars, TypeOK, InvReply, InvFromWorker, Replies
<1>. QED
  BY <1>2, <1>3, <1>4, <1>5, <1>6, <1>7, <1>8 DEF HandleSync, jobVars, connVars, InvEarly,
     InvPool, InvChan, InvHanded, InvToWorker, InvWorking, InvVia

\* WriteLoopFails keeps the inductive invariant.
LEMMA WriteLoopFailsStep ==
  ASSUME NEW w \in Workers, IInv, WriteLoopFails(w)
  PROVE  IInv'
<1>. USE IInv DEF IInv
<1>1. <<>> \in Seq(Reqs) /\ Range(<<>>) = {} /\ IsInjective(<<>>)
  BY EmptyQueue
<1>2. TypeOK'
  BY <1>1, DispatchAssumption DEF WriteLoopFails, jobVars, retVars, TypeOK
<1>3. InvToWorker'
  BY <1>1 DEF WriteLoopFails, jobVars, retVars, TypeOK, InvToWorker
<1>. QED
  BY <1>2, <1>3 DEF WriteLoopFails, jobVars, retVars, InvEarly, InvPool, InvChan, InvHanded,
     InvWorking, InvVia, InvFromWorker, InvResultCh, InvTaken, InvHeld, InvOpen, InvReply, Alike

\* DoIOClose keeps the inductive invariant.
LEMMA DoIOCloseStep ==
  ASSUME NEW w \in Workers, IInv, DoIOClose(w)
  PROVE  IInv'
<1>. USE IInv DEF IInv
<1>1. <<>> \in Seq(Reqs) /\ Range(<<>>) = {} /\ IsInjective(<<>>)
  BY EmptyQueue
<1>2. TypeOK'
  BY <1>1, DispatchAssumption DEF DoIOClose, LoseFrames, jobVars, retVars, TypeOK
<1>3. InvToWorker'
  BY <1>1 DEF DoIOClose, LoseFrames, jobVars, retVars, TypeOK, InvToWorker
<1>4. InvFromWorker'
  BY <1>1 DEF DoIOClose, LoseFrames, jobVars, retVars, TypeOK, InvFromWorker
<1>5. UNCHANGED <<pc, jobCh, jobVars, chan, working, retVars, replies>>
  BY DEF DoIOClose, LoseFrames
<1>6. InvEarly' /\ InvPool' /\ InvChan' /\ InvHanded'
  BY <1>5 DEF jobVars, retVars, InvEarly, InvPool, InvChan, InvHanded
<1>7. InvWorking' /\ InvVia' /\ InvResultCh' /\ InvTaken'
  BY <1>5 DEF jobVars, retVars, InvWorking, InvVia, InvResultCh, InvTaken
<1>8. InvHeld' /\ InvOpen' /\ InvReply'
  BY <1>5 DEF jobVars, retVars, InvHeld, InvOpen, InvReply, Alike
<1>. QED
  BY <1>2, <1>3, <1>4, <1>6, <1>7, <1>8

\* DoIOCloseStale keeps the inductive invariant.
LEMMA DoIOCloseStaleStep ==
  ASSUME NEW w \in Workers, IInv, DoIOCloseStale(w)
  PROVE  IInv'
<1>. USE IInv DEF IInv
<1>1. <<>> \in Seq(Reqs) /\ Range(<<>>) = {} /\ IsInjective(<<>>)
  BY EmptyQueue
<1>2. TypeOK'
  BY <1>1, DispatchAssumption DEF DoIOCloseStale, LoseFrames, jobVars, retVars, TypeOK
<1>3. InvToWorker'
  BY <1>1 DEF DoIOCloseStale, LoseFrames, jobVars, retVars, TypeOK, InvToWorker
<1>4. InvFromWorker'
  BY <1>1 DEF DoIOCloseStale, LoseFrames, jobVars, retVars, TypeOK, InvFromWorker
<1>5. UNCHANGED <<pc, jobCh, jobVars, chan, working, retVars, replies>>
  BY DEF DoIOCloseStale, LoseFrames
<1>6. InvEarly' /\ InvPool' /\ InvChan' /\ InvHanded'
  BY <1>5 DEF jobVars, retVars, InvEarly, InvPool, InvChan, InvHanded
<1>7. InvWorking' /\ InvVia' /\ InvResultCh' /\ InvTaken'
  BY <1>5 DEF jobVars, retVars, InvWorking, InvVia, InvResultCh, InvTaken
<1>8. InvHeld' /\ InvOpen' /\ InvReply'
  BY <1>5 DEF jobVars, retVars, InvHeld, InvOpen, InvReply, Alike
<1>. QED
  BY <1>2, <1>3, <1>4, <1>6, <1>7, <1>8

\* ClientClose keeps the inductive invariant.
LEMMA ClientCloseStep ==
  ASSUME NEW c \in Clients, IInv, ClientClose(c)
  PROVE  IInv'
<1>. USE IInv DEF IInv
<1>1. TypeOK'
  BY DispatchAssumption DEF ClientClose, jobVars, connVars, netVars, retVars, TypeOK
<1>2. UNCHANGED <<pc, jobCh, jobVars, chan, netVars, retVars, replies>>
  BY DEF ClientClose
<1>3. InvEarly' /\ InvPool' /\ InvChan' /\ InvHanded'
  BY <1>2 DEF jobVars, retVars, InvEarly, InvPool, InvChan, InvHanded
<1>4. InvToWorker' /\ InvWorking' /\ InvVia' /\ InvFromWorker' /\ InvResultCh' /\ InvTaken'
  BY <1>2 DEF jobVars, netVars, retVars, InvToWorker, InvWorking, InvVia, InvFromWorker,
     InvResultCh, InvTaken
<1>5. InvHeld' /\ InvOpen' /\ InvReply'
  BY <1>2 DEF jobVars, retVars, InvHeld, InvOpen, InvReply, Alike
<1>. QED
  BY <1>1, <1>3, <1>4, <1>5

\* RouterTake keeps the inductive invariant.
LEMMA RouterTakeStep ==
  ASSUME IInv, RouterTake
  PROVE  IInv'
<1>. USE IInv DEF IInv
<1>1. /\ Head(resultCh) \in Reqs /\ Tail(resultCh) \in Seq(Reqs)
      /\ Head(resultCh) \in Range(resultCh) /\ Range(Tail(resultCh)) \subseteq Range(resultCh)
      /\ IsInjective(resultCh) => IsInjective(Tail(resultCh)) /\ Head(resultCh) \notin Range(Tail(resultCh))
  BY TailQueue DEF TypeOK, RouterTake
<1>2. TypeOK'
  BY <1>1, DispatchAssumption DEF RouterTake, jobVars, connVars, netVars, TypeOK, ReturnStates
<1>3. InvFromWorker'
  BY <1>1, QueueTypes DEF RouterTake, jobVars, connVars, netVars, TypeOK, InvFromWorker,
     InvResultCh
<1>4. InvResultCh'
  BY <1>1, QueueTypes DEF RouterTake, jobVars, connVars, netVars, TypeOK, InvResultCh
<1>5. InvTaken'
  BY <1>1 DEF RouterTake, jobVars, connVars, netVars, TypeOK, InvTaken, InvResultCh
<1>6. InvHeld'
  BY <1>1 DEF RouterTake, jobVars, connVars, netVars, TypeOK, InvHeld, InvResultCh
<1>7. InvOpen'
  BY <1>1 DEF RouterTake, jobVars, connVars, netVars, TypeOK, InvOpen, InvResultCh
<1>8. InvReply'
  BY <1>1 DEF RouterTake, jobVars, connVars, netVars, TypeOK, InvReply, InvResultCh, Replies
<1>. QED
  BY <1>2, <1>3, <1>4, <1>5, <1>6, <1>7, <1>8 DEF RouterTake, jobVars, connVars, netVars,
     InvEarly, InvPool, InvChan, InvHanded, InvToWorker, InvWorking, InvVia

\* PopJob keeps the inductive invariant.
LEMMA PopJobStep ==
  ASSUME NEW r \in Reqs, IInv, PopJob(r)
  PROVE  IInv'
<1>. USE IInv DEF IInv
<1>1. via[r] \in Workers /\ Handle[r] \in Funcs /\ chan[via[r]][Handle[r]] \in Seq(Reqs)
  BY DEF PopJob, TypeOK, InvTaken, InvVia, InvHanded
<1>2. /\ Head(chan[via[r]][Handle[r]]) \in Reqs /\ Tail(chan[via[r]][Handle[r]]) \in Seq(Reqs)
      /\ Head(chan[via[r]][Handle[r]]) \in Range(chan[via[r]][Handle[r]]) /\ Range(Tail(chan[via[r]][Handle[r]])) \subseteq Range(chan[via[r]][Handle[r]])
      /\ IsInjective(chan[via[r]][Handle[r]]) => IsInjective(Tail(chan[via[r]][Handle[r]])) /\ Head(chan[via[r]][Handle[r]]) \notin Range(Tail(chan[via[r]][Handle[r]]))
  BY <1>1, TailQueue DEF TypeOK, PopJob
<1>3. TypeOK'
  BY <1>1, <1>2, DispatchAssumption DEF PopJob, jobVars, connVars, netVars, TypeOK, ReturnStates
<1>4. InvEarly'
  BY <1>1, <1>2, SMTT(30) DEF PopJob, jobVars, connVars, netVars, TypeOK, InvEarly, Early
<1>5. InvChan'
  <2>1. ASSUME NEW w \in Workers, NEW f \in Funcs
        PROVE  Range(chan'[w][f]) \subseteq Range(chan[w][f]) /\ IsInjective(chan'[w][f])
    <3>1. CASE w = via[r] /\ f = Handle[r]
      <4>1. chan'[w][f] = Tail(chan[w][f])
        BY <1>1, <3>1 DEF PopJob, TypeOK
      <4>. QED
        BY <1>2, <3>1, <4>1 DEF InvChan
    <3>2. CASE ~(w = via[r] /\ f = Handle[r])
      <4>1. chan'[w][f] = chan[w][f]
        BY <1>1, <3>2 DEF PopJob, TypeOK
      <4>. QED
        BY <4>1 DEF InvChan
    <3>. QED
      BY <3>1, <3>2
  <2>. QED
    BY <2>1 DEF PopJob, jobVars, InvChan
<1>6. InvFromWorker'
  BY <1>1, <1>2 DEF PopJob, jobVars, connVars, netVars, TypeOK, InvFromWorker
<1>7. InvResultCh'
  BY <1>1, <1>2 DEF PopJob, jobVars, connVars, netVars, TypeOK, InvResultCh
<1>8. InvTaken'
  BY <1>1, <1>2 DEF PopJob, jobVars, connVars, netVars, TypeOK, InvTaken
<1>9. InvHeld'
  <2>. DEFINE j == Head(chan[via[r]][Handle[r]])
  <2>1. j \in Reqs /\ j # NoReq /\ workerOf[j] = via[r] /\ Handle[j] = Handle[r]
    BY <1>1, <1>2, DispatchAssumption DEF InvChan
  <2>2. ASSUME NEW w \in Workers, NEW f \in Funcs
        PROVE  Range(chan'[w][f]) \subseteq Range(chan[w][f]) /\ j \notin Range(chan'[w][f])
    <3>1. CASE w = via[r] /\ f = Handle[r]
      <4>1. chan'[w][f] = Tail(chan[w][f])
        BY <1>1, <3>1 DEF PopJob, TypeOK
      <4>. QED
        BY <1>1, <1>2, <3>1, <4>1 DEF InvChan
    <3>2. CASE ~(w = via[r] /\ f = Handle[r])
      <4>1. chan'[w][f] = chan[w][f]
        BY <1>1, <3>2 DEF PopJob, TypeOK
      <4>. QED
        BY <1>1, <2>1, <3>2, <4>1 DEF InvChan
    <3>. QED
      BY <3>1, <3>2
  <2>3. \A q \in Reqs : retJob[q] # j
    BY <1>1, <1>2, <2>1 DEF InvHeld
  <2>4. /\ retJob'[r] = j /\ \A q \in Reqs \ {r} : retJob'[q] = retJob[q]
        /\ rpc'[r] = "status" /\ \A q \in Reqs \ {r} : rpc'[q] = rpc[q]
        /\ UNCHANGED <<workerOf, via>>
    BY DEF PopJob, jobVars, TypeOK
  <2>. HIDE DEF j
  <2>. QED
    BY <2>1, <2>2, <2>3, <2>4 DEF InvHeld
<1>10. InvOpen'
  BY <1>1, <1>2 DEF PopJob, jobVars, connVars, netVars, TypeOK, InvOpen, InvChan
<1>11. InvReply'
  BY <1>1, <1>2 DEF PopJob, jobVars, connVars, netVars, TypeOK, InvReply
<1>. QED
  BY <1>3, <1>4, <1>5, <1>6, <1>7, <1>8, <1>9, <1>10, <1>11 DEF PopJob, jobVars, connVars,
     netVars, InvPool, InvHanded, InvToWorker, InvWorking, InvVia

\* PopTimeout keeps the inductive invariant.
LEMMA PopTimeoutStep ==
  ASSUME NEW r \in Reqs, IInv, PopTimeout(r)
  PROVE  IInv'
<1>. USE IInv DEF IInv
<1>1. TypeOK'
  BY DispatchAssumption DEF PopTimeout, jobVars, connVars, netVars, TypeOK, ReturnStates
<1>2. InvFromWorker'
  BY DEF PopTimeout, jobVars, connVars, netVars, TypeOK, InvFromWorker
<1>3. InvResultCh'
  BY DEF PopTimeout, jobVars, connVars, netVars, TypeOK, InvResultCh
<1>4. InvTaken'
  BY DEF PopTimeout, jobVars, connVars, netVars, TypeOK, InvTaken
<1>5. InvHeld'
  BY DEF PopTimeout, jobVars, connVars, netVars, TypeOK, InvHeld
<1>6. InvOpen'
  BY DEF PopTimeout, jobVars, connVars, netVars, TypeOK, InvOpen
<1>7. InvReply'
  BY DEF PopTimeout, jobVars, connVars, netVars, TypeOK, InvReply
<1>. QED
  BY <1>1, <1>2, <1>3, <1>4, <1>5, <1>6, <1>7 DEF PopTimeout, jobVars, connVars, netVars,
     InvEarly, InvPool, InvChan, InvHanded, InvToWorker, InvWorking, InvVia

\* CheckStatus keeps the inductive invariant.
LEMMA CheckStatusStep ==
  ASSUME NEW r \in Reqs, IInv, CheckStatus(r)
  PROVE  IInv'
<1>. USE IInv DEF IInv
<1>1. TypeOK'
  BY DispatchAssumption DEF CheckStatus, jobVars, connVars, netVars, TypeOK, ReturnStates
<1>2. InvFromWorker'
  BY DEF CheckStatus, jobVars, connVars, netVars, TypeOK, InvFromWorker
<1>3. InvResultCh'
  BY DEF CheckStatus, jobVars, connVars, netVars, TypeOK, InvResultCh
<1>4. InvTaken'
  BY DEF CheckStatus, jobVars, connVars, netVars, TypeOK, InvTaken
<1>5. InvHeld'
  BY DEF CheckStatus, jobVars, connVars, netVars, TypeOK, InvHeld
<1>6. InvOpen'
  BY DEF CheckStatus, jobVars, connVars, netVars, TypeOK, InvOpen
<1>7. InvReply'
  BY DEF CheckStatus, jobVars, connVars, netVars, TypeOK, InvReply
<1>. QED
  BY <1>1, <1>2, <1>3, <1>4, <1>5, <1>6, <1>7 DEF CheckStatus, jobVars, connVars, netVars,
     InvEarly, InvPool, InvChan, InvHanded, InvToWorker, InvWorking, InvVia

\* Finish keeps the inductive invariant.
LEMMA FinishStep ==
  ASSUME NEW r \in Reqs, IInv, Finish(r)
  PROVE  IInv'
<1>. USE IInv DEF IInv
<1>1. /\ retJob[r] \in Reqs /\ replies[retJob[r]] = <<>> /\ status[retJob[r]] = "doing"
      /\ retJob[r] # NoReq
  BY DispatchAssumption DEF Finish, InvOpen
<1>2. /\ replies' \in [Reqs -> Seq(Replies)]
      /\ \A q \in Reqs \ {retJob[r]} : replies'[q] = replies[q]
      /\ replies'[retJob[r]] # <<>> => /\ Len(replies'[retJob[r]]) = 1
                              /\ replies'[retJob[r]][1] = [kind |-> "RETURN_DATA", ret |-> r]
  BY <1>1, ClientWriteEffect DEF Finish, ReplyKinds
<1>3. TypeOK'
  BY <1>1, <1>2, DispatchAssumption DEF Finish, connVars, netVars, TypeOK, ReturnStates
<1>4. InvEarly'
  BY <1>1, <1>2 DEF Finish, connVars, netVars, TypeOK, InvEarly, Early, InvHeld
<1>5. InvChan'
  <2>1. \A w \in Workers, f \in Funcs : Range(chan[w][f]) \subseteq Reqs \ {retJob[r]}
    BY <1>1, QueueTypes DEF InvHeld
  <2>2. \A q \in Reqs \ {retJob[r]} : status'[q] = status[q] /\ replies'[q] = replies[q]
    BY <1>1, <1>2 DEF Finish, TypeOK
  <2>. QED
    BY <2>1, <2>2 DEF Finish, InvChan
<1>6. InvHanded'
  BY <1>1, <1>2 DEF Finish, connVars, netVars, TypeOK, InvHanded
<1>7. InvToWorker'
  BY <1>1, <1>2, QueueTypes DEF Finish, connVars, netVars, TypeOK, InvToWorker
<1>8. InvWorking'
  BY <1>1, <1>2 DEF Finish, connVars, netVars, TypeOK, InvWorking
<1>9. InvVia'
  BY <1>1, <1>2 DEF Finish, connVars, netVars, TypeOK, InvVia
<1>10. InvFromWorker'
  BY <1>1, <1>2 DEF Finish, connVars, netVars, TypeOK, InvFromWorker
<1>11. InvResultCh'
  BY <1>1, <1>2 DEF Finish, connVars, netVars, TypeOK, InvResultCh
<1>12. InvTaken'
  BY <1>1, <1>2 DEF Finish, connVars, netVars, TypeOK, InvTaken
<1>13. InvHeld'
  BY <1>1, <1>2 DEF Finish, connVars, netVars, TypeOK, InvHeld
<1>14. InvOpen'
  BY <1>1, <1>2 DEF Finish, connVars, netVars, TypeOK, InvOpen, InvHeld
<1>15. InvReply'
  <2>. DEFINE j == retJob[r]
  <2>1. rpc'[r] = "end" /\ \A q \in Reqs \ {r} : rpc'[q] = rpc[q]
    BY DEF Finish, TypeOK
  <2>2. Alike(j, r) /\ workerOf[j] = via[r] /\ UNCHANGED <<workerOf, via>>
    BY <1>1 DEF Finish, Completes, InvHeld
  <2>3. [kind |-> "RETURN_DATA", ret |-> r].kind = "RETURN_DATA" /\ [kind |-> "RETURN_DATA", ret |-> r].ret = r
    OBVIOUS
  <2>4. \A q \in Reqs : replies[q] # <<>> /\ replies[q][1].kind = "RETURN_DATA" => rpc'[replies[q][1].ret] = "end"
    BY DEF InvReply, Finish, TypeOK
  <2>. HIDE DEF j
  <2>. QED
    BY <1>1, <1>2, <2>1, <2>2, <2>3, <2>4 DEF InvReply, Alike, j
<1>. QED
  BY <1>3, <1>4, <1>5, <1>6, <1>7, <1>8, <1>9, <1>10, <1>11, <1>12, <1>13, <1>14,
     <1>15 DEF Finish, connVars, netVars, InvPool

\* DropResult keeps the inductive invariant.
LEMMA DropResultStep ==
  ASSUME NEW r \in Reqs, IInv, DropResult(r)
  PROVE  IInv'
<1>. USE IInv DEF IInv
<1>1. TypeOK'
  BY DispatchAssumption DEF DropResult, jobVars, connVars, netVars, TypeOK, ReturnStates
<1>2. InvFromWorker'
  BY DEF DropResult, jobVars, connVars, netVars, TypeOK, InvFromWorker
<1>3. InvResultCh'
  BY DEF DropResult, jobVars, connVars, netVars, TypeOK, InvResultCh
<1>4. InvTaken'
  BY DEF DropResult, jobVars, connVars, netVars, TypeOK, InvTaken
<1>5. InvHeld'
  BY DEF DropResult, jobVars, connVars, netVars, TypeOK, InvHeld
<1>6. InvOpen'
  BY DEF DropResult, jobVars, connVars, netVars, TypeOK, InvOpen
<1>7. InvReply'
  BY DEF DropResult, jobVars, connVars, netVars, TypeOK, InvReply
<1>. QED
  BY <1>1, <1>2, <1>3, <1>4, <1>5, <1>6, <1>7 DEF DropResult, jobVars, connVars, netVars,
     InvEarly, InvPool, InvChan, InvHanded, InvToWorker, InvWorking, InvVia
-----------------------------------------------------------------------------
\* The invariant holds when the server starts.
LEMMA InitIInv == Init => IInv
<1>. SUFFICES ASSUME Init PROVE IInv
  OBVIOUS
<1>1. TypeOK
  BY EmptySeq DEF Init, TypeOK, DispatchStates, ReturnStates
<1>2. InvEarly
  <2>1. /\ \A r \in Reqs : /\ pc[r] = "unsent" /\ status[r] = "init" /\ replies[r] = <<>>
                           /\ workerOf[r] = NoWorker /\ retJob[r] = NoReq
        /\ \A w \in Workers, f \in Funcs : Range(chan[w][f]) = {}
    BY EmptyQueue DEF Init
  <2>. QED
    BY <2>1, DispatchAssumption DEF InvEarly, Early
<1>3. InvPool /\ InvChan /\ InvToWorker /\ InvFromWorker /\ InvResultCh
  BY EmptyQueue DEF Init, InvPool, InvChan, InvToWorker, InvFromWorker, InvResultCh
<1>4. InvHanded /\ InvWorking /\ InvVia /\ InvTaken /\ InvHeld /\ InvOpen /\ InvReply
  BY DEF Init, InvHanded, InvWorking, InvVia, InvTaken, InvHeld, InvOpen, InvReply
<1>. QED
  BY <1>1, <1>2, <1>3, <1>4 DEF IInv

\* Every step of every goroutine keeps it.
LEMMA NextIInv == IInv /\ [Next]_vars => IInv'
<1>. SUFFICES ASSUME IInv, [Next]_vars PROVE IInv'
  OBVIOUS
<1>1. CASE Take
  BY <1>1, TakeStep
<1>2. CASE RouterTake
  BY <1>2, RouterTakeStep
<1>3. ASSUME NEW r \in Reqs, ClientStep(r) PROVE IInv'
  <2>1. CASE RejectInvalid(r)
    BY <2>1, RefusalStep DEF RejectInvalid, ReplyKinds
  <2>2. CASE Submit(r)
    BY <2>2, SubmitStep
  <2>3. CASE RateLimit(r)
    BY <2>3, RefusalStep DEF RateLimit, ReplyKinds
  <2>. QED
    BY <1>3, <2>1, <2>2, <2>3 DEF ClientStep
<1>4. ASSUME NEW r \in Reqs, DispatchStep(r) PROVE IInv'
  <2>1. CASE NoBestWorker(r)
    BY <2>1, RefusalStep DEF NoBestWorker, ReplyKinds
  <2>2. CASE PushTimeout(r)
    BY <2>2, RefusalStep DEF PushTimeout, ReplyKinds
  <2>. QED
    BY <1>4, <2>1, <2>2, CleanStaleStep, PickWorkerStep, PushStep, DoWorkStartStep,
       DoWorkWriteStep,
       DoWorkArmStep DEF DispatchStep
<1>5. ASSUME NEW r \in Reqs, ReturnStep(r) PROVE IInv'
  BY <1>5, PopJobStep, PopTimeoutStep, CheckStatusStep, FinishStep, DropResultStep DEF ReturnStep
<1>6. ASSUME NEW r \in Reqs, WorkerStep(r) PROVE IInv'
  BY <1>6, WorkerFailStep, WorkerReturnStep DEF WorkerStep
<1>7. ASSUME NEW w \in Workers, ConnStep(w) PROVE IInv'
  BY <1>7, WorkerConnectStep, WorkerTakeStep, RouteResultStep, HandleSyncStep, WriteLoopFailsStep,
     DoIOCloseStep, DoIOCloseStaleStep, AddFunctionStep, DelFunctionStep DEF ConnStep
<1>8. ASSUME NEW c \in Clients, ClientClose(c) PROVE IInv'
  BY <1>8, ClientCloseStep
<1>9. CASE UNCHANGED vars
  BY <1>9 DEF vars, jobVars, connVars, netVars, retVars, IInv, TypeOK, InvEarly, InvPool, InvChan,
     InvHanded, InvToWorker, InvWorking, InvVia, InvFromWorker, InvResultCh, InvTaken, InvHeld,
     InvOpen, InvReply
<1>. QED
  BY <1>1, <1>2, <1>3, <1>4, <1>5, <1>6, <1>7, <1>8, <1>9 DEF Next

\* The inductive invariant holds in every reachable state.
THEOREM Invariance == Spec => []IInv
  BY InitIInv, NextIInv, PTL DEF Spec

\* The server's queues, jobs and replies keep their types.
THEOREM TypeCorrectness == Spec => []TypeOK
<1>1. IInv => TypeOK
  BY DEF IInv
<1>. QED
  BY <1>1, Invariance, PTL

\* No request is answered twice, for any number of clients, workers, pool and
\* router goroutines and any capacity of the channels.
THEOREM AnsweredAtMostOnce == Spec => []AtMostOneReply
<1>1. IInv => AtMostOneReply
  <2>. SUFFICES ASSUME IInv, NEW r \in Reqs PROVE Len(replies[r]) <= 1
    BY DEF AtMostOneReply
  <2>1. CASE replies[r] = <<>>
    BY <2>1
  <2>2. CASE replies[r] # <<>>
    <3>1. Len(replies[r]) = 1
      BY <2>2 DEF IInv, InvReply
    <3>. QED
      BY <3>1
  <2>. QED
    BY <2>1, <2>2
<1>. QED
  BY <1>1, Invariance, PTL

\* No job is in two channel slots, in a channel and with a returnData, or with
\* two returnData at once.
THEOREM HeldOnce == Spec => []JobHeldOnce
<1>1. IInv => JobHeldOnce
  <2>. SUFFICES ASSUME IInv PROVE JobHeldOnce
    OBVIOUS
  <2>1. \A w \in Workers, f \in Funcs : IsInjective(chan[w][f])
    BY DEF IInv, InvChan
  <2>2. \A w \in Workers, f \in Funcs : NoReq \notin Range(chan[w][f])
    BY QueueTypes, DispatchAssumption DEF IInv
  <2>. QED
    BY <2>1, <2>2 DEF IInv, InvHeld, JobHeldOnce, Returning
<1>. QED
  BY <1>1, Invariance, PTL

\* Whatever job's result a client is given, it is a result of the function it
\* asked for, for parameters of the same length, from the process it was sent to.
THEOREM ReturnsAreConfined == Spec => []ReturnConfined
<1>1. IInv => ReturnConfined
  <2>. SUFFICES ASSUME IInv, NEW r \in Reqs, NEW i \in DOMAIN replies[r],
                       replies[r][i].kind = "RETURN_DATA"
                PROVE  /\ Alike(r, replies[r][i].ret)
                       /\ Proc[workerOf[replies[r][i].ret]] = Proc[workerOf[r]]
    BY DEF ReturnConfined
  <2>1. replies[r] \in Seq(Replies)
    BY DEF IInv, TypeOK
  <2>2. DOMAIN replies[r] = 1..Len(replies[r]) /\ replies[r] # <<>>
    BY <2>1, LenProperties, EmptySeq
  <2>3. i = 1
    BY <2>2 DEF IInv, InvReply
  <2>4. /\ replies[r][1].ret \in Reqs /\ rpc[replies[r][1].ret] = "end"
        /\ Alike(r, replies[r][1].ret)
        /\ workerOf[r] = via[replies[r][1].ret]
    BY <2>2, <2>3 DEF IInv, InvReply
  <2>5. /\ via[replies[r][1].ret] # NoWorker
        /\ Proc[via[replies[r][1].ret]] = Proc[workerOf[replies[r][1].ret]]
    BY <2>4 DEF IInv, InvTaken, InvVia
  <2>. QED
    BY <2>3, <2>4, <2>5
<1>. QED
  BY <1>1, Invariance, PTL

-----------------------------------------------------------------------------
(* One client that waits for each answer is given its own results.         *)

\* A refusal by the server keeps AloneInv: the refused request was not handed out.
LEMMA AloneRefusal ==
  ASSUME IInv, AloneInv, NEW r \in Reqs, pc[r] \in {"unsent", "running", "pushing"},
         NEW kind \in ReplyKinds \ {"RETURN_DATA"}, ClientWrite(r, kind, NoReq),
         \A q \in Reqs \ {r} : pc[r] = "unsent" /\ pc[q] # "unsent" => replies[q] # <<>>,
         pc' = [pc EXCEPT ![r] = "gone"], UNCHANGED <<status, retJob>>
  PROVE  AloneInv'
<1>. USE AloneInv DEF AloneInv
<1>1. replies[r] = <<>> /\ status[r] = "init"
  BY DEF IInv, InvEarly, Early
<1>2. /\ \A q \in Reqs \ {r} : replies'[q] = replies[q]
      /\ replies'[r] # <<>> => replies'[r][1] = [kind |-> kind, ret |-> NoReq]
  BY <1>1, ClientWriteEffect DEF IInv
<1>3. [kind |-> kind, ret |-> NoReq].kind # "RETURN_DATA"
  OBVIOUS
<1>4. InvInFlight'
  BY <1>1, <1>2 DEF InvInFlight, IInv, TypeOK
<1>5. InvAnswer'
  BY <1>1, <1>2, <1>3 DEF InvAnswer
<1>6. InvOwn'
  BY DEF InvOwn
<1>. QED
  BY <1>4, <1>5, <1>6

\* A result that returnData is about to match belongs to an unanswered request.
LEMMA ResultUnanswered ==
  ASSUME IInv, AloneInv, NEW r \in Reqs, rpc[r] = "pop"
  PROVE  replies[r] = <<>> /\ pc[r] # "unsent"
<1>1. pc[r] # "unsent" /\ status[r] # "init"
  BY DEF IInv, InvTaken, InvVia
<1>2. ASSUME replies[r] # <<>> PROVE FALSE
  <2>1. replies[r][1].kind = "RETURN_DATA" /\ replies[r][1].ret = r
    BY <1>1, <1>2 DEF AloneInv, InvAnswer
  <2>2. rpc[replies[r][1].ret] = "end"
    BY <1>2, <2>1 DEF IInv, InvReply
  <2>. QED
    BY <2>1, <2>2
<1>. QED
  BY <1>1, <1>2

\* PopJob keeps AloneInv: job and result are both unanswered, hence the same.
LEMMA AlonePop ==
  ASSUME IInv, AloneInv, NEW r \in Reqs, PopJob(r)
  PROVE  AloneInv'
<1>. DEFINE j == Head(chan[via[r]][Handle[r]])
<1>1. rpc[r] = "pop" /\ via[r] \in Workers /\ Handle[r] \in Funcs
  BY DEF PopJob, IInv, TypeOK, InvTaken, InvVia, InvHanded
<1>2. chan[via[r]][Handle[r]] \in Seq(Reqs) /\ chan[via[r]][Handle[r]] # <<>>
  BY <1>1 DEF PopJob, IInv, TypeOK
<1>3. j \in Range(chan[via[r]][Handle[r]]) /\ j \in Reqs
  BY <1>2, TailRange, RangeOfSeq
<1>4. replies[j] = <<>> /\ pc[j] # "unsent"
  BY <1>1, <1>3 DEF IInv, InvChan, InvEarly, Early
<1>5. j = r
  BY <1>1, <1>3, <1>4, ResultUnanswered DEF AloneInv, InvInFlight
<1>6. retJob' = [retJob EXCEPT ![r] = r] /\ UNCHANGED <<pc, status, replies>>
  BY <1>5 DEF PopJob, jobVars
<1>. QED
  BY <1>6 DEF AloneInv, InvInFlight, InvAnswer, InvOwn, IInv, TypeOK

\* Finish keeps AloneInv: the result at hand answers its own request.
LEMMA AloneFinish ==
  ASSUME IInv, AloneInv, NEW r \in Reqs, Finish(r)
  PROVE  AloneInv'
<1>1. retJob[r] = r /\ replies[r] = <<>>
  BY DispatchAssumption DEF Finish, AloneInv, InvOwn, IInv, InvOpen
<1>2. /\ \A q \in Reqs \ {r} : replies'[q] = replies[q]
      /\ replies'[r] # <<>> => replies'[r][1] = [kind |-> "RETURN_DATA", ret |-> r]
  <2>1. "RETURN_DATA" \in ReplyKinds /\ ClientWrite(r, "RETURN_DATA", r)
    BY <1>1 DEF Finish, ReplyKinds
  <2>. QED
    BY <1>1, <2>1, ClientWriteEffect DEF IInv
<1>3. UNCHANGED <<pc, retJob>> /\ status' = [status EXCEPT ![r] = "done"]
  BY <1>1 DEF Finish
<1>4. InvInFlight'
  BY <1>1, <1>2, <1>3 DEF AloneInv, InvInFlight
<1>5. InvAnswer'
  BY <1>2, <1>3 DEF AloneInv, InvAnswer, IInv, TypeOK
<1>6. InvOwn'
  BY <1>3 DEF AloneInv, InvOwn
<1>. QED
  BY <1>4, <1>5, <1>6 DEF AloneInv

\* What MaySend gives when there is one caller.
LEMMA AloneSend ==
  ASSUME OneCaller, NEW r \in Reqs, MaySend(r)
  PROVE  \A q \in Reqs : pc[q] # "unsent" => replies[q] # <<>>
  BY DEF OneCaller, MaySend

\* With one caller every step keeps AloneInv.
LEMMA AloneNext == OneCaller /\ IInv /\ AloneInv /\ [Next]_vars => AloneInv'
<1>. SUFFICES ASSUME OneCaller, IInv, AloneInv, [Next]_vars PROVE AloneInv'
  OBVIOUS
<1>0. ASSUME UNCHANGED <<status, retJob, replies>>,
             \A q \in Reqs : pc'[q] # "unsent" => pc[q] # "unsent"
      PROVE  AloneInv'
  BY <1>0 DEF AloneInv, InvInFlight, InvAnswer, InvOwn
<1>. USE DEF jobVars, connVars, netVars, retVars
<1>1. CASE Take
  <2>1. Head(jobCh) \in Range(jobCh)
    BY <1>1, TailRange DEF Take, IInv, TypeOK
  <2>2. pc[Head(jobCh)] = "queued"
    BY <2>1 DEF IInv, InvPool
  <2>. QED
    BY <1>0, <1>1, <2>2 DEF Take, IInv, TypeOK
<1>2. CASE RouterTake \/ UNCHANGED vars
  BY <1>0, <1>2 DEF RouterTake, vars
<1>3. ASSUME NEW r \in Reqs, ClientStep(r) PROVE AloneInv'
  <2>0. pc[r] = "unsent" /\ \A q \in Reqs : pc[q] # "unsent" => replies[q] # <<>>
    BY <1>3, AloneSend DEF ClientStep, RejectInvalid, Submit, RateLimit
  <2>1. CASE RejectInvalid(r)
    BY <2>0, <2>1, AloneRefusal DEF RejectInvalid, ReplyKinds
  <2>2. CASE Submit(r)
    BY <2>0, <2>2 DEF Submit, AloneInv, InvInFlight, InvAnswer, InvOwn, IInv, TypeOK
  <2>3. CASE RateLimit(r)
    BY <2>0, <2>3, AloneRefusal DEF RateLimit, ReplyKinds
  <2>. QED
    BY <1>3, <2>1, <2>2, <2>3 DEF ClientStep
<1>4. ASSUME NEW r \in Reqs, DispatchStep(r) PROVE AloneInv'
  <2>1. CASE NoBestWorker(r)
    BY <2>1, AloneRefusal DEF NoBestWorker, ReplyKinds
  <2>2. CASE PushTimeout(r)
    BY <2>2, AloneRefusal DEF PushTimeout, ReplyKinds
  <2>3. CASE DoWorkStart(r)
    <3>1. replies[r] = <<>>
      BY <2>3 DEF DoWorkStart, IInv, InvEarly
    <3>. QED
      BY <2>3, <3>1 DEF DoWorkStart, AloneInv, InvInFlight, InvAnswer, InvOwn, IInv, TypeOK
  <2>4. CASE \/ \E w \in Workers : CleanStale(r, w) \/ PickWorker(r, w)
             \/ Push(r) \/ DoWorkWrite(r) \/ DoWorkArm(r)
    BY <1>0, <2>4 DEF CleanStale, PickWorker, Push, DoWorkWrite, DoWorkArm, IInv, TypeOK
  <2>. QED
    BY <1>4, <2>1, <2>2, <2>3, <2>4 DEF DispatchStep
<1>5. ASSUME NEW r \in Reqs, ReturnStep(r) PROVE AloneInv'
  <2>1. CASE PopTimeout(r) \/ CheckStatus(r) \/ DropResult(r)
    BY <1>0, <2>1 DEF PopTimeout, CheckStatus, DropResult
  <2>. QED
    BY <1>5, <2>1, AlonePop, AloneFinish DEF ReturnStep
<1>6. ASSUME NEW r \in Reqs, WorkerStep(r) PROVE AloneInv'
  BY <1>0, <1>6 DEF WorkerStep, WorkerFail, WorkerReturn
<1>7. ASSUME NEW w \in Workers, ConnStep(w) PROVE AloneInv'
  BY <1>0, <1>7 DEF ConnStep, WorkerConnect, WorkerTake, RouteResult, HandleSync, WriteLoopFails,
     DoIOClose, DoIOCloseStale, AddFunction, DelFunction
<1>8. ASSUME NEW c \in Clients, ClientClose(c) PROVE AloneInv'
  BY <1>0, <1>8 DEF ClientClose
<1>. QED
  BY <1>1, <1>2, <1>3, <1>4, <1>5, <1>6, <1>7, <1>8 DEF Next

\* A client that waits for each answer, alone on the server, is given the result
\* of the request it made, although returnData pops whatever job is first:
\* after lost frames, dropped results and reconnects of the worker too.
THEOREM OwnResultAlone == ASSUME OneCaller PROVE Spec => []OwnResult
<1>1. Init => AloneInv
  BY DEF Init, AloneInv, InvInFlight, InvAnswer, InvOwn
<1>2. IInv /\ AloneInv /\ [Next]_vars => AloneInv'
  BY OneCaller, AloneNext
<1>3. IInv /\ AloneInv => OwnResult
  <2>. SUFFICES ASSUME IInv, AloneInv, NEW r \in Reqs, NEW i \in DOMAIN replies[r],
                       replies[r][i].kind = "RETURN_DATA"
                PROVE  replies[r][i].ret = r
    BY DEF OwnResult
  <2>1. replies[r] \in Seq(Replies)
    BY DEF IInv, TypeOK
  <2>2. DOMAIN replies[r] = 1..Len(replies[r]) /\ replies[r] # <<>>
    BY <2>1, LenProperties, EmptySeq
  <2>3. i = 1
    BY <2>2 DEF IInv, InvReply
  <2>. QED
    BY <2>2, <2>3 DEF AloneInv, InvAnswer
<1>. QED
  BY <1>1, <1>2, <1>3, Invariance, PTL DEF Spec

-----------------------------------------------------------------------------
\* The start of the server is the start of the service.
LEMMA ServiceInit == Init => Service!SvcInit
  BY DEF Init, Service!SvcInit, Handed, Finished

\* A refusal is the service's Refuse, or nothing when the write fails.
LEMMA ServiceRefusal ==
  ASSUME IInv, NEW r \in Reqs, pc[r] \in {"unsent", "running", "pushing"},
         NEW kind \in ReplyKinds \ {"RETURN_DATA"}, ClientWrite(r, kind, NoReq),
         UNCHANGED <<status, via>>
  PROVE  Service!Refuse(r) \/ UNCHANGED Service!svcVars
<1>1. replies[r] = <<>> /\ r \notin Handed
  BY DEF IInv, InvEarly, Early, Handed
<1>2. UNCHANGED <<Handed, Finished>>
  BY DEF Handed, Finished
<1>3. CASE UNCHANGED replies
  BY <1>2, <1>3 DEF Service!svcVars
<1>4. CASE replies' = [replies EXCEPT ![r] = Append(@, [kind |-> kind, ret |-> NoReq])]
  <2>1. Append(<<>>, [kind |-> kind, ret |-> NoReq]) = <<[kind |-> kind, ret |-> NoReq]>>
    OBVIOUS
  <2>2. replies' = [replies EXCEPT ![r] = <<[kind |-> kind, ret |-> NoReq]>>]
    BY <1>1, <1>4, <2>1 DEF IInv, TypeOK
  <2>. QED
    BY <1>1, <1>2, <2>2 DEF Service!Refuse
<1>. QED
  BY <1>3, <1>4 DEF ClientWrite

\* A completed returnData is the service's Return of the popped job with the
\* result at hand, or nothing when the write fails.
LEMMA ServiceReturn ==
  ASSUME IInv, NEW r \in Reqs, Finish(r)
  PROVE  Service!Return(retJob[r], r) \/ UNCHANGED Service!svcVars
<1>. DEFINE j == retJob[r]
<1>1. /\ rpc[r] = "check" /\ j \in Reqs /\ status[j] = "doing" /\ replies[j] = <<>>
      /\ Alike(j, r) /\ via[r] # NoWorker
  BY DEF Finish, Completes, IInv, InvOpen, InvTaken
<1>2. j \in Handed /\ r \in Finished
  BY <1>1 DEF Handed, Finished
<1>3. UNCHANGED <<Handed, Finished>>
  BY <1>1 DEF Handed, Finished, Finish, IInv, TypeOK
<1>4. \A q \in Reqs : replies[q] # <<>> => replies[q][1].ret # r
  BY <1>1, DispatchAssumption DEF IInv, InvReply
<1>5. CASE UNCHANGED replies
  BY <1>3, <1>5 DEF Service!svcVars
<1>6. CASE replies' = [replies EXCEPT ![j] = Append(@, [kind |-> "RETURN_DATA", ret |-> r])]
  <2>1. Append(<<>>, [kind |-> "RETURN_DATA", ret |-> r]) = <<[kind |-> "RETURN_DATA", ret |-> r]>>
    OBVIOUS
  <2>2. replies' = [replies EXCEPT ![j] = <<[kind |-> "RETURN_DATA", ret |-> r]>>]
    BY <1>1, <1>6, <2>1 DEF IInv, TypeOK
  <2>. QED
    BY <1>1, <1>2, <1>3, <1>4, <2>2 DEF Service!Return
<1>. QED
  BY <1>5, <1>6 DEF Finish, ClientWrite

\* Every step of the server is a step of the service, or changes nothing the
\* service sees.
LEMMA ServiceNext == IInv /\ [Next]_vars => [Service!SvcNext]_(Service!svcVars)
<1>. SUFFICES ASSUME IInv, [Next]_vars PROVE Service!SvcNext \/ UNCHANGED Service!svcVars
  BY DEF Service!svcVars
<1>0. ASSUME UNCHANGED <<status, via, replies>> PROVE UNCHANGED Service!svcVars
  BY <1>0 DEF Service!svcVars, Handed, Finished
<1>. USE DEF jobVars, connVars, netVars, retVars
<1>1. CASE Take \/ RouterTake \/ UNCHANGED vars
  BY <1>0, <1>1 DEF Take, RouterTake, vars
<1>2. ASSUME NEW r \in Reqs, ClientStep(r) PROVE Service!SvcNext \/ UNCHANGED Service!svcVars
  <2>1. CASE RejectInvalid(r)
    BY <2>1, ServiceRefusal DEF RejectInvalid, ReplyKinds, Service!SvcNext
  <2>2. CASE Submit(r)
    BY <1>0, <2>2 DEF Submit
  <2>3. CASE RateLimit(r)
    BY <2>3, ServiceRefusal DEF RateLimit, ReplyKinds, Service!SvcNext
  <2>. QED
    BY <1>2, <2>1, <2>2, <2>3 DEF ClientStep
<1>3. ASSUME NEW r \in Reqs, DispatchStep(r) PROVE Service!SvcNext \/ UNCHANGED Service!svcVars
  <2>1. CASE NoBestWorker(r)
    BY <2>1, ServiceRefusal DEF NoBestWorker, ReplyKinds, Service!SvcNext
  <2>2. CASE PushTimeout(r)
    BY <2>2, ServiceRefusal DEF PushTimeout, ReplyKinds, Service!SvcNext
  <2>3. CASE DoWorkStart(r)
    <3>1. r \notin Handed /\ replies[r] = <<>>
      BY <2>3 DEF DoWorkStart, IInv, InvEarly, Handed
    <3>2. Handed' = Handed \cup {r} /\ UNCHANGED <<replies, Finished>>
      BY <2>3 DEF DoWorkStart, IInv, TypeOK, Handed, Finished
    <3>. QED
      BY <3>1, <3>2 DEF Service!SvcNext, Service!Hand
  <2>4. CASE \/ \E w \in Workers : CleanStale(r, w) \/ PickWorker(r, w)
             \/ Push(r) \/ DoWorkWrite(r) \/ DoWorkArm(r)
    BY <1>0, <2>4 DEF CleanStale, PickWorker, Push, DoWorkWrite, DoWorkArm
  <2>. QED
    BY <1>3, <2>1, <2>2, <2>3, <2>4 DEF DispatchStep
<1>4. ASSUME NEW r \in Reqs, ReturnStep(r) PROVE Service!SvcNext \/ UNCHANGED Service!svcVars
  <2>1. CASE Finish(r)
    <3>1. retJob[r] \in Reqs
      BY <2>1 DEF Finish, IInv, InvOpen
    <3>. QED
      BY <2>1, <3>1, ServiceReturn DEF Service!SvcNext
  <2>2. CASE PopJob(r) \/ PopTimeout(r) \/ CheckStatus(r) \/ DropResult(r)
    BY <1>0, <2>2 DEF PopJob, PopTimeout, CheckStatus, DropResult
  <2>. QED
    BY <1>4, <2>1, <2>2 DEF ReturnStep
<1>5. ASSUME NEW r \in Reqs, WorkerStep(r) PROVE Service!SvcNext \/ UNCHANGED Service!svcVars
  <2>1. CASE WorkerFail(r)
    BY <1>0, <2>1 DEF WorkerFail
  <2>2. ASSUME NEW w \in Workers, WorkerReturn(r, w) PROVE Service!SvcNext
    <3>1. r \in Handed \ Finished
      BY <2>2 DEF WorkerReturn, IInv, InvWorking, Handed, Finished
    <3>2. Finished' = Finished \cup {r} /\ UNCHANGED <<replies, Handed>>
      BY <2>2, DispatchAssumption DEF WorkerReturn, IInv, TypeOK, Handed, Finished
    <3>. QED
      BY <3>1, <3>2 DEF Service!SvcNext, Service!Complete
  <2>. QED
    BY <1>5, <2>1, <2>2 DEF WorkerStep
<1>6. ASSUME NEW w \in Workers, ConnStep(w) PROVE UNCHANGED Service!svcVars
  BY <1>0, <1>6 DEF ConnStep, WorkerConnect, WorkerTake, RouteResult, HandleSync, WriteLoopFails,
     DoIOClose, DoIOCloseStale, AddFunction, DelFunction
<1>7. ASSUME NEW c \in Clients, ClientClose(c) PROVE UNCHANGED Service!svcVars
  BY <1>0, <1>7 DEF ClientClose
<1>. QED
  BY <1>1, <1>2, <1>3, <1>4, <1>5, <1>6, <1>7 DEF Next

\* The dispatch pool, the job channels and the result router implement the
\* service: refused or handed out, answered at most once, each result used at
\* most once.
THEOREM ServiceRefinement == Spec => ImplementsService
  BY ServiceInit, ServiceNext, Invariance, PTL DEF Spec, ImplementsService, Service!SvcSpec
=============================================================================
