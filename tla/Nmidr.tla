------------------------------- MODULE Nmidr --------------------------------
(***************************************************************************)
(* The client of nmid-registry, src/pkg/registry/nmidr/nmidr.go: calls of  *)
(* Register, the goroutine each one starts that renews the lease until its *)
(* context is done and then logs off, and the ways it is stopped: the      *)
(* returned cancelFunc, Close, and the end of the process.  A call of the  *)
(* registry goes over HTTP: it may be given up, by its timeout or by the   *)
(* context, before the registry has seen it, and the registry may apply it *)
(* later all the same.  The registry itself is external.                   *)
(***************************************************************************)
EXTENDS Naturals, FiniteSets

CONSTANTS
  Services,  \* service ids
  Calls,     \* calls of Register
  Ins,       \* the service id of the instance each call registers
  CanBuild,  \* does the application call Build, and survive its panic?
  MaxRuns    \* bound: runs of the process, each with a new Nmidr

ASSUME NmidrAssumption ==
  Ins \in [Calls -> Services] /\ CanBuild \in BOOLEAN /\ MaxRuns \in Nat \ {0}

VARIABLES
  pc,        \* where each call of Register stands, or the goroutine it started
  at,        \* its HTTP request: "none", "sent", or what Post returned
  registry,  \* Nmidr.registry: the services this process has registered
  locked,    \* the mutex was left locked
  cancelled, \* the calls whose cancelFunc was called
  closed,    \* nr.ctx is done
  lease,     \* the services the registry has
  late,      \* requests given up that the registry may still apply:
             \* at most one of a kind for a service
  gaveUp,    \* history: services with a register request that was given up
  runs       \* runs of the process so far

own == <<pc, at, registry, locked, cancelled, closed>>
vars == <<own, lease, late, gaveUp, runs>>

\* The steps that call the registry, and what each of them asks.
Kind == [register |-> "register", rejoin |-> "register", renew |-> "renew", logoff |-> "logoff"]

\* The call has passed the duplicate check, and neither it nor its goroutine has ended.
Active(k) == pc[k] \in DOMAIN Kind \cup {"undo", "run"}

\* The goroutine of the call runs.
Renewing(k) == pc[k] \in {"run", "renew", "rejoin"}

CtxDone(k) == closed \/ k \in cancelled

TypeOK ==
  /\ pc \in [Calls -> DOMAIN Kind \cup {"idle", "duplicate", "undo", "failed", "run", "off", "ended"}]
  /\ at \in [Calls -> {"none", "sent", "OK", "NothingFound", "error"}]
  /\ registry \subseteq Services /\ locked \in BOOLEAN /\ cancelled \subseteq Calls /\ closed \in BOOLEAN
  /\ lease \subseteq Services /\ late \subseteq {"register", "logoff"} \X Services
  /\ gaveUp \subseteq Services /\ runs \in 1..MaxRuns

\* NewRegistry.
Init ==
  /\ pc = [k \in Calls |-> "idle"] /\ at = [k \in Calls |-> "none"]
  /\ registry = {} /\ locked = FALSE /\ cancelled = {} /\ closed = FALSE
  /\ lease = {} /\ late = {} /\ gaveUp = {} /\ runs = 1

-----------------------------------------------------------------------------
(* Register *)

\* Mutant of Enter: a duplicate takes the way out of a failed registration.
EnterUndoes(k) ==
  /\ pc[k] = "idle" /\ ~locked
  /\ \/ /\ Ins[k] \in registry
        /\ pc' = [pc EXCEPT ![k] = "undo"] /\ UNCHANGED registry
     \/ /\ Ins[k] \notin registry
        /\ pc' = [pc EXCEPT ![k] = "register"] /\ registry' = registry \cup {Ins[k]}
  /\ UNCHANGED <<at, locked, cancelled, closed, lease, late, gaveUp, runs>>

\* Under the mutex: a service is registered once.
Enter(k) ==
  /\ pc[k] = "idle" /\ ~locked
  /\ \/ /\ Ins[k] \in registry
        /\ pc' = [pc EXCEPT ![k] = "duplicate"] /\ UNCHANGED registry
     \/ /\ Ins[k] \notin registry
        /\ pc' = [pc EXCEPT ![k] = "register"] /\ registry' = registry \cup {Ins[k]}
  /\ UNCHANGED <<at, locked, cancelled, closed, lease, late, gaveUp, runs>>

\* doRegister has returned: the goroutine starts, or the entry must go.
Registered(k) ==
  /\ pc[k] = "register" /\ at[k] \notin {"none", "sent"}
  /\ pc' = [pc EXCEPT ![k] = IF at[k] = "OK" THEN "run" ELSE "undo"]
  /\ at' = [at EXCEPT ![k] = "none"]
  /\ UNCHANGED <<registry, locked, cancelled, closed, lease, late, gaveUp, runs>>

\* The entry of a failed registration is deleted, under the mutex, and its context
\* cancelled.
Undo(k) ==
  /\ pc[k] = "undo" /\ ~locked
  /\ registry' = registry \ {Ins[k]} /\ pc' = [pc EXCEPT ![k] = "failed"]
  /\ cancelled' = cancelled \cup {k}
  /\ UNCHANGED <<at, locked, closed, lease, late, gaveUp, runs>>

-----------------------------------------------------------------------------
(* The goroutine of a registration *)

\* case <-ticker.C
Tick(k) ==
  /\ pc[k] = "run" /\ pc' = [pc EXCEPT ![k] = "renew"]
  /\ UNCHANGED <<at, registry, locked, cancelled, closed, lease, late, gaveUp, runs>>

\* Mutant of Renewed: only renews.
RenewedOnly(k) ==
  /\ pc[k] = "renew" /\ at[k] \notin {"none", "sent"}
  /\ pc' = [pc EXCEPT ![k] = "run"] /\ at' = [at EXCEPT ![k] = "none"]
  /\ UNCHANGED <<registry, locked, cancelled, closed, lease, late, gaveUp, runs>>

\* Mutant of Renewed: registers again without waiting for it.
RenewedAsync(k) ==
  /\ pc[k] = "renew" /\ at[k] \notin {"none", "sent"}
  /\ late' = IF at[k] = "NothingFound" THEN late \cup {<<"register", Ins[k]>>} ELSE late
  /\ pc' = [pc EXCEPT ![k] = "run"] /\ at' = [at EXCEPT ![k] = "none"]
  /\ UNCHANGED <<registry, locked, cancelled, closed, lease, gaveUp, runs>>

\* doRenew has returned: a lease the registry no longer has is registered again.
Renewed(k) ==
  /\ pc[k] = "renew" /\ at[k] \notin {"none", "sent"}
  /\ pc' = [pc EXCEPT ![k] = IF at[k] = "NothingFound" THEN "rejoin" ELSE "run"]
  /\ at' = [at EXCEPT ![k] = "none"]
  /\ UNCHANGED <<registry, locked, cancelled, closed, lease, late, gaveUp, runs>>

\* doRegister has returned; its error is dropped.
Rejoined(k) ==
  /\ pc[k] = "rejoin" /\ at[k] \notin {"none", "sent"}
  /\ pc' = [pc EXCEPT ![k] = "run"] /\ at' = [at EXCEPT ![k] = "none"]
  /\ UNCHANGED <<registry, locked, cancelled, closed, lease, late, gaveUp, runs>>

\* case <-ctx.Done()
Done(k) ==
  /\ pc[k] = "run" /\ CtxDone(k) /\ pc' = [pc EXCEPT ![k] = "logoff"]
  /\ UNCHANGED <<at, registry, locked, cancelled, closed, lease, late, gaveUp, runs>>

\* Mutant of LoggedOff: a log-off that fails is tried at the next turn of the loop.
LoggedOffRetries(k) ==
  /\ pc[k] = "logoff" /\ at[k] \notin {"none", "sent"}
  /\ pc' = [pc EXCEPT ![k] = IF at[k] = "OK" THEN "off" ELSE "run"]
  /\ at' = [at EXCEPT ![k] = "none"]
  /\ UNCHANGED <<registry, locked, cancelled, closed, lease, late, gaveUp, runs>>

\* doLogOff has returned: the goroutine ends, whatever the answer.  The entry stays
\* in Nmidr.registry.
LoggedOff(k) ==
  /\ pc[k] = "logoff" /\ at[k] \notin {"none", "sent"}
  /\ pc' = [pc EXCEPT ![k] = IF at[k] = "OK" THEN "off" ELSE "ended"]
  /\ at' = [at EXCEPT ![k] = "none"]
  /\ UNCHANGED <<registry, locked, cancelled, closed, lease, late, gaveUp, runs>>

-----------------------------------------------------------------------------
(* Calls of the registry: conf is read under the mutex, then Post *)

\* Post with a context that is done fails at once.
Post(k, ctxDone) ==
  /\ at[k] = "none" /\ ~locked
  /\ at' = [at EXCEPT ![k] = IF ctxDone THEN "error" ELSE "sent"]
  /\ UNCHANGED <<pc, registry, locked, cancelled, closed, lease, late, gaveUp, runs>>

doRegister(k) == pc[k] \in {"register", "rejoin"} /\ Post(k, CtxDone(k))

doRenew(k) == pc[k] = "renew" /\ Post(k, CtxDone(k))

\* With a context of its own, which is never done.
doLogOff(k) == pc[k] = "logoff" /\ Post(k, FALSE)

\* What a request does to the leases of the registry.
Applied(kind, s) ==
  CASE kind = "register" -> lease \cup {s}
    [] kind = "logoff" -> lease \ {s}
    [] OTHER -> lease

\* The registry handles a request and its answer arrives.
Serve(k) ==
  /\ at[k] = "sent" /\ lease' = Applied(Kind[pc[k]], Ins[k])
  /\ at' = [at EXCEPT ![k] = IF pc[k] = "renew" /\ Ins[k] \notin lease THEN "NothingFound" ELSE "OK"]
  /\ UNCHANGED <<pc, registry, locked, cancelled, closed, late, gaveUp, runs>>

\* Any other code than OK and NothingFound.
Refuse(k) ==
  /\ at[k] = "sent" /\ at' = [at EXCEPT ![k] = "error"]
  /\ UNCHANGED <<pc, registry, locked, cancelled, closed, lease, late, gaveUp, runs>>

\* The requests of these calls are given up: lost, or applied and only the answer
\* is lost, or still on their way.
Abandon(ks) ==
  LET sent == {k \in ks : at[k] = "sent"} IN
  /\ gaveUp' = gaveUp \cup {Ins[k] : k \in {j \in sent : Kind[pc[j]] = "register"}}
  /\ \E away \in SUBSET sent :
       late' = late \cup {<<Kind[pc[k]], Ins[k]>> : k \in {j \in away : pc[j] # "renew"}}

\* Post returns an error: the timeout of the HTTP client, or the context.
GiveUp(k) ==
  /\ at[k] = "sent" /\ at' = [at EXCEPT ![k] = "error"]
  /\ Abandon({k})
  /\ lease' \in {lease} \cup (IF late' = late THEN {Applied(Kind[pc[k]], Ins[k])} ELSE {})
  /\ UNCHANGED <<pc, registry, locked, cancelled, closed, runs>>

\* The registry applies a request nobody waits for.
ApplyLate(r) ==
  /\ r \in late /\ late' = late \ {r} /\ lease' = Applied(r[1], r[2])
  /\ UNCHANGED <<own, gaveUp, runs>>

\* The registry drops a lease, renewed too late or not at all.
Expire(s) ==
  /\ s \in lease /\ lease' = lease \ {s}
  /\ UNCHANGED <<own, late, gaveUp, runs>>

-----------------------------------------------------------------------------
(* The application *)

\* cancelFunc, which Register returned.
Cancel(k) ==
  /\ Renewing(k) /\ cancelled' = cancelled \cup {k}
  /\ UNCHANGED <<pc, at, registry, locked, closed, lease, late, gaveUp, runs>>

Close ==
  /\ closed' = TRUE
  /\ UNCHANGED <<pc, at, registry, locked, cancelled, lease, late, gaveUp, runs>>

\* Build stores into services, a map that is never made, and panics with the mutex
\* locked.
Build ==
  /\ CanBuild /\ ~locked /\ locked' = TRUE
  /\ UNCHANGED <<pc, at, registry, cancelled, closed, lease, late, gaveUp, runs>>

\* The process ends at any point and is started again; the registry keeps what it has.
Restart ==
  /\ runs < MaxRuns /\ runs' = runs + 1
  /\ Abandon(Calls) /\ UNCHANGED lease
  /\ pc' = [k \in Calls |-> "idle"] /\ at' = [k \in Calls |-> "none"]
  /\ registry' = {} /\ locked' = FALSE /\ cancelled' = {} /\ closed' = FALSE

-----------------------------------------------------------------------------
Own(k) ==
  \/ Registered(k) \/ Undo(k) \/ Renewed(k) \/ Rejoined(k) \/ LoggedOff(k)
  \/ doRegister(k) \/ doRenew(k) \/ doLogOff(k)

Next ==
  \/ \E k \in Calls : \/ Enter(k) \/ Own(k) \/ Tick(k) \/ Done(k) \/ Cancel(k)
                      \/ Serve(k) \/ Refuse(k) \/ GiveUp(k)
  \/ \E r \in late : ApplyLate(r)
  \/ \E s \in Services : Expire(s)
  \/ Close \/ Build \/ Restart

Spec == Init /\ [][Next]_vars

\* Goroutines run and requests time out; a select with a context that is done and a
\* ticker takes either case, but not the ticker for ever; the registry does answer
\* some of the renewals and some of the registrations that follow them.
FairSpec ==
  /\ Spec
  /\ \A k \in Calls :
       /\ WF_vars(Own(k)) /\ WF_vars(Tick(k)) /\ SF_vars(Done(k)) /\ WF_vars(GiveUp(k))
       /\ SF_vars(pc[k] = "renew" /\ Serve(k)) /\ SF_vars(pc[k] = "rejoin" /\ Serve(k))

-----------------------------------------------------------------------------
(* Properties *)

\* The types, and: a service is registered and renewed by one call of Register at a
\* time, whichever calls fail, are refused as duplicates or run at once.
OneRenewer ==
  TypeOK /\ \A j, k \in Calls : j # k /\ Ins[j] = Ins[k] => ~(Active(j) /\ Active(k))

\* A service that was logged off, with the registry's OK, is off: only a register
\* request that the client had given up can bring it back, so none that the
\* goroutine has not waited for.
OffUnlessLate ==
  \A k \in Calls : pc[k] = "off" /\ Ins[k] \in lease => Ins[k] \in gaveUp

\* After cancelFunc or Close every registration comes to its end, whatever its
\* requests come to, unless Build has left the mutex locked.
Stops ==
  \A k \in Calls : (Active(k) /\ CtxDone(k)) ~> (~Active(k) \/ locked)

\* A service whose lease the registry has dropped, or which a late log-off of the
\* run before took away, is registered again, unless it is cancelled or the mutex
\* was left locked.
Rejoins ==
  \A k \in Calls :
    (Renewing(k) /\ Ins[k] \notin lease) ~> (Ins[k] \in lease \/ ~Renewing(k) \/ CtxDone(k) \/ locked)
=============================================================================
