----------------------------- MODULE NmidrProofs ----------------------------
(***************************************************************************)
(* The safety of the registry client for any services, any calls of        *)
(* Register and any number of runs of the process: a service has one       *)
(* renewer, and once logged off it comes back only through a registration  *)
(* that the client had given up.                                           *)
(***************************************************************************)
EXTENDS Nmidr, TLAPS

\* The call has its entry in Nmidr.registry, which outlives its goroutine.
Entered(k) == pc[k] \notin {"idle", "duplicate", "failed"}

\* An entry stands for one call, also after that call has come to its end.
OneEntry ==
  /\ \A k \in Calls : Entered(k) => Ins[k] \in registry
  /\ \A j, k \in Calls : Entered(j) /\ Entered(k) /\ Ins[j] = Ins[k] => j = k

\* Only a step that calls the registry has a request.
OneRequest == \A k \in Calls : at[k] # "none" => pc[k] \in DOMAIN Kind

\* The log-off was answered by the registry.
Answered(k) == pc[k] = "off" \/ (pc[k] = "logoff" /\ at[k] = "OK")

\* A registration that may still be applied was given up, and a service whose log-off
\* was answered has a lease only after such a one.
OffStays ==
  /\ \A s \in Services : <<"register", s>> \in late => s \in gaveUp
  /\ \A k \in Calls : Answered(k) /\ Ins[k] \in lease => Ins[k] \in gaveUp

IInv == TypeOK /\ OneEntry /\ OneRequest /\ OffStays

\* The four steps that call the registry, and what they ask.
LEMMA KindFacts ==
  /\ DOMAIN Kind = {"register", "rejoin", "renew", "logoff"}
  /\ Kind["register"] = "register" /\ Kind["rejoin"] = "register"
  /\ Kind["renew"] = "renew" /\ Kind["logoff"] = "logoff"
  BY DEF Kind

\* Before any call the inductive invariant holds.
LEMMA InitIInv ==
  ASSUME Init
  PROVE  IInv
<1>. USE Init, KindFacts, NmidrAssumption DEF Init
<1>1. TypeOK
  <2>1. runs \in 1..MaxRuns
    OBVIOUS
  <2>2. pc \in [Calls -> DOMAIN Kind \cup {"idle", "duplicate", "undo", "failed", "run", "off", "ended"}]
    OBVIOUS
  <2>. QED
    BY <2>1, <2>2, Zenon DEF TypeOK
<1>2. OneEntry /\ OneRequest
  BY DEF OneEntry, Entered, OneRequest
<1>3. OffStays
  BY DEF OffStays, Answered
<1>. QED
  BY <1>1, <1>2, <1>3 DEF IInv

\* Register keeps the invariant: the check and the entry are one step under the mutex.
LEMMA EnterStep ==
  ASSUME IInv, NEW k \in Calls, Enter(k)
  PROVE  IInv'
<1>. USE IInv, KindFacts, NmidrAssumption DEF IInv, TypeOK, Enter
<1>1. TypeOK'
  OBVIOUS
<1>2. OneEntry'
  BY DEF OneEntry, Entered
<1>3. OneRequest'
  BY DEF OneRequest
<1>4. OffStays'
  BY DEF OffStays, Answered
<1>. QED
  BY <1>1, <1>2, <1>3, <1>4

\* The steps of a call or its goroutine that leave the registry of services alone:
\* they go on from one place to the next.
GoesOn(k) == Registered(k) \/ Tick(k) \/ Renewed(k) \/ Rejoined(k) \/ Done(k) \/ LoggedOff(k)

\* Such a step keeps the invariant.
LEMMA GoesOnStep ==
  ASSUME IInv, NEW k \in Calls, GoesOn(k)
  PROVE  IInv'
<1>. USE IInv, KindFacts, NmidrAssumption
     DEF IInv, TypeOK, GoesOn, Registered, Tick, Renewed, Rejoined, Done, LoggedOff
<1>1. TypeOK'
  OBVIOUS
<1>2. OneEntry'
  BY DEF OneEntry, Entered
<1>3. OneRequest'
  BY DEF OneRequest
<1>4. OffStays'
  <2>1. ASSUME NEW j \in Calls, Answered(j)' PROVE Answered(j)
    <3>1. CASE j = k /\ LoggedOff(k)
      BY <2>1, <3>1 DEF Answered
    <3>2. CASE j = k /\ ~LoggedOff(k)
      <4>1. pc'[k] \notin {"off", "logoff"} \/ at'[k] = "none" \/ Done(k)
        BY <3>2
      <4>2. Done(k) => at'[k] = "none"
        BY DEF OneRequest
      <4>. QED
        BY <2>1, <3>2, <4>1, <4>2 DEF Answered
    <3>3. CASE j # k
      BY <2>1, <3>3 DEF Answered
    <3>. QED
      BY <3>1, <3>2, <3>3
  <2>2. UNCHANGED <<lease, late, gaveUp>>
    OBVIOUS
  <2>. QED
    BY <2>1, <2>2 DEF OffStays
<1>. QED
  BY <1>1, <1>2, <1>3, <1>4

\* A failed registration takes its own entry back: no other call stands for it.
LEMMA UndoStep ==
  ASSUME IInv, NEW k \in Calls, Undo(k)
  PROVE  IInv'
<1>. USE IInv, KindFacts, NmidrAssumption DEF IInv, TypeOK, Undo
<1>1. TypeOK'
  OBVIOUS
<1>2. OneEntry'
  BY DEF OneEntry, Entered
<1>3. OneRequest'
  BY DEF OneRequest
<1>4. OffStays'
  BY DEF OffStays, Answered
<1>. QED
  BY <1>1, <1>2, <1>3, <1>4

\* A request is sent, or fails at once.
LEMMA PostStep ==
  ASSUME IInv, NEW k \in Calls, doRegister(k) \/ doRenew(k) \/ doLogOff(k)
  PROVE  IInv'
<1>. USE IInv, KindFacts, NmidrAssumption DEF IInv, TypeOK, doRegister, doRenew, doLogOff, Post
<1>1. TypeOK'
  OBVIOUS
<1>2. OneEntry'
  BY DEF OneEntry, Entered
<1>3. OneRequest'
  BY DEF OneRequest
<1>4. OffStays'
  BY DEF OffStays, Answered
<1>. QED
  BY <1>1, <1>2, <1>3, <1>4

\* An answer of the registry: a registration that it handles is one of a call that is
\* alone with its service, so that no log-off of that service was answered.
LEMMA ServeStep ==
  ASSUME IInv, NEW k \in Calls, Serve(k) \/ Refuse(k)
  PROVE  IInv'
<1>. USE IInv, KindFacts, NmidrAssumption DEF IInv, TypeOK
<1>1. pc[k] \in DOMAIN Kind /\ at[k] = "sent" /\ Entered(k) /\ Ins[k] \in Services
  BY DEF Serve, Refuse, OneRequest, Entered
<1>2. lease' \in {lease, Applied(Kind[pc[k]], Ins[k])}
  BY DEF Serve, Refuse
<1>3. Applied(Kind[pc[k]], Ins[k]) \in SUBSET Services
  BY <1>1 DEF Applied
<1>4. TypeOK'
  <2>1. lease' \subseteq Services
    BY <1>2, <1>3
  <2>2. at' \in [Calls -> {"none", "sent", "OK", "NothingFound", "error"}]
    BY DEF Serve, Refuse
  <2>. QED
    BY <2>1, <2>2 DEF Serve, Refuse
<1>5. OneEntry' /\ OneRequest'
  BY <1>1 DEF Serve, Refuse, OneEntry, Entered, OneRequest
<1>6. OffStays'
  <2>1. ASSUME NEW j \in Calls, Answered(j)', Ins[j] \in lease'
        PROVE  Ins[j] \in gaveUp
    <3>1. CASE j = k
      <4>1. pc[k] = "logoff" /\ at'[k] = "OK"
        BY <1>1, <2>1, <3>1 DEF Answered, Serve, Refuse
      <4>2. lease' = lease \ {Ins[k]}
        BY <1>1, <4>1 DEF Serve, Refuse, Applied
      <4>. QED
        BY <2>1, <3>1, <4>2
    <3>2. CASE j # k
      <4>1. Answered(j) /\ Entered(j)
        BY <2>1, <3>2 DEF Answered, Serve, Refuse, Entered
      <4>2. Ins[j] # Ins[k]
        BY <1>1, <3>2, <4>1 DEF OneEntry
      <4>3. Ins[j] \in lease
        BY <1>2, <2>1, <4>2 DEF Applied
      <4>. QED
        BY <4>1, <4>3 DEF OffStays
    <3>. QED
      BY <3>1, <3>2
  <2>2. UNCHANGED <<late, gaveUp>>
    BY DEF Serve, Refuse
  <2>. QED
    BY <2>1, <2>2 DEF OffStays
<1>. QED
  BY <1>4, <1>5, <1>6

\* What giving requests up adds: log-offs and registrations still under way, the
\* latter remembered in gaveUp.
LEMMA AbandonEffect ==
  ASSUME IInv, NEW ks \in SUBSET Calls, Abandon(ks)
  PROVE  /\ gaveUp \subseteq gaveUp' /\ gaveUp' \subseteq Services
         /\ late' \subseteq {"register", "logoff"} \X Services
         /\ \A s \in Services : <<"register", s>> \in late' => s \in gaveUp'
         /\ \A k \in ks : at[k] = "sent" /\ Kind[pc[k]] = "register" => Ins[k] \in gaveUp'
<1>. USE IInv, KindFacts, NmidrAssumption DEF IInv, TypeOK
<1>. DEFINE sent == {k \in ks : at[k] = "sent"}
            regs == {k \in sent : Kind[pc[k]] = "register"}
<1>1. gaveUp' = gaveUp \cup {Ins[k] : k \in regs}
  BY DEF Abandon
<1>2. PICK away \in SUBSET sent :
        late' = late \cup {<<Kind[pc[k]], Ins[k]>> : k \in {j \in away : pc[j] # "renew"}}
  BY DEF Abandon
<1>3. ASSUME NEW k \in away, pc[k] # "renew"
      PROVE  /\ Kind[pc[k]] \in {"register", "logoff"} /\ Ins[k] \in Services
             /\ Kind[pc[k]] = "register" => Ins[k] \in gaveUp'
  <2>1. k \in Calls /\ k \in sent /\ pc[k] \in DOMAIN Kind
    BY DEF OneRequest
  <2>. QED
    BY <1>1, <1>3, <2>1
<1>4. late' \subseteq {"register", "logoff"} \X Services
  BY <1>2, <1>3
<1>5. ASSUME NEW s \in Services, <<"register", s>> \in late' PROVE s \in gaveUp'
  <2>1. CASE <<"register", s>> \in late
    BY <1>1, <2>1 DEF OffStays
  <2>2. CASE <<"register", s>> \notin late
    <3>1. PICK k \in away : pc[k] # "renew" /\ <<"register", s>> = <<Kind[pc[k]], Ins[k]>>
      BY <1>2, <1>5, <2>2
    <3>. QED
      BY <1>3, <3>1
  <2>. QED
    BY <2>1, <2>2
<1>6. gaveUp' \subseteq Services
  BY <1>1
<1>7. \A k \in ks : at[k] = "sent" /\ Kind[pc[k]] = "register" => Ins[k] \in gaveUp'
  BY <1>1
<1>. QED
  BY <1>1, <1>4, <1>5, <1>6, <1>7

\* A request is given up, whether the registry has applied it or not.
LEMMA GiveUpStep ==
  ASSUME IInv, NEW k \in Calls, GiveUp(k)
  PROVE  IInv'
<1>. USE IInv, KindFacts, NmidrAssumption DEF IInv, TypeOK
<1>1. pc[k] \in DOMAIN Kind /\ at[k] = "sent" /\ Ins[k] \in Services
  BY DEF GiveUp, OneRequest
<1>2. /\ gaveUp \subseteq gaveUp' /\ gaveUp' \subseteq Services
      /\ late' \subseteq {"register", "logoff"} \X Services
      /\ \A s \in Services : <<"register", s>> \in late' => s \in gaveUp'
      /\ Kind[pc[k]] = "register" => Ins[k] \in gaveUp'
  BY <1>1, AbandonEffect DEF GiveUp
<1>3. lease' \in {lease, Applied(Kind[pc[k]], Ins[k])}
  BY DEF GiveUp
<1>4. lease' \subseteq Services /\ lease' \ lease \subseteq gaveUp'
  BY <1>1, <1>2, <1>3 DEF Applied
<1>5. TypeOK'
  BY <1>2, <1>4 DEF GiveUp
<1>6. OneEntry' /\ OneRequest'
  BY <1>1 DEF GiveUp, OneEntry, Entered, OneRequest
<1>7. OffStays'
  <2>1. ASSUME NEW j \in Calls, Answered(j)' PROVE Answered(j)
    BY <1>1, <2>1 DEF Answered, GiveUp
  <2>. QED
    BY <1>2, <1>4, <2>1 DEF OffStays
<1>. QED
  BY <1>5, <1>6, <1>7

\* The registry applies a request nobody waits for: a registration was given up.
LEMMA ApplyLateStep ==
  ASSUME IInv, NEW r \in late, ApplyLate(r)
  PROVE  IInv'
<1>. USE IInv, KindFacts, NmidrAssumption DEF IInv, TypeOK
<1>1. r \in {"register", "logoff"} \X Services /\ r = <<r[1], r[2]>>
  OBVIOUS
<1>2. lease' \subseteq Services /\ lease' \ lease \subseteq gaveUp
  BY <1>1 DEF ApplyLate, Applied, OffStays
<1>3. late' \subseteq late /\ UNCHANGED <<own, gaveUp, runs>>
  BY DEF ApplyLate
<1>4. TypeOK' /\ OneEntry' /\ OneRequest'
  BY <1>2, <1>3 DEF own, OneEntry, Entered, OneRequest
<1>5. OffStays'
  BY <1>2, <1>3 DEF own, OffStays, Answered
<1>. QED
  BY <1>4, <1>5

\* The registry drops a lease; the application cancels, closes or builds.
LEMMA OutsideStep ==
  ASSUME IInv, (\E s \in Services : Expire(s)) \/ (\E k \in Calls : Cancel(k)) \/ Close \/ Build
  PROVE  IInv'
<1>. USE IInv, KindFacts, NmidrAssumption DEF IInv, TypeOK, Expire, Cancel, Close, Build, own
<1>1. UNCHANGED <<pc, at, registry, late, gaveUp, runs>> /\ lease' \subseteq lease
  OBVIOUS
<1>2. cancelled' \subseteq Calls
  OBVIOUS
<1>3. closed' \in BOOLEAN /\ locked' \in BOOLEAN
  OBVIOUS
<1>4. TypeOK'
  BY <1>1, <1>2, <1>3, Zenon
<1>5. OneEntry' /\ OneRequest' /\ OffStays'
  BY <1>1 DEF OneEntry, Entered, OneRequest, OffStays, Answered
<1>. QED
  BY <1>4, <1>5

\* A new process has no entry and no request; what the old one had sent may be applied.
LEMMA RestartStep ==
  ASSUME IInv, Restart
  PROVE  IInv'
<1>. USE IInv, KindFacts, NmidrAssumption DEF IInv
<1>1. /\ gaveUp \subseteq gaveUp' /\ gaveUp' \subseteq Services
      /\ late' \subseteq {"register", "logoff"} \X Services
      /\ \A s \in Services : <<"register", s>> \in late' => s \in gaveUp'
  BY AbandonEffect DEF Restart
<1>2. TypeOK'
  <2>1. runs' \in 1..MaxRuns
    BY DEF TypeOK, Restart
  <2>2. /\ pc' \in [Calls -> DOMAIN Kind \cup {"idle", "duplicate", "undo", "failed", "run", "off", "ended"}]
        /\ at' \in [Calls -> {"none", "sent", "OK", "NothingFound", "error"}]
    BY DEF Restart
  <2>. QED
    BY <1>1, <2>1, <2>2, Zenon DEF TypeOK, Restart
<1>3. OneEntry' /\ OneRequest' /\ OffStays'
  BY <1>1 DEF Restart, OneEntry, Entered, OneRequest, OffStays, Answered
<1>. QED
  BY <1>2, <1>3

\* The invariant is inductive.
LEMMA NextIInv ==
  ASSUME IInv, [Next]_vars
  PROVE  IInv'
<1>1. CASE \E k \in Calls : Enter(k) \/ Undo(k)
  BY <1>1, EnterStep, UndoStep
<1>2. CASE \E k \in Calls : GoesOn(k)
  BY <1>2, GoesOnStep
<1>3. CASE \E k \in Calls : doRegister(k) \/ doRenew(k) \/ doLogOff(k)
  BY <1>3, PostStep
<1>4. CASE \E k \in Calls : Serve(k) \/ Refuse(k) \/ GiveUp(k)
  BY <1>4, ServeStep, GiveUpStep
<1>5. CASE \E r \in late : ApplyLate(r)
  BY <1>5, ApplyLateStep
<1>6. CASE (\E s \in Services : Expire(s)) \/ (\E k \in Calls : Cancel(k)) \/ Close \/ Build
  BY <1>6, OutsideStep
<1>7. CASE Restart
  BY <1>7, RestartStep
<1>8. CASE UNCHANGED vars
  BY <1>8 DEF vars, own, IInv, TypeOK, OneEntry, Entered, OneRequest, OffStays, Answered
<1>. QED
  BY <1>1, <1>2, <1>3, <1>4, <1>5, <1>6, <1>7, <1>8 DEF Next, Own, GoesOn

\* The inductive invariant holds in every run of the client.
THEOREM Invariance == Spec => []IInv
<1>1. Init => IInv
  BY InitIInv
<1>2. IInv /\ [Next]_vars => IInv'
  BY NextIInv
<1>. QED
  BY <1>1, <1>2, PTL DEF Spec

\* Register and the goroutine it starts: one call at a time registers and renews a
\* service, whichever calls fail or are refused as duplicates.
THEOREM OneRenewerHolds == Spec => []OneRenewer
<1>1. IInv => OneRenewer
  BY KindFacts DEF IInv, OneEntry, Entered, OneRenewer, Active
<1>. QED
  BY <1>1, Invariance, PTL

\* doLogOff: a service that the registry has logged off is back only after a request
\* to register it was given up.
THEOREM OffUnlessLateHolds == Spec => []OffUnlessLate
<1>1. IInv => OffUnlessLate
  BY DEF IInv, OffStays, Answered, OffUnlessLate
<1>. QED
  BY <1>1, Invariance, PTL
=============================================================================
