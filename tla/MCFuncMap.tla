----------------------------- MODULE MCFuncMap ------------------------------
(***************************************************************************)
(* FuncMap for TLC, with a history variable that counts the calls begun    *)
(* since two of them first overlapped: what overlapping calls can do to    *)
(* the counters and the slice is told apart from what a sequence of calls  *)
(* can do.                                                                 *)
(***************************************************************************)
EXTENDS FuncMap

CONSTANT MaxMet  \* bound: calls begun during or after an overlap

VARIABLE met     \* 0 until two goroutines are inside the registry at once

\* A call begins that overlaps another, or that follows such a call.
Meets == Cardinality(Busy') > Cardinality(Busy) /\ (met > 0 \/ Busy # {})

MCInit == RegistryInit /\ met = 0
MCNext == RegistryNext /\ met' = met + (IF Meets THEN 1 ELSE 0) /\ met' <= MaxMet

\* Every goroutine inside the registry goes on.
MCSpec == MCInit /\ [][MCNext]_<<registryVars, met>> /\ \A g \in Goroutines : WF_registryVars(Step(g))

\* As long as calls do not overlap, WorkerNum, Workers and FuncNum agree
\* between calls, through every sequence of AddFunc, DelWorkerFunc, the close
\* paths and the clean-ups of GetBestWorker, and so no index into Workers is out of
\* bounds and no division by WorkerNum is by zero.
CountersAgreeAlone == met = 0 => CountersAgree /\ ~panicked

\* As long as calls do not overlap, a live worker is listed under every function as
\* often as it announced it and did not withdraw it: an announcement that is repeated
\* beside a reconnection is one more entry, and each withdrawal takes one out.
RegistryExactAlone == met = 0 => RegistryExact

\* As long as calls do not overlap, GetBestWorker hands out workers that are
\* connected and announced the function more often than they withdrew it, also when
\* a worker that announced it twice has left an entry behind.
PickIsServedAlone == [][met = 0 => PickServed]_registryVars
=============================================================================
