---------------------------- MODULE MCClientPool ----------------------------
(***************************************************************************)
(* ClientPool for TLC, with a history variable: what a failed dial, a lost *)
(* connection or Close does to waiting callers is told apart from what     *)
(* callers do to each other.                                               *)
(***************************************************************************)
EXTENDS ClientPool

VARIABLE failed  \* a dial failed, a connection dropped or the pool was closed

MCInit == PoolInit /\ failed = FALSE
MCNext ==
  /\ PoolNext
  /\ failed' = (failed \/ closed' \/ (\E x \in Callers : DialFails(x)) \/ \E c \in Clients : ConnDrops(c))

\* A caller that can go on does: Client.Do returns by its timer.
MCSpec ==
  MCInit /\ [][MCNext]_<<poolVars, failed>> /\ \A x \in Callers : WF_poolVars(CallStep(x))

\* As long as dials succeed and connections hold, every call gets a client and
\* returns, however many callers share the pool.
CallsReturn == \A x \in Callers : pc[x] = "get" ~> (pc[x] = "idle" \/ failed)
=============================================================================
