----------------------------- MODULE MCDispatch -----------------------------
(* Instances of Dispatch for TLC. *)
EXTENDS DispatchInv

CONSTANTS c1, c2, w1, w2, p1, f1, r1, r2, r3, r4

\* r1 comes from a client of its own, the other requests share one.
TwoClientOf == [r \in Reqs |-> IF r = r1 THEN c1 ELSE c2]
OneClientOf == [r \in Reqs |-> c1]

\* Every request names f1, or r4 names no function.
OneHandle == [r \in Reqs |-> f1]
SomeInvalid == [r \in Reqs |-> IF r = r4 THEN NoFunc ELSE f1]

\* Parameters of one length, or r1 has longer ones.
OnePLen == [r \in Reqs |-> 1]
MixedPLen == [r \in Reqs |-> IF r = r1 THEN 2 ELSE 1]

\* Both connections belong to one worker process.
OneProc == [w \in Workers |-> p1]
=============================================================================
