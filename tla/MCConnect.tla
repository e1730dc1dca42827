----------------------------- MODULE MCConnect ------------------------------
(* Instances of Connect for TLC. *)
EXTENDS Connect

CONSTANTS f1, f2, f3

\* One frame fills the budget of two bytes, the other two share it.
MixedLen == [f \in Frames |-> IF f = f1 THEN 2 ELSE 1]
=============================================================================
