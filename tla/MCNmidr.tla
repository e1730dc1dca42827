------------------------------ MODULE MCNmidr -------------------------------
(* An instance of Nmidr for TLC. *)
EXTENDS Nmidr

CONSTANT s1

\* Two calls for one service.
TwoIns == [k \in 1..2 |-> s1]
=============================================================================
