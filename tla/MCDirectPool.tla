---------------------------- MODULE MCDirectPool ----------------------------
(* An instance of DirectPool for TLC: its constants are in MCDirectPool.cfg. *)
EXTENDS DirectPool
=============================================================================
