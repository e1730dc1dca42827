---------------------------- MODULE MCDiscovery -----------------------------
(* An instance of Discovery for TLC. *)
EXTENDS Discovery

CONSTANTS n1, n2, self, app, r0, r1, g1, s

OneSeed == <<n1>>
WatchOf == (r0 :> self) @@ (r1 :> app)
OneService == [g \in {g1} |-> s]

\* The nodes may be replaced; the application may lose its last instance.
SomeLists == (self :> {{n2}}) @@ (app :> {{}, {app}})
=============================================================================
