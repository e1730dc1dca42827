--------------------------- MODULE MCWorkerAgent ----------------------------
(***************************************************************************)
(* WorkerAgent for TLC, with two history variables that tell what the      *)
(* goroutines do to each other through the shared Request from what the    *)
(* connection does to them.                                                *)
(***************************************************************************)
EXTENDS WorkerAgent

VARIABLES
  crowd,  \* two jobs have been in DoFunction at once
  clash   \* a frame was packed over one that was still to be written

Running(p) == {j \in Jobs : p[j] \notin {"none", "done"}}

\* Some goroutine is between its packing and its write.
Packed ==
  \/ \E j \in Jobs : jpc[j] = "write"
  \/ \E f \in Late : apc[f] = "write"
  \/ bpc \in {"writePing", "writeGrab"} \/ rpc \in {"delWrite", "nameWrite", "addWrite"}

MCInit == Init /\ crowd = FALSE /\ clash = FALSE
MCNext ==
  /\ Next
  /\ crowd' = (crowd \/ Cardinality(Running(jpc')) > 1)
  /\ clash' = (clash \/ (Packed /\ packed' # packed))

MCSpec == MCInit /\ [][MCNext]_<<vars, crowd, clash>>

\* As long as jobs run one at a time, a result goes out under the header of its
\* own job, whatever heartbeats, announcements and reconnections come between.
OwnHeaderAlone == ~crowd => OwnHeader

\* As long as no frame is packed over another, functions are announced: after
\* every reconnection, and when they are added to a running worker.
AnnouncedUnlessOverwritten == ~clash => Announced
=============================================================================
