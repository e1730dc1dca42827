--------------------------- MODULE MCDirectClient ---------------------------
(***************************************************************************)
(* DirectClient for TLC, with history variables: what timeouts and lost    *)
(* connections do to one caller is told apart from what two callers do to  *)
(* each other.                                                             *)
(***************************************************************************)
EXTENDS DirectClient

CONSTANTS x1, x2

VARIABLES
  shared,  \* two callers have been inside Call at once
  knew     \* the calls that were begun when their service had its handler

\* Three services: one that echoes, one that fails, and one that comes late.
echo == <<31>>
failing == <<31, 32>>
late == <<33>>
ThreeServices == {echo, failing, late}
OneLate == {late}

\* Calls of different lengths; an empty payload among them.
FourServices == [k \in CallIds |-> CASE k = <<x1, 1>> -> echo [] k = <<x1, 2>> -> late
                                     [] k = <<x2, 1>> -> failing [] OTHER -> echo]
FourInputs == [k \in CallIds |-> CASE k = <<x1, 1>> -> <<41, 42>> [] k = <<x1, 2>> -> <<>>
                                     [] k = <<x2, 1>> -> <<43>> [] OTHER -> <<44>>]

\* A handler that shows what it was given.
EchoHandler(service, payload) == [err |-> service = failing, data |-> service \o payload]

MCInit == DirectInit /\ shared = FALSE /\ knew = {}
MCNext ==
  /\ DirectNext /\ shared' = (shared \/ Cardinality({x \in Callers : pc'[x] # "idle"}) > 1)
  /\ knew' = knew \cup {k \in CallIds : nth'[k[1]] = k[2] /\ nth[k[1]] < k[2] /\ Service[k] \in handlers}

\* A caller that can go on does, and its deadline passes.
MCSpec ==
  MCInit /\ [][MCNext]_<<directVars, shared, knew>> /\ \A x \in Callers : WF_directVars(CallStep(x))

\* As long as calls do not overlap, a call that is answered gets what the handler
\* of its service makes of its own payload, through both layouts and whatever
\* happened to the calls before it: after a timeout the late reply dies with the
\* connection.  A service that was registered before the call is found.
OwnReplyAlone ==
  ~shared => /\ OwnReply
             /\ \A k \in knew : outcome[k] # [how |-> "error", text |-> NoSuchService]
=============================================================================
