----------------------------- MODULE RpcService -----------------------------
(***************************************************************************)
(* What the nmid server promises a client, without pools, channels and     *)
(* routers: a request is refused or handed to a worker, never both; it is  *)
(* answered at most once; and the data of an answer is the result of one   *)
(* finished execution of an alike request, which no other answer carries.  *)
(* That the execution is the request's own is NOT promised: returnData     *)
(* (src/pkg/server/worker.go) does not compare job ids.                    *)
(***************************************************************************)
EXTENDS Naturals, Sequences

CONSTANTS
  Reqs,       \* client requests
  NoReq,      \* the data of a refusal
  Refusals,   \* the kinds of refusal
  Alike(_, _) \* may the result of the second request answer the first?

VARIABLES
  answer,     \* the frames written to the client, by request
  handed,     \* the requests given to a worker
  finished    \* the requests whose execution produced a result

svcVars == <<answer, handed, finished>>

SvcInit ==
  /\ answer = [r \in Reqs |-> <<>>]
  /\ handed = {}
  /\ finished = {}

\* doWork: the request goes to a worker.
Hand(r) ==
  /\ r \notin handed /\ answer[r] = <<>>
  /\ handed' = handed \cup {r}
  /\ UNCHANGED <<answer, finished>>

\* DoFunction: the execution of a handed request ends with a result.
Complete(r) ==
  /\ r \in handed \ finished
  /\ finished' = finished \cup {r}
  /\ UNCHANGED <<answer, handed>>

\* doJobAsync: a request that was not handed out is refused.
Refuse(r) ==
  /\ r \notin handed /\ answer[r] = <<>>
  /\ \E kind \in Refusals :
       answer' = [answer EXCEPT ![r] = <<[kind |-> kind, ret |-> NoReq]>>]
  /\ UNCHANGED <<handed, finished>>

\* returnData: the result of k answers r, and has answered nothing before.
Return(r, k) ==
  /\ r \in handed /\ answer[r] = <<>>
  /\ k \in finished /\ Alike(r, k)
  /\ \A q \in Reqs : answer[q] # <<>> => answer[q][1].ret # k
  /\ answer' = [answer EXCEPT ![r] = <<[kind |-> "RETURN_DATA", ret |-> k]>>]
  /\ UNCHANGED <<handed, finished>>

SvcNext ==
  \E r \in Reqs : Hand(r) \/ Complete(r) \/ Refuse(r) \/ \E k \in Reqs : Return(r, k)

SvcSpec == SvcInit /\ [][SvcNext]_svcVars
=============================================================================
