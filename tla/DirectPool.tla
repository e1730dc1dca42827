----------------------------- MODULE DirectPool -----------------------------
(***************************************************************************)
(* direct.PoolClient, src/pkg/direct/pool_client.go: a call dials while    *)
(* created < PoolSize, or polls the channel conns until a connection comes *)
(* back; after an error the connection is closed and its place given back, *)
(* after a reply it returns to the channel.  A dial error is kept for ever.*)
(***************************************************************************)
EXTENDS Integers, Sequences, FiniteSets, SequencesExt

CONSTANTS
  Callers,    \* goroutines that call Call
  Conns,      \* pooledConn objects; a name is used again once it was closed
  NoConn,
  PoolSize,   \* PoolSize, also the capacity of conns   (32)
  MaxCalls    \* bound: calls of each caller

ASSUME DirectPoolAssumption ==
  /\ PoolSize \in Nat \ {0} /\ MaxCalls \in Nat /\ NoConn \notin Conns
  /\ IsFiniteSet(Callers) /\ IsFiniteSet(Conns)
  /\ Cardinality(Conns) >= PoolSize + Cardinality(Callers)

CallIds == Callers \X (1..MaxCalls)

VARIABLES
  created,   \* PoolClient.created
  idle,      \* PoolClient.conns
  dialErr,   \* PoolClient.dialErr # nil
  coming,    \* the replies on their way on a connection
  pc, has,   \* where a caller stands, and the connection it holds
  nth,       \* the call a caller is in
  got,       \* the call whose reply a caller was given
  closed,    \* the channel was closed
  panicked   \* nil received from, or sent to, the closed channel

vars == <<created, idle, dialErr, coming, pc, has, nth, got, closed, panicked>>

TypeOK ==
  /\ created \in Int /\ idle \in Seq(Conns) /\ dialErr \in BOOLEAN
  /\ coming \in [Conns -> Seq(CallIds)]
  /\ pc \in [Callers -> {"idle", "dial", "poll", "send", "read", "fail", "put"}]
  /\ has \in [Callers -> Conns \cup {NoConn}] /\ nth \in [Callers -> 0..MaxCalls]
  /\ got \in [CallIds -> Seq(CallIds)] /\ closed \in BOOLEAN /\ panicked \in BOOLEAN

Init ==
  /\ created = 0 /\ idle = <<>> /\ dialErr = FALSE /\ coming = [c \in Conns |-> <<>>]
  /\ pc = [x \in Callers |-> "idle"] /\ has = [x \in Callers |-> NoConn]
  /\ nth = [x \in Callers |-> 0] /\ got = [k \in CallIds |-> <<>>]
  /\ closed = FALSE /\ panicked = FALSE

Held == {has[x] : x \in Callers} \ {NoConn}
At(x, place) == ~panicked /\ pc[x] = place
Goto(x, place) == pc' = [pc EXCEPT ![x] = place]
Id(x) == <<x, nth[x]>>

-----------------------------------------------------------------------------
(* getConn *)

Call(x) ==
  /\ At(x, "idle") /\ nth[x] < MaxCalls
  /\ nth' = [nth EXCEPT ![x] = @ + 1] /\ Goto(x, "dial")
  /\ UNCHANGED <<created, idle, dialErr, coming, has, got, closed, panicked>>

\* dial, under the mutex: the kept error, "pool full", a new error or a connection.
Dial(x) ==
  /\ At(x, "dial")
  /\ \/ /\ dialErr \/ created >= PoolSize
        /\ Goto(x, "poll") /\ UNCHANGED <<created, dialErr, coming, has>>
     \/ /\ ~dialErr /\ created < PoolSize
        /\ dialErr' = TRUE /\ Goto(x, "poll") /\ UNCHANGED <<created, coming, has>>
     \/ /\ ~dialErr /\ created < PoolSize
        /\ LET c == CHOOSE c \in Conns : c \notin Held \cup ToSet(idle) IN
             has' = [has EXCEPT ![x] = c] /\ coming' = [coming EXCEPT ![c] = <<>>]
        /\ created' = created + 1 /\ Goto(x, "send") /\ UNCHANGED dialErr
  /\ UNCHANGED <<idle, nth, got, closed, panicked>>

\* The polling loop finds a connection; a dead one is never in the channel.
Poll(x) ==
  /\ At(x, "poll") /\ idle # <<>>
  /\ has' = [has EXCEPT ![x] = Head(idle)] /\ idle' = Tail(idle) /\ Goto(x, "send")
  /\ UNCHANGED <<created, dialErr, coming, nth, got, closed, panicked>>

\* The closed channel yields nil, and pc.conn is read from it.
PollPanics(x) ==
  /\ At(x, "poll") /\ idle = <<>> /\ closed /\ panicked' = TRUE
  /\ UNCHANGED <<created, idle, dialErr, coming, pc, has, nth, got, closed>>

-----------------------------------------------------------------------------
(* Call *)

\* writeAll; the server (external here) will reply, sooner or later.
Send(x) ==
  /\ At(x, "send") /\ Goto(x, "read")
  /\ coming' = [coming EXCEPT ![has[x]] = Append(@, Id(x))]
  /\ UNCHANGED <<created, idle, dialErr, has, nth, got, closed, panicked>>

\* The reply that comes first on the connection.
Read(x) ==
  /\ At(x, "read") /\ coming[has[x]] # <<>> /\ Goto(x, "put")
  /\ got' = [got EXCEPT ![Id(x)] = Append(@, Head(coming[has[x]]))]
  /\ coming' = [coming EXCEPT ![has[x]] = Tail(@)]
  /\ UNCHANGED <<created, idle, dialErr, has, nth, closed, panicked>>

\* Mutant of Fails: after a timeout the connection goes back to the pool.
FailsKeeps(x) ==
  /\ pc[x] \in {"send", "read"} /\ ~panicked /\ Goto(x, "put")
  /\ UNCHANGED <<created, idle, dialErr, coming, has, nth, got, closed, panicked>>

\* The write, a read or a check of the header fails, or the deadline passes:
\* the connection is closed.
Fails(x) ==
  /\ pc[x] \in {"send", "read"} /\ ~panicked /\ Goto(x, "fail")
  /\ has' = [has EXCEPT ![x] = NoConn] /\ coming' = [coming EXCEPT ![has[x]] = <<>>]
  /\ UNCHANGED <<created, idle, dialErr, nth, got, closed, panicked>>

\* Mutant of GiveBack: the place of a closed connection is kept.
GiveBackNot(x) ==
  /\ At(x, "fail") /\ Goto(x, "idle")
  /\ UNCHANGED <<created, idle, dialErr, coming, has, nth, got, closed, panicked>>

\* created--, under the mutex.
GiveBack(x) ==
  /\ At(x, "fail") /\ created' = created - 1 /\ Goto(x, "idle")
  /\ UNCHANGED <<idle, dialErr, coming, has, nth, got, closed, panicked>>

\* putConn; the default branch is unreachable (ExclusiveUse).
PutConn(x) ==
  /\ At(x, "put") /\ ~closed /\ Goto(x, "idle")
  /\ idle' = Append(idle, has[x]) /\ has' = [has EXCEPT ![x] = NoConn]
  /\ UNCHANGED <<created, dialErr, coming, nth, got, closed, panicked>>

PutPanics(x) ==
  /\ At(x, "put") /\ closed /\ panicked' = TRUE
  /\ UNCHANGED <<created, idle, dialErr, coming, pc, has, nth, got, closed>>

\* PoolClient.Close: the channel and what is in it; created = 0.
Close ==
  /\ ~closed /\ ~panicked
  /\ closed' = TRUE /\ idle' = <<>> /\ created' = 0
  /\ UNCHANGED <<dialErr, coming, pc, has, nth, got, panicked>>

-----------------------------------------------------------------------------
CallStep(x) ==
  \/ Dial(x) \/ Poll(x) \/ PollPanics(x) \/ Send(x) \/ Read(x) \/ Fails(x)
  \/ GiveBack(x) \/ PutConn(x) \/ PutPanics(x)

Next == (\E x \in Callers : Call(x) \/ CallStep(x)) \/ Close

Spec == Init /\ [][Next]_vars

-----------------------------------------------------------------------------
(* Properties *)

\* Until Close, created counts the connections in the channel, in use and about to
\* be given back.
CreatedExact ==
  ~closed => created =
    Len(idle) + Cardinality({x \in Callers : has[x] # NoConn \/ pc[x] = "fail"})

\* A connection is used by one call at a time, at most PoolSize are in use, and
\* putConn finds room, until Close.
ExclusiveUse ==
  /\ ~closed => Cardinality(Held) <= PoolSize
  /\ \A x \in Callers : At(x, "put") /\ ~closed => Len(idle) < PoolSize
  /\ \A x, y \in Callers : has[x] = has[y] /\ has[x] # NoConn => x = y
  /\ Held \cap ToSet(idle) = {}

\* The types, and: whatever dials and calls fail, no place of the pool is lost or
\* given twice, and a connection has one user at a time.
PlacesExact == TypeOK /\ CreatedExact /\ ExclusiveUse

\* A call is given the reply to its own request, whatever timed out before it:
\* a connection with a reply still to come never returns to the pool.
OwnReply == \A k \in CallIds : \A i \in DOMAIN got[k] : got[k][i] = k
=============================================================================
