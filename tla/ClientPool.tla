----------------------------- MODULE ClientPool -----------------------------
(***************************************************************************)
(* PoolClient, src/pkg/client/pool_client.go: callers borrow a Client from *)
(* the channel clients or dial a new one while created < poolSize, use it  *)
(* for one Do and put it back.  A Client's own ClientRead goroutine sets   *)
(* its conn to nil and back while it reconnects, at any time.              *)
(***************************************************************************)
EXTENDS Integers, Sequences, FiniteSets, SequencesExt

CONSTANTS
  Callers,    \* goroutines that call Do
  Clients,    \* Client objects; a name is used again once the pool let go of it
  NoClient,
  PoolSize,   \* poolSize, also the capacity of the channel  (32)
  MaxCalls    \* bound: calls

ASSUME ClientPoolAssumption ==
  /\ PoolSize \in Nat \ {0} /\ MaxCalls \in Nat /\ NoClient \notin Clients
  /\ IsFiniteSet(Callers) /\ IsFiniteSet(Clients)
  /\ Cardinality(Clients) >= PoolSize + Cardinality(Callers)

VARIABLES
  created,   \* PoolClient.created
  idle,      \* PoolClient.clients
  alive,     \* the Clients whose conn is not nil
  pc,        \* where a caller stands
  has,       \* the Client a caller holds
  calls,     \* calls begun
  closed,    \* the channel was closed
  crashed    \* a send on the closed channel

poolVars == <<created, idle, alive, pc, has, calls, closed, crashed>>

PoolTypeOK ==
  /\ created \in Int /\ idle \in Seq(Clients) /\ alive \subseteq Clients
  /\ pc \in [Callers -> {"idle", "get", "dial", "recv", "dead", "use", "put", "send", "drop"}]
  /\ has \in [Callers -> Clients \cup {NoClient}] /\ calls \in 0..MaxCalls
  /\ closed \in BOOLEAN /\ crashed \in BOOLEAN

PoolInit ==
  /\ created = 0 /\ idle = <<>> /\ alive = {}
  /\ pc = [x \in Callers |-> "idle"] /\ has = [x \in Callers |-> NoClient]
  /\ calls = 0 /\ closed = FALSE /\ crashed = FALSE

Borrowed == {has[x] : x \in Callers} \ {NoClient}
Pooled == ToSet(idle) \cup Borrowed
At(x, place) == ~crashed /\ pc[x] = place
Goto(x, place) == pc' = [pc EXCEPT ![x] = place]

-----------------------------------------------------------------------------
(* getOrCreate *)

Do(x) ==
  /\ At(x, "idle") /\ calls < MaxCalls
  /\ calls' = calls + 1 /\ Goto(x, "get")
  /\ UNCHANGED <<created, idle, alive, has, closed, crashed>>

\* Phase 1, under the mutex: a place is taken, or the pool is at capacity.
Reserve(x) ==
  /\ At(x, "get")
  /\ \/ created < PoolSize /\ created' = created + 1 /\ Goto(x, "dial")
     \/ created >= PoolSize /\ Goto(x, "recv") /\ UNCHANGED created
  /\ UNCHANGED <<idle, alive, has, calls, closed, crashed>>

\* NewClient ... Start succeeds.
DialOk(x) ==
  /\ At(x, "dial")
  /\ LET c == CHOOSE c \in Clients : c \notin Pooled IN
       has' = [has EXCEPT ![x] = c] /\ alive' = alive \cup {c}
  /\ Goto(x, "use")
  /\ UNCHANGED <<created, idle, calls, closed, crashed>>

\* It fails: the place is given back, and the caller goes on to phase 2.
DialFails(x) ==
  /\ At(x, "dial") /\ created' = created - 1 /\ Goto(x, "recv")
  /\ UNCHANGED <<idle, alive, has, calls, closed, crashed>>

\* Phase 2: a client is received; a closed and empty channel yields nil.
Recv(x) ==
  /\ At(x, "recv")
  /\ \/ /\ idle # <<>>
        /\ has' = [has EXCEPT ![x] = Head(idle)] /\ idle' = Tail(idle)
        /\ Goto(x, IF Head(idle) \in alive THEN "use" ELSE "dead")
     \/ /\ idle = <<>> /\ closed /\ Goto(x, "dead") /\ UNCHANGED <<has, idle>>
  /\ UNCHANGED <<created, alive, calls, closed, crashed>>

\* Mutant of Dead: the place of a dead client is not given back.
DeadKeepsPlace(x) ==
  /\ At(x, "dead")
  /\ alive' = alive \ {has[x]} /\ has' = [has EXCEPT ![x] = NoClient] /\ Goto(x, "get")
  /\ UNCHANGED <<created, idle, calls, closed, crashed>>

\* A dead client, or nil: its place is given back, it is closed, and again.
Dead(x) ==
  /\ At(x, "dead")
  /\ created' = IF created > 0 THEN created - 1 ELSE created
  /\ alive' = alive \ {has[x]} /\ has' = [has EXCEPT ![x] = NoClient] /\ Goto(x, "get")
  /\ UNCHANGED <<idle, calls, closed, crashed>>

-----------------------------------------------------------------------------
(* put, after Client.Do returned *)

DoReturned(x) ==
  /\ At(x, "use") /\ Goto(x, "put")
  /\ UNCHANGED <<created, idle, alive, has, calls, closed, crashed>>

\* alive := c.conn != nil.
PutCheck(x) ==
  /\ At(x, "put") /\ Goto(x, IF has[x] \in alive THEN "send" ELSE "drop")
  /\ UNCHANGED <<created, idle, alive, has, calls, closed, crashed>>

\* The client is not alive: forgotten, its place given back.
PutDrops(x) ==
  /\ At(x, "drop")
  /\ created' = IF created > 0 THEN created - 1 ELSE created
  /\ has' = [has EXCEPT ![x] = NoClient] /\ Goto(x, "idle")
  /\ UNCHANGED <<idle, alive, calls, closed, crashed>>

\* Mutant of PutSend: no client goes back to the channel.
PutSendNever(x) ==
  /\ At(x, "send") /\ ~closed
  /\ has' = [has EXCEPT ![x] = NoClient] /\ Goto(x, "idle")
  /\ UNCHANGED <<created, idle, alive, calls, closed, crashed>>

\* The send; its default branch is unreachable (ExclusiveUse).
PutSend(x) ==
  /\ At(x, "send") /\ ~closed
  /\ idle' = Append(idle, has[x]) /\ has' = [has EXCEPT ![x] = NoClient] /\ Goto(x, "idle")
  /\ UNCHANGED <<created, alive, calls, closed, crashed>>

PutPanics(x) ==
  /\ At(x, "send") /\ closed /\ crashed' = TRUE
  /\ UNCHANGED <<created, idle, alive, pc, has, calls, closed>>

-----------------------------------------------------------------------------
\* PoolClient.Close: the channel is closed and the clients in it with it.
PoolClose ==
  /\ ~closed /\ ~crashed
  /\ closed' = TRUE /\ idle' = <<>> /\ alive' = alive \ ToSet(idle)
  /\ UNCHANGED <<created, pc, has, calls, crashed>>

\* ClientRead of a client: conn becomes nil, and not nil when it reconnects.
ConnDrops(c) ==
  /\ ~crashed /\ c \in alive \cap Pooled /\ alive' = alive \ {c}
  /\ UNCHANGED <<created, idle, pc, has, calls, closed, crashed>>

Reconnects(c) ==
  /\ ~crashed /\ c \in Pooled \ alive /\ alive' = alive \cup {c}
  /\ UNCHANGED <<created, idle, pc, has, calls, closed, crashed>>

-----------------------------------------------------------------------------
CallStep(x) ==
  \/ Reserve(x) \/ DialOk(x) \/ DialFails(x) \/ Recv(x) \/ Dead(x)
  \/ DoReturned(x) \/ PutCheck(x) \/ PutDrops(x) \/ PutSend(x) \/ PutPanics(x)

PoolNext ==
  \/ \E x \in Callers : Do(x) \/ CallStep(x)
  \/ \E c \in Clients : ConnDrops(c) \/ Reconnects(c)
  \/ PoolClose

PoolSpec == PoolInit /\ [][PoolNext]_poolVars

-----------------------------------------------------------------------------
(* Properties *)

\* Until Close, created counts the clients the pool answers for and the dials under
\* way, so the pool neither leaks places nor exceeds them.
CreatedExact ==
  ~closed => created =
    Len(idle) + Cardinality({x \in Callers : pc[x] = "dial" \/ has[x] # NoClient})

\* At most poolSize requests are in flight until Close, each on a client of its
\* own, and put always finds room: its default branch is never taken.
ExclusiveUse ==
  /\ ~closed => Cardinality({x \in Callers : pc[x] = "use"}) <= PoolSize
  /\ \A x \in Callers : At(x, "send") /\ ~closed => Len(idle) < PoolSize
  /\ \A x, y \in Callers : has[x] = has[y] /\ has[x] # NoClient => x = y
  /\ Borrowed \cap ToSet(idle) = {} /\ Cardinality(ToSet(idle)) = Len(idle)

\* The types, and: whatever dials fail, connections drop and clients are found dead,
\* no place of the pool is lost or given twice, and a client has one user at a time.
PlacesExact == PoolTypeOK /\ CreatedExact /\ ExclusiveUse
=============================================================================
