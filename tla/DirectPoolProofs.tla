--------------------------- MODULE DirectPoolProofs -------------------------
(***************************************************************************)
(* The account of the direct client pool and the replies of its calls, for *)
(* any number of callers and calls and any pool size: a connection is in   *)
(* one place, and one that goes back to the channel has no reply to come.  *)
(***************************************************************************)
EXTENDS DirectPool, QueueLemmas, TLAPS

\* The callers that have a place of the pool.
Counted == {x \in Callers : has[x] # NoConn \/ pc[x] = "fail"}

\* Where a caller has a connection, and that a caller in a call has begun one.
Hands ==
  \A x \in Callers :
    /\ pc[x] \in {"send", "read", "put"} <=> has[x] # NoConn
    /\ pc[x] # "idle" => nth[x] \in 1..MaxCalls

\* The account, until Close, which empties the channel for good.
Account ==
  /\ closed => idle = <<>>
  /\ ~closed => created = Len(idle) + Cardinality(Counted) /\ created <= PoolSize

\* A connection is in the channel once, or in one caller's hands.
Distinct ==
  /\ \A x, y \in Callers : has[x] = has[y] /\ has[x] # NoConn => x = y
  /\ \A x \in Callers : has[x] \notin Range(idle)
  /\ IsInjective(idle)

\* The only reply to come is that of a caller that waits for it.
Replies ==
  /\ \A c \in Range(idle) : coming[c] = <<>>
  /\ \A x \in Callers : pc[x] \in {"send", "put"} => coming[has[x]] = <<>>
  /\ \A x \in Callers : pc[x] = "read" => coming[has[x]] = <<Id(x)>>

IInv == TypeOK /\ Hands /\ Account /\ Distinct /\ Replies /\ OwnReply

\* The set of entries of the channel, as the two libraries name it.
LEMMA ToSetIsRange == ToSet(idle) = Range(idle)
  BY DEF ToSet, Range

\* No caller without a connection is taken for one whose connection is in the channel.
LEMMA NilNotIdle ==
  ASSUME TypeOK
  PROVE  Range(idle) \subseteq Conns /\ NoConn \notin Range(idle)
  BY DirectPoolAssumption, RangeOfSeq DEF TypeOK

\* What is counted is finite.
LEMMA CountedFinite ==
  /\ IsFiniteSet(Counted) /\ Cardinality(Counted) \in Nat
  /\ \A x \in Counted : Cardinality(Counted) >= 1
<1>1. Counted \in SUBSET Callers /\ IsFiniteSet(Callers)
  BY DirectPoolAssumption DEF Counted
<1>2. IsFiniteSet(Counted)
  BY <1>1, FS_Subset
<1>. QED
  BY <1>2, FS_CardinalityType, FS_EmptySet

\* A caller that gets a place, and one that gives its place back.
LEMMA PlaceTaken ==
  ASSUME NEW x, x \notin Counted, Counted' = Counted \cup {x}
  PROVE  Cardinality(Counted)' = Cardinality(Counted) + 1
  BY CountedFinite, FS_AddElement

\* A place given back is one connection fewer.
LEMMA PlaceGivenBack ==
  ASSUME NEW x \in Counted, Counted' = Counted \ {x}
  PROVE  Cardinality(Counted)' = Cardinality(Counted) - 1
  BY CountedFinite, FS_RemoveElement

\* The connections in use are no more than the callers that use one.
LEMMA HeldCount ==
  /\ IsFiniteSet(Held) /\ Cardinality(Held) \in Nat
  /\ Cardinality(Held) <= Cardinality(Counted)
  /\ Cardinality(Held) <= Cardinality(Callers)
<1>. USE DirectPoolAssumption
<1>. DEFINE H == {y \in Callers : has[y] # NoConn}
            f == [y \in H |-> has[y]]
<1>1. f \in Surjection(H, Held)
  BY DEF Surjection, Held
<1>2. IsFiniteSet(H) /\ Cardinality(H) <= Cardinality(Callers)
  BY FS_Subset
<1>3. Cardinality(H) <= Cardinality(Counted)
  <2>1. H \in SUBSET Counted
    BY DEF Counted
  <2>. QED
    BY <2>1, CountedFinite, FS_Subset
<1>4. IsFiniteSet(Held) /\ Cardinality(Held) <= Cardinality(H)
  BY <1>1, <1>2, FS_Surjection
<1>5. Cardinality(H) \in Nat /\ Cardinality(Held) \in Nat /\ Cardinality(Callers) \in Nat
  BY <1>2, <1>4, FS_CardinalityType
<1>. QED
  BY <1>2, <1>3, <1>4, <1>5, CountedFinite

\* The empty pool satisfies the inductive invariant.
LEMMA InitIInv ==
  ASSUME Init
  PROVE  IInv
<1>. USE Init, DirectPoolAssumption DEF Init
<1>1. TypeOK
  <2>1. created \in Int /\ idle \in Seq(Conns) /\ coming \in [Conns -> Seq(CallIds)]
    OBVIOUS
  <2>2. nth \in [Callers -> 0..MaxCalls] /\ got \in [CallIds -> Seq(CallIds)]
    OBVIOUS
  <2>. QED
    BY <2>1, <2>2, Zenon DEF TypeOK
<1>2. Hands
  BY DEF Hands
<1>3. Account
  <2>1. Counted = {}
    BY DEF Counted
  <2>. QED
    BY <2>1, FS_EmptySet DEF Account
<1>4. Distinct
  BY EmptyQueue DEF Distinct
<1>5. Replies /\ OwnReply
  BY EmptyQueue DEF Replies, OwnReply
<1>. QED
  BY <1>1, <1>2, <1>3, <1>4, <1>5 DEF IInv

\* There is a connection to dial: the pool has fewer than it may have.
LEMMA FreshConn ==
  ASSUME IInv, created < PoolSize
  PROVE  \E c \in Conns : c \notin Held \cup ToSet(idle)
<1>. USE DirectPoolAssumption, IInv DEF IInv
<1>1. IsFiniteSet(Range(idle)) /\ Cardinality(Range(idle)) = Len(idle) /\ Len(idle) \in Nat
  BY QueueCount, LenProperties DEF TypeOK, Distinct
<1>2. Len(idle) < PoolSize
  <2>1. CASE closed
    BY <2>1 DEF Account
  <2>2. CASE ~closed
    BY <1>1, <2>2, CountedFinite DEF Account
  <2>. QED
    BY <2>1, <2>2
<1>. DEFINE P == Range(idle) \cup Held
<1>3. IsFiniteSet(P) /\ Cardinality(P) <= Len(idle) + Cardinality(Held)
  <2>1. Cardinality(Range(idle) \cap Held) \in Nat
    BY <1>1, FS_Intersection, FS_CardinalityType
  <2>2. /\ IsFiniteSet(P)
        /\ Cardinality(P) =
             Cardinality(Range(idle)) + Cardinality(Held) - Cardinality(Range(idle) \cap Held)
    BY <1>1, HeldCount, FS_Union
  <2>. QED
    BY <1>1, <2>1, <2>2, HeldCount
<1>4. SUFFICES ASSUME Conns \subseteq P PROVE FALSE
  BY ToSetIsRange
<1>5. Cardinality(Conns) <= Cardinality(P)
  BY <1>3, <1>4, FS_Subset
<1>6. Cardinality(Conns) \in Nat /\ Cardinality(P) \in Nat /\ Cardinality(Callers) \in Nat
  BY <1>3, FS_CardinalityType
<1>. QED
  BY <1>1, <1>2, <1>3, <1>5, <1>6, HeldCount

\* A call begins.
LEMMA CallBegins ==
  ASSUME IInv, NEW x \in Callers, Call(x)
  PROVE  IInv'
<1>. USE DirectPoolAssumption, IInv DEF IInv, At, Goto, Call
<1>1. TypeOK'
  BY DEF TypeOK
<1>2. Hands'
  BY DEF TypeOK, Hands
<1>3. Account'
  <2>1. Counted' = Counted
    BY DEF TypeOK, Hands, Counted
  <2>. QED
    BY <2>1 DEF Account
<1>4. Distinct'
  BY DEF TypeOK, Distinct
<1>5. Replies'
  BY DEF TypeOK, Hands, Replies, Id
<1>6. OwnReply'
  BY DEF OwnReply
<1>. QED
  BY <1>1, <1>2, <1>3, <1>4, <1>5, <1>6

\* The polling loop finds a connection, on which no reply is to come.
LEMMA PollStep ==
  ASSUME IInv, NEW x \in Callers, Poll(x)
  PROVE  IInv'
<1>. USE DirectPoolAssumption, IInv DEF IInv, At, Goto, Poll
<1>a. /\ Head(idle) \in Conns /\ Tail(idle) \in Seq(Conns) /\ Len(Tail(idle)) = Len(idle) - 1
      /\ Head(idle) \in Range(idle) /\ Range(Tail(idle)) \subseteq Range(idle)
      /\ IsInjective(Tail(idle)) /\ Head(idle) \notin Range(Tail(idle))
  BY TailQueue, HeadTailProperties DEF TypeOK, Distinct
<1>b. \A y \in Callers : has[y] # Head(idle) /\ has[y] \notin Range(Tail(idle))
  BY <1>a DEF Distinct
<1>1. TypeOK'
  BY <1>a DEF TypeOK
<1>2. Hands'
  BY <1>a DEF TypeOK, Hands
<1>3. Account'
  <2>1. x \notin Counted /\ Counted' = Counted \cup {x}
    BY <1>a DEF TypeOK, Hands, Counted
  <2>2. Cardinality(Counted)' = Cardinality(Counted) + 1
    BY <2>1, PlaceTaken
  <2>3. ~closed
    BY DEF Account
  <2>. QED
    BY <1>a, <2>2, <2>3, CountedFinite, LenProperties DEF TypeOK, Account
<1>4. Distinct'
  BY <1>a, <1>b DEF TypeOK, Distinct
<1>5. Replies'
  BY <1>a, <1>b DEF TypeOK, Hands, Replies, Id
<1>6. OwnReply'
  BY DEF OwnReply
<1>. QED
  BY <1>1, <1>2, <1>3, <1>4, <1>5, <1>6

\* A call fails: its connection is closed, and with it what was to come on it.
LEMMA FailsStep ==
  ASSUME IInv, NEW x \in Callers, Fails(x)
  PROVE  IInv'
<1>. USE DirectPoolAssumption, IInv DEF IInv, At, Goto, Fails
<1>a. has[x] \in Conns /\ \A y \in Callers : y # x => has[y] # has[x]
  BY DEF TypeOK, Hands, Distinct
<1>1. TypeOK'
  BY <1>a DEF TypeOK
<1>2. Hands'
  BY DEF TypeOK, Hands
<1>3. Account'
  <2>1. Counted' = Counted
    BY DEF TypeOK, Hands, Counted
  <2>. QED
    BY <2>1 DEF Account
<1>4. Distinct'
  BY NilNotIdle DEF TypeOK, Distinct
<1>5. Replies'
  BY <1>a, NilNotIdle DEF TypeOK, Hands, Distinct, Replies, Id
<1>6. OwnReply'
  BY DEF OwnReply
<1>. QED
  BY <1>1, <1>2, <1>3, <1>4, <1>5, <1>6

\* The place of a closed connection is given back.
LEMMA GiveBackStep ==
  ASSUME IInv, NEW x \in Callers, GiveBack(x)
  PROVE  IInv'
<1>. USE DirectPoolAssumption, IInv DEF IInv, At, Goto, GiveBack
<1>1. TypeOK'
  BY DEF TypeOK
<1>2. Hands'
  BY DEF TypeOK, Hands
<1>3. Account'
  <2>1. x \in Counted /\ Counted' = Counted \ {x}
    BY DEF TypeOK, Hands, Counted
  <2>2. Cardinality(Counted)' = Cardinality(Counted) - 1
    BY <2>1, PlaceGivenBack
  <2>. QED
    BY <2>2, CountedFinite, LenProperties DEF TypeOK, Account
<1>4. Distinct'
  BY DEF TypeOK, Distinct
<1>5. Replies'
  BY DEF TypeOK, Hands, Distinct, Replies, Id
<1>6. OwnReply'
  BY DEF OwnReply
<1>. QED
  BY <1>1, <1>2, <1>3, <1>4, <1>5, <1>6

\* A connection goes back to the channel, after its reply.
LEMMA PutConnStep ==
  ASSUME IInv, NEW x \in Callers, PutConn(x)
  PROVE  IInv'
<1>. USE DirectPoolAssumption, IInv DEF IInv, At, Goto, PutConn
<1>a. /\ Append(idle, has[x]) \in Seq(Conns) /\ Len(Append(idle, has[x])) = Len(idle) + 1
      /\ Range(Append(idle, has[x])) = Range(idle) \cup {has[x]}
      /\ IsInjective(Append(idle, has[x]))
  <2>1. has[x] \in Conns /\ has[x] \notin Range(idle) /\ IsInjective(idle) /\ idle \in Seq(Conns)
    BY DEF TypeOK, Hands, Distinct
  <2>. QED
    BY <2>1, AppendQueue, AppendProperties
<1>b. NoConn \notin Range(idle) \cup {has[x]} /\ \A y \in Callers : y # x => has[y] # has[x]
  BY NilNotIdle DEF TypeOK, Hands, Distinct
<1>1. TypeOK'
  BY <1>a DEF TypeOK
<1>2. Hands'
  BY DEF TypeOK, Hands
<1>3. Account'
  <2>1. x \in Counted /\ Counted' = Counted \ {x}
    BY DEF TypeOK, Hands, Counted
  <2>2. Cardinality(Counted)' = Cardinality(Counted) - 1
    BY <2>1, PlaceGivenBack
  <2>. QED
    BY <1>a, <2>2, CountedFinite, LenProperties DEF TypeOK, Account
<1>4. Distinct'
  BY <1>a, <1>b DEF TypeOK, Distinct
<1>5. Replies'
  BY <1>a DEF TypeOK, Hands, Replies, Id
<1>6. OwnReply'
  BY DEF OwnReply
<1>. QED
  BY <1>1, <1>2, <1>3, <1>4, <1>5, <1>6

\* A dial that gives no connection, with an error or without.
NoDial(x) ==
  /\ At(x, "dial") /\ Goto(x, "poll") /\ dialErr' \in BOOLEAN
  /\ UNCHANGED <<created, coming, has, idle, nth, got, closed, panicked>>

\* A caller that does not dial after all keeps the invariant: it holds no place.
LEMMA NoDialStep ==
  ASSUME IInv, NEW x \in Callers, NoDial(x)
  PROVE  IInv'
<1>. USE DirectPoolAssumption, IInv DEF IInv, At, Goto, NoDial
<1>1. TypeOK'
  BY DEF TypeOK
<1>2. Hands'
  BY DEF TypeOK, Hands
<1>3. Account'
  <2>1. Counted' = Counted
    BY DEF TypeOK, Hands, Counted
  <2>. QED
    BY <2>1 DEF Account
<1>4. Distinct'
  BY DEF TypeOK, Distinct
<1>5. Replies'
  BY DEF TypeOK, Hands, Replies, Id
<1>6. OwnReply'
  BY DEF OwnReply
<1>. QED
  BY <1>1, <1>2, <1>3, <1>4, <1>5, <1>6

\* A dial that gives a connection, which nobody has and on which nothing is to come.
NewConn(x, c) ==
  /\ At(x, "dial") /\ created < PoolSize
  /\ has' = [has EXCEPT ![x] = c] /\ coming' = [coming EXCEPT ![c] = <<>>]
  /\ created' = created + 1 /\ Goto(x, "send")
  /\ UNCHANGED <<dialErr, idle, nth, got, closed, panicked>>

\* A dialled connection takes one place, and nothing is on its way to it yet.
LEMMA NewConnStep ==
  ASSUME IInv, NEW x \in Callers, NEW c \in Conns, c \notin Held, c \notin Range(idle),
         NewConn(x, c)
  PROVE  IInv'
<1>. USE DirectPoolAssumption, IInv DEF IInv, At, Goto, NewConn
<1>a. c # NoConn /\ \A y \in Callers : has[y] # c
  BY DEF Held
<1>1. TypeOK'
  <2>1. coming' \in [Conns -> Seq(CallIds)]
    BY DEF TypeOK
  <2>. QED
    BY <2>1 DEF TypeOK
<1>2. Hands'
  BY <1>a DEF TypeOK, Hands
<1>3. Account'
  <2>1. x \notin Counted /\ Counted' = Counted \cup {x}
    BY <1>a DEF TypeOK, Hands, Counted
  <2>2. Cardinality(Counted)' = Cardinality(Counted) + 1
    BY <2>1, PlaceTaken
  <2>. QED
    BY <2>2, CountedFinite, LenProperties DEF TypeOK, Account
<1>4. Distinct'
  BY <1>a DEF TypeOK, Distinct
<1>5. Replies'
  BY <1>a, NilNotIdle DEF TypeOK, Hands, Replies, Id
<1>6. OwnReply'
  BY DEF OwnReply
<1>. QED
  BY <1>1, <1>2, <1>3, <1>4, <1>5, <1>6

\* dial, under the mutex.
LEMMA DialStep ==
  ASSUME IInv, NEW x \in Callers, Dial(x)
  PROVE  IInv'
<1>. DEFINE c == CHOOSE c \in Conns : c \notin Held \cup ToSet(idle)
<1>1. NoDial(x) \/ (created < PoolSize /\ NewConn(x, c))
  <2>1. dialErr \in BOOLEAN
    BY DEF IInv, TypeOK
  <2>. QED
    BY <2>1, Zenon DEF Dial, NoDial, NewConn
<1>2. ASSUME created < PoolSize PROVE c \in Conns /\ c \notin Held /\ c \notin Range(idle)
  <2>1. \E d \in Conns : d \notin Held \cup ToSet(idle)
    BY <1>2, FreshConn
  <2>. QED
    BY <2>1, ToSetIsRange, Zenon
<1>. HIDE DEF c
<1>. QED
  BY <1>1, <1>2, NoDialStep, NewConnStep

\* The request is written, and its reply is the one to come.
LEMMA SendStep ==
  ASSUME IInv, NEW x \in Callers, Send(x)
  PROVE  IInv'
<1>. USE DirectPoolAssumption, IInv DEF IInv, At, Goto, Send
<1>a. has[x] \in Conns /\ has[x] \notin Range(idle) /\ \A y \in Callers : y # x => has[y] # has[x]
  BY DEF TypeOK, Hands, Distinct
<1>b. Id(x) \in CallIds
  BY DEF Hands, Id, CallIds
<1>c. Append(coming[has[x]], Id(x)) = <<Id(x)>>
  <2>1. coming[has[x]] = <<>>
    BY DEF Replies
  <2>2. Append(<<>>, Id(x)) = <<Id(x)>>
    OBVIOUS
  <2>. QED
    BY <2>1, <2>2
<1>d. <<Id(x)>> \in Seq(CallIds) /\ coming' = [coming EXCEPT ![has[x]] = <<Id(x)>>]
  BY <1>b, <1>c
<1>1. TypeOK'
  <2>1. coming' \in [Conns -> Seq(CallIds)]
    BY <1>a, <1>d DEF TypeOK
  <2>. QED
    BY <2>1 DEF TypeOK
<1>2. Hands'
  BY DEF TypeOK, Hands
<1>3. Account'
  <2>1. Counted' = Counted
    BY DEF TypeOK, Hands, Counted
  <2>. QED
    BY <2>1 DEF Account
<1>4. Distinct'
  BY DEF TypeOK, Distinct
<1>5. Replies'
  <2>1. \A c \in Range(idle) : coming'[c] = <<>>
    BY <1>a, <1>d, NilNotIdle DEF TypeOK, Replies
  <2>2. ASSUME NEW y \in Callers, y # x
        PROVE  /\ pc'[y] = pc[y] /\ has'[y] = has[y] /\ Id(y)' = Id(y)
               /\ has[y] \in Conns => coming'[has[y]] = coming[has[y]]
    BY <1>a, <1>d, <2>2 DEF TypeOK, Id
  <2>3. pc'[x] = "read" /\ coming'[has'[x]] = <<Id(x)>> /\ Id(x)' = Id(x)
    BY <1>a, <1>d DEF TypeOK, Id
  <2>4. ASSUME NEW y \in Callers, pc'[y] \in {"send", "put"} PROVE coming'[has'[y]] = <<>>
    <3>1. y # x
      BY <2>3, <2>4
    <3>2. pc[y] \in {"send", "put"} /\ has'[y] = has[y] /\ has[y] \in Conns
      BY <2>2, <2>4, <3>1 DEF TypeOK, Hands
    <3>. QED
      BY <2>2, <3>1, <3>2 DEF Replies
  <2>5. ASSUME NEW y \in Callers, pc'[y] = "read" PROVE coming'[has'[y]] = <<Id(y)'>>
    <3>1. CASE y # x
      <4>1. pc[y] = "read" /\ has'[y] = has[y] /\ has[y] \in Conns /\ Id(y)' = Id(y)
        BY <2>2, <2>5, <3>1 DEF TypeOK, Hands
      <4>2. coming'[has'[y]] = coming[has[y]] /\ coming[has[y]] = <<Id(y)>>
        BY <2>2, <3>1, <4>1 DEF Replies
      <4>. QED
        BY <4>1, <4>2
    <3>. QED
      BY <2>3, <2>5, <3>1
  <2>6. idle' = idle
    OBVIOUS
  <2>. QED
    BY <2>1, <2>4, <2>5, <2>6, Zenon DEF Replies
<1>6. OwnReply'
  BY DEF OwnReply
<1>. QED
  BY <1>1, <1>2, <1>3, <1>4, <1>5, <1>6

\* The first reply on the connection is the only one, and the caller's own.
LEMMA ReadStep ==
  ASSUME IInv, NEW x \in Callers, Read(x)
  PROVE  IInv'
<1>. USE DirectPoolAssumption, IInv DEF IInv, At, Goto, Read
<1>a. has[x] \in Conns /\ has[x] \notin Range(idle) /\ \A y \in Callers : y # x => has[y] # has[x]
  BY DEF TypeOK, Hands, Distinct
<1>b. Id(x) \in CallIds
  BY DEF Hands, Id, CallIds
<1>c. coming[has[x]] = <<Id(x)>>
  BY DEF Replies
<1>d. Head(coming[has[x]]) = Id(x) /\ Tail(coming[has[x]]) = <<>>
  BY <1>c
<1>e. /\ coming' = [coming EXCEPT ![has[x]] = <<>>]
      /\ got' = [got EXCEPT ![Id(x)] = Append(@, Id(x))]
  BY <1>d
<1>1. TypeOK'
  <2>1. coming' \in [Conns -> Seq(CallIds)]
    BY <1>a, <1>e DEF TypeOK
  <2>2. got' \in [CallIds -> Seq(CallIds)]
    BY <1>b, <1>e, AppendProperties DEF TypeOK
  <2>. QED
    BY <2>1, <2>2 DEF TypeOK
<1>2. Hands'
  BY DEF TypeOK, Hands
<1>3. Account'
  <2>1. Counted' = Counted
    BY DEF TypeOK, Hands, Counted
  <2>. QED
    BY <2>1 DEF Account
<1>4. Distinct'
  BY DEF TypeOK, Distinct
<1>5. Replies'
  <2>1. \A c \in Range(idle) : coming'[c] = <<>>
    BY <1>a, <1>e, NilNotIdle DEF TypeOK, Replies
  <2>2. ASSUME NEW y \in Callers, y # x
        PROVE  /\ pc'[y] = pc[y] /\ has'[y] = has[y] /\ Id(y)' = Id(y)
               /\ has[y] \in Conns => coming'[has[y]] = coming[has[y]]
    BY <1>a, <1>e, <2>2 DEF TypeOK, Id
  <2>3. pc'[x] = "put" /\ coming'[has'[x]] = <<>>
    BY <1>a, <1>e DEF TypeOK
  <2>4. \A y \in Callers : pc'[y] \in {"send", "put"} => coming'[has'[y]] = <<>>
    BY <2>2, <2>3 DEF TypeOK, Hands, Replies
  <2>5. ASSUME NEW y \in Callers, pc'[y] = "read" PROVE coming'[has'[y]] = <<Id(y)'>>
    <3>1. CASE y # x
      <4>1. pc[y] = "read" /\ has'[y] = has[y] /\ has[y] \in Conns /\ Id(y)' = Id(y)
        BY <2>2, <2>5, <3>1 DEF TypeOK, Hands
      <4>2. coming'[has'[y]] = coming[has[y]] /\ coming[has[y]] = <<Id(y)>>
        BY <2>2, <3>1, <4>1 DEF Replies
      <4>. QED
        BY <4>1, <4>2
    <3>. QED
      BY <2>3, <2>5, <3>1
  <2>6. idle' = idle
    OBVIOUS
  <2>. QED
    BY <2>1, <2>4, <2>5, <2>6, Zenon DEF Replies
<1>6. OwnReply'
  <2>1. SUFFICES ASSUME NEW k \in CallIds, NEW i \in DOMAIN got'[k] PROVE got'[k][i] = k
    BY DEF OwnReply
  <2>2. CASE k # Id(x)
    BY <1>b, <1>e, <2>2 DEF TypeOK, OwnReply
  <2>3. CASE k = Id(x)
    <3>1. got'[k] = Append(got[k], k) /\ got[k] \in Seq(CallIds)
      BY <1>b, <1>e, <2>3 DEF TypeOK
    <3>2. \A j \in DOMAIN got[k] : got[k][j] = k
      BY DEF OwnReply
    <3>. QED
      BY <3>1, <3>2, AppendProperties
  <2>. QED
    BY <2>2, <2>3
<1>. QED
  BY <1>1, <1>2, <1>3, <1>4, <1>5, <1>6

\* Close empties the channel for good; the connections in use stay with their callers.
LEMMA CloseStep ==
  ASSUME IInv, Close
  PROVE  IInv'
<1>. USE IInv DEF IInv, Close
<1>1. TypeOK'
  <2>1. idle' \in Seq(Conns) /\ created' \in Int
    OBVIOUS
  <2>. QED
    BY <2>1, Zenon DEF TypeOK
<1>2. Hands' /\ Account'
  BY DEF Hands, Account
<1>3. Distinct'
  BY EmptyQueue DEF Distinct
<1>4. Replies'
  BY EmptyQueue DEF Replies, Id
<1>5. OwnReply'
  BY DEF OwnReply
<1>. QED
  BY <1>1, <1>2, <1>3, <1>4, <1>5

\* A use of the closed channel stops the program, and a stuttering step.
LEMMA PanicStep ==
  ASSUME IInv, \/ \E x \in Callers : PollPanics(x) \/ PutPanics(x)
               \/ UNCHANGED vars
  PROVE  IInv'
<1>. USE IInv DEF IInv, PollPanics, PutPanics, vars
<1>1. UNCHANGED <<created, idle, dialErr, coming, pc, has, nth, got, closed>>
  OBVIOUS
<1>2. panicked' \in BOOLEAN
  BY DEF TypeOK
<1>3. TypeOK'
  BY <1>1, <1>2, Zenon DEF TypeOK
<1>4. Counted' = Counted /\ \A x : Id(x)' = Id(x)
  BY <1>1 DEF Counted, Id
<1>5. Hands' /\ Account' /\ Distinct'
  BY <1>1, <1>4 DEF Hands, Account, Distinct
<1>6. Replies' /\ OwnReply'
  BY <1>1, <1>4 DEF Replies, OwnReply
<1>. QED
  BY <1>3, <1>5, <1>6

\* The invariant is inductive.
LEMMA NextIInv ==
  ASSUME IInv, [Next]_vars
  PROVE  IInv'
<1>1. CASE \E x \in Callers : Call(x) \/ Dial(x) \/ Poll(x) \/ Send(x) \/ Read(x)
  BY <1>1, CallBegins, DialStep, PollStep, SendStep, ReadStep
<1>2. CASE \E x \in Callers : Fails(x) \/ GiveBack(x) \/ PutConn(x)
  BY <1>2, FailsStep, GiveBackStep, PutConnStep
<1>3. CASE Close
  BY <1>3, CloseStep
<1>4. CASE \/ \E x \in Callers : PollPanics(x) \/ PutPanics(x)
           \/ UNCHANGED vars
  BY <1>4, PanicStep
<1>. QED
  BY <1>1, <1>2, <1>3, <1>4 DEF Next, CallStep

\* The inductive invariant holds in every behaviour of the pool.
THEOREM Invariance == Spec => []IInv
<1>1. Init => IInv
  BY InitIInv
<1>2. IInv /\ [Next]_vars => IInv'
  BY NextIInv
<1>. QED
  BY <1>1, <1>2, PTL DEF Spec

\* getConn, Call and putConn: until Close the account is exact whatever dials and calls
\* fail, putConn finds room, and a connection has one user, for any callers and pool size.
THEOREM PlacesAreExact == Spec => []PlacesExact
<1>1. ASSUME IInv PROVE PlacesExact
  <2>. USE <1>1, DirectPoolAssumption DEF IInv
  <2>1. CreatedExact
    BY DEF Account, Counted, CreatedExact
  <2>2. Len(idle) \in Nat /\ created \in Int
    BY LenProperties DEF TypeOK
  <2>3. ~closed => Cardinality(Held) <= PoolSize
    BY <2>2, HeldCount, CountedFinite DEF Account
  <2>4. ASSUME NEW x \in Callers, At(x, "put"), ~closed PROVE Len(idle) < PoolSize
    <3>1. x \in Counted
      BY <2>4 DEF At, Hands, Counted
    <3>. QED
      BY <2>2, <2>4, <3>1, CountedFinite DEF Account
  <2>5. \A x, y \in Callers : has[x] = has[y] /\ has[x] # NoConn => x = y
    BY DEF Distinct
  <2>6. Held \cap ToSet(idle) = {}
    BY ToSetIsRange DEF Held, Distinct
  <2>7. ExclusiveUse
    BY <2>3, <2>4, <2>5, <2>6, Zenon DEF ExclusiveUse
  <2>. QED
    BY <2>1, <2>7 DEF PlacesExact
<1>. QED
  BY <1>1, Invariance, PTL

\* Call: a call that gets a reply gets the reply to its own request, though a reply that
\* comes after the deadline finds its connection closed and the next call on another one.
THEOREM OwnReplyHolds == Spec => []OwnReply
<1>1. IInv => OwnReply
  BY DEF IInv
<1>. QED
  BY <1>1, Invariance, PTL
=============================================================================
