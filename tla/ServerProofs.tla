---------------------------- MODULE ServerProofs ----------------------------
(***************************************************************************)
(* Two things every connection of the server uses, for any number of       *)
(* goroutines.  Connect: the byte budget of a connection and the order of  *)
(* its frames, for any frames, lengths and limits and however writeLoop    *)
(* and DoIO end the connection under them.  FuncMap: the function          *)
(* registry, for any workers and function names.                           *)
(***************************************************************************)
EXTENDS Connect, MCFuncMap, QueueLemmas, TLAPS

-----------------------------------------------------------------------------
(* Connect *)

\* The frames whose bytes pendingBytes counts, and those within the limit.
Live == Queued \cup Trying
Kept == Queued \cup {f \in Frames : wpc[f] = "added"}

\* An accepted frame is in the channel once, or in writeLoop's hands.
Places ==
  /\ IsInjective(writeCh)
  /\ \A f \in Range(writeCh) : wpc[f] = "ok"
  /\ lpc \in {"got", "writing"} <=> cur # NoFrame
  /\ cur # NoFrame => wpc[cur] = "ok" /\ cur \notin Range(writeCh)

\* pendingBytes is exact, and what Write let through is within the limit.
Account ==
  /\ IsFiniteSet(BytesOf(Live)) /\ pending = Bytes(Live)
  /\ Bytes(Kept) <= MaxBytes

\* What was accepted is what was written, then, until writeLoop leaves its select,
\* the frame in its hands and the channel; Sent counts what it took from the channel.
Sent == Len(wire) + (IF cur = NoFrame THEN 0 ELSE 1)
Order ==
  /\ Len(wire) <= Len(accepted) /\ \A i \in 1..Len(wire) : wire[i] = accepted[i]
  /\ lpc \in {"select", "got", "writing"} =>
       /\ Len(accepted) = Sent + Len(writeCh)
       /\ cur # NoFrame => accepted[Sent] = cur
       /\ \A j \in 1..Len(writeCh) : accepted[Sent + j] = writeCh[j]

IInv == TypeOK /\ Places /\ Account /\ Order

\* A sequence with the entries of another, as far as it goes, is a prefix of it.
LEMMA SamePrefix ==
  ASSUME NEW S, NEW s \in Seq(S), NEW t \in Seq(S), Len(s) <= Len(t),
         \A i \in 1..Len(s) : s[i] = t[i]
  PROVE  IsPrefix(s, t)
<1>1. Len(s) \in Nat /\ Len(t) \in Nat
  BY LenProperties
<1>2. \A i \in 1..Len(s) : s[i] \in S /\ t[i] \in S
  BY ElementOfSeq
<1>3. /\ SubSeq(t, 1, Len(s)) \in Seq(S) /\ Len(SubSeq(t, 1, Len(s))) = Len(s)
      /\ \A i \in 1..Len(s) : SubSeq(t, 1, Len(s))[i] = t[i]
  BY <1>1, <1>2, SubSeqProperties
<1>4. SubSeq(t, 1, Len(s)) = s
  BY <1>3, SeqEqual
<1>5. SubSeq(s, 1, Len(s)) = s
  BY SubSeqFull
<1>. QED
  BY <1>4, <1>5 DEF IsPrefix

-----------------------------------------------------------------------------
(* The bytes of a set of frames *)

\* The frames in writeCh, by either name.
LEMMA ToSetIsRange == ToSet(writeCh) = Range(writeCh)
  BY DEF ToSet, Range

\* The bytes of one frame.
LEMMA BytesOfOne ==
  ASSUME NEW f \in Frames
  PROVE  IsFiniteSet({f} \X (1..FLen[f])) /\ Cardinality({f} \X (1..FLen[f])) = FLen[f]
<1>1. FLen[f] \in Nat /\ FLen[f] > 0
  BY ConnectAssumption
<1>2. IsFiniteSet(1..FLen[f]) /\ Cardinality(1..FLen[f]) = FLen[f]
  <2>1. /\ IsFiniteSet(1..FLen[f])
        /\ Cardinality(1..FLen[f]) = IF 1 > FLen[f] THEN 0 ELSE FLen[f] - 1 + 1
    <3>1. 1 \in Int /\ FLen[f] \in Int
      BY <1>1
    <3>. QED
      BY <3>1, FS_Interval, Zenon
  <2>. QED
    BY <1>1, <2>1
<1>3. IsFiniteSet({f}) /\ Cardinality({f}) = 1
  BY FS_Singleton
<1>4. /\ IsFiniteSet({f} \X (1..FLen[f]))
      /\ Cardinality({f} \X (1..FLen[f])) = Cardinality({f}) * Cardinality(1..FLen[f])
  BY <1>2, <1>3, FS_Product, Zenon
<1>. QED
  BY <1>1, <1>2, <1>3, <1>4

\* More frames have no fewer bytes.
LEMMA BytesMonotonic ==
  ASSUME NEW S, NEW T, S \subseteq T, IsFiniteSet(BytesOf(T))
  PROVE  /\ IsFiniteSet(BytesOf(S)) /\ Bytes(S) \in Nat /\ Bytes(T) \in Nat
         /\ Bytes(S) <= Bytes(T)
<1>1. BytesOf(S) \in SUBSET BytesOf(T)
  BY DEF BytesOf
<1>2. IsFiniteSet(BytesOf(S)) /\ Bytes(S) <= Bytes(T)
  BY <1>1, FS_Subset DEF Bytes
<1>. QED
  BY <1>2, FS_CardinalityType DEF Bytes

\* Two sets of frames with none in common.
LEMMA BytesDisjoint ==
  ASSUME NEW S, NEW T, S \cap T = {}, IsFiniteSet(BytesOf(S)), IsFiniteSet(BytesOf(T))
  PROVE  IsFiniteSet(BytesOf(S \cup T)) /\ Bytes(S \cup T) = Bytes(S) + Bytes(T)
<1>1. BytesOf(S \cup T) = BytesOf(S) \cup BytesOf(T)
  BY DEF BytesOf
<1>2. BytesOf(S) \cap BytesOf(T) = {}
  <2>1. ASSUME NEW U, NEW b \in BytesOf(U) PROVE b[1] \in U
    BY <2>1 DEF BytesOf
  <2>. QED
    BY <2>1
<1>3. Cardinality(BytesOf(S) \cap BytesOf(T)) = 0
  BY <1>2, FS_EmptySet
<1>4. Bytes(S) \in Nat /\ Bytes(T) \in Nat
  BY FS_CardinalityType DEF Bytes
<1>5. /\ IsFiniteSet(BytesOf(S) \cup BytesOf(T))
      /\ Cardinality(BytesOf(S) \cup BytesOf(T)) = Bytes(S) + Bytes(T) - 0
  BY <1>3, FS_Union, Zenon DEF Bytes
<1>6. IsFiniteSet(BytesOf(S \cup T)) /\ Bytes(S \cup T) = Bytes(S) + Bytes(T) - 0
  BY <1>1, <1>5, Zenon DEF Bytes
<1>. QED
  BY <1>4, <1>6

\* A frame that comes, and one that goes.
LEMMA BytesAdd ==
  ASSUME NEW S, NEW f \in Frames, f \notin S, IsFiniteSet(BytesOf(S))
  PROVE  IsFiniteSet(BytesOf(S \cup {f})) /\ Bytes(S \cup {f}) = Bytes(S) + FLen[f]
<1>1. BytesOf({f}) = {f} \X (1..FLen[f])
  BY DEF BytesOf
<1>2. IsFiniteSet(BytesOf({f})) /\ Bytes({f}) = FLen[f]
  BY <1>1, BytesOfOne DEF Bytes
<1>. QED
  BY <1>2, BytesDisjoint

\* Taking one frame out of a set takes its length off.
LEMMA BytesRemove ==
  ASSUME NEW S, NEW f \in Frames, f \in S, IsFiniteSet(BytesOf(S))
  PROVE  /\ IsFiniteSet(BytesOf(S \ {f})) /\ Bytes(S \ {f}) = Bytes(S) - FLen[f]
         /\ Bytes(S \ {f}) \in Nat
<1>1. IsFiniteSet(BytesOf(S \ {f})) /\ Bytes(S \ {f}) \in Nat
  BY BytesMonotonic
<1>2. (S \ {f}) \cup {f} = S
  OBVIOUS
<1>3. Bytes(S) = Bytes(S \ {f}) + FLen[f]
  <2>1. Bytes((S \ {f}) \cup {f}) = Bytes(S \ {f}) + FLen[f]
    BY <1>1, BytesAdd
  <2>. QED
    BY <1>2, <2>1
<1>. QED
  BY <1>1, <1>3, ConnectAssumption

-----------------------------------------------------------------------------
(* What a step may do to the account *)

\* A frame that was accepted and not disposed of counts.
LEMMA KeptIsLive == Kept \subseteq Live
  BY DEF Kept, Live, Trying

\* No byte comes or goes.
LEMMA AccountSame ==
  ASSUME Account, Live' = Live, pending' = pending, Kept' \subseteq Kept
  PROVE  Account' /\ pending' \in Nat
<1>1. IsFiniteSet(BytesOf(Live)) /\ IsFiniteSet(BytesOf(Kept))
  BY KeptIsLive, BytesMonotonic DEF Account
<1>2. Bytes(Kept') <= Bytes(Kept) /\ Bytes(Kept') \in Nat /\ Bytes(Kept) \in Nat
  BY <1>1, BytesMonotonic
<1>3. Bytes(Live) \in Nat
  BY <1>1, BytesMonotonic
<1>4. Bytes(Kept)' = Bytes(Kept') /\ Bytes(Live)' = Bytes(Live) /\ BytesOf(Live)' = BytesOf(Live)
  BY DEF Bytes, BytesOf
<1>. QED
  BY <1>1, <1>2, <1>3, <1>4, ConnectAssumption DEF Account

\* A frame goes, and its bytes are given back.
LEMMA AccountLess ==
  ASSUME Account, NEW f \in Frames, f \in Live, Live' = Live \ {f},
         pending' = pending - FLen[f], Kept' \subseteq Kept
  PROVE  Account' /\ pending' \in Nat
<1>1. IsFiniteSet(BytesOf(Live)) /\ IsFiniteSet(BytesOf(Kept))
  BY KeptIsLive, BytesMonotonic DEF Account
<1>2. Bytes(Kept') <= Bytes(Kept) /\ Bytes(Kept') \in Nat /\ Bytes(Kept) \in Nat
  BY <1>1, BytesMonotonic
<1>3. /\ IsFiniteSet(BytesOf(Live \ {f})) /\ Bytes(Live \ {f}) = Bytes(Live) - FLen[f]
      /\ Bytes(Live \ {f}) \in Nat
  BY <1>1, BytesRemove
<1>4. /\ Bytes(Kept)' = Bytes(Kept') /\ Bytes(Live)' = Bytes(Live \ {f})
      /\ BytesOf(Live)' = BytesOf(Live \ {f})
  BY DEF Bytes, BytesOf
<1>. QED
  BY <1>1, <1>2, <1>3, <1>4, ConnectAssumption DEF Account

\* A frame comes with its bytes; it is let through only within the limit.
LEMMA AccountMore ==
  ASSUME Account, NEW f \in Frames, f \notin Live, Live' = Live \cup {f},
         pending' = pending + FLen[f], Kept' = Kept \/ pending' <= MaxBytes
  PROVE  Account' /\ pending' \in Nat
<1>1. IsFiniteSet(BytesOf(Live)) /\ Bytes(Live) \in Nat
  BY BytesMonotonic DEF Account
<1>2. IsFiniteSet(BytesOf(Live \cup {f})) /\ Bytes(Live \cup {f}) = Bytes(Live) + FLen[f]
  BY <1>1, BytesAdd
<1>3. /\ Bytes(Live)' = Bytes(Live \cup {f}) /\ BytesOf(Live)' = BytesOf(Live \cup {f})
      /\ Bytes(Kept)' = Bytes(Kept')
  BY DEF Bytes, BytesOf
<1>4. pending' = Bytes(Live)' /\ pending' \in Nat
  BY <1>1, <1>2, <1>3, ConnectAssumption DEF Account
<1>5. Bytes(Kept)' <= MaxBytes
  <2>1. CASE Kept' = Kept
    BY <1>3, <2>1 DEF Account
  <2>2. CASE pending' <= MaxBytes
    <3>1. Kept' \subseteq Live \cup {f}
      BY KeptIsLive DEF Kept, Live, Trying
    <3>2. Bytes(Kept') <= Bytes(Live \cup {f}) /\ Bytes(Kept') \in Nat
      BY <1>2, <3>1, BytesMonotonic
    <3>. QED
      BY <1>3, <1>4, <2>2, <3>2, ConnectAssumption
  <2>. QED
    BY <2>1, <2>2
<1>. QED
  BY <1>2, <1>3, <1>4, <1>5 DEF Account

-----------------------------------------------------------------------------
(* The initial state and the steps of Write *)

\* A new connection satisfies the inductive invariant.
LEMMA InitIInv ==
  ASSUME Init
  PROVE  IInv
<1>. USE Init, ConnectAssumption DEF Init
<1>1. TypeOK
  <2>1. pending \in Nat /\ writeCh \in Seq(Frames) /\ wire \in Seq(Frames) /\ accepted \in Seq(Frames)
    OBVIOUS
  <2>. QED
    BY <2>1, Zenon DEF TypeOK
<1>2. Places
  BY EmptyQueue DEF Places
<1>3. Account
  <2>1. Live = {} /\ Kept = {}
    BY EmptyQueue, ToSetIsRange DEF Live, Kept, Queued, Trying
  <2>2. BytesOf({}) = {}
    BY DEF BytesOf
  <2>3. IsFiniteSet(BytesOf({})) /\ Bytes({}) = 0
    BY <2>2, FS_EmptySet DEF Bytes
  <2>. QED
    BY <2>1, <2>3 DEF Account
<1>4. Order
  BY DEF Order, Sent
<1>. QED
  BY <1>1, <1>2, <1>3, <1>4 DEF IInv

\* The queue and the loop of a frame that is not accepted are left alone.
LEMMA WriteCheckStep ==
  ASSUME IInv, NEW f \in Frames, WriteCheck(f)
  PROVE  IInv'
<1>. USE ConnectAssumption, IInv DEF IInv, WriteCheck, loopVars, ioVars
<1>a. Range(writeCh) \subseteq Frames
  BY RangeOfSeq DEF TypeOK
<1>1. Places'
  BY <1>a DEF TypeOK, Places
<1>2. Account' /\ pending' \in Nat
  <2>1. Live' = Live /\ Kept' = Kept
    BY DEF TypeOK, Live, Kept, Queued, Trying
  <2>. QED
    BY <2>1, AccountSame
<1>3. TypeOK'
  BY <1>2 DEF TypeOK
<1>4. Order'
  BY DEF Order, Sent
<1>. QED
  BY <1>1, <1>2, <1>3, <1>4

\* AddInt64: the bytes of the frame come, and it is let through within the limit.
LEMMA WriteAddStep ==
  ASSUME IInv, NEW f \in Frames, WriteAdd(f)
  PROVE  IInv'
<1>. USE ConnectAssumption, IInv DEF IInv, WriteAdd, loopVars, ioVars
<1>a. Range(writeCh) \subseteq Frames
  BY RangeOfSeq DEF TypeOK
<1>1. Places'
  BY <1>a DEF TypeOK, Places
<1>2. Account' /\ pending' \in Nat
  <2>1. f \notin Live /\ Live' = Live \cup {f}
    BY ToSetIsRange DEF TypeOK, Places, Live, Queued, Trying
  <2>2. Kept' = Kept \/ pending' <= MaxBytes
    <3>1. CASE pending' <= MaxBytes
      BY <3>1
    <3>2. CASE ~(pending' <= MaxBytes)
      <4>1. pending' > MaxBytes
        BY <3>2 DEF TypeOK
      <4>2. wpc' = [wpc EXCEPT ![f] = "over"]
        BY <4>1
      <4>. QED
        BY <4>2 DEF TypeOK, Kept, Queued
    <3>. QED
      BY <3>1, <3>2
  <2>. QED
    BY <2>1, <2>2, AccountMore
<1>3. TypeOK'
  BY <1>2 DEF TypeOK
<1>4. Order'
  BY DEF Order, Sent
<1>. QED
  BY <1>1, <1>2, <1>3, <1>4

\* Both refusals give the bytes back.
LEMMA WriteUndoStep ==
  ASSUME IInv, NEW f \in Frames, WriteUndo(f)
  PROVE  IInv'
<1>. USE ConnectAssumption, IInv DEF IInv, WriteUndo, loopVars, ioVars
<1>a. Range(writeCh) \subseteq Frames
  BY RangeOfSeq DEF TypeOK
<1>1. Places'
  BY <1>a DEF TypeOK, Places
<1>2. Account' /\ pending' \in Nat
  <2>1. f \in Live /\ Live' = Live \ {f} /\ Kept' \subseteq Kept
    BY ToSetIsRange DEF TypeOK, Places, Live, Kept, Queued, Trying
  <2>. QED
    BY <2>1, AccountLess
<1>3. TypeOK'
  BY <1>2 DEF TypeOK
<1>4. Order'
  BY DEF Order, Sent
<1>. QED
  BY <1>1, <1>2, <1>3, <1>4

\* The non-blocking send: the frame is the last of those accepted and of the channel.
LEMMA WriteSendStep ==
  ASSUME IInv, NEW f \in Frames, WriteSend(f)
  PROVE  IInv'
<1>. USE ConnectAssumption, IInv DEF IInv, WriteSend, loopVars, ioVars
<1>a. Range(writeCh) \subseteq Frames /\ f \notin Range(writeCh)
  BY RangeOfSeq DEF TypeOK, Places
<1>1. CASE Len(writeCh) >= QueueCap /\ wpc' = [wpc EXCEPT ![f] = "full"]
           /\ UNCHANGED <<writeCh, accepted>>
  <2>. USE <1>1
  <2>1. Places'
    BY <1>a DEF TypeOK, Places
  <2>2. Account' /\ pending' \in Nat
    <3>1. Live' = Live /\ Kept' \subseteq Kept
      BY DEF TypeOK, Live, Kept, Queued, Trying
    <3>. QED
      BY <3>1, AccountSame
  <2>3. TypeOK'
    BY <2>2 DEF TypeOK
  <2>4. Order'
    BY DEF Order, Sent
  <2>. QED
    BY <2>1, <2>2, <2>3, <2>4
<1>2. CASE writeCh' = Append(writeCh, f) /\ accepted' = Append(accepted, f)
           /\ wpc' = [wpc EXCEPT ![f] = "ok"]
  <2>. USE <1>2
  <2>a. /\ writeCh' \in Seq(Frames) /\ Range(writeCh)' = Range(writeCh) \cup {f}
        /\ IsInjective(writeCh)'
    <3>1. writeCh \in Seq(Frames) /\ IsInjective(writeCh)
      BY DEF TypeOK, Places
    <3>. QED
      BY <1>a, <3>1, AppendQueue
  <2>b. cur # f
    BY DEF Places
  <2>1. Places'
    BY <1>a, <2>a, <2>b DEF TypeOK, Places
  <2>2. Account' /\ pending' \in Nat
    <3>1. ToSet(writeCh)' = ToSet(writeCh) \cup {f}
      BY <2>a, ToSetIsRange DEF ToSet, Range
    <3>2. Live' = Live /\ Kept' \subseteq Kept
      BY <3>1 DEF TypeOK, Live, Kept, Queued, Trying
    <3>. QED
      BY <3>2, AccountSame
  <2>3. TypeOK'
    <3>1. accepted' \in Seq(Frames)
      BY AppendProperties DEF TypeOK
    <3>. QED
      BY <2>a, <2>2, <3>1 DEF TypeOK
  <2>4. Order'
    <3>1. /\ Len(accepted') = Len(accepted) + 1 /\ Len(accepted) \in Nat
          /\ \A i \in 1..Len(accepted) : accepted'[i] = accepted[i]
          /\ accepted'[Len(accepted) + 1] = f
      BY AppendProperties, LenProperties DEF TypeOK
    <3>2. /\ Len(writeCh') = Len(writeCh) + 1 /\ Len(writeCh) \in Nat
          /\ \A i \in 1..Len(writeCh) : writeCh'[i] = writeCh[i]
          /\ writeCh'[Len(writeCh) + 1] = f
      BY AppendProperties, LenProperties DEF TypeOK
    <3>3. Len(wire) \in Nat /\ Sent \in Nat /\ Sent' = Sent /\ Sent >= Len(wire)
          /\ (cur # NoFrame => Sent > 0)
      BY LenProperties DEF TypeOK, Sent
    <3>4. Len(wire') <= Len(accepted') /\ \A i \in 1..Len(wire') : wire'[i] = accepted'[i]
      BY <3>1, <3>3 DEF Order
    <3>5. ASSUME lpc \in {"select", "got", "writing"}
          PROVE  /\ Len(accepted') = Sent + Len(writeCh')
                 /\ cur # NoFrame => accepted'[Sent] = cur
                 /\ \A j \in 1..Len(writeCh') : accepted'[Sent + j] = writeCh'[j]
      <4>1. Len(accepted) = Sent + Len(writeCh)
        BY <3>5 DEF Order
      <4>2. cur # NoFrame => accepted'[Sent] = cur
        BY <3>1, <3>2, <3>3, <3>5, <4>1 DEF Order
      <4>3. ASSUME NEW j \in 1..Len(writeCh') PROVE accepted'[Sent + j] = writeCh'[j]
        <5>1. CASE j \in 1..Len(writeCh)
          <6>1. Sent + j \in 1..Len(accepted)
            BY <3>2, <3>3, <4>1, <5>1
          <6>2. accepted[Sent + j] = writeCh[j]
            BY <3>5, <5>1 DEF Order
          <6>. QED
            BY <3>1, <3>2, <5>1, <6>1, <6>2
        <5>2. CASE j = Len(writeCh) + 1
          <6>1. Sent + j = Len(accepted) + 1
            BY <3>2, <3>3, <4>1, <5>2
          <6>. QED
            BY <3>1, <3>2, <5>2, <6>1
        <5>3. j \in 1..Len(writeCh) \/ j = Len(writeCh) + 1
          <6>1. j \in 1..(Len(writeCh) + 1)
            BY <3>2, Zenon
          <6>. QED
            BY <3>2, <6>1
        <5>. QED
          BY <5>1, <5>2, <5>3, Zenon
      <4>4. Len(accepted') = Sent + Len(writeCh')
        BY <3>1, <3>2, <3>3, <4>1
      <4>. QED
        BY <4>2, <4>3, <4>4, Zenon
    <3>6. lpc' = lpc /\ cur' = cur
      OBVIOUS
    <3>. QED
      BY <3>3, <3>4, <3>5, <3>6, Zenon DEF Order
  <2>. QED
    BY <2>1, <2>2, <2>3, <2>4
<1>. QED
  BY <1>1, <1>2

-----------------------------------------------------------------------------
(* The steps of writeLoop and DoIO *)

\* The frame at the head of the channel comes into writeLoop's hands.
LEMMA LoopTakeStep ==
  ASSUME IInv, LoopTake
  PROVE  IInv'
<1>. USE ConnectAssumption, IInv DEF IInv, LoopTake, ioVars
<1>a. /\ cur' \in Frames /\ writeCh' \in Seq(Frames) /\ cur' \in Range(writeCh)
      /\ Range(writeCh)' \subseteq Range(writeCh) /\ IsInjective(writeCh)' /\ cur' \notin Range(writeCh)'
      /\ Range(writeCh) = Range(writeCh)' \cup {cur'}
  BY TailQueue, TailRange DEF TypeOK, Places
<1>b. cur = NoFrame /\ cur' # NoFrame
  BY <1>a DEF Places
<1>1. Places'
  BY <1>a, <1>b DEF TypeOK, Places
<1>2. Account' /\ pending' \in Nat
  <2>1. ToSet(writeCh) = ToSet(writeCh)' \cup {cur'}
    BY <1>a, ToSetIsRange DEF ToSet, Range
  <2>2. Queued' = Queued
    BY <1>b, <2>1 DEF Queued
  <2>3. Live' = Live /\ Kept' = Kept
    BY <2>2 DEF Live, Kept, Trying
  <2>. QED
    BY <2>3, AccountSame
<1>3. TypeOK'
  BY <1>a DEF TypeOK
<1>4. Order'
  <2>1. /\ Len(writeCh') = Len(writeCh) - 1 /\ Len(writeCh) \in Nat \ {0} /\ Len(wire) \in Nat
        /\ \A i \in 1..Len(writeCh') : writeCh'[i] = writeCh[i + 1]
        /\ cur' = writeCh[1]
    <3>1. /\ Len(Tail(writeCh)) = Len(writeCh) - 1
          /\ \A i \in 1..Len(Tail(writeCh)) : Tail(writeCh)[i] = writeCh[i + 1]
      BY HeadTailProperties DEF TypeOK
    <3>2. Len(writeCh) \in Nat \ {0} /\ Len(wire) \in Nat
      BY EmptySeq, LenProperties DEF TypeOK
    <3>. QED
      BY <3>1, <3>2
  <2>2. Sent = Len(wire) /\ Sent' = Sent + 1
    BY <1>b, <2>1 DEF Sent
  <2>3. /\ Len(accepted) = Sent + Len(writeCh)
        /\ \A j \in 1..Len(writeCh) : accepted[Sent + j] = writeCh[j]
    BY DEF Order
  <2>4. Len(accepted') = Sent' + Len(writeCh') /\ accepted'[Sent'] = cur'
    BY <2>1, <2>2, <2>3
  <2>5. ASSUME NEW j \in 1..Len(writeCh') PROVE accepted'[Sent' + j] = writeCh'[j]
    <3>1. j + 1 \in 1..Len(writeCh) /\ Sent + (j + 1) = Sent' + j
      BY <2>1, <2>2
    <3>. QED
      BY <2>1, <2>3, <3>1
  <2>6. Len(wire') <= Len(accepted') /\ \A i \in 1..Len(wire') : wire'[i] = accepted'[i]
    BY DEF Order
  <2>. QED
    BY <2>4, <2>5, <2>6, Zenon DEF Order
<1>. QED
  BY <1>1, <1>2, <1>3, <1>4

\* What becomes of the account and the places when writeLoop is done with its frame.
LEMMA FrameDone ==
  ASSUME IInv, lpc \in {"got", "writing"}, pending' = pending - FLen[cur],
         cur' = NoFrame, lpc' \in {"select", "ended"}, UNCHANGED <<writeCh, wpc>>
  PROVE  Places' /\ Account' /\ pending' \in Nat /\ cur \in Frames
<1>. USE ConnectAssumption, IInv DEF IInv
<1>1. cur \in Frames /\ cur \notin Range(writeCh) /\ wpc[cur] = "ok"
  BY DEF TypeOK, Places
<1>2. Places'
  BY DEF Places
<1>3. cur \in Live /\ Live' = Live \ {cur} /\ Kept' \subseteq Kept
  BY <1>1, ToSetIsRange DEF Live, Kept, Queued, Trying
<1>4. Account' /\ pending' \in Nat
  BY <1>1, <1>3, AccountLess
<1>. QED
  BY <1>1, <1>2, <1>4

\* conn.Write takes the frame in writeLoop's hands, the next of those accepted.
LEMMA LoopWriteStep ==
  ASSUME IInv, LoopWrite
  PROVE  IInv'
<1>. USE ConnectAssumption, IInv DEF IInv, LoopWrite, ioVars
<1>1. Places' /\ Account' /\ pending' \in Nat /\ cur \in Frames
  BY FrameDone
<1>2. /\ Len(wire') = Len(wire) + 1 /\ Len(wire) \in Nat /\ wire' \in Seq(Frames)
      /\ \A i \in 1..Len(wire) : wire'[i] = wire[i]
      /\ wire'[Len(wire) + 1] = cur
  BY <1>1, AppendProperties, LenProperties DEF TypeOK
<1>3. TypeOK'
  BY <1>1, <1>2 DEF TypeOK
<1>4. Order'
  <2>1. Sent = Len(wire) + 1 /\ Sent' = Sent
    <3>1. cur # NoFrame /\ cur' = NoFrame
      BY <1>1
    <3>. QED
      BY <1>2, <3>1 DEF Sent
  <2>2. /\ Len(accepted) = Sent + Len(writeCh) /\ accepted[Sent] = cur
        /\ \A j \in 1..Len(writeCh) : accepted[Sent + j] = writeCh[j]
    BY <1>1 DEF Order
  <2>3. Len(writeCh) \in Nat
    BY LenProperties DEF TypeOK
  <2>4. Len(wire') <= Len(accepted)
    BY <1>2, <2>1, <2>2, <2>3
  <2>5. ASSUME NEW i \in 1..Len(wire') PROVE wire'[i] = accepted[i]
    <3>1. i \in 1..Len(wire) \/ i = Len(wire) + 1
      <4>1. i \in 1..(Len(wire) + 1)
        BY <1>2, Zenon
      <4>. QED
        BY <1>2, <4>1
    <3>2. CASE i \in 1..Len(wire)
      BY <1>2, <3>2 DEF Order
    <3>3. CASE i = Len(wire) + 1
      BY <1>2, <2>1, <2>2, <3>3
    <3>. QED
      BY <3>1, <3>2, <3>3, Zenon
  <2>6. UNCHANGED <<accepted, writeCh>> /\ cur' = NoFrame
    OBVIOUS
  <2>. QED
    BY <2>1, <2>2, <2>4, <2>5, <2>6, Zenon DEF Order
<1>. QED
  BY <1>1, <1>3, <1>4

\* The frame in writeLoop's hands is lost with the connection, and writeLoop ends.
LoopGivesUp ==
  /\ lpc \in {"got", "writing"} /\ closed' = TRUE /\ sock' \in {sock, "shut"}
  /\ pending' = pending - FLen[cur] /\ cur' = NoFrame /\ lpc' = "ended"
  /\ UNCHANGED <<writeCh, wpc, wire, accepted, hasConn, hasRun, dpc>>

\* The lost frame is taken off the account, like a written one.
LEMMA LoopGivesUpStep ==
  ASSUME IInv, LoopGivesUp
  PROVE  IInv'
<1>. USE ConnectAssumption, IInv DEF IInv, LoopGivesUp
<1>1. Places' /\ Account' /\ pending' \in Nat
  BY FrameDone
<1>2. TypeOK'
  BY <1>1 DEF TypeOK
<1>3. Order'
  BY DEF Order
<1>. QED
  BY <1>1, <1>2, <1>3

\* After closeCh a frame of the channel is dropped and its bytes given back.
LEMMA LoopDrainStep ==
  ASSUME IInv, LoopDrain
  PROVE  IInv'
<1>. USE ConnectAssumption, IInv DEF IInv, LoopDrain, ioVars
<1>. DEFINE f == Head(writeCh)
<1>a. /\ f \in Frames /\ writeCh' \in Seq(Frames) /\ f \in Range(writeCh)
      /\ Range(writeCh)' \subseteq Range(writeCh) /\ IsInjective(writeCh)' /\ f \notin Range(writeCh)'
      /\ Range(writeCh) = Range(writeCh)' \cup {f}
  BY TailQueue, TailRange DEF TypeOK, Places
<1>b. cur = NoFrame
  BY DEF Places
<1>1. Places'
  BY <1>a, <1>b DEF Places
<1>2. Account' /\ pending' \in Nat
  <2>1. ToSet(writeCh)' = ToSet(writeCh) \ {f} /\ f \in ToSet(writeCh)
    BY <1>a, ToSetIsRange DEF ToSet, Range
  <2>2. Queued' = Queued \ {f} /\ f \in Queued
    BY <1>b, <2>1 DEF Queued
  <2>3. f \notin Trying /\ Trying' = Trying
    BY <1>a DEF Places, Trying
  <2>4. Live' = Live \ {f} /\ Kept' \subseteq Kept /\ f \in Live
    BY <2>2, <2>3 DEF Live, Kept
  <2>5. pending' = pending - FLen[f]
    OBVIOUS
  <2>. HIDE DEF f
  <2>. QED
    BY <1>a, <2>4, <2>5, AccountLess
<1>3. TypeOK'
  BY <1>a, <1>2 DEF TypeOK
<1>4. Order'
  BY DEF Order
<1>. QED
  BY <1>1, <1>2, <1>3, <1>4

\* The steps that touch no frame: writeLoop looks at closeCh and at Conn and returns,
\* and DoIO and the peer end the connection.
Quiet ==
  /\ \/ lpc' = lpc
     \/ lpc = "select" /\ lpc' = "drain"
     \/ lpc = "got" /\ lpc' = "writing"
     \/ lpc = "drain" /\ lpc' = "ended"
  /\ closed' \in BOOLEAN /\ sock' \in {"up", "broken", "shut"}
  /\ hasConn' \in BOOLEAN /\ hasRun' \in BOOLEAN
  /\ dpc' \in {"read", "signal", "shut", "nil", "forget", "ended"}
  /\ UNCHANGED <<pending, writeCh, wpc, cur, wire, accepted>>

\* Steps that touch neither the frames nor the account keep the invariant.
LEMMA QuietStep ==
  ASSUME IInv, Quiet
  PROVE  IInv'
<1>. USE ConnectAssumption, IInv DEF IInv, Quiet
<1>1. TypeOK'
  BY DEF TypeOK
<1>2. Places'
  BY DEF Places
<1>3. Account'
  <2>1. Live' = Live /\ Kept' = Kept
    BY DEF Live, Kept, Queued, Trying
  <2>. QED
    BY <2>1, AccountSame
<1>4. Order'
  BY DEF Order, Sent
<1>. QED
  BY <1>1, <1>2, <1>3, <1>4

\* Every other step of Next is a quiet one.
LEMMA OtherSteps ==
  ASSUME IInv, \/ LoopSeesClose \/ LoopReturn \/ CloseStep
               \/ PeerBreaks \/ ReadOk \/ ReadFails \/ UNCHANGED vars
  PROVE  Quiet
<1>. USE DEF IInv, TypeOK, Quiet, ioVars, loopVars
<1>1. CASE LoopSeesClose \/ LoopReturn
  BY <1>1 DEF LoopSeesClose, LoopReturn
<1>2. CASE CloseStep
  BY <1>2 DEF CloseStep, CloseSignal, CloseSocket, CloseConn, CloseRun
<1>3. CASE PeerBreaks \/ ReadOk \/ ReadFails
  BY <1>3 DEF PeerBreaks, ReadOk, ReadFails
<1>4. CASE UNCHANGED vars
  BY <1>4 DEF vars
<1>. QED
  BY <1>1, <1>2, <1>3, <1>4

\* conn := c.Conn: writeLoop goes on to write, or gives up.
LEMMA LoopConnStep ==
  ASSUME IInv, LoopConn
  PROVE  IInv'
<1>1. Quiet \/ LoopGivesUp
  BY DEF IInv, TypeOK, LoopConn, Quiet, LoopGivesUp
<1>. QED
  BY <1>1, QuietStep, LoopGivesUpStep

\* The invariant is inductive.
LEMMA NextIInv ==
  ASSUME IInv, [Next]_vars
  PROVE  IInv'
<1>1. CASE \E f \in Frames : WriteStep(f)
  BY <1>1, WriteCheckStep, WriteAddStep, WriteSendStep, WriteUndoStep DEF WriteStep
<1>2. CASE LoopTake \/ LoopConn \/ LoopWrite \/ LoopDrain
  BY <1>2, LoopTakeStep, LoopConnStep, LoopWriteStep, LoopDrainStep
<1>3. CASE LoopFail
  <2>1. LoopGivesUp
    BY <1>3 DEF LoopFail, LoopGivesUp
  <2>. QED
    BY <2>1, LoopGivesUpStep
<1>4. CASE \/ LoopSeesClose \/ LoopReturn \/ CloseStep
           \/ PeerBreaks \/ ReadOk \/ ReadFails \/ UNCHANGED vars
  BY <1>4, OtherSteps, QuietStep
<1>. QED
  BY <1>1, <1>2, <1>3, <1>4 DEF Next, LoopStep

-----------------------------------------------------------------------------
(* The theorems *)

\* The inductive invariant holds in every behaviour of the connection.
THEOREM Invariance == Spec => []IInv
<1>1. Init => IInv
  BY InitIInv
<1>2. IInv /\ [Next]_vars => IInv'
  BY NextIInv
<1>. QED
  BY <1>1, <1>2, PTL DEF Spec

\* Write and writeLoop: pendingBytes is the bytes of the frames being written, queued or
\* in writeLoop's hands, each once, and the accepted ones stay within maxPendingBytes,
\* for any frames and limits and however many goroutines write at once.
THEOREM PendingIsExact == Spec => []PendingExact
<1>1. ASSUME IInv PROVE PendingExact
  <2>. USE <1>1, ConnectAssumption DEF IInv
  <2>1. Queued \cap Trying = {}
    BY ToSetIsRange DEF TypeOK, Places, Queued, Trying
  <2>2. IsFiniteSet(BytesOf(Queued)) /\ IsFiniteSet(BytesOf(Trying)) /\ IsFiniteSet(BytesOf(Kept))
    BY KeptIsLive, BytesMonotonic DEF Account, Live
  <2>3. pending = Bytes(Queued) + Bytes(Trying)
    BY <2>1, <2>2, BytesDisjoint DEF Account, Live
  <2>4. Bytes(Queued) <= Bytes(Kept) /\ Bytes(Queued) \in Nat /\ Bytes(Kept) \in Nat
    BY <2>2, BytesMonotonic DEF Kept
  <2>5. Bytes(Queued) <= MaxBytes
    BY <2>4 DEF Account
  <2>. QED
    BY <2>3, <2>5 DEF PendingExact
<1>. QED
  BY <1>1, Invariance, PTL

\* writeLoop: what the peer receives is a prefix of what Write accepted, in that order,
\* without a gap or a repetition, also while the connection is being closed.
THEOREM WireIsInOrder == Spec => []WireInOrder
<1>1. ASSUME IInv PROVE WireInOrder
  <2>. USE <1>1 DEF IInv
  <2>1. /\ wire \in Seq(Frames) /\ accepted \in Seq(Frames)
        /\ Len(wire) <= Len(accepted) /\ \A i \in 1..Len(wire) : wire[i] = accepted[i]
    BY DEF TypeOK, Order
  <2>. QED
    BY <2>1, SamePrefix DEF WireInOrder
<1>. QED
  BY <1>1, Invariance, PTL

-----------------------------------------------------------------------------
(* FuncMap *)

(***************************************************************************)
(* The registry.  While calls do not overlap one goroutine is inside it    *)
(* at most; RegFor(g) describes the registry in the middle of what g does, *)
(* and of an idle g it is what holds between two calls.                    *)
(***************************************************************************)
Adding == {"count", "store", "inc", "read", "append"}
Finding == {"scan", "cut", "shrink"}
Removing == Finding \cup {"next", "dec", "zero", "delete", "uncount"}
Picking == {"load", "rand", "index", "check"}
RegistrySteps == {"idle"} \cup Adding \cup Removing \cup Picking

\* No goroutine but g is inside.
Solo(g) == \A h \in Goroutines \ {g} : pc[h] = "idle" /\ loc[h] = NoLocals

Served == {n \in Names : funcs[n] # 0}

\* A name has an object of its own.
ObjectsApart == \A m, n \in Served : funcs[m] = funcs[n] => m = n

\* FuncNum is the number of functions, but for the one that g is about to store or has deleted.
FunctionCount(g) ==
  /\ IsFiniteSet(Served)
  /\ funcNum = Cardinality(Served) + (IF pc[g] \in {"store", "uncount"} THEN 1 ELSE 0)

\* WorkerNum is the length of Workers, but for the worker that g is about to append or has cut out.
WorkerCount(g) ==
  \A n \in Served :
    num[funcs[n]] = Len(list[funcs[n]])
                    + (IF pc[g] \in {"read", "append", "dec"} /\ loc[g].obj = funcs[n] THEN 1 ELSE 0)

\* Who is listed under n, as it will be once the slice that g has cut is stored.
Entries(g, n) ==
  IF n \notin Served THEN <<>>
  ELSE IF pc[g] = "shrink" /\ loc[g].obj = funcs[n] THEN loc[g].new ELSE list[funcs[n]]

\* g is about to be listed under n, or to be taken out once on its own request.
Announcing(g, n) == pc[g] \in Adding /\ loc[g].name = n
Withdrawing(g, n) ==
  loc[g].mode = "func" /\ (n \in loc[g].todo \/ (pc[g] \in {"scan", "cut"} /\ loc[g].fn = n))

\* How the entries of w under n and its announcements go together.
Tally(g, w, n) ==
  LET t == Times(Entries(g, n), w)
      a == added[w][n]
  IN
  /\ w = g /\ Announcing(g, n) => a = t + 1
  /\ w = g /\ Withdrawing(g, n) => t = a + 1 \/ (t = 0 /\ a = 0)
  /\ ~(w = g /\ (Announcing(g, n) \/ Withdrawing(g, n))) => a = t

\* A live worker is listed where it announced itself, as often as that, and nowhere else.
Membership(g) == \A w \in Workers, n \in Names : conn[w] = "open" => Tally(g, w, n)

\* Only the goroutine of a connection is cleaning up after it.
Leaving(g) == \A w \in Workers : conn[w] = "closing" => w = g /\ pc[g] \in Removing

\* Where g stands in AddFunc.
AddPlace(g) ==
  LET o == loc[g].obj IN
  pc[g] \in Adding =>
    /\ g \in Workers /\ conn[g] = "open" /\ loc[g].name \in Names /\ o \in Objs
    /\ loc[g].mode = "none"
    /\ pc[g] \in {"count", "store"} =>
         /\ funcs[loc[g].name] = 0 /\ (\A n \in Names : funcs[n] # o)
         /\ num[o] = 0 /\ list[o] = <<>>
    /\ pc[g] \in {"inc", "read", "append"} => funcs[loc[g].name] = o
    /\ pc[g] = "append" => loc[g].new = Append(list[o], g)

\* Whom g takes out.
Target(g) ==
  pc[g] \in Removing =>
    /\ loc[g].who \in Workers
    /\ g \in Workers => loc[g].who = g /\ loc[g].mode \in {"func", "clean", "eof"}
    /\ g \in Workers => conn[g] = IF loc[g].mode = "func" THEN "open" ELSE "closing"
    /\ g \in Callers => loc[g].mode = "clean" /\ conn[loc[g].who] = "gone" /\ loc[g].name \in Names

\* Where g stands in a removal.
RemovePlace(g) ==
  LET o == loc[g].obj
      s == list[o]
  IN
  /\ pc[g] \in Finding \cup {"dec", "zero", "delete"} => o \in Objs /\ loc[g].fn \in Names /\ funcs[loc[g].fn] = o
  /\ pc[g] = "cut" => loc[g].k \in 1..Len(s) /\ s[loc[g].k] = loc[g].who
  /\ pc[g] \in Finding => loc[g].fn \notin loc[g].todo
  /\ pc[g] = "shrink" => Len(s) = Len(loc[g].new) + 1
  /\ pc[g] = "delete" => num[o] = 0
  /\ pc[g] = "uncount" => loc[g].fn \in Names /\ funcs[loc[g].fn] = 0

\* Where g stands in GetBestWorker.
PickPlace(g) ==
  LET o == loc[g].obj IN
  pc[g] \in Picking =>
    /\ g \in Callers /\ loc[g].name \in Names /\ loc[g].mode = "clean"
    /\ pc[g] \in {"rand", "index", "check"} => o \in Objs /\ funcs[loc[g].name] = o
    /\ pc[g] = "rand" => num[o] > 0
    /\ pc[g] = "index" => loc[g].k \in 1..num[o]
    /\ pc[g] = "check" => loc[g].who \in ToSet(list[o])

RegFor(g) ==
  /\ RegistryTypeOK /\ pc \in [Goroutines -> RegistrySteps] /\ ~panicked
  /\ pc[g] = "idle" => loc[g] = NoLocals
  /\ ObjectsApart /\ FunctionCount(g) /\ WorkerCount(g) /\ Membership(g) /\ Leaving(g)
  /\ AddPlace(g) /\ Target(g) /\ RemovePlace(g) /\ PickPlace(g)

RegInv == met \in Nat /\ (met = 0 => \E g \in Goroutines : Solo(g) /\ RegFor(g))

-----------------------------------------------------------------------------
(* Slices *)

\* Who is in a sequence, by its places.
LEMMA SetPlaces ==
  ASSUME NEW S, NEW s \in Seq(S), NEW x
  PROVE  x \in ToSet(s) <=> \E i \in 1..Len(s) : s[i] = x
  BY DEF ToSet

\* How often a sequence has x is a number.
LEMMA TimesType ==
  ASSUME NEW S, NEW s \in Seq(S), NEW x
  PROVE  IsFiniteSet({i \in DOMAIN s : s[i] = x}) /\ Times(s, x) \in Nat
  <1>1. IsFiniteSet(1..Len(s)) /\ DOMAIN s = 1..Len(s)
    BY FS_Interval
  <1>2. IsFiniteSet({i \in DOMAIN s : s[i] = x})
    BY <1>1, FS_Subset
  <1> QED BY <1>2, FS_CardinalityType DEF Times

\* A sequence has what it has at some place.
LEMMA TimesPositive ==
  ASSUME NEW S, NEW s \in Seq(S), NEW x
  PROVE  /\ Times(s, x) > 0 <=> \E i \in 1..Len(s) : s[i] = x
         /\ Times(s, x) = 0 <=> \A i \in 1..Len(s) : s[i] # x
  <1> DEFINE I == {i \in DOMAIN s : s[i] = x}
  <1>1. IsFiniteSet(I) /\ Cardinality(I) \in Nat /\ Times(s, x) = Cardinality(I)
    BY TimesType DEF Times
  <1>2. Cardinality(I) = 0 <=> I = {}
    BY <1>1, FS_EmptySet
  <1>3. I = {} <=> \A i \in 1..Len(s) : s[i] # x
    OBVIOUS
  <1> HIDE DEF I
  <1> QED BY <1>1, <1>2, <1>3

\* A new last entry.
LEMMA TimesAppend ==
  ASSUME NEW S, NEW s \in Seq(S), NEW x \in S, NEW y
  PROVE  Times(Append(s, x), y) = Times(s, y) + (IF x = y THEN 1 ELSE 0)
  <1> DEFINE a == Append(s, x)
             I == {i \in DOMAIN s : s[i] = y}
             J == {i \in DOMAIN a : a[i] = y}
             m == Len(s) + 1
  <1>1. /\ DOMAIN s = 1..Len(s) /\ DOMAIN a = 1..m /\ a[m] = x /\ \A i \in 1..Len(s) : a[i] = s[i]
        /\ Len(s) \in Nat
    OBVIOUS
  <1>2. IsFiniteSet(I) /\ Cardinality(I) \in Nat /\ Times(s, y) = Cardinality(I) /\ Times(a, y) = Cardinality(J)
    BY TimesType, FS_CardinalityType DEF Times
  <1>3. m \notin I
    BY <1>1
  <1>4. CASE x = y
    <2>1. J = I \cup {m}
      BY <1>1, <1>4
    <2>2. Cardinality(J) = Cardinality(I) + 1
      BY <1>2, <1>3, <2>1, FS_AddElement
    <2> HIDE DEF I, J, a
    <2> QED BY <1>2, <1>4, <2>2 DEF a
  <1>5. CASE x # y
    <2>1. J = I
      BY <1>1, <1>5
    <2> HIDE DEF I, J, a
    <2> QED BY <1>2, <1>5, <2>1 DEF a
  <1> QED BY <1>4, <1>5

\* c is s without its place k.
Without(s, k, c) ==
  /\ Len(c) = Len(s) - 1
  /\ \A i \in 1..(k - 1) : c[i] = s[i]
  /\ \A i \in k..(Len(s) - 1) : c[i] = s[i + 1]

\* A slice without its place k: who was there is in it once less.
LEMMA TimesCut ==
  ASSUME NEW S, NEW s \in Seq(S), NEW k \in 1..Len(s), NEW y,
         NEW c \in Seq(S), Without(s, k, c)
  PROVE  Times(c, y) = Times(s, y) - (IF s[k] = y THEN 1 ELSE 0)
  <1> DEFINE I == {i \in DOMAIN s : s[i] = y}
             J == {i \in DOMAIN c : c[i] = y}
             f == [j \in J |-> IF j < k THEN j ELSE j + 1]
  <1>0. /\ Len(c) = Len(s) - 1
        /\ \A i \in 1..(k - 1) : c[i] = s[i]
        /\ \A i \in k..(Len(s) - 1) : c[i] = s[i + 1]
    BY DEF Without
  <1>1. /\ DOMAIN s = 1..Len(s) /\ DOMAIN c = 1..(Len(s) - 1) /\ Len(s) \in Nat /\ k \in Nat
        /\ 1 <= k /\ k <= Len(s)
    BY <1>0
  <1>2. /\ IsFiniteSet(I) /\ Cardinality(I) \in Nat /\ Times(s, y) = Cardinality(I)
        /\ IsFiniteSet(J) /\ Cardinality(J) \in Nat /\ Times(c, y) = Cardinality(J)
    BY TimesType, FS_CardinalityType DEF Times
  <1>3. ASSUME NEW j \in J PROVE f[j] \in I \ {k} /\ f[j] = IF j < k THEN j ELSE j + 1
    <2>1. CASE j < k BY <1>0, <1>1, <2>1
    <2>2. CASE j >= k BY <1>0, <1>1, <2>2
    <2> QED BY <1>1, <2>1, <2>2
  <1>4. ASSUME NEW i \in I \ {k} PROVE \E j \in J : f[j] = i
    <2>1. CASE i < k
      <3>1. i \in J /\ f[i] = i BY <1>0, <1>1, <2>1
      <3> QED BY <3>1
    <2>2. CASE i > k
      <3>1. i - 1 \in J BY <1>0, <1>1, <2>2
      <3>2. f[i - 1] = i BY <1>1, <2>2, <3>1
      <3> QED BY <3>1, <3>2
    <2>3. i \in Nat /\ i # k
      BY <1>1
    <2>4. i < k \/ i > k
      BY <1>1, <2>3
    <2> QED BY <2>1, <2>2, <2>4
  <1>5. ASSUME NEW i \in J, NEW j \in J, f[i] = f[j] PROVE i = j
    BY <1>1, <1>3, <1>5
  <1>6. f \in Bijection(J, I \ {k})
    <2>1. f \in [J -> I \ {k}]
      BY <1>3
    <2> HIDE DEF f, J, I
    <2> QED BY <2>1, <1>4, <1>5 DEF Bijection, Injection, Surjection, IsInjective
  <1> HIDE DEF f, J, I
  <1>7. Cardinality(I \ {k}) = Cardinality(J)
    BY <1>2, <1>6, FS_Bijection DEF ExistsBijection
  <1>8. CASE s[k] = y
    <2>1. k \in I
      BY <1>1, <1>8 DEF I
    <2>2. Cardinality(I \ {k}) = Cardinality(I) - 1
      BY <1>2, <2>1, FS_RemoveElement
    <2> QED BY <1>2, <1>7, <1>8, <2>2
  <1>9. CASE s[k] # y
    <2>1. I \ {k} = I
      BY <1>9 DEF I
    <2>2. Times(c, y) = Times(s, y) /\ Times(s, y) \in Nat
      BY <1>2, <1>7, <2>1
    <2> QED BY <1>9, <2>2
  <1> QED BY <1>8, <1>9
\* A slice without its place k, and what is in memory until the header is stored.
LEMMA CutOut ==
  ASSUME NEW S, NEW s \in Seq(S), NEW k \in 1..Len(s)
  PROVE  LET c == RemoveAt(s, k)
             d == Append(c, Last(s))
         IN /\ c \in Seq(S) /\ d \in Seq(S)
            /\ Len(s) = Len(c) + 1 /\ Len(d) = Len(c) + 1
            /\ \A y : Times(c, y) = Times(s, y) - (IF s[k] = y THEN 1 ELSE 0)
  <1> DEFINE c == RemoveAt(s, k)
             d == Append(c, Last(s))
  <1>1. Len(s) \in Nat /\ k - 1 \in Nat /\ k + 1 \in Nat /\ k \in Nat /\ k <= Len(s) /\ k >= 1
    OBVIOUS
  <1>2. /\ SubSeq(s, 1, k - 1) \in Seq(S) /\ Len(SubSeq(s, 1, k - 1)) = k - 1
        /\ \A i \in 1..(k - 1) : SubSeq(s, 1, k - 1)[i] = s[i]
    BY <1>1
  <1>3. /\ SubSeq(s, k + 1, Len(s)) \in Seq(S) /\ Len(SubSeq(s, k + 1, Len(s))) = Len(s) - k
        /\ \A i \in 1..(Len(s) - k) : SubSeq(s, k + 1, Len(s))[i] = s[k + i]
    BY <1>1
  <1>4. /\ c \in Seq(S) /\ Len(c) = Len(s) - 1
        /\ \A i \in 1..(k - 1) : c[i] = s[i]
        /\ \A i \in k..(Len(s) - 1) : c[i] = s[i + 1]
    <2>1. c = SubSeq(s, 1, k - 1) \o SubSeq(s, k + 1, Len(s))
      BY DEF RemoveAt
    <2> DEFINE a == SubSeq(s, 1, k - 1)
               b == SubSeq(s, k + 1, Len(s))
    <2> HIDE DEF a, b, c
    <2>2. /\ a \in Seq(S) /\ Len(a) = k - 1 /\ b \in Seq(S) /\ Len(b) = Len(s) - k /\ c = a \o b
          /\ \A i \in 1..(k - 1) : a[i] = s[i]
          /\ \A i \in 1..(Len(s) - k) : b[i] = s[k + i]
      BY <1>2, <1>3, <2>1 DEF a, b
    <2>3. c \in Seq(S) /\ Len(c) = Len(s) - 1
      <3>1. ASSUME NEW u \in Seq(S), NEW v \in Seq(S)
            PROVE  u \o v \in Seq(S) /\ Len(u \o v) = Len(u) + Len(v)
        OBVIOUS
      <3> QED BY <1>1, <2>2, <3>1
    <2>4. ASSUME NEW i \in 1..(k - 1) PROVE c[i] = s[i]
      BY <1>1, <2>2
    <2>5. ASSUME NEW i \in k..(Len(s) - 1) PROVE c[i] = s[i + 1]
      <3>1. c[i] = b[i - (k - 1)] /\ i - (k - 1) \in 1..(Len(s) - k) /\ k + (i - (k - 1)) = i + 1
        BY <1>1, <2>2
      <3> QED BY <2>2, <3>1
    <2> QED BY <2>3, <2>4, <2>5
  <1> HIDE DEF c
  <1>5. Last(s) \in S /\ Last(s) = s[Len(s)]
    BY <1>1 DEF Last
  <1>6. /\ d \in Seq(S) /\ Len(d) = Len(s) /\ d[Len(s)] = s[Len(s)]
        /\ \A i \in 1..(Len(s) - 1) : d[i] = c[i]
    BY <1>1, <1>4, <1>5
  <1> HIDE DEF d
  <1>7. ASSUME NEW y PROVE Times(c, y) = Times(s, y) - (IF s[k] = y THEN 1 ELSE 0)
    <2>1. Without(s, k, c)
      BY <1>4 DEF Without
    <2> QED BY <1>4, <2>1, TimesCut
  <1>8. Len(s) = Len(c) + 1 /\ Len(d) = Len(c) + 1
    BY <1>1, <1>4, <1>6
  <1> QED BY <1>4, <1>6, <1>7, <1>8 DEF c, d

-----------------------------------------------------------------------------
(* One goroutine inside *)

\* The local variables when a goroutine comes in, and how they are set.
LEMMA NoLocalsType == NoLocals \in Locals
  <1>1. {} \in SUBSET Names /\ <<>> \in Seq(Workers) /\ 0 \in 0..MaxObjs
    BY FuncMapAssumption
  <1> QED BY <1>1 DEF NoLocals, Locals

\* The name and the object are set.
LEMMA SetNameObj ==
  ASSUME NEW l \in Locals, NEW n \in Names, NEW o \in 0..MaxObjs
  PROVE  LET m == [l EXCEPT !.name = n, !.obj = o] IN
         m \in Locals /\ m.name = n /\ m.obj = o /\ m.mode = l.mode
  BY DEF Locals

\* A new slice is set.
LEMMA SetNew ==
  ASSUME NEW l \in Locals, NEW s \in Seq(Workers)
  PROVE  LET m == [l EXCEPT !.new = s] IN
         /\ m \in Locals /\ m.name = l.name /\ m.fn = l.fn /\ m.obj = l.obj /\ m.k = l.k
         /\ m.new = s /\ m.who = l.who /\ m.todo = l.todo /\ m.mode = l.mode
  BY DEF Locals

\* What g does on its own leaves the others outside.
LEMMA StaysSolo ==
  ASSUME NEW g \in Goroutines, Solo(g), RegFor(g), NEW p \in RegistrySteps, NEW l \in Locals,
         pc' = [pc EXCEPT ![g] = p], loc' = [loc EXCEPT ![g] = l]
  PROVE  /\ Solo(g)' /\ pc' \in [Goroutines -> RegistrySteps] /\ loc' \in [Goroutines -> Locals]
         /\ pc'[g] = p /\ loc'[g] = l
  BY DEF Solo, RegFor, RegistryTypeOK

\* The slices that are listed are slices of workers.
LEMMA EntriesType ==
  ASSUME NEW g \in Goroutines, RegFor(g), NEW n \in Names
  PROVE  Entries(g, n) \in Seq(Workers)
  <1>1. funcs[n] \in 0..MaxObjs /\ list \in [Objs -> Seq(Workers)] /\ loc[g] \in Locals
    BY DEF RegFor, RegistryTypeOK
  <1>2. n \in Served => funcs[n] \in Objs
    BY <1>1, FuncMapAssumption DEF Served, Objs
  <1>3. loc[g].new \in Seq(Workers) /\ <<>> \in Seq(Workers)
    BY <1>1 DEF Locals
  <1> QED BY <1>1, <1>2, <1>3 DEF Entries

\* The tally is the same while neither side of it changes.
LEMMA TallySame ==
  ASSUME NEW g, NEW w \in Workers, NEW n \in Names, Tally(g, w, n),
         added'[w][n] = added[w][n], Entries(g, n)' = Entries(g, n),
         w = g => (Announcing(g, n)' <=> Announcing(g, n)),
         w = g => (Withdrawing(g, n)' <=> Withdrawing(g, n))
  PROVE  Tally(g, w, n)'
  BY DEF Tally

\* A step that only moves g and sets its locals: what is left to show of RegFor.
LEMMA OnlyLocal ==
  ASSUME NEW g \in Goroutines, Solo(g), RegFor(g), NEW p \in RegistrySteps, NEW l \in Locals,
         pc' = [pc EXCEPT ![g] = p], loc' = [loc EXCEPT ![g] = l],
         UNCHANGED <<funcs, funcNum, num, list, conn, added, panicked>>,
         p = "idle" => l = NoLocals,
         pc[g] \notin {"store", "uncount", "inc", "read", "append", "shrink", "dec"},
         p \notin {"store", "uncount", "read", "append", "shrink", "dec"},
         \A n \in Names : g \in Workers /\ conn[g] = "open" => Tally(g, g, n)',
         \A w \in Workers : conn[w] = "closing" => p \in Removing,
         (AddPlace(g) /\ Target(g) /\ RemovePlace(g) /\ PickPlace(g))'
  PROVE  Solo(g)' /\ RegFor(g)'
  <1>1. /\ Solo(g)' /\ pc' \in [Goroutines -> RegistrySteps] /\ loc' \in [Goroutines -> Locals]
        /\ pc'[g] = p /\ loc'[g] = l
    BY StaysSolo
  <1>2. RegistryTypeOK' /\ ~panicked' /\ Served' = Served /\ ObjectsApart'
    BY <1>1 DEF RegFor, RegistryTypeOK, Served, ObjectsApart
  <1>3. FunctionCount(g)'
    BY <1>1, <1>2 DEF RegFor, FunctionCount
  <1>4. WorkerCount(g)'
    BY <1>1, <1>2 DEF RegFor, WorkerCount
  <1>6. Membership(g)'
    <2> SUFFICES ASSUME NEW w \in Workers, NEW n \in Names, conn[w] = "open" PROVE Tally(g, w, n)'
      BY DEF Membership
    <2>1. CASE w # g
      <3>1. Entries(g, n)' = Entries(g, n)
        BY <1>1, <1>2 DEF Entries
      <3>2. Tally(g, w, n)
        BY DEF RegFor, Membership
      <3> QED BY <2>1, <3>1, <3>2, TallySame
    <2>2. CASE w = g
      BY <2>2
    <2> QED BY <2>1, <2>2
  <1>7. Leaving(g)'
    BY <1>1 DEF RegFor, Leaving
  <1> QED BY <1>1, <1>2, <1>3, <1>4, <1>6, <1>7 DEF RegFor

\* Being inside is being alone inside.
LEMMA IdleElsewhere ==
  ASSUME NEW g \in Goroutines, NEW h \in Goroutines, Solo(g), pc[h] # "idle"
  PROVE  h = g
  BY DEF Solo

\* Between two calls the registry is the same for everyone.
LEMMA SwitchIdle ==
  ASSUME NEW g \in Goroutines, NEW h \in Goroutines, Solo(g), RegFor(g), pc[g] = "idle"
  PROVE  Solo(h) /\ RegFor(h) /\ pc[h] = "idle" /\ loc[h] = NoLocals
  <1>1. \A x \in Goroutines : pc[x] = "idle" /\ loc[x] = NoLocals
    BY DEF Solo, RegFor
  <1>2. Solo(h)
    BY <1>1 DEF Solo
  <1>3. FunctionCount(h) /\ WorkerCount(h)
    BY <1>1 DEF RegFor, FunctionCount, WorkerCount
  <1>4. \A n \in Names : /\ ~Announcing(h, n) /\ ~Announcing(g, n)
                        /\ ~Withdrawing(h, n) /\ ~Withdrawing(g, n)
                        /\ Entries(h, n) = Entries(g, n)
    BY <1>1 DEF Announcing, Withdrawing, Entries, NoLocals, Adding
  <1>5. Membership(h)
    BY <1>4 DEF RegFor, Membership, Tally
  <1>6. Leaving(h) /\ AddPlace(h) /\ Target(h) /\ RemovePlace(h) /\ PickPlace(h)
    BY <1>1 DEF RegFor, Leaving, AddPlace, Target, RemovePlace, PickPlace, Adding, Removing, Finding, Picking
  <1> QED BY <1>1, <1>2, <1>3, <1>5, <1>6 DEF RegFor

-----------------------------------------------------------------------------
(* AddFunc *)

\* There is an object left for a function that is not stored.
LEMMA FreshObject ==
  ASSUME NEW g \in Goroutines, Solo(g), RegFor(g), pc[g] = "idle", NEW n \in Names, funcs[n] = 0
  PROVE  Fresh \in Objs /\ \A m \in Names : funcs[m] # Fresh
  <1>1. IsFiniteSet(Names \ {n}) /\ Cardinality(Names \ {n}) = Cardinality(Names) - 1 /\ Cardinality(Names) \in Nat
    BY FuncMapAssumption, FS_RemoveElement, FS_CardinalityType
  <1> DEFINE used == {funcs[m] : m \in Names \ {n}}
  <1>2. IsFiniteSet(used) /\ Cardinality(used) <= Cardinality(Names \ {n})
    <2>1. [m \in Names \ {n} |-> funcs[m]] \in Surjection(Names \ {n}, used)
      BY DEF Surjection
    <2> QED BY <1>1, <2>1, FS_Surjection
  <1>3. IsFiniteSet(Objs) /\ Cardinality(Objs) = MaxObjs
    BY FuncMapAssumption, FS_Interval DEF Objs
  <1>4. ~(Objs \subseteq used)
    <2> SUFFICES ASSUME Objs \subseteq used PROVE FALSE
      OBVIOUS
    <2>1. Cardinality(Objs) <= Cardinality(used)
      BY <1>2, FS_Subset
    <2>2. Cardinality(used) \in Nat /\ Cardinality(Objs) \in Nat
      BY <1>2, <1>3, FS_CardinalityType
    <2> QED BY <1>1, <1>2, <1>3, <2>1, <2>2, FuncMapAssumption
  <1>5. PICK o \in Objs : o \notin used
    BY <1>4
  <1>6. o # 0 /\ \A m \in Names : funcs[m] # o
    BY <1>5 DEF Objs
  <1>7. \A h \in Goroutines : loc[h].obj = 0
    BY DEF Solo, RegFor, NoLocals
  <1>8. \E x \in Objs : (\A m \in Names : funcs[m] # x) /\ \A h \in Goroutines : loc[h].obj # x
    BY <1>5, <1>6, <1>7
  <1> QED BY <1>8 DEF Fresh

\* AddFunc: a name that is not stored gets an object nobody uses.
LEMMA AddFuncKeeps ==
  ASSUME NEW g \in Workers, Solo(g), RegFor(g), pc[g] = "idle", NEW n \in Names, AddFunc(g, n)
  PROVE  Solo(g)' /\ RegFor(g)'
  <1>0. g \in Goroutines /\ loc[g] = NoLocals /\ conn[g] = "open" /\ g \notin Callers
    BY FuncMapAssumption DEF RegFor, AddFunc, Goroutines
  <1>a. \A m \in Names : ~Announcing(g, m) /\ ~Withdrawing(g, m)
    BY <1>0 DEF Announcing, Withdrawing, NoLocals, Adding
  <1>c. /\ added' = [added EXCEPT ![g][n] = @ + 1] /\ added' \in [Workers -> [Names -> Nat]]
        /\ added'[g][n] = added[g][n] + 1
        /\ \A w \in Workers, m \in Names : ~(w = g /\ m = n) => added'[w][m] = added[w][m]
    BY DEF AddFunc, RegFor, RegistryTypeOK
  <1>d. ASSUME NEW w \in Workers, NEW m \in Names, conn[w] = "open", Entries(g, m)' = Entries(g, m),
               \A x \in Names : ~Withdrawing(g, x)' /\ (Announcing(g, x)' <=> x = n)
        PROVE  Tally(g, w, m)'
    <2>1. Tally(g, w, m)
      BY <1>d DEF RegFor, Membership
    <2>2. CASE w = g /\ m = n
      BY <1>a, <1>c, <1>d, <2>1, <2>2 DEF Tally
    <2>3. CASE ~(w = g /\ m = n)
      BY <1>a, <1>c, <1>d, <2>1, <2>3, TallySame
    <2> QED BY <2>2, <2>3
  <1>b. \A w \in Workers : conn[w] # "closing"
    BY <1>0 DEF RegFor, Leaving, Removing, Finding
  <1>1. CASE funcs[n] # 0
    <2> DEFINE l == [NoLocals EXCEPT !.name = n, !.obj = funcs[n]]
    <2>1. pc' = [pc EXCEPT ![g] = "inc"] /\ loc' = [loc EXCEPT ![g] = l]
      BY <1>0, <1>1 DEF AddFunc, Goto
    <2>2. funcs[n] \in Objs /\ n \in Served
      BY <1>1, FuncMapAssumption DEF RegFor, RegistryTypeOK, Objs, Served
    <2>3. l \in Locals /\ l.name = n /\ l.obj = funcs[n] /\ l.mode = "none"
      <3>1. funcs[n] \in 0..MaxObjs
        BY DEF RegFor, RegistryTypeOK
      <3> QED BY <3>1, NoLocalsType, SetNameObj DEF NoLocals
    <2> HIDE DEF l
    <2>4. /\ Solo(g)' /\ pc' \in [Goroutines -> RegistrySteps] /\ loc' \in [Goroutines -> Locals]
          /\ pc'[g] = "inc" /\ loc'[g] = l
      <3>1. "inc" \in RegistrySteps
        BY DEF RegistrySteps, Adding
      <3> QED BY <1>0, <2>1, <2>3, <3>1, StaysSolo
    <2>5. UNCHANGED <<funcs, funcNum, num, list, conn, panicked>>
      BY <1>1 DEF AddFunc
    <2>7. RegistryTypeOK' /\ ~panicked' /\ Served' = Served /\ ObjectsApart'
      BY <1>c, <2>4, <2>5 DEF RegFor, RegistryTypeOK, Served, ObjectsApart
    <2>8. FunctionCount(g)' /\ WorkerCount(g)'
      BY <2>4, <2>5, <2>7 DEF RegFor, FunctionCount, WorkerCount
    <2>9. Membership(g)'
      <3>1. \A x \in Names : ~Withdrawing(g, x)' /\ (Announcing(g, x)' <=> x = n)
        BY <2>3, <2>4 DEF Withdrawing, Announcing, Adding
      <3>2. \A m \in Names : Entries(g, m)' = Entries(g, m)
        BY <1>0, <2>4, <2>5, <2>7 DEF Entries
      <3> QED BY <1>d, <2>5, <3>1, <3>2 DEF Membership
    <2>10. Leaving(g)'
      BY <1>b, <2>5 DEF Leaving
    <2>11. AddPlace(g)'
      BY <1>0, <2>2, <2>3, <2>4, <2>5 DEF AddPlace, Adding
    <2>12. Target(g)' /\ RemovePlace(g)' /\ PickPlace(g)'
      BY <2>4 DEF Target, RemovePlace, PickPlace, Removing, Finding, Picking
    <2> QED BY <2>4, <2>7, <2>8, <2>9, <2>10, <2>11, <2>12 DEF RegFor
  <1>2. CASE funcs[n] = 0
    <2>0. Fresh \in Objs /\ \A m \in Names : funcs[m] # Fresh
      BY <1>0, <1>2, FreshObject
    <2> DEFINE o == Fresh
               l == [NoLocals EXCEPT !.name = n, !.obj = o]
    <2>1. pc' = [pc EXCEPT ![g] = "count"] /\ loc' = [loc EXCEPT ![g] = l]
      BY <1>0, <1>2 DEF AddFunc, Goto
    <2>5. /\ UNCHANGED <<funcs, funcNum, conn, panicked>>
          /\ num' = [num EXCEPT ![o] = 0] /\ list' = [list EXCEPT ![o] = <<>>]
      BY <1>2 DEF AddFunc
    <2> HIDE DEF o
    <2>2. o \in Objs /\ \A m \in Names : funcs[m] # o
      BY <2>0 DEF o
    <2>3. l \in Locals /\ l.name = n /\ l.obj = o /\ l.mode = "none"
      <3>1. o \in 0..MaxObjs
        BY <2>2, FuncMapAssumption DEF Objs
      <3> QED BY <3>1, NoLocalsType, SetNameObj DEF NoLocals
    <2> HIDE DEF l
    <2>4. /\ Solo(g)' /\ pc' \in [Goroutines -> RegistrySteps] /\ loc' \in [Goroutines -> Locals]
          /\ pc'[g] = "count" /\ loc'[g] = l
      <3>1. "count" \in RegistrySteps
        BY DEF RegistrySteps, Adding
      <3> QED BY <1>0, <2>1, <2>3, <3>1, StaysSolo
    <2>6. /\ num' \in [Objs -> Int] /\ list' \in [Objs -> Seq(Workers)] /\ num'[o] = 0 /\ list'[o] = <<>>
          /\ \A m \in Names : num'[funcs[m]] = num[funcs[m]] /\ list'[funcs[m]] = list[funcs[m]]
      BY <2>2, <2>5 DEF RegFor, RegistryTypeOK
    <2>7. RegistryTypeOK' /\ ~panicked' /\ Served' = Served /\ ObjectsApart'
      BY <1>c, <2>4, <2>5, <2>6 DEF RegFor, RegistryTypeOK, Served, ObjectsApart
    <2>8. FunctionCount(g)' /\ WorkerCount(g)'
      BY <2>4, <2>5, <2>6, <2>7 DEF RegFor, FunctionCount, WorkerCount, Served
    <2>9. Membership(g)'
      <3>1. \A x \in Names : ~Withdrawing(g, x)' /\ (Announcing(g, x)' <=> x = n)
        BY <2>3, <2>4 DEF Withdrawing, Announcing, Adding
      <3>2. \A m \in Names : Entries(g, m)' = Entries(g, m)
        BY <1>0, <2>4, <2>5, <2>6, <2>7 DEF Entries
      <3> QED BY <1>d, <2>5, <3>1, <3>2 DEF Membership
    <2>10. Leaving(g)'
      BY <1>b, <2>5 DEF Leaving
    <2>11. AddPlace(g)'
      BY <1>0, <1>2, <2>2, <2>3, <2>4, <2>5, <2>6 DEF AddPlace, Adding
    <2>12. Target(g)' /\ RemovePlace(g)' /\ PickPlace(g)'
      BY <2>4 DEF Target, RemovePlace, PickPlace, Removing, Finding, Picking
    <2> QED BY <2>4, <2>7, <2>8, <2>9, <2>10, <2>11, <2>12 DEF RegFor
  <1> QED BY <1>1, <1>2

\* g goes on with the same local variables.
LEMMA MoveOn ==
  ASSUME NEW g \in Goroutines, Solo(g), RegFor(g), NEW from, NEW p \in RegistrySteps,
         Move(g, from, p), UNCHANGED <<loc, panicked>>
  PROVE  /\ Solo(g)' /\ pc' \in [Goroutines -> RegistrySteps] /\ loc' \in [Goroutines -> Locals]
         /\ pc[g] = from /\ pc'[g] = p /\ loc'[g] = loc[g] /\ ~panicked'
  <1>1. loc[g] \in Locals /\ loc' = [loc EXCEPT ![g] = loc[g]]
    BY DEF RegFor, RegistryTypeOK
  <1> QED BY <1>1, StaysSolo DEF Move, At, Goto, RegFor

\* FuncNum counts the function that is about to be stored.
LEMMA CountFuncKeeps ==
  ASSUME NEW g \in Workers, Solo(g), RegFor(g), CountFunc(g)
  PROVE  Solo(g)' /\ RegFor(g)'
  <1>0. g \in Goroutines
    BY DEF Goroutines
  <1>1. /\ Solo(g)' /\ pc' \in [Goroutines -> RegistrySteps] /\ loc' \in [Goroutines -> Locals]
        /\ pc[g] = "count" /\ pc'[g] = "store" /\ loc'[g] = loc[g] /\ ~panicked'
    BY <1>0, MoveOn DEF CountFunc, RegistrySteps, Adding
  <1>2. UNCHANGED <<funcs, num, list, conn, added, panicked>> /\ funcNum' = funcNum + 1 /\ funcNum \in Int
    BY DEF CountFunc, RegFor, RegistryTypeOK
  <1>3. RegistryTypeOK' /\ Served' = Served /\ ObjectsApart'
    BY <1>1, <1>2 DEF RegFor, RegistryTypeOK, Served, ObjectsApart
  <1>4. FunctionCount(g)'
    <2>1. IsFiniteSet(Served) /\ funcNum = Cardinality(Served) + 0
      BY <1>1 DEF RegFor, FunctionCount
    <2>2. Cardinality(Served) \in Nat
      BY <2>1, FS_CardinalityType
    <2> QED BY <1>1, <1>2, <1>3, <2>1, <2>2 DEF FunctionCount
  <1>5. WorkerCount(g)'
    BY <1>1, <1>2, <1>3 DEF RegFor, WorkerCount
  <1>6. Membership(g)'
    <2> SUFFICES ASSUME NEW w \in Workers, NEW m \in Names, conn[w] = "open" PROVE Tally(g, w, m)'
      BY <1>2 DEF Membership
    <2>1. Entries(g, m)' = Entries(g, m)
      BY <1>1, <1>2, <1>3 DEF Entries
    <2>2. (Announcing(g, m)' <=> Announcing(g, m)) /\ (Withdrawing(g, m)' <=> Withdrawing(g, m))
      BY <1>1 DEF Announcing, Withdrawing, Adding
    <2>3. Tally(g, w, m)
      BY DEF RegFor, Membership
    <2> QED BY <1>2, <2>1, <2>2, <2>3, TallySame
  <1>7. Leaving(g)' /\ AddPlace(g)'
    BY <1>1, <1>2 DEF RegFor, Leaving, AddPlace, Adding, Removing, Finding
  <1>8. Target(g)' /\ RemovePlace(g)' /\ PickPlace(g)'
    BY <1>1 DEF Target, RemovePlace, PickPlace, Removing, Finding, Picking
  <1> QED BY <1>1, <1>3, <1>4, <1>5, <1>6, <1>7, <1>8 DEF RegFor

\* The function is stored, and counted already.
LEMMA StoreFuncKeeps ==
  ASSUME NEW g \in Workers, Solo(g), RegFor(g), StoreFunc(g)
  PROVE  Solo(g)' /\ RegFor(g)'
  <1>0. g \in Goroutines
    BY DEF Goroutines
  <1> DEFINE n == loc[g].name
             o == loc[g].obj
  <1>1. /\ Solo(g)' /\ pc' \in [Goroutines -> RegistrySteps] /\ loc' \in [Goroutines -> Locals]
        /\ pc[g] = "store" /\ pc'[g] = "inc" /\ loc'[g] = loc[g] /\ ~panicked'
    BY <1>0, MoveOn DEF StoreFunc, RegistrySteps, Adding
  <1>2. UNCHANGED <<funcNum, num, list, conn, added, panicked>> /\ funcs' = [funcs EXCEPT ![n] = o]
    BY DEF StoreFunc
  <1>3. /\ conn[g] = "open" /\ n \in Names /\ o \in Objs /\ loc[g].mode = "none"
        /\ funcs[n] = 0 /\ (\A m \in Names : funcs[m] # o) /\ num[o] = 0 /\ list[o] = <<>>
    BY <1>1 DEF RegFor, AddPlace, Adding
  <1>a. o # 0 /\ o \in 0..MaxObjs
    BY <1>3, FuncMapAssumption DEF Objs
  <1> HIDE DEF n, o
  <1>4. /\ funcs' \in [Names -> 0..MaxObjs] /\ funcs'[n] = o
        /\ (\A m \in Names \ {n} : funcs'[m] = funcs[m])
        /\ Served' = Served \cup {n} /\ n \notin Served
    BY <1>2, <1>3, <1>a DEF RegFor, RegistryTypeOK, Served
  <1>5. RegistryTypeOK' /\ ObjectsApart'
    BY <1>1, <1>2, <1>3, <1>4 DEF RegFor, RegistryTypeOK, ObjectsApart, Served
  <1>6. FunctionCount(g)'
    <2>1. IsFiniteSet(Served) /\ funcNum = Cardinality(Served) + 1
      BY <1>1 DEF RegFor, FunctionCount
    <2>2. IsFiniteSet(Served') /\ Cardinality(Served') = Cardinality(Served) + 1
      BY <1>4, <2>1, FS_AddElement
    <2>3. funcNum' = Cardinality(Served') + 0 /\ Cardinality(Served') \in Nat
      BY <1>2, <2>1, <2>2, FS_CardinalityType
    <2> QED BY <1>1, <2>2, <2>3 DEF FunctionCount
  <1>7. WorkerCount(g)'
    <2>1. \A m \in Served : num[funcs[m]] = Len(list[funcs[m]])
      BY <1>1, FuncMapAssumption DEF RegFor, WorkerCount, RegistryTypeOK, Served, Objs
    <2>2. \A m \in Served' : num'[funcs'[m]] = Len(list'[funcs'[m]])
      BY <1>2, <1>3, <1>4, <2>1 DEF Served
    <2>3. \A m \in Served' : Len(list'[funcs'[m]]) \in Nat
      BY <1>5, FuncMapAssumption DEF RegistryTypeOK, Served, Objs
    <2> QED BY <1>1, <2>2, <2>3 DEF WorkerCount
  <1>9. Membership(g)'
    <2> SUFFICES ASSUME NEW w \in Workers, NEW m \in Names, conn[w] = "open" PROVE Tally(g, w, m)'
      BY <1>2 DEF Membership
    <2>1. Entries(g, m)' = Entries(g, m)
      BY <1>1, <1>2, <1>3, <1>4 DEF Entries
    <2>2. (Announcing(g, m)' <=> Announcing(g, m)) /\ (Withdrawing(g, m)' <=> Withdrawing(g, m))
      BY <1>1 DEF Announcing, Withdrawing, Adding
    <2>3. Tally(g, w, m)
      BY DEF RegFor, Membership
    <2> QED BY <1>2, <2>1, <2>2, <2>3, TallySame
  <1>10. Leaving(g)'
    BY <1>1, <1>2 DEF RegFor, Leaving, Removing, Finding
  <1>11. AddPlace(g)'
    BY <1>1, <1>2, <1>3, <1>4 DEF AddPlace, Adding, n, o
  <1>12. Target(g)' /\ RemovePlace(g)' /\ PickPlace(g)'
    BY <1>1 DEF Target, RemovePlace, PickPlace, Removing, Finding, Picking
  <1> QED BY <1>1, <1>5, <1>6, <1>7, <1>9, <1>10, <1>11, <1>12 DEF RegFor

\* WorkerNum counts the worker that is about to be listed.
LEMMA IncWorkerNumKeeps ==
  ASSUME NEW g \in Workers, Solo(g), RegFor(g), IncWorkerNum(g)
  PROVE  Solo(g)' /\ RegFor(g)'
  <1>0. g \in Goroutines
    BY DEF Goroutines
  <1> DEFINE n == loc[g].name
             o == loc[g].obj
  <1>1. /\ Solo(g)' /\ pc' \in [Goroutines -> RegistrySteps] /\ loc' \in [Goroutines -> Locals]
        /\ pc[g] = "inc" /\ pc'[g] = "read" /\ loc'[g] = loc[g] /\ ~panicked'
    BY <1>0, MoveOn DEF IncWorkerNum, RegistrySteps, Adding
  <1>2. UNCHANGED <<funcs, funcNum, list, conn, added, panicked>> /\ num' = [num EXCEPT ![o] = @ + 1]
    BY DEF IncWorkerNum
  <1>3. o \in Objs /\ num \in [Objs -> Int] /\ \A m \in Served : funcs[m] \in Objs
    BY <1>1, FuncMapAssumption DEF RegFor, AddPlace, Adding, RegistryTypeOK, Served, Objs
  <1> HIDE DEF n, o
  <1>4. num' \in [Objs -> Int] /\ num'[o] = num[o] + 1 /\ \A x \in Objs \ {o} : num'[x] = num[x]
    BY <1>2, <1>3
  <1>5. RegistryTypeOK' /\ ObjectsApart' /\ Served' = Served
    BY <1>1, <1>2, <1>4 DEF RegFor, RegistryTypeOK, ObjectsApart, Served
  <1>6. FunctionCount(g)'
    BY <1>1, <1>2, <1>5 DEF RegFor, FunctionCount
  <1>7. WorkerCount(g)'
    <2>1. \A m \in Served : num[funcs[m]] = Len(list[funcs[m]]) + 0 /\ Len(list[funcs[m]]) \in Nat
      BY <1>1, <1>3 DEF RegFor, WorkerCount, RegistryTypeOK
    <2>2. ASSUME NEW m \in Served
          PROVE  num'[funcs[m]] = Len(list[funcs[m]]) + (IF o = funcs[m] THEN 1 ELSE 0)
      <3>1. CASE o = funcs[m] BY <1>4, <2>1, <3>1
      <3>2. CASE o # funcs[m] BY <1>3, <1>4, <2>1, <3>2
      <3> QED BY <3>1, <3>2
    <2>3. pc'[g] = "read" /\ loc'[g].obj = o
      BY <1>1 DEF o
    <2> QED BY <1>2, <1>5, <2>2, <2>3 DEF WorkerCount
  <1>8. Membership(g)'
    <2> SUFFICES ASSUME NEW w \in Workers, NEW m \in Names, conn[w] = "open" PROVE Tally(g, w, m)'
      BY <1>2 DEF Membership
    <2>1. Entries(g, m)' = Entries(g, m)
      BY <1>1, <1>2, <1>5 DEF Entries
    <2>2. (Announcing(g, m)' <=> Announcing(g, m)) /\ (Withdrawing(g, m)' <=> Withdrawing(g, m))
      BY <1>1 DEF Announcing, Withdrawing, Adding
    <2>3. Tally(g, w, m)
      BY DEF RegFor, Membership
    <2> QED BY <1>2, <2>1, <2>2, <2>3, TallySame
  <1>9. Leaving(g)' /\ AddPlace(g)'
    BY <1>1, <1>2 DEF RegFor, Leaving, AddPlace, Adding, Removing, Finding
  <1>10. Target(g)' /\ RemovePlace(g)' /\ PickPlace(g)'
    BY <1>1 DEF Target, RemovePlace, PickPlace, Removing, Finding, Picking
  <1> QED BY <1>1, <1>5, <1>6, <1>7, <1>8, <1>9, <1>10 DEF RegFor

\* append makes the new slice from the list as it is.
LEMMA ReadWorkersKeeps ==
  ASSUME NEW g \in Workers, Solo(g), RegFor(g), ReadWorkers(g)
  PROVE  Solo(g)' /\ RegFor(g)'
  <1>0. g \in Goroutines
    BY DEF Goroutines
  <1> DEFINE s == Append(list[loc[g].obj], g)
             l == [loc[g] EXCEPT !.new = s]
  <1>1. pc[g] = "read" /\ pc' = [pc EXCEPT ![g] = "append"] /\ loc' = [loc EXCEPT ![g] = l]
    BY DEF ReadWorkers, Move, At, Goto
  <1>2. UNCHANGED <<funcs, funcNum, num, list, conn, added, panicked>>
    BY DEF ReadWorkers
  <1>3. loc[g].obj \in Objs /\ list[loc[g].obj] \in Seq(Workers) /\ loc[g] \in Locals
    BY <1>0, <1>1 DEF RegFor, AddPlace, Adding, RegistryTypeOK
  <1>4. s \in Seq(Workers)
    BY <1>3
  <1> HIDE DEF s
  <1>5. /\ l \in Locals /\ l.name = loc[g].name /\ l.fn = loc[g].fn /\ l.obj = loc[g].obj
        /\ l.new = s /\ l.todo = loc[g].todo /\ l.mode = loc[g].mode
    BY <1>3, <1>4, SetNew
  <1>6. /\ Solo(g)' /\ pc' \in [Goroutines -> RegistrySteps] /\ loc' \in [Goroutines -> Locals]
        /\ pc'[g] = "append" /\ loc'[g] = l
    BY <1>0, <1>1, <1>5, StaysSolo DEF RegistrySteps, Adding
  <1> HIDE DEF l
  <1>7. RegistryTypeOK' /\ ~panicked' /\ ObjectsApart' /\ Served' = Served
    BY <1>2, <1>6 DEF RegFor, RegistryTypeOK, ObjectsApart, Served
  <1>8. FunctionCount(g)' /\ WorkerCount(g)'
    BY <1>1, <1>2, <1>5, <1>6, <1>7 DEF RegFor, FunctionCount, WorkerCount
  <1>9. Membership(g)'
    <2> SUFFICES ASSUME NEW w \in Workers, NEW m \in Names, conn[w] = "open" PROVE Tally(g, w, m)'
      BY <1>2 DEF Membership
    <2>1. Entries(g, m)' = Entries(g, m)
      BY <1>1, <1>2, <1>6, <1>7 DEF Entries
    <2>2. (Announcing(g, m)' <=> Announcing(g, m)) /\ (Withdrawing(g, m)' <=> Withdrawing(g, m))
      BY <1>1, <1>5, <1>6 DEF Announcing, Withdrawing, Adding
    <2>3. Tally(g, w, m)
      BY DEF RegFor, Membership
    <2> QED BY <1>2, <2>1, <2>2, <2>3, TallySame
  <1>10. Leaving(g)' /\ AddPlace(g)'
    BY <1>1, <1>2, <1>5, <1>6 DEF RegFor, Leaving, AddPlace, Adding, Removing, Finding, s
  <1>11. Target(g)' /\ RemovePlace(g)' /\ PickPlace(g)'
    BY <1>6 DEF Target, RemovePlace, PickPlace, Removing, Finding, Picking
  <1> QED BY <1>6, <1>7, <1>8, <1>9, <1>10, <1>11 DEF RegFor

\* The worker is listed, for the first time and counted already.
LEMMA AppendWorkerKeeps ==
  ASSUME NEW g \in Workers, Solo(g), RegFor(g), AppendWorker(g)
  PROVE  Solo(g)' /\ RegFor(g)'
  <1>0. g \in Goroutines
    BY DEF Goroutines
  <1> DEFINE n == loc[g].name
             o == loc[g].obj
  <1>1. pc[g] = "append" /\ pc' = [pc EXCEPT ![g] = "idle"] /\ loc' = [loc EXCEPT ![g] = NoLocals]
    BY DEF AppendWorker, At, Return, Goto
  <1>2. UNCHANGED <<funcs, funcNum, num, conn, added, panicked>> /\ list' = [list EXCEPT ![o] = loc[g].new]
    BY DEF AppendWorker
  <1>3. /\ conn[g] = "open" /\ n \in Names /\ o \in Objs /\ loc[g].mode = "none"
        /\ funcs[n] = o /\ loc[g].new = Append(list[o], g)
    BY <1>1 DEF RegFor, AddPlace, Adding
  <1>4. /\ Solo(g)' /\ pc' \in [Goroutines -> RegistrySteps] /\ loc' \in [Goroutines -> Locals]
        /\ pc'[g] = "idle" /\ loc'[g] = NoLocals
    BY <1>0, <1>1, NoLocalsType, StaysSolo DEF RegistrySteps
  <1> HIDE DEF n
  <1>5. n \in Served /\ \A m \in Served : funcs[m] \in Objs /\ (funcs[m] = o => m = n)
    <2>1. o \in Objs /\ n \in Names /\ funcs[n] = o
      BY <1>3
    <2> HIDE DEF o
    <2> QED BY <2>1, FuncMapAssumption DEF RegFor, RegistryTypeOK, Served, Objs, ObjectsApart
  <1>6. list \in [Objs -> Seq(Workers)]
    BY DEF RegFor, RegistryTypeOK
  <1> DEFINE a == Append(list[o], g)
  <1>7. a \in Seq(Workers) /\ Len(a) = Len(list[o]) + 1
    BY <1>3, <1>6
  <1>8. \A y : Times(a, y) = Times(list[o], y) + (IF g = y THEN 1 ELSE 0)
    BY <1>3, <1>6, TimesAppend
  <1>9. list' = [list EXCEPT ![o] = a]
    BY <1>2, <1>3
  <1> HIDE DEF a, o
  <1>10. list' \in [Objs -> Seq(Workers)] /\ list'[o] = a /\ \A x \in Objs \ {o} : list'[x] = list[x]
    BY <1>3, <1>6, <1>7, <1>9
  <1>11. RegistryTypeOK' /\ ~panicked' /\ ObjectsApart' /\ Served' = Served
    BY <1>2, <1>4, <1>10 DEF RegFor, RegistryTypeOK, ObjectsApart, Served
  <1>12. FunctionCount(g)'
    BY <1>1, <1>2, <1>4, <1>11 DEF RegFor, FunctionCount
  <1>13. WorkerCount(g)'
    <2>1. ASSUME NEW m \in Served PROVE num[funcs[m]] = Len(list'[funcs[m]])
      <3>1. num[funcs[m]] = Len(list[funcs[m]]) + (IF o = funcs[m] THEN 1 ELSE 0)
        BY <1>1 DEF RegFor, WorkerCount, o
      <3>2. Len(list[funcs[m]]) \in Nat
        BY <1>5, <1>6
      <3>3. CASE o = funcs[m] BY <1>7, <1>10, <3>1, <3>3
      <3>4. CASE o # funcs[m] BY <1>5, <1>10, <3>1, <3>2, <3>4
      <3> QED BY <3>3, <3>4
    <2>2. \A m \in Served : Len(list'[funcs[m]]) \in Nat
      BY <1>5, <1>10
    <2> QED BY <1>2, <1>4, <1>11, <2>1, <2>2 DEF WorkerCount
  <1>15. Membership(g)'
    <2> SUFFICES ASSUME NEW w \in Workers, NEW m \in Names, conn[w] = "open" PROVE Tally(g, w, m)'
      BY <1>2 DEF Membership
    <2>1. Tally(g, w, m) /\ ~Withdrawing(g, m) /\ (Announcing(g, m) <=> m = n)
      BY <1>1, <1>3 DEF RegFor, Membership, Withdrawing, Announcing, Adding, n
    <2>2. ~Withdrawing(g, m)' /\ ~Announcing(g, m)'
      BY <1>4 DEF Withdrawing, Announcing, NoLocals, Adding
    <2>3. CASE m = n
      <3>1. Entries(g, m) = list[o] /\ Entries(g, m)' = a
        BY <1>1, <1>2, <1>3, <1>4, <1>5, <1>10, <1>11, <2>3 DEF Entries
      <3>2. added[w][m] = Times(list[o], w) + (IF g = w THEN 1 ELSE 0)
        <4>1. Times(list[o], w) \in Nat
          BY <1>3, <1>6, TimesType
        <4>2. CASE w = g BY <2>1, <2>3, <3>1, <4>2 DEF Tally
        <4>3. CASE w # g BY <2>1, <3>1, <4>1, <4>3 DEF Tally
        <4> QED BY <4>2, <4>3
      <3>3. added[w][m] = Times(a, w)
        BY <1>8, <3>2
      <3> QED BY <1>2, <2>2, <3>1, <3>3 DEF Tally
    <2>4. CASE m # n
      <3>1. Entries(g, m)' = Entries(g, m)
        BY <1>1, <1>2, <1>4, <1>5, <1>10, <1>11, <2>4 DEF Entries
      <3> QED BY <1>2, <2>1, <2>2, <2>4, <3>1, TallySame
    <2> QED BY <2>3, <2>4
  <1>16. Leaving(g)'
    BY <1>1, <1>2, <1>4 DEF RegFor, Leaving, Removing, Finding
  <1>17. AddPlace(g)' /\ Target(g)' /\ RemovePlace(g)' /\ PickPlace(g)'
    BY <1>4 DEF AddPlace, Target, RemovePlace, PickPlace, Adding, Removing, Finding, Picking
  <1> QED BY <1>4, <1>11, <1>12, <1>13, <1>15, <1>16, <1>17 DEF RegFor

-----------------------------------------------------------------------------
(* Removals begin *)

\* DelWorkerFunc: the worker no longer announces the function.
LEMMA DelWorkerFuncKeeps ==
  ASSUME NEW g \in Workers, Solo(g), RegFor(g), pc[g] = "idle", NEW n \in Names, DelWorkerFunc(g, n)
  PROVE  Solo(g)' /\ RegFor(g)'
  <1>0. g \in Goroutines /\ loc[g] = NoLocals /\ conn[g] = "open" /\ g \notin Callers
    BY FuncMapAssumption DEF RegFor, DelWorkerFunc, Goroutines
  <1>a. \A m \in Names : ~Announcing(g, m) /\ ~Withdrawing(g, m)
    BY <1>0 DEF Announcing, Withdrawing, NoLocals, Adding
  <1> DEFINE l == [NoLocals EXCEPT !.todo = {n}, !.who = g, !.mode = "func"]
  <1>1. pc' = [pc EXCEPT ![g] = "next"] /\ loc' = [loc EXCEPT ![g] = l]
    BY <1>0 DEF DelWorkerFunc
  <1>2. UNCHANGED <<funcs, funcNum, num, list, conn, panicked>>
    BY DEF DelWorkerFunc
  <1>c. /\ added' \in [Workers -> [Names -> Nat]] /\ added[g][n] \in Nat
        /\ added'[g][n] = IF added[g][n] = 0 THEN 0 ELSE added[g][n] - 1
        /\ \A w \in Workers, m \in Names : ~(w = g /\ m = n) => added'[w][m] = added[w][m]
    <2>1. added \in [Workers -> [Names -> Nat]] /\ added[g][n] \in Nat
      BY DEF RegFor, RegistryTypeOK
    <2> DEFINE x == IF added[g][n] = 0 THEN 0 ELSE added[g][n] - 1
    <2>2. x \in Nat
      BY <2>1
    <2>3. added' = [added EXCEPT ![g] = [added[g] EXCEPT ![n] = x]]
      BY <2>1 DEF DelWorkerFunc
    <2> HIDE DEF x
    <2>4. /\ added' \in [Workers -> [Names -> Nat]] /\ added'[g][n] = x
          /\ \A w \in Workers, m \in Names : ~(w = g /\ m = n) => added'[w][m] = added[w][m]
      BY <2>1, <2>2, <2>3
    <2> QED BY <2>1, <2>4 DEF x
  <1>3. l \in Locals /\ l.todo = {n} /\ l.who = g /\ l.mode = "func"
    BY NoLocalsType DEF Locals
  <1>4. /\ Solo(g)' /\ pc' \in [Goroutines -> RegistrySteps] /\ loc' \in [Goroutines -> Locals]
        /\ pc'[g] = "next" /\ loc'[g] = l
    BY <1>0, <1>1, <1>3, StaysSolo DEF RegistrySteps, Removing
  <1> HIDE DEF l
  <1>5. RegistryTypeOK' /\ ~panicked' /\ ObjectsApart' /\ Served' = Served
    BY <1>2, <1>4, <1>c DEF RegFor, RegistryTypeOK, ObjectsApart, Served
  <1>6. FunctionCount(g)' /\ WorkerCount(g)'
    BY <1>2, <1>4, <1>5 DEF RegFor, FunctionCount, WorkerCount
  <1>7. Membership(g)'
    <2> SUFFICES ASSUME NEW w \in Workers, NEW m \in Names, conn[w] = "open" PROVE Tally(g, w, m)'
      BY <1>2 DEF Membership
    <2>1. Tally(g, w, m)
      BY DEF RegFor, Membership
    <2>2. Entries(g, m)' = Entries(g, m)
      BY <1>0, <1>2, <1>4, <1>5 DEF Entries
    <2>3. ~Announcing(g, m)' /\ (Withdrawing(g, m)' <=> m = n)
      BY <1>3, <1>4 DEF Announcing, Withdrawing, Adding
    <2>4. CASE w = g /\ m = n
      <3>1. Times(Entries(g, m), w) = added[g][n]
        BY <1>a, <2>1, <2>4 DEF Tally
      <3> QED BY <1>c, <2>2, <2>3, <2>4, <3>1 DEF Tally
    <2>5. CASE ~(w = g /\ m = n)
      BY <1>a, <1>c, <2>1, <2>2, <2>3, <2>5, TallySame
    <2> QED BY <2>4, <2>5
  <1>8. Leaving(g)'
    BY <1>2, <1>4 DEF RegFor, Leaving, Removing, Finding
  <1>9. Target(g)'
    BY <1>0, <1>2, <1>3, <1>4 DEF Target, Finding
  <1>10. AddPlace(g)' /\ RemovePlace(g)' /\ PickPlace(g)'
    BY <1>4 DEF AddPlace, RemovePlace, PickPlace, Adding, Finding, Picking
  <1> QED BY <1>4, <1>5, <1>6, <1>7, <1>8, <1>9, <1>10 DEF RegFor

\* The connection ends: whatever the worker announced is to be taken out.
LEMMA CloseWorkerKeeps ==
  ASSUME NEW g \in Workers, Solo(g), RegFor(g), pc[g] = "idle", CloseWorker(g)
  PROVE  Solo(g)' /\ RegFor(g)'
  <1>0. g \in Goroutines /\ loc[g] = NoLocals /\ conn[g] = "open" /\ g \notin Callers
    BY FuncMapAssumption DEF RegFor, CloseWorker, Goroutines
  <1>b. PICK d \in {"clean", "eof"} : loc' = [loc EXCEPT ![g].todo = Names, ![g].who = g, ![g].mode = d]
    BY DEF CloseWorker
  <1> DEFINE l == [NoLocals EXCEPT !.todo = Names, !.who = g, !.mode = d]
  <1>1. pc' = [pc EXCEPT ![g] = "next"] /\ loc' = [loc EXCEPT ![g] = l]
    BY <1>0, <1>b DEF CloseWorker
  <1>2. UNCHANGED <<funcs, funcNum, num, list, panicked>> /\ conn' = [conn EXCEPT ![g] = "closing"]
    BY DEF CloseWorker
  <1>3. l \in Locals /\ l.todo = Names /\ l.who = g /\ l.mode = d
    BY NoLocalsType DEF Locals
  <1>4. /\ Solo(g)' /\ pc' \in [Goroutines -> RegistrySteps] /\ loc' \in [Goroutines -> Locals]
        /\ pc'[g] = "next" /\ loc'[g] = l
    BY <1>0, <1>1, <1>3, StaysSolo DEF RegistrySteps, Removing
  <1> HIDE DEF l
  <1>c. /\ conn' \in [Workers -> {"open", "closing", "gone"}] /\ conn'[g] = "closing"
        /\ \A w \in Workers \ {g} : conn'[w] = conn[w]
    BY <1>2 DEF RegFor, RegistryTypeOK
  <1>d. /\ added' \in [Workers -> [Names -> Nat]] /\ \A w \in Workers \ {g} : added'[w] = added[w]
    BY DEF CloseWorker, NoneAdded, RegFor, RegistryTypeOK
  <1>5. RegistryTypeOK' /\ ~panicked' /\ ObjectsApart' /\ Served' = Served
    BY <1>2, <1>4, <1>c, <1>d DEF RegFor, RegistryTypeOK, ObjectsApart, Served
  <1>6. FunctionCount(g)' /\ WorkerCount(g)'
    BY <1>2, <1>4, <1>5 DEF RegFor, FunctionCount, WorkerCount
  <1>7. Membership(g)'
    <2> SUFFICES ASSUME NEW w \in Workers, NEW m \in Names, conn'[w] = "open" PROVE Tally(g, w, m)'
      BY DEF Membership
    <2>1. w # g /\ conn[w] = "open"
      BY <1>c
    <2>2. Entries(g, m)' = Entries(g, m)
      BY <1>0, <1>2, <1>4, <1>5 DEF Entries
    <2>3. Tally(g, w, m)
      BY <2>1 DEF RegFor, Membership
    <2> QED BY <1>d, <2>1, <2>2, <2>3, TallySame
  <1>8. Leaving(g)'
    BY <1>c, <1>4 DEF RegFor, Leaving, Removing, Finding
  <1>9. Target(g)'
    BY <1>0, <1>c, <1>3, <1>4 DEF Target, Finding
  <1>10. AddPlace(g)' /\ RemovePlace(g)' /\ PickPlace(g)'
    BY <1>4 DEF AddPlace, RemovePlace, PickPlace, Adding, Finding, Picking
  <1> QED BY <1>4, <1>5, <1>6, <1>7, <1>8, <1>9, <1>10 DEF RegFor

\* Another connection may be forgotten while g is inside.
LEMMA CloseConnectKeeps ==
  ASSUME NEW g \in Goroutines, Solo(g), RegFor(g), NEW w \in Workers, CloseConnect(w)
  PROVE  Solo(g)' /\ RegFor(g)'
  <1>1. /\ UNCHANGED <<funcs, funcNum, num, list, panicked, pc, loc>>
        /\ conn[w] = "open" /\ pc[w] = "idle" /\ conn' = [conn EXCEPT ![w] = "gone"]
    BY DEF CloseConnect, MayEnter
  <1>2. /\ conn' \in [Workers -> {"open", "closing", "gone"}] /\ conn'[w] = "gone"
        /\ \A v \in Workers \ {w} : conn'[v] = conn[v]
    BY <1>1 DEF RegFor, RegistryTypeOK
  <1>d. /\ added' \in [Workers -> [Names -> Nat]] /\ \A v \in Workers \ {w} : added'[v] = added[v]
    BY DEF CloseConnect, NoneAdded, RegFor, RegistryTypeOK
  <1>3. Solo(g)' /\ RegistryTypeOK' /\ ~panicked' /\ pc' \in [Goroutines -> RegistrySteps] /\ ObjectsApart'
    BY <1>1, <1>2, <1>d DEF RegFor, Solo, RegistryTypeOK, ObjectsApart, Served
  <1>4. FunctionCount(g)' /\ WorkerCount(g)' /\ Served' = Served
    BY <1>1 DEF RegFor, FunctionCount, WorkerCount, Served
  <1>5. Membership(g)'
    <2> SUFFICES ASSUME NEW v \in Workers, NEW m \in Names, conn'[v] = "open" PROVE Tally(g, v, m)'
      BY DEF Membership
    <2>1. v # w /\ conn[v] = "open"
      BY <1>2
    <2>2. /\ Entries(g, m)' = Entries(g, m)
          /\ (Announcing(g, m)' <=> Announcing(g, m)) /\ (Withdrawing(g, m)' <=> Withdrawing(g, m))
      BY <1>1, <1>4 DEF Entries, Announcing, Withdrawing
    <2>3. Tally(g, v, m)
      BY <2>1 DEF RegFor, Membership
    <2> QED BY <1>d, <2>1, <2>2, <2>3, TallySame
  <1>6. Leaving(g)'
    BY <1>1, <1>2 DEF RegFor, Leaving
  <1>7. pc[g] # "idle" => w # g
    BY <1>1
  <1>8. AddPlace(g)'
    BY <1>1, <1>2, <1>7 DEF RegFor, AddPlace, Adding
  <1>9. Target(g)'
    BY <1>1, <1>2, <1>7 DEF RegFor, Target, Removing, Finding
  <1>10. RemovePlace(g)' /\ PickPlace(g)'
    BY <1>1 DEF RegFor, RemovePlace, PickPlace
  <1>11. pc'[g] = "idle" => loc'[g] = NoLocals
    BY <1>1 DEF RegFor
  <1> QED BY <1>3, <1>4, <1>5, <1>6, <1>8, <1>9, <1>10, <1>11 DEF RegFor

-----------------------------------------------------------------------------
(* Removals *)

\* A name is visited, or passed over.
LEMMA VisitKeeps ==
  ASSUME NEW g \in Goroutines, Solo(g), RegFor(g), Visit(g)
  PROVE  Solo(g)' /\ RegFor(g)'
  <1>0. pc[g] = "next" /\ UNCHANGED <<funcs, funcNum, num, list, conn, added, panicked>> /\ loc[g] \in Locals
    BY DEF Visit, At, RegFor, RegistryTypeOK
  <1>a. ASSUME NEW m \in Names, conn[g] = "open", g \in Workers PROVE Tally(g, g, m)
    BY <1>a DEF RegFor, Membership
  <1>t. /\ loc[g].who \in Workers
        /\ g \in Workers => loc[g].who = g /\ loc[g].mode \in {"func", "clean", "eof"}
        /\ g \in Workers => conn[g] = IF loc[g].mode = "func" THEN "open" ELSE "closing"
        /\ g \in Callers => loc[g].mode = "clean" /\ conn[loc[g].who] = "gone" /\ loc[g].name \in Names
    BY <1>0 DEF RegFor, Target, Removing
  <1>1. PICK n \in loc[g].todo :
          IF funcs[n] # 0 /\ (loc[g].mode = "eof" \/ num[funcs[n]] # 0)
          THEN /\ pc' = [pc EXCEPT ![g] = "scan"]
               /\ loc' = [loc EXCEPT ![g].obj = funcs[n], ![g].todo = @ \ {n}, ![g].fn = n]
          ELSE UNCHANGED pc /\ loc' = [loc EXCEPT ![g].todo = @ \ {n}]
    BY DEF Visit, Goto
  <1>2. n \in Names /\ funcs[n] \in 0..MaxObjs
    BY <1>0 DEF Locals, RegFor, RegistryTypeOK
  <1>3. CASE funcs[n] # 0 /\ (loc[g].mode = "eof" \/ num[funcs[n]] # 0)
    <2> DEFINE l == [loc[g] EXCEPT !.obj = funcs[n], !.todo = @ \ {n}, !.fn = n]
    <2>1. pc' = [pc EXCEPT ![g] = "scan"] /\ loc' = [loc EXCEPT ![g] = l]
      BY <1>1, <1>3
    <2>2. /\ l \in Locals /\ l.name = loc[g].name /\ l.fn = n /\ l.obj = funcs[n]
          /\ l.who = loc[g].who /\ l.todo = loc[g].todo \ {n} /\ l.mode = loc[g].mode
      BY <1>0, <1>2 DEF Locals
    <2> HIDE DEF l
    <2>3. pc'[g] = "scan" /\ loc'[g] = l
      BY <2>1, <2>2, StaysSolo DEF RegistrySteps, Removing, Finding
    <2>4. AddPlace(g)' /\ PickPlace(g)'
      BY <2>3 DEF AddPlace, PickPlace, Adding, Picking
    <2>5. RemovePlace(g)'
      BY <1>0, <1>2, <1>3, <2>2, <2>3 DEF RemovePlace, Finding, Objs
    <2>6. Target(g)'
      BY <1>0, <1>t, <2>2, <2>3 DEF Target, Finding
    <2>7. ASSUME NEW m \in Names, g \in Workers, conn[g] = "open" PROVE Tally(g, g, m)'
      <3>1. Entries(g, m)' = Entries(g, m)
        BY <1>0, <2>3 DEF Entries, Served
      <3>2. (Announcing(g, m)' <=> Announcing(g, m)) /\ (Withdrawing(g, m)' <=> Withdrawing(g, m))
        BY <1>0, <1>1, <2>2, <2>3 DEF Announcing, Withdrawing, Adding
      <3> QED BY <1>0, <1>a, <2>7, <3>1, <3>2, TallySame
    <2>8. "scan" \in RegistrySteps /\ "scan" \in Removing /\ "scan" \notin Adding
      BY DEF RegistrySteps, Removing, Finding, Adding
    <2> QED BY <1>0, <2>1, <2>2, <2>4, <2>5, <2>6, <2>7, <2>8, OnlyLocal
  <1>4. CASE ~(funcs[n] # 0 /\ (loc[g].mode = "eof" \/ num[funcs[n]] # 0))
    <2> DEFINE l == [loc[g] EXCEPT !.todo = @ \ {n}]
    <2>1. pc' = [pc EXCEPT ![g] = "next"] /\ loc' = [loc EXCEPT ![g] = l]
      BY <1>0, <1>1, <1>4 DEF RegFor
    <2>2. /\ l \in Locals /\ l.name = loc[g].name
          /\ l.who = loc[g].who /\ l.todo = loc[g].todo \ {n} /\ l.mode = loc[g].mode
      BY <1>0, <1>2 DEF Locals
    <2> HIDE DEF l
    <2>3. pc'[g] = "next" /\ loc'[g] = l
      BY <2>1, <2>2, StaysSolo DEF RegistrySteps, Removing, Finding
    <2>4. AddPlace(g)' /\ PickPlace(g)' /\ RemovePlace(g)'
      BY <2>3 DEF AddPlace, PickPlace, Adding, Picking, RemovePlace, Finding
    <2>5. Target(g)'
      BY <1>0, <1>t, <2>2, <2>3 DEF Target, Finding
    <2>6. ASSUME NEW m \in Names, g \in Workers, conn[g] = "open" PROVE Tally(g, g, m)'
      <3>1. Entries(g, m)' = Entries(g, m)
        BY <1>0, <2>3 DEF Entries, Served
      <3>2. CASE m # n \/ loc[g].mode # "func"
        <4>1. (Announcing(g, m)' <=> Announcing(g, m)) /\ (Withdrawing(g, m)' <=> Withdrawing(g, m))
          BY <1>0, <1>1, <2>2, <2>3, <3>2 DEF Announcing, Withdrawing, Adding
        <4> QED BY <1>0, <1>a, <2>6, <3>1, <4>1, TallySame
      <3>3. CASE m = n /\ loc[g].mode = "func"
        <4>1. Withdrawing(g, m) /\ ~Withdrawing(g, m)' /\ ~Announcing(g, m)'
          BY <1>0, <1>1, <2>2, <2>3, <3>3 DEF Announcing, Withdrawing, Adding
        <4>2. Entries(g, m) \in Seq(Workers) /\ Len(Entries(g, m)) = 0
          <5>1. Entries(g, m) \in Seq(Workers)
            BY EntriesType
          <5>2. CASE n \in Served
            <6>1. num[funcs[n]] = 0 /\ num[funcs[n]] = Len(list[funcs[n]]) + 0
              BY <1>0, <1>4, <3>3, <5>2 DEF RegFor, WorkerCount, Served
            <6>2. Entries(g, m) = list[funcs[n]]
              BY <1>0, <3>3, <5>2 DEF Entries
            <6>3. Len(Entries(g, m)) \in Nat
              BY <5>1
            <6> QED BY <5>1, <6>1, <6>2, <6>3
          <5>3. CASE n \notin Served
            BY <3>3, <5>1, <5>3 DEF Entries
          <5> QED BY <5>2, <5>3
        <4>3. Times(Entries(g, m), g) = 0
          <5> DEFINE s == Entries(g, m)
          <5>1. s \in Seq(Workers) /\ \A i \in 1..Len(s) : s[i] # g
            BY <4>2
          <5> HIDE DEF s
          <5>2. Times(s, g) = 0
            BY <5>1, TimesPositive
          <5> QED BY <5>2 DEF s
        <4>4. added[g][m] \in Nat
          BY <2>6 DEF RegFor, RegistryTypeOK
        <4>5. added[g][m] = 0
          BY <1>a, <2>6, <4>1, <4>3, <4>4 DEF Tally
        <4> QED BY <1>0, <3>1, <4>1, <4>3, <4>5 DEF Tally
      <3> QED BY <3>2, <3>3
    <2>7. "next" \in RegistrySteps /\ "next" \in Removing
      BY DEF RegistrySteps, Removing
    <2> QED BY <1>0, <2>1, <2>2, <2>4, <2>5, <2>6, <2>7, OnlyLocal
  <1> QED BY <1>3, <1>4

\* All names are visited: the worker is listed nowhere.
LEMMA EndVisitKeeps ==
  ASSUME NEW g \in Goroutines, Solo(g), RegFor(g), EndVisit(g)
  PROVE  Solo(g)' /\ RegFor(g)'
  <1>0. /\ pc[g] = "next" /\ loc[g].todo = {} /\ loc[g] \in Locals
        /\ UNCHANGED <<funcs, funcNum, num, list, added, panicked>>
    BY DEF EndVisit, At, RegFor, RegistryTypeOK
  <1>t. /\ loc[g].who \in Workers
        /\ g \in Workers => loc[g].who = g /\ loc[g].mode \in {"func", "clean", "eof"}
        /\ g \in Workers => conn[g] = IF loc[g].mode = "func" THEN "open" ELSE "closing"
        /\ g \in Callers => loc[g].mode = "clean" /\ conn[loc[g].who] = "gone" /\ loc[g].name \in Names
    BY <1>0 DEF RegFor, Target, Removing
  <1>c. ASSUME NEW m \in Names, g \in Workers, conn[g] = "open", pc'[g] \in {"idle", "next", "load"},
               loc'[g].mode # "func", UNCHANGED <<funcs, list, added>>
        PROVE  Tally(g, g, m)'
    <2>1. Tally(g, g, m)
      BY <1>c DEF RegFor, Membership
    <2>2. Entries(g, m)' = Entries(g, m)
      BY <1>0, <1>c DEF Entries, Served
    <2>3. ~Announcing(g, m) /\ ~Withdrawing(g, m) /\ ~Announcing(g, m)' /\ ~Withdrawing(g, m)'
      BY <1>0, <1>c DEF Announcing, Withdrawing, Adding
    <2> QED BY <1>c, <2>1, <2>2, <2>3, TallySame
  <1>l. \A w \in Workers : conn[w] = "closing" => w = g
    BY DEF RegFor, Leaving
  <1>g. g \in Workers => g \notin Callers
    BY FuncMapAssumption
  <1>1. CASE loc[g].mode = "eof" /\ loc' = [loc EXCEPT ![g].mode = "clean", ![g].todo = Names] /\ UNCHANGED <<pc, conn>>
    <2> DEFINE l == [loc[g] EXCEPT !.mode = "clean", !.todo = Names]
    <2>1. pc' = [pc EXCEPT ![g] = "next"] /\ loc' = [loc EXCEPT ![g] = l]
      BY <1>0, <1>1 DEF RegFor
    <2>2. l \in Locals /\ l.who = loc[g].who /\ l.mode = "clean"
      BY <1>0 DEF Locals
    <2> HIDE DEF l
    <2>3. pc'[g] = "next" /\ loc'[g] = l
      BY <2>1, <2>2, StaysSolo DEF RegistrySteps, Removing, Finding
    <2>4. AddPlace(g)' /\ PickPlace(g)' /\ RemovePlace(g)'
      BY <2>3 DEF AddPlace, PickPlace, Adding, Picking, RemovePlace, Finding
    <2>5. g \in Workers /\ g \notin Callers
      BY <1>t, <1>1, <1>g DEF Goroutines
    <2>6. Target(g)'
      BY <1>0, <1>t, <1>1, <2>2, <2>3, <2>5 DEF Target, Finding
    <2>7. \A m \in Names : g \in Workers /\ conn[g] = "open" => Tally(g, g, m)'
      BY <1>0, <1>c, <2>2, <2>3
    <2> QED BY <1>0, <1>1, <2>1, <2>2, <2>4, <2>6, <2>7, OnlyLocal DEF RegistrySteps, Removing, Finding
  <1>2. CASE loc[g].mode = "func" /\ Return(g) /\ UNCHANGED conn
    <2>1. pc' = [pc EXCEPT ![g] = "idle"] /\ loc' = [loc EXCEPT ![g] = NoLocals]
      BY <1>2 DEF Return, Goto
    <2>2. pc'[g] = "idle" /\ loc'[g] = NoLocals
      BY <2>1, NoLocalsType, StaysSolo DEF RegistrySteps
    <2>3. AddPlace(g)' /\ Target(g)' /\ PickPlace(g)' /\ RemovePlace(g)'
      BY <2>2 DEF AddPlace, Target, PickPlace, Adding, Picking, RemovePlace, Removing, Finding
    <2>4. \A w \in Workers : conn[w] # "closing"
      BY <1>t, <1>l, <1>2
    <2>5. \A m \in Names : g \in Workers /\ conn[g] = "open" => Tally(g, g, m)'
      BY <1>0, <1>c, <2>2 DEF NoLocals
    <2> QED BY <1>0, <1>2, <2>1, <2>3, <2>4, <2>5, NoLocalsType, OnlyLocal DEF RegistrySteps
  <1>3. CASE g \in Callers /\ Goto(g, "load") /\ UNCHANGED conn
             /\ loc' = [loc EXCEPT ![g] = [NoLocals EXCEPT !.name = loc[g].name, !.mode = "clean"]]
    <2> DEFINE l == [NoLocals EXCEPT !.name = loc[g].name, !.mode = "clean"]
    <2>1. pc' = [pc EXCEPT ![g] = "load"] /\ loc' = [loc EXCEPT ![g] = l]
      BY <1>3 DEF Goto
    <2>2. l \in Locals /\ l.name = loc[g].name /\ l.mode = "clean"
      BY <1>t, <1>3, NoLocalsType DEF Locals
    <2> HIDE DEF l
    <2>3. pc'[g] = "load" /\ loc'[g] = l
      BY <2>1, <2>2, StaysSolo DEF RegistrySteps, Picking
    <2>4. AddPlace(g)' /\ Target(g)' /\ PickPlace(g)' /\ RemovePlace(g)'
      BY <1>t, <1>3, <2>2, <2>3 DEF AddPlace, Target, PickPlace, Adding, Picking, RemovePlace, Removing, Finding
    <2>5. \A w \in Workers : conn[w] # "closing"
      BY <1>l, <1>g, <1>3
    <2>6. g \notin Workers
      BY <1>3, <1>g
    <2> QED BY <1>0, <1>3, <2>1, <2>2, <2>4, <2>5, <2>6, OnlyLocal DEF RegistrySteps, Picking
  <1>4. CASE loc[g].mode = "clean" /\ g \in Workers /\ conn' = [conn EXCEPT ![g] = "gone"] /\ Return(g)
    <2>1. pc' = [pc EXCEPT ![g] = "idle"] /\ loc' = [loc EXCEPT ![g] = NoLocals]
      BY <1>4 DEF Return, Goto
    <2>2. /\ Solo(g)' /\ pc' \in [Goroutines -> RegistrySteps] /\ loc' \in [Goroutines -> Locals]
          /\ pc'[g] = "idle" /\ loc'[g] = NoLocals
      BY <2>1, NoLocalsType, StaysSolo DEF RegistrySteps
    <2>3. /\ conn' \in [Workers -> {"open", "closing", "gone"}] /\ conn'[g] = "gone"
          /\ \A v \in Workers \ {g} : conn'[v] = conn[v]
      BY <1>4 DEF RegFor, RegistryTypeOK
    <2>4. RegistryTypeOK' /\ ~panicked' /\ ObjectsApart' /\ Served' = Served
      BY <1>0, <2>2, <2>3 DEF RegFor, RegistryTypeOK, ObjectsApart, Served
    <2>5. FunctionCount(g)' /\ WorkerCount(g)'
      BY <1>0, <2>2, <2>4 DEF RegFor, FunctionCount, WorkerCount
    <2>6. Membership(g)'
      <3> SUFFICES ASSUME NEW w \in Workers, NEW m \in Names, conn'[w] = "open" PROVE Tally(g, w, m)'
        BY DEF Membership
      <3>1. w # g /\ conn[w] = "open"
        BY <2>3
      <3>2. Entries(g, m)' = Entries(g, m)
        BY <1>0, <2>2, <2>4 DEF Entries
      <3>3. Tally(g, w, m)
        BY <3>1 DEF RegFor, Membership
      <3> QED BY <1>0, <3>1, <3>2, <3>3, TallySame
    <2>7. Leaving(g)'
      BY <1>l, <2>3 DEF Leaving
    <2>8. AddPlace(g)' /\ Target(g)' /\ PickPlace(g)' /\ RemovePlace(g)'
      BY <2>2 DEF AddPlace, Target, PickPlace, Adding, Picking, RemovePlace, Removing, Finding
    <2> QED BY <2>2, <2>4, <2>5, <2>6, <2>7, <2>8 DEF RegFor
  <1> QED BY <1>1, <1>2, <1>3, <1>4 DEF EndVisit

\* The loop finds an entry of the worker, or ends without one.
LEMMA ScanKeeps ==
  ASSUME NEW g \in Goroutines, Solo(g), RegFor(g), Scan(g)
  PROVE  Solo(g)' /\ RegFor(g)'
  <1> DEFINE o == loc[g].obj
             n == loc[g].fn
             s == list[o]
             v == loc[g].who
  <1>0. pc[g] = "scan" /\ UNCHANGED <<funcs, funcNum, num, list, conn, added, panicked>> /\ loc[g] \in Locals
    BY DEF Scan, At, RegFor, RegistryTypeOK
  <1>t. /\ v \in Workers
        /\ g \in Workers => v = g /\ loc[g].mode \in {"func", "clean", "eof"}
        /\ g \in Workers => conn[g] = IF loc[g].mode = "func" THEN "open" ELSE "closing"
        /\ g \in Callers => loc[g].mode = "clean" /\ conn[v] = "gone" /\ loc[g].name \in Names
    BY <1>0 DEF RegFor, Target, Removing, Finding
  <1>p. o \in Objs /\ n \in Names /\ funcs[n] = o /\ s \in Seq(Workers)
    BY <1>0 DEF RegFor, RemovePlace, Finding, RegistryTypeOK
  <1>s. n \in Served /\ n \notin loc[g].todo
    BY <1>0, <1>p, FuncMapAssumption DEF RegFor, RemovePlace, Finding, Served, Objs
  <1>a. ASSUME NEW m \in Names, conn[g] = "open", g \in Workers PROVE Tally(g, g, m)
    BY <1>a DEF RegFor, Membership
  <1>1. ASSUME NEW k \in DOMAIN s, s[k] = v, Goto(g, "cut"), loc' = [loc EXCEPT ![g].k = k]
        PROVE  Solo(g)' /\ RegFor(g)'
    <2> DEFINE l == [loc[g] EXCEPT !.k = k]
    <2>1. pc' = [pc EXCEPT ![g] = "cut"] /\ loc' = [loc EXCEPT ![g] = l]
      BY <1>1 DEF Goto
    <2>2. k \in 1..Len(s) /\ s[k] = v
      BY <1>1, <1>p
    <2>3. k \in Nat
      BY <1>p, <2>2
    <2>4. /\ l \in Locals /\ l.name = loc[g].name /\ l.fn = n /\ l.obj = o /\ l.k = k
          /\ l.who = v /\ l.todo = loc[g].todo /\ l.mode = loc[g].mode
      BY <1>0, <2>3 DEF Locals
    <2> HIDE DEF l
    <2>5. pc'[g] = "cut" /\ loc'[g] = l
      BY <2>1, <2>4, StaysSolo DEF RegistrySteps, Removing, Finding
    <2>6. AddPlace(g)' /\ PickPlace(g)'
      BY <2>5 DEF AddPlace, PickPlace, Adding, Picking
    <2>7. RemovePlace(g)'
      BY <1>0, <1>p, <1>s, <2>2, <2>4, <2>5 DEF RemovePlace, Finding
    <2>8. Target(g)'
      BY <1>0, <1>t, <2>4, <2>5 DEF Target, Finding
    <2>9. ASSUME NEW m \in Names, g \in Workers, conn[g] = "open" PROVE Tally(g, g, m)'
      <3>1. Entries(g, m)' = Entries(g, m)
        BY <1>0, <2>5 DEF Entries, Served
      <3>2. (Announcing(g, m)' <=> Announcing(g, m)) /\ (Withdrawing(g, m)' <=> Withdrawing(g, m))
        BY <1>0, <2>4, <2>5 DEF Announcing, Withdrawing, Adding
      <3> QED BY <1>0, <1>a, <2>9, <3>1, <3>2, TallySame
    <2>10. "cut" \in RegistrySteps /\ "cut" \in Removing /\ "cut" \notin Adding
      BY DEF RegistrySteps, Removing, Finding, Adding
    <2> QED BY <1>0, <2>1, <2>4, <2>6, <2>7, <2>8, <2>9, <2>10, OnlyLocal
  <1>2. ASSUME ~Contains(s, v), Goto(g, "next"), UNCHANGED loc
        PROVE  Solo(g)' /\ RegFor(g)'
    <2>1. pc' = [pc EXCEPT ![g] = "next"] /\ loc' = [loc EXCEPT ![g] = loc[g]]
      BY <1>2 DEF Goto, RegFor, RegistryTypeOK
    <2>2. pc'[g] = "next" /\ loc'[g] = loc[g]
      BY <1>0, <2>1, StaysSolo DEF RegistrySteps, Removing, Finding
    <2>3. AddPlace(g)' /\ PickPlace(g)' /\ RemovePlace(g)'
      BY <2>2 DEF AddPlace, PickPlace, Adding, Picking, RemovePlace, Finding
    <2>4. Target(g)'
      BY <1>0, <1>t, <2>2 DEF Target, Finding
    <2>5. ASSUME NEW m \in Names, g \in Workers, conn[g] = "open" PROVE Tally(g, g, m)'
      <3>1. Entries(g, m)' = Entries(g, m)
        BY <1>0, <2>2 DEF Entries, Served
      <3>2. CASE m # n \/ loc[g].mode # "func"
        <4>1. (Announcing(g, m)' <=> Announcing(g, m)) /\ (Withdrawing(g, m)' <=> Withdrawing(g, m))
          BY <1>0, <2>2, <3>2 DEF Announcing, Withdrawing, Adding
        <4> QED BY <1>0, <1>a, <2>5, <3>1, <4>1, TallySame
      <3>3. CASE m = n /\ loc[g].mode = "func"
        <4>1. Withdrawing(g, m) /\ ~Withdrawing(g, m)' /\ ~Announcing(g, m)'
          BY <1>0, <1>s, <2>2, <3>3 DEF Announcing, Withdrawing, Adding
        <4>2. Entries(g, m) = s
          BY <1>0, <1>p, <1>s, <3>3 DEF Entries
        <4>3. \A i \in 1..Len(s) : s[i] # g
          BY <1>2, <1>t, <2>5, SetPlaces DEF Contains
        <4>4. Times(Entries(g, m), g) = 0
          <5> HIDE DEF s
          <5> QED BY <1>p, <4>2, <4>3, TimesPositive
        <4>5. added[g][m] \in Nat
          BY <2>5 DEF RegFor, RegistryTypeOK
        <4>6. added[g][m] = 0
          BY <1>a, <2>5, <4>1, <4>4, <4>5 DEF Tally
        <4> QED BY <1>0, <3>1, <4>1, <4>4, <4>6 DEF Tally
      <3> QED BY <3>2, <3>3
    <2> QED BY <1>0, <2>1, <2>3, <2>4, <2>5, OnlyLocal DEF RegistrySteps, Removing, Finding
  <1> QED BY <1>1, <1>2 DEF Scan

\* The tail moves down over the entry.
LEMMA CutKeeps ==
  ASSUME NEW g \in Goroutines, Solo(g), RegFor(g), Cut(g)
  PROVE  Solo(g)' /\ RegFor(g)'
  <1> DEFINE o == loc[g].obj
             n == loc[g].fn
             s == list[o]
             v == loc[g].who
             c == RemoveAt(s, loc[g].k)
             d == Append(c, Last(s))
             l == [loc[g] EXCEPT !.new = c]
  <1>0. /\ pc[g] = "cut" /\ UNCHANGED <<funcs, funcNum, num, conn, added, panicked>> /\ loc[g] \in Locals
        /\ pc' = [pc EXCEPT ![g] = "shrink"] /\ list' = [list EXCEPT ![o] = d] /\ loc' = [loc EXCEPT ![g] = l]
    BY DEF Cut, At, Goto, RegFor, RegistryTypeOK
  <1>t. /\ v \in Workers
        /\ g \in Workers => v = g /\ loc[g].mode \in {"func", "clean", "eof"}
        /\ g \in Workers => conn[g] = IF loc[g].mode = "func" THEN "open" ELSE "closing"
        /\ g \in Callers => loc[g].mode = "clean" /\ conn[v] = "gone" /\ loc[g].name \in Names
    BY <1>0 DEF RegFor, Target, Removing, Finding
  <1>p. /\ o \in Objs /\ n \in Names /\ funcs[n] = o /\ s \in Seq(Workers)
        /\ loc[g].k \in 1..Len(s) /\ s[loc[g].k] = v
    BY <1>0 DEF RegFor, RemovePlace, Finding, RegistryTypeOK
  <1>s. n \in Served /\ n \notin loc[g].todo /\ \A m \in Served : funcs[m] \in Objs /\ (funcs[m] = o => m = n)
    <2>1. n \in Served
      BY <1>p, FuncMapAssumption DEF Served, Objs
    <2>2. n \notin loc[g].todo
      BY <1>0 DEF RegFor, RemovePlace, Finding
    <2>3. \A m \in Served : funcs[m] \in Objs /\ (funcs[m] = o => m = n)
      BY <1>p, <2>1 DEF RegFor, RegistryTypeOK, Served, Objs, ObjectsApart
    <2> QED BY <2>1, <2>2, <2>3
  <1>1. /\ c \in Seq(Workers) /\ d \in Seq(Workers)
        /\ Len(s) = Len(c) + 1 /\ Len(d) = Len(c) + 1
        /\ \A y : Times(c, y) = Times(s, y) - (IF v = y THEN 1 ELSE 0)
    <2> DEFINE k == loc[g].k
    <2>1. k \in 1..Len(s) /\ s[k] = v /\ s \in Seq(Workers)
      BY <1>p
    <2> HIDE DEF k, s, v
    <2>2. LET e == RemoveAt(s, k)
              f == Append(e, Last(s))
          IN /\ e \in Seq(Workers) /\ f \in Seq(Workers)
             /\ Len(s) = Len(e) + 1 /\ Len(f) = Len(e) + 1
             /\ \A y : Times(e, y) = Times(s, y) - (IF s[k] = y THEN 1 ELSE 0)
      BY <2>1, CutOut
    <2> QED BY <2>1, <2>2 DEF k
  <1> HIDE DEF c
  <1>2. /\ l \in Locals /\ l.name = loc[g].name /\ l.fn = n /\ l.obj = o /\ l.new = c
        /\ l.who = v /\ l.todo = loc[g].todo /\ l.mode = loc[g].mode
    BY <1>0, <1>1, SetNew
  <1>3. /\ Solo(g)' /\ pc' \in [Goroutines -> RegistrySteps] /\ loc' \in [Goroutines -> Locals]
        /\ pc'[g] = "shrink" /\ loc'[g] = l
    BY <1>0, <1>2, StaysSolo DEF RegistrySteps, Removing, Finding
  <1> HIDE DEF d, l
  <1>4. list' \in [Objs -> Seq(Workers)] /\ list'[o] = d /\ \A x \in Objs \ {o} : list'[x] = list[x]
    BY <1>0, <1>1, <1>p DEF RegFor, RegistryTypeOK
  <1>5. RegistryTypeOK' /\ ~panicked' /\ ObjectsApart' /\ Served' = Served
    BY <1>0, <1>3, <1>4 DEF RegFor, RegistryTypeOK, ObjectsApart, Served
  <1>6. FunctionCount(g)'
    BY <1>0, <1>3, <1>5 DEF RegFor, FunctionCount
  <1>7. WorkerCount(g)'
    <2>1. ASSUME NEW m \in Served PROVE Len(list'[funcs[m]]) = Len(list[funcs[m]])
      BY <1>s, <1>1, <1>4
    <2> QED BY <1>0, <1>3, <1>5, <2>1 DEF RegFor, WorkerCount
  <1>9. Membership(g)'
    <2> SUFFICES ASSUME NEW w \in Workers, NEW m \in Names, conn[w] = "open" PROVE Tally(g, w, m)'
      BY <1>0 DEF Membership
    <2>1. Tally(g, w, m)
      BY DEF RegFor, Membership
    <2>2. CASE m = n
      <3>1. Entries(g, m) = s /\ Entries(g, m)' = c
        BY <1>0, <1>2, <1>3, <1>5, <1>p, <1>s, <2>2 DEF Entries
      <3>2. ~Announcing(g, m) /\ ~Announcing(g, m)' /\ ~Withdrawing(g, m)'
        BY <1>0, <1>2, <1>3, <1>s, <2>2 DEF Announcing, Withdrawing, Adding
      <3>3. Times(s, w) \in Nat /\ added[w][m] \in Nat
        BY <1>p, TimesType DEF RegFor, RegistryTypeOK
      <3>4. added[w][m] = Times(c, w)
        <4>1. CASE w = v
          <5>1. w = g /\ Withdrawing(g, m)
            BY <1>0, <1>t, <2>2, <4>1 DEF Withdrawing, Goroutines
          <5>2. Times(s, w) > 0
            <6>1. s \in Seq(Workers) /\ \E i \in 1..Len(s) : s[i] = w
              BY <1>p, <4>1
            <6> HIDE DEF s
            <6> QED BY <6>1, TimesPositive
          <5>3. Times(s, w) = added[w][m] + 1
            BY <2>1, <3>1, <3>3, <5>1, <5>2 DEF Tally
          <5>4. Times(c, w) = Times(s, w) - 1
            BY <1>1, <4>1
          <5> QED BY <3>3, <5>3, <5>4
        <4>2. CASE w # v
          <5>1. ~(w = g /\ Withdrawing(g, m))
            BY <1>t, <4>2 DEF Goroutines
          <5>2. Times(s, w) = added[w][m]
            BY <2>1, <3>1, <3>2, <5>1 DEF Tally
          <5>3. Times(c, w) = Times(s, w) - 0
            BY <1>1, <4>2
          <5> QED BY <3>3, <5>2, <5>3
        <4> QED BY <4>1, <4>2
      <3> QED BY <1>0, <3>1, <3>2, <3>4 DEF Tally
    <2>3. CASE m # n
      <3>1. Entries(g, m)' = Entries(g, m)
        BY <1>0, <1>2, <1>3, <1>4, <1>5, <1>p, <1>s, <2>3 DEF Entries
      <3>2. (Announcing(g, m)' <=> Announcing(g, m)) /\ (Withdrawing(g, m)' <=> Withdrawing(g, m))
        BY <1>0, <1>2, <1>3, <2>3 DEF Announcing, Withdrawing, Adding
      <3> QED BY <1>0, <2>1, <3>1, <3>2, TallySame
    <2> QED BY <2>2, <2>3
  <1>10. Leaving(g)'
    BY <1>0, <1>3 DEF RegFor, Leaving, Removing, Finding
  <1>11. Target(g)'
    BY <1>0, <1>t, <1>2, <1>3 DEF Target, Finding
  <1>12. RemovePlace(g)'
    BY <1>0, <1>p, <1>s, <1>1, <1>2, <1>3, <1>4 DEF RemovePlace, Finding
  <1>13. AddPlace(g)' /\ PickPlace(g)'
    BY <1>3 DEF AddPlace, PickPlace, Adding, Picking
  <1> QED BY <1>3, <1>5, <1>6, <1>7, <1>9, <1>10, <1>11, <1>12, <1>13 DEF RegFor

\* The index of the range loop is still good when the slice is cut.
LEMMA CutInBounds ==
  ASSUME NEW g \in Goroutines, RegFor(g), CutPanics(g)
  PROVE  FALSE
  <1>1. pc[g] = "cut" /\ loc[g].k > Len(list[loc[g].obj])
    BY DEF CutPanics, At
  <1>2. loc[g].k \in 1..Len(list[loc[g].obj]) /\ list[loc[g].obj] \in Seq(Workers)
    BY <1>1 DEF RegFor, RemovePlace, Finding, RegistryTypeOK
  <1> QED BY <1>1, <1>2

\* The shorter slice is stored.
LEMMA ShrinkKeeps ==
  ASSUME NEW g \in Goroutines, Solo(g), RegFor(g), Shrink(g)
  PROVE  Solo(g)' /\ RegFor(g)'
  <1> DEFINE o == loc[g].obj
             n == loc[g].fn
             s == list[o]
             v == loc[g].who
             c == loc[g].new
  <1>0. /\ Solo(g)' /\ pc' \in [Goroutines -> RegistrySteps] /\ loc' \in [Goroutines -> Locals]
        /\ pc[g] = "shrink" /\ pc'[g] = "dec" /\ loc'[g] = loc[g] /\ ~panicked'
    BY MoveOn DEF Shrink, RegistrySteps, Removing
  <1>1. UNCHANGED <<funcs, funcNum, num, conn, added, panicked, loc>> /\ list' = [list EXCEPT ![o] = c] /\ loc[g] \in Locals
    BY DEF Shrink, RegFor, RegistryTypeOK
  <1>t. /\ v \in Workers
        /\ g \in Workers => v = g /\ loc[g].mode \in {"func", "clean", "eof"}
        /\ g \in Workers => conn[g] = IF loc[g].mode = "func" THEN "open" ELSE "closing"
        /\ g \in Callers => loc[g].mode = "clean" /\ conn[v] = "gone" /\ loc[g].name \in Names
    BY <1>0 DEF RegFor, Target, Removing, Finding
  <1>p. /\ o \in Objs /\ n \in Names /\ funcs[n] = o /\ s \in Seq(Workers) /\ c \in Seq(Workers)
        /\ Len(s) = Len(c) + 1
    BY <1>0, <1>1 DEF RegFor, RemovePlace, Finding, RegistryTypeOK, Locals
  <1>s. n \in Served /\ \A m \in Served : funcs[m] \in Objs /\ (funcs[m] = o => m = n)
    <2>1. o \in Objs /\ n \in Names /\ funcs[n] = o
      BY <1>p
    <2> HIDE DEF o, n
    <2> QED BY <2>1, FuncMapAssumption DEF RegFor, Served, Objs, ObjectsApart, RegistryTypeOK
  <1> HIDE DEF c, n, v
  <1>4. list' \in [Objs -> Seq(Workers)] /\ list'[o] = c /\ \A x \in Objs \ {o} : list'[x] = list[x]
    BY <1>1, <1>p DEF RegFor, RegistryTypeOK
  <1> HIDE DEF o
  <1>5. RegistryTypeOK' /\ ObjectsApart' /\ Served' = Served
    BY <1>0, <1>1, <1>4 DEF RegFor, RegistryTypeOK, ObjectsApart, Served
  <1>6. FunctionCount(g)'
    BY <1>0, <1>1, <1>5 DEF RegFor, FunctionCount
  <1>7. WorkerCount(g)'
    <2>1. ASSUME NEW m \in Served
          PROVE  num[funcs[m]] = Len(list'[funcs[m]]) + (IF o = funcs[m] THEN 1 ELSE 0)
      <3>1. num[funcs[m]] = Len(list[funcs[m]]) + 0 /\ Len(list[funcs[m]]) \in Nat
        BY <1>0, <1>s DEF RegFor, WorkerCount, RegistryTypeOK
      <3>2. CASE o = funcs[m] BY <1>p, <1>4, <3>1, <3>2
      <3>3. CASE o # funcs[m] BY <1>s, <1>4, <3>1, <3>3
      <3> QED BY <3>2, <3>3
    <2> QED BY <1>0, <1>1, <1>5, <2>1 DEF WorkerCount, o
  <1>9. Membership(g)'
    <2> SUFFICES ASSUME NEW w \in Workers, NEW m \in Names, conn[w] = "open" PROVE Tally(g, w, m)'
      BY <1>1 DEF Membership
    <2>1. Entries(g, m)' = Entries(g, m)
      BY <1>0, <1>1, <1>4, <1>5, <1>s DEF Entries, o, c
    <2>2. (Announcing(g, m)' <=> Announcing(g, m)) /\ (Withdrawing(g, m)' <=> Withdrawing(g, m))
      BY <1>0 DEF Announcing, Withdrawing, Adding
    <2>3. Tally(g, w, m)
      BY DEF RegFor, Membership
    <2> QED BY <1>1, <2>1, <2>2, <2>3, TallySame
  <1>10. Leaving(g)'
    BY <1>0, <1>1 DEF RegFor, Leaving, Removing, Finding
  <1>11. Target(g)'
    BY <1>0, <1>1, <1>t DEF Target, Finding, v
  <1>12. RemovePlace(g)'
    BY <1>0, <1>1, <1>p DEF RemovePlace, Finding, o, n
  <1>13. AddPlace(g)' /\ PickPlace(g)'
    BY <1>0 DEF AddPlace, PickPlace, Adding, Picking
  <1> QED BY <1>0, <1>5, <1>6, <1>7, <1>9, <1>10, <1>11, <1>12, <1>13 DEF RegFor

\* A step of a removal that g takes with the same local variables, after the worker was cut out.
LEMMA TargetStays ==
  ASSUME NEW g \in Goroutines, RegFor(g), UNCHANGED <<loc, conn, added>>, pc[g] \in Removing,
         pc'[g] \in Removing \ Finding, pc[g] \notin Finding
  PROVE  /\ Target(g)' /\ Leaving(g)' /\ AddPlace(g)' /\ PickPlace(g)'
         /\ \A m \in Names : /\ Announcing(g, m)' <=> Announcing(g, m)
                             /\ Withdrawing(g, m)' <=> Withdrawing(g, m)
  <1>1. Target(g)'
    BY DEF RegFor, Target
  <1>2. Leaving(g)'
    BY DEF RegFor, Leaving
  <1>3. AddPlace(g)' /\ PickPlace(g)'
    BY DEF AddPlace, PickPlace, Adding, Picking, Removing, Finding
  <1>4. \A m \in Names : /\ Announcing(g, m)' <=> Announcing(g, m)
                         /\ Withdrawing(g, m)' <=> Withdrawing(g, m)
    BY DEF Announcing, Withdrawing, Adding, Removing, Finding
  <1> QED BY <1>1, <1>2, <1>3, <1>4

\* WorkerNum follows the list.
LEMMA DecWorkerNumKeeps ==
  ASSUME NEW g \in Goroutines, Solo(g), RegFor(g), DecWorkerNum(g)
  PROVE  Solo(g)' /\ RegFor(g)'
  <1> DEFINE o == loc[g].obj
             n == loc[g].fn
             p == IF loc[g].mode = "eof" THEN "next" ELSE "zero"
  <1>0. p \in {"next", "zero"} /\ p \in RegistrySteps /\ p \in Removing \ Finding
    BY DEF RegistrySteps, Removing, Finding
  <1>1. /\ Solo(g)' /\ pc' \in [Goroutines -> RegistrySteps] /\ loc' \in [Goroutines -> Locals]
        /\ pc[g] = "dec" /\ pc'[g] = p /\ loc'[g] = loc[g] /\ ~panicked'
    BY <1>0, MoveOn DEF DecWorkerNum
  <1> HIDE DEF p
  <1>2. UNCHANGED <<funcs, funcNum, list, conn, added, panicked, loc>> /\ num' = [num EXCEPT ![o] = @ - 1]
    BY DEF DecWorkerNum
  <1>3. /\ o \in Objs /\ n \in Names /\ funcs[n] = o /\ num \in [Objs -> Int]
        /\ \A m \in Served : funcs[m] \in Objs
    BY <1>1, FuncMapAssumption DEF RegFor, RemovePlace, RegistryTypeOK, Served, Objs
  <1> HIDE DEF o
  <1>4. num' \in [Objs -> Int] /\ num'[o] = num[o] - 1 /\ \A x \in Objs \ {o} : num'[x] = num[x]
    BY <1>2, <1>3
  <1>5. RegistryTypeOK' /\ ObjectsApart' /\ Served' = Served
    BY <1>1, <1>2, <1>4 DEF RegFor, RegistryTypeOK, ObjectsApart, Served
  <1>6. FunctionCount(g)'
    BY <1>0, <1>1, <1>2, <1>5 DEF RegFor, FunctionCount
  <1>7. WorkerCount(g)'
    <2>1. ASSUME NEW m \in Served PROVE num'[funcs[m]] = Len(list[funcs[m]]) + 0
      <3>1. num[funcs[m]] = Len(list[funcs[m]]) + (IF o = funcs[m] THEN 1 ELSE 0)
        BY <1>1 DEF RegFor, WorkerCount, o
      <3>a. Len(list[funcs[m]]) \in Nat
        BY <1>3 DEF RegFor, RegistryTypeOK
      <3>2. CASE o = funcs[m] BY <1>4, <3>1, <3>a, <3>2
      <3>3. CASE o # funcs[m] BY <1>3, <1>4, <3>1, <3>a, <3>3
      <3> QED BY <3>2, <3>3
    <2> QED BY <1>0, <1>1, <1>2, <1>5, <2>1 DEF WorkerCount
  <1>8. /\ Target(g)' /\ Leaving(g)' /\ AddPlace(g)' /\ PickPlace(g)'
        /\ \A m \in Names : /\ Announcing(g, m)' <=> Announcing(g, m)
                            /\ Withdrawing(g, m)' <=> Withdrawing(g, m)
    BY <1>0, <1>1, <1>2, TargetStays DEF Removing, Finding
  <1>9. Membership(g)'
    <2> SUFFICES ASSUME NEW w \in Workers, NEW m \in Names, conn[w] = "open" PROVE Tally(g, w, m)'
      BY <1>2 DEF Membership
    <2>1. Entries(g, m)' = Entries(g, m)
      BY <1>0, <1>1, <1>2, <1>5 DEF Entries
    <2>2. Tally(g, w, m)
      BY DEF RegFor, Membership
    <2> QED BY <1>2, <1>8, <2>1, <2>2, TallySame
  <1>10. RemovePlace(g)'
    BY <1>0, <1>1, <1>2, <1>3 DEF RemovePlace, Finding, o
  <1>11. pc'[g] # "idle"
    BY <1>0, <1>1
  <1> QED BY <1>1, <1>5, <1>6, <1>7, <1>8, <1>9, <1>10, <1>11 DEF RegFor

\* The counter that is tested is exact.
LEMMA TestZeroKeeps ==
  ASSUME NEW g \in Goroutines, Solo(g), RegFor(g), TestZero(g)
  PROVE  Solo(g)' /\ RegFor(g)'
  <1> DEFINE p == IF num[loc[g].obj] = 0 /\ funcs[loc[g].fn] # 0 THEN "delete" ELSE "next"
  <1>0. p \in {"next", "delete"} /\ p \in RegistrySteps /\ p \in Removing \ Finding /\ p \notin Adding
    BY DEF RegistrySteps, Removing, Finding, Adding
  <1>1. /\ pc[g] = "zero" /\ UNCHANGED <<funcs, funcNum, num, list, conn, added, panicked, loc>>
        /\ loc[g] \in Locals /\ pc' = [pc EXCEPT ![g] = p] /\ loc' = [loc EXCEPT ![g] = loc[g]]
    BY DEF TestZero, At, Goto, RegFor, RegistryTypeOK
  <1>2. pc'[g] = p
    BY <1>0, <1>1, StaysSolo
  <1>3. /\ Target(g)' /\ AddPlace(g)' /\ PickPlace(g)'
        /\ \A m \in Names : /\ Announcing(g, m)' <=> Announcing(g, m)
                            /\ Withdrawing(g, m)' <=> Withdrawing(g, m)
    BY <1>0, <1>1, <1>2, TargetStays DEF Removing, Finding
  <1>4. RemovePlace(g)'
    BY <1>0, <1>1, <1>2 DEF RegFor, RemovePlace, Finding
  <1>5. ASSUME NEW m \in Names, g \in Workers, conn[g] = "open" PROVE Tally(g, g, m)'
    <2>1. Entries(g, m)' = Entries(g, m)
      BY <1>0, <1>1, <1>2 DEF Entries, Served
    <2>2. Tally(g, g, m)
      BY <1>5 DEF RegFor, Membership
    <2> QED BY <1>1, <1>3, <1>5, <2>1, <2>2, TallySame
  <1> HIDE DEF p
  <1> QED BY <1>0, <1>1, <1>3, <1>4, <1>5, OnlyLocal

\* A function that is deleted has no workers.
LEMMA DeleteFuncKeeps ==
  ASSUME NEW g \in Goroutines, Solo(g), RegFor(g), DeleteFunc(g)
  PROVE  Solo(g)' /\ RegFor(g)'
  <1> DEFINE o == loc[g].obj
             n == loc[g].fn
  <1>1. /\ Solo(g)' /\ pc' \in [Goroutines -> RegistrySteps] /\ loc' \in [Goroutines -> Locals]
        /\ pc[g] = "delete" /\ pc'[g] = "uncount" /\ loc'[g] = loc[g] /\ ~panicked'
    BY MoveOn DEF DeleteFunc, RegistrySteps, Removing
  <1>2. UNCHANGED <<funcNum, num, list, conn, added, panicked, loc>> /\ funcs' = [funcs EXCEPT ![n] = 0]
    BY DEF DeleteFunc
  <1>3. o \in Objs /\ n \in Names /\ funcs[n] = o /\ num[o] = 0
    BY <1>1 DEF RegFor, RemovePlace
  <1> HIDE DEF o, n
  <1>4. /\ funcs' \in [Names -> 0..MaxObjs] /\ funcs'[n] = 0
        /\ (\A m \in Names \ {n} : funcs'[m] = funcs[m])
        /\ Served' = Served \ {n} /\ n \in Served
    BY <1>2, <1>3, FuncMapAssumption DEF RegFor, RegistryTypeOK, Served, Objs
  <1>5. RegistryTypeOK' /\ ObjectsApart'
    BY <1>1, <1>2, <1>4 DEF RegFor, RegistryTypeOK, ObjectsApart, Served
  <1>6. FunctionCount(g)'
    <2>1. IsFiniteSet(Served) /\ funcNum = Cardinality(Served) + 0
      BY <1>1 DEF RegFor, FunctionCount
    <2>2. IsFiniteSet(Served') /\ Cardinality(Served') = Cardinality(Served) - 1
      BY <1>4, <2>1, FS_RemoveElement
    <2>3. funcNum' = Cardinality(Served') + 1
      BY <1>2, <2>1, <2>2, FS_CardinalityType
    <2> QED BY <1>1, <2>2, <2>3 DEF FunctionCount
  <1>7. WorkerCount(g)'
    BY <1>1, <1>2, <1>4 DEF RegFor, WorkerCount, Served
  <1>8. /\ Target(g)' /\ Leaving(g)' /\ AddPlace(g)' /\ PickPlace(g)'
        /\ \A m \in Names : /\ Announcing(g, m)' <=> Announcing(g, m)
                            /\ Withdrawing(g, m)' <=> Withdrawing(g, m)
    BY <1>1, <1>2, TargetStays DEF Removing, Finding
  <1>9. Membership(g)'
    <2> SUFFICES ASSUME NEW w \in Workers, NEW m \in Names, conn[w] = "open" PROVE Tally(g, w, m)'
      BY <1>2 DEF Membership
    <2>1. list[o] = <<>>
      <3>1. list[o] \in Seq(Workers) /\ num[o] = Len(list[o]) + 0
        BY <1>1, <1>3, <1>4 DEF RegFor, WorkerCount, RegistryTypeOK
      <3>2. Len(list[o]) \in Nat
        BY <3>1
      <3> QED BY <1>3, <3>1, <3>2
    <2>2. Entries(g, m)' = Entries(g, m)
      BY <1>1, <1>2, <1>3, <1>4, <2>1 DEF Entries
    <2>3. Tally(g, w, m)
      BY DEF RegFor, Membership
    <2> QED BY <1>2, <1>8, <2>2, <2>3, TallySame
  <1>10. RemovePlace(g)'
    BY <1>1, <1>2, <1>3, <1>4 DEF RemovePlace, Finding, n
  <1> QED BY <1>1, <1>5, <1>6, <1>7, <1>8, <1>9, <1>10 DEF RegFor

\* FuncNum follows.
LEMMA UncountFuncKeeps ==
  ASSUME NEW g \in Goroutines, Solo(g), RegFor(g), UncountFunc(g)
  PROVE  Solo(g)' /\ RegFor(g)'
  <1>1. /\ Solo(g)' /\ pc' \in [Goroutines -> RegistrySteps] /\ loc' \in [Goroutines -> Locals]
        /\ pc[g] = "uncount" /\ pc'[g] = "next" /\ loc'[g] = loc[g] /\ ~panicked'
    BY MoveOn DEF UncountFunc, RegistrySteps, Removing
  <1>2. UNCHANGED <<funcs, num, list, conn, added, panicked, loc>> /\ funcNum' = funcNum - 1 /\ funcNum \in Int
    BY DEF UncountFunc, RegFor, RegistryTypeOK
  <1>3. RegistryTypeOK' /\ ObjectsApart' /\ Served' = Served
    BY <1>1, <1>2 DEF RegFor, RegistryTypeOK, ObjectsApart, Served
  <1>4. FunctionCount(g)'
    <2>1. IsFiniteSet(Served) /\ funcNum = Cardinality(Served) + 1
      BY <1>1 DEF RegFor, FunctionCount
    <2>2. funcNum' = Cardinality(Served) + 0
      BY <1>2, <2>1, FS_CardinalityType
    <2> QED BY <1>1, <1>3, <2>1, <2>2 DEF FunctionCount
  <1>5. WorkerCount(g)'
    BY <1>1, <1>2, <1>3 DEF RegFor, WorkerCount
  <1>6. /\ Target(g)' /\ Leaving(g)' /\ AddPlace(g)' /\ PickPlace(g)'
        /\ \A m \in Names : /\ Announcing(g, m)' <=> Announcing(g, m)
                            /\ Withdrawing(g, m)' <=> Withdrawing(g, m)
    BY <1>1, <1>2, TargetStays DEF Removing, Finding
  <1>7. Membership(g)'
    <2> SUFFICES ASSUME NEW w \in Workers, NEW m \in Names, conn[w] = "open" PROVE Tally(g, w, m)'
      BY <1>2 DEF Membership
    <2>1. Entries(g, m)' = Entries(g, m)
      BY <1>1, <1>2, <1>3 DEF Entries
    <2>2. Tally(g, w, m)
      BY DEF RegFor, Membership
    <2> QED BY <1>2, <1>6, <2>1, <2>2, TallySame
  <1>8. RemovePlace(g)'
    BY <1>1 DEF RemovePlace, Finding
  <1> QED BY <1>1, <1>3, <1>4, <1>5, <1>6, <1>7, <1>8 DEF RegFor

-----------------------------------------------------------------------------
(* GetBestWorker *)

\* A goroutine of the pool changes no list on its own behalf, and while it is inside nobody leaves.
LEMMA CallersOnly ==
  ASSUME NEW g \in Callers, Solo(g), RegFor(g), pc[g] \in Picking \cup {"idle"}
  PROVE  /\ g \in Goroutines /\ g \notin Workers /\ (\A w \in Workers : conn[w] # "closing")
  <1>1. g \in Goroutines /\ g \notin Workers
    BY FuncMapAssumption DEF Goroutines
  <1>2. \A w \in Workers : conn[w] # "closing"
    BY <1>1 DEF RegFor, Leaving
  <1> QED BY <1>1, <1>2

\* GetBestWorker begins.
LEMMA GetBestWorkerKeeps ==
  ASSUME NEW g \in Callers, Solo(g), RegFor(g), pc[g] = "idle", NEW n \in Names, GetBestWorker(g, n)
  PROVE  Solo(g)' /\ RegFor(g)'
  <1>0. g \in Goroutines /\ g \notin Workers /\ (\A w \in Workers : conn[w] # "closing")
    BY CallersOnly
  <1> DEFINE l == [NoLocals EXCEPT !.name = n, !.mode = "clean"]
  <1>1. /\ pc' = [pc EXCEPT ![g] = "load"] /\ loc' = [loc EXCEPT ![g] = l]
        /\ UNCHANGED <<funcs, funcNum, num, list, conn, added, panicked>>
    BY DEF GetBestWorker, RegFor
  <1>2. l \in Locals /\ l.name = n /\ l.mode = "clean"
    BY NoLocalsType DEF Locals
  <1> HIDE DEF l
  <1>3. "load" \in RegistrySteps
    BY DEF RegistrySteps, Picking
  <1>4. pc'[g] = "load" /\ loc'[g] = l
    BY <1>0, <1>1, <1>2, <1>3, StaysSolo
  <1>5. (AddPlace(g) /\ Target(g) /\ RemovePlace(g) /\ PickPlace(g))'
    BY <1>2, <1>4 DEF AddPlace, Target, RemovePlace, PickPlace, Adding, Removing, Finding
  <1> QED BY <1>0, <1>1, <1>2, <1>3, <1>5, OnlyLocal

\* A function with workers, or no worker is returned.
LEMMA LoadFuncKeeps ==
  ASSUME NEW g \in Callers, Solo(g), RegFor(g), LoadFunc(g)
  PROVE  Solo(g)' /\ RegFor(g)'
  <1>1. /\ pc[g] = "load" /\ UNCHANGED <<funcs, funcNum, num, list, conn, added, panicked>>
    BY DEF LoadFunc, At
  <1>2. /\ g \in Goroutines /\ g \notin Workers /\ (\A w \in Workers : conn[w] # "closing")
    BY <1>1, CallersOnly DEF Picking
  <1> DEFINE o == funcs[loc[g].name]
  <1>3. loc[g].name \in Names /\ loc[g].mode = "clean" /\ o \in 0..MaxObjs /\ loc[g] \in Locals
    BY <1>1, <1>2 DEF RegFor, PickPlace, Picking, RegistryTypeOK
  <1>4. CASE o # 0 /\ num[o] > 0
    <2> DEFINE l == [loc[g] EXCEPT !.obj = o]
    <2>1. pc' = [pc EXCEPT ![g] = "rand"] /\ loc' = [loc EXCEPT ![g] = l]
      BY <1>4 DEF LoadFunc, Goto
    <2>2. l \in Locals /\ l.name = loc[g].name /\ l.obj = o /\ l.mode = "clean"
      BY <1>3 DEF Locals
    <2> HIDE DEF l
    <2>3. "rand" \in RegistrySteps
      BY DEF RegistrySteps, Picking
    <2>4. pc'[g] = "rand" /\ loc'[g] = l
      BY <1>2, <2>1, <2>2, <2>3, StaysSolo
    <2>5. (AddPlace(g) /\ Target(g) /\ RemovePlace(g) /\ PickPlace(g))'
      BY <1>1, <1>3, <1>4, <2>2, <2>4 DEF AddPlace, Target, RemovePlace, PickPlace, Adding, Removing, Finding, Objs
    <2> QED BY <1>1, <1>2, <2>1, <2>2, <2>3, <2>5, OnlyLocal
  <1>5. CASE ~(o # 0 /\ num[o] > 0)
    <2>1. pc' = [pc EXCEPT ![g] = "idle"] /\ loc' = [loc EXCEPT ![g] = NoLocals]
      BY <1>5 DEF LoadFunc, Return, Goto
    <2>2. "idle" \in RegistrySteps
      BY DEF RegistrySteps
    <2>3. pc'[g] = "idle" /\ loc'[g] = NoLocals
      BY <1>2, <2>1, <2>2, NoLocalsType, StaysSolo
    <2>4. (AddPlace(g) /\ Target(g) /\ RemovePlace(g) /\ PickPlace(g))'
      BY <2>3 DEF AddPlace, Target, RemovePlace, PickPlace, Adding, Removing, Finding, Picking
    <2> QED BY <1>1, <1>2, <2>1, <2>2, <2>4, NoLocalsType, OnlyLocal
  <1> QED BY <1>4, <1>5

\* WorkerNum is still positive when it is read again.
LEMMA PickKeyKeeps ==
  ASSUME NEW g \in Callers, Solo(g), RegFor(g), PickKey(g)
  PROVE  Solo(g)' /\ RegFor(g)'
  <1> DEFINE o == loc[g].obj
  <1>1. /\ pc[g] = "rand" /\ UNCHANGED <<funcs, funcNum, num, list, conn, added, panicked>>
        /\ pc' = [pc EXCEPT ![g] = "index"]
    BY DEF PickKey, Move, At, Goto
  <1>2. /\ g \in Goroutines /\ g \notin Workers /\ (\A w \in Workers : conn[w] # "closing")
    BY <1>1, CallersOnly DEF Picking
  <1>3. /\ loc[g].name \in Names /\ loc[g].mode = "clean" /\ loc[g] \in Locals
        /\ o \in Objs /\ funcs[loc[g].name] = o /\ num[o] > 0 /\ num[o] \in Int
    BY <1>1, <1>2 DEF RegFor, PickPlace, Picking, RegistryTypeOK
  <1>4. PICK i \in 1..(IF num[o] < 0 THEN -num[o] ELSE num[o]) : loc' = [loc EXCEPT ![g].k = i]
    BY DEF PickKey
  <1>5. i \in 1..num[o] /\ i \in Nat
    BY <1>3, <1>4
  <1> DEFINE l == [loc[g] EXCEPT !.k = i]
  <1>6. loc' = [loc EXCEPT ![g] = l]
    BY <1>4
  <1>7. l \in Locals /\ l.name = loc[g].name /\ l.obj = o /\ l.k = i /\ l.mode = "clean"
    BY <1>3, <1>5 DEF Locals
  <1> HIDE DEF l
  <1>8. "index" \in RegistrySteps
    BY DEF RegistrySteps, Picking
  <1>9. pc'[g] = "index" /\ loc'[g] = l
    BY <1>1, <1>2, <1>6, <1>7, <1>8, StaysSolo
  <1>10. (AddPlace(g) /\ Target(g) /\ RemovePlace(g) /\ PickPlace(g))'
    BY <1>1, <1>3, <1>5, <1>7, <1>9 DEF AddPlace, Target, RemovePlace, PickPlace, Adding, Removing, Finding
  <1> QED BY <1>1, <1>2, <1>6, <1>7, <1>8, <1>10, OnlyLocal

\* The index is within the list.
LEMMA IndexWorkerKeeps ==
  ASSUME NEW g \in Callers, Solo(g), RegFor(g), IndexWorker(g)
  PROVE  Solo(g)' /\ RegFor(g)'
  <1> DEFINE o == loc[g].obj
             v == list[o][loc[g].k]
             l == [loc[g] EXCEPT !.who = v]
  <1>1. /\ pc[g] = "index" /\ UNCHANGED <<funcs, funcNum, num, list, conn, added, panicked>>
        /\ pc' = [pc EXCEPT ![g] = "check"] /\ loc' = [loc EXCEPT ![g] = l]
        /\ loc[g].k <= Len(list[o])
    BY DEF IndexWorker, At, Goto
  <1>2. /\ g \in Goroutines /\ g \notin Workers /\ (\A w \in Workers : conn[w] # "closing")
    BY <1>1, CallersOnly DEF Picking
  <1>3. /\ loc[g].name \in Names /\ loc[g].mode = "clean" /\ loc[g] \in Locals
        /\ o \in Objs /\ funcs[loc[g].name] = o /\ loc[g].k \in 1..num[o]
        /\ num[o] \in Int /\ list[o] \in Seq(Workers)
    BY <1>1, <1>2 DEF RegFor, PickPlace, Picking, RegistryTypeOK
  <1>4. loc[g].k \in 1..Len(list[o])
    BY <1>1, <1>3
  <1>5. v \in Workers /\ v \in ToSet(list[o])
    BY <1>3, <1>4, SetPlaces
  <1> HIDE DEF v
  <1>7. l \in Locals /\ l.name = loc[g].name /\ l.obj = o /\ l.who = v /\ l.mode = "clean"
    BY <1>3, <1>5 DEF Locals
  <1> HIDE DEF l
  <1>8. "check" \in RegistrySteps
    BY DEF RegistrySteps, Picking
  <1>9. pc'[g] = "check" /\ loc'[g] = l
    BY <1>1, <1>2, <1>7, <1>8, StaysSolo
  <1>10. (AddPlace(g) /\ Target(g) /\ RemovePlace(g) /\ PickPlace(g))'
    BY <1>1, <1>3, <1>5, <1>7, <1>9 DEF AddPlace, Target, RemovePlace, PickPlace, Adding, Removing, Finding
  <1> QED BY <1>1, <1>2, <1>7, <1>8, <1>10, OnlyLocal

\* WorkerNum is read twice and Workers after it; alone they still agree.
LEMMA PickInBounds ==
  ASSUME NEW g \in Callers, Solo(g), RegFor(g)
  PROVE  ~RandPanics(g) /\ ~IndexPanics(g)
  <1>0. g \in Goroutines
    BY DEF Goroutines
  <1>1. ~RandPanics(g)
    BY <1>0 DEF RegFor, PickPlace, Picking, RandPanics, At
  <1>2. ASSUME IndexPanics(g) PROVE FALSE
    <2> DEFINE o == loc[g].obj
    <2>1. pc[g] = "index" /\ loc[g].k > Len(list[o])
      BY <1>2 DEF IndexPanics, At
    <2>2. /\ loc[g].name \in Names /\ o \in Objs /\ funcs[loc[g].name] = o /\ loc[g].k \in 1..num[o]
          /\ list[o] \in Seq(Workers)
      BY <1>0, <2>1 DEF RegFor, PickPlace, Picking, RegistryTypeOK
    <2>3. num[o] = Len(list[o]) + 0
      BY <2>1, <2>2, FuncMapAssumption DEF RegFor, WorkerCount, Served, Objs
    <2> QED BY <2>1, <2>2, <2>3
  <1> QED BY <1>1, <1>2

\* The worker is returned, or is gone and to be taken out.
LEMMA CheckConnectKeeps ==
  ASSUME NEW g \in Callers, Solo(g), RegFor(g), CheckConnect(g)
  PROVE  Solo(g)' /\ RegFor(g)'
  <1> DEFINE v == loc[g].who
  <1>1. /\ pc[g] = "check" /\ UNCHANGED <<funcs, funcNum, num, list, conn, added, panicked>>
    BY DEF CheckConnect, At
  <1>2. /\ g \in Goroutines /\ g \notin Workers /\ (\A w \in Workers : conn[w] # "closing")
    BY <1>1, CallersOnly DEF Picking
  <1>3. /\ loc[g].name \in Names /\ loc[g].mode = "clean" /\ loc[g] \in Locals
        /\ loc[g].obj \in Objs /\ list[loc[g].obj] \in Seq(Workers) /\ v \in ToSet(list[loc[g].obj])
    BY <1>1, <1>2 DEF RegFor, PickPlace, Picking, RegistryTypeOK
  <1>4. v \in Workers
    BY <1>3 DEF ToSet
  <1>5. CASE conn[v] = "gone"
    <2> DEFINE l == [loc[g] EXCEPT !.todo = Names]
    <2>1. pc' = [pc EXCEPT ![g] = "next"] /\ loc' = [loc EXCEPT ![g] = l]
      BY <1>5 DEF CheckConnect, Goto
    <2>2. l \in Locals /\ l.name = loc[g].name /\ l.who = v /\ l.mode = "clean"
      BY <1>3 DEF Locals
    <2> HIDE DEF l
    <2>3. "next" \in RegistrySteps
      BY DEF RegistrySteps, Removing
    <2>4. pc'[g] = "next" /\ loc'[g] = l
      BY <1>2, <2>1, <2>2, <2>3, StaysSolo
    <2>5. (AddPlace(g) /\ RemovePlace(g) /\ PickPlace(g))'
      BY <2>4 DEF AddPlace, RemovePlace, PickPlace, Adding, Finding, Picking
    <2>6. Target(g)'
      BY <1>1, <1>2, <1>3, <1>4, <1>5, <2>2, <2>4 DEF Target
    <2> QED BY <1>1, <1>2, <2>1, <2>2, <2>3, <2>5, <2>6, OnlyLocal
  <1>6. CASE conn[v] # "gone"
    <2>1. pc' = [pc EXCEPT ![g] = "idle"] /\ loc' = [loc EXCEPT ![g] = NoLocals]
      BY <1>6 DEF CheckConnect, Return, Goto
    <2>2. "idle" \in RegistrySteps
      BY DEF RegistrySteps
    <2>3. pc'[g] = "idle" /\ loc'[g] = NoLocals
      BY <1>2, <2>1, <2>2, NoLocalsType, StaysSolo
    <2>4. (AddPlace(g) /\ Target(g) /\ RemovePlace(g) /\ PickPlace(g))'
      BY <2>3 DEF AddPlace, Target, RemovePlace, PickPlace, Adding, Removing, Finding, Picking
    <2> QED BY <1>1, <1>2, <2>1, <2>2, <2>4, NoLocalsType, OnlyLocal
  <1> QED BY <1>5, <1>6

-----------------------------------------------------------------------------
(* All steps *)

\* Only a goroutine that is inside takes a step inside.
LEMMA StepIsInside ==
  ASSUME NEW g \in Goroutines, Step(g)
  PROVE  pc[g] # "idle"
  <1>1. RemoveStep(g) => pc[g] # "idle"
    BY DEF RemoveStep, Visit, EndVisit, Scan, Cut, CutPanics, Shrink, DecWorkerNum, TestZero, DeleteFunc,
           UncountFunc, Move, At
  <1>2. AddStep(g) => pc[g] # "idle"
    BY DEF AddStep, CountFunc, StoreFunc, IncWorkerNum, ReadWorkers, AppendWorker, Move, At
  <1>3. PickStep(g) => pc[g] # "idle"
    BY DEF PickStep, LoadFunc, PickKey, RandPanics, IndexWorker, IndexPanics, CheckConnect, Move, At
  <1> QED BY <1>1, <1>2, <1>3 DEF Step

\* Every step of the goroutine that is inside.
LEMMA StepKeeps ==
  ASSUME NEW g \in Goroutines, Solo(g), RegFor(g), Step(g)
  PROVE  Solo(g)' /\ RegFor(g)'
  <1>1. CASE RemoveStep(g)
    BY <1>1, VisitKeeps, EndVisitKeeps, ScanKeeps, CutKeeps, CutInBounds, ShrinkKeeps, DecWorkerNumKeeps,
       TestZeroKeeps, DeleteFuncKeeps, UncountFuncKeeps DEF RemoveStep
  <1>2. CASE g \in Workers /\ AddStep(g)
    BY <1>2, CountFuncKeeps, StoreFuncKeeps, IncWorkerNumKeeps, ReadWorkersKeeps, AppendWorkerKeeps DEF AddStep
  <1>3. CASE g \in Callers /\ PickStep(g)
    BY <1>3, LoadFuncKeeps, PickKeyKeeps, IndexWorkerKeeps, PickInBounds, CheckConnectKeeps DEF PickStep
  <1> QED BY <1>1, <1>2, <1>3 DEF Step

\* A call that begins without an overlap begins when nobody is inside.
LEMMA EntersAlone ==
  ASSUME NEW g \in Goroutines, NEW h \in Goroutines, Solo(h), RegFor(h), pc[g] = "idle",
         NEW p, p # "idle", pc' = [pc EXCEPT ![g] = p], ~Meets
  PROVE  Solo(g) /\ RegFor(g)
  <1>1. ASSUME pc[h] # "idle" PROVE FALSE
    <2>1. Busy = {h} /\ h # g
      BY <1>1 DEF Busy, Solo
    <2>2. Busy' = Busy \cup {g} /\ g \notin Busy
      BY <2>1 DEF Busy, RegFor
    <2>3. IsFiniteSet(Busy) /\ Cardinality(Busy) = 1
      BY <2>1, FS_Singleton
    <2>4. Cardinality(Busy') = 2
      BY <2>2, <2>3, FS_AddElement
    <2>5. Cardinality(Busy') > Cardinality(Busy) /\ Busy # {}
      BY <2>1, <2>3, <2>4
    <2> QED BY <2>5 DEF Meets
  <1> QED BY <1>1, SwitchIdle

\* An empty registry satisfies the invariant.
LEMMA RegInvInit == MCInit => RegInv
  <1> SUFFICES ASSUME MCInit PROVE RegInv
    OBVIOUS
  <1> USE DEF MCInit, RegistryInit
  <1>1. PICK g \in Goroutines : TRUE
    BY FuncMapAssumption DEF Goroutines
  <1>2. Solo(g) /\ pc[g] = "idle" /\ loc[g] = NoLocals
    BY DEF Solo
  <1>3. RegistryTypeOK
    <2>1. loc \in [Goroutines -> Locals]
      BY NoLocalsType
    <2>2. funcs \in [Names -> 0..MaxObjs] /\ funcNum \in Int
      BY FuncMapAssumption
    <2>3. num \in [Objs -> Int] /\ list \in [Objs -> Seq(Workers)]
      OBVIOUS
    <2>4. added \in [Workers -> [Names -> Nat]]
      BY DEF NoneAdded
    <2> QED BY <2>1, <2>2, <2>3, <2>4 DEF RegistryTypeOK
  <1>4. pc \in [Goroutines -> RegistrySteps] /\ ~panicked
    BY DEF RegistrySteps
  <1>5. Served = {}
    BY DEF Served
  <1>6. FunctionCount(g)
    BY <1>2, <1>5, FS_EmptySet DEF FunctionCount
  <1>7. ObjectsApart /\ WorkerCount(g) /\ Leaving(g)
    BY <1>5 DEF ObjectsApart, WorkerCount, Leaving
  <1>10. Membership(g)
    <2> SUFFICES ASSUME NEW w \in Workers, NEW n \in Names PROVE Tally(g, w, n)
      BY DEF Membership
    <2>1. Entries(g, n) = <<>> /\ <<>> \in Seq(Workers) /\ Len(<<>>) = 0
      BY <1>5 DEF Entries
    <2>2. Times(Entries(g, n), w) = 0
      <3> DEFINE s == Entries(g, n)
      <3>1. s \in Seq(Workers) /\ \A i \in 1..Len(s) : s[i] # w
        BY <2>1
      <3> HIDE DEF s
      <3>2. Times(s, w) = 0
        BY <3>1, TimesPositive
      <3> QED BY <3>2 DEF s
    <2>3. ~Announcing(g, n) /\ ~Withdrawing(g, n)
      BY <1>2 DEF Announcing, Withdrawing, NoLocals, Adding
    <2> QED BY <2>2, <2>3 DEF Tally, NoneAdded
  <1>8. AddPlace(g) /\ Target(g) /\ RemovePlace(g) /\ PickPlace(g)
    BY <1>2 DEF AddPlace, Target, RemovePlace, PickPlace, Adding, Removing, Finding, Picking
  <1>9. RegFor(g)
    BY <1>2, <1>3, <1>4, <1>6, <1>7, <1>8, <1>10 DEF RegFor
  <1> QED BY <1>2, <1>9 DEF RegInv

\* Every step keeps it.
LEMMA RegInvNext == RegInv /\ [MCNext]_<<registryVars, met>> => RegInv'
  <1> SUFFICES ASSUME RegInv, [MCNext]_<<registryVars, met>> PROVE RegInv'
    OBVIOUS
  <1>1. CASE UNCHANGED <<registryVars, met>>
    <2>1. UNCHANGED <<funcs, funcNum, num, list, conn, added, panicked, pc, loc, met>>
      BY <1>1 DEF registryVars
    <2>2. ASSUME NEW g \in Goroutines, Solo(g), RegFor(g) PROVE Solo(g)' /\ RegFor(g)'
      <3>1. Solo(g)' /\ RegistryTypeOK' /\ pc' \in [Goroutines -> RegistrySteps] /\ ~panicked' /\ Served' = Served
        BY <2>1, <2>2 DEF RegFor, Solo, RegistryTypeOK, Served
      <3>2. ObjectsApart' /\ FunctionCount(g)' /\ WorkerCount(g)'
        BY <2>1, <2>2, <3>1 DEF RegFor, ObjectsApart, FunctionCount, WorkerCount
      <3>3. Membership(g)' /\ Leaving(g)'
        BY <2>1, <2>2, <3>1 DEF RegFor, Membership, Tally, Entries, Announcing, Withdrawing, Leaving
      <3>4. AddPlace(g)' /\ Target(g)'
        BY <2>1, <2>2 DEF RegFor, AddPlace, Target
      <3>5. RemovePlace(g)' /\ PickPlace(g)'
        BY <2>1, <2>2 DEF RegFor, RemovePlace, PickPlace
      <3>6. pc'[g] = "idle" => loc'[g] = NoLocals
        BY <2>1, <2>2 DEF RegFor
      <3> QED BY <3>1, <3>2, <3>3, <3>4, <3>5, <3>6 DEF RegFor
    <2> QED BY <2>1, <2>2 DEF RegInv
  <1>2. CASE MCNext
    <2>1. met' = met + (IF Meets THEN 1 ELSE 0) /\ met \in Nat
      BY <1>2 DEF MCNext, RegInv
    <2>2. met' \in Nat /\ (met' = 0 => met = 0 /\ ~Meets)
      BY <2>1
    <2> SUFFICES ASSUME met' = 0 PROVE \E g \in Goroutines : Solo(g)' /\ RegFor(g)'
      BY <2>2 DEF RegInv
    <2>3. PICK h \in Goroutines : Solo(h) /\ RegFor(h)
      BY <2>2 DEF RegInv
    <2>4. ASSUME NEW g \in Goroutines, Step(g) PROVE Solo(g)' /\ RegFor(g)'
      BY <2>3, <2>4, StepIsInside, IdleElsewhere, StepKeeps
    <2>5. ASSUME NEW w \in Workers, CloseConnect(w) PROVE Solo(h)' /\ RegFor(h)'
      BY <2>3, <2>5, CloseConnectKeeps
    <2>6. ASSUME NEW w \in Workers, CloseWorker(w) PROVE w \in Goroutines /\ Solo(w)' /\ RegFor(w)'
      <3>1. w \in Goroutines /\ pc[w] = "idle" /\ pc' = [pc EXCEPT ![w] = "next"]
        BY <2>6 DEF CloseWorker, MayEnter, Goroutines
      <3>2. Solo(w) /\ RegFor(w)
        BY <2>2, <2>3, <3>1, EntersAlone
      <3> QED BY <2>6, <3>1, <3>2, CloseWorkerKeeps
    <2>7. ASSUME NEW w \in Workers, NEW n \in Names, AddFunc(w, n) PROVE w \in Goroutines /\ Solo(w)' /\ RegFor(w)'
      <3>1. /\ w \in Goroutines /\ pc[w] = "idle"
            /\ \E p \in {"inc", "count"} : pc' = [pc EXCEPT ![w] = p]
        BY <2>7 DEF AddFunc, MayEnter, Goroutines, Goto
      <3>2. Solo(w) /\ RegFor(w)
        BY <2>2, <2>3, <3>1, EntersAlone
      <3> QED BY <2>7, <3>1, <3>2, AddFuncKeeps
    <2>8. ASSUME NEW w \in Workers, NEW n \in Names, DelWorkerFunc(w, n) PROVE w \in Goroutines /\ Solo(w)' /\ RegFor(w)'
      <3>1. w \in Goroutines /\ pc[w] = "idle" /\ pc' = [pc EXCEPT ![w] = "next"]
        BY <2>8 DEF DelWorkerFunc, MayEnter, Goroutines
      <3>2. Solo(w) /\ RegFor(w)
        BY <2>2, <2>3, <3>1, EntersAlone
      <3> QED BY <2>8, <3>1, <3>2, DelWorkerFuncKeeps
    <2>9. ASSUME NEW c \in Callers, NEW n \in Names, GetBestWorker(c, n) PROVE c \in Goroutines /\ Solo(c)' /\ RegFor(c)'
      <3>1. c \in Goroutines /\ pc[c] = "idle" /\ pc' = [pc EXCEPT ![c] = "load"]
        BY <2>9 DEF GetBestWorker, MayEnter, Goroutines
      <3>2. Solo(c) /\ RegFor(c)
        BY <2>2, <2>3, <3>1, EntersAlone
      <3> QED BY <2>9, <3>1, <3>2, GetBestWorkerKeeps
    <2> QED BY <1>2, <2>3, <2>4, <2>5, <2>6, <2>7, <2>8, <2>9 DEF MCNext, RegistryNext
  <1> QED BY <1>1, <1>2

\* RegInv holds in every reachable state of the registry.
THEOREM RegistryInvariance == MCSpec => []RegInv
  BY RegInvInit, RegInvNext, PTL DEF MCSpec

-----------------------------------------------------------------------------
(* What follows *)

\* The invariant and the counters between two calls.
LEMMA CountersFollow == RegInv => CountersAgreeAlone
  <1> SUFFICES ASSUME RegInv, met = 0 PROVE CountersAgree /\ ~panicked
    BY DEF CountersAgreeAlone
  <1>1. PICK g \in Goroutines : RegFor(g)
    BY DEF RegInv
  <1>2. RegistryTypeOK /\ ~panicked
    BY <1>1 DEF RegFor
  <1>3. ASSUME Busy = {}
        PROVE  /\ \A o \in Stored : num[o] = Len(list[o])
               /\ funcNum = Cardinality({n \in Names : funcs[n] # 0})
    <2>1. pc[g] = "idle"
      BY <1>3 DEF Busy
    <2>2. ASSUME NEW o \in Stored PROVE num[o] = Len(list[o])
      <3>1. PICK n \in Served : funcs[n] = o
        BY DEF Stored, Served
      <3>2. o \in Objs
        BY <1>2, <3>1, FuncMapAssumption DEF RegistryTypeOK, Served, Objs
      <3>3. num[o] = Len(list[o]) + 0
        BY <1>1, <2>1, <3>1 DEF RegFor, WorkerCount
      <3>4. Len(list[o]) \in Nat
        BY <1>2, <3>2 DEF RegistryTypeOK
      <3> QED BY <3>3, <3>4
    <2>3. funcNum = Cardinality(Served) + 0 /\ IsFiniteSet(Served)
      BY <1>1, <2>1 DEF RegFor, FunctionCount
    <2>4. funcNum = Cardinality(Served)
      BY <2>3, FS_CardinalityType
    <2> QED BY <2>2, <2>4 DEF Served
  <1> QED BY <1>2, <1>3 DEF CountersAgree

\* The invariant and the lists between two calls.
LEMMA ExactFollows == RegInv => RegistryExactAlone
  <1> SUFFICES ASSUME RegInv, met = 0, Busy = {}, NEW w \in Workers, NEW n \in Names, conn[w] = "open"
               PROVE  Times(IF funcs[n] = 0 THEN <<>> ELSE list[funcs[n]], w) = added[w][n]
    BY DEF RegistryExactAlone, RegistryExact
  <1>1. PICK g \in Goroutines : RegFor(g)
    BY DEF RegInv
  <1>2. pc[g] = "idle" /\ loc[g] = NoLocals
    BY <1>1 DEF Busy, RegFor
  <1>3. Tally(g, w, n) /\ ~Announcing(g, n) /\ ~Withdrawing(g, n)
    BY <1>1, <1>2 DEF RegFor, Membership, Announcing, Withdrawing, NoLocals, Adding
  <1>4. Entries(g, n) = IF funcs[n] = 0 THEN <<>> ELSE list[funcs[n]]
    BY <1>2 DEF Entries, Served
  <1> QED BY <1>3, <1>4 DEF Tally

\* The invariant and the worker that GetBestWorker returns.
LEMMA PickFollows ==
  RegInv /\ [MCNext]_<<registryVars, met>> => [met = 0 => PickServed]_registryVars
  <1> SUFFICES ASSUME RegInv, MCNext, met = 0, NEW c \in Callers, pc[c] = "check", pc'[c] = "idle"
               PROVE  conn[loc[c].who] = "open" /\ added[loc[c].who][loc[c].name] > 0
    BY DEF PickServed, registryVars
  <1>0. c \in Goroutines /\ c \notin Workers
    BY FuncMapAssumption DEF Goroutines
  <1>1. Solo(c) /\ RegFor(c)
    BY <1>0, IdleElsewhere DEF RegInv
  <1>2. /\ loc[c].name \in Names /\ loc[c].obj \in Objs /\ funcs[loc[c].name] = loc[c].obj
        /\ loc[c].who \in ToSet(list[loc[c].obj]) /\ list[loc[c].obj] \in Seq(Workers)
    BY <1>0, <1>1 DEF RegFor, PickPlace, Picking, RegistryTypeOK
  <1>3. loc[c].who \in Workers /\ loc[c].name \in Served
    BY <1>2, FuncMapAssumption DEF ToSet, Served, Objs
  <1>4. (\A w \in Workers : conn[w] # "closing")
    BY <1>1, CallersOnly DEF Picking
  <1>5. CheckConnect(c)
    <2>1. ASSUME NEW g \in Goroutines, Step(g) PROVE CheckConnect(c)
      <3>1. g = c
        BY <1>0, <1>1, <2>1, StepIsInside, IdleElsewhere
      <3>2. ~RemoveStep(c)
        BY DEF RemoveStep, Visit, EndVisit, Scan, Cut, CutPanics, Shrink, DecWorkerNum, TestZero, DeleteFunc,
               UncountFunc, Move, At
      <3>3. PickStep(c)
        BY <1>0, <2>1, <3>1, <3>2 DEF Step
      <3> QED BY <3>3 DEF PickStep, LoadFunc, PickKey, RandPanics, IndexWorker, IndexPanics, Move, At
    <2>2. pc \in [Goroutines -> RegistrySteps]
      BY <1>1 DEF RegFor
    <2>3. ASSUME NEW w \in Workers, CloseWorker(w) \/ CloseConnect(w) PROVE FALSE
      BY <1>0, <2>2, <2>3 DEF CloseWorker, CloseConnect, MayEnter
    <2>4. ASSUME NEW w \in Workers, NEW n \in Names, AddFunc(w, n) \/ DelWorkerFunc(w, n) PROVE FALSE
      BY <1>0, <2>2, <2>4 DEF AddFunc, DelWorkerFunc, MayEnter, Goto
    <2>5. ASSUME NEW d \in Callers, NEW n \in Names, GetBestWorker(d, n) PROVE FALSE
      BY <1>0, <2>2, <2>5 DEF GetBestWorker, MayEnter
    <2> QED BY <2>1, <2>3, <2>4, <2>5 DEF MCNext, RegistryNext
  <1>6. conn[loc[c].who] # "gone"
    BY <1>0, <1>1, <1>5 DEF CheckConnect, Goto, RegFor
  <1>7. conn[loc[c].who] = "open"
    BY <1>1, <1>3, <1>4, <1>6 DEF RegFor, RegistryTypeOK
  <1>8. Entries(c, loc[c].name) = list[loc[c].obj] /\ Tally(c, loc[c].who, loc[c].name)
    BY <1>1, <1>2, <1>3, <1>7 DEF RegFor, Membership, Entries
  <1>9. Times(list[loc[c].obj], loc[c].who) > 0
    BY <1>2, SetPlaces, TimesPositive
  <1>10. added[loc[c].who][loc[c].name] = Times(list[loc[c].obj], loc[c].who)
    BY <1>0, <1>3, <1>8 DEF Tally
  <1> QED BY <1>7, <1>9, <1>10

\* As long as calls of the registry do not overlap, WorkerNum, Workers and FuncNum agree between
\* calls and nothing panics, through every sequence of AddFunc, DelWorkerFunc, the close paths and
\* the clean-ups of GetBestWorker.
THEOREM CountersStayExact == MCSpec => []CountersAgreeAlone
  BY RegistryInvariance, CountersFollow, PTL

\* As long as calls of the registry do not overlap, a live worker is listed under every
\* function as often as it announced it and did not withdraw it, through every sequence of
\* announcements, repeated ones included, of withdrawals, closings and clean-ups.
THEOREM RegistryStaysExact == MCSpec => []RegistryExactAlone
  BY RegistryInvariance, ExactFollows, PTL

\* As long as calls of the registry do not overlap, GetBestWorker hands out workers that are
\* connected and announced the function more often than they withdrew it.
THEOREM PicksAreServed == MCSpec => PickIsServedAlone
  BY RegistryInvariance, PickFollows, PTL DEF MCSpec, PickIsServedAlone
=============================================================================
