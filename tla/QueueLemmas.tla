---------------------------- MODULE QueueLemmas -----------------------------
(***************************************************************************)
(* What a Go channel does, as facts about sequences: a send appends, a     *)
(* receive takes the head.  Range and IsInjective (module Functions) say   *)
(* which entries a queue holds and that it holds none of them twice.       *)
(***************************************************************************)
EXTENDS Naturals, Sequences, FiniteSets, Functions, SequenceTheorems, FiniteSetTheorems, TLAPS

\* The entries of a sequence, by index.
LEMMA RangeIndex ==
  ASSUME NEW S, NEW s \in Seq(S), NEW x
  PROVE  x \in Range(s) <=> \E i \in 1..Len(s) : s[i] = x
  BY LenProperties DEF Range

\* An injective sequence, by index.
LEMMA InjectiveIndex ==
  ASSUME NEW S, NEW s \in Seq(S)
  PROVE  IsInjective(s) <=> \A i, k \in 1..Len(s) : s[i] = s[k] => i = k
  BY LenProperties DEF IsInjective

\* An empty channel holds nothing.
LEMMA EmptyQueue ==
  Range(<<>>) = {} /\ IsInjective(<<>>)
  BY DEF Range, IsInjective

\* A send adds one entry, and keeps the entries distinct if it is a new one.
LEMMA AppendQueue ==
  ASSUME NEW S, NEW s \in Seq(S), NEW x \in S
  PROVE  /\ Append(s, x) \in Seq(S)
         /\ Range(Append(s, x)) = Range(s) \cup {x}
         /\ IsInjective(s) /\ x \notin Range(s) => IsInjective(Append(s, x))
<1>1. /\ Append(s, x) \in Seq(S)
      /\ Len(Append(s, x)) = Len(s) + 1
      /\ \A i \in 1..Len(s) : Append(s, x)[i] = s[i]
      /\ Append(s, x)[Len(s) + 1] = x
  BY AppendProperties
<1>2. Len(s) \in Nat
  BY LenProperties
<1>3. ASSUME NEW y
      PROVE  y \in Range(Append(s, x)) <=> y \in Range(s) \cup {x}
  <2>1. y \in Range(Append(s, x)) <=> \E i \in 1..Len(Append(s, x)) : Append(s, x)[i] = y
    BY <1>1, RangeIndex, Zenon
  <2>2. y \in Range(s) <=> \E i \in 1..Len(s) : s[i] = y
    BY RangeIndex
  <2>. QED
    BY <1>1, <1>2, <2>1, <2>2
<1>4. ASSUME IsInjective(s), x \notin Range(s)
      PROVE  IsInjective(Append(s, x))
  <2>1. \A i, k \in 1..Len(s) : s[i] = s[k] => i = k
    BY <1>4, InjectiveIndex
  <2>2. \A i \in 1..Len(s) : s[i] # x
    BY <1>4, RangeIndex
  <2>3. \A i, k \in 1..Len(s) + 1 : Append(s, x)[i] = Append(s, x)[k] => i = k
    BY <1>1, <1>2, <2>1, <2>2
  <2>. QED
    BY <1>1, <2>3, InjectiveIndex
<1>. QED
  BY <1>1, <1>3, <1>4

\* A receive takes the head; a head that was there once is not in the tail.
LEMMA TailQueue ==
  ASSUME NEW S, NEW s \in Seq(S), s # <<>>
  PROVE  /\ Head(s) \in S /\ Tail(s) \in Seq(S)
         /\ Head(s) \in Range(s)
         /\ Range(Tail(s)) \subseteq Range(s)
         /\ IsInjective(s) => IsInjective(Tail(s)) /\ Head(s) \notin Range(Tail(s))
<1>1. /\ Head(s) \in S /\ Tail(s) \in Seq(S)
      /\ Len(Tail(s)) = Len(s) - 1
      /\ \A i \in 1..Len(Tail(s)) : Tail(s)[i] = s[i + 1]
  BY HeadTailProperties
<1>2. Len(s) \in Nat /\ Len(s) > 0 /\ Head(s) = s[1]
  BY LenProperties, EmptySeq
<1>3. Head(s) \in Range(s)
  BY <1>2, RangeIndex
<1>4. ASSUME NEW y \in Range(Tail(s)) PROVE y \in Range(s)
  <2>1. PICK i \in 1..Len(Tail(s)) : Tail(s)[i] = y
    BY <1>1, RangeIndex
  <2>2. i + 1 \in 1..Len(s) /\ s[i + 1] = y
    BY <1>1, <1>2, <2>1
  <2>. QED
    BY <2>2, RangeIndex
<1>5. ASSUME IsInjective(s)
      PROVE  IsInjective(Tail(s)) /\ Head(s) \notin Range(Tail(s))
  <2>1. \A i, k \in 1..Len(s) : s[i] = s[k] => i = k
    BY <1>5, InjectiveIndex
  <2>2. \A i, k \in 1..Len(Tail(s)) : Tail(s)[i] = Tail(s)[k] => i = k
    BY <1>1, <1>2, <2>1
  <2>3. \A i \in 1..Len(Tail(s)) : Tail(s)[i] # s[1]
    BY <1>1, <1>2, <2>1
  <2>4. IsInjective(Tail(s))
    BY <1>1, <2>2, InjectiveIndex, Zenon
  <2>5. s[1] \notin Range(Tail(s))
    BY <1>1, <2>3, RangeIndex, Zenon
  <2>. QED
    BY <1>2, <2>4, <2>5
<1>. QED
  BY <1>1, <1>3, <1>4, <1>5

\* The head and the tail are all there was.
LEMMA TailRange ==
  ASSUME NEW S, NEW s \in Seq(S), s # <<>>
  PROVE  Range(s) = Range(Tail(s)) \cup {Head(s)}
<1>1. Range(Tail(s)) \subseteq Range(s) /\ Head(s) \in Range(s) /\ Tail(s) \in Seq(S)
  BY TailQueue
<1>2. ASSUME NEW y \in Range(s), y # Head(s) PROVE y \in Range(Tail(s))
  <2>1. PICK i \in 1..Len(s) : s[i] = y
    BY RangeIndex
  <2>2. Len(s) \in Nat /\ Len(Tail(s)) = Len(s) - 1 /\ Head(s) = s[1]
    BY LenProperties, HeadTailProperties
  <2>3. i - 1 \in 1..Len(Tail(s)) /\ (i - 1) + 1 = i
    BY <1>2, <2>1, <2>2
  <2>4. Tail(s)[i - 1] = y
    BY <2>1, <2>3, HeadTailProperties
  <2>. QED
    BY <1>1, <2>3, <2>4, RangeIndex
<1>. QED
  BY <1>1, <1>2

\* A channel without a repetition holds as many entries as it is long.
LEMMA QueueCount ==
  ASSUME NEW S, NEW s \in Seq(S), IsInjective(s)
  PROVE  IsFiniteSet(Range(s)) /\ Cardinality(Range(s)) = Len(s)
<1>1. Len(s) \in Nat /\ DOMAIN s = 1..Len(s)
  BY LenProperties
<1>2. s \in Bijection(1..Len(s), Range(s))
  <2>1. s \in [1..Len(s) -> Range(s)]
    BY <1>1 DEF Range
  <2>. QED
    BY <1>1, <2>1 DEF Bijection, Injection, Surjection, IsInjective, Range
<1>3. ExistsBijection(1..Len(s), Range(s))
  BY <1>2 DEF ExistsBijection
<1>. QED
  BY <1>1, <1>3, FS_CountingElements, FS_NatBijection

-----------------------------------------------------------------------------
(* The fields of a frame *)

\* The field x stands in data at an offset.
Stands(data, at, x) ==
  /\ data \in Seq(Nat) /\ x \in Seq(Nat) /\ at \in Nat /\ at + Len(x) <= Len(data)
  /\ \A i \in 1..Len(x) : data[at + i] = x[i]

\* Data stands at its own beginning.
LEMMA StandsSelf ==
  \A d : d \in Seq(Nat) => Stands(d, 0, d)
  BY LenProperties DEF Stands

\* Fields packed one behind the other stand one behind the other.
LEMMA StandsConcat ==
  \A d, at, x, y : x \in Seq(Nat) /\ y \in Seq(Nat) /\ Stands(d, at, x \o y)
                     => Stands(d, at, x) /\ Stands(d, at + Len(x), y)
<1>. SUFFICES ASSUME NEW d, NEW at, NEW x, NEW y, x \in Seq(Nat), y \in Seq(Nat), Stands(d, at, x \o y)
              PROVE  Stands(d, at, x) /\ Stands(d, at + Len(x), y)
  OBVIOUS
<1>0. d \in Seq(Nat) /\ at \in Nat
  BY DEF Stands
<1>1. /\ Len(x) \in Nat /\ Len(y) \in Nat /\ Len(d) \in Nat /\ Len(x \o y) = Len(x) + Len(y)
      /\ \A i \in 1..Len(x) + Len(y) : (x \o y)[i] = IF i <= Len(x) THEN x[i] ELSE y[i - Len(x)]
  BY <1>0, LenProperties, ConcatProperties
<1>2. ASSUME NEW i \in 1..Len(y) PROVE d[(at + Len(x)) + i] = y[i]
  <2>1. Len(x) + i \in 1..Len(x) + Len(y) /\ ~(Len(x) + i <= Len(x)) /\ (Len(x) + i) - Len(x) = i
    BY <1>1
  <2>2. (x \o y)[Len(x) + i] = y[i]
    BY <1>1, <2>1
  <2>3. d[at + (Len(x) + i)] = (x \o y)[Len(x) + i]
    BY <1>1, <2>1 DEF Stands
  <2>. QED
    BY <1>0, <1>1, <2>2, <2>3
<1>3. ASSUME NEW i \in 1..Len(x) PROVE d[at + i] = x[i]
  <2>1. i \in 1..Len(x) + Len(y) /\ i <= Len(x)
    BY <1>1
  <2>. QED
    BY <1>1, <2>1 DEF Stands
<1>. QED
  BY <1>0, <1>1, <1>2, <1>3 DEF Stands

\* A part of a sequence: its length and its cells.
LEMMA PartCells ==
  ASSUME NEW d \in Seq(Nat), NEW at \in Nat, NEW end \in Nat, at <= end, end <= Len(d)
  PROVE  /\ SubSeq(d, at + 1, end) \in Seq(Nat) /\ Len(SubSeq(d, at + 1, end)) = end - at
         /\ \A i \in 1..end - at : SubSeq(d, at + 1, end)[i] = d[at + i]
<1>1. Len(d) \in Nat
  BY LenProperties
<1>2. ASSUME NEW m \in Int, m = at + 1
      PROVE  /\ SubSeq(d, m, end) \in Seq(Nat)
             /\ Len(SubSeq(d, m, end)) = end - at
             /\ \A i \in 1..end - at : SubSeq(d, m, end)[i] = d[at + i]
  <2>1. \A i \in m..end : d[i] \in Nat
    BY <1>1, <1>2, LenProperties
  <2>2. /\ SubSeq(d, m, end) \in Seq(Nat)
        /\ Len(SubSeq(d, m, end)) = IF m <= end THEN end - m + 1 ELSE 0
        /\ \A i \in 1..end - m + 1 : SubSeq(d, m, end)[i] = d[m + i - 1]
    BY <2>1, SubSeqProperties
  <2>3. end - m + 1 = end - at /\ (m <= end \/ end - at = 0)
    BY <1>1, <1>2
  <2>4. \A i \in 1..end - at : m + i - 1 = at + i
    BY <1>1, <1>2
  <2>. QED
    BY <2>2, <2>3, <2>4
<1>3. at + 1 \in Int
  OBVIOUS
<1>. QED
  BY <1>2, <1>3, Zenon

\* The part from where a field stands to its end is the field.
LEMMA PartStands ==
  \A d, at, x : Stands(d, at, x) => SubSeq(d, at + 1, at + Len(x)) = x
<1>. SUFFICES ASSUME NEW d, NEW at, NEW x, Stands(d, at, x)
              PROVE  SubSeq(d, at + 1, at + Len(x)) = x
  OBVIOUS
<1>1. d \in Seq(Nat) /\ at \in Nat /\ x \in Seq(Nat) /\ Len(x) \in Nat /\ at + Len(x) <= Len(d)
  BY LenProperties DEF Stands
<1>2. PICK end \in Nat : end = at + Len(x)
  BY <1>1
<1>3. end - at = Len(x) /\ at <= end /\ end <= Len(d)
  BY <1>1, <1>2
<1>4. /\ SubSeq(d, at + 1, end) \in Seq(Nat) /\ Len(SubSeq(d, at + 1, end)) = end - at
      /\ \A i \in 1..end - at : SubSeq(d, at + 1, end)[i] = d[at + i]
  BY <1>1, <1>3, PartCells
<1>5. \A i \in 1..Len(x) : SubSeq(d, at + 1, end)[i] = x[i]
  BY <1>3, <1>4 DEF Stands
<1>6. SubSeq(d, at + 1, end) = x
  BY <1>1, <1>3, <1>4, <1>5, SeqEqual
<1>. QED
  BY <1>2, <1>6
=============================================================================
