-------------------------- MODULE Observers_proofs --------------------------
(***************************************************************************)
(* The contest ring holds the last fragments and counts their bytes, the   *)
(* most frequent PIDs are listed, the role model counts the repetitions,   *)
(* and what a run loads was saved, wherever a crash cut the file short:    *)
(* for every capacity, window, length of the list, set of PIDs and         *)
(* configuration.                                                          *)
(***************************************************************************)
EXTENDS Observers, FiniteSetTheorems, SequenceTheorems, WellFoundedInduction, TLAPS

(***************************************************************************)
(* The ring.  Until it is full the next slot is the number of fragments.   *)
(***************************************************************************)
RingInv ==
    /\ fragments = [s \in Slots |-> fragments[s]]
    /\ next_slot \in Slots
    /\ offered \in Seq(Fragment)
    /\ stored < Capacity => next_slot = stored
    /\ RingIsRecent

LEMMA SlotWraps ==
  ASSUME NEW n \in Slots
  PROVE  (n + 1) % Capacity = IF n + 1 = Capacity THEN 0 ELSE n + 1
  BY CapacityAssumption DEF Slots

LEMMA RingStarts ==
  ASSUME fragments = NoFragments, next_slot = 0, stored = 0, offered = <<>>
  PROVE  RingInv
  <1>1. Len(offered) = 0 /\ offered \in Seq(Fragment)
    OBVIOUS
  <1>2. Capacity \in Nat /\ Capacity > 0
    BY CapacityAssumption
  <1>3. fragments = [s \in Slots |-> fragments[s]]
    BY DEF NoFragments
  <1>4. RingIsRecent
    BY <1>1, <1>2 DEF RingIsRecent
  <1>5. QED
    BY <1>1, <1>2, <1>3, <1>4 DEF RingInv, Slots

(* A fragment is stored: the others are one older, and the oldest of a     *)
(* full ring is the one that was overwritten.                              *)
LEMMA RingStores ==
  ASSUME RingInv, NEW f \in Fragment, StoreFragment(f)
  PROVE  RingInv'
  <1> DEFINE n == Len(offered)
  <1>0. Capacity \in Nat /\ Capacity > 0 /\ next_slot \in 0 .. Capacity - 1 /\ n \in Nat
    BY CapacityAssumption DEF RingInv, Slots
  <1>1. stored = IF n < Capacity THEN n ELSE Capacity
    BY DEF RingInv, RingIsRecent
  <1>2. CASE f.size = 0
    BY <1>2 DEF StoreFragment, RingInv, RingIsRecent, Youngest, ring
  <1>3. CASE f.size # 0
    <2>1. /\ fragments' = [fragments EXCEPT ![next_slot] = f]
          /\ next_slot' = NextSlot
          /\ stored' = IF stored >= Capacity THEN stored ELSE stored + 1
          /\ offered' = Append(offered, f)
      BY <1>3 DEF StoreFragment
    <2>2. next_slot' = IF next_slot + 1 = Capacity THEN 0 ELSE next_slot + 1
      BY <2>1, SlotWraps DEF NextSlot, RingInv
    <2>3. offered \in Seq(Fragment)
      BY DEF RingInv
    <2>4. /\ offered' \in Seq(Fragment) /\ Len(offered') = n + 1
          /\ offered'[n + 1] = f
          /\ \A i \in 1 .. n : offered'[i] = offered[i]
      BY <2>1, <2>3
    <2>5. stored' = IF n + 1 < Capacity THEN n + 1 ELSE Capacity
      BY <1>0, <1>1, <2>1
    <2>6. fragments' = [s \in Slots |-> fragments'[s]]
      BY <2>1 DEF RingInv
    <2>7. /\ fragments'[next_slot] = f
          /\ \A s \in Slots : s # next_slot => fragments'[s] = fragments[s]
      BY <2>1 DEF RingInv
    <2>8. ASSUME NEW k \in 1 .. stored'
          PROVE  Youngest(k)' = offered'[n + 2 - k]
      <3>1. k \in Int /\ 1 <= k /\ k <= Capacity /\ k <= n + 1 /\ k <= stored + 1
        BY <1>0, <1>1, <2>5
      <3> DEFINE slot == IF k <= next_slot' THEN next_slot' - k ELSE next_slot' + Capacity - k
      <3>2. Youngest(k)' = fragments'[slot]
        BY DEF Youngest
      <3>3. CASE k = 1
        <4>1. slot = next_slot
          BY <1>0, <2>2, <3>3
        <4>2. QED
          BY <1>0, <2>4, <2>7, <3>2, <3>3, <4>1
      <3>4. CASE k # 1
        <4> DEFINE old == IF k - 1 <= next_slot THEN next_slot - (k - 1)
                                                ELSE next_slot + Capacity - (k - 1)
        <4>1. slot = old /\ old \in Slots /\ old # next_slot
          BY <1>0, <2>2, <3>1, <3>4 DEF Slots
        <4>2. Youngest(k)' = fragments[old]
          BY <2>7, <3>2, <4>1
        <4>3. k - 1 \in 1 .. stored
          BY <1>0, <1>1, <3>1, <3>4
        <4>4. Youngest(k - 1) = offered[n + 1 - (k - 1)]
          BY <4>3 DEF RingInv, RingIsRecent
        <4>5. Youngest(k - 1) = fragments[old]
          BY DEF Youngest
        <4>6. n + 1 - (k - 1) = n + 2 - k /\ n + 2 - k \in 1 .. n
          BY <1>0, <1>1, <3>1, <4>3
        <4>7. QED
          BY <2>4, <4>2, <4>4, <4>5, <4>6
      <3>5. QED
        BY <3>3, <3>4
    <2>9. RingIsRecent'
      <3>1. \A k \in 1 .. stored' : Youngest(k)' = offered'[Len(offered') + 1 - k]
        <4>1. \A k \in 1 .. stored' : Len(offered') + 1 - k = n + 2 - k
          BY <1>0, <2>4, <2>5
        <4>2. QED
          BY <2>8, <4>1
      <3>2. QED
        BY <2>4, <2>5, <3>1 DEF RingIsRecent
    <2>10. next_slot' \in Slots /\ (stored' < Capacity => next_slot' = stored')
      <3>1. stored < Capacity => next_slot = stored
        BY DEF RingInv
      <3>2. QED
        BY <1>0, <1>1, <2>2, <2>5, <3>1 DEF Slots
    <2>11. QED
      BY <2>4, <2>6, <2>9, <2>10 DEF RingInv
  <1>4. QED
    BY <1>2, <1>3

RingIInv == config \in Configs /\ packets_read \in Nat /\ RingInv

LEMMA HeardIsFragment ==
  ASSUME config \in Configs, packets_read \in Nat, NEW packet \in Packets
  PROVE  LET f == [packet_index |-> packets_read + 1, pid |-> packet.pid, size |-> packet.size]
         IN f \in Fragment /\ f.pid \in Pids
  <1>1. config.pids \subseteq Pids /\ config.sizes \subseteq Nat
    BY ConfigsAssumption DEF Config
  <1>2. packet.pid \in Pids /\ packet.size \in Nat
    BY <1>1 DEF Packets
  <1>3. Pids \subseteq Nat
    BY PidsAssumption
  <1> DEFINE f == [packet_index |-> packets_read + 1, pid |-> packet.pid, size |-> packet.size]
  <1>4. packet.pid \in Nat
    BY <1>2, <1>3
  <1>5. f \in Fragment
    BY <1>2, <1>4 DEF Fragment
  <1>6. f.pid = packet.pid
    OBVIOUS
  <1>7. QED
    BY <1>2, <1>5, <1>6

LEMMA RingKept ==
  ASSUME RingInv, UNCHANGED ring
  PROVE  RingInv'
  BY DEF RingInv, RingIsRecent, Youngest, ring

LEMMA RingCleared ==
  ASSUME RingReset
  PROVE  RingInv'
  <1>1. Len(offered') = 0 /\ offered' \in Seq(Fragment)
    BY DEF RingReset
  <1>2. Capacity \in Nat /\ Capacity > 0
    BY CapacityAssumption
  <1>3. fragments' = [s \in Slots |-> fragments'[s]]
    BY DEF RingReset, NoFragments
  <1>4. stored' = 0 /\ next_slot' = 0
    BY DEF RingReset
  <1>5. RingIsRecent'
    BY <1>1, <1>2, <1>4 DEF RingIsRecent
  <1>6. QED
    BY <1>1, <1>2, <1>3, <1>4, <1>5 DEF RingInv, Slots

(* What a step may do to the ring.                                         *)
LEMMA RingMoves ==
  ASSUME config \in Configs, packets_read \in Nat, [Next]_vars
  PROVE  /\ config' \in Configs /\ packets_read' \in Nat
         /\ RingReset \/ UNCHANGED ring \/ \E f \in Fragment : f.pid \in Pids /\ StoreFragment(f)
  <1>1. ASSUME NEW opens \in BOOLEAN, Start(opens)
        PROVE  RingReset /\ config' = config /\ packets_read' = 0
    BY <1>1 DEF Start
  <1>2. ASSUME NEW opens \in BOOLEAN, Save(opens)
        PROVE  UNCHANGED <<ring, config, packets_read>>
    BY <1>2 DEF Save
  <1>3. ASSUME NEW packet \in Packets, Hear(packet)
        PROVE  /\ config' = config /\ packets_read' = packets_read + 1
               /\ UNCHANGED ring \/ \E f \in Fragment : f.pid \in Pids /\ StoreFragment(f)
    BY <1>3, HeardIsFragment DEF Hear
  <1>4. ASSUME Reset
        PROVE  RingReset /\ UNCHANGED <<config, packets_read>>
    BY <1>4 DEF Reset
  <1>5. ASSUME NEW p \in Pids, NEW known \in None .. Strong, NEW null \in None .. Strong,
               \/ WriteLine(p, known, null) \/ CutLine(p, known, null)
               \/ \E read \in None .. Strong : CutNumber(p, known, null, read)
        PROVE  UNCHANGED <<ring, config, packets_read>>
    BY <1>5 DEF WriteLine, CutLine, CutNumber, LastLine
  <1>6. ASSUME SaveEnds \/ Crash \/ UNCHANGED vars
        PROVE  UNCHANGED <<ring, config, packets_read>>
    BY <1>6 DEF SaveEnds, Crash, vars
  <1>7. QED
    BY <1>1, <1>2, <1>3, <1>4, <1>5, <1>6 DEF Next

LEMMA RingStep ==
  ASSUME RingIInv, [Next]_vars
  PROVE  RingIInv'
  BY RingMoves, RingCleared, RingKept, RingStores DEF RingIInv

(* The ring of the contest mode holds the last fragments since the reset,  *)
(* in order, for every capacity and stream, and however often it wraps.    *)
THEOREM RingHoldsRecent == Spec => []RingIsRecent
  <1>1. Init => RingIInv
    BY RingStarts DEF Init, RingInit, RingIInv
  <1>2. RingIInv /\ [Next]_vars => RingIInv'
    BY RingStep
  <1>3. RingIInv => RingIsRecent
    BY DEF RingIInv, RingInv
  <1>4. QED
    BY <1>1, <1>2, <1>3, PTL DEF Spec

(***************************************************************************)
(* The sum over a finite set, however its elements are chosen.             *)
(***************************************************************************)
(* Induction over the natural numbers, for a set instead of a predicate.   *)
LEMMA NatSetInduction ==
  ASSUME NEW S, 0 \in S, \A n \in Nat : n \in S => n + 1 \in S
  PROVE  Nat \subseteq S
  <1> DEFINE R == {ss \in Nat \X Nat : ss[1] < ss[2]}
             T == Nat \ S
  <1>1. SUFFICES ASSUME T # {} PROVE FALSE
    OBVIOUS
  <1>2. IsWellFoundedOn(R, Nat)
    BY NatLessThanWellFounded DEF OpToRel
  <1>3. \E x \in T : \A y \in T : ~(<<y, x>> \in R)
    BY <1>1, <1>2, WFMin, Zenon
  <1>4. PICK x \in T : \A y \in T : ~(<<y, x>> \in R)
    BY <1>3
  <1>5. x \in Nat /\ x # 0 /\ x - 1 \in Nat /\ (x - 1) + 1 = x
    OBVIOUS
  <1>6. x - 1 \in S
    <2>1. x - 1 \in T => ~(<<x - 1, x>> \in R)
      BY <1>4
    <2>2. <<x - 1, x>> \in R
      BY <1>5
    <2>3. QED
      BY <1>5, <2>1, <2>2
  <1>7. QED
    BY <1>5, <1>6

Some(s) == CHOOSE x \in s : TRUE
SmallSets(S, n) == {s \in SUBSET S : Cardinality(s) <= n}

(* it is the sum of the sizes of fr over each of the sets.                 *)
AddsUp(fr, it, sets) ==
    it = [s \in sets |-> IF s = {} THEN 0 ELSE fr[Some(s)].size + it[s \ {Some(s)}]]

SumOf(fr, S) == MapThenSumSet(LAMBDA s : fr[s].size, S)

LEMMA SmallerSet ==
  ASSUME NEW S, IsFiniteSet(S), NEW n \in Nat, NEW s \in SmallSets(S, n + 1), NEW x \in s
  PROVE  s \ {x} \in SmallSets(S, n) /\ Cardinality(s) = Cardinality(s \ {x}) + 1
  <1>1. s \in SUBSET S /\ Cardinality(s) <= n + 1
    BY DEF SmallSets
  <1>2. IsFiniteSet(s)
    BY <1>1, FS_Subset
  <1>3. Cardinality(s \ {x}) = Cardinality(s) - 1 /\ Cardinality(s) \in Nat
    BY <1>2, FS_RemoveElement, FS_CardinalityType
  <1>4. QED
    BY <1>1, <1>3 DEF SmallSets

LEMMA SmallestSet ==
  ASSUME NEW S, IsFiniteSet(S), NEW s \in SmallSets(S, 0)
  PROVE  s = {}
  <1>1. s \in SUBSET S /\ Cardinality(s) <= 0
    BY DEF SmallSets
  <1>2. IsFiniteSet(s) /\ Cardinality(s) \in Nat
    BY <1>1, FS_Subset, FS_CardinalityType
  <1>3. Cardinality(s) = 0
    BY <1>1, <1>2
  <1>4. QED
    BY <1>2, <1>3, FS_EmptySet

LEMMA EverySetIsSmall ==
  ASSUME NEW S, IsFiniteSet(S), NEW s \in SUBSET S
  PROVE  \E n \in Nat : s \in SmallSets(S, n)
  <1>1. Cardinality(s) \in Nat
    BY FS_Subset, FS_CardinalityType
  <1>2. s \in SmallSets(S, Cardinality(s))
    BY <1>1 DEF SmallSets
  <1>3. QED
    BY <1>1, <1>2

LEMMA SumExists ==
  ASSUME NEW fr, NEW S, IsFiniteSet(S)
  PROVE  \A n \in Nat : \E it : AddsUp(fr, it, SmallSets(S, n))
  <1> DEFINE N == {n \in Nat : \E it : AddsUp(fr, it, SmallSets(S, n))}
  <1>1. 0 \in N
    <2> DEFINE it == [s \in SmallSets(S, 0) |-> 0]
    <2>1. AddsUp(fr, it, SmallSets(S, 0))
      BY SmallestSet DEF AddsUp
    <2>2. QED
      BY <2>1
  <1>2. ASSUME NEW n \in Nat, n \in N PROVE n + 1 \in N
    <2>1. PICK it : AddsUp(fr, it, SmallSets(S, n))
      BY <1>2
    <2> DEFINE m == n + 1
               new == [s \in SmallSets(S, m) |->
                         IF s = {} THEN 0 ELSE fr[Some(s)].size + it[s \ {Some(s)}]]
    <2>2. SmallSets(S, n) \subseteq SmallSets(S, m)
      <3> SUFFICES ASSUME NEW s \in SmallSets(S, n) PROVE s \in SmallSets(S, m)
        OBVIOUS
      <3>1. s \in SUBSET S /\ Cardinality(s) <= n
        BY DEF SmallSets
      <3>2. Cardinality(s) \in Nat
        BY <3>1, FS_Subset, FS_CardinalityType
      <3>3. Cardinality(s) <= m
        BY <3>1, <3>2
      <3>4. QED
        BY <3>1, <3>3 DEF SmallSets
    <2>3. \A s \in SmallSets(S, n) : new[s] = it[s]
      BY <2>1, <2>2 DEF AddsUp
    <2>4. ASSUME NEW s \in SmallSets(S, m), s # {}
          PROVE  new[s \ {Some(s)}] = it[s \ {Some(s)}]
      <3>1. Some(s) \in s
        BY <2>4 DEF Some
      <3>2. s \ {Some(s)} \in SmallSets(S, n)
        BY <3>1, SmallerSet
      <3>3. QED
        BY <2>3, <3>2
    <2>5. AddsUp(fr, new, SmallSets(S, m))
      <3>1. \A s \in SmallSets(S, m) :
               new[s] = IF s = {} THEN 0 ELSE fr[Some(s)].size + new[s \ {Some(s)}]
        BY <2>4
      <3>2. new = [s \in SmallSets(S, m) |-> new[s]]
        OBVIOUS
      <3> HIDE DEF new
      <3>3. QED
        BY <3>1, <3>2, Zenon DEF AddsUp
    <2>6. QED
      BY <2>5
  <1>3. Nat \subseteq N
    BY <1>1, <1>2, NatSetInduction
  <1>4. QED
    BY <1>3

LEMMA SumUnfolds ==
  ASSUME NEW fr, NEW S, IsFiniteSet(S)
  PROVE  \E it : AddsUp(fr, it, SUBSET S) /\ SumOf(fr, S) = it[S]
  <1> DEFINE it == CHOOSE it : AddsUp(fr, it, SUBSET S)
  <1>1. Cardinality(S) \in Nat
    BY FS_CardinalityType
  <1>2. SmallSets(S, Cardinality(S)) = SUBSET S
    <2>1. \A s \in SUBSET S : Cardinality(s) <= Cardinality(S)
      BY FS_Subset
    <2>2. QED
      BY <2>1 DEF SmallSets
  <1>3. \E i : AddsUp(fr, i, SUBSET S)
    <2>1. \E i : AddsUp(fr, i, SmallSets(S, Cardinality(S)))
      BY <1>1, SumExists
    <2>2. QED
      BY <1>2, <2>1
  <1>4. AddsUp(fr, it, SUBSET S)
    BY <1>3
  <1>5. SumOf(fr, S) = it[S]
    BY DEF SumOf, MapThenSumSet, MapThenFoldSet, AddsUp, Some
  <1>6. QED
    BY <1>4, <1>5

Sized(fr, S) == \A s \in S : fr[s].size \in Nat

LEMMA SumTyped ==
  ASSUME NEW fr, NEW S, IsFiniteSet(S), Sized(fr, S), NEW it, AddsUp(fr, it, SUBSET S)
  PROVE  \A s \in SUBSET S : it[s] \in Nat
  <1> DEFINE N == {n \in Nat : \A s \in SmallSets(S, n) : it[s] \in Nat}
  <1>1. 0 \in N
    BY SmallestSet DEF AddsUp
  <1>2. ASSUME NEW n \in Nat, n \in N PROVE n + 1 \in N
    <2> SUFFICES ASSUME NEW s \in SmallSets(S, n + 1) PROVE it[s] \in Nat
      OBVIOUS
    <2>1. s \in SUBSET S
      BY DEF SmallSets
    <2>2. it[s] = IF s = {} THEN 0 ELSE fr[Some(s)].size + it[s \ {Some(s)}]
      BY <2>1 DEF AddsUp
    <2>3. CASE s = {}
      BY <2>2, <2>3
    <2>4. CASE s # {}
      <3>1. Some(s) \in s
        BY <2>4 DEF Some
      <3>2. fr[Some(s)].size \in Nat
        BY <2>1, <3>1 DEF Sized
      <3>3. it[s \ {Some(s)}] \in Nat
        BY <1>2, <3>1, SmallerSet
      <3>4. QED
        BY <2>2, <2>4, <3>2, <3>3
    <2>5. QED
      BY <2>3, <2>4
  <1>3. Nat \subseteq N
    BY <1>1, <1>2, NatSetInduction
  <1>4. ASSUME NEW s \in SUBSET S PROVE it[s] \in Nat
    BY <1>3, EverySetIsSmall
  <1>5. QED
    BY <1>4

(* Any element may be taken first.                                         *)
LEMMA SumTakes ==
  ASSUME NEW fr, NEW S, IsFiniteSet(S), Sized(fr, S), NEW it, AddsUp(fr, it, SUBSET S)
  PROVE  \A s \in SUBSET S : \A x \in s : it[s] = fr[x].size + it[s \ {x}]
  <1> DEFINE N == {n \in Nat : \A s \in SmallSets(S, n) : \A x \in s : it[s] = fr[x].size + it[s \ {x}]}
  <1>1. 0 \in N
    BY SmallestSet
  <1>2. ASSUME NEW n \in Nat, n \in N PROVE n + 1 \in N
    <2> SUFFICES ASSUME NEW s \in SmallSets(S, n + 1), NEW x \in s
                 PROVE  it[s] = fr[x].size + it[s \ {x}]
      OBVIOUS
    <2> DEFINE c == Some(s)
    <2>1. s \in SUBSET S /\ c \in s
      BY DEF SmallSets, Some
    <2>2. it[s] = fr[c].size + it[s \ {c}]
      BY <2>1 DEF AddsUp
    <2> HIDE DEF c
    <2>3. CASE x = c
      BY <2>2, <2>3
    <2>4. CASE x # c
      <3> DEFINE r == (s \ {c}) \ {x}  a == fr[c].size  b == fr[x].size  e == it[r]
      <3>1. s \ {c} \in SmallSets(S, n) /\ x \in s \ {c} /\ s \ {x} \in SmallSets(S, n) /\ c \in s \ {x}
        BY <2>1, <2>4, SmallerSet
      <3>2. it[s \ {c}] = b + e
        BY <1>2, <3>1
      <3>3. (s \ {x}) \ {c} = r
        OBVIOUS
      <3>4. it[s \ {x}] = a + it[(s \ {x}) \ {c}]
        BY <1>2, <3>1
      <3>5. r \in SUBSET S /\ a \in Nat /\ b \in Nat
        BY <2>1 DEF Sized
      <3>6. e \in Nat
        BY <3>5, SumTyped
      <3>7. it[s] = a + (b + e) /\ it[s \ {x}] = a + e
        BY <2>2, <3>2, <3>3, <3>4
      <3> HIDE DEF a, b, e
      <3>8. it[s] = b + it[s \ {x}]
        BY <3>5, <3>6, <3>7
      <3>9. QED
        BY <3>8 DEF b
    <2>5. QED
      BY <2>3, <2>4
  <1>3. Nat \subseteq N
    BY <1>1, <1>2, NatSetInduction
  <1>4. ASSUME NEW s \in SUBSET S, NEW x \in s PROVE it[s] = fr[x].size + it[s \ {x}]
    BY <1>3, EverySetIsSmall
  <1>5. QED
    BY <1>4

LEMMA SumAgrees ==
  ASSUME NEW fr, NEW new, NEW S, IsFiniteSet(S), NEW T \in SUBSET S,
         \A s \in T : new[s].size = fr[s].size,
         NEW it, AddsUp(fr, it, SUBSET S), NEW sum, AddsUp(new, sum, SUBSET S)
  PROVE  sum[T] = it[T]
  <1> DEFINE N == {n \in Nat : \A s \in SmallSets(T, n) : sum[s] = it[s]}
  <1>0. IsFiniteSet(T)
    BY FS_Subset
  <1>1. 0 \in N
    BY <1>0, SmallestSet DEF AddsUp
  <1>2. ASSUME NEW n \in Nat, n \in N PROVE n + 1 \in N
    <2> SUFFICES ASSUME NEW s \in SmallSets(T, n + 1) PROVE sum[s] = it[s]
      OBVIOUS
    <2>1. s \in SUBSET S /\ s \in SUBSET T
      BY DEF SmallSets
    <2>2. /\ it[s] = IF s = {} THEN 0 ELSE fr[Some(s)].size + it[s \ {Some(s)}]
          /\ sum[s] = IF s = {} THEN 0 ELSE new[Some(s)].size + sum[s \ {Some(s)}]
      BY <2>1 DEF AddsUp
    <2>3. CASE s # {}
      <3>1. Some(s) \in s
        BY <2>3 DEF Some
      <3>2. sum[s \ {Some(s)}] = it[s \ {Some(s)}]
        BY <1>0, <1>2, <3>1, SmallerSet
      <3>3. new[Some(s)].size = fr[Some(s)].size
        BY <2>1, <3>1
      <3>4. QED
        BY <2>2, <2>3, <3>2, <3>3
    <2>4. QED
      BY <2>2, <2>3
  <1>3. Nat \subseteq N
    BY <1>1, <1>2, NatSetInduction
  <1>4. QED
    BY <1>0, <1>3, EverySetIsSmall

(* One size changes, and the sum by the difference.                        *)
LEMMA SumChanges ==
  ASSUME NEW fr, NEW new, NEW S, IsFiniteSet(S), Sized(fr, S), Sized(new, S), NEW x \in S,
         \A s \in S \ {x} : new[s].size = fr[s].size
  PROVE  /\ SumOf(fr, S) \in Nat
         /\ SumOf(new, S) = (SumOf(fr, S) - fr[x].size) + new[x].size
  <1>1. PICK it : AddsUp(fr, it, SUBSET S) /\ SumOf(fr, S) = it[S]
    BY SumUnfolds
  <1>2. PICK sum : AddsUp(new, sum, SUBSET S) /\ SumOf(new, S) = sum[S]
    BY SumUnfolds
  <1> DEFINE rest == it[S \ {x}]  a == fr[x].size  b == new[x].size
  <1>3. SumOf(fr, S) = a + rest
    BY <1>1, SumTakes
  <1>4. SumOf(new, S) = b + sum[S \ {x}]
    BY <1>2, SumTakes
  <1>5. sum[S \ {x}] = rest
    BY <1>1, <1>2, SumAgrees
  <1>6. rest \in Nat /\ a \in Nat /\ b \in Nat
    <2>1. S \ {x} \in SUBSET S
      OBVIOUS
    <2>2. rest \in Nat
      BY <1>1, <2>1, SumTyped
    <2>3. QED
      BY <2>2 DEF Sized
  <1> HIDE DEF rest, a, b
  <1>7. b + rest = ((a + rest) - a) + b /\ a + rest \in Nat
    BY <1>6
  <1>8. QED
    BY <1>3, <1>4, <1>5, <1>7 DEF a, b

LEMMA SumOfNone ==
  ASSUME NEW fr, NEW S, IsFiniteSet(S), \A s \in S : fr[s].size = 0
  PROVE  SumOf(fr, S) = 0
  <1>1. PICK it : AddsUp(fr, it, SUBSET S) /\ SumOf(fr, S) = it[S]
    BY SumUnfolds
  <1> DEFINE N == {n \in Nat : \A s \in SmallSets(S, n) : it[s] = 0}
  <1>2. 0 \in N
    BY <1>1, SmallestSet DEF AddsUp
  <1>3. ASSUME NEW n \in Nat, n \in N PROVE n + 1 \in N
    <2> SUFFICES ASSUME NEW s \in SmallSets(S, n + 1) PROVE it[s] = 0
      OBVIOUS
    <2>1. s \in SUBSET S
      BY DEF SmallSets
    <2>2. it[s] = IF s = {} THEN 0 ELSE fr[Some(s)].size + it[s \ {Some(s)}]
      BY <1>1, <2>1 DEF AddsUp
    <2>3. CASE s # {}
      <3>1. Some(s) \in s
        BY <2>3 DEF Some
      <3>2. it[s \ {Some(s)}] = 0 /\ fr[Some(s)].size = 0
        BY <1>3, <2>1, <3>1, SmallerSet
      <3>3. QED
        BY <2>2, <2>3, <3>2
    <2>4. QED
      BY <2>2, <2>3
  <1>4. Nat \subseteq N
    BY <1>2, <1>3, NatSetInduction
  <1>5. QED
    BY <1>1, <1>4, EverySetIsSmall

(***************************************************************************)
(* The bytes.  A slot that was never used counts as nothing.               *)
(***************************************************************************)
BytesInv ==
    /\ Sized(fragments, Slots)
    /\ stored < Capacity => \A s \in stored .. Capacity - 1 : fragments[s].size = 0
    /\ BytesStored

LEMMA SlotsFinite == IsFiniteSet(Slots)
  BY CapacityAssumption, FS_Interval DEF Slots

LEMMA BytesAreTheSum == BytesStored <=> bytes_stored = SumOf(fragments, Slots)
  BY DEF BytesStored, SumOf, MapThenSumSet, MapThenFoldSet

LEMMA NoBytes ==
  /\ \A s \in Slots : NoFragments[s].size = 0
  /\ \A s \in 0 .. Capacity - 1 : NoFragments[s].size = 0
  /\ MapThenSumSet(LAMBDA s : NoFragments[s].size, Slots) = 0
  <1>1. \A s \in Slots : NoFragments[s].size = 0
    BY DEF NoFragments, Blank
  <1>2. SumOf(NoFragments, Slots) = 0
    BY <1>1, SlotsFinite, SumOfNone
  <1>3. QED
    BY <1>1, <1>2 DEF Slots, SumOf, MapThenSumSet, MapThenFoldSet

LEMMA BytesStart ==
  ASSUME fragments = NoFragments, bytes_stored = 0, stored = 0
  PROVE  BytesInv
  <1>1. BytesStored
    BY NoBytes DEF BytesStored, MapThenSumSet, MapThenFoldSet
  <1>2. QED
    BY <1>1, NoBytes DEF BytesInv, Sized

LEMMA BytesCleared ==
  ASSUME RingReset
  PROVE  BytesInv'
  <1>1. fragments' = NoFragments /\ bytes_stored' = 0 /\ stored' = 0
    BY DEF RingReset
  <1>2. BytesStored'
    BY <1>1, NoBytes DEF BytesStored, MapThenSumSet, MapThenFoldSet
  <1>3. QED
    BY <1>1, <1>2, NoBytes DEF BytesInv, Sized

LEMMA BytesKept ==
  ASSUME BytesInv, UNCHANGED ring
  PROVE  BytesInv'
  <1>1. fragments' = fragments /\ bytes_stored' = bytes_stored /\ stored' = stored
    BY DEF ring
  <1>2. BytesStored'
    BY <1>1 DEF BytesInv, BytesStored, MapThenSumSet, MapThenFoldSet
  <1>3. QED
    BY <1>1, <1>2 DEF BytesInv, Sized

(* What is overwritten is subtracted, also where that is a blank slot.     *)
LEMMA BytesCounted ==
  ASSUME RingInv, BytesInv, NEW f \in Fragment, StoreFragment(f)
  PROVE  BytesInv'
  <1> DEFINE old == fragments[next_slot].size
  <1>0. Capacity \in Nat /\ Capacity > 0 /\ next_slot \in 0 .. Capacity - 1 /\ next_slot \in Slots
        /\ stored \in Nat /\ (stored < Capacity => next_slot = stored)
    BY CapacityAssumption DEF RingInv, Slots, RingIsRecent
  <1>1. CASE f.size = 0
    BY <1>1, BytesKept DEF StoreFragment
  <1>2. CASE f.size # 0
    <2>1. /\ fragments' = [fragments EXCEPT ![next_slot] = f]
          /\ stored' = IF stored >= Capacity THEN stored ELSE stored + 1
          /\ bytes_stored' = bytes_stored - Overwritten + f.size
      BY <1>2 DEF StoreFragment
    <2>2. /\ fragments'[next_slot] = f
          /\ \A s \in Slots \ {next_slot} : fragments'[s] = fragments[s]
      BY <1>0, <2>1 DEF RingInv
    <2>3. f.size \in Nat /\ old \in Nat
      BY <1>0 DEF Fragment, BytesInv, Sized
    <2>4. Sized(fragments', Slots)
      BY <2>2, <2>3 DEF BytesInv, Sized
    <2>5. Overwritten = old
      <3>1. CASE stored >= Capacity
        BY <3>1 DEF Overwritten
      <3>2. CASE ~(stored >= Capacity)
        <4>1. stored < Capacity /\ next_slot \in stored .. Capacity - 1
          BY <1>0, <3>2
        <4>2. old = 0
          BY <4>1 DEF BytesInv
        <4>3. QED
          BY <3>2, <4>2 DEF Overwritten
      <3>3. QED
        BY <3>1, <3>2
    <2>6. /\ SumOf(fragments, Slots) \in Nat
          /\ SumOf(fragments', Slots) = (SumOf(fragments, Slots) - old) + f.size
      <3> DEFINE new == fragments'
      <3>1. Sized(new, Slots) /\ \A s \in Slots \ {next_slot} : new[s].size = fragments[s].size
        BY <2>2, <2>4
      <3>2. new[next_slot].size = f.size /\ Sized(fragments, Slots)
        BY <2>2 DEF BytesInv
      <3> HIDE DEF new
      <3>3. SumOf(new, Slots) = (SumOf(fragments, Slots) - old) + new[next_slot].size
            /\ SumOf(fragments, Slots) \in Nat
        <4> DEFINE fr == fragments  x == next_slot
        <4>1. x \in Slots /\ Sized(fr, Slots) /\ Sized(new, Slots)
              /\ \A s \in Slots \ {x} : new[s].size = fr[s].size
          BY <1>0, <3>1, <3>2
        <4> HIDE DEF fr, x
        <4>2. SumOf(fr, Slots) \in Nat /\ SumOf(new, Slots) = (SumOf(fr, Slots) - fr[x].size) + new[x].size
          BY <4>1, SlotsFinite, SumChanges
        <4>3. QED
          BY <4>2 DEF fr, x
      <3>4. QED
        BY <3>2, <3>3 DEF new
    <2>7. bytes_stored = SumOf(fragments, Slots)
      BY BytesAreTheSum DEF BytesInv
    <2>8. bytes_stored' = SumOf(fragments', Slots)
      BY <2>1, <2>5, <2>6, <2>7
    <2>9. BytesStored'
      BY <2>8 DEF BytesStored, SumOf, MapThenSumSet, MapThenFoldSet
    <2>10. stored' < Capacity => \A s \in stored' .. Capacity - 1 : fragments'[s].size = 0
      <3> SUFFICES ASSUME stored' < Capacity, NEW s \in stored' .. Capacity - 1
                   PROVE  fragments'[s].size = 0
        OBVIOUS
      <3>1. stored < Capacity /\ stored' = stored + 1
        BY <1>0, <2>1
      <3>2. s \in stored .. Capacity - 1 /\ s \in Slots \ {next_slot}
        BY <1>0, <3>1 DEF Slots
      <3>3. QED
        BY <2>2, <3>1, <3>2 DEF BytesInv
    <2>11. QED
      BY <2>4, <2>9, <2>10 DEF BytesInv, Sized, Slots
  <1>3. QED
    BY <1>1, <1>2

(* bytes_stored, kept by adding and subtracting, is the size of what the   *)
(* ring holds (contest.c:40, 68), for every capacity and stream.           *)
THEOREM BytesAreCounted == Spec => []BytesStored
  <1>1. Init => RingIInv /\ BytesInv
    BY RingStarts, BytesStart DEF Init, RingInit, RingIInv
  <1>2. RingIInv /\ BytesInv /\ [Next]_vars => RingIInv' /\ BytesInv'
    <2> SUFFICES ASSUME RingIInv, BytesInv, [Next]_vars PROVE RingIInv' /\ BytesInv'
      OBVIOUS
    <2>1. QED
      BY RingMoves, RingStep, BytesCleared, BytesKept, BytesCounted DEF RingIInv
  <1>3. BytesInv => BytesStored
    BY DEF BytesInv
  <1>4. QED
    BY <1>1, <1>2, <1>3, PTL DEF Spec

(***************************************************************************)
(* The repetitions.  A slot of the ring of hashes is as old as the number  *)
(* of hashes that came since, and holds the one that old, or none.         *)
(***************************************************************************)
Age(i, ps, w) == IF i < ps THEN ps - i ELSE (ps + w) - i

HashRing(held, ps, h, w) ==
    /\ ps \in 0 .. w - 1
    /\ \A i \in 0 .. w - 1 :
          held[i] = IF Age(i, ps, w) > Len(h) THEN 0 ELSE Stored(h[(Len(h) + 1) - Age(i, ps, w)])

Again(h, w, i) == h[i] # 0 /\ \E j \in i - w .. i - 1 : j > 0 /\ Stored(h[j]) = h[i]
(* A hash is in the ring; it came within the window.                       *)
Held(held, w, x) == \E i \in 0 .. w - 1 : held[i] = x
Came(h, w, x) == \E j \in (Len(h) + 1) - w .. Len(h) : j > 0 /\ Stored(h[j]) = x

Agains(h, w) == {i \in DOMAIN h : Again(h, w, i)}

LEMMA WindowWraps ==
  ASSUME NEW w \in Nat \ {0}, NEW n \in 0 .. w - 1
  PROVE  (n + 1) % w = IF n + 1 = w THEN 0 ELSE n + 1
  OBVIOUS

LEMMA OneOlder ==
  ASSUME NEW w \in Nat, NEW ps \in 0 .. w - 1, NEW i \in 0 .. w - 1, i # ps,
         NEW next, next = IF ps + 1 = w THEN 0 ELSE ps + 1
  PROVE  Age(i, next, w) = Age(i, ps, w) + 1 /\ Age(i, ps, w) \in Nat /\ 1 <= Age(i, ps, w)
  <1>1. CASE i < ps
    BY <1>1 DEF Age
  <1>2. CASE i > ps
    BY <1>2 DEF Age
  <1>3. QED
    BY <1>1, <1>2

LEMMA RingAges ==
  ASSUME NEW w \in 1 .. LongWindow, NEW held \in [0 .. LongWindow - 1 -> Nat],
         NEW ps, NEW h \in Seq(Nat), HashRing(held, ps, h, w), NEW x \in Nat,
         NEW new, new = [held EXCEPT ![ps] = Stored(x)],
         NEW next, next = (ps + 1) % w, NEW g, g = Append(h, x)
  PROVE  HashRing(new, next, g, w)
  <1> DEFINE n == Len(h)
  <1>0. LongWindow \in Nat /\ w \in Nat /\ 1 <= w /\ w <= LongWindow /\ n \in Nat
        /\ ps \in Nat /\ ps < w
    BY WindowAssumption DEF HashRing
  <1>1. next = IF ps + 1 = w THEN 0 ELSE ps + 1
    BY <1>0, WindowWraps
  <1>2. Len(g) = n + 1 /\ g[n + 1] = x /\ \A i \in 1 .. n : g[i] = h[i]
    OBVIOUS
  <1>3. \A i \in 0 .. w - 1 : held[i] = IF Age(i, ps, w) > n THEN 0 ELSE Stored(h[(n + 1) - Age(i, ps, w)])
    BY DEF HashRing
  <1> HIDE DEF n
  <1>4. \A i \in 0 .. w - 1 : new[i] = IF i = ps THEN Stored(x) ELSE held[i]
    BY <1>0
  <1>5. ASSUME NEW i \in 0 .. w - 1
        PROVE  new[i] = IF Age(i, next, w) > n + 1 THEN 0 ELSE Stored(g[(n + 2) - Age(i, next, w)])
    <2> DEFINE a == Age(i, ps, w)  b == Age(i, next, w)
    <2>1. CASE i = ps
      <3>1. b = 1 /\ (n + 2) - b = n + 1 /\ ~(b > n + 1)
        BY <1>0, <1>1, <2>1 DEF Age
      <3> HIDE DEF b
      <3>2. new[i] = Stored(g[(n + 2) - b])
        BY <1>2, <1>4, <2>1, <3>1
      <3>3. QED
        BY <3>1, <3>2 DEF b
    <2>2. CASE i # ps
      <3>1. b = a + 1 /\ a \in Nat /\ 1 <= a
        BY ONLY <1>0, <1>1, <2>2, OneOlder
      <3>2. new[i] = IF a > n THEN 0 ELSE Stored(h[(n + 1) - a])
        <4>1. new[i] = held[i]
          BY ONLY <1>4, <2>2
        <4>2. QED
          BY ONLY <1>3, <4>1
      <3> HIDE DEF a, b
      <3>3. CASE a > n
        BY <1>0, <3>1, <3>2, <3>3 DEF b
      <3>4. CASE ~(a > n)
        <4>1. (n + 2) - b = (n + 1) - a /\ (n + 1) - a \in 1 .. n /\ ~(b > n + 1)
          BY <1>0, <3>1, <3>4
        <4>2. new[i] = Stored(g[(n + 2) - b])
          BY <1>2, <3>2, <3>4, <4>1
        <4>3. QED
          BY <4>1, <4>2 DEF b
      <3>5. QED
        BY <3>3, <3>4
    <2>3. QED
      BY <2>1, <2>2
  <1>6. next \in 0 .. w - 1
    BY <1>0, <1>1
  <1>7. (n + 1) + 1 = n + 2
    BY <1>0
  <1>8. QED
    BY <1>2, <1>5, <1>6, <1>7 DEF HashRing, n

(* A hash is in the ring exactly when it came within the window.           *)
LEMMA RingFinds ==
  ASSUME NEW w \in 1 .. LongWindow, NEW held, NEW ps, NEW h \in Seq(Nat), HashRing(held, ps, h, w),
         NEW x \in Nat, x # 0
  PROVE  Held(held, w, x) <=> Came(h, w, x)
  <1> DEFINE n == Len(h)
  <1>0. w \in Nat /\ 1 <= w /\ n \in Nat /\ ps \in Nat /\ ps < w
    BY WindowAssumption DEF HashRing
  <1> HIDE DEF n
  <1>1. ASSUME NEW i \in 0 .. w - 1, held[i] = x
        PROVE  \E j \in (n + 1) - w .. n : j > 0 /\ Stored(h[j]) = x
    <2> DEFINE a == Age(i, ps, w)
    <2>1. a \in Nat /\ 1 <= a /\ a <= w
      BY <1>0 DEF Age
    <2>2. ~(a > n) /\ Stored(h[(n + 1) - a]) = x
      BY <1>1 DEF HashRing, n
    <2> HIDE DEF a
    <2>3. (n + 1) - a \in (n + 1) - w .. n /\ (n + 1) - a > 0
      BY <1>0, <2>1, <2>2
    <2>4. QED
      BY <2>2, <2>3
  <1>2. ASSUME NEW j \in (n + 1) - w .. n, j > 0, Stored(h[j]) = x
        PROVE  \E i \in 0 .. w - 1 : held[i] = x
    <2> DEFINE a == (n + 1) - j
               i == IF a <= ps THEN ps - a ELSE (ps + w) - a
    <2>1. a \in Nat /\ 1 <= a /\ a <= w /\ a <= n /\ (n + 1) - a = j
      BY <1>0, <1>2
    <2> HIDE DEF a
    <2>2. i \in 0 .. w - 1 /\ Age(i, ps, w) = a /\ ~(a > n)
      BY <1>0, <2>1 DEF Age
    <2> HIDE DEF i
    <2>3. held[i] = Stored(h[(n + 1) - a])
      BY <2>2 DEF HashRing, n
    <2>4. QED
      BY <1>2, <2>1, <2>2, <2>3
  <1>3. QED
    BY <1>1, <1>2 DEF n, Held, Came

LEMMA AgainsGrow ==
  ASSUME NEW w \in Nat, NEW h \in Seq(Nat), NEW x \in Nat
  PROVE  /\ Cardinality(Agains(h, w)) \in Nat
         /\ Cardinality(Agains(Append(h, x), w))
               = Cardinality(Agains(h, w)) + IF x # 0 /\ Came(h, w, x) THEN 1 ELSE 0
  <1> DEFINE n == Len(h)  g == Append(h, x)  found == x # 0 /\ Came(h, w, x)
  <1>0. n \in Nat /\ DOMAIN h = 1 .. n /\ DOMAIN g = 1 .. n + 1
        /\ g[n + 1] = x /\ \A i \in 1 .. n : g[i] = h[i]
    OBVIOUS
  <1> HIDE DEF n, g
  <1>1. ASSUME NEW i \in 1 .. n PROVE Again(g, w, i) <=> Again(h, w, i)
    <2>1. \A j \in i - w .. i - 1 : j > 0 => j \in 1 .. n
      BY <1>0
    <2>2. QED
      BY <1>0, <2>1 DEF Again
  <1>2. Again(g, w, n + 1) <=> found
    <2>1. (n + 1) - 1 = n
      BY <1>0
    <2>2. \A j \in (n + 1) - w .. n : j > 0 => j \in 1 .. n
      BY <1>0
    <2>3. Came(h, w, x) <=> \E j \in (n + 1) - w .. n : j > 0 /\ Stored(h[j]) = x
      BY DEF Came, n
    <2>4. QED
      BY <1>0, <2>1, <2>2, <2>3 DEF Again
  <1>3. 1 .. n + 1 = 1 .. n \cup {n + 1} /\ n + 1 \notin 1 .. n
    BY <1>0
  <1> HIDE DEF found
  <1>4. IsFiniteSet(Agains(h, w))
    <2>1. IsFiniteSet(1 .. n) /\ Agains(h, w) \in SUBSET (1 .. n)
      BY <1>0, FS_Interval DEF Agains
    <2>2. QED
      BY <2>1, FS_Subset
  <1>5. n + 1 \notin Agains(h, w) /\ Cardinality(Agains(h, w)) \in Nat
    BY <1>0, <1>3, <1>4, FS_CardinalityType DEF Agains
  <1>6. CASE found
    <2>1. Agains(g, w) = Agains(h, w) \cup {n + 1}
      BY <1>0, <1>1, <1>2, <1>3, <1>6 DEF Agains
    <2>2. Cardinality(Agains(g, w)) = Cardinality(Agains(h, w)) + 1
      BY <1>4, <1>5, <2>1, FS_AddElement
    <2>3. QED
      BY <1>5, <1>6, <2>2 DEF found, g
  <1>7. CASE ~found
    <2>1. Agains(g, w) = Agains(h, w)
      BY <1>0, <1>1, <1>2, <1>3, <1>7 DEF Agains
    <2>2. QED
      BY <1>5, <1>7, <2>1 DEF found, g
  <1>8. QED
    BY <1>6, <1>7

repeats == <<window, hashes, pos, repeated, hashed>>

HashesTyped ==
    /\ hashes \in [Pids -> [Kinds -> [0 .. LongWindow - 1 -> Nat]]]
    /\ pos \in [Pids -> [Kinds -> Nat]]
    /\ repeated \in [Pids -> [Kinds -> Nat]]
    /\ hashed \in [Pids -> [Kinds -> Seq(Nat)]]

Counted(p, k) ==
    /\ HashRing(hashes[p][k], pos[p][k], hashed[p][k], window)
    /\ repeated[p][k] = Cardinality(Agains(hashed[p][k], window))

RepeatsInv ==
    /\ window \in 1 .. LongWindow
    /\ HashesTyped
    /\ \A p \in Pids, k \in Kinds : Counted(p, k)

(* Without the hash 0, the ring stores the hashes as they are.             *)
LEMMA RepeatsServe == RepeatsInv => RepeatsSeen
  <1> SUFFICES ASSUME RepeatsInv, NEW p \in Pids, NEW k \in Kinds,
                      \A i \in DOMAIN hashed[p][k] : hashed[p][k][i] # 0
               PROVE  repeated[p][k]
                         = Cardinality({i \in DOMAIN hashed[p][k] :
                                          \E j \in i - window .. i - 1 :
                                             j > 0 /\ hashed[p][k][j] = hashed[p][k][i]})
    BY DEF RepeatsSeen
  <1> DEFINE h == hashed[p][k]
             plain == {i \in DOMAIN h : \E j \in i - window .. i - 1 : j > 0 /\ h[j] = h[i]}
  <1>1. h \in Seq(Nat) /\ window \in Nat
    BY WindowAssumption DEF RepeatsInv, HashesTyped
  <1>2. ASSUME NEW i \in DOMAIN h
        PROVE  Again(h, window, i) <=> \E j \in i - window .. i - 1 : j > 0 /\ h[j] = h[i]
    <2>1. i \in 1 .. Len(h) /\ h[i] # 0
      BY <1>1
    <2>2. \A j \in i - window .. i - 1 : j > 0 => j \in DOMAIN h
      BY <1>1, <2>1
    <2>3. \A j \in i - window .. i - 1 : j > 0 => Stored(h[j]) = h[j]
      BY <2>2 DEF Stored
    <2>4. QED
      BY <2>1, <2>3 DEF Again
  <1>3. Agains(h, window) = plain
    BY <1>2 DEF Agains
  <1>4. QED
    BY <1>3 DEF RepeatsInv, Counted

LEMMA WindowTyped ==
  \A contest \in BOOLEAN : RepeatWindow(contest) \in 1 .. LongWindow
  BY WindowAssumption DEF RepeatWindow

(* Nothing came, and nothing is in the ring.                               *)
LEMMA EmptyRing ==
  ASSUME NEW w \in 1 .. LongWindow
  PROVE  /\ HashRing([i \in 0 .. LongWindow - 1 |-> 0], 0, <<>>, w)
         /\ Cardinality(Agains(<<>>, w)) = 0
  <1> DEFINE held == [i \in 0 .. LongWindow - 1 |-> 0]
  <1>0. LongWindow \in Nat /\ w \in Nat /\ 1 <= w /\ w <= LongWindow
    BY WindowAssumption
  <1>1. \A i \in 0 .. w - 1 : held[i] = 0 /\ Age(i, 0, w) > 0
    BY <1>0 DEF Age
  <1> HIDE DEF held
  <1>2. HashRing(held, 0, <<>>, w)
    BY <1>0, <1>1 DEF HashRing
  <1>3. Agains(<<>>, w) = {}
    BY DEF Agains
  <1>4. QED
    BY <1>2, <1>3, FS_EmptySet DEF held

LEMMA EmptyTables ==
  /\ NoHashes \in [Pids -> [Kinds -> [0 .. LongWindow - 1 -> Nat]]]
  /\ Each(0) \in [Pids -> [Kinds -> Nat]]
  /\ Each(<<>>) \in [Pids -> [Kinds -> Seq(Nat)]]
  /\ \A p \in Pids, k \in Kinds : /\ NoHashes[p][k] = [i \in 0 .. LongWindow - 1 |-> 0]
                                  /\ Each(0)[p][k] = 0 /\ Each(<<>>)[p][k] = <<>>
  BY DEF NoHashes, Each

LEMMA RepeatsStart ==
  ASSUME NEW contest \in BOOLEAN, RoleInit(contest)
  PROVE  RepeatsInv
  <1>1. /\ window \in 1 .. LongWindow /\ hashes = NoHashes /\ pos = Each(0)
        /\ repeated = Each(0) /\ hashed = Each(<<>>)
    BY WindowTyped DEF RoleInit
  <1>2. HashesTyped
    BY <1>1, EmptyTables DEF HashesTyped
  <1>3. ASSUME NEW p \in Pids, NEW k \in Kinds PROVE Counted(p, k)
    BY <1>1, EmptyTables, EmptyRing DEF Counted
  <1>4. QED
    BY <1>1, <1>2, <1>3 DEF RepeatsInv

LEMMA RepeatsCleared ==
  ASSUME NEW contest \in BOOLEAN, NEW weights, RoleReset(contest, weights)
  PROVE  RepeatsInv'
  <1>1. /\ window' \in 1 .. LongWindow /\ hashes' = NoHashes /\ pos' = Each(0)
        /\ repeated' = Each(0) /\ hashed' = Each(<<>>)
    BY WindowTyped DEF RoleReset
  <1>2. HashesTyped'
    BY <1>1, EmptyTables DEF HashesTyped
  <1>3. ASSUME NEW p \in Pids, NEW k \in Kinds PROVE Counted(p, k)'
    BY <1>1, EmptyTables, EmptyRing DEF Counted
  <1>4. QED
    BY <1>1, <1>2, <1>3 DEF RepeatsInv

LEMMA RepeatsKept ==
  ASSUME RepeatsInv, UNCHANGED repeats
  PROVE  RepeatsInv'
  BY DEF RepeatsInv, HashesTyped, Counted, repeats

(* What a packet changes: the tables of its PID, for what is compared.     *)
LEMMA RememberChanges ==
  ASSUME HashesTyped, NEW packet \in Packet, Remember(packet)
  PROVE  LET p == packet.pid IN
         /\ \A q \in Pids, k \in Kinds : q # p \/ k \notin Compared(packet) =>
               /\ hashes'[q][k] = hashes[q][k] /\ pos'[q][k] = pos[q][k]
               /\ repeated'[q][k] = repeated[q][k] /\ hashed'[q][k] = hashed[q][k]
         /\ \A k \in Kinds : k \in Compared(packet) =>
               /\ hashes'[p][k] = [hashes[p][k] EXCEPT ![pos[p][k]] = Stored(packet.hash[k])]
               /\ pos'[p][k] = NextPos(p, k)
               /\ repeated'[p][k] = repeated[p][k] + IF Repeats(p, k, packet.hash[k]) THEN 1 ELSE 0
               /\ hashed'[p][k] = Append(hashed[p][k], packet.hash[k])
  <1> DEFINE p == packet.pid
  <1>0. p \in Pids
    BY DEF Packet
  <1>1. /\ hashes' = [hashes EXCEPT ![p] = [k \in Kinds |-> IF k \in Compared(packet)
                        THEN [hashes[p][k] EXCEPT ![pos[p][k]] = Stored(packet.hash[k])] ELSE hashes[p][k]]]
        /\ pos' = [pos EXCEPT ![p] = [k \in Kinds |-> IF k \in Compared(packet)
                        THEN NextPos(p, k) ELSE pos[p][k]]]
        /\ repeated' = [repeated EXCEPT ![p] = [k \in Kinds |-> IF k \in Compared(packet)
                        THEN repeated[p][k] + IF Repeats(p, k, packet.hash[k]) THEN 1 ELSE 0
                        ELSE repeated[p][k]]]
        /\ hashed' = [hashed EXCEPT ![p] = [k \in Kinds |-> IF k \in Compared(packet)
                        THEN Append(hashed[p][k], packet.hash[k]) ELSE hashed[p][k]]]
    BY DEF Remember
  <1>2. QED
    BY <1>0, <1>1 DEF HashesTyped

LEMMA RememberTyped ==
  ASSUME window \in 1 .. LongWindow, HashesTyped, NEW packet \in Packet, Remember(packet)
  PROVE  HashesTyped'
  <1> DEFINE p == packet.pid
             newHeld == [k \in Kinds |-> IF k \in Compared(packet)
                          THEN [hashes[p][k] EXCEPT ![pos[p][k]] = Stored(packet.hash[k])] ELSE hashes[p][k]]
             newPos == [k \in Kinds |-> IF k \in Compared(packet) THEN NextPos(p, k) ELSE pos[p][k]]
             newRepeated == [k \in Kinds |-> IF k \in Compared(packet)
                              THEN repeated[p][k] + IF Repeats(p, k, packet.hash[k]) THEN 1 ELSE 0
                              ELSE repeated[p][k]]
             newHashed == [k \in Kinds |-> IF k \in Compared(packet)
                            THEN Append(hashed[p][k], packet.hash[k]) ELSE hashed[p][k]]
  <1>0. p \in Pids /\ \A k \in Kinds : packet.hash[k] \in Nat /\ Stored(packet.hash[k]) \in Nat
    BY HashesAssumption DEF Packet, Stored
  <1>1. window \in Nat /\ window > 0
    BY WindowAssumption
  <1>2. newHeld \in [Kinds -> [0 .. LongWindow - 1 -> Nat]]
    <2>1. ASSUME NEW k \in Kinds
          PROVE  /\ hashes[p][k] \in [0 .. LongWindow - 1 -> Nat]
                 /\ [hashes[p][k] EXCEPT ![pos[p][k]] = Stored(packet.hash[k])]
                       \in [0 .. LongWindow - 1 -> Nat]
      <3> DEFINE held == hashes[p][k]  h == Stored(packet.hash[k])
      <3>1. held \in [0 .. LongWindow - 1 -> Nat] /\ h \in Nat
        BY <1>0 DEF HashesTyped
      <3> HIDE DEF held, h
      <3>2. [held EXCEPT ![pos[p][k]] = h] \in [0 .. LongWindow - 1 -> Nat]
        BY <3>1
      <3>3. QED
        BY <3>1, <3>2 DEF held, h
    <2>2. QED
      BY <2>1
  <1>3. newPos \in [Kinds -> Nat]
    BY <1>0, <1>1 DEF HashesTyped, NextPos
  <1>4. newRepeated \in [Kinds -> Nat]
    BY <1>0 DEF HashesTyped
  <1>5. newHashed \in [Kinds -> Seq(Nat)]
    BY <1>0 DEF HashesTyped
  <1>6. /\ hashes' = [hashes EXCEPT ![p] = newHeld] /\ pos' = [pos EXCEPT ![p] = newPos]
        /\ repeated' = [repeated EXCEPT ![p] = newRepeated] /\ hashed' = [hashed EXCEPT ![p] = newHashed]
    BY DEF Remember
  <1> HIDE DEF newHeld, newPos, newRepeated, newHashed
  <1>7. QED
    BY <1>0, <1>2, <1>3, <1>4, <1>5, <1>6 DEF HashesTyped

LEMMA RepeatsCounted ==
  ASSUME RepeatsInv, NEW packet \in Packet, Remember(packet), window' = window
  PROVE  RepeatsInv'
  <1> DEFINE p == packet.pid
  <1>0. window \in 1 .. LongWindow /\ window \in Nat /\ p \in Pids /\ HashesTyped
    BY WindowAssumption DEF RepeatsInv, Packet
  <1>1. HashesTyped'
    BY <1>0, RememberTyped
  <1>2. ASSUME NEW q \in Pids, NEW k \in Kinds, q # p \/ k \notin Compared(packet)
        PROVE  Counted(q, k)'
    <2>1. /\ hashes'[q][k] = hashes[q][k] /\ pos'[q][k] = pos[q][k]
          /\ repeated'[q][k] = repeated[q][k] /\ hashed'[q][k] = hashed[q][k]
      BY <1>0, <1>2, RememberChanges
    <2>2. Counted(q, k)
      BY DEF RepeatsInv
    <2>3. QED
      BY <2>1, <2>2 DEF Counted
  <1>3. ASSUME NEW k \in Kinds, k \in Compared(packet)
        PROVE  Counted(p, k)'
    <2> DEFINE held == hashes[p][k]  ps == pos[p][k]  h == hashed[p][k]  x == packet.hash[k]  w == window
    <2>0. held \in [0 .. LongWindow - 1 -> Nat] /\ h \in Seq(Nat) /\ x \in Nat
      <3>1. packet.hash \in [Kinds -> Hashes]
        BY DEF Packet
      <3>2. x \in Nat
        BY <3>1, HashesAssumption
      <3>3. QED
        BY <1>0, <3>2 DEF HashesTyped
    <2>1. HashRing(held, ps, h, w) /\ repeated[p][k] = Cardinality(Agains(h, w))
      BY <1>0 DEF RepeatsInv, Counted
    <2>2. /\ hashes'[p][k] = [held EXCEPT ![ps] = Stored(x)]
          /\ pos'[p][k] = NextPos(p, k)
          /\ repeated'[p][k] = repeated[p][k] + IF Repeats(p, k, x) THEN 1 ELSE 0
          /\ hashed'[p][k] = Append(h, x)
      BY <1>0, <1>3, RememberChanges
    <2>3. NextPos(p, k) = (ps + 1) % w
      BY DEF NextPos
    <2>4. Repeats(p, k, x) <=> x # 0 /\ Held(held, w, x)
      BY DEF Repeats, Held
    <2> DEFINE new == hashes'[p][k]  next == pos'[p][k]  g == hashed'[p][k]
    <2> HIDE DEF held, ps, h, x, w, new, next, g
    <2>5. w \in 1 .. LongWindow /\ w \in Nat
      BY <1>0 DEF w
    <2>6. HashRing(new, next, g, w)
      <3>1. new = [held EXCEPT ![ps] = Stored(x)] /\ next = (ps + 1) % w /\ g = Append(h, x)
        BY <2>2, <2>3 DEF new, next, g
      <3>2. QED
        BY <2>0, <2>1, <2>5, <3>1, RingAges
    <2>7. Repeats(p, k, x) <=> x # 0 /\ Came(h, w, x)
      BY <2>0, <2>1, <2>4, <2>5, RingFinds
    <2>8. Cardinality(Agains(Append(h, x), w))
             = Cardinality(Agains(h, w)) + IF Repeats(p, k, x) THEN 1 ELSE 0
      BY <2>0, <2>5, <2>7, AgainsGrow
    <2>9. /\ HashRing(hashes'[p][k], pos'[p][k], hashed'[p][k], w)
          /\ repeated'[p][k] = Cardinality(Agains(hashed'[p][k], w))
      BY <2>1, <2>2, <2>6, <2>8 DEF new, next, g
    <2>10. window' = w
      BY DEF w
    <2>11. QED
      BY <2>9, <2>10 DEF Counted
  <1>4. QED
    BY <1>0, <1>1, <1>2, <1>3 DEF RepeatsInv

LEMMA PacketsAreTyped ==
  ASSUME config \in Configs, NEW packet \in Packets
  PROVE  packet \in Packet
  <1>1. config.pids \subseteq Pids /\ config.sizes \subseteq Nat
        /\ config.hashes \subseteq [Kinds -> Hashes]
    BY ConfigsAssumption DEF Config
  <1>2. QED
    BY <1>1 DEF Packets, Packet

RepeatsIInv == config \in Configs /\ RepeatsInv

LEMMA RepeatsStep ==
  ASSUME RepeatsIInv, [Next]_vars
  PROVE  RepeatsIInv'
  <1>0. config \in Configs /\ config.contest \in BOOLEAN /\ RepeatsInv
    BY ConfigsAssumption DEF RepeatsIInv, Config
  <1>1. ASSUME NEW opens \in BOOLEAN, Start(opens)
        PROVE  config' = config /\ RepeatsInv'
    <2>1. config' = config /\ \E weights : RoleReset(config.contest, weights)
      BY <1>1 DEF Start
    <2>2. QED
      BY <1>0, <2>1, RepeatsCleared
  <1>2. ASSUME UNCHANGED <<roleModel, config>>
        PROVE  config' = config /\ RepeatsInv'
    BY <1>0, <1>2, RepeatsKept DEF roleModel, repeats
  <1>3. ASSUME NEW opens \in BOOLEAN, Save(opens)
        PROVE  UNCHANGED <<roleModel, config>>
    BY <1>3 DEF Save
  <1>4. ASSUME NEW packet \in Packets, Hear(packet)
        PROVE  config' = config /\ RepeatsInv'
    <2>1. config' = config /\ packet \in Packet
      BY <1>0, <1>4, PacketsAreTyped DEF Hear
    <2>2. CASE config.ml
      <3>1. Remember(packet) /\ window' = window
        BY <1>4, <2>2 DEF Hear, ObserveRoles
      <3>2. QED
        BY <1>0, <2>1, <3>1, RepeatsCounted
    <2>3. CASE ~config.ml
      BY <1>2, <1>4, <2>1, <2>3 DEF Hear
    <2>4. QED
      BY <2>2, <2>3
  <1>5. ASSUME Reset
        PROVE  config' = config /\ RepeatsInv'
    BY <1>0, <1>5, RepeatsCleared DEF Reset
  <1>6. ASSUME NEW p \in Pids, NEW known \in None .. Strong, NEW null \in None .. Strong,
               \/ WriteLine(p, known, null) \/ CutLine(p, known, null)
               \/ \E read \in None .. Strong : CutNumber(p, known, null, read)
        PROVE  UNCHANGED <<roleModel, config>>
    BY <1>6 DEF WriteLine, CutLine, CutNumber, LastLine
  <1>7. ASSUME SaveEnds \/ Crash \/ UNCHANGED vars
        PROVE  UNCHANGED <<roleModel, config>>
    BY <1>7 DEF SaveEnds, Crash, vars
  <1>8. config' = config /\ RepeatsInv'
    BY <1>1, <1>2, <1>3, <1>4, <1>5, <1>6, <1>7 DEF Next
  <1>9. QED
    BY <1>0, <1>8 DEF RepeatsIInv

(* A packet, or a payload, counts as repeated exactly when one of the last *)
(* repeat_window ones of its PID had the same hash, also after the ring of *)
(* hashes has wrapped (ml_model.c:79-92), for every window and every       *)
(* stream in which no packet or payload of the PID has the hash 0.         *)
THEOREM RepeatsAreCounted == Spec => []RepeatsSeen
  <1>1. Init => RepeatsIInv
    <2>1. ASSUME Init PROVE config \in Configs /\ config.contest \in BOOLEAN /\ RoleInit(config.contest)
      BY <2>1, ConfigsAssumption DEF Init, Config
    <2>2. QED
      BY <2>1, RepeatsStart DEF RepeatsIInv
  <1>2. RepeatsIInv /\ [Next]_vars => RepeatsIInv'
    BY RepeatsStep
  <1>3. RepeatsIInv => RepeatsSeen
    BY RepeatsServe DEF RepeatsIInv
  <1>4. QED
    BY <1>1, <1>2, <1>3, PTL DEF Spec

(***************************************************************************)
(* The list of the most frequent PIDs.                                     *)
(***************************************************************************)
LEMMA MaxExists ==
  ASSUME NEW n \in Nat, NEW S \in SUBSET (0 .. n), S # {}
  PROVE  Max(S) \in S /\ \A y \in S : Max(S) >= y
  <1> DEFINE N == {m \in Nat : \A T \in SUBSET (0 .. m) : T # {} => \E x \in T : \A y \in T : x >= y}
  <1>1. 0 \in N
    <2> SUFFICES ASSUME NEW T \in SUBSET (0 .. 0), T # {}
                 PROVE  \E x \in T : \A y \in T : x >= y
      OBVIOUS
    <2>1. \A y \in 0 .. 0 : y = 0
      OBVIOUS
    <2>2. \A y \in T : y = 0
      BY <2>1
    <2>3. PICK x \in T : TRUE
      OBVIOUS
    <2>4. x = 0 /\ 0 >= 0
      BY <2>2
    <2>5. QED
      BY <2>2, <2>4
  <1>2. ASSUME NEW m \in Nat, m \in N PROVE m + 1 \in N
    <2> SUFFICES ASSUME NEW T \in SUBSET (0 .. m + 1), T # {}
                 PROVE  \E x \in T : \A y \in T : x >= y
      OBVIOUS
    <2>1. CASE m + 1 \in T
      BY <2>1
    <2>2. CASE m + 1 \notin T
      <3>1. \A y \in T : y \in 0 .. m
        BY <2>2
      <3>2. T \in SUBSET (0 .. m)
        BY <3>1
      <3>3. QED
        BY <1>2, <3>2
    <2>3. QED
      BY <2>1, <2>2
  <1>3. Nat \subseteq N
    BY <1>1, <1>2, NatSetInduction
  <1>4. \E x \in S : \A y \in S : x >= y
    BY <1>3
  <1>5. QED
    BY <1>4 DEF Max

LEMMA MinOfTwo ==
  ASSUME NEW a \in Int, NEW b \in Int
  PROVE  Min({a, b}) = IF a <= b THEN a ELSE b
  <1>1. CASE a <= b
    <2>1. \A y \in {a, b} : a <= y
      BY <1>1
    <2>2. \A x \in {a, b} : (\A y \in {a, b} : x <= y) => x = a
      BY <1>1
    <2>3. QED
      BY <1>1, <2>1, <2>2 DEF Min
  <1>2. CASE ~(a <= b)
    <2>1. \A y \in {a, b} : b <= y
      BY <1>2
    <2>2. \A x \in {a, b} : (\A y \in {a, b} : x <= y) => x = b
      BY <1>2
    <2>3. QED
      BY <1>2, <2>1, <2>2 DEF Min
  <1>3. QED
    BY <1>1, <1>2

LEMMA Inserted ==
  ASSUME NEW s \in Seq(Pids), NEW e \in Pids, NEW k \in 1 .. Len(s) + 1
  PROVE  /\ InsertAt(s, k, e) \in Seq(Pids) /\ Len(InsertAt(s, k, e)) = Len(s) + 1
         /\ \A i \in 1 .. Len(s) + 1 :
               InsertAt(s, k, e)[i] = IF i < k THEN s[i] ELSE IF i = k THEN e ELSE s[i - 1]
  <1> DEFINE a == SubSeq(s, 1, k - 1)  b == SubSeq(s, k, Len(s))  n == Len(s)
             t == InsertAt(s, k, e)
  <1>0. n \in Nat /\ k \in Nat /\ 1 <= k /\ k <= n + 1
    OBVIOUS
  <1>1. a \in Seq(Pids) /\ Len(a) = k - 1 /\ \A i \in 1 .. k - 1 : a[i] = s[i]
    OBVIOUS
  <1>2. b \in Seq(Pids) /\ Len(b) = (n + 1) - k /\ \A i \in 1 .. (n + 1) - k : b[i] = s[(k + i) - 1]
    OBVIOUS
  <1>3. t = (a \o <<e>>) \o b
    BY DEF InsertAt
  <1> DEFINE h == a \o <<e>>
  <1> HIDE DEF a, b, n, t
  <1>4. h \in Seq(Pids) /\ Len(h) = k /\ h[k] = e /\ \A i \in 1 .. k - 1 : h[i] = a[i]
    BY <1>0, <1>1
  <1>5. t = h \o b
    BY <1>3
  <1> HIDE DEF h
  <1>6. t \in Seq(Pids) /\ Len(t) = n + 1
    <2>1. h \o b \in Seq(Pids) /\ Len(h \o b) = Len(h) + Len(b)
      BY <1>2, <1>4, ConcatProperties, Zenon
    <2>2. Len(h) + Len(b) = n + 1
      BY ONLY <1>0, <1>2, <1>4
    <2>3. QED
      BY <1>5, <2>1, <2>2
  <1>7. ASSUME NEW i \in 1 .. n + 1
        PROVE  t[i] = IF i < k THEN s[i] ELSE IF i = k THEN e ELSE s[i - 1]
    <2>1. CASE i <= k
      <3>1. t[i] = h[i]
        BY <1>0, <1>2, <1>4, <1>5, <2>1
      <3>2. QED
        BY <1>0, <1>1, <1>4, <2>1, <3>1
    <2>2. CASE i > k
      <3>1. t[i] = b[i - k] /\ i - k \in 1 .. (n + 1) - k /\ (k + (i - k)) - 1 = i - 1
        BY <1>0, <1>2, <1>4, <1>5, <2>2
      <3>2. b[i - k] = s[i - 1]
        BY <1>2, <3>1
      <3>3. QED
        BY <1>0, <2>2, <3>1, <3>2
    <2>3. QED
      BY <1>0, <2>1, <2>2
  <1>8. QED
    BY <1>6, <1>7 DEF t, n

(* A list of the PIDs below n that had fragments, the most frequent first; *)
(* those that are not in it had no more than any of a full list.           *)
ListOf(top, n) ==
    /\ top \in Seq(Pids) /\ Len(top) <= Top
    /\ \A i \in 1 .. Len(top) : top[i] < n /\ pid_count[top[i]] > 0
    /\ \A i, j \in 1 .. Len(top) :
          i < j => top[i] # top[j] /\ pid_count[top[i]] >= pid_count[top[j]]
    /\ \A q \in Pids : q < n /\ pid_count[q] > 0 =>
          \/ \E i \in 1 .. Len(top) : top[i] = q
          \/ Len(top) = Top /\ \A i \in 1 .. Len(top) : pid_count[top[i]] >= pid_count[q]

LEMMA PlaceIs ==
  ASSUME pid_count \in [Pids -> Nat], NEW p \in Pids, NEW top, ListOf(top, p)
  PROVE  /\ Place(top, p) \in 1 .. Len(top) + 1
         /\ \A i \in 1 .. Len(top) :
               (i < Place(top, p)) <=> (pid_count[top[i]] >= pid_count[p])
  <1> DEFINE n == Len(top)  c == pid_count[p]
             more == {i \in DOMAIN top : pid_count[top[i]] >= c}
             S == {0} \cup more
             m == Max(S)
  <1>1. top \in Seq(Pids) /\ n \in Nat /\ DOMAIN top = 1 .. n /\ c \in Nat
        /\ \A i \in 1 .. n : pid_count[top[i]] \in Nat
    BY DEF ListOf
  <1>2. S \in SUBSET (0 .. n) /\ S # {}
    BY <1>1
  <1>3. m \in S /\ \A y \in S : m >= y
    BY <1>1, <1>2, MaxExists
  <1>4. Place(top, p) = 1 + m
    BY DEF Place
  <1> HIDE DEF m
  <1>5. m \in 0 .. n
    BY <1>2, <1>3
  <1>6. ASSUME NEW i \in 1 .. n, i < 1 + m PROVE pid_count[top[i]] >= c
    <2>1. m \in 1 .. n /\ pid_count[top[m]] >= c
      BY <1>1, <1>3, <1>5, <1>6
    <2>2. CASE i = m
      BY <2>1, <2>2
    <2>3. CASE i # m
      <3>1. i < m
        BY <1>5, <1>6, <2>3
      <3>2. pid_count[top[i]] >= pid_count[top[m]]
        BY <2>1, <3>1 DEF ListOf
      <3>3. QED
        BY <1>1, <2>1, <3>2
    <2>4. QED
      BY <2>2, <2>3
  <1>7. ASSUME NEW i \in 1 .. n, pid_count[top[i]] >= c PROVE i < 1 + m
    <2>1. i \in S
      BY <1>1, <1>7
    <2>2. QED
      BY <1>3, <1>5, <2>1
  <1>8. QED
    BY <1>1, <1>4, <1>5, <1>6, <1>7

(* The next PID goes where it belongs, and the last one falls off.         *)
LEMMA RankedIsList ==
  ASSUME pid_count \in [Pids -> Nat], NEW p \in Pids, pid_count[p] > 0, NEW top, ListOf(top, p)
  PROVE  ListOf(Ranked(top, p), p + 1)
  <1> DEFINE n == Len(top)  k == Place(top, p)  all == InsertAt(top, k, p)
             m == Min({Top, n + 1})  new == SubSeq(all, 1, m)  c == pid_count[p]
  <1>0. /\ top \in Seq(Pids) /\ n \in Nat /\ Top \in Nat /\ Top > 0 /\ n <= Top
        /\ p \in Nat /\ c \in Nat /\ c > 0 /\ Pids \subseteq Nat
        /\ \A i \in 1 .. n : top[i] \in Pids /\ pid_count[top[i]] \in Nat
    <2>1. top \in Seq(Pids) /\ n \in Nat /\ n <= Top
      BY DEF ListOf
    <2>2. Top \in Nat /\ Top > 0
      BY CapacityAssumption
    <2>3. Pids \subseteq Nat
      BY PidsAssumption
    <2>4. p \in Nat
      BY <2>3
    <2>5. c \in Nat /\ c > 0
      OBVIOUS
    <2>6. \A i \in 1 .. n : top[i] \in Pids
      BY <2>1
    <2>7. \A i \in 1 .. n : pid_count[top[i]] \in Nat
      BY <2>6
    <2>8. QED
      BY <2>1, <2>2, <2>3, <2>4, <2>5, <2>6, <2>7
  <1>1. k \in 1 .. n + 1 /\ \A i \in 1 .. n : (i < k) <=> (pid_count[top[i]] >= c)
    BY PlaceIs
  <1>2. /\ all \in Seq(Pids) /\ Len(all) = n + 1
        /\ \A i \in 1 .. n + 1 : all[i] = IF i < k THEN top[i] ELSE IF i = k THEN p ELSE top[i - 1]
    BY <1>0, <1>1, Inserted
  <1>3. m = IF Top <= n + 1 THEN Top ELSE n + 1
    BY <1>0, MinOfTwo
  <1>4. Ranked(top, p) = new
    BY DEF Ranked
  <1> HIDE DEF k, all, m
  <1>5. m \in Nat /\ m <= n + 1 /\ m <= Top /\ 1 <= m /\ n <= m
    BY <1>0, <1>3
  <1>6. /\ new \in Seq(Pids) /\ Len(new) = m
        /\ \A i \in 1 .. m : new[i] = IF i < k THEN top[i] ELSE IF i = k THEN p ELSE top[i - 1]
    <2>1. \A i \in 1 .. m : all[i] \in Pids
      BY <1>2, <1>5
    <2>2. new \in Seq(Pids) /\ Len(new) = m /\ \A i \in 1 .. m : new[i] = all[i]
      BY <1>5, <2>1, SubSeqProperties
    <2>3. \A i \in 1 .. m : i \in 1 .. n + 1
      BY <1>5
    <2>4. QED
      BY <1>2, <2>2, <2>3
  <1> HIDE DEF new, n, c
  <1>7. \A i \in 1 .. n : top[i] < p /\ pid_count[top[i]] > 0
    BY DEF ListOf, n
  <1>8. \A i, j \in 1 .. n : i < j => top[i] # top[j] /\ pid_count[top[i]] >= pid_count[top[j]]
    BY DEF ListOf, n
  (* Before its place, at its place, or behind it.                         *)
  <1>9. ASSUME NEW i \in 1 .. m
        PROVE  \/ i < k /\ i \in 1 .. n /\ new[i] = top[i] /\ pid_count[top[i]] >= c
               \/ i = k /\ new[i] = p
               \/ i > k /\ i - 1 \in 1 .. n /\ i - 1 >= k /\ new[i] = top[i - 1] /\ pid_count[top[i - 1]] < c
    <2>1. CASE i < k
      <3>1. i \in 1 .. n
        BY <1>0, <1>1, <2>1
      <3>2. QED
        BY <1>1, <1>6, <2>1, <3>1
    <2>2. CASE i = k
      BY <1>1, <1>6, <2>2
    <2>3. CASE i > k
      <3>1. i - 1 \in 1 .. n /\ i - 1 >= k /\ ~(i - 1 < k) /\ ~(i < k) /\ i # k
        BY <1>0, <1>1, <1>5, <2>3
      <3>2. new[i] = top[i - 1]
        BY <1>6, <3>1
      <3>3. ~(pid_count[top[i - 1]] >= c) /\ pid_count[top[i - 1]] \in Nat
        BY <1>0, <1>1, <3>1
      <3>4. pid_count[top[i - 1]] < c
        BY <1>0, <3>3
      <3>5. QED
        BY <2>3, <3>1, <3>2, <3>4
    <2>4. QED
      BY <1>1, <2>1, <2>2, <2>3
  <1>10. \A i \in 1 .. m : new[i] < p + 1 /\ pid_count[new[i]] > 0
    <2> SUFFICES ASSUME NEW i \in 1 .. m PROVE new[i] < p + 1 /\ pid_count[new[i]] > 0
      OBVIOUS
    <2>1. CASE new[i] = p
      BY <1>0, <2>1 DEF c
    <2>2. CASE \E j \in 1 .. n : new[i] = top[j]
      <3>1. PICK j \in 1 .. n : new[i] = top[j]
        BY <2>2
      <3>2. top[j] < p /\ pid_count[top[j]] > 0 /\ top[j] \in Nat
        BY <1>0, <1>7
      <3>3. QED
        BY <1>0, <3>1, <3>2
    <2>3. QED
      BY <1>9, <2>1, <2>2
  <1>11. ASSUME NEW i \in 1 .. m, NEW j \in 1 .. m, i < j
         PROVE  new[i] # new[j] /\ pid_count[new[i]] >= pid_count[new[j]]
    <2>0. \A g, h \in 1 .. n : g < h => top[g] # top[h] /\ pid_count[top[g]] >= pid_count[top[h]]
      BY <1>8
    <2>a. \A g \in 1 .. n : top[g] # p
      BY <1>0, <1>7
    <2>1. CASE j < k
      <3>1. i < k
        BY <1>1, <1>11, <2>1
      <3>2. new[i] = top[i] /\ new[j] = top[j] /\ i \in 1 .. n /\ j \in 1 .. n
        BY <1>1, <1>9, <2>1, <3>1
      <3>3. QED
        BY <1>11, <2>0, <3>2
    <2>2. CASE j = k
      <3>1. i < k
        BY <1>11, <2>2
      <3>2. new[i] = top[i] /\ i \in 1 .. n /\ pid_count[top[i]] >= c /\ new[j] = p
        BY <1>1, <1>9, <2>2, <3>1
      <3>3. QED
        BY <2>a, <3>2 DEF c
    <2>3. CASE j > k
      <3>1. j - 1 \in 1 .. n /\ new[j] = top[j - 1] /\ pid_count[top[j - 1]] < c
        BY <1>1, <1>9, <2>3
      <3>2. CASE i < k
        <4>1. new[i] = top[i] /\ i \in 1 .. n /\ i < j - 1
          BY <1>1, <1>5, <1>9, <2>3, <3>2
        <4>2. QED
          BY <2>0, <3>1, <4>1
      <3>3. CASE i = k
        <4>1. new[i] = p /\ pid_count[top[j - 1]] \in Nat
          BY <1>0, <1>1, <1>9, <3>1, <3>3
        <4>2. c >= pid_count[top[j - 1]]
          BY <1>0, <3>1, <4>1
        <4>3. QED
          BY <2>a, <3>1, <4>1, <4>2 DEF c
      <3>4. CASE i > k
        <4>1. new[i] = top[i - 1] /\ i - 1 \in 1 .. n
          BY <1>1, <1>9, <3>4
        <4>2. i - 1 < j - 1
          BY <1>11
        <4>3. QED
          BY <2>0, <3>1, <4>1, <4>2
      <3>5. QED
        BY <1>1, <3>2, <3>3, <3>4
    <2>4. QED
      BY <1>1, <2>1, <2>2, <2>3
  <1>12. ASSUME NEW i \in 1 .. m, NEW q \in Pids, NEW z \in 1 .. n, k <= z,
                pid_count[top[z]] >= pid_count[q],
                \A j \in 1 .. n : j <= z => pid_count[top[j]] >= pid_count[q],
                i > k => i - 1 <= z
         PROVE  pid_count[new[i]] >= pid_count[q]
    <2>1. CASE i < k
      <3>1. i \in 1 .. n /\ new[i] = top[i] /\ i <= z
        BY <1>1, <1>9, <1>12, <2>1
      <3>2. QED
        BY <1>12, <3>1
    <2>2. CASE i = k
      <3>1. new[i] = p /\ ~(pid_count[top[z]] >= c)
        BY <1>1, <1>9, <1>12, <2>2
      <3>2. pid_count[top[z]] \in Nat /\ pid_count[q] \in Nat
        BY <1>0
      <3>3. c >= pid_count[q]
        BY <1>0, <1>12, <3>1, <3>2
      <3>4. QED
        BY <3>1, <3>3 DEF c
    <2>3. CASE i > k
      <3>1. i - 1 \in 1 .. n /\ new[i] = top[i - 1]
        BY <1>1, <1>9, <2>3
      <3>2. QED
        BY <1>12, <2>3, <3>1
    <2>4. QED
      BY <1>1, <2>1, <2>2, <2>3
  <1>13. ASSUME NEW q \in Pids, q < p + 1, pid_count[q] > 0
         PROVE  \/ \E i \in 1 .. m : new[i] = q
                \/ m = Top /\ \A i \in 1 .. m : pid_count[new[i]] >= pid_count[q]
    <2>1. CASE q = p
      <3>1. CASE k <= m
        <4>1. k \in 1 .. m /\ ~(k < k)
          BY <1>0, <1>1, <1>5, <3>1
        <4>2. new[k] = p
          BY <1>6, <4>1
        <4>3. QED
          BY <2>1, <4>1, <4>2
      <3>2. CASE ~(k <= m)
        <4>1. m = Top /\ \A i \in 1 .. m : i < k
          BY <1>0, <1>1, <1>3, <1>5, <3>2
        <4>2. \A i \in 1 .. m : pid_count[new[i]] >= c
          BY <1>1, <1>9, <4>1
        <4>3. QED
          BY <2>1, <4>1, <4>2 DEF c
      <3>3. QED
        BY <3>1, <3>2
    <2>2. CASE q # p
      <3>1. q < p
        BY <1>0, <1>13, <2>2
      <3>2. \/ \E j \in 1 .. n : top[j] = q
            \/ n = Top /\ \A j \in 1 .. n : pid_count[top[j]] >= pid_count[q]
        BY <1>13, <3>1 DEF ListOf, n
      <3>3. ASSUME NEW j \in 1 .. n, top[j] = q, j < k PROVE \E i \in 1 .. m : new[i] = q
        <4>1. j \in 1 .. m
          BY <1>0, <1>5
        <4>2. QED
          BY <1>6, <3>3, <4>1
      <3>4. ASSUME NEW j \in 1 .. n, top[j] = q, ~(j < k), j < m PROVE \E i \in 1 .. m : new[i] = q
        <4>1. j + 1 \in 1 .. m /\ ~(j + 1 < k) /\ j + 1 # k /\ (j + 1) - 1 = j
          BY <1>0, <1>1, <1>5, <3>4
        <4>2. new[j + 1] = top[j]
          BY <1>6, <4>1
        <4>3. QED
          BY <3>4, <4>1, <4>2
      <3>5. ASSUME NEW j \in 1 .. n, top[j] = q, ~(j < k), ~(j < m)
            PROVE  m = Top /\ \A i \in 1 .. m : pid_count[new[i]] >= pid_count[q]
        <4>1. j = n /\ m = n /\ m = Top /\ k <= j
          BY <1>0, <1>1, <1>3, <1>5, <3>5
        <4>2. pid_count[top[j]] >= pid_count[q]
          <5>1. pid_count[q] \in Nat
            OBVIOUS
          <5>2. QED
            BY <3>5, <5>1
        <4>3. \A g \in 1 .. n : g <= j => pid_count[top[g]] >= pid_count[q]
          <5> SUFFICES ASSUME NEW g \in 1 .. n, g <= j PROVE pid_count[top[g]] >= pid_count[q]
            OBVIOUS
          <5>1. CASE g = j
            BY <4>2, <5>1
          <5>2. CASE g < j
            BY <1>8, <3>5, <5>2
          <5>3. QED
            BY <1>0, <5>1, <5>2
        <4>4. \A i \in 1 .. m : i > k => i - 1 <= j
          BY <1>0, <4>1
        <4>5. \A i \in 1 .. m : pid_count[new[i]] >= pid_count[q]
          BY <1>12, <4>1, <4>2, <4>3, <4>4
        <4>6. QED
          BY <4>1, <4>5
      <3>6. ASSUME n = Top, \A j \in 1 .. n : pid_count[top[j]] >= pid_count[q]
            PROVE  m = Top /\ \A i \in 1 .. m : pid_count[new[i]] >= pid_count[q]
        <4>1. m = n /\ m = Top /\ n \in 1 .. n
          BY <1>0, <1>5, <3>6
        <4>2. CASE k <= n
          <5>1. \A i \in 1 .. m : i > k => i - 1 <= n
            BY <1>0, <4>1
          <5>2. \A i \in 1 .. m : pid_count[new[i]] >= pid_count[q]
            BY <1>12, <3>6, <4>1, <4>2, <5>1
          <5>3. QED
            BY <4>1, <5>2
        <4>3. CASE ~(k <= n)
          <5>1. \A i \in 1 .. m : i < k
            BY <1>0, <1>1, <4>1, <4>3
          <5>2. \A i \in 1 .. m : i \in 1 .. n /\ new[i] = top[i]
            BY <1>6, <4>1, <5>1
          <5>3. QED
            BY <3>6, <4>1, <5>2
        <4>4. QED
          BY <4>2, <4>3
      <3>7. QED
        BY <3>2, <3>3, <3>4, <3>5, <3>6
    <2>3. QED
      BY <2>1, <2>2
  <1>14. ListOf(new, p + 1)
    BY <1>5, <1>6, <1>10, <1>11, <1>13 DEF ListOf
  <1>15. QED
    BY <1>4, <1>14

(* The function by which HotPids counts, on the PIDs below n.              *)
Lists(top, n) ==
    top = [m \in 0 .. n |-> IF m = 0 THEN <<>>
                            ELSE IF m - 1 \notin Pids \/ pid_count[m - 1] = 0 THEN top[m - 1]
                            ELSE Ranked(top[m - 1], m - 1)]

LEMMA ListsExist == \A n \in Nat : \E top : Lists(top, n)
  <1> DEFINE N == {n \in Nat : \E top : Lists(top, n)}
             Then(m, old) == IF m = 0 THEN <<>>
                             ELSE IF m - 1 \notin Pids \/ pid_count[m - 1] = 0 THEN old
                             ELSE Ranked(old, m - 1)
  <1>1. 0 \in N
    <2> DEFINE top == [m \in 0 .. 0 |-> <<>>]
    <2>1. \A m \in 0 .. 0 : m = 0
      OBVIOUS
    <2>2. Lists(top, 0)
      BY <2>1 DEF Lists
    <2>3. QED
      BY <2>2
  <1>2. ASSUME NEW n \in Nat, n \in N PROVE n + 1 \in N
    <2>1. PICK top : Lists(top, n)
      BY <1>2
    <2> DEFINE new == [m \in 0 .. n + 1 |-> Then(m, top[m - 1])]
    <2>2. top = [m \in 0 .. n |-> Then(m, top[m - 1])]
      BY <2>1 DEF Lists
    <2> HIDE DEF Then
    <2>3. \A m \in 0 .. n : m \in 0 .. n + 1
      OBVIOUS
    <2>4. \A m \in 0 .. n : new[m] = top[m]
      BY <2>2, <2>3
    <2>5. \A m \in 0 .. n + 1 : m # 0 => m - 1 \in 0 .. n
      OBVIOUS
    <2>6. \A m \in 0 .. n + 1 : Then(m, top[m - 1]) = Then(m, new[m - 1])
      BY <2>4, <2>5 DEF Then
    <2>7. new = [m \in 0 .. n + 1 |-> Then(m, new[m - 1])]
      BY <2>6
    <2> HIDE DEF new
    <2>8. Lists(new, n + 1)
      BY <2>7, Zenon DEF Lists, Then
    <2>9. QED
      BY <2>8
  <1>3. Nat \subseteq N
    BY <1>1, <1>2, NatSetInduction
  <1>4. QED
    BY <1>3

LEMMA ListUnfolds ==
  \E top : Lists(top, PidCount) /\ HotPids = top[PidCount]
  <1> DEFINE top == CHOOSE t : Lists(t, PidCount)
  <1>1. \E t : Lists(t, PidCount)
    BY PidsAssumption, ListsExist
  <1>2. Lists(top, PidCount)
    BY <1>1
  <1>3. HotPids = top[PidCount]
    BY DEF HotPids, Lists
  <1>4. QED
    BY <1>2, <1>3

(* A PID that had no fragments is passed over.                             *)
LEMMA PassedOver ==
  ASSUME pid_count \in [Pids -> Nat], NEW n \in Nat, NEW top, ListOf(top, n),
         n \notin Pids \/ pid_count[n] = 0
  PROVE  ListOf(top, n + 1)
  <1>1. Pids \subseteq Nat
    BY PidsAssumption
  <1>2. \A i \in 1 .. Len(top) : top[i] \in Nat /\ top[i] < n /\ pid_count[top[i]] > 0
    BY <1>1 DEF ListOf
  <1>3. \A i \in 1 .. Len(top) : top[i] < n + 1 /\ pid_count[top[i]] > 0
    BY <1>2
  <1>4. \A q \in Pids : q < n + 1 /\ pid_count[q] > 0 => q < n
    BY <1>1
  <1>5. QED
    BY <1>3, <1>4 DEF ListOf

LEMMA HotPidsListed ==
  ASSUME pid_count \in [Pids -> Nat]
  PROVE  ListOf(HotPids, PidCount)
  <1>1. PICK top : Lists(top, PidCount) /\ HotPids = top[PidCount]
    BY ListUnfolds
  <1> DEFINE N == {n \in Nat : n <= PidCount => ListOf(top[n], n)}
  <1>2. PidCount \in Nat /\ Pids \subseteq Nat
    BY PidsAssumption
  <1>3. 0 \in N
    <2>1. top[0] = <<>>
      BY <1>1, <1>2 DEF Lists
    <2>2. ListOf(<<>>, 0)
      <3>1. \A q \in Pids : ~(q < 0)
        BY <1>2
      <3>2. <<>> \in Seq(Pids) /\ Len(<<>>) = 0 /\ Top \in Nat
        BY CapacityAssumption
      <3>3. QED
        BY <3>1, <3>2 DEF ListOf
    <2>3. QED
      BY <2>1, <2>2
  <1>4. ASSUME NEW n \in Nat, n \in N PROVE n + 1 \in N
    <2> SUFFICES ASSUME n + 1 <= PidCount PROVE ListOf(top[n + 1], n + 1)
      OBVIOUS
    <2>1. ListOf(top[n], n)
      BY <1>2, <1>4
    <2>2. top[n + 1] = IF n \notin Pids \/ pid_count[n] = 0 THEN top[n] ELSE Ranked(top[n], n)
      <3>1. n + 1 \in 0 .. PidCount /\ n + 1 # 0 /\ (n + 1) - 1 = n
        BY <1>2
      <3>2. QED
        BY <1>1, <3>1 DEF Lists
    <2>3. CASE n \notin Pids \/ pid_count[n] = 0
      BY <2>1, <2>2, <2>3, PassedOver
    <2>4. CASE n \in Pids /\ pid_count[n] # 0
      <3>1. pid_count[n] > 0
        BY <2>4
      <3>2. QED
        BY <2>1, <2>2, <2>4, <3>1, RankedIsList
    <2>5. QED
      BY <2>3, <2>4
  <1>5. Nat \subseteq N
    BY <1>3, <1>4, NatSetInduction
  <1>6. QED
    BY <1>1, <1>2, <1>5

(* The counts are those of the fragments since the reset.                  *)
Offers(h, p) == {i \in DOMAIN h : h[i].pid = p}

CountInv ==
    /\ offered \in Seq(Fragment)
    /\ pid_count \in [Pids -> Nat]
    /\ \A p \in Pids : pid_count[p] = Cardinality(Offers(offered, p))

LEMMA OffersGrow ==
  ASSUME NEW h \in Seq(Fragment), NEW f \in Fragment, NEW p
  PROVE  /\ IsFiniteSet(Offers(h, p)) /\ Cardinality(Offers(h, p)) \in Nat
         /\ Cardinality(Offers(Append(h, f), p))
               = Cardinality(Offers(h, p)) + IF f.pid = p THEN 1 ELSE 0
  <1> DEFINE n == Len(h)  g == Append(h, f)
  <1>1. n \in Nat /\ DOMAIN h = 1 .. n /\ DOMAIN g = 1 .. n + 1
        /\ g[n + 1] = f /\ \A i \in 1 .. n : g[i] = h[i]
    OBVIOUS
  <1> HIDE DEF n, g
  <1>2. 1 .. n + 1 = 1 .. n \cup {n + 1} /\ n + 1 \notin 1 .. n
    BY <1>1
  <1>3. IsFiniteSet(Offers(h, p))
    <2>1. IsFiniteSet(1 .. n) /\ Offers(h, p) \in SUBSET (1 .. n)
      BY <1>1, FS_Interval DEF Offers
    <2>2. QED
      BY <2>1, FS_Subset
  <1>4. n + 1 \notin Offers(h, p) /\ Cardinality(Offers(h, p)) \in Nat
    BY <1>1, <1>2, <1>3, FS_CardinalityType DEF Offers
  <1>5. CASE f.pid = p
    <2>1. Offers(g, p) = Offers(h, p) \cup {n + 1}
      BY <1>1, <1>2, <1>5 DEF Offers
    <2>2. Cardinality(Offers(g, p)) = Cardinality(Offers(h, p)) + 1
      BY <1>3, <1>4, <2>1, FS_AddElement
    <2>3. QED
      BY <1>3, <1>4, <1>5, <2>2 DEF g
  <1>6. CASE f.pid # p
    <2>1. Offers(g, p) = Offers(h, p)
      BY <1>1, <1>2, <1>6 DEF Offers
    <2>2. QED
      BY <1>3, <1>4, <1>6, <2>1 DEF g
  <1>7. QED
    BY <1>5, <1>6

LEMMA NothingOffered ==
  /\ NoCounts \in [Pids -> Nat] /\ <<>> \in Seq(Fragment)
  /\ \A p \in Pids : NoCounts[p] = Cardinality(Offers(<<>>, p))
  <1>1. \A p \in Pids : Offers(<<>>, p) = {}
    BY DEF Offers
  <1>2. QED
    BY <1>1, FS_EmptySet DEF NoCounts

LEMMA CountsStart ==
  ASSUME RingInit
  PROVE  CountInv
  BY NothingOffered DEF RingInit, CountInv

LEMMA CountsCleared ==
  ASSUME RingReset
  PROVE  CountInv'
  BY NothingOffered DEF RingReset, CountInv

LEMMA CountsKept ==
  ASSUME CountInv, UNCHANGED ring
  PROVE  CountInv'
  BY DEF CountInv, ring

LEMMA CountsCounted ==
  ASSUME CountInv, NEW f \in Fragment, f.pid \in Pids, StoreFragment(f)
  PROVE  CountInv'
  <1>1. CASE f.size = 0
    BY <1>1, CountsKept DEF StoreFragment
  <1>2. CASE f.size # 0
    <2>1. pid_count' = [pid_count EXCEPT ![f.pid] = @ + 1] /\ offered' = Append(offered, f)
      BY <1>2 DEF StoreFragment
    <2>2. offered \in Seq(Fragment) /\ pid_count \in [Pids -> Nat]
      BY DEF CountInv
    <2>3. offered' \in Seq(Fragment) /\ pid_count' \in [Pids -> Nat]
      BY <2>1, <2>2
    <2>4. ASSUME NEW p \in Pids PROVE pid_count'[p] = Cardinality(Offers(offered', p))
      <3>1. pid_count'[p] = pid_count[p] + IF f.pid = p THEN 1 ELSE 0
        BY <2>1, <2>2
      <3>2. pid_count[p] = Cardinality(Offers(offered, p))
        BY DEF CountInv
      <3>3. Cardinality(Offers(offered', p)) = Cardinality(Offers(offered, p)) + IF f.pid = p THEN 1 ELSE 0
        BY <2>1, <2>2, OffersGrow
      <3>4. QED
        BY <3>1, <3>2, <3>3
    <2>5. QED
      BY <2>3, <2>4 DEF CountInv
  <1>3. QED
    BY <1>1, <1>2

Members(s, m) == {s[i] : i \in 1 .. m}

(* A list without repetitions has as many members as it is long.           *)
LEMMA Distinct ==
  ASSUME NEW s \in Seq(Pids), \A i, j \in 1 .. Len(s) : i < j => s[i] # s[j]
  PROVE  IsFiniteSet(Members(s, Len(s))) /\ Cardinality(Members(s, Len(s))) = Len(s)
  <1> DEFINE n == Len(s)
             N == {m \in Nat : m <= n => IsFiniteSet(Members(s, m)) /\ Cardinality(Members(s, m)) = m}
  <1>0. n \in Nat
    OBVIOUS
  <1>1. 0 \in N
    <2>1. Members(s, 0) = {}
      BY DEF Members
    <2>2. QED
      BY <2>1, FS_EmptySet
  <1>2. ASSUME NEW m \in Nat, m \in N PROVE m + 1 \in N
    <2> SUFFICES ASSUME m + 1 <= n PROVE IsFiniteSet(Members(s, m + 1)) /\ Cardinality(Members(s, m + 1)) = m + 1
      OBVIOUS
    <2>1. IsFiniteSet(Members(s, m)) /\ Cardinality(Members(s, m)) = m
      BY <1>0, <1>2
    <2>2. Members(s, m + 1) = Members(s, m) \cup {s[m + 1]}
      <3>1. 1 .. m + 1 = 1 .. m \cup {m + 1}
        OBVIOUS
      <3>2. QED
        BY <3>1 DEF Members
    <2>3. s[m + 1] \notin Members(s, m)
      <3> SUFFICES ASSUME NEW i \in 1 .. m, s[i] = s[m + 1] PROVE FALSE
        BY DEF Members
      <3>1. i \in 1 .. n /\ m + 1 \in 1 .. n /\ i < m + 1
        BY <1>0
      <3>2. QED
        BY <3>1
    <2> DEFINE S == Members(s, m)  x == s[m + 1]
    <2> HIDE DEF S, x
    <2>4. IsFiniteSet(S \cup {x}) /\ Cardinality(S \cup {x}) = Cardinality(S) + 1
      BY <2>1, <2>3, FS_AddElement DEF S, x
    <2>5. QED
      BY <2>1, <2>2, <2>4 DEF S, x
  <1>3. Nat \subseteq N
    BY <1>1, <1>2, NatSetInduction
  <1>4. IsFiniteSet(Members(s, n)) /\ Cardinality(Members(s, n)) = n
    <2> HIDE DEF n
    <2>1. QED
      BY <1>0, <1>3
  <1>5. QED
    BY <1>4

LEMMA ListServes ==
  ASSUME CountInv
  PROVE  HottestListed
  <1> DEFINE top == HotPids  m == Len(top)
             had == {p \in Pids : \E i \in DOMAIN offered : offered[i].pid = p}
             listed == {top[i] : i \in DOMAIN top}
  <1>1. ListOf(top, PidCount) /\ pid_count \in [Pids -> Nat] /\ offered \in Seq(Fragment)
    BY HotPidsListed DEF CountInv
  <1> HIDE DEF top
  <1>2. top \in Seq(Pids) /\ m \in Nat /\ DOMAIN top = 1 .. m /\ m <= Top /\ Top \in Nat
    BY <1>1, CapacityAssumption DEF ListOf
  <1>3. \A p \in Pids : Cardinality({i \in DOMAIN offered : offered[i].pid = p}) = pid_count[p]
    BY DEF CountInv, Offers
  <1>4. \A p \in Pids : pid_count[p] \in Nat /\ (p \in had <=> pid_count[p] > 0)
    <2> SUFFICES ASSUME NEW p \in Pids
                 PROVE  pid_count[p] \in Nat /\ (p \in had <=> pid_count[p] > 0)
      OBVIOUS
    <2>1. IsFiniteSet(Offers(offered, p)) /\ pid_count[p] = Cardinality(Offers(offered, p))
      <3>1. PICK f \in Fragment : TRUE
        <4>1. Blank \in Fragment
          BY DEF Blank, Fragment
        <4>2. QED
          BY <4>1
      <3>2. QED
        BY <1>1, <3>1, OffersGrow DEF CountInv
    <2>2. pid_count[p] = 0 <=> Offers(offered, p) = {}
      BY <2>1, FS_EmptySet
    <2>3. p \in had <=> Offers(offered, p) # {}
      BY DEF Offers
    <2>4. pid_count[p] \in Nat
      BY <1>1
    <2>5. pid_count[p] = 0 <=> ~(pid_count[p] > 0)
      BY <2>4
    <2> HIDE DEF had
    <2>6. QED
      BY <2>2, <2>3, <2>4, <2>5
  <1>5. \A i \in 1 .. m : top[i] \in Pids /\ pid_count[top[i]] > 0
    <2>1. \A i \in 1 .. Len(top) : top[i] < PidCount /\ pid_count[top[i]] > 0
      BY <1>1, Zenon DEF ListOf
    <2>2. \A i \in 1 .. Len(top) : top[i] \in Pids
      BY <1>2
    <2>3. QED
      BY <2>1, <2>2
  <1>6. listed \subseteq had /\ listed \subseteq Pids /\ had \subseteq Pids
    BY <1>2, <1>4, <1>5
  <1>7. \A i, j \in 1 .. m : i < j => top[i] # top[j] /\ pid_count[top[i]] >= pid_count[top[j]]
    BY <1>1 DEF ListOf
  <1>8. IsFiniteSet(listed) /\ Cardinality(listed) = m
    <2>1. listed = Members(top, m)
      BY <1>2 DEF Members
    <2>2. QED
      BY <1>2, <1>7, <2>1, Distinct
  <1>9. ASSUME NEW q \in had, q \notin listed
        PROVE  m = Top /\ \A i \in 1 .. m : pid_count[top[i]] >= pid_count[q]
    <2>1. q \in Pids /\ pid_count[q] > 0 /\ q < PidCount
      BY <1>4, <1>6, PidsAssumption
    <2>2. ~\E i \in 1 .. Len(top) : top[i] = q
      BY <1>2, <1>9
    <2>3. QED
      BY <1>1, <2>1, <2>2 DEF ListOf
  <1>10. IsFiniteSet(had)
    <2>1. IsFiniteSet(0 .. PidCount - 1)
      BY PidsAssumption, FS_Interval
    <2>2. had \subseteq 0 .. PidCount - 1
      BY <1>6, PidsAssumption
    <2>3. QED
      BY <2>1, <2>2, FS_Subset
  <1> HIDE DEF had, listed
  <1>11. m = Min({Top, Cardinality(had)})
    <2>1. Cardinality(had) \in Nat /\ m <= Cardinality(had)
      <3>1. Cardinality(had) \in Nat
        BY <1>10, FS_CardinalityType
      <3>2. Cardinality(listed) <= Cardinality(had)
        BY <1>6, <1>10, FS_Subset
      <3>3. QED
        BY <1>8, <3>1, <3>2
    <2> DEFINE c == Cardinality(had)
    <2> HIDE DEF m, c
    <2>2. m = IF Top <= c THEN Top ELSE c
      <3>1. CASE had = listed
        <4>1. c = m
          BY <1>8, <3>1 DEF c
        <4>2. QED
          BY <1>2, <4>1
      <3>2. CASE had # listed
        <4>1. m = Top
          BY <1>6, <1>9, <3>2
        <4>2. QED
          BY <1>2, <2>1, <4>1 DEF c
      <3>3. QED
        BY <3>1, <3>2
    <2>3. Min({Top, c}) = IF Top <= c THEN Top ELSE c
      BY <1>2, <2>1, MinOfTwo DEF c
    <2>4. QED
      BY <2>2, <2>3 DEF c, m
  <1>12. \A p \in listed, q \in had \ listed : pid_count[p] >= pid_count[q]
    BY <1>2, <1>9 DEF listed
  <1>13. QED
    <2> DEFINE n(p) == Cardinality({i \in DOMAIN offered : offered[i].pid = p})
    <2>1. \A i, j \in 1 .. m : i < j => n(top[i]) >= n(top[j])
      <3>1. \A i \in 1 .. m : n(top[i]) = pid_count[top[i]]
        BY <1>3, <1>5
      <3> HIDE DEF n
      <3>2. QED
        BY <1>7, <3>1
    <2>2. \A p \in listed, q \in had \ listed : n(p) >= n(q)
      BY <1>3, <1>6, <1>12
    <2> HIDE DEF n
    <2>3. /\ listed \subseteq had
          /\ Len(top) = Min({Top, Cardinality(had)}) /\ Cardinality(listed) = Len(top)
          /\ \A i, j \in DOMAIN top : i < j => n(top[i]) >= n(top[j])
          /\ \A p \in listed, q \in had \ listed : n(p) >= n(q)
      BY <1>2, <1>6, <1>8, <1>11, <2>1, <2>2
    <2>4. QED
      BY <2>3 DEF HottestListed, top, had, listed, n

(* The list of the most frequent PIDs, made by insertion into a short      *)
(* list, is right: PIDs that had fragments, the most frequent first, as    *)
(* many as there is room for, and no other PID had more than any of them   *)
(* (contest.c:89-107), for every set of PIDs, length and stream.           *)
THEOREM HottestAreListed == Spec => []HottestListed
  <1>1. Init => RingIInv /\ CountInv
    BY RingStarts, CountsStart DEF Init, RingInit, RingIInv
  <1>2. RingIInv /\ CountInv /\ [Next]_vars => RingIInv' /\ CountInv'
    <2> SUFFICES ASSUME RingIInv, CountInv, [Next]_vars PROVE RingIInv' /\ CountInv'
      OBVIOUS
    <2>1. QED
      BY RingMoves, RingStep, CountsCleared, CountsKept, CountsCounted DEF RingIInv
  <1>3. CountInv => HottestListed
    BY ListServes
  <1>4. QED
    BY <1>1, <1>2, <1>3, PTL DEF Spec

(***************************************************************************)
(* The file.  It holds the lines that were meant to be written, but for    *)
(* the last one, which may be cut.                                         *)
(***************************************************************************)
Weight == None .. Strong

FileInv ==
    /\ meant \in Seq(Line) /\ file \in Seq(Line)
    /\ Len(file) = Len(meant)
    /\ at = "saving" => file = meant
    /\ \A i \in 1 .. Len(file) : i < Len(file) => file[i] = meant[i]
    /\ \A i \in 1 .. Len(file) : ~file[i].cut =>
          /\ file[i].pid = meant[i].pid /\ file[i].known = meant[i].known
          /\ file[i].null <= meant[i].null

LEMMA FileKept ==
  ASSUME FileInv, UNCHANGED <<file, meant>>, at' = "saving" => at = "saving"
  PROVE  FileInv'
  BY DEF FileInv

(* One more line was meant, and all or some of it written.                 *)
LEMMA FileGrows ==
  ASSUME FileInv, at = "saving",
         NEW full \in Line, NEW line \in Line,
         meant' = Append(meant, full), file' = Append(file, line),
         at' = "saving" => line = full,
         ~line.cut => line.pid = full.pid /\ line.known = full.known /\ line.null <= full.null
  PROVE  FileInv'
  <1> DEFINE n == Len(meant)
  <1>1. meant \in Seq(Line) /\ file = meant /\ n \in Nat
    BY DEF FileInv
  <1>2. /\ meant' \in Seq(Line) /\ Len(meant') = n + 1 /\ meant'[n + 1] = full
        /\ \A i \in 1 .. n : meant'[i] = meant[i]
    BY <1>1
  <1>3. /\ file' \in Seq(Line) /\ Len(file') = n + 1 /\ file'[n + 1] = line
        /\ \A i \in 1 .. n : file'[i] = meant[i]
    BY <1>1
  <1>4. \A i \in 1 .. n : meant[i].null <= meant[i].null
    <2>1. \A i \in 1 .. n : meant[i] \in Line
      BY <1>1
    <2>2. \A l \in Line : l.null <= l.null
      BY DEF Line, None, Strong
    <2>3. QED
      BY <2>1, <2>2
  <1>5. at' = "saving" => file' = meant'
    BY <1>1
  <1>6. \A i \in 1 .. Len(file') : i < Len(file') => file'[i] = meant'[i]
    BY <1>1, <1>2, <1>3
  <1>7. ASSUME NEW i \in 1 .. Len(file'), ~file'[i].cut
        PROVE  /\ file'[i].pid = meant'[i].pid /\ file'[i].known = meant'[i].known
               /\ file'[i].null <= meant'[i].null
    <2>1. CASE i = n + 1
      BY <1>2, <1>3, <1>7, <2>1
    <2>2. CASE i \in 1 .. n
      BY <1>2, <1>3, <1>4, <2>2
    <2>3. QED
      BY <1>1, <1>3, <2>1, <2>2
  <1>8. QED
    BY <1>2, <1>3, <1>5, <1>6, <1>7 DEF FileInv

LEMMA FileStep ==
  ASSUME FileInv, [Next]_vars
  PROVE  FileInv'
  <1>1. ASSUME NEW opens \in BOOLEAN, Start(opens)
        PROVE  FileInv'
    BY <1>1, FileKept DEF Start
  <1>2. ASSUME NEW opens \in BOOLEAN, Save(opens)
        PROVE  FileInv'
    <2>1. CASE UNCHANGED <<file, meant>> /\ at' = "down"
      BY <2>1, FileKept
    <2>2. CASE file' = <<>> /\ meant' = <<>>
      BY <2>2 DEF FileInv
    <2>3. QED
      BY <1>2, <2>1, <2>2 DEF Save
  <1>3. ASSUME NEW packet \in Packets, Hear(packet)
        PROVE  FileInv'
    BY <1>3, FileKept DEF Hear, state
  <1>4. ASSUME Reset
        PROVE  FileInv'
    BY <1>4, FileKept DEF Reset
  <1>5. ASSUME NEW p \in Pids, NEW known \in Weight, NEW null \in Weight,
               WriteLine(p, known, null)
        PROVE  FileInv'
    <2> DEFINE full == [pid |-> p, known |-> known, null |-> null, cut |-> FALSE]
    <2>1. full \in Line /\ full.null <= full.null
      BY DEF Line, Weight, None, Strong
    <2>2. meant' = Append(meant, full) /\ at = "saving" /\ at' = at
      BY <1>5 DEF WriteLine, NextLine
    <2>3. meant'[Len(meant')] = full
      <3>1. meant \in Seq(Line)
        BY DEF FileInv
      <3> HIDE DEF full
      <3>2. QED
        BY <2>1, <2>2, <3>1
    <2>4. file' = Append(file, full)
      BY <1>5, <2>3 DEF WriteLine
    <2> HIDE DEF full
    <2>5. QED
      BY <2>1, <2>2, <2>4, FileGrows
  <1>6. ASSUME NEW p \in Pids, NEW known \in Weight, NEW null \in Weight,
               NEW read \in Weight, CutNumber(p, known, null, read)
        PROVE  FileInv'
    <2> DEFINE full == [pid |-> p, known |-> known, null |-> null, cut |-> FALSE]
               line == [pid |-> p, known |-> known, null |-> read, cut |-> FALSE]
    <2>1. full \in Line /\ line \in Line /\ read <= null
      BY <1>6 DEF Line, Weight, CutNumber
    <2>2. line.pid = full.pid /\ line.known = full.known /\ line.null <= full.null
      BY <2>1
    <2>3. meant' = Append(meant, full) /\ file' = Append(file, line) /\ at = "saving" /\ at' = "down"
      BY <1>6 DEF CutNumber, LastLine, NextLine
    <2> HIDE DEF full, line
    <2>4. QED
      BY <2>1, <2>2, <2>3, FileGrows
  <1>7. ASSUME NEW p \in Pids, NEW known \in Weight, NEW null \in Weight,
               CutLine(p, known, null)
        PROVE  FileInv'
    <2> DEFINE full == [pid |-> p, known |-> known, null |-> null, cut |-> FALSE]
               before == IF meant = <<>> THEN [known |-> None, null |-> None] ELSE meant[Len(meant)]
               line == [pid |-> p, known |-> before.known, null |-> before.null, cut |-> TRUE]
    <2>1. meant = <<>> \/ meant[Len(meant)] \in Line
      BY DEF FileInv
    <2>2. before.known \in Weight /\ before.null \in Weight
      BY <2>1 DEF Line, Weight, None, Strong
    <2>3. meant' = Append(meant, full) /\ file' = Append(file, line) /\ at = "saving" /\ at' = "down"
      BY <1>7 DEF CutLine, LastLine, NextLine
    <2> HIDE DEF before
    <2>4. full \in Line /\ line \in Line /\ line.cut
      BY <2>2 DEF Line, Weight
    <2> HIDE DEF full, line
    <2>5. QED
      BY <2>3, <2>4, FileGrows
  <1>8. ASSUME SaveEnds \/ Crash \/ UNCHANGED vars
        PROVE  FileInv'
    BY <1>8, FileKept DEF SaveEnds, Crash, vars, state
  <1>9. QED
    BY <1>1, <1>2, <1>3, <1>4, <1>5, <1>6, <1>7, <1>8 DEF Next, Weight

LEMMA FileServes ==
  ASSUME FileInv
  PROVE  LoadedWasSaved
  <1> SUFFICES ASSUME NEW p \in Pids, Loaded[p] # NoWeights
               PROVE  \E i \in DOMAIN meant :
                         /\ meant[i].pid = p /\ meant[i].known = Loaded[p].known
                         /\ Loaded[p].null <= meant[i].null
                         /\ i < Len(file) => Loaded[p].null = meant[i].null
    BY DEF LoadedWasSaved
  <1> DEFINE i == CHOOSE j \in LineOf(p) : TRUE
  <1>1. LineOf(p) # {}
    BY DEF Loaded
  <1>2. i \in LineOf(p)
    BY <1>1
  <1>3. Loaded[p] = [known |-> file[i].known, null |-> file[i].null]
    BY <1>1 DEF Loaded
  <1> HIDE DEF i
  <1>4. i \in 1 .. Len(file) /\ i \in Readable /\ file[i].pid = p
    BY <1>2 DEF LineOf, Readable, FileInv
  <1>5. ~file[i].cut
    BY <1>4 DEF Readable
  <1>6. i \in DOMAIN meant
    BY <1>4 DEF FileInv
  <1>7. /\ meant[i].pid = p /\ meant[i].known = Loaded[p].known
        /\ Loaded[p].null <= meant[i].null
        /\ i < Len(file) => Loaded[p].null = meant[i].null
    BY <1>3, <1>4, <1>5 DEF FileInv
  <1>8. QED
    BY <1>6, <1>7

(* A run starts only with weights that were to be saved for the same PID,  *)
(* wherever a crash or a full disk cut the file short (LoadedWasSaved).    *)
THEOREM OnlySavedIsLoaded == Spec => []LoadedWasSaved
  <1>1. Init => FileInv
    BY DEF Init, FileInv
  <1>2. FileInv /\ [Next]_vars => FileInv'
    BY FileStep
  <1>3. FileInv => LoadedWasSaved
    BY FileServes
  <1>4. QED
    BY <1>1, <1>2, <1>3, PTL DEF Spec

(***************************************************************************)
(* What is known.  A PID that was not heard of keeps the weights it was    *)
(* loaded with, and while the file is saved each PID to be saved has a     *)
(* line or is still due.                                                   *)
(***************************************************************************)
HasLine(p) ==
    \E i \in DOMAIN meant :
        /\ meant[i].pid = p
        /\ p \notin counted => meant[i].known = weight[p]["known"] /\ meant[i].null = weight[p]["null"]

LinesApart ==
    /\ \A i, j \in DOMAIN meant : meant[i].pid = meant[j].pid => i = j
    /\ \A i \in DOMAIN meant : meant[i].pid \notin due /\ ~meant[i].cut

KnowledgeInv ==
    /\ FileInv
    /\ weight = [p \in Pids |-> weight[p]]
    /\ at # "down" /\ lasting => \A p \in Pids \ counted : weight[p] = loaded[p]
    /\ at = "saving" => LinesApart /\ \A p \in Saved \ due : HasLine(p)
    /\ KnowledgeLasts

LEMMA KnowledgeUnsaved ==
  ASSUME FileInv', weight' = [p \in Pids |-> weight'[p]], at' = "up",
         lasting' => \A p \in Pids \ counted' : weight'[p] = loaded'[p]
  PROVE  KnowledgeInv'
  BY DEF KnowledgeInv, KnowledgeLasts

LEMMA KnowledgeDropped ==
  ASSUME KnowledgeInv, FileInv', weight' = weight, at' = "down", lasting' = FALSE
  PROVE  KnowledgeInv'
  BY DEF KnowledgeInv, KnowledgeLasts

LEMMA KnowledgeStays ==
  ASSUME KnowledgeInv, UNCHANGED vars
  PROVE  KnowledgeInv'
  <1>1. UNCHANGED <<weight, counted, config, at, file, due, meant, loaded, lasting>>
    BY DEF vars, roleModel, state
  <1>2. FileInv'
    BY <1>1 DEF KnowledgeInv, FileInv
  <1>3. Loaded' = Loaded
    BY <1>1 DEF Loaded, LineOf, Readable
  <1>4. KnowledgeLasts'
    BY <1>1, <1>3 DEF KnowledgeInv, KnowledgeLasts
  <1>5. LinesApart' = LinesApart /\ Saved' = Saved
    BY <1>1 DEF LinesApart, Saved
  <1>6. at' = "saving" => LinesApart' /\ \A p \in Saved' \ due' : HasLine(p)'
    <2>1. ASSUME NEW p \in Saved, HasLine(p) PROVE HasLine(p)'
      BY <1>1, <2>1 DEF HasLine
    <2>2. QED
      BY <1>1, <1>5, <2>1 DEF KnowledgeInv
  <1>7. QED
    BY <1>1, <1>2, <1>4, <1>6 DEF KnowledgeInv

LEMMA KnowledgeHeard ==
  ASSUME KnowledgeInv, NEW packet \in Packets, Hear(packet), FileInv'
  PROVE  KnowledgeInv'
  <1>1. at = "up" /\ at' = "up" /\ UNCHANGED <<loaded, lasting>>
    BY DEF Hear, state
  <1>2. /\ weight = [p \in Pids |-> weight[p]]
        /\ lasting => \A p \in Pids \ counted : weight[p] = loaded[p]
    BY <1>1 DEF KnowledgeInv
  <1>3. CASE config.ml
    <2>1. ObserveRoles(packet)
      BY <1>3 DEF Hear
    <2>2. PICK new : weight' = [weight EXCEPT ![packet.pid] = new]
      BY <2>1 DEF ObserveRoles
    <2>3. counted' = counted \cup {packet.pid}
      BY <2>1 DEF ObserveRoles
    <2>4. weight' = [p \in Pids |-> weight'[p]]
      BY <1>2, <2>2
    <2>5. \A p \in Pids : p # packet.pid => weight'[p] = weight[p]
      BY <1>2, <2>2
    <2>6. lasting' => \A p \in Pids \ counted' : weight'[p] = loaded'[p]
      BY <1>1, <1>2, <2>3, <2>5
    <2>7. QED
      BY <1>1, <2>4, <2>6, KnowledgeUnsaved
  <1>4. CASE ~config.ml
    <2>1. weight' = weight /\ counted' = counted
      BY <1>4 DEF Hear, roleModel
    <2>2. QED
      BY <1>1, <1>2, <2>1, KnowledgeUnsaved
  <1>5. QED
    BY <1>3, <1>4

LEMMA KnowledgeWritten ==
  ASSUME KnowledgeInv, NEW p \in Pids, NEW known \in Weight, NEW null \in Weight,
         WriteLine(p, known, null), FileInv'
  PROVE  KnowledgeInv'
  <1> DEFINE n == Len(meant)
             full == [pid |-> p, known |-> known, null |-> null, cut |-> FALSE]
  <1>1. /\ at = "saving" /\ at' = at /\ p \in due /\ due' = due \ {p}
        /\ meant' = Append(meant, full)
        /\ known \in Rounded(p, "known") /\ null \in Rounded(p, "null")
        /\ UNCHANGED <<weight, counted, loaded, lasting>>
    BY DEF WriteLine, NextLine, roleModel
  <1>2. full.pid = p /\ full.known = known /\ full.null = null /\ ~full.cut
    OBVIOUS
  <1> HIDE DEF full
  <1>3. meant \in Seq(Line) /\ n \in Nat
    BY DEF KnowledgeInv, FileInv
  <1>4. /\ DOMAIN meant = 1 .. n /\ DOMAIN meant' = 1 .. n + 1 /\ meant'[n + 1] = full
        /\ \A i \in 1 .. n : meant'[i] = meant[i]
    BY <1>1, <1>3
  <1>5. LinesApart /\ \A q \in Saved \ due : HasLine(q)
    BY <1>1 DEF KnowledgeInv
  <1>6. LinesApart'
    <2>1. \A i \in 1 .. n : meant[i].pid # p /\ ~meant[i].cut /\ meant[i].pid \notin due
      BY <1>1, <1>4, <1>5 DEF LinesApart
    <2>2. \A i \in 1 .. n + 1 : i \in 1 .. n \/ i = n + 1
      BY <1>3
    <2>3. ASSUME NEW i \in DOMAIN meant', NEW j \in DOMAIN meant', meant'[i].pid = meant'[j].pid
          PROVE  i = j
      BY <1>2, <1>4, <1>5, <2>1, <2>2, <2>3 DEF LinesApart
    <2>4. \A i \in DOMAIN meant' : meant'[i].pid \notin due' /\ ~meant'[i].cut
      BY <1>1, <1>2, <1>4, <2>1, <2>2
    <2>5. QED
      BY <2>3, <2>4 DEF LinesApart
  <1>7. ASSUME NEW q \in Saved', q \notin due'
        PROVE  HasLine(q)'
    <2>1. CASE q = p
      <3>1. p \notin counted => known = weight[p]["known"] /\ null = weight[p]["null"]
        BY <1>1 DEF Rounded
      <3>2. n + 1 \in DOMAIN meant'
        BY <1>3, <1>4
      <3>3. QED
        BY <1>1, <1>2, <1>4, <2>1, <3>1, <3>2 DEF HasLine
    <2>2. CASE q # p
      <3>1. q \in Saved \ due
        BY <1>1, <1>7, <2>2 DEF Saved
      <3>2. PICK i \in DOMAIN meant :
               /\ meant[i].pid = q
               /\ q \notin counted => meant[i].known = weight[q]["known"] /\ meant[i].null = weight[q]["null"]
        BY <1>5, <3>1 DEF HasLine
      <3>3. i \in DOMAIN meant' /\ meant'[i] = meant[i]
        BY <1>3, <1>4
      <3>4. QED
        BY <1>1, <3>2, <3>3 DEF HasLine
    <2>3. QED
      BY <2>1, <2>2
  <1>8. QED
    BY <1>1, <1>6, <1>7 DEF KnowledgeInv, KnowledgeLasts

(* The file is complete, and what was known is in it.                      *)
LEMMA KnowledgeSaved ==
  ASSUME KnowledgeInv, SaveEnds, FileInv'
  PROVE  KnowledgeInv'
  <1>1. /\ at = "saving" /\ due = {} /\ at' = "down"
        /\ UNCHANGED <<config, weight, counted, file, meant, loaded, lasting>>
    BY DEF SaveEnds, roleModel, state
  <1>2. file = meant /\ LinesApart /\ \A p \in Saved : HasLine(p)
    BY <1>1 DEF KnowledgeInv, FileInv
  <1>3. Readable = DOMAIN meant
    <2>1. meant \in Seq(Line)
      BY DEF KnowledgeInv, FileInv
    <2>2. DOMAIN meant = 1 .. Len(meant) /\ Len(meant) \in Nat
      BY <2>1
    <2>3. \A i \in DOMAIN meant : \A j \in 1 .. i : j \in DOMAIN meant
      BY <2>2
    <2>4. QED
      BY <1>2, <2>3 DEF Readable, LinesApart
  <1>4. ASSUME lasting, NEW p \in Pids, loaded[p].known = Strong, p \notin counted
        PROVE  Loaded[p].known = Strong /\ Loaded[p].null = loaded[p].null
    <2>1. weight[p] = loaded[p]
      BY <1>1, <1>4 DEF KnowledgeInv
    <2>2. p \in Saved
      BY <1>4, <2>1 DEF Saved
    <2>3. PICK i \in DOMAIN meant :
             meant[i].pid = p /\ meant[i].known = weight[p]["known"] /\ meant[i].null = weight[p]["null"]
      BY <1>2, <1>4, <2>2 DEF HasLine
    <2>4. LineOf(p) = {i}
      BY <1>2, <1>3, <2>3 DEF LineOf, LinesApart
    <2>5. (CHOOSE j \in LineOf(p) : TRUE) = i
      BY <2>4
    <2>6. Loaded[p] = [known |-> meant[i].known, null |-> meant[i].null]
      BY <1>2, <2>4, <2>5 DEF Loaded
    <2>7. QED
      BY <1>4, <2>1, <2>3, <2>6
  <1>5. KnowledgeLasts'
    <2>1. Loaded' = Loaded
      BY <1>1 DEF Loaded, LineOf, Readable
    <2>2. QED
      BY <1>1, <1>4, <2>1 DEF KnowledgeLasts
  <1>6. QED
    BY <1>1, <1>5 DEF KnowledgeInv

LEMMA KnowledgeStep ==
  ASSUME KnowledgeInv, [Next]_vars
  PROVE  KnowledgeInv'
  <1>0. FileInv'
    BY FileStep DEF KnowledgeInv
  <1>1. ASSUME NEW opens \in BOOLEAN, Start(opens)
        PROVE  KnowledgeInv'
    <2>1. at' = "up" /\ weight' = loaded' /\ (weight' = Loaded \/ weight' = NoneKnown)
      BY <1>1 DEF Start, RoleReset
    <2>2. weight' = [p \in Pids |-> weight'[p]]
      BY <2>1 DEF Loaded, NoneKnown
    <2>3. QED
      BY <1>0, <2>1, <2>2, KnowledgeUnsaved
  <1>2. ASSUME NEW opens \in BOOLEAN, Save(opens)
        PROVE  KnowledgeInv'
    <2>1. CASE at' = "down" /\ lasting' = FALSE
      BY <1>0, <1>2, <2>1, KnowledgeDropped DEF Save, roleModel
    <2>2. CASE at' = "saving" /\ meant' = <<>> /\ due' = Saved /\ UNCHANGED lasting
      <3>1. at = "up" /\ UNCHANGED <<weight, counted, loaded>>
        BY <1>2 DEF Save, roleModel
      <3>2. Saved' = Saved /\ DOMAIN meant' = {}
        BY <2>2, <3>1 DEF Saved
      <3>3. LinesApart' /\ \A p \in Saved' \ due' : HasLine(p)'
        BY <2>2, <3>2 DEF LinesApart
      <3>4. QED
        BY <1>0, <2>2, <3>1, <3>3 DEF KnowledgeInv, KnowledgeLasts
    <2>3. QED
      BY <1>2, <2>1, <2>2 DEF Save
  <1>3. ASSUME NEW packet \in Packets, Hear(packet)
        PROVE  KnowledgeInv'
    BY <1>0, <1>3, KnowledgeHeard
  <1>4. ASSUME Reset
        PROVE  KnowledgeInv'
    <2>1. at' = "up" /\ lasting' = FALSE /\ weight' = [p \in Pids |-> weight'[p]]
      BY <1>4 DEF Reset, RoleReset, NoneKnown
    <2>2. QED
      BY <1>0, <2>1, KnowledgeUnsaved
  <1>5. ASSUME NEW p \in Pids, NEW known \in Weight, NEW null \in Weight,
               WriteLine(p, known, null)
        PROVE  KnowledgeInv'
    BY <1>0, <1>5, KnowledgeWritten
  <1>6. ASSUME NEW p \in Pids, NEW known \in Weight, NEW null \in Weight,
               \/ CutLine(p, known, null)
               \/ \E read \in Weight : CutNumber(p, known, null, read)
        PROVE  KnowledgeInv'
    BY <1>0, <1>6, KnowledgeDropped DEF CutLine, CutNumber, LastLine, roleModel
  <1>7. ASSUME Crash
        PROVE  KnowledgeInv'
    BY <1>0, <1>7, KnowledgeDropped DEF Crash, roleModel
  <1>8. ASSUME SaveEnds
        PROVE  KnowledgeInv'
    BY <1>0, <1>8, KnowledgeSaved
  <1>9. ASSUME UNCHANGED vars
        PROVE  KnowledgeInv'
    BY <1>9, KnowledgeStays
  <1>10. QED
    BY <1>1, <1>2, <1>3, <1>4, <1>5, <1>6, <1>7, <1>8, <1>9 DEF Next, Weight

(* What is known of a PID for certain outlasts a run that does not hear of *)
(* it and ends as it should (KnowledgeLasts).                              *)
THEOREM KnowledgeIsLasting == Spec => []KnowledgeLasts
  <1>1. Init => KnowledgeInv
    <2>1. Init => FileInv
      BY DEF Init, FileInv
    <2>2. QED
      BY <2>1 DEF Init, RoleInit, NoneKnown, KnowledgeInv, KnowledgeLasts
  <1>2. KnowledgeInv /\ [Next]_vars => KnowledgeInv'
    BY KnowledgeStep
  <1>3. KnowledgeInv => KnowledgeLasts
    BY DEF KnowledgeInv
  <1>4. QED
    BY <1>1, <1>2, <1>3, PTL DEF Spec
=============================================================================
