--------------------------- MODULE UdpInput_proofs ---------------------------
(***************************************************************************)
(* The framer and its callers.  However a stream is cut into chunks, the   *)
(* framer finds in it what a framer finds that takes byte by byte, and     *)
(* loses no byte it does not account for.  Whatever datagrams arrive and   *)
(* whenever the R key is pressed, the engine is fed what was received; and *)
(* if the sender puts whole packets into its datagrams, every packet that  *)
(* arrives gets through.                                                   *)
(***************************************************************************)
EXTENDS UdpInput, SequenceTheorems, WellFoundedInduction, TLAPS

(* Induction over the natural numbers, for a set instead of a predicate.   *)
LEMMA NatSetInduction ==
  ASSUME NEW S, 0 \in S, \A n \in Nat : n \in S => n + 1 \in S
  PROVE  Nat \subseteq S
  <1> DEFINE R == {ss \in Nat \X Nat : ss[1] < ss[2]}
             T == Nat \ S
  <1>1. SUFFICES ASSUME T # {} PROVE FALSE
    OBVIOUS
  <1>2. IsWellFoundedOn(R, Nat)
    BY NatLessThanWellFounded DEF OpToRel
  <1>3. \E x \in T : \A y \in T : ~(<<y, x>> \in R)
    BY <1>1, <1>2, WFMin, Zenon
  <1>4. PICK x \in T : \A y \in T : ~(<<y, x>> \in R)
    BY <1>3
  <1>5. x \in Nat /\ x # 0 /\ x - 1 \in Nat /\ (x - 1) + 1 = x
    OBVIOUS
  <1>6. x - 1 \in S
    <2>1. x - 1 \in T => ~(<<x - 1, x>> \in R)
      BY <1>4
    <2>2. <<x - 1, x>> \in R
      BY <1>5
    <2>3. QED
      BY <1>5, <2>1, <2>2
  <1>7. QED
    BY <1>5, <1>6

LEMMA MaxIs == ASSUME NEW n \in Nat, NEW s \in SUBSET (1 .. n), n \in s PROVE Max(s) = n
  <1>1. \A y \in s : n >= y
    OBVIOUS
  <1>2. \A x \in s : (\A y \in s : x >= y) => x = n
    OBVIOUS
  <1>3. QED
    BY <1>1, <1>2 DEF Max


(* The reference takes a chunk byte by byte: the fold over the positions   *)
(* of the chunk is the last state of a run through it.                     *)
ChunkStep(r, s, it, n) ==
    it = [p \in SUBSET (1 .. n) |->
            IF p = {} THEN r ELSE RefByte(it[p \ {Max(p)}], s[Max(p)])]

LEMMA ChunkFunction ==
  ASSUME NEW r, NEW s PROVE \A n \in Nat : \E it : ChunkStep(r, s, it, n)
  <1> DEFINE S == {n \in Nat : \E it : ChunkStep(r, s, it, n)}
  <1>1. 0 \in S
    <2> DEFINE it == [p \in SUBSET (1 .. 0) |-> r]
    <2>1. ChunkStep(r, s, it, 0)
      BY DEF ChunkStep
    <2>2. QED
      BY <2>1
  <1>2. ASSUME NEW n \in Nat, n \in S PROVE n + 1 \in S
    <2>1. PICK it : ChunkStep(r, s, it, n)
      BY <1>2
    <2> DEFINE m == n + 1
               new == [p \in SUBSET (1 .. m) |->
                         IF m \in p THEN RefByte(it[p \ {m}], s[m]) ELSE it[p]]
    <2>2. ASSUME NEW p \in SUBSET (1 .. m)
          PROVE  new[p] = IF p = {} THEN r ELSE RefByte(new[p \ {Max(p)}], s[Max(p)])
      <3>1. CASE m \in p
        <4>1. Max(p) = m
          BY <3>1, MaxIs
        <4>2. p \ {m} \in SUBSET (1 .. m) /\ m \notin p \ {m}
          OBVIOUS
        <4>3. new[p \ {m}] = it[p \ {m}]
          BY <4>2
        <4>4. QED
          BY <3>1, <4>1, <4>3
      <3>2. CASE m \notin p
        <4>1. p \in SUBSET (1 .. n)
          BY <3>2
        <4>2. new[p] = it[p]
          BY <3>2
        <4>3. it[p] = IF p = {} THEN r ELSE RefByte(it[p \ {Max(p)}], s[Max(p)])
          BY <2>1, <4>1 DEF ChunkStep
        <4>4. new[p \ {Max(p)}] = it[p \ {Max(p)}]
          BY <3>2
        <4>5. QED
          BY <4>2, <4>3, <4>4
      <3>3. QED
        BY <3>1, <3>2
    <2>3. ChunkStep(r, s, new, m)
      <3>1. new = [p \in SUBSET (1 .. m) |-> new[p]]
        OBVIOUS
      <3> HIDE DEF new
      <3>2. QED
        BY <2>2, <3>1, Zenon DEF ChunkStep
    <2>4. QED
      BY <2>3
  <1>3. Nat \subseteq S
    BY <1>1, <1>2, NatSetInduction
  <1>4. QED
    BY <1>3

(* The states of the reference on its way through a chunk.                 *)
Runs(g, r, s) ==
    /\ g = [k \in 0 .. Len(s) |-> g[k]] /\ g[0] = r
    /\ \A k \in 1 .. Len(s) : g[k] = RefByte(g[k - 1], s[k])

LEMMA ChunkRuns ==
  ASSUME NEW r, NEW C, NEW s \in Seq(C)
  PROVE  \E g : Runs(g, r, s) /\ RefChunk(r, s) = g[Len(s)]
  <1> DEFINE n == Len(s)  it == CHOOSE it : ChunkStep(r, s, it, n)
             g == [k \in 0 .. n |-> it[1 .. k]]
  <1>0. n \in Nat /\ DOMAIN s = 1 .. n
    OBVIOUS
  <1>1. ChunkStep(r, s, it, n)
    BY <1>0, ChunkFunction
  <1>2. RefChunk(r, s) = it[1 .. n]
    BY <1>0 DEF RefChunk, FoldLeft, MapThenFoldSet, ChunkStep
  <1> HIDE DEF it
  <1>3. ASSUME NEW k \in 1 .. n PROVE it[1 .. k] = RefByte(it[1 .. k - 1], s[k])
    <2>0. k \in Nat /\ 1 <= k /\ k <= n
      BY <1>0
    <2>1. k \in 1 .. k /\ 1 .. k # {} /\ 1 .. k \in SUBSET (1 .. n) /\ k \in Nat
      <3> HIDE DEF n, g
      <3>1. 1 .. k \subseteq 1 .. n
        BY ONLY <1>0, <2>0
      <3>2. k \in 1 .. k
        BY ONLY <2>0
      <3>3. QED
        BY ONLY <2>0, <3>1, <3>2
    <2>2. Max(1 .. k) = k
      BY <2>1, MaxIs
    <2>3. (1 .. k) \ {k} = 1 .. k - 1
      BY <2>1
    <2>4. it[1 .. k] = RefByte(it[(1 .. k) \ {Max(1 .. k)}], s[Max(1 .. k)])
      BY <1>1, <2>1 DEF ChunkStep
    <2>5. QED
      BY <2>2, <2>3, <2>4
  <1>4. it[1 .. 0] = r
    <2>1. 1 .. 0 = {} /\ {} \in SUBSET (1 .. n)
      OBVIOUS
    <2>2. QED
      BY <1>1, <2>1 DEF ChunkStep
  <1>5. Runs(g, r, s)
    <2>1. g = [k \in 0 .. n |-> g[k]] /\ g[0] = r
      BY <1>0, <1>4
    <2>2. ASSUME NEW k \in 1 .. n PROVE g[k] = RefByte(g[k - 1], s[k])
      <3>1. k \in 0 .. n /\ k - 1 \in 0 .. n
        BY <1>0
      <3>2. g[k] = it[1 .. k] /\ g[k - 1] = it[1 .. k - 1]
        BY <3>1
      <3>3. QED
        BY <1>3, <3>2
    <2> HIDE DEF g
    <2>3. QED
      BY <2>1, <2>2 DEF Runs
  <1>6. RefChunk(r, s) = g[n]
    BY <1>0, <1>2
  <1>7. QED
    BY <1>5, <1>6

(* There is one such run.                                                  *)
LEMMA ChunkIs ==
  ASSUME NEW r, NEW C, NEW s \in Seq(C), NEW g, Runs(g, r, s)
  PROVE  RefChunk(r, s) = g[Len(s)]
  <1>1. PICK h : Runs(h, r, s) /\ RefChunk(r, s) = h[Len(s)]
    BY ChunkRuns
  <1> DEFINE S == {k \in Nat : k <= Len(s) => h[k] = g[k]}
  <1>2. 0 \in S
    BY <1>1 DEF Runs
  <1>3. ASSUME NEW k \in Nat, k \in S PROVE k + 1 \in S
    <2> SUFFICES ASSUME k + 1 <= Len(s) PROVE h[k + 1] = g[k + 1]
      OBVIOUS
    <2>1. k + 1 \in 1 .. Len(s) /\ (k + 1) - 1 = k /\ k <= Len(s)
      OBVIOUS
    <2>2. h[k + 1] = RefByte(h[k], s[k + 1])
      BY <1>1, <2>1 DEF Runs
    <2>3. g[k + 1] = RefByte(g[k], s[k + 1])
      BY <2>1 DEF Runs
    <2>4. QED
      BY <1>3, <2>1, <2>2, <2>3
  <1>4. Nat \subseteq S
    BY <1>2, <1>3, NatSetInduction
  <1>5. Len(s) \in Nat /\ Len(s) <= Len(s)
    OBVIOUS
  <1>6. QED
    BY <1>1, <1>4, <1>5

LEMMA ChunkNone == ASSUME NEW r PROVE RefChunk(r, <<>>) = r
  <1> DEFINE s == <<>>  g == [k \in 0 .. 0 |-> r]
  <1>1. s \in Seq({}) /\ Len(s) = 0
    OBVIOUS
  <1>2. Runs(g, r, s)
    BY <1>1 DEF Runs
  <1> HIDE DEF s
  <1>3. RefChunk(r, s) = g[Len(s)]
    BY <1>1, <1>2, ChunkIs
  <1>4. QED
    BY <1>1, <1>3 DEF s

(* A run that has got as far as k goes on from there.                      *)
LEMMA ChunkRest ==
  ASSUME NEW r, NEW C, NEW s \in Seq(C), NEW g, Runs(g, r, s),
         NEW k \in 0 .. Len(s), NEW D, NEW t \in Seq(D), Len(t) = Len(s) - k,
         \A i \in 1 .. Len(s) - k : t[i] = s[k + i]
  PROVE  RefChunk(g[k], t) = g[Len(s)]
  <1> DEFINE m == Len(s) - k  h == [i \in 0 .. m |-> g[k + i]]
  <1>0. m \in Nat /\ Len(s) \in Nat /\ k \in Nat /\ k + m = Len(s) /\ Len(t) = m
    OBVIOUS
  <1>1. Runs(h, g[k], t)
    <2>1. h[0] = g[k]
      BY <1>0
    <2>2. ASSUME NEW i \in 1 .. m PROVE h[i] = RefByte(h[i - 1], t[i])
      <3>1. /\ i \in 0 .. m /\ i - 1 \in 0 .. m /\ k + i \in 1 .. Len(s)
            /\ k + (i - 1) = (k + i) - 1
        BY <1>0
      <3>2. h[i] = g[k + i] /\ h[i - 1] = g[(k + i) - 1]
        BY <3>1
      <3>3. g[k + i] = RefByte(g[(k + i) - 1], s[k + i])
        BY <3>1 DEF Runs
      <3>4. QED
        BY <3>2, <3>3
    <2>3. h = [i \in 0 .. Len(t) |-> h[i]]
      BY <1>0
    <2> HIDE DEF h, m
    <2>4. QED
      BY <1>0, <2>1, <2>2, <2>3 DEF Runs
  <1>2. RefChunk(g[k], t) = h[m]
    <2> HIDE DEF h, m
    <2>1. QED
      BY <1>0, <1>1, ChunkIs
  <1>3. h[m] = g[Len(s)]
    BY <1>0
  <1>4. QED
    BY <1>2, <1>3
-----------------------------------------------------------------------------
(* The states of the reference, and what a byte does to one.               *)
State(partial, packets, skipped, syncs, seeking) ==
    [partial |-> partial, packets |-> packets, skipped |-> skipped,
     resyncs |-> syncs, skipping |-> seeking]
InSync(partial, packets, skipped, syncs) ==
    [partial |-> partial, packets |-> packets, skipped |-> skipped,
     resyncs |-> syncs, skipping |-> FALSE]
Seeking(packets, skipped, syncs) ==
    [partial |-> <<>>, packets |-> packets, skipped |-> skipped,
     resyncs |-> syncs, skipping |-> TRUE]

RefState == [partial : Seq(Byte), packets : Seq(Seq(Byte)), skipped : Nat,
             resyncs : Nat, skipping : BOOLEAN]

LEMMA ByteSkipped ==
  ASSUME NEW pk, NEW d, NEW y, NEW k, NEW b, b # Sync
  PROVE  RefByte(State(<<>>, pk, d, y, k), b) = Seeking(pk, d + 1, IF k THEN y ELSE y + 1)
  BY DEF RefByte, State, Seeking

LEMMA ByteAdded ==
  ASSUME NEW p, NEW pk, NEW d, NEW y, NEW k, NEW b, p # <<>> \/ b = Sync,
         Len(p) + 1 # PacketSize
  PROVE  RefByte(State(p, pk, d, y, k), b) = InSync(Append(p, b), pk, d, y)
  BY DEF RefByte, State, InSync

LEMMA ByteCompletes ==
  ASSUME NEW p, NEW pk, NEW d, NEW y, NEW k, NEW b, p # <<>> \/ b = Sync,
         Len(p) + 1 = PacketSize
  PROVE  RefByte(State(p, pk, d, y, k), b) = InSync(<<>>, Append(pk, Append(p, b)), d, y)
  BY DEF RefByte, State, InSync

(* The packets of a state are those of a later one, and perhaps more.      *)
LEMMA BeginsIsPrefix ==
  ASSUME NEW C, NEW s \in Seq(C), NEW t \in Seq(C)
  PROVE  IsPrefix(s, t) <=> Len(s) <= Len(t) /\ \A i \in 1 .. Len(s) : s[i] = t[i]
  <1> DEFINE a == SubSeq(s, 1, Len(s))  b == SubSeq(t, 1, Len(s))
  <1>0. Len(s) \in Nat /\ Len(t) \in Nat
    OBVIOUS
  <1>1. a = s
    BY SubSeqFull
  <1>2. ASSUME Len(s) <= Len(t)
        PROVE  b \in Seq(C) /\ Len(b) = Len(s) /\ \A i \in 1 .. Len(s) : b[i] = t[i]
    BY <1>0, <1>2, SubSeqProperties
  <1>3. ASSUME Len(s) <= Len(t), \A i \in 1 .. Len(s) : s[i] = t[i] PROVE a = b
    <2>1. b \in Seq(C) /\ Len(b) = Len(s) /\ \A i \in 1 .. Len(s) : b[i] = s[i]
      BY <1>2, <1>3
    <2> HIDE DEF b
    <2>2. b = s
      BY <2>1, SeqEqual
    <2>3. QED
      BY <1>1, <2>2
  <1>4. ASSUME Len(s) <= Len(t), a = b PROVE \A i \in 1 .. Len(s) : s[i] = t[i]
    <2>1. \A i \in 1 .. Len(s) : b[i] = t[i]
      BY <1>2, <1>4
    <2> HIDE DEF a, b
    <2>2. QED
      BY <1>1, <1>4, <2>1
  <1> HIDE DEF a, b
  <1>5. IsPrefix(s, t) <=> Len(s) <= Len(t) /\ a = b
    BY DEF IsPrefix, a, b
  <1>6. QED
    BY <1>3, <1>4, <1>5

LEMMA PrefixGrows ==
  ASSUME NEW C, NEW s \in Seq(C), NEW t \in Seq(C), IsPrefix(s, t), NEW c \in C
  PROVE  IsPrefix(s, Append(t, c))
  <1> DEFINE u == Append(t, c)
  <1>1. /\ u \in Seq(C) /\ Len(u) = Len(t) + 1 /\ Len(s) \in Nat /\ Len(t) \in Nat
        /\ \A i \in 1 .. Len(t) : u[i] = t[i]
    BY AppendProperties
  <1>2. Len(s) <= Len(t) /\ \A i \in 1 .. Len(s) : s[i] = t[i]
    BY BeginsIsPrefix
  <1> HIDE DEF u
  <1>3. Len(s) <= Len(u) /\ \A i \in 1 .. Len(s) : s[i] = u[i]
    BY <1>1, <1>2
  <1>4. IsPrefix(s, u)
    BY <1>1, <1>3, BeginsIsPrefix
  <1>5. QED
    BY <1>4 DEF u

LEMMA PrefixSelf == ASSUME NEW C, NEW s \in Seq(C) PROVE IsPrefix(s, s)
  BY BeginsIsPrefix

LEMMA StateTyped ==
  ASSUME NEW p \in Seq(Byte), NEW pk \in Seq(Seq(Byte)), NEW d \in Nat, NEW y \in Nat
  PROVE  /\ InSync(p, pk, d, y) \in RefState /\ InSync(p, pk, d, y).packets = pk
         /\ Seeking(pk, d, y) \in RefState /\ Seeking(pk, d, y).packets = pk
         /\ \A k : State(p, pk, d, y, k).packets = pk
         /\ \A k \in BOOLEAN : State(p, pk, d, y, k) \in RefState
  <1>1. <<>> \in Seq(Byte)
    OBVIOUS
  <1>2. QED
    BY <1>1, Zenon DEF InSync, Seeking, State, RefState

LEMMA InSyncTyped ==
  ASSUME NEW p \in Seq(Byte), NEW pk \in Seq(Seq(Byte)), NEW d \in Nat, NEW y \in Nat
  PROVE  InSync(p, pk, d, y) \in RefState /\ InSync(p, pk, d, y).packets = pk
  BY Zenon DEF InSync, RefState

LEMMA StateIs ==
  ASSUME NEW r \in RefState
  PROVE  \E p \in Seq(Byte), pk \in Seq(Seq(Byte)), d \in Nat, y \in Nat, k \in BOOLEAN :
            r = State(p, pk, d, y, k)
  BY Zenon DEF State, RefState

(* A byte adds at most a packet.                                           *)
ByteAdds(r, b) ==
    /\ RefByte(r, b) \in RefState
    /\ \/ RefByte(r, b).packets = r.packets
       \/ \E p \in Seq(Byte) : RefByte(r, b).packets = Append(r.packets, p)

LEMMA ByteKeepsState ==
  ASSUME NEW p \in Seq(Byte), NEW pk \in Seq(Seq(Byte)), NEW d \in Nat, NEW y \in Nat,
         NEW k, NEW b \in Byte
  PROVE  ByteAdds(State(p, pk, d, y, k), b)
  <1> DEFINE r == State(p, pk, d, y, k)
  <1>2. Append(p, b) \in Seq(Byte) /\ <<>> \in Seq(Byte)
    BY AppendProperties
  <1>3. Append(pk, Append(p, b)) \in Seq(Seq(Byte))
    BY <1>2, AppendProperties
  <1>a. r.packets = pk
    BY StateTyped
  <1>4. CASE p = <<>> /\ b # Sync
    <2> DEFINE z == IF k THEN y ELSE y + 1
               q == Seeking(pk, d + 1, z)
    <2>1. RefByte(r, b) = q
      BY <1>4, ByteSkipped
    <2>2. z \in Nat /\ d + 1 \in Nat
      OBVIOUS
    <2>3. q \in RefState /\ q.packets = pk
      <3> HIDE DEF z
      <3>1. QED
        BY <1>2, <2>2, StateTyped
    <2> HIDE DEF q, r
    <2>4. QED
      BY <1>a, <2>1, <2>3 DEF ByteAdds, r
  <1>5. CASE ~(p = <<>> /\ b # Sync) /\ Len(p) + 1 # PacketSize
    <2> DEFINE q == InSync(Append(p, b), pk, d, y)
    <2>1. RefByte(r, b) = q
      BY <1>5, ByteAdded
    <2>2. q \in RefState /\ q.packets = pk
      <3> DEFINE p2 == Append(p, b)
      <3>1. p2 \in Seq(Byte) /\ q = InSync(p2, pk, d, y)
        BY <1>2
      <3> HIDE DEF p2, q
      <3>2. InSync(p2, pk, d, y) \in RefState /\ InSync(p2, pk, d, y).packets = pk
        BY <3>1, InSyncTyped
      <3>3. QED
        BY <3>1, <3>2
    <2> HIDE DEF q, r
    <2>3. QED
      BY <1>a, <2>1, <2>2 DEF ByteAdds, r
  <1>6. CASE ~(p = <<>> /\ b # Sync) /\ Len(p) + 1 = PacketSize
    <2> DEFINE q == InSync(<<>>, Append(pk, Append(p, b)), d, y)
    <2>1. RefByte(r, b) = q
      BY <1>6, ByteCompletes
    <2>2. q \in RefState /\ q.packets = Append(pk, Append(p, b))
      <3> DEFINE p2 == <<>>  pk2 == Append(pk, Append(p, b))
      <3>1. p2 \in Seq(Byte) /\ pk2 \in Seq(Seq(Byte)) /\ q = InSync(p2, pk2, d, y)
        BY <1>2, <1>3
      <3> HIDE DEF p2, pk2, q
      <3>2. InSync(p2, pk2, d, y) \in RefState /\ InSync(p2, pk2, d, y).packets = pk2
        BY <3>1, InSyncTyped
      <3>3. QED
        BY <3>1, <3>2 DEF pk2
    <2> HIDE DEF q, r
    <2>3. QED
      BY <1>2, <1>a, <2>1, <2>2 DEF ByteAdds, r
  <1>7. QED
    BY <1>4, <1>5, <1>6

LEMMA ByteKeepsType ==
  ASSUME NEW r \in RefState, NEW b \in Byte PROVE ByteAdds(r, b)
  BY StateIs, ByteKeepsState

LEMMA ChunkExtends ==
  ASSUME NEW r \in RefState, NEW s \in Seq(Byte)
  PROVE  RefChunk(r, s) \in RefState /\ IsPrefix(r.packets, RefChunk(r, s).packets)
  <1>1. PICK g : Runs(g, r, s) /\ RefChunk(r, s) = g[Len(s)]
    BY ChunkRuns
  <1> DEFINE S == {k \in Nat : k <= Len(s) =>
                      g[k] \in RefState /\ IsPrefix(r.packets, g[k].packets)}
  <1>2. 0 \in S
    <2>1. r.packets \in Seq(Seq(Byte)) /\ g[0] = r
      BY <1>1 DEF RefState, Runs
    <2>2. QED
      BY <2>1, PrefixSelf
  <1>3. ASSUME NEW k \in Nat, k \in S PROVE k + 1 \in S
    <2> SUFFICES ASSUME k + 1 <= Len(s)
                 PROVE  g[k + 1] \in RefState /\ IsPrefix(r.packets, g[k + 1].packets)
      OBVIOUS
    <2>1. k + 1 \in 1 .. Len(s) /\ (k + 1) - 1 = k /\ k <= Len(s) /\ s[k + 1] \in Byte
      OBVIOUS
    <2>2. g[k + 1] = RefByte(g[k], s[k + 1])
      BY <1>1, <2>1 DEF Runs
    <2>3. g[k] \in RefState /\ IsPrefix(r.packets, g[k].packets)
      BY <1>3, <2>1
    <2>4. /\ g[k + 1] \in RefState
          /\ \/ g[k + 1].packets = g[k].packets
             \/ \E p \in Seq(Byte) : g[k + 1].packets = Append(g[k].packets, p)
      BY <2>1, <2>2, <2>3, ByteKeepsType DEF ByteAdds
    <2>5. r.packets \in Seq(Seq(Byte)) /\ g[k].packets \in Seq(Seq(Byte))
      BY <2>3 DEF RefState
    <2>6. IsPrefix(r.packets, g[k + 1].packets)
      BY <2>3, <2>4, <2>5, PrefixGrows
    <2>7. QED
      BY <2>4, <2>6
  <1>4. Nat \subseteq S
    BY <1>2, <1>3, NatSetInduction
  <1>5. Len(s) \in Nat /\ Len(s) <= Len(s)
    OBVIOUS
  <1>6. QED
    BY <1>1, <1>4, <1>5
-----------------------------------------------------------------------------
(* A block copy moves CopySize bytes from the chunk to the packet, at most *)
(* as many as the packet still needs.                                      *)
LEMMA CopyMovesBytes ==
  ASSUME TypeOK, input # <<>>
  PROVE  /\ CopySize \in Nat /\ CopySize > 0 /\ CopySize <= Len(input)
         /\ Copied \in Seq(Byte) /\ Rest \in Seq(Byte)
         /\ Len(Copied) = Len(pending) + CopySize
         /\ Len(Rest) = Len(input) - CopySize
         /\ Len(Copied) <= PacketSize
  <1>1. /\ pending \in Seq(Byte) /\ Len(pending) \in Nat /\ Len(pending) < PacketSize
        /\ input \in Seq(Byte) /\ Len(input) \in Nat /\ Len(input) # 0
        /\ PacketSize \in Nat
    BY EmptySeq, PacketSizeAssumption DEF TypeOK
  <1>2. CopySize \in Nat /\ CopySize > 0 /\ CopySize <= Len(input)
        /\ Len(pending) + CopySize <= PacketSize
    BY <1>1 DEF CopySize, LeastOf
  <1> DEFINE block == SubSeq(input, 1, CopySize)
  <1>3. block \in Seq(Byte) /\ Len(block) = CopySize
    BY <1>1, <1>2, SubSeqProperties
  <1>4. Rest \in Seq(Byte) /\ Len(Rest) = Len(input) - CopySize
    <2>1. CASE CopySize = Len(input)
      BY <1>1, <2>1 DEF Rest
    <2>2. CASE CopySize # Len(input)
      BY <1>1, <1>2, <2>2, SubSeqProperties DEF Rest
    <2>3. QED
      BY <2>1, <2>2
  <1>5. Copied \in Seq(Byte) /\ Len(Copied) = Len(pending) + CopySize
    BY <1>1, <1>3, ConcatProperties DEF Copied
  <1>6. QED
    BY <1>2, <1>4, <1>5


(* The engine seen as a state of the reference.                            *)
Engine == State(pending, handed, bytesDropped, resyncs, skipping)

(* What the engine is after the bytes of a block, all of one packet.       *)
After(p) == IF Len(p) = PacketSize
            THEN InSync(<<>>, Append(handed, p), bytesDropped, resyncs)
            ELSE InSync(p, handed, bytesDropped, resyncs)

LEMMA AfterFirst ==
  ASSUME NEW b, pending # <<>> \/ b = Sync, pending \in Seq(Byte), b \in Byte
  PROVE  RefByte(Engine, b) = After(Append(pending, b))
  <1> DEFINE p == Append(pending, b)
  <1>1. Len(p) = Len(pending) + 1
    BY AppendProperties
  <1>2. CASE Len(pending) + 1 = PacketSize
    <2>1. RefByte(Engine, b) = InSync(<<>>, Append(handed, p), bytesDropped, resyncs)
      BY <1>2, ByteCompletes DEF Engine
    <2> HIDE DEF p
    <2>2. QED
      BY <1>1, <1>2, <2>1 DEF After, p
  <1>3. CASE Len(pending) + 1 # PacketSize
    <2>1. RefByte(Engine, b) = InSync(p, handed, bytesDropped, resyncs)
      BY <1>3, ByteAdded DEF Engine
    <2> HIDE DEF p
    <2>2. QED
      BY <1>1, <1>3, <2>1 DEF After, p
  <1>4. QED
    BY <1>2, <1>3

LEMMA AfterNext ==
  ASSUME NEW p \in Seq(Byte), NEW b \in Byte, p # <<>>, Len(p) # PacketSize
  PROVE  RefByte(After(p), b) = After(Append(p, b))
  <1> DEFINE q == Append(p, b)
  <1>1. Len(q) = Len(p) + 1
    BY AppendProperties
  <1>2. After(p) = InSync(p, handed, bytesDropped, resyncs)
    BY DEF After
  <1>3. CASE Len(p) + 1 = PacketSize
    <2>1. RefByte(InSync(p, handed, bytesDropped, resyncs), b)
             = InSync(<<>>, Append(handed, q), bytesDropped, resyncs)
      BY <1>3 DEF RefByte, InSync
    <2> HIDE DEF q
    <2>2. QED
      BY <1>1, <1>2, <1>3, <2>1 DEF After, q
  <1>4. CASE Len(p) + 1 # PacketSize
    <2>1. RefByte(InSync(p, handed, bytesDropped, resyncs), b)
             = InSync(q, handed, bytesDropped, resyncs)
      BY <1>4 DEF RefByte, InSync
    <2> HIDE DEF q
    <2>2. QED
      BY <1>1, <1>2, <1>4, <2>1 DEF After, q
  <1>5. QED
    BY <1>3, <1>4

(* A block is one byte longer than the block before it.                    *)
LEMMA BlockGrows ==
  ASSUME NEW C, NEW p \in Seq(C), NEW s \in Seq(C), NEW i \in Nat, i + 1 <= Len(s)
  PROVE  /\ p \o SubSeq(s, 1, i) \in Seq(C) /\ Len(p \o SubSeq(s, 1, i)) = Len(p) + i
         /\ p \o SubSeq(s, 1, i + 1) = Append(p \o SubSeq(s, 1, i), s[i + 1])
  <1> DEFINE a == SubSeq(s, 1, i)  b == SubSeq(s, 1, i + 1)  c == s[i + 1]
  <1>0. Len(s) \in Nat /\ i <= Len(s) /\ c \in C
    OBVIOUS
  <1>1. a \in Seq(C) /\ Len(a) = i /\ \A j \in 1 .. i : a[j] = s[j]
    BY <1>0, SubSeqProperties
  <1>2. b \in Seq(C) /\ Len(b) = i + 1 /\ \A j \in 1 .. i + 1 : b[j] = s[j]
    BY <1>0, SubSeqProperties
  <1> HIDE DEF a, b, c
  <1>3. p \o a \in Seq(C) /\ Len(p \o a) = Len(p) + i
    BY <1>1, ConcatProperties
  <1>4. b = Append(a, c)
    <2> DEFINE d == Append(a, c)
    <2>1. d \in Seq(C) /\ Len(d) = i + 1 /\ (\A j \in 1 .. i : d[j] = a[j]) /\ d[i + 1] = c
      BY <1>0, <1>1, AppendProperties
    <2> HIDE DEF d
    <2>2. \A j \in 1 .. i + 1 : b[j] = d[j]
      <3> SUFFICES ASSUME NEW j \in 1 .. i + 1 PROVE b[j] = d[j]
        OBVIOUS
      <3>1. CASE j = i + 1
        BY <1>2, <2>1, <3>1 DEF c
      <3>2. CASE j \in 1 .. i
        BY <1>1, <1>2, <2>1, <3>2
      <3>3. QED
        BY <3>1, <3>2
    <2>3. b = d
      BY <1>2, <2>1, <2>2, SeqEqual
    <2>4. QED
      BY <2>3 DEF d
  <1>5. p \o Append(a, c) = Append(p \o a, c)
    BY <1>0, <1>1
  <1>6. QED
    BY <1>3, <1>4, <1>5 DEF a, b, c

(* Copying a block is taking its bytes one by one.                         *)
LEMMA BlockIsItsBytes ==
  ASSUME TypeOK, input # <<>>, ~AtGarbage
  PROVE  RefChunk(Engine, input) = RefChunk(After(Copied), Rest)
  <1>0. /\ pending \in Seq(Byte) /\ input \in Seq(Byte) /\ Len(pending) \in Nat
        /\ Len(input) \in Nat /\ PacketSize \in Nat
    BY PacketSizeAssumption DEF TypeOK
  <1>1. /\ CopySize \in Nat /\ CopySize > 0 /\ CopySize <= Len(input)
        /\ Copied \in Seq(Byte) /\ Rest \in Seq(Byte)
        /\ Len(Copied) = Len(pending) + CopySize
        /\ Len(Rest) = Len(input) - CopySize
        /\ Len(Copied) <= PacketSize
    BY CopyMovesBytes
  <1>2. PICK g : Runs(g, Engine, input) /\ RefChunk(Engine, input) = g[Len(input)]
    BY <1>0, ChunkRuns
  <1> DEFINE n == CopySize  B(i) == pending \o SubSeq(input, 1, i)
             S == {i \in Nat : i \in 1 .. n => g[i] = After(B(i))}
  <1>a. n \in Nat /\ n > 0 /\ n <= Len(input) /\ Len(pending) + n <= PacketSize
    BY <1>1
  <1> HIDE DEF n
  <1>3. 0 \in S
    BY <1>a
  <1>4. ASSUME NEW i \in Nat, i \in S PROVE i + 1 \in S
    <2> SUFFICES ASSUME i + 1 \in 1 .. n PROVE g[i + 1] = After(B(i + 1))
      OBVIOUS
    <2>1. /\ i + 1 \in 1 .. Len(input) /\ (i + 1) - 1 = i /\ i + 1 <= Len(input)
          /\ input[i + 1] \in Byte /\ i < n
      BY <1>0, <1>a
    <2>2. g[i + 1] = RefByte(g[i], input[i + 1])
      BY <1>2, <2>1 DEF Runs
    <2>3. /\ B(i) \in Seq(Byte) /\ Len(B(i)) = Len(pending) + i
          /\ B(i + 1) = Append(B(i), input[i + 1])
      BY <1>0, <2>1, BlockGrows
    <2> HIDE DEF B
    <2>4. CASE i = 0
      <3>1. g[i] = Engine
        BY <1>2, <2>4 DEF Runs
      <3>2. pending # <<>> \/ input[i + 1] = Sync
        BY <1>0, <2>4 DEF AtGarbage
      <3>3. B(i) = pending
        <4>1. SubSeq(input, 1, i) = <<>>
          BY <1>0, <2>4
        <4>2. QED
          BY <1>0, <4>1, ConcatEmptySeq DEF B
      <3>4. RefByte(Engine, input[i + 1]) = After(Append(pending, input[i + 1]))
        BY <1>0, <2>1, <3>2, AfterFirst
      <3>5. QED
        BY <2>2, <2>3, <3>1, <3>3, <3>4
    <2>5. CASE i # 0
      <3>1. g[i] = After(B(i))
        <4>1. i \in 1 .. n
          BY <1>a, <2>1, <2>5
        <4>2. QED
          BY <1>4, <4>1
      <3>2. B(i) # <<>> /\ Len(B(i)) # PacketSize
        BY <1>0, <1>a, <2>1, <2>3, <2>5
      <3>3. RefByte(After(B(i)), input[i + 1]) = After(Append(B(i), input[i + 1]))
        BY <2>1, <2>3, <3>2, AfterNext
      <3>4. QED
        BY <2>2, <2>3, <3>1, <3>3
    <2>6. QED
      BY <2>4, <2>5
  <1>5. Nat \subseteq S
    BY <1>3, <1>4, NatSetInduction
  <1>6. g[n] = After(B(n))
    BY <1>5, <1>a
  <1>7. B(n) = Copied
    BY DEF n, Copied
  <1>8. /\ n \in 0 .. Len(input) /\ Len(Rest) = Len(input) - n
        /\ \A i \in 1 .. Len(input) - n : Rest[i] = input[n + i]
    <2>1. n \in 0 .. Len(input) /\ Len(Rest) = Len(input) - n
      BY <1>0, <1>1, <1>a DEF n
    <2>2. Rest = SubSeq(input, n + 1, Len(input))
      BY DEF Rest, n
    <2>3. \A i \in 1 .. Len(input) - n : SubSeq(input, n + 1, Len(input))[i] = input[n + i]
      BY <1>0, <1>a, SubSeqProperties
    <2>4. QED
      BY <2>1, <2>2, <2>3
  <1>9. RefChunk(g[n], Rest) = g[Len(input)]
    BY <1>0, <1>1, <1>2, <1>8, ChunkRest
  <1>10. QED
    BY <1>2, <1>6, <1>7, <1>9

(* Skipping a byte is what the reference does with it.                     *)
LEMMA SkipIsItsByte ==
  ASSUME TypeOK, input # <<>>, AtGarbage
  PROVE  RefChunk(Engine, input)
           = RefChunk(Seeking(handed, bytesDropped + 1,
                              IF skipping THEN resyncs ELSE resyncs + 1), Tail(input))
  <1>0. input \in Seq(Byte) /\ Len(input) \in Nat /\ Len(input) > 0
    BY DEF TypeOK
  <1>1. PICK g : Runs(g, Engine, input) /\ RefChunk(Engine, input) = g[Len(input)]
    BY <1>0, ChunkRuns
  <1>2. g[1] = RefByte(g[0], input[1]) /\ g[0] = Engine
    BY <1>0, <1>1 DEF Runs
  <1>3. pending = <<>> /\ input[1] # Sync
    BY <1>0 DEF AtGarbage
  <1>4. g[1] = Seeking(handed, bytesDropped + 1, IF skipping THEN resyncs ELSE resyncs + 1)
    BY <1>2, <1>3, ByteSkipped DEF Engine
  <1>5. /\ Tail(input) \in Seq(Byte) /\ Len(Tail(input)) = Len(input) - 1
        /\ \A i \in 1 .. Len(input) - 1 : Tail(input)[i] = input[1 + i]
    BY <1>0
  <1>6. 1 \in 0 .. Len(input)
    BY <1>0
  <1>7. RefChunk(g[1], Tail(input)) = g[Len(input)]
    BY <1>0, <1>1, <1>5, <1>6, ChunkRest
  <1>8. QED
    BY <1>1, <1>4, <1>7
-----------------------------------------------------------------------------
(* What may happen to the framer, whoever calls it: a chunk of any size is *)
(* fed, or the engine goes on.                                             *)
Moves ==
    \/ \E chunk \in Seq(Byte) : Feed(chunk)
    \/ Skip \/ Buffer \/ (\E ok \in BOOLEAN : Complete(ok))
    \/ Finish \/ Reset

LEMMA TypeInit == Init => TypeOK
  <1> SUFFICES ASSUME Init PROVE TypeOK
    OBVIOUS
  <1>1. failed \in BOOLEAN /\ skipping \in BOOLEAN
    BY Zenon DEF Init
  <1>2. pending \in Seq(Byte) /\ Len(pending) < PacketSize /\ input \in Seq(Byte)
    BY PacketSizeAssumption DEF Init
  <1>3. QED
    BY <1>1, <1>2 DEF Init, TypeOK

LEMMA TypeStep == TypeOK /\ [Moves]_vars => TypeOK'
  <1> SUFFICES ASSUME TypeOK, [Moves]_vars PROVE TypeOK'
    OBVIOUS
  <1>1. CASE UNCHANGED vars
    BY <1>1 DEF TypeOK, vars
  <1>2. ASSUME NEW chunk \in Seq(Byte), Feed(chunk) PROVE TypeOK'
    <2>1. Len(chunk) \in Nat
      OBVIOUS
    <2>2. QED
      BY <1>2, <2>1 DEF Feed, TypeOK
  <1>3. CASE Skip
    <2>1. Tail(input) \in Seq(Byte)
      BY <1>3, HeadTailProperties DEF Skip, TypeOK
    <2>2. QED
      BY <1>3, <2>1 DEF Skip, TypeOK
  <1>4. CASE Buffer
    <2>1. pending' \in Seq(Byte) /\ Len(pending') < PacketSize /\ input' \in Seq(Byte)
      BY <1>4, CopyMovesBytes, PacketSizeAssumption DEF Buffer
    <2>2. QED
      BY <1>4, <2>1 DEF Buffer, TypeOK
  <1>5. ASSUME NEW ok \in BOOLEAN, Complete(ok) PROVE TypeOK'
    <2>1. input' \in Seq(Byte) /\ lost' \in Nat
      BY <1>5, CopyMovesBytes DEF Complete, TypeOK
    <2>2. pending' \in Seq(Byte) /\ Len(pending') < PacketSize
      BY <1>5, PacketSizeAssumption DEF Complete
    <2>3. failed' \in BOOLEAN /\ skipping' \in BOOLEAN
      BY <1>5, Zenon DEF Complete
    <2>4. QED
      BY <1>5, <2>1, <2>2, <2>3 DEF Complete, TypeOK
  <1>6. CASE Finish
    <2>1. Len(pending) \in Nat
      BY DEF TypeOK
    <2>2. QED
      BY <1>6, <2>1, PacketSizeAssumption DEF Finish, TypeOK
  <1>7. CASE Reset
    <2>1. Len(pending) \in Nat
      BY DEF TypeOK
    <2>2. QED
      <3>1. failed' \in BOOLEAN /\ skipping' \in BOOLEAN
        BY <1>7, Zenon DEF Reset
      <3>2. lost' \in Nat /\ Len(pending') < PacketSize /\ pending' \in Seq(Byte)
        BY <1>7, <2>1, PacketSizeAssumption DEF Reset, TypeOK
      <3>3. QED
        BY <1>7, <3>1, <3>2 DEF Reset, TypeOK
  <1>8. QED
    BY <1>1, <1>2, <1>3, <1>4, <1>5, <1>6, <1>7 DEF Moves

LEMMA AccountInit == Init => BytesAccounted
  BY PacketSizeAssumption DEF Init, BytesAccounted

LEMMA AccountStep == TypeOK /\ BytesAccounted /\ [Moves]_vars => BytesAccounted'
  <1> SUFFICES ASSUME TypeOK, BytesAccounted, [Moves]_vars PROVE BytesAccounted'
    OBVIOUS
  <1>0. /\ PacketSize \in Nat /\ read \in Nat /\ bytesDropped \in Nat /\ fed \in Nat
        /\ lost \in Nat /\ Len(pending) \in Nat /\ Len(input) \in Nat
        /\ PacketSize * read \in Nat /\ PacketSize * (read + 1) = PacketSize * read + PacketSize
    BY PacketSizeAssumption DEF TypeOK
  <1>1. CASE UNCHANGED vars
    BY <1>1 DEF BytesAccounted, vars
  <1>2. ASSUME NEW chunk \in Seq(Byte), Feed(chunk) PROVE BytesAccounted'
    <2>1. Len(chunk) \in Nat /\ Len(input) = 0
      BY <1>2 DEF Feed
    <2>2. QED
      BY <1>0, <1>2, <2>1 DEF Feed, BytesAccounted
  <1>3. CASE Skip
    <2>1. Len(Tail(input)) = Len(input) - 1
      BY <1>3, HeadTailProperties DEF Skip, TypeOK
    <2>2. QED
      BY <1>0, <1>3, <2>1 DEF Skip, BytesAccounted
  <1>4. CASE Buffer
    BY <1>0, <1>4, CopyMovesBytes DEF Buffer, BytesAccounted
  <1>5. ASSUME NEW ok \in BOOLEAN, Complete(ok) PROVE BytesAccounted'
    <2>1. /\ Len(Rest) = Len(pending) + Len(input) - PacketSize /\ Len(Rest) \in Nat
      BY <1>0, <1>5, CopyMovesBytes DEF Complete
    <2>2. /\ read' = read + 1 /\ Len(pending') = 0
          /\ lost' + Len(input') = lost + Len(Rest)
      BY <1>0, <1>5, <2>1 DEF Complete
    <2>3. PacketSize * read' = PacketSize * read + PacketSize
      BY <1>0, <2>2
    <2>4. /\ lost' \in Nat /\ Len(input') \in Nat
          /\ fed' = fed /\ bytesDropped' = bytesDropped
      BY <1>0, <1>5, <2>1 DEF Complete
    <2>5. QED
      BY <1>0, <2>1, <2>2, <2>3, <2>4 DEF BytesAccounted
  <1>6. CASE Finish
    BY <1>0, <1>6 DEF Finish, BytesAccounted
  <1>7. CASE Reset
    BY <1>0, <1>7 DEF Reset, BytesAccounted
  <1>8. QED
    BY <1>1, <1>2, <1>3, <1>4, <1>5, <1>6, <1>7 DEF Moves
-----------------------------------------------------------------------------
(* While feed works, the reference is where the engine will be when the    *)
(* chunk is used up; after a failure the engine stops behind it.           *)
WholePacket(p) == Len(p) = PacketSize /\ p[1] = Sync

FollowsRef ==
    /\ failed => input = <<>>
    /\ ~failed => RefChunk(Engine, input) = ref
    /\ handed \in Seq(Seq(Byte)) /\ ref.packets \in Seq(Seq(Byte))
    /\ IsPrefix(handed, ref.packets)
    /\ pending # <<>> => pending[1] = Sync
    /\ \A i \in DOMAIN handed : WholePacket(handed[i])

LEMMA EngineTyped ==
  ASSUME TypeOK, handed \in Seq(Seq(Byte))
  PROVE  Engine \in RefState /\ Engine.packets = handed
  <1>1. /\ pending \in Seq(Byte) /\ bytesDropped \in Nat /\ resyncs \in Nat
        /\ skipping \in BOOLEAN
    BY DEF TypeOK
  <1>2. QED
    BY <1>1, StateTyped DEF Engine

LEMMA FollowsInit == Init => FollowsRef
  <1> SUFFICES ASSUME Init PROVE FollowsRef
    OBVIOUS
  <1>1. /\ pending = <<>> /\ input = <<>> /\ handed = <<>> /\ bytesDropped = 0 /\ resyncs = 0
        /\ failed = FALSE /\ skipping = FALSE /\ ref = RefInit
    BY Zenon DEF Init
  <1>2. Engine = ref
    BY <1>1, Zenon DEF Engine, State, RefInit
  <1>3. RefChunk(Engine, input) = ref
    BY <1>1, <1>2, ChunkNone
  <1>4. ref.packets = <<>>
    BY <1>1 DEF RefInit
  <1>5. <<>> \in Seq(Seq(Byte)) /\ IsPrefix(<<>>, <<>>)
    <2>1. <<>> \in Seq(Seq(Byte))
      OBVIOUS
    <2>2. QED
      BY <2>1, PrefixSelf
  <1>6. QED
    BY <1>1, <1>3, <1>4, <1>5 DEF FollowsRef

LEMMA FollowsFeed ==
  ASSUME TypeOK, TypeOK', FollowsRef, NEW chunk \in Seq(Byte), Feed(chunk)
  PROVE  FollowsRef'
  <1>1. /\ input = <<>> /\ ~failed /\ input' = chunk /\ ref' = RefChunk(ref, chunk)
        /\ UNCHANGED <<pending, failed, skipping, bytesDropped, resyncs, handed>>
    BY DEF Feed
  <1>2. Engine' = Engine
    BY <1>1 DEF Engine
  <1>3. Engine = ref
    BY <1>1, ChunkNone DEF FollowsRef
  <1>4. RefChunk(Engine', input') = ref'
    BY <1>1, <1>2, <1>3
  <1>5. ref'.packets \in Seq(Seq(Byte)) /\ IsPrefix(handed', ref'.packets)
    <2>1. handed' \in Seq(Seq(Byte)) /\ handed' = handed
      BY <1>1 DEF FollowsRef
    <2>2. Engine \in RefState /\ Engine.packets = handed
      BY EngineTyped DEF FollowsRef
    <2>3. /\ RefChunk(Engine, chunk) \in RefState
          /\ IsPrefix(Engine.packets, RefChunk(Engine, chunk).packets)
      BY <2>2, ChunkExtends
    <2>4. ref' = RefChunk(Engine, chunk)
      BY <1>1, <1>3
    <2>5. QED
      BY <2>1, <2>2, <2>3, <2>4 DEF RefState
  <1>6. QED
    BY <1>1, <1>4, <1>5 DEF FollowsRef

(* A step that takes bytes without completing a packet.                    *)
LEMMA FollowsSkip ==
  ASSUME TypeOK, FollowsRef, Skip
  PROVE  FollowsRef'
  <1>1. /\ input # <<>> /\ AtGarbage /\ pending = <<>>
        /\ bytesDropped' = bytesDropped + 1
        /\ resyncs' = (IF skipping THEN resyncs ELSE resyncs + 1)
        /\ skipping' = TRUE /\ input' = Tail(input)
        /\ UNCHANGED <<pending, failed, handed, ref>>
    BY DEF Skip, AtGarbage
  <1>2. ~failed
    BY <1>1 DEF FollowsRef
  <1>3. Engine' = Seeking(handed, bytesDropped + 1, IF skipping THEN resyncs ELSE resyncs + 1)
    BY <1>1, Zenon DEF Engine, State, Seeking
  <1>4. RefChunk(Engine', input') = RefChunk(Engine, input)
    BY <1>1, <1>3, SkipIsItsByte
  <1>5. QED
    BY <1>1, <1>2, <1>4 DEF FollowsRef

(* A packet begins with a sync byte, since a byte is only copied into an   *)
(* empty buffer when it is one.                                            *)
LEMMA CopiedBegins ==
  ASSUME TypeOK, FollowsRef, input # <<>>, ~AtGarbage
  PROVE  Copied[1] = Sync
  <1>0. /\ pending \in Seq(Byte) /\ input \in Seq(Byte) /\ Len(input) \in Nat
        /\ Len(pending) \in Nat /\ CopySize \in Nat /\ CopySize > 0 /\ CopySize <= Len(input)
    BY CopyMovesBytes DEF TypeOK
  <1> DEFINE b == SubSeq(input, 1, CopySize)
  <1>1. b \in Seq(Byte) /\ Len(b) = CopySize /\ b[1] = input[1]
    BY <1>0, SubSeqProperties
  <1> HIDE DEF b
  <1>2. Copied = pending \o b
    BY DEF Copied, b
  <1>3. CASE pending = <<>>
    <2>1. input[1] = Sync
      BY <1>0, <1>3 DEF AtGarbage
    <2>2. Copied = b
      BY <1>1, <1>2, <1>3, ConcatEmptySeq
    <2>3. QED
      BY <1>1, <2>1, <2>2
  <1>4. CASE pending # <<>>
    <2>1. pending[1] = Sync /\ Len(pending) > 0
      BY <1>0, <1>4 DEF FollowsRef
    <2>2. Copied[1] = pending[1]
      BY <1>0, <1>1, <1>2, <2>1, ConcatProperties
    <2>3. QED
      BY <2>1, <2>2
  <1>5. QED
    BY <1>3, <1>4

LEMMA FollowsBuffer ==
  ASSUME TypeOK, FollowsRef, Buffer
  PROVE  FollowsRef'
  <1>1. /\ input # <<>> /\ ~AtGarbage /\ Len(Copied) # PacketSize
        /\ pending' = Copied /\ input' = Rest /\ skipping' = FALSE
        /\ UNCHANGED <<failed, bytesDropped, resyncs, handed, ref>>
    BY DEF Buffer
  <1>2. ~failed
    BY <1>1 DEF FollowsRef
  <1>3. Engine' = After(Copied)
    BY <1>1, Zenon DEF Engine, State, After, InSync
  <1>4. RefChunk(Engine', input') = RefChunk(Engine, input)
    BY <1>1, <1>3, BlockIsItsBytes
  <1>5. pending'[1] = Sync
    BY <1>1, CopiedBegins
  <1>6. QED
    BY <1>1, <1>2, <1>4, <1>5 DEF FollowsRef

LEMMA FollowsComplete ==
  ASSUME TypeOK, FollowsRef, NEW ok \in BOOLEAN, Complete(ok)
  PROVE  FollowsRef'
  <1>1. /\ input # <<>> /\ ~AtGarbage /\ Len(Copied) = PacketSize
        /\ pending' = <<>> /\ handed' = Append(handed, Copied) /\ skipping' = FALSE
        /\ failed' = ~ok /\ input' = (IF ok THEN Rest ELSE <<>>)
        /\ UNCHANGED <<bytesDropped, resyncs, ref>>
    BY DEF Complete
  <1>2. ~failed /\ RefChunk(Engine, input) = ref
    BY <1>1 DEF FollowsRef
  <1>3. Copied \in Seq(Byte) /\ Rest \in Seq(Byte)
    BY <1>1, CopyMovesBytes
  <1>4. After(Copied) = InSync(<<>>, handed', bytesDropped, resyncs)
    BY <1>1 DEF After
  <1>5. Engine' = After(Copied)
    BY <1>1, <1>4, Zenon DEF Engine, State, InSync
  <1>6. RefChunk(Engine', Rest) = ref
    BY <1>1, <1>2, <1>5, BlockIsItsBytes
  <1>7. /\ handed' \in Seq(Seq(Byte))
        /\ \A i \in DOMAIN handed' : WholePacket(handed'[i])
    <2>1. WholePacket(Copied)
      BY <1>1, CopiedBegins DEF WholePacket
    <2>2. handed \in Seq(Seq(Byte)) /\ \A i \in DOMAIN handed : WholePacket(handed[i])
      BY DEF FollowsRef
    <2>3. /\ handed' \in Seq(Seq(Byte)) /\ Len(handed') = Len(handed) + 1
          /\ \A i \in 1 .. Len(handed) : handed'[i] = handed[i]
          /\ handed'[Len(handed) + 1] = Copied /\ Len(handed) \in Nat
          /\ DOMAIN handed = 1 .. Len(handed) /\ DOMAIN handed' = 1 .. Len(handed')
      BY <1>1, <1>3, <2>2, AppendProperties
    <2>4. QED
      BY <2>1, <2>2, <2>3
  <1>8. ref.packets \in Seq(Seq(Byte)) /\ IsPrefix(handed', ref.packets)
    <2>1. Engine' \in RefState /\ Engine'.packets = handed'
      <3>1. <<>> \in Seq(Byte) /\ bytesDropped \in Nat /\ resyncs \in Nat
        BY DEF TypeOK
      <3> DEFINE h == handed'  q == InSync(<<>>, h, bytesDropped, resyncs)
      <3>2. h \in Seq(Seq(Byte)) /\ Engine' = q
        BY <1>4, <1>5, <1>7
      <3>3. q \in RefState /\ q.packets = h
        <4> HIDE DEF h
        <4>1. QED
          BY <3>1, <3>2, InSyncTyped
      <3> HIDE DEF q
      <3>4. QED
        BY <3>2, <3>3
    <2>2. ref \in RefState /\ IsPrefix(Engine'.packets, ref.packets)
      <3> DEFINE e == Engine'
      <3>1. e \in RefState /\ ref = RefChunk(e, Rest)
        BY <1>6, <2>1
      <3> HIDE DEF e
      <3>2. ref \in RefState /\ IsPrefix(e.packets, ref.packets)
        BY <1>3, <3>1, ChunkExtends
      <3>3. QED
        BY <3>2 DEF e
    <2>3. QED
      BY <2>1, <2>2 DEF RefState
  <1>9. CASE ok
    BY <1>1, <1>6, <1>7, <1>8, <1>9 DEF FollowsRef
  <1>10. CASE ~ok
    BY <1>1, <1>7, <1>8, <1>10 DEF FollowsRef
  <1>11. QED
    BY <1>9, <1>10

LEMMA EndOfState ==
  ASSUME NEW p, NEW pk, NEW d, NEW y, NEW k
  PROVE  RefEnd(State(p, pk, d, y, k)) = State(<<>>, pk, d + Len(p), y, k)
  <1> DEFINE r == State(p, pk, d, y, k)  n == d + Len(p)
  <1>1. r.partial = p /\ r.skipped = d
    BY DEF State
  <1>2. RefEnd(r) = [r EXCEPT !.skipped = n, !.partial = <<>>]
    <2> HIDE DEF r
    <2>1. QED
      BY <1>1, Zenon DEF RefEnd
  <1> HIDE DEF n
  <1> DEFINE q == State(p, pk, n, y, k)  none == <<>>
  <1>3. [r EXCEPT !.skipped = n] = q
    BY DEF State
  <1>4. [q EXCEPT !.partial = none] = State(none, pk, n, y, k)
    <2> HIDE DEF none
    <2>1. QED
      BY DEF State
  <1>5. [r EXCEPT !.skipped = n, !.partial = none] = State(none, pk, n, y, k)
    <2> HIDE DEF none, q, r
    <2>1. QED
      BY <1>3, <1>4, Zenon
  <1>6. QED
    BY <1>2, <1>5 DEF n

LEMMA FollowsFinish ==
  ASSUME TypeOK, FollowsRef, Finish
  PROVE  FollowsRef'
  <1>1. /\ input = <<>> /\ ~failed /\ pending' = <<>>
        /\ bytesDropped' = bytesDropped + Len(pending) /\ ref' = RefEnd(ref)
        /\ UNCHANGED <<input, failed, skipping, resyncs, handed>>
    BY DEF Finish
  <1>2. Engine = ref
    BY <1>1, ChunkNone DEF FollowsRef
  <1>3. Engine' = RefEnd(Engine)
    <2>1. Engine' = State(<<>>, handed, bytesDropped + Len(pending), resyncs, skipping)
      BY <1>1, Zenon DEF Engine
    <2>2. QED
      BY <2>1, EndOfState DEF Engine
  <1>4. RefChunk(Engine', input') = ref'
    BY <1>1, <1>2, <1>3, ChunkNone
  <1>5. ref'.packets = handed
    <2>1. Engine'.packets = handed
      BY <1>1 DEF Engine, State
    <2>2. QED
      BY <1>1, <1>2, <1>3, <2>1
  <1>6. QED
    BY <1>1, <1>4, <1>5, PrefixSelf DEF FollowsRef

LEMMA FollowsReset ==
  ASSUME TypeOK, FollowsRef, Reset
  PROVE  FollowsRef'
  <1>1. /\ input = <<>> /\ input' = input /\ pending' = <<>>
        /\ failed' = FALSE /\ skipping' = FALSE /\ handed' = <<>>
        /\ ref' = [RefInit EXCEPT !.skipped = bytesDropped, !.resyncs = resyncs]
        /\ UNCHANGED <<bytesDropped, resyncs>>
    BY Zenon DEF Reset
  <1>2. ref' = InSync(<<>>, <<>>, bytesDropped, resyncs)
    BY <1>1 DEF RefInit, InSync
  <1>3. Engine' = ref'
    BY <1>1, <1>2, Zenon DEF Engine, State, InSync
  <1>4. RefChunk(Engine', input') = ref'
    BY <1>1, <1>3, ChunkNone
  <1>5. <<>> \in Seq(Seq(Byte)) /\ IsPrefix(<<>>, <<>>)
    <2>1. <<>> \in Seq(Seq(Byte))
      OBVIOUS
    <2>2. QED
      BY <2>1, PrefixSelf
  <1>6. ref'.packets = <<>>
    BY <1>2 DEF InSync
  <1>7. /\ handed' \in Seq(Seq(Byte)) /\ ref'.packets \in Seq(Seq(Byte))
        /\ IsPrefix(handed', ref'.packets)
    BY <1>1, <1>5, <1>6
  <1>8. \A i \in DOMAIN handed' : WholePacket(handed'[i])
    BY <1>1
  <1>9. QED
    BY <1>1, <1>4, <1>7, <1>8 DEF FollowsRef

LEMMA FollowsStep == TypeOK /\ TypeOK' /\ FollowsRef /\ [Moves]_vars => FollowsRef'
  <1> SUFFICES ASSUME TypeOK, TypeOK', FollowsRef, [Moves]_vars PROVE FollowsRef'
    OBVIOUS
  <1>1. CASE UNCHANGED vars
    BY <1>1 DEF FollowsRef, Engine, vars
  <1>2. ASSUME NEW chunk \in Seq(Byte), Feed(chunk) PROVE FollowsRef'
    BY <1>2, FollowsFeed
  <1>3. CASE Skip
    BY <1>3, FollowsSkip
  <1>4. CASE Buffer
    BY <1>4, FollowsBuffer
  <1>5. ASSUME NEW ok \in BOOLEAN, Complete(ok) PROVE FollowsRef'
    BY <1>5, FollowsComplete
  <1>6. CASE Finish
    BY <1>6, FollowsFinish
  <1>7. CASE Reset
    BY <1>7, FollowsReset
  <1>8. QED
    BY <1>1, <1>2, <1>3, <1>4, <1>5, <1>6, <1>7 DEF Moves

LEMMA FollowsMeansAgrees == FollowsRef => ChunksDoNotMatter /\ HandedIsPrefix
  <1> SUFFICES ASSUME FollowsRef PROVE ChunksDoNotMatter /\ HandedIsPrefix
    OBVIOUS
  <1>1. ChunksDoNotMatter
    <2> SUFFICES ASSUME input = <<>>, ~failed
                 PROVE  /\ handed = ref.packets /\ pending = ref.partial
                        /\ bytesDropped = ref.skipped /\ resyncs = ref.resyncs
                        /\ skipping = ref.skipping
      BY DEF ChunksDoNotMatter
    <2>1. ref = Engine
      BY ChunkNone DEF FollowsRef
    <2>2. QED
      BY <2>1 DEF Engine, State
  <1>2. HandedIsPrefix
    BY DEF FollowsRef, HandedIsPrefix, WholePacket
  <1>3. QED
    BY <1>1, <1>2
-----------------------------------------------------------------------------
(* The host of UdpInput moves the framer in the same ways.                 *)
LEMMA NextMoves == [Next]_vars => [Moves]_vars
  <1>1. ASSUME NEW chunk \in Chunks PROVE chunk \in Seq(Byte)
    BY BoundsAssumption DEF Chunks
  <1>2. QED
    BY <1>1 DEF Next, Moves

FramingInv == TypeOK /\ BytesAccounted /\ FollowsRef

LEMMA FramingInit == Init => FramingInv
  BY TypeInit, AccountInit, FollowsInit DEF FramingInv

LEMMA FramingStep == FramingInv /\ [Moves]_vars => FramingInv'
  BY TypeStep, AccountStep, FollowsStep DEF FramingInv

LEMMA FramingMeans ==
  FramingInv => TypeOK /\ BytesAccounted /\ ChunksDoNotMatter /\ HandedIsPrefix
  BY FollowsMeansAgrees DEF FramingInv
-----------------------------------------------------------------------------
(* Multiples of n that differ are at least n apart.                        *)
LEMMA MultiplesApart ==
  ASSUME NEW n \in Nat, NEW p \in Int, NEW q \in Int, p > q
  PROVE  n * p >= n * q + n
  <1>1. n * (p - q - 1) >= 0
    <2>1. p - q - 1 \in Nat
      OBVIOUS
    <2>2. QED
      BY <2>1
  <1>2. n * (p - q - 1) = n * p - n * q - n
    OBVIOUS
  <1>3. n * p \in Int /\ n * q \in Int
    OBVIOUS
  <1>4. QED
    BY <1>1, <1>2, <1>3

LEMMA RemainderUnique ==
  ASSUME NEW n \in Nat, n > 0,
         NEW p \in Int, NEW r \in 0 .. n - 1,
         NEW q \in Int, NEW s \in 0 .. n - 1,
         n * p + r = n * q + s
  PROVE  r = s
  <1>1. n * p \in Int /\ n * q \in Int
    OBVIOUS
  <1>2. CASE p > q
    BY <1>1, <1>2, MultiplesApart
  <1>3. CASE q > p
    BY <1>1, <1>3, MultiplesApart
  <1>4. CASE p = q
    BY <1>1, <1>4
  <1>5. QED
    BY <1>2, <1>3, <1>4

LEMMA Division ==
  ASSUME NEW n \in Nat, n > 0, NEW a \in Nat
  PROVE  /\ a % n \in 0 .. n - 1 /\ a \div n \in Int
         /\ a = n * (a \div n) + (a % n)
  BY SMT

(* A packet more or less does not change the place in a packet.            *)
LEMMA RemainderOfSum ==
  ASSUME NEW n \in Nat, n > 0, NEW a \in Nat
  PROVE  (a + n) % n = a % n
  <1> DEFINE b == a + n
             q == a \div n
             r == a % n
  <1>1. b \in Nat /\ b = a + n
    OBVIOUS
  <1> HIDE DEF b
  <1>2. r \in 0 .. n - 1 /\ q \in Int /\ a = n * q + r
    BY Division
  <1>3. b % n \in 0 .. n - 1 /\ b \div n \in Int /\ b = n * (b \div n) + (b % n)
    BY <1>1, Division
  <1> HIDE DEF q, r
  <1>4. n * (q + 1) = n * q + n /\ q + 1 \in Int /\ n * q \in Int
    BY <1>2
  <1>5. n * (b \div n) + (b % n) = n * (q + 1) + r
    BY <1>1, <1>2, <1>3, <1>4
  <1>6. b % n = r
    BY <1>2, <1>3, <1>4, <1>5, RemainderUnique
  <1>7. QED
    BY <1>1, <1>6 DEF b, r
-----------------------------------------------------------------------------
Typed ==
    /\ udp \in Seq(Byte) /\ raw \in Seq(Byte) /\ Len(raw) <= PacketSize
    /\ arrived \in Seq(Byte) /\ consumed \in Seq(Byte)

LEMMA DatagramTyped ==
  ASSUME NEW d \in Datagrams
  PROVE  d \in Seq(Byte) /\ (whole => WholePackets(d))
  <1>1. d \in UNION {[1 .. n -> Byte] : n \in 1 .. MaxDatagram}
    BY DEF Datagrams
  <1>2. PICK n \in 1 .. MaxDatagram : d \in [1 .. n -> Byte]
    BY <1>1
  <1>3. n \in Nat
    BY DatagramAssumption
  <1>4. d \in Seq(Byte)
    BY <1>2, <1>3
  <1>5. QED
    BY <1>4 DEF Datagrams

(* What is taken from a datagram goes to the read, and nothing between.    *)
LEMMA TakeSplits ==
  ASSUME Typed, udp # <<>>
  PROVE  /\ Taken \in Nat /\ Taken <= PacketSize - Len(raw)
         /\ SubSeq(udp, 1, Taken) \in Seq(Byte) /\ Len(SubSeq(udp, 1, Taken)) = Taken
         /\ SubSeq(udp, Taken + 1, Len(udp)) \in Seq(Byte)
         /\ SubSeq(udp, 1, Taken) \o SubSeq(udp, Taken + 1, Len(udp)) = udp
  <1>1. /\ PacketSize \in Nat /\ Len(udp) \in Nat /\ Len(udp) # 0 /\ Len(raw) \in Nat
        /\ Len(raw) <= PacketSize /\ udp \in Seq(Byte)
    BY PacketSizeAssumption, EmptySeq DEF Typed
  <1>2. Taken \in 0 .. Len(udp) /\ Taken <= PacketSize - Len(raw)
    BY <1>1 DEF Taken, LeastOf, RawSize
  <1> HIDE DEF Taken
  <1>3. \A i \in 1 .. Len(udp) : udp[i] \in Byte
    BY <1>1, ElementOfSeq
  <1>4. SubSeq(udp, 1, Taken) \in Seq(Byte) /\ Len(SubSeq(udp, 1, Taken)) = Taken
    BY <1>1, <1>2, <1>3, SubSeqProperties
  <1>5. SubSeq(udp, Taken + 1, Len(udp)) \in Seq(Byte)
    BY <1>1, <1>2, <1>3, SubSeqProperties
  <1>6. SubSeq(udp, 1, Taken) \o SubSeq(udp, Taken + 1, Len(udp)) = SubSeq(udp, 1, Len(udp))
    <2>1. /\ 1 \in 1 .. Len(udp) + 1 /\ Taken \in 1 - 1 .. Len(udp)
          /\ Len(udp) \in Taken .. Len(udp)
      BY <1>1, <1>2
    <2>2. QED
      BY <1>1, <2>1, ConcatAdjacentSubSeq, Zenon
  <1>7. SubSeq(udp, 1, Len(udp)) = udp
    BY <1>1, SubSeqFull
  <1>8. SubSeq(udp, 1, Taken) \o SubSeq(udp, Taken + 1, Len(udp)) = udp
    BY <1>6, <1>7, Zenon
  <1>9. Taken \in Nat
    BY <1>1, <1>2
  <1>10. QED
    BY <1>2, <1>4, <1>5, <1>8, <1>9, Zenon

LEMMA Regrouped ==
  ASSUME NEW S, NEW a \in Seq(S), NEW b \in Seq(S), NEW c \in Seq(S), NEW d \in Seq(S)
  PROVE  (a \o (b \o c)) \o d = (a \o b) \o (c \o d)
  <1>1. a \o (b \o c) = (a \o b) \o c
    BY ConcatAssociative, SMTT(30)
  <1>2. a \o b \in Seq(S)
    BY ConcatProperties
  <1>3. ((a \o b) \o c) \o d = (a \o b) \o (c \o d)
    BY <1>2, ConcatAssociative, SMTT(30)
  <1>4. QED
    BY <1>1, <1>3

InOrder == Typed /\ DatagramsInOrder

LEMMA InOrderInit == UdpInit => InOrder
  <1>1. <<>> \in Seq(Byte) /\ Len(<<>>) = 0
    BY EmptySeq
  <1>2. <<>> \o <<>> \o <<>> = <<>>
    BY <1>1, ConcatEmptySeq
  <1>3. QED
    BY <1>1, <1>2, PacketSizeAssumption DEF UdpInit, InOrder, Typed, DatagramsInOrder

LEMMA InOrderStep == InOrder /\ [UdpNext]_udpVars => InOrder'
  <1> SUFFICES ASSUME InOrder, [UdpNext]_udpVars PROVE InOrder'
    OBVIOUS
  <1>0. /\ Typed /\ DatagramsInOrder
        /\ udp \in Seq(Byte) /\ raw \in Seq(Byte) /\ arrived \in Seq(Byte)
        /\ consumed \in Seq(Byte) /\ <<>> \in Seq(Byte)
    BY EmptySeq DEF InOrder, Typed
  <1>1. ASSUME UNCHANGED <<live, buffers>> PROVE InOrder'
    BY <1>0, <1>1 DEF InOrder, Typed, DatagramsInOrder, buffers
  <1>2. CASE UNCHANGED udpVars
    BY <1>1, <1>2 DEF udpVars, caller
  <1>3. CASE Host
    BY <1>1, <1>3 DEF Host, caller
  <1>4. CASE Idle
    BY <1>1, <1>4 DEF Idle, Stays, Goes
  <1>5. CASE ReadNothing
    BY <1>1, <1>5 DEF ReadNothing, Goes
  <1>6. CASE Exited
    BY <1>1, <1>6 DEF Exited, Stays, Goes
  <1>7. ASSUME NEW d \in Datagrams, NEW pressed \in BOOLEAN, Receive(d, pressed)
        PROVE  InOrder'
    <2>1. /\ live' = live /\ live /\ udp = <<>> /\ udp' = d /\ arrived' = arrived \o d
          /\ raw' = raw /\ consumed' = consumed
      BY <1>7 DEF Receive, Stays, Goes
    <2>2. d \in Seq(Byte)
      BY DatagramTyped
    <2>3. arrived \o d \in Seq(Byte)
      BY <1>0, <2>2, ConcatProperties
    <2>4. consumed \o raw \in Seq(Byte)
      BY <1>0, ConcatProperties
    <2>5. arrived = consumed \o raw
      BY <1>0, <2>1, <2>4, ConcatEmptySeq DEF DatagramsInOrder
    <2>6. QED
      BY <1>0, <2>1, <2>2, <2>3, <2>5 DEF InOrder, Typed, DatagramsInOrder
  <1>8. CASE Take
    <2> DEFINE head == SubSeq(udp, 1, Taken)
               tail == SubSeq(udp, Taken + 1, Len(udp))
    <2>1. /\ live' = live /\ live /\ udp # <<>> /\ raw' = raw \o head /\ udp' = tail
          /\ arrived' = arrived /\ consumed' = consumed
      BY <1>8 DEF Take, Goes
    <2>2. /\ Taken \in Nat /\ Taken <= PacketSize - Len(raw)
          /\ head \in Seq(Byte) /\ Len(head) = Taken /\ tail \in Seq(Byte)
          /\ head \o tail = udp
      BY <1>0, <2>1, TakeSplits
    <2> HIDE DEF head, tail
    <2>3. raw' \in Seq(Byte) /\ Len(raw') <= PacketSize
      <3>1. raw \o head \in Seq(Byte) /\ Len(raw \o head) = Len(raw) + Len(head)
        BY <1>0, <2>2, ConcatProperties
      <3>2. Len(raw) \in Nat /\ PacketSize \in Nat
        BY <1>0, PacketSizeAssumption
      <3>3. QED
        BY <2>1, <2>2, <3>1, <3>2
    <2>4. (consumed \o (raw \o head)) \o tail = arrived
      <3>1. (consumed \o (raw \o head)) \o tail = (consumed \o raw) \o (head \o tail)
        <4>1. /\ consumed \in Seq(Byte) /\ raw \in Seq(Byte)
              /\ head \in Seq(Byte) /\ tail \in Seq(Byte)
          BY <1>0, <2>2
        <4>2. QED
          BY ONLY <4>1, Regrouped, SMTT(60)
      <3>2. (consumed \o raw) \o udp = arrived
        BY <1>0, <2>1 DEF DatagramsInOrder
      <3>3. QED
        BY <2>2, <3>1, <3>2
    <2>5. QED
      BY <1>0, <2>1, <2>2, <2>3, <2>4 DEF InOrder, Typed, DatagramsInOrder
  <1>9. CASE FeedRaw
    <2>1. /\ live' = live /\ live /\ raw' = <<>> /\ consumed' = consumed \o raw
          /\ udp' = udp /\ arrived' = arrived
      BY <1>9 DEF FeedRaw, Goes
    <2>2. consumed \o raw \in Seq(Byte)
      BY <1>0, ConcatProperties
    <2>3. (consumed \o raw) \o <<>> = consumed \o raw
      BY <2>2, ConcatEmptySeq
    <2>4. (consumed \o raw) \o udp = arrived
      BY <1>0, <2>1 DEF DatagramsInOrder
    <2>5. DatagramsInOrder'
      BY <2>1, <2>3, <2>4 DEF DatagramsInOrder
    <2>6. Len(<<>>) <= PacketSize
      BY PacketSizeAssumption
    <2>7. QED
      BY <1>0, <2>1, <2>2, <2>5, <2>6 DEF InOrder, Typed
  <1>10. CASE FeedWorks
    BY <1>1, <1>10 DEF FeedWorks, Stays, Goes
  <1>11. CASE FeedReturned \/ LimitReached
    BY <1>1, <1>11 DEF FeedReturned, LimitReached, Goes
  <1>12. CASE Exit
    BY <1>1, <1>12 DEF Exit, Goes
  <1>13. ASSUME NEW pressed \in BOOLEAN, PollKey(pressed) PROVE InOrder'
    BY <1>1, <1>13 DEF PollKey, Goes
  <1>14. QED
    BY <1>2, <1>3, <1>4, <1>5, <1>6, <1>7, <1>8, <1>9, <1>10, <1>11, <1>12, <1>13
    DEF UdpNext, Proceeds

(* However the datagrams and the packets overlap, the engine is fed the    *)
(* bytes received, in order, none twice and none left out.                 *)
THEOREM BytesInOrder == UdpSpec => []DatagramsInOrder
  <1>1. InOrder => DatagramsInOrder
    BY DEF InOrder
  <1>2. QED
    BY <1>1, InOrderInit, InOrderStep, PTL DEF UdpSpec

(***************************************************************************)
(* Whole packets.  A read that has begun with a packet ends with it, so    *)
(* that between two calls of feed nothing is pending, and each call gets   *)
(* one packet.                                                             *)
(***************************************************************************)
OnePacket(s) == s \in Seq(Byte) /\ Len(s) = PacketSize /\ s[1] = Sync

Aligned ==
    /\ live /\ udp \in Seq(Byte) /\ WholePackets(udp)
    /\ at \in {"input", "fed"} => raw = <<>>
    /\ at \in {"raw", "key"} => OnePacket(raw)
    /\ pending = <<>> /\ (input = <<>> \/ (at = "fed" /\ OnePacket(input)))
    /\ lost = 0 /\ bytesDropped = 0 /\ packetsDropped = 0

AlignedIfWhole == whole => Aligned

LEMMA NothingIsWhole == <<>> \in Seq(Byte) /\ Len(<<>>) = 0 /\ WholePackets(<<>>)
  <1>1. 0 % PacketSize = 0
    BY PacketSizeAssumption
  <1>2. QED
    BY <1>1 DEF WholePackets

(* The first packet of a datagram is taken, and what is left is whole.     *)
LEMMA TakesOne ==
  ASSUME udp \in Seq(Byte), udp # <<>>, WholePackets(udp), raw = <<>>
  PROVE  /\ Taken = PacketSize
         /\ OnePacket(raw \o SubSeq(udp, 1, Taken))
         /\ SubSeq(udp, Taken + 1, Len(udp)) \in Seq(Byte)
         /\ WholePackets(SubSeq(udp, Taken + 1, Len(udp)))
  <1> DEFINE n == PacketSize
             head == SubSeq(udp, 1, n)
             tail == SubSeq(udp, n + 1, Len(udp))
  <1>1. n \in Nat /\ n > 1 /\ Len(udp) \in Nat /\ Len(udp) > 0 /\ Len(udp) % n = 0
    BY PacketSizeAssumption, EmptySeq DEF WholePackets
  <1>2. Len(udp) >= n
    BY <1>1
  <1>3. Taken = n
    BY <1>1, <1>2, EmptySeq DEF Taken, LeastOf, RawSize
  <1>4. \A i \in 1 .. Len(udp) : udp[i] \in Byte
    BY ElementOfSeq
  <1>5. head \in Seq(Byte) /\ Len(head) = n /\ head[1] = udp[1]
    BY <1>1, <1>2, <1>4, SubSeqProperties
  <1>6. /\ tail \in Seq(Byte) /\ Len(tail) = Len(udp) - n
        /\ \A i \in 1 .. Len(tail) : tail[i] = udp[i + n]
    BY <1>1, <1>2, <1>4, SubSeqProperties
  <1> HIDE DEF head, tail
  <1>7. udp[1] = Sync
    <2>1. 1 % n = 1 /\ 1 \in DOMAIN udp
      BY <1>1
    <2>2. QED
      BY <2>1 DEF WholePackets
  <1>8. Len(tail) % n = 0
    <2>1. Len(tail) \in Nat /\ Len(tail) + n = Len(udp)
      BY <1>1, <1>2, <1>6
    <2>2. n \in Nat /\ n > 0
      BY <1>1
    <2>3. (Len(tail) + n) % n = Len(tail) % n
      BY ONLY <2>1, <2>2, RemainderOfSum
    <2>4. QED
      BY <1>1, <2>1, <2>3
  <1>9. ASSUME NEW i \in DOMAIN tail, i % n = 1 PROVE tail[i] = Sync
    <2>1. i \in 1 .. Len(tail) /\ i \in Nat /\ i + n \in DOMAIN udp
      BY <1>1, <1>6
    <2>2. n \in Nat /\ n > 0
      BY <1>1
    <2>3. (i + n) % n = i % n
      BY ONLY <2>1, <2>2, RemainderOfSum
    <2>4. QED
      BY <1>6, <1>9, <2>1, <2>3 DEF WholePackets
  <1>10. OnePacket(raw \o head)
    BY <1>5, <1>7, ConcatEmptySeq DEF OnePacket
  <1>11. WholePackets(tail)
    BY <1>8, <1>9 DEF WholePackets
  <1>12. QED
    BY <1>3, <1>6, <1>10, <1>11 DEF head, tail

(* A whole packet that is fed is processed, without a byte left over.      *)
LEMMA FeedTakesOne ==
  ASSUME pending = <<>>, OnePacket(input)
  PROVE  input # <<>> /\ ~AtGarbage /\ Len(Copied) = PacketSize /\ Rest = <<>>
  <1>1. PacketSize \in Nat /\ PacketSize > 1 /\ input \in Seq(Byte) /\ Len(input) = PacketSize
    BY PacketSizeAssumption DEF OnePacket
  <1>2. input # <<>>
    BY <1>1, EmptySeq
  <1>3. ~AtGarbage
    BY <1>2 DEF AtGarbage, OnePacket
  <1>4. CopySize = Len(input)
    BY <1>1, EmptySeq DEF CopySize, LeastOf
  <1>5. Copied = input
    <2>1. SubSeq(input, 1, Len(input)) = input
      BY <1>1, SubSeqFull
    <2>2. <<>> \o input = input
      BY <1>1, ConcatEmptySeq
    <2>3. QED
      BY <1>4, <2>1, <2>2 DEF Copied
  <1>6. Rest = <<>>
    BY <1>1, <1>4, SubSeqEmpty DEF Rest
  <1>7. QED
    BY <1>1, <1>2, <1>3, <1>5, <1>6

(* A reset between two packets loses nothing, whether or not it happens.   *)
LEMMA KeyLosesNothing ==
  ASSUME Aligned, NEW pressed \in BOOLEAN, ResetKey(pressed)
  PROVE  /\ pending' = <<>> /\ input' = input
         /\ lost' = 0 /\ bytesDropped' = 0 /\ packetsDropped' = 0
  <1>1. CASE pressed
    BY <1>1, EmptySeq DEF Aligned, ResetKey, Reset
  <1>2. CASE ~pressed
    BY <1>2 DEF Aligned, ResetKey, vars
  <1>3. QED
    BY <1>1, <1>2

LEMMA AlignedInit == UdpInit => AlignedIfWhole
  BY NothingIsWhole DEF UdpInit, Init, AlignedIfWhole, Aligned

LEMMA AlignedStep == AlignedIfWhole /\ [UdpNext]_udpVars => AlignedIfWhole'
  <1> SUFFICES ASSUME AlignedIfWhole, [UdpNext]_udpVars, whole' PROVE Aligned'
    BY DEF AlignedIfWhole
  <1>1. whole
    <2>1. ASSUME NEW from, NEW to, Goes(from, to) PROVE whole
      BY <2>1 DEF Goes
    <2>2. CASE Host \/ UNCHANGED udpVars
      BY <2>2 DEF Host, caller, udpVars
    <2>3. CASE Idle \/ ReadNothing \/ Exited
      BY <2>1, <2>3 DEF Idle, ReadNothing, Exited, Stays
    <2>4. CASE Take \/ FeedRaw \/ FeedWorks \/ FeedReturned \/ LimitReached \/ Exit
      BY <2>1, <2>4 DEF Take, FeedRaw, FeedWorks, FeedReturned, LimitReached, Exit, Stays
    <2>5. CASE \E pressed \in BOOLEAN : PollKey(pressed)
      BY <2>1, <2>5 DEF PollKey
    <2>6. CASE \E d \in Datagrams, pressed \in BOOLEAN : Receive(d, pressed)
      BY <2>1, <2>6 DEF Receive, Stays
    <2>7. QED
      BY <2>2, <2>3, <2>4, <2>5, <2>6 DEF UdpNext, Proceeds
  <1>2. Aligned
    BY <1>1 DEF AlignedIfWhole
  <1>3. CASE UNCHANGED udpVars
    BY <1>2, <1>3 DEF Aligned, WholePackets, OnePacket, udpVars, caller, buffers, vars
  <1>4. CASE Host
    BY <1>2, <1>4 DEF Host, Aligned
  <1>5. CASE Idle
    <2>1. /\ pending' = <<>> /\ input' = input
          /\ lost' = 0 /\ bytesDropped' = 0 /\ packetsDropped' = 0
      BY <1>2, <1>5, EmptySeq DEF Idle, ResetKey, Reset, Aligned
    <2>2. QED
      BY <1>2, <1>5, <2>1 DEF Idle, Stays, Goes, buffers, Aligned, WholePackets
  <1>6. CASE ReadNothing
    BY <1>2, <1>6 DEF ReadNothing, Goes, buffers, vars, Aligned, WholePackets
  <1>7. CASE Exited
    BY <1>2, <1>7 DEF Exited, Stays, Goes, buffers, vars, Aligned, WholePackets
  <1>8. ASSUME NEW d \in Datagrams, NEW pressed \in BOOLEAN, Receive(d, pressed)
        PROVE  Aligned'
    <2>1. d \in Seq(Byte) /\ WholePackets(d)
      BY <1>1, DatagramTyped
    <2>2. QED
      BY <1>2, <1>8, <2>1, KeyLosesNothing DEF Receive, Stays, Goes, Aligned, WholePackets
  <1>9. CASE Take
    <2>1. /\ udp \in Seq(Byte) /\ udp # <<>> /\ WholePackets(udp) /\ raw = <<>>
          /\ live' /\ UNCHANGED vars
          /\ raw' = raw \o SubSeq(udp, 1, Taken) /\ udp' = SubSeq(udp, Taken + 1, Len(udp))
      BY <1>2, <1>9 DEF Take, Goes, Aligned
    <2>2. OnePacket(raw') /\ udp' \in Seq(Byte) /\ WholePackets(udp)'
      BY <2>1, TakesOne DEF WholePackets
    <2>3. at' = "raw" /\ at = "input"
      BY <1>9, <2>2 DEF Take, Goes, OnePacket, RawSize
    <2>4. QED
      BY <1>2, <2>1, <2>2, <2>3 DEF Aligned, OnePacket, vars
  <1>10. ASSUME NEW pressed \in BOOLEAN, PollKey(pressed) PROVE Aligned'
    BY <1>2, <1>10, KeyLosesNothing DEF PollKey, Goes, buffers, Aligned, WholePackets, OnePacket
  <1>11. CASE FeedRaw
    BY <1>2, <1>11 DEF FeedRaw, Feed, Goes, Aligned, WholePackets, OnePacket
  <1>12. CASE FeedWorks
    <2>1. input # <<>> /\ at = "fed" /\ at' = "fed" /\ UNCHANGED <<live, buffers>>
      BY <1>12 DEF FeedWorks, Returns, Skip, Buffer, Complete, Stays, Goes
    <2>2. ~AtGarbage /\ Len(Copied) = PacketSize /\ Rest = <<>>
      BY <1>2, <2>1, FeedTakesOne DEF Aligned
    <2>3. PICK ok \in BOOLEAN : Complete(ok)
      BY <1>12, <2>2 DEF FeedWorks, Returns, Skip, Buffer
    <2>4. pending' = <<>> /\ input' = <<>> /\ UNCHANGED <<bytesDropped, packetsDropped>>
      BY <2>2, <2>3 DEF Complete
    <2>5. lost' = 0
      BY <1>2, <2>2, <2>3, EmptySeq DEF Complete, Aligned
    <2>6. QED
      BY <1>2, <2>1, <2>4, <2>5 DEF Aligned, WholePackets, buffers
  <1>13. CASE FeedReturned \/ LimitReached
    BY <1>2, <1>13 DEF FeedReturned, LimitReached, Goes, buffers, vars, Aligned, WholePackets
  <1>14. CASE Exit
    BY <1>2, <1>14 DEF Exit, Goes, buffers, vars, Aligned, WholePackets
  <1>15. QED
    BY <1>3, <1>4, <1>5, <1>6, <1>7, <1>8, <1>9, <1>10, <1>11, <1>12, <1>13, <1>14
    DEF UdpNext, Proceeds

(* From a sender that puts whole packets into its datagrams, no packet     *)
(* that arrives is cut short, given up or looked into for a sync byte, for *)
(* every packet size, whenever the key is pressed and a read ends early.   *)
THEOREM WholePacketsGetThrough == UdpSpec => []WholePacketsSurvive
  <1>1. AlignedIfWhole => WholePacketsSurvive
    BY DEF AlignedIfWhole, Aligned, WholePacketsSurvive
  <1>2. QED
    BY <1>1, AlignedInit, AlignedStep, PTL DEF UdpSpec
-----------------------------------------------------------------------------
(* main.c moves the framer no differently from any other host: the chunks  *)
(* it feeds are reads of bytes.                                            *)
LEMMA UdpMoves == Typed /\ [UdpNext]_udpVars => [Moves]_vars
  <1> SUFFICES ASSUME Typed, [UdpNext]_udpVars PROVE [Moves]_vars
    OBVIOUS
  <1>1. CASE UNCHANGED udpVars
    BY <1>1 DEF udpVars
  <1>2. CASE Host
    BY <1>2, NextMoves DEF Host
  <1>3. CASE Idle
    BY <1>3 DEF Idle, ResetKey, Moves
  <1>4. CASE ReadNothing
    BY <1>4 DEF ReadNothing
  <1>5. CASE Exited
    BY <1>5 DEF Exited
  <1>6. ASSUME NEW d \in Datagrams, NEW pressed \in BOOLEAN, Receive(d, pressed)
        PROVE  [Moves]_vars
    BY <1>6 DEF Receive, ResetKey, Moves
  <1>7. CASE Take
    BY <1>7 DEF Take
  <1>8. CASE FeedRaw
    BY <1>8 DEF FeedRaw, Moves, Typed
  <1>9. CASE FeedWorks
    BY <1>9 DEF FeedWorks, Returns, Moves
  <1>10. CASE FeedReturned \/ LimitReached
    BY <1>10 DEF FeedReturned, LimitReached
  <1>11. CASE Exit
    BY <1>11 DEF Exit, Moves
  <1>12. ASSUME NEW pressed \in BOOLEAN, PollKey(pressed) PROVE [Moves]_vars
    BY <1>12 DEF PollKey, ResetKey, Moves
  <1>13. QED
    BY <1>1, <1>2, <1>3, <1>4, <1>5, <1>6, <1>7, <1>8, <1>9, <1>10, <1>11, <1>12
    DEF UdpNext, Proceeds

LEMMA FramingHolds == Spec => []FramingInv
  BY FramingInit, FramingStep, NextMoves, PTL DEF Spec

LEMMA FramingHoldsUdp == UdpSpec => []FramingInv
  <1>1. UdpInit => InOrder /\ FramingInv
    BY InOrderInit, FramingInit DEF UdpInit
  <1>2. InOrder /\ FramingInv /\ [UdpNext]_udpVars => InOrder' /\ FramingInv'
    BY InOrderStep, UdpMoves, FramingStep DEF InOrder
  <1>3. QED
    BY <1>1, <1>2, PTL DEF UdpSpec

(* The pending buffer never holds a whole packet: a block copy cannot run  *)
(* past its end.  Any host, and main.c with --udp-input.                   *)
THEOREM PendingNeverFull == (Spec => []TypeOK) /\ (UdpSpec => []TypeOK)
  BY FramingHolds, FramingHoldsUdp, FramingMeans, PTL

(* Every byte accepted is accounted for.                                   *)
THEOREM NoByteUnaccounted == (Spec => []BytesAccounted) /\ (UdpSpec => []BytesAccounted)
  BY FramingHolds, FramingHoldsUdp, FramingMeans, PTL

(* Whenever feed has returned success, the packets, the partial packet and *)
(* the statistics are those of the framer that took the same bytes one by  *)
(* one.                                                                    *)
THEOREM BoundariesDoNotShow ==
    (Spec => []ChunksDoNotMatter) /\ (UdpSpec => []ChunksDoNotMatter)
  BY FramingHolds, FramingHoldsUdp, FramingMeans, PTL

(* What was handed on is always the beginning of what the stream contains, *)
(* each packet whole and starting at a sync byte, after failures too.      *)
THEOREM HandedOnIsPrefix == (Spec => []HandedIsPrefix) /\ (UdpSpec => []HandedIsPrefix)
  BY FramingHolds, FramingHoldsUdp, FramingMeans, PTL
=============================================================================
