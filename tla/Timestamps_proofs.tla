-------------------------- MODULE Timestamps_proofs --------------------------
(***************************************************************************)
(* The stamps that leave run forward, whatever arrives; and large damage   *)
(* heals, for every clock, frame and jump, if the sender's clock advances  *)
(* by frames.                                                              *)
(***************************************************************************)
EXTENDS Timestamps, TLAPS

Half == Wrap \div 2

LEMMA HalfFacts == Wrap \in Nat /\ Half \in Nat /\ Half > 0 /\ Wrap = 2 * Half
  <1>1. Wrap \in Nat /\ Wrap > 0 /\ Wrap % 2 = 0
    BY WrapAssumption
  <1>2. Wrap = 2 * (Wrap \div 2) + (Wrap % 2) /\ Wrap \div 2 \in Int
    BY <1>1, SMT
  <1>3. Wrap = 2 * Half /\ Half \in Int
    BY <1>1, <1>2 DEF Half
  <1> HIDE DEF Half
  <1>4. QED
    BY <1>1, <1>3

LEMMA TickFacts ==
  Tick \in Nat /\ Tick > 0 /\ MaxJump \in Nat /\ Tick + MaxJump < Half
  BY TickAssumption DEF Half

(* Two values of a clock are the same when they are whole turns apart.     *)
Turns == {Wrap * q : q \in Int}
Same(a, b) == a - b \in Turns

LEMMA TurnsClosed ==
  /\ Turns \subseteq Int /\ 0 \in Turns
  /\ \A x, y \in Turns : x + y \in Turns /\ x - y \in Turns
  <1>0. Wrap \in Nat
    BY HalfFacts
  <1>1. ASSUME NEW q \in Int PROVE Wrap * q \in Int
    BY <1>0
  <1>2. 0 \in Turns
    <2>1. Wrap * 0 = 0
      BY <1>0
    <2>2. QED
      BY <2>1 DEF Turns
  <1>3. ASSUME NEW x \in Turns, NEW y \in Turns PROVE x + y \in Turns /\ x - y \in Turns
    <2>1. PICK p \in Int : x = Wrap * p
      BY DEF Turns
    <2>2. PICK q \in Int : y = Wrap * q
      BY DEF Turns
    <2>3. Wrap * p + Wrap * q = Wrap * (p + q) /\ p + q \in Int
      BY <1>0
    <2>4. Wrap * p - Wrap * q = Wrap * (p - q) /\ p - q \in Int
      BY <1>0
    <2>5. QED
      BY <2>1, <2>2, <2>3, <2>4 DEF Turns
  <1>4. QED
    BY <1>1, <1>2, <1>3 DEF Turns

LEMMA LessThanATurn ==
  ASSUME NEW x \in Turns, -Wrap < x, x < Wrap
  PROVE  x = 0
  <1>0. Wrap \in Nat /\ Wrap > 0
    BY HalfFacts
  <1>1. PICK q \in Int : x = Wrap * q
    BY DEF Turns
  <1>2. CASE q = 0
    BY <1>0, <1>1, <1>2
  <1>3. CASE q >= 1
    <2>1. q - 1 \in Nat /\ Wrap * (q - 1) >= 0 /\ Wrap * (q - 1) = Wrap * q - Wrap
      BY <1>0, <1>3
    <2>2. x >= Wrap
      BY <1>0, <1>1, <2>1
    <2>3. QED
      BY <1>0, <1>1, <2>2
  <1>4. CASE q <= -1
    <2>1. (-1) - q \in Nat /\ Wrap * ((-1) - q) >= 0 /\ Wrap * ((-1) - q) = -Wrap - Wrap * q
      BY <1>0, <1>4
    <2>2. x <= -Wrap
      BY <1>0, <1>1, <2>1
    <2>3. QED
      BY <1>0, <1>1, <2>2
  <1>5. QED
    BY <1>2, <1>3, <1>4

LEMMA SameSums ==
  ASSUME NEW a \in Int, NEW b \in Int, Same(a, b), NEW c \in Int, NEW d \in Int, Same(c, d)
  PROVE  Same(a + c, b + d) /\ Same(a - c, b - d)
  <1>1. (a - b) + (c - d) \in Turns /\ (a - b) - (c - d) \in Turns
    BY TurnsClosed DEF Same
  <1>2. (a - b) + (c - d) = (a + c) - (b + d) /\ (a - b) - (c - d) = (a - c) - (b - d)
    OBVIOUS
  <1>3. QED
    BY <1>1, <1>2 DEF Same

LEMMA SameIsEquivalence ==
  /\ \A a \in Int : Same(a, a)
  /\ \A a, b \in Int : Same(a, b) => Same(b, a)
  /\ \A a, b, c \in Int : Same(a, b) /\ Same(b, c) => Same(a, c)
  <1>1. ASSUME NEW a \in Int PROVE Same(a, a)
    <2>1. a - a = 0
      OBVIOUS
    <2>2. QED
      BY <2>1, TurnsClosed DEF Same
  <1>2. ASSUME NEW a \in Int, NEW b \in Int, Same(a, b) PROVE Same(b, a)
    <2>1. 0 - (a - b) \in Turns /\ 0 - (a - b) = b - a
      BY <1>2, TurnsClosed DEF Same
    <2>2. QED
      BY <2>1 DEF Same
  <1>3. ASSUME NEW a \in Int, NEW b \in Int, NEW c \in Int, Same(a, b), Same(b, c)
        PROVE  Same(a, c)
    <2>1. (a - b) + (b - c) \in Turns /\ (a - b) + (b - c) = a - c
      BY <1>3, TurnsClosed DEF Same
    <2>2. QED
      BY <2>1 DEF Same
  <1>4. QED
    BY <1>1, <1>2, <1>3

LEMMA MaskIsSame ==
  ASSUME NEW a \in Int
  PROVE  Mask(a) \in Stamp /\ Mask(a) \in Int /\ Same(Mask(a), a)
  <1>0. Wrap \in Nat /\ Wrap > 0
    BY HalfFacts
  <1>1. a % Wrap \in 0 .. Wrap - 1 /\ a \div Wrap \in Int /\ a = Wrap * (a \div Wrap) + (a % Wrap)
    BY <1>0, SMT
  <1> DEFINE r == a % Wrap  q == a \div Wrap
  <1>2. r \in 0 .. Wrap - 1 /\ q \in Int /\ a = Wrap * q + r
    BY <1>1
  <1> HIDE DEF r, q
  <1>3. Wrap * q = a - r /\ Wrap * q \in Turns /\ r \in Int
    <2>1. Wrap * q \in Int /\ r \in Int
      BY <1>0, <1>2
    <2>2. QED
      BY <1>2, <2>1 DEF Turns
  <1>4. Same(a, r)
    BY <1>3 DEF Same
  <1>5. Same(r, a)
    BY <1>3, <1>4, SameIsEquivalence
  <1>6. QED
    BY <1>2, <1>3, <1>5 DEF Mask, Stamp, r

(* The distance the shorter way round is the one of its size that is the   *)
(* same.                                                                   *)
LEMMA DeltaTyped ==
  ASSUME NEW a \in Int, NEW b \in Int
  PROVE  /\ Delta(a, b) \in Int /\ Same(a - b, Delta(a, b))
         /\ -Half < Delta(a, b) /\ Delta(a, b) <= Half
  <1> DEFINE d == Mask(a - b)
  <1>0. Wrap \in Nat /\ Half \in Nat /\ Half > 0 /\ Wrap = 2 * Half
    BY HalfFacts
  <1>1. d \in 0 .. Wrap - 1 /\ d \in Int /\ Same(d, a - b) /\ a - b \in Int
    BY MaskIsSame DEF Stamp
  <1>2. Delta(a, b) = IF d > Half THEN d - Wrap ELSE d
    BY DEF Delta, Half
  <1> HIDE DEF d
  <1>3. Same(a - b, d)
    BY <1>1, SameIsEquivalence
  <1>4. Same(d, d - Wrap)
    <2>1. Wrap * 1 \in Turns
      BY DEF Turns
    <2>2. Wrap * 1 = d - (d - Wrap)
      BY <1>0, <1>1
    <2>3. QED
      BY <2>1, <2>2 DEF Same
  <1>5. d - Wrap \in Int
    BY <1>0, <1>1
  <1>6. Same(a - b, d - Wrap)
    BY <1>1, <1>3, <1>4, <1>5, SameIsEquivalence
  <1>7. CASE d > Half
    BY <1>0, <1>1, <1>2, <1>5, <1>6, <1>7
  <1>8. CASE ~(d > Half)
    BY <1>0, <1>1, <1>2, <1>3, <1>8
  <1>9. QED
    BY <1>7, <1>8

LEMMA DeltaIs ==
  ASSUME NEW a \in Int, NEW b \in Int, NEW e \in Int, Same(a - b, e), -Half < e, e <= Half
  PROVE  Delta(a, b) = e
  <1> DEFINE d == Delta(a, b)
  <1>0. Wrap \in Nat /\ Half \in Nat /\ Half > 0 /\ Wrap = 2 * Half /\ a - b \in Int
    BY HalfFacts
  <1>1. d \in Int /\ Same(a - b, d) /\ -Half < d /\ d <= Half
    BY DeltaTyped
  <1> HIDE DEF d
  <1>2. Same(d, e)
    BY <1>0, <1>1, SameIsEquivalence
  <1>3. d - e \in Turns /\ -Wrap < d - e /\ d - e < Wrap
    BY <1>0, <1>1, <1>2 DEF Same
  <1>4. d - e = 0
    BY <1>3, LessThanATurn
  <1>5. d = e
    BY <1>1, <1>4
  <1>6. QED
    BY <1>5 DEF d

LEMMA StampIsItself ==
  ASSUME NEW a \in Stamp
  PROVE  Mask(a) = a /\ a \in Int
  <1>1. Wrap \in Nat /\ a \in Int /\ 0 <= a /\ a < Wrap
    BY HalfFacts DEF Stamp
  <1> DEFINE d == Mask(a)
  <1>2. d \in Int /\ 0 <= d /\ d < Wrap /\ Same(d, a)
    BY <1>1, MaskIsSame DEF Stamp
  <1> HIDE DEF d
  <1>3. d - a \in Turns /\ -Wrap < d - a /\ d - a < Wrap
    BY <1>1, <1>2 DEF Same
  <1>4. d - a = 0
    BY <1>3, LessThanATurn
  <1>5. d = a
    BY <1>1, <1>2, <1>4
  <1>6. QED
    BY <1>1, <1>5 DEF d
-----------------------------------------------------------------------------
(* What leaves is what is expected, or at most max_jump ahead of it.       *)
LEMMA SmoothedIsClose ==
  ASSUME NEW c \in Clocks, NEW stamp \in Stamp,
         clock[c].next \in Int, clock[c].valid
  PROVE  /\ Smoothed(c, stamp) \in Int
         /\ \E e \in 0 .. MaxJump : Same(Smoothed(c, stamp), clock[c].next + e)
  <1> DEFINE n == clock[c].next  d == Delta(stamp, n)
  <1>0. stamp \in Int /\ n \in Int /\ MaxJump \in Nat
    BY StampIsItself, TickFacts
  <1>1. d \in Int /\ Same(stamp - n, d)
    BY <1>0, DeltaTyped
  <1>2. CASE Outlier(c, stamp)
    <2>1. Smoothed(c, stamp) = n
      BY <1>2 DEF Smoothed
    <2>2. 0 \in 0 .. MaxJump /\ n + 0 = n
      BY <1>0
    <2>3. Same(n, n + 0)
      BY <1>0, <2>2, SameIsEquivalence
    <2> HIDE DEF n
    <2>4. QED
      BY <1>0, <2>1, <2>2, <2>3 DEF n
  <1>3. CASE ~Outlier(c, stamp)
    <2>1. Smoothed(c, stamp) = stamp
      BY <1>3 DEF Smoothed
    <2>2. ~(d < 0) /\ ~(d > MaxJump)
      BY <1>3 DEF Outlier
    <2> HIDE DEF d
    <2>3. d \in 0 .. MaxJump
      BY <1>0, <1>1, <2>2
    <2>4. Same(n, n) /\ d \in Int
      BY <1>0, <1>1, SameIsEquivalence
    <2>5. Same((stamp - n) + n, d + n)
      BY <1>0, <1>1, <2>4, SameSums
    <2> HIDE DEF n
    <2>6. (stamp - n) + n = stamp /\ d + n = n + d
      BY <1>0, <1>1
    <2>7. QED
      BY <1>0, <2>1, <2>3, <2>5, <2>6 DEF n
  <1>4. QED
    BY <1>2, <1>3

(* The stamps of two moments of a clock are as far apart as the moments.   *)
LEMMA DeltaOfMasks ==
  ASSUME NEW a \in Int, NEW b \in Int, NEW x \in Int, NEW y \in Int, NEW e \in Int,
         Same(x, a), Same(y, b), Same(a, b + e), -Half < e, e <= Half
  PROVE  Delta(x, y) = e
  <1>1. b + e \in Int /\ Same(x, b + e)
    BY SameIsEquivalence
  <1>2. Same(x - y, (b + e) - b)
    BY <1>1, SameSums
  <1>3. (b + e) - b = e
    OBVIOUS
  <1>4. QED
    BY <1>2, <1>3, DeltaIs

ClocksTyped == clock \in [Clocks -> [valid : BOOLEAN, next : Int]] /\ out \in [Clocks -> Int]
LastIsOut ==
    \A c \in Clocks : out[c] # NoStamp => clock[c].valid /\ Same(out[c], clock[c].next - Tick)
ForwardInv == ClocksTyped /\ LastIsOut

Forward(c) ==
    out[c] # NoStamp /\ clock[c] # clock'[c] /\ clock'[c].valid
        => Delta(out'[c], out[c]) \in Tick .. Tick + MaxJump

LEMMA ForwardAtStart == Init => ForwardInv
  BY DEF Init, ForwardInv, ClocksTyped, LastIsOut, NoClock, NoStamp

LEMMA SmoothRunsForward ==
  ASSUME ForwardInv, NEW c \in Clocks, NEW stamp \in Stamp, NEW dts, NEW damaged,
         Smooth(c, stamp, dts, damaged)
  PROVE  ForwardInv' /\ \A b \in Clocks : Forward(b)
  <1> DEFINE s == Smoothed(c, stamp)  n == clock[c].next
  <1>0. n \in Int /\ Tick \in Nat /\ MaxJump \in Nat /\ Tick + MaxJump < Half /\ Half \in Nat
        /\ Tick > 0
    BY TickFacts, HalfFacts DEF ForwardInv, ClocksTyped
  <1>1. s \in Int
    BY <1>0, StampIsItself DEF Smoothed
  <1>2. clock' = [clock EXCEPT ![c] = Advanced(c, stamp)] /\ out' = [out EXCEPT ![c] = Mask(s)]
    BY DEF Smooth
  <1>3. Advanced(c, stamp) = [valid |-> TRUE, next |-> s + Tick]
    BY DEF Advanced
  <1> HIDE DEF s, n
  <1>4. Advanced(c, stamp) \in [valid : BOOLEAN, next : Int]
    BY <1>0, <1>1, <1>3
  <1>5. Mask(s) \in Int /\ Same(Mask(s), s)
    BY <1>1, MaskIsSame
  <1>6. ClocksTyped'
    BY <1>2, <1>4, <1>5 DEF ClocksTyped, ForwardInv
  <1>7. clock'[c] = Advanced(c, stamp) /\ out'[c] = Mask(s)
    BY <1>2 DEF ClocksTyped, ForwardInv
  <1>8. ASSUME NEW b \in Clocks, b # c PROVE clock'[b] = clock[b] /\ out'[b] = out[b]
    BY <1>2, <1>8 DEF ClocksTyped, ForwardInv
  <1>9. clock'[c].valid /\ Same(out'[c], clock'[c].next - Tick)
    <2>1. clock'[c].next = s + Tick /\ clock'[c].valid
      BY <1>3, <1>7
    <2>2. (s + Tick) - Tick = s
      BY <1>0, <1>1
    <2>3. QED
      BY <1>5, <1>7, <2>1, <2>2
  <1>10. LastIsOut'
    BY <1>8, <1>9 DEF LastIsOut, ForwardInv
  <1>11. Forward(c)
    <2> SUFFICES ASSUME out[c] # NoStamp
                 PROVE  Delta(out'[c], out[c]) \in Tick .. Tick + MaxJump
      BY DEF Forward
    <2>1. clock[c].valid /\ Same(out[c], n - Tick) /\ out[c] \in Int
      BY DEF ForwardInv, LastIsOut, ClocksTyped, n
    <2>2. PICK e \in 0 .. MaxJump : Same(s, n + e)
      BY <1>0, <2>1, SmoothedIsClose DEF s, n
    <2>3. n + e = (n - Tick) + (e + Tick) /\ n - Tick \in Int /\ e + Tick \in Int
          /\ -Half < e + Tick /\ e + Tick <= Half /\ e + Tick \in Tick .. Tick + MaxJump
      BY <1>0
    <2>4. Delta(Mask(s), out[c]) = e + Tick
      BY <1>1, <1>5, <2>1, <2>2, <2>3, DeltaOfMasks
    <2>5. QED
      BY <1>7, <2>3, <2>4
  <1>12. ASSUME NEW b \in Clocks PROVE Forward(b)
    BY <1>8, <1>11 DEF Forward
  <1>13. QED
    BY <1>6, <1>10, <1>12 DEF ForwardInv

SenderTyped == truth \in [Clocks -> Stamp]

LEMMA NowTyped ==
  ASSUME SenderTyped, NEW c \in Clocks, NEW step \in Steps
  PROVE  truth[c] \in Int /\ step \in Nat /\ truth[c] + step \in Int
         /\ Mask(truth[c] + step) \in Stamp
  <1>1. truth[c] \in Int /\ step \in Nat
    BY StampIsItself, SenderAssumption DEF SenderTyped
  <1>2. truth[c] + step \in Int
    BY <1>1
  <1>3. QED
    BY <1>1, <1>2, MaskIsSame

LEMMA SenderTypedAtStart == Init => SenderTyped
  BY SenderAssumption DEF Init, SenderTyped, Stamp

LEMMA SenderTypedStep == SenderTyped /\ [Next]_vars => SenderTyped'
  <1> SUFFICES ASSUME SenderTyped, [Next]_vars PROVE SenderTyped'
    OBVIOUS
  <1>1. ASSUME NEW c \in Clocks, NEW step \in Steps, NEW early \in Reorder, Good(c, step, early)
        PROVE  SenderTyped'
    BY <1>1, NowTyped DEF Good, SenderTyped
  <1>2. ASSUME NEW c \in Clocks, NEW step \in Steps, NEW stamp \in Stamp, Damaged(c, step, stamp)
        PROVE  SenderTyped'
    BY <1>2, NowTyped DEF Damaged, SenderTyped
  <1>3. ASSUME NEW c \in Clocks, NEW step \in Steps, Missing(c, step)
        PROVE  SenderTyped'
    BY <1>3, NowTyped DEF Missing, SenderTyped
  <1>4. CASE Reset
    BY <1>4 DEF Reset, SenderTyped
  <1>5. CASE UNCHANGED vars
    BY <1>5 DEF vars, SenderTyped
  <1>6. QED
    BY <1>1, <1>2, <1>3, <1>4, <1>5 DEF Next

LEMMA ForwardStep ==
  ASSUME ForwardInv, SenderTyped, [Next]_vars
  PROVE  ForwardInv' /\ \A c \in Clocks : Forward(c)
  <1>0. ASSUME clock' = clock, out' = out
        PROVE  ForwardInv' /\ \A c \in Clocks : Forward(c)
    BY <1>0 DEF ForwardInv, ClocksTyped, LastIsOut, Forward
  <1>1. ASSUME NEW c \in Clocks, NEW step \in Steps, NEW early \in Reorder, Good(c, step, early)
        PROVE  ForwardInv' /\ \A b \in Clocks : Forward(b)
    <2> DEFINE now == Mask(truth[c] + step)
    <2>1. now \in Stamp /\ Smooth(c, now, Mask(now - early), FALSE)
      BY <1>1, NowTyped DEF Good
    <2> HIDE DEF now
    <2>2. QED
      BY <2>1, SmoothRunsForward
  <1>2. ASSUME NEW c \in Clocks, NEW step \in Steps, NEW stamp \in Stamp, Damaged(c, step, stamp)
        PROVE  ForwardInv' /\ \A b \in Clocks : Forward(b)
    <2>1. Smooth(c, stamp, Mask(truth[c] + step), TRUE)
      BY <1>2 DEF Damaged
    <2>2. QED
      BY <2>1, SmoothRunsForward
  <1>3. ASSUME NEW c \in Clocks, NEW step \in Steps, Missing(c, step)
        PROVE  ForwardInv' /\ \A b \in Clocks : Forward(b)
    BY <1>0, <1>3 DEF Missing
  <1>4. CASE Reset
    BY <1>4 DEF Reset, ForwardInv, ClocksTyped, LastIsOut, Forward, NoClock, NoStamp
  <1>5. CASE UNCHANGED vars
    BY <1>0, <1>5 DEF vars
  <1>6. QED
    BY <1>1, <1>2, <1>3, <1>4, <1>5 DEF Next

(* Whatever arrives, the stamps that leave run forward, each by a frame at *)
(* least and by a frame and max_jump at most, also where they wrap         *)
(* (scatterfix.c:215-274), for every wrap, frame and jump.                 *)
THEOREM StampsRunForward == Spec => RunsForward
  <1>1. ForwardInv /\ SenderTyped /\ [Next]_vars => ForwardInv'
    BY ForwardStep
  <1>2. ForwardInv /\ SenderTyped /\ [Next]_vars =>
          [\A c \in Clocks :
             out[c] # NoStamp /\ clock[c] # clock'[c] /\ clock'[c].valid
                => Delta(out'[c], out[c]) \in Tick .. Tick + MaxJump]_vars
    BY ForwardStep DEF Forward
  <1>3. QED
    BY <1>1, <1>2, ForwardAtStart, SenderTypedAtStart, SenderTypedStep, PTL DEF Spec, RunsForward
-----------------------------------------------------------------------------
(* The sender advances by a frame at least, and by less than half a turn   *)
(* of its clock.                                                           *)
SendsFrames == Steps \subseteq Tick .. Half - MaxJump

(* Without wild damage, and of a clock that an undamaged stamp has started, *)
(* the sender is never behind what is expected: where it is was written    *)
(* last, or is ahead of it.                                                *)
Ahead(c) == \E e \in 0 .. MaxJump + Tick : Same(truth[c], (clock[c].next - Tick) + e)
SenderIsAhead == ~wild => \A c \in sound : clock[c].valid /\ Ahead(c)
HealInv == ForwardInv /\ SenderTyped /\ sound \subseteq Clocks /\ SenderIsAhead /\ Healed

(* What the sender's clock shows next is expected, or is in reach.         *)
LEMMA NowIsExpected ==
  ASSUME SendsFrames, ForwardInv, SenderTyped, SenderIsAhead, ~wild,
         NEW c \in Clocks, NEW step \in Steps, c \in sound,
         InReach(c, Mask(truth[c] + step))
  PROVE  \E d \in 0 .. MaxJump : /\ Delta(Mask(truth[c] + step), clock[c].next) = d
                                 /\ Same(Mask(truth[c] + step), clock[c].next + d)
  <1> DEFINE t == truth[c]  n == clock[c].next  now == Mask(t + step)
  <1>0. n \in Int /\ Tick \in Nat /\ MaxJump \in Nat /\ Tick + MaxJump < Half /\ Half \in Nat
    BY TickFacts, HalfFacts DEF ForwardInv, ClocksTyped
  <1>1. t \in Int /\ step \in Nat /\ t + step \in Int /\ now \in Int /\ Same(now, t + step)
    BY NowTyped, MaskIsSame
  <1>2. Tick <= step /\ step <= Half - MaxJump
    BY <1>0, <1>1 DEF SendsFrames
  <1>3. PICK e \in 0 .. MaxJump + Tick : Same(t, (n - Tick) + e)
    BY DEF SenderIsAhead, Ahead
  <1>4. Delta(now, n) <= MaxJump
    BY DEF InReach
  <1> DEFINE d == (e + step) - Tick
  <1> HIDE DEF t, n, now
  <1>5. e \in Int /\ d \in Int /\ 0 <= d /\ d <= Half
    BY <1>0, <1>1, <1>2
  <1>6. ((n - Tick) + e) + step = n + d /\ (n - Tick) + e \in Int /\ n + d \in Int
    BY <1>0, <1>1, <1>5
  <1> HIDE DEF d
  <1>7. Same(t + step, n + d)
    <2>1. Same(step, step) /\ step \in Int
      BY <1>1, SameIsEquivalence
    <2>2. QED
      BY <1>1, <1>3, <1>6, <2>1, SameSums
  <1>8. Same(now, n + d)
    BY <1>1, <1>6, <1>7, SameIsEquivalence
  <1>9. Delta(now, n) = d
    <2>1. Same(now - n, (n + d) - n)
      BY <1>0, <1>1, <1>6, <1>8, SameIsEquivalence, SameSums
    <2>2. (n + d) - n = d /\ -Half < d
      BY <1>0, <1>5, HalfFacts
    <2>3. QED
      BY <1>0, <1>1, <1>5, <2>1, <2>2, DeltaIs
  <1>10. d \in 0 .. MaxJump
    BY <1>0, <1>4, <1>5, <1>9
  <1>11. QED
    BY <1>8, <1>9, <1>10 DEF now, t, n

(* The clock is one frame ahead of what was written.                       *)
LEMMA SmoothSetsTheClock ==
  ASSUME ForwardInv, NEW c \in Clocks, NEW stamp, NEW dts, NEW damaged,
         Smooth(c, stamp, dts, damaged)
  PROVE  /\ clock'[c].next = Smoothed(c, stamp) + Tick
         /\ clock'[c].valid
         /\ \A b \in Clocks \ {c} : clock'[b] = clock[b]
         /\ wild' = wild
  BY DEF Smooth, Advanced, ForwardInv, ClocksTyped

(* Only an undamaged stamp, the first of its clock, makes a clock sound.   *)
LEMMA SoundAfter ==
  ASSUME NEW c, NEW stamp, NEW dts, NEW damaged \in BOOLEAN, Smooth(c, stamp, dts, damaged)
  PROVE  /\ sound \subseteq sound' /\ sound' \subseteq sound \cup {c}
         /\ c \in sound' => c \in sound \/ (~clock[c].valid /\ ~damaged)
  BY DEF Smooth

LEMMA OthersStayAhead ==
  ASSUME SenderTyped, sound \subseteq Clocks, SenderIsAhead, ~wild, NEW c \in Clocks, NEW now,
         truth' = [truth EXCEPT ![c] = now],
         \A b \in Clocks \ {c} : clock'[b] = clock[b],
         sound' \subseteq sound \cup {c},
         c \in sound' => clock'[c].valid /\ Ahead(c)'
  PROVE  SenderIsAhead'
  <1>1. ASSUME NEW b \in sound' PROVE clock'[b].valid /\ Ahead(b)'
    <2>1. CASE b = c
      BY <1>1, <2>1
    <2>2. CASE b # c
      <3>1. b \in sound /\ b \in Clocks \ {c}
        BY <1>1, <2>2
      <3>2. clock'[b] = clock[b] /\ truth'[b] = truth[b] /\ clock[b].valid /\ Ahead(b)
        BY <3>1 DEF SenderTyped, SenderIsAhead
      <3>3. QED
        BY <3>2 DEF Ahead
    <2>3. QED
      BY <2>1, <2>2
  <1>2. QED
    BY <1>1 DEF SenderIsAhead

LEMMA AheadAfter ==
  ASSUME NEW c \in Clocks, NEW e \in 0 .. MaxJump + Tick, NEW n \in Int,
         clock'[c].next = n + Tick, Same(truth'[c], n + e)
  PROVE  Ahead(c)'
  <1>1. (n + Tick) - Tick = n
    BY TickFacts
  <1>2. Same(truth'[c], (clock'[c].next - Tick) + e)
    BY <1>1
  <1>3. QED
    BY <1>2 DEF Ahead

(* An undamaged packet of a sound clock leaves as it came.                 *)
LEMMA GoodPasses ==
  ASSUME SendsFrames, HealInv, ~wild,
         NEW c \in Clocks, NEW step \in Steps, NEW early \in Reorder, Good(c, step, early),
         c \in sound'
  PROVE  LET now == Mask(truth[c] + step) IN
         /\ ~Outlier(c, now)
         /\ last'.kept /\ last'.keptDts
  <1> DEFINE now == Mask(truth[c] + step)  dts == Mask(now - early)
  <1>0. now \in Stamp /\ now \in Int /\ Mask(now) = now
    BY NowTyped, StampIsItself DEF HealInv
  <1>1. InReach(c, now) /\ Smooth(c, now, dts, FALSE)
    BY DEF Good
  <1>2. ~Outlier(c, now)
    <2>1. CASE c \notin sound
      BY <1>1, <2>1, SoundAfter DEF Outlier
    <2>2. CASE c \in sound
      <3>1. PICK d \in 0 .. MaxJump : Delta(now, clock[c].next) = d
        BY <1>1, <2>2, NowIsExpected DEF HealInv
      <3> HIDE DEF now
      <3>2. ~(Delta(now, clock[c].next) < 0) /\ ~(Delta(now, clock[c].next) > MaxJump)
        BY <3>1, TickFacts
      <3>3. QED
        BY <3>2 DEF Outlier, now
    <2>3. QED
      BY <2>1, <2>2
  <1> HIDE DEF now
  <1>3. Smoothed(c, now) = now
    BY <1>2 DEF Smoothed
  <1>4. early \in Int /\ 0 <= early /\ early <= MaxJump /\ now - early \in Int /\ MaxJump < Half
        /\ MaxJump \in Nat /\ Half \in Nat
    BY <1>0, SenderAssumption, TickFacts, HalfFacts
  <1>5. dts \in Stamp /\ dts \in Int /\ Same(dts, now - early) /\ Mask(dts) = dts
    BY <1>4, MaskIsSame, StampIsItself
  <1> HIDE DEF dts
  <1>6. Delta(dts, now) = -early
    <2>1. Same(dts - now, (now - early) - now)
      BY <1>0, <1>4, <1>5, SameIsEquivalence, SameSums
    <2>2. (now - early) - now = -early /\ -early \in Int /\ -Half < -early /\ -early <= Half
      BY <1>0, <1>4
    <2>3. QED
      BY <1>0, <1>5, <2>1, <2>2, DeltaIs
  <1>7. ~Far(dts, now)
    <2>1. ~(-early < -MaxJump) /\ ~(-early > MaxJump)
      BY <1>4
    <2>2. QED
      BY <1>6, <2>1 DEF Far
  <1>8. last'.kept = (Mask(Smoothed(c, now)) = now)
    BY <1>1 DEF Smooth
  <1>9. last'.keptDts = (c = "pts" => Mask(SmoothedDts(now, dts)) = dts)
    BY <1>1 DEF Smooth
  <1>10. c = "pts" => SmoothedDts(now, dts) = dts
    BY <1>2, <1>3, <1>7 DEF SmoothedDts
  <1>11. QED
    BY <1>0, <1>2, <1>3, <1>5, <1>8, <1>9, <1>10 DEF now

LEMMA GoodHeals ==
  ASSUME SendsFrames, HealInv, ~wild,
         NEW c \in Clocks, NEW step \in Steps, NEW early \in Reorder, Good(c, step, early)
  PROVE  SenderIsAhead' /\ Healed'
  <1> DEFINE now == Mask(truth[c] + step)
  <1>0. now \in Int /\ Tick \in Nat /\ MaxJump \in Nat
    BY NowTyped, StampIsItself, TickFacts DEF HealInv
  <1>1. Smooth(c, now, Mask(now - early), FALSE) /\ truth' = [truth EXCEPT ![c] = now]
    BY DEF Good
  <1>2. sound' \subseteq sound \cup {c}
    BY <1>1, SoundAfter
  <1>3. Healed'
    <2>1. last'.sound = (c \in sound')
      BY <1>1 DEF Smooth
    <2>2. QED
      BY <2>1, GoodPasses DEF Healed
  <1>4. ASSUME c \in sound' PROVE clock'[c].valid /\ Ahead(c)'
    <2>1. Smoothed(c, now) = now
      BY <1>4, GoodPasses DEF Smoothed
    <2> HIDE DEF now
    <2>2. clock'[c].next = now + Tick /\ clock'[c].valid
      BY <1>1, <2>1, SmoothSetsTheClock DEF HealInv
    <2>3. truth'[c] = now
      BY <1>1 DEF HealInv, SenderTyped
    <2>4. Same(now, now + 0) /\ 0 \in 0 .. MaxJump + Tick
      <3>1. now + 0 = now
        BY <1>0
      <3>2. QED
        BY <1>0, <3>1, SameIsEquivalence
    <2>5. QED
      BY <1>0, <2>2, <2>3, <2>4, AheadAfter
  <1>5. \A b \in Clocks \ {c} : clock'[b] = clock[b]
    BY <1>1, SmoothSetsTheClock DEF HealInv
  <1> HIDE DEF now
  <1>6. SenderIsAhead'
    BY <1>1, <1>2, <1>4, <1>5, OthersStayAhead DEF HealInv
  <1>7. QED
    BY <1>3, <1>6

(* A stamp that is far away is replaced by the expected one, and the       *)
(* sender is no further ahead than it was of that.                         *)
LEMMA DamageIsLeft ==
  ASSUME SendsFrames, HealInv, ~wild,
         NEW c \in Clocks, NEW step \in Steps, NEW stamp \in Stamp, Damaged(c, step, stamp)
  PROVE  SenderIsAhead' /\ Healed'
  <1> DEFINE now == Mask(truth[c] + step)  n == clock[c].next
  <1>0. now \in Int /\ n \in Int /\ Tick \in Nat /\ MaxJump \in Nat
    BY NowTyped, StampIsItself, TickFacts DEF HealInv, ForwardInv, ClocksTyped
  <1>1. Smooth(c, stamp, now, TRUE) /\ truth' = [truth EXCEPT ![c] = now] /\ InReach(c, now)
    BY DEF Damaged
  <1>2. sound' = sound
    BY <1>1 DEF Smooth
  <1>3. ASSUME c \in sound PROVE clock'[c].valid /\ Ahead(c)'
    <2>1. clock[c].valid /\ Far(stamp, n)
      BY <1>3 DEF HealInv, SenderIsAhead, Damaged
    <2>2. Outlier(c, stamp)
      <3>1. Delta(stamp, n) \in Int
        BY <1>0, StampIsItself, DeltaTyped
      <3>2. Delta(stamp, n) < 0 \/ Delta(stamp, n) > MaxJump
        BY <1>0, <2>1, <3>1 DEF Far
      <3>3. QED
        BY <2>1, <3>2 DEF Outlier
    <2>3. Smoothed(c, stamp) = n
      BY <2>2 DEF Smoothed
    <2>4. PICK d \in 0 .. MaxJump : Same(now, n + d)
      BY <1>1, <1>3, NowIsExpected DEF HealInv
    <2> HIDE DEF now, n
    <2>5. clock'[c].next = n + Tick /\ clock'[c].valid
      BY <1>1, <2>3, SmoothSetsTheClock DEF HealInv
    <2>6. truth'[c] = now /\ d \in 0 .. MaxJump + Tick
      BY <1>0, <1>1 DEF HealInv, SenderTyped
    <2>7. QED
      BY <1>0, <2>4, <2>5, <2>6, AheadAfter
  <1>4. \A b \in Clocks \ {c} : clock'[b] = clock[b]
    BY <1>1, SmoothSetsTheClock DEF HealInv
  <1> HIDE DEF now, n
  <1>5. SenderIsAhead'
    BY <1>1, <1>2, <1>3, <1>4, OthersStayAhead DEF HealInv
  <1>6. last'.damaged
    BY <1>1 DEF Smooth
  <1>7. QED
    BY <1>5, <1>6 DEF Healed

LEMMA LossIsLeft ==
  ASSUME SendsFrames, HealInv, ~wild,
         NEW c \in Clocks, NEW step \in Steps, Missing(c, step)
  PROVE  SenderIsAhead' /\ Healed'
  <1> DEFINE now == Mask(truth[c] + step)  n == clock[c].next
  <1>0. now \in Int /\ n \in Int /\ Tick \in Nat /\ MaxJump \in Nat
    BY NowTyped, StampIsItself, TickFacts DEF HealInv, ForwardInv, ClocksTyped
  <1>1. truth' = [truth EXCEPT ![c] = now] /\ clock[c].valid /\ InReach(c, now)
        /\ clock' = clock /\ sound' = sound
    BY DEF Missing, HealInv, SenderTyped
  <1>2. ASSUME c \in sound PROVE clock'[c].valid /\ Ahead(c)'
    <2>1. PICK d \in 0 .. MaxJump : Same(now, n + d)
      BY <1>1, <1>2, NowIsExpected DEF HealInv
    <2> HIDE DEF now
    <2>2. clock'[c].next = n /\ truth'[c] = now
      BY <1>1 DEF HealInv, SenderTyped
    <2> HIDE DEF n
    <2>3. d + Tick \in 0 .. MaxJump + Tick /\ (n - Tick) + (d + Tick) = n + d
      BY <1>0
    <2>4. QED
      BY <1>1, <2>1, <2>2, <2>3 DEF Ahead
  <1> HIDE DEF now, n
  <1>3. SenderIsAhead'
    BY <1>1, <1>2, OthersStayAhead DEF HealInv
  <1>4. wild' = wild /\ last' = last
    BY DEF Missing
  <1>5. QED
    BY <1>3, <1>4 DEF Healed, HealInv

LEMMA HealStep == SendsFrames /\ HealInv /\ [Next]_vars => HealInv'
  <1> SUFFICES ASSUME SendsFrames, HealInv, [Next]_vars PROVE HealInv'
    OBVIOUS
  <1>1. ForwardInv'
    BY ForwardStep DEF HealInv
  <1>2. SenderTyped'
    BY SenderTypedStep DEF HealInv
  <1>3. wild' = wild /\ sound' \subseteq Clocks
    BY DEF Next, Good, Damaged, Missing, Smooth, Reset, vars, HealInv
  <1>4. SenderIsAhead' /\ Healed'
    <2>1. CASE wild
      BY <1>3, <2>1 DEF SenderIsAhead, Healed
    <2>2. CASE ~wild /\ Next
      <3>1. CASE Reset
        BY <3>1 DEF Reset, Nothing, SenderIsAhead, Healed
      <3>2. QED
        BY <2>2, <3>1, GoodHeals, DamageIsLeft, LossIsLeft DEF Next
    <2>3. CASE UNCHANGED vars
      BY <2>3 DEF vars, HealInv, SenderIsAhead, Ahead, Healed
    <2>4. QED
      BY <2>1, <2>2, <2>3
  <1>5. QED
    BY <1>1, <1>2, <1>3, <1>4 DEF HealInv

(* Large damage heals: after and between damaged stamps an undamaged one   *)
(* leaves as it came, and so does its DTS (scatterfix.c:215-274), for      *)
(* every clock, jump and damage, if the sender advances by frames and by   *)
(* less than half a turn, and unless the stamp that set the clock, the     *)
(* first since the start or the reset, was damaged (see Healed).           *)
THEOREM DamageHeals ==
  ASSUME SendsFrames
  PROVE  Spec => []Healed
  <1>1. Init => HealInv
    <2>1. Init => sound \subseteq Clocks /\ SenderIsAhead /\ Healed
      BY DEF Init, Nothing, SenderIsAhead, Healed
    <2>2. QED
      BY <2>1, ForwardAtStart, SenderTypedAtStart DEF HealInv
  <1>2. HealInv /\ [Next]_vars => HealInv'
    BY HealStep
  <1>3. HealInv => Healed
    BY DEF HealInv
  <1>4. QED
    BY <1>1, <1>2, <1>3, PTL DEF Spec
=============================================================================
