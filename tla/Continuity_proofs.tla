-------------------------- MODULE Continuity_proofs --------------------------
(***************************************************************************)
(* What the two loss counts mean, for streams of any length: while no      *)
(* burst exceeds what a counter of four bits shows and no packet arrived   *)
(* late, the tracker of recovery.c counts the packets lost and the one of  *)
(* continuity.c counts one more for every burst; and what a jump that      *)
(* only continuity.c is told of may cost the other tracker.  And no loss   *)
(* of up to fifteen packets, however long the stream, goes unnoticed.      *)
(***************************************************************************)
EXTENDS Continuity, TLAPS

(* Both trackers know the last counter that arrived, but for a jump        *)
(* announced without payload; and without late packets the sender is ahead *)
(* of it by the packets lost since.                                        *)
InStep ==
    /\ stats.seen /\ silents = 0 => feats.last = stats.last
    /\ stats.seen /\ lates = 0 => next = Plus(stats.last, 1 + gone)
    /\ ~stats.seen => feats.last = -1

ExactCount ==
    lates = 0 /\ silents = 0 /\ longest <= 8 =>
        /\ feats.missing = lost
        /\ feats.errors = bursts + repeats
        /\ feats.outOfOrder = 0

(* A jump that recovery.c was not told of is an error it has yet to count. *)
OutOfStep == feats.last # -1 /\ feats.last # stats.last
Charged ==
    lates = 0 =>
        feats.errors + (IF OutOfStep THEN 1 ELSE 0) <= bursts + repeats + silents

Inv == TypeOK /\ InStep /\ LossesCounted /\ ExactCount /\ Charged

LEMMA PlusType == \A cc \in Cc, n \in Int : Plus(cc, n) \in Cc
  BY DEF Plus, Cc

(* The distance the trackers compute is the number of packets lost.        *)
LEMMA DistanceIsLoss ==
  ASSUME NEW last \in Cc, NEW n \in 0 .. 8
  PROVE  LET cc == Plus(last, 1 + n) IN
         /\ n = 0 => cc = Plus(last, 1)
         /\ n > 0 => cc # Plus(last, 1) /\ cc # last
         /\ Plus(cc, -Plus(last, 1)) = n
         /\ Plus(cc, -(last + 1)) = n
  BY DEF Plus, Cc

LEMMA NextAfter ==
  ASSUME NEW last \in Cc, NEW n \in 0 .. 15
  PROVE  Plus(Plus(last, 1 + n), 1) = Plus(last, 1 + (n + 1))
  BY DEF Plus, Cc

LEMMA PlusZero == \A cc \in Cc : Plus(cc, 1 + 0) = Plus(cc, 1)
  BY DEF Plus, Cc

(* What each verdict does to the counts.                                   *)
LEMMA Verdicts ==
  ASSUME NEW s \in Stats, NEW cc \in Cc, NEW n \in Nat
  PROVE  /\ Follows(s, cc) \in Stats
         /\ Follows(s, cc).last = cc /\ (Follows(s, cc).seen <=> s.seen)
         /\ Follows(s, cc).missing = s.missing /\ Follows(s, cc).errors = s.errors
         /\ Follows(s, cc).outOfOrder = s.outOfOrder
         /\ Repeated(s) \in Stats
         /\ Repeated(s).last = s.last /\ (Repeated(s).seen <=> s.seen)
         /\ Repeated(s).missing = s.missing /\ Repeated(s).errors = s.errors + 1
         /\ Repeated(s).outOfOrder = s.outOfOrder
         /\ Delta(s, cc) = n =>
              /\ Gap(s, cc) \in Stats
              /\ Gap(s, cc).last = cc /\ (Gap(s, cc).seen <=> s.seen)
              /\ Gap(s, cc).missing = s.missing + n + 1 /\ Gap(s, cc).errors = s.errors + 1
              /\ Gap(s, cc).outOfOrder = s.outOfOrder
  <1>1. /\ s.last \in Cc /\ s.missing \in Nat /\ s.errors \in Nat
        /\ s.duplicates \in Nat /\ s.outOfOrder \in Nat
        /\ s.errors + 1 \in Nat /\ s.duplicates + 1 \in Nat
    BY DEF Stats
  <1>2. /\ Follows(s, cc) \in Stats
        /\ Follows(s, cc).last = cc /\ (Follows(s, cc).seen <=> s.seen)
        /\ Follows(s, cc).missing = s.missing /\ Follows(s, cc).errors = s.errors
        /\ Follows(s, cc).outOfOrder = s.outOfOrder
    BY DEF Follows, Stats
  <1>3. /\ Repeated(s) \in Stats
        /\ Repeated(s).last = s.last /\ (Repeated(s).seen <=> s.seen)
        /\ Repeated(s).missing = s.missing /\ Repeated(s).errors = s.errors + 1
        /\ Repeated(s).outOfOrder = s.outOfOrder
    <2>1. Repeated(s) \in Stats
      BY <1>1, Zenon DEF Repeated, Stats
    <2>2. Repeated(s).last = s.last /\ Repeated(s).missing = s.missing
      BY DEF Repeated, Stats
    <2>3. Repeated(s).errors = s.errors + 1
      BY DEF Repeated, Stats
    <2>4. Repeated(s).seen <=> s.seen
      BY DEF Repeated, Stats
    <2>5. Repeated(s).outOfOrder = s.outOfOrder
      BY DEF Repeated, Stats
    <2>6. QED
      BY <2>1, <2>2, <2>3, <2>4, <2>5, Zenon
  <1>4. ASSUME Delta(s, cc) = n
        PROVE  /\ Gap(s, cc) \in Stats
               /\ Gap(s, cc).last = cc /\ (Gap(s, cc).seen <=> s.seen)
               /\ Gap(s, cc).missing = s.missing + n + 1
               /\ Gap(s, cc).errors = s.errors + 1
               /\ Gap(s, cc).outOfOrder = s.outOfOrder
    <2>1. /\ s.missing + Counted(Delta(s, cc)) \in Nat
          /\ s.missing + Counted(Delta(s, cc)) = s.missing + n + 1
      BY <1>1, <1>4 DEF Counted
    <2>2. Gap(s, cc) \in Stats
      BY <1>1, <2>1, Zenon DEF Gap, Stats
    <2>3. Gap(s, cc).last = cc /\ Gap(s, cc).outOfOrder = s.outOfOrder
      BY DEF Gap, Stats
    <2>4. Gap(s, cc).errors = s.errors + 1
      BY DEF Gap, Stats
    <2>5. Gap(s, cc).seen <=> s.seen
      BY DEF Gap, Stats
    <2>6. Gap(s, cc).missing = s.missing + Counted(Delta(s, cc))
      BY DEF Gap, Stats
    <2>7. Gap(s, cc).missing = s.missing + n + 1
      BY <2>1, <2>6
    <2>8. QED
      BY <2>2, <2>3, <2>4, <2>5, <2>7, Zenon
  <1>5. QED
    BY <1>2, <1>3, <1>4, Zenon

LEMMA Weights ==
  ASSUME NEW f \in Features, NEW cc \in Cc, NEW n \in Nat
  PROVE  /\ Follows(f, cc) \in Features
         /\ Follows(f, cc).last = cc
         /\ Follows(f, cc).missing = f.missing /\ Follows(f, cc).errors = f.errors
         /\ Follows(f, cc).outOfOrder = f.outOfOrder
         /\ Again(f) \in Features
         /\ Again(f).last = f.last
         /\ Again(f).missing = f.missing /\ Again(f).errors = f.errors + 1
         /\ Again(f).outOfOrder = f.outOfOrder
         /\ Missed(f, cc, n) \in Features
         /\ Missed(f, cc, n).last = cc
         /\ Missed(f, cc, n).missing = f.missing + n
         /\ Missed(f, cc, n).errors = f.errors + 1
         /\ Missed(f, cc, n).outOfOrder = f.outOfOrder
  <1>1. f.missing \in Nat /\ f.errors \in Nat /\ f.last \in Cc \cup {-1}
    BY DEF Features
  <1>2. /\ Follows(f, cc).outOfOrder = f.outOfOrder
        /\ Again(f).outOfOrder = f.outOfOrder
        /\ Missed(f, cc, n).outOfOrder = f.outOfOrder
    BY DEF Follows, Again, Missed, Features
  <1>3. /\ Follows(f, cc) \in Features /\ Follows(f, cc).last = cc
        /\ Follows(f, cc).missing = f.missing /\ Follows(f, cc).errors = f.errors
    BY DEF Follows, Features
  <1>4. /\ Again(f) \in Features /\ Again(f).last = f.last
        /\ Again(f).missing = f.missing /\ Again(f).errors = f.errors + 1
    BY <1>1 DEF Again, Features
  <1>5. /\ Missed(f, cc, n) \in Features /\ Missed(f, cc, n).last = cc
        /\ Missed(f, cc, n).missing = f.missing + n
        /\ Missed(f, cc, n).errors = f.errors + 1
    <2> DEFINE m == f.missing + n
    <2>1. Missed(f, cc, n) = [f EXCEPT !.last = cc, !.errors = f.errors + 1, !.missing = m]
      BY DEF Missed, Features
    <2>2. m \in Nat /\ f.errors + 1 \in Nat
      BY <1>1
    <2> HIDE DEF m
    <2>3. /\ Missed(f, cc, n) \in Features /\ Missed(f, cc, n).last = cc
          /\ Missed(f, cc, n).missing = m /\ Missed(f, cc, n).errors = f.errors + 1
      BY <1>1, <2>1, <2>2, Zenon DEF Features
    <2>4. QED
      BY <2>3 DEF m
  <1>6. QED
    BY <1>2, <1>3, <1>4, <1>5

(* Judging the packet that follows n lost ones.                            *)
LEMMA JudgeAfterLoss ==
  ASSUME NEW s \in Stats, NEW n \in 0 .. 7, NEW cc \in Cc, cc = Plus(s.last, 1 + n)
  PROVE  /\ Judge(s, cc) \in Stats
         /\ Judge(s, cc).last = cc /\ (Judge(s, cc).seen <=> s.seen)
         /\ Judge(s, cc).outOfOrder = s.outOfOrder
         /\ Judge(s, cc).missing = IF n = 0 THEN s.missing ELSE s.missing + n + 1
         /\ Judge(s, cc).errors = IF n = 0 THEN s.errors ELSE s.errors + 1
  <1>1. s.last \in Cc
    BY DEF Stats
  <1>2. CASE n = 0
    <2>1. Judge(s, cc) = Follows(s, cc)
      BY <1>1, <1>2, DistanceIsLoss DEF Judge
    <2>2. QED
      BY <1>2, <2>1, Verdicts
  <1>3. CASE n > 0
    <2>1. Delta(s, cc) = n /\ cc # s.last /\ cc # Plus(s.last, 1)
      BY <1>1, <1>3, DistanceIsLoss DEF Delta
    <2>2. Judge(s, cc) = Gap(s, cc)
      BY <2>1 DEF Judge, IsGap
    <2>3. n \in Nat
      OBVIOUS
    <2>4. QED
      BY <1>3, <2>1, <2>2, <2>3, Verdicts
  <1>4. QED
    BY <1>2, <1>3

LEMMA WeighAfterLoss ==
  ASSUME NEW f \in Features, f.last \in Cc, NEW n \in 0 .. 8, NEW cc \in Cc,
         cc = Plus(f.last, 1 + n)
  PROVE  /\ Weigh(f, cc) \in Features /\ Weigh(f, cc).last = cc
         /\ Weigh(f, cc).missing = f.missing + n
         /\ Weigh(f, cc).outOfOrder = f.outOfOrder
         /\ Weigh(f, cc).errors = IF n = 0 THEN f.errors ELSE f.errors + 1
  <1>1. Plus(cc, -(f.last + 1)) = n
    BY DistanceIsLoss
  <1>2. n \in Nat /\ f.missing \in Nat
    BY DEF Features
  <1>3. CASE n = 0
    <2>1. Weigh(f, cc) = Follows(f, cc)
      BY <1>1, <1>3 DEF Weigh
    <2>2. QED
      BY <1>2, <1>3, <2>1, Weights
  <1>4. CASE n > 0
    <2>1. Weigh(f, cc) = Missed(f, cc, n)
      BY <1>1, <1>4 DEF Weigh
    <2>2. QED
      BY <1>2, <1>4, <2>1, Weights
  <1>5. QED
    BY <1>3, <1>4

(* Taking a packet as the new base.                                        *)
LEMMA Rebase ==
  ASSUME NEW s \in Stats, NEW cc \in Cc
  PROVE  /\ Based(s, cc) \in Stats /\ Based(s, cc).seen /\ Based(s, cc).last = cc
         /\ Based(s, cc).missing = s.missing /\ Based(s, cc).errors = s.errors
         /\ Based(s, cc).outOfOrder = s.outOfOrder
  BY DEF Based, Stats

(* A gap of eight or more is taken for a packet out of order.              *)
LEMMA SwappedTyped ==
  ASSUME NEW cc \in Cc
  PROVE  /\ \A s \in Stats : /\ Swapped(s, cc) \in Stats /\ Swapped(s, cc).last = cc
                             /\ Swapped(s, cc).seen <=> s.seen
         /\ \A f \in Features : Swapped(f, cc) \in Features /\ Swapped(f, cc).last = cc
  <1>1. ASSUME NEW s \in Stats
        PROVE  /\ Swapped(s, cc) \in Stats /\ Swapped(s, cc).last = cc
               /\ Swapped(s, cc).seen <=> s.seen
    <2>1. s.errors + 1 \in Nat /\ s.outOfOrder + 1 \in Nat
      BY DEF Stats
    <2>2. Swapped(s, cc) \in Stats
      BY <2>1, Zenon DEF Swapped, Stats
    <2>3. Swapped(s, cc).last = cc
      BY DEF Swapped, Stats
    <2>4. Swapped(s, cc).seen <=> s.seen
      BY DEF Swapped, Stats
    <2>5. QED
      BY <2>2, <2>3, <2>4, Zenon
  <1>2. ASSUME NEW f \in Features
        PROVE  Swapped(f, cc) \in Features /\ Swapped(f, cc).last = cc
    <2>1. f.errors + 1 \in Nat /\ f.outOfOrder + 1 \in Nat
      BY DEF Features
    <2>2. Swapped(f, cc) \in Features
      BY <2>1, Zenon DEF Swapped, Features
    <2>3. Swapped(f, cc).last = cc
      BY DEF Swapped, Features
    <2>4. QED
      BY <2>2, <2>3, Zenon
  <1>3. QED
    BY <1>1, <1>2, Zenon

(* Whatever arrives with payload becomes the last counter of both trackers. *)
LEMMA LastObserved ==
  ASSUME NEW s \in Stats, NEW cc \in Cc
  PROVE  \A announce \in BOOLEAN :
           /\ Observe(s, cc, TRUE, announce) \in Stats
           /\ Observe(s, cc, TRUE, announce).seen
           /\ Observe(s, cc, TRUE, announce).last = cc
  <1>1. ASSUME s.seen
        PROVE  /\ Judge(s, cc) \in Stats /\ Judge(s, cc).seen
               /\ Judge(s, cc).last = cc
    <2>1. Delta(s, cc) \in Nat
      BY DEF Delta, Plus, Stats, Cc
    <2>2. /\ Follows(s, cc) \in Stats /\ Follows(s, cc).last = cc
          /\ Follows(s, cc).seen <=> s.seen
          /\ Repeated(s) \in Stats /\ Repeated(s).last = s.last
          /\ Repeated(s).seen <=> s.seen
          /\ Gap(s, cc) \in Stats /\ Gap(s, cc).last = cc
          /\ Gap(s, cc).seen <=> s.seen
      BY <2>1, Verdicts
    <2>3. /\ Swapped(s, cc) \in Stats /\ Swapped(s, cc).last = cc
          /\ Swapped(s, cc).seen <=> s.seen
      BY SwappedTyped
    <2>4. \/ Judge(s, cc) = Follows(s, cc)
          \/ Judge(s, cc) = Repeated(s) /\ cc = s.last
          \/ Judge(s, cc) = Gap(s, cc)
          \/ Judge(s, cc) = Swapped(s, cc)
      BY DEF Judge
    <2>5. QED
      BY <1>1, <2>2, <2>3, <2>4, Zenon
  <1>2. Observe(s, cc, TRUE, TRUE) = Based(s, cc)
    BY DEF Observe, Ignored, NewBase
  <1>3. Observe(s, cc, TRUE, FALSE) = IF s.seen THEN Judge(s, cc) ELSE Based(s, cc)
    BY DEF Observe, Ignored, NewBase
  <1>4. Based(s, cc) \in Stats /\ Based(s, cc).seen /\ Based(s, cc).last = cc
    BY Rebase
  <1>5. QED
    BY <1>1, <1>2, <1>3, <1>4, Zenon

LEMMA LastEvaluated ==
  ASSUME NEW f \in Features, NEW cc \in Cc
  PROVE  \A announce \in BOOLEAN :
           /\ Evaluate(f, cc, TRUE, announce) \in Features
           /\ Evaluate(f, cc, TRUE, announce).last = cc
  <1>1. /\ Weigh(f, cc) \in Features
        /\ Weigh(f, cc).last = cc
    <2>1. DEFINE delta == Plus(cc, -(f.last + 1))
    <2>2. delta \in Nat
      BY DEF Plus, Features, Cc
    <2>3. /\ Follows(f, cc) \in Features /\ Follows(f, cc).last = cc
          /\ Again(f) \in Features /\ Again(f).last = f.last
          /\ Missed(f, cc, delta) \in Features /\ Missed(f, cc, delta).last = cc
      BY <2>2, Weights
    <2>4. Swapped(f, cc) \in Features /\ Swapped(f, cc).last = cc
      BY SwappedTyped
    <2>5. \/ Weigh(f, cc) = Follows(f, cc)
          \/ Weigh(f, cc) = Again(f) /\ cc = f.last
          \/ Weigh(f, cc) = Missed(f, cc, delta)
          \/ Weigh(f, cc) = Swapped(f, cc)
      BY DEF Weigh
    <2>6. QED
      BY <2>3, <2>4, <2>5, Zenon
  <1>2. /\ Evaluate(f, cc, TRUE, TRUE) = Follows(f, cc)
        /\ Evaluate(f, cc, TRUE, FALSE) = IF f.last < 0 THEN Follows(f, cc) ELSE Weigh(f, cc)
    BY DEF Evaluate
  <1>3. Follows(f, cc) \in Features /\ Follows(f, cc).last = cc
    BY Weights
  <1>4. QED
    BY <1>1, <1>2, <1>3, Zenon

LEMMA InvInit == Init => Inv
  <1> SUFFICES ASSUME Init PROVE Inv
    OBVIOUS
  <1>1. stats \in Stats /\ feats \in Features
    BY DEF Init, Stats, Features, Cc
  <1>2. next \in Cc
    BY BasesAssumption DEF Init, Cc
  <1>3. TypeOK
    BY <1>1, <1>2, BurstAssumption, PacketsAssumption DEF Init, TypeOK
  <1>4. InStep /\ LossesCounted /\ ExactCount /\ Charged
    BY DEF Init, InStep, LossesCounted, ExactCount, Charged, OutOfStep
  <1>5. QED
    BY <1>3, <1>4 DEF Inv

(* The types, and what the trackers know of the sender.                    *)
LEMMA TypeStep == TypeOK /\ InStep /\ [Next]_vars => TypeOK' /\ InStep'
  <1> SUFFICES ASSUME TypeOK, InStep, [Next]_vars PROVE TypeOK' /\ InStep'
    OBVIOUS
  <1>0. /\ next \in Cc /\ gone \in 0 .. MaxBurst /\ overtaken \subseteq Cc
        /\ stats \in Stats /\ feats \in Features /\ stats.last \in Cc
        /\ delivered \in 0 .. MaxPackets /\ lost \in Int /\ bursts \in Nat
        /\ longest \in 0 .. MaxBurst /\ repeats \in Nat /\ lates \in Nat
        /\ silents \in Nat
    BY DEF TypeOK, Stats
  <1>1. CASE UNCHANGED vars
    BY <1>1 DEF TypeOK, InStep, vars
  <1>2. CASE Lose
    <2>1. next' \in Cc /\ gone' = gone + 1 /\ gone' \in 0 .. MaxBurst
      BY <1>0, <1>2, PlusType, BurstAssumption DEF Lose
    <2>2. stats.seen /\ lates = 0 => next' = Plus(stats.last, 1 + gone')
      <3>1. gone \in 0 .. 15
        BY <1>0, BurstAssumption
      <3>2. QED
        BY <1>0, <1>2, <3>1, NextAfter DEF Lose, InStep
    <2>3. QED
      BY <1>2, <2>1, <2>2 DEF Lose, TypeOK, InStep
  <1>3. CASE Deliver
    <2>1. /\ stats' = Observe(stats, next, TRUE, FALSE)
          /\ feats' = Evaluate(feats, next, TRUE, FALSE)
          /\ gone' = 0 /\ next' = Plus(next, 1) /\ next' \in Cc
          /\ delivered' \in 0 .. MaxPackets
      BY <1>0, <1>3, PlusType, PacketsAssumption DEF Deliver, Arrives
    <2>2. /\ stats' \in Stats /\ stats'.seen /\ stats'.last = next
          /\ feats' \in Features /\ feats'.last = next
      <3>1. /\ Observe(stats, next, TRUE, FALSE) \in Stats
            /\ Observe(stats, next, TRUE, FALSE).seen
            /\ Observe(stats, next, TRUE, FALSE).last = next
        BY <1>0, LastObserved
      <3>2. /\ Evaluate(feats, next, TRUE, FALSE) \in Features
            /\ Evaluate(feats, next, TRUE, FALSE).last = next
        BY <1>0, LastEvaluated
      <3>3. QED
        BY <2>1, <3>1, <3>2, Zenon
    <2>3. overtaken' \subseteq Cc /\ gone' \in 0 .. MaxBurst
      BY <1>0, <1>3, PlusType, BurstAssumption DEF Deliver
    <2>4. /\ lost' \in Int /\ bursts' \in Nat /\ longest' \in 0 .. MaxBurst
          /\ repeats' = repeats /\ lates' = lates /\ silents' = silents
      BY <1>0, <1>3 DEF Deliver
    <2>5. TypeOK'
      BY <1>0, <2>1, <2>2, <2>3, <2>4, Zenon DEF TypeOK
    <2>6. InStep'
      BY <1>0, <2>1, <2>2, PlusZero DEF InStep
    <2>7. QED
      BY <2>5, <2>6
  <1>4. CASE Repeat
    <2>1. /\ stats' = Observe(stats, stats.last, TRUE, FALSE)
          /\ feats' = Evaluate(feats, stats.last, TRUE, FALSE)
          /\ stats.seen /\ delivered' \in 0 .. MaxPackets
          /\ UNCHANGED <<next, gone, overtaken, lost, bursts, longest, lates, silents>>
          /\ repeats' \in Nat
      BY <1>0, <1>4, PacketsAssumption DEF Repeat, Arrives, InStep, Cc
    <2>2. /\ stats' \in Stats /\ stats'.seen /\ stats'.last = stats.last
          /\ feats' \in Features /\ feats'.last = stats.last
      <3>1. /\ Observe(stats, stats.last, TRUE, FALSE) \in Stats
            /\ Observe(stats, stats.last, TRUE, FALSE).seen
            /\ Observe(stats, stats.last, TRUE, FALSE).last = stats.last
        BY <1>0, LastObserved
      <3>2. /\ Evaluate(feats, stats.last, TRUE, FALSE) \in Features
            /\ Evaluate(feats, stats.last, TRUE, FALSE).last = stats.last
        BY <1>0, LastEvaluated
      <3>3. QED
        BY <2>1, <3>1, <3>2, Zenon
    <2>3. TypeOK'
      BY <1>0, <2>1, <2>2, Zenon DEF TypeOK
    <2>4. InStep'
      BY <2>1, <2>2 DEF InStep
    <2>5. QED
      BY <2>3, <2>4
  <1>5. CASE Filler
    <2>1. stats' = stats /\ feats' = feats /\ delivered' \in 0 .. MaxPackets
      BY <1>0, <1>5, PacketsAssumption DEF Filler, Arrives, Observe, Ignored, Evaluate
    <2>2. QED
      BY <1>5, <2>1 DEF Filler, TypeOK, InStep
  <1>6. ASSUME NEW cc \in Cc, Late(cc) PROVE TypeOK' /\ InStep'
    <2>1. /\ stats' = Observe(stats, cc, TRUE, FALSE)
          /\ feats' = Evaluate(feats, cc, TRUE, FALSE)
          /\ delivered' \in 0 .. MaxPackets /\ overtaken' \subseteq Cc
          /\ lost' \in Int /\ lates' \in Nat /\ lates' # 0
          /\ UNCHANGED <<next, gone, bursts, longest, repeats, silents>>
      BY <1>0, <1>6, PacketsAssumption DEF Late, Arrives
    <2>2. /\ stats' \in Stats /\ stats'.seen /\ stats'.last = cc
          /\ feats' \in Features /\ feats'.last = cc
      <3>1. /\ Observe(stats, cc, TRUE, FALSE) \in Stats
            /\ Observe(stats, cc, TRUE, FALSE).seen
            /\ Observe(stats, cc, TRUE, FALSE).last = cc
        BY <1>0, LastObserved
      <3>2. /\ Evaluate(feats, cc, TRUE, FALSE) \in Features
            /\ Evaluate(feats, cc, TRUE, FALSE).last = cc
        BY <1>0, LastEvaluated
      <3>3. QED
        BY <2>1, <3>1, <3>2, Zenon
    <2>3. TypeOK'
      BY <1>0, <2>1, <2>2, Zenon DEF TypeOK
    <2>4. InStep'
      BY <2>1, <2>2 DEF InStep
    <2>5. QED
      BY <2>3, <2>4
  <1>7. ASSUME NEW cc \in Bases, Announce(cc) PROVE TypeOK' /\ InStep'
    <2>0. cc \in Cc
      BY BasesAssumption DEF Cc
    <2>1. /\ stats' = Observe(stats, cc, TRUE, TRUE)
          /\ feats' = Evaluate(feats, cc, TRUE, TRUE)
          /\ delivered' \in 0 .. MaxPackets
          /\ next' = Plus(cc, 1) /\ next' \in Cc /\ gone' = 0 /\ overtaken' \subseteq Cc
          /\ UNCHANGED <<lost, bursts, longest, repeats, lates, silents>>
      BY <1>0, <1>7, <2>0, PlusType, PacketsAssumption DEF Announce, Jump, Arrives
    <2>2. /\ stats' \in Stats /\ stats'.seen /\ stats'.last = cc
          /\ feats' \in Features /\ feats'.last = cc
      <3>1. /\ Observe(stats, cc, TRUE, TRUE) \in Stats
            /\ Observe(stats, cc, TRUE, TRUE).seen
            /\ Observe(stats, cc, TRUE, TRUE).last = cc
        BY <1>0, <2>0, LastObserved
      <3>2. /\ Evaluate(feats, cc, TRUE, TRUE) \in Features
            /\ Evaluate(feats, cc, TRUE, TRUE).last = cc
        BY <1>0, <2>0, LastEvaluated
      <3>3. QED
        BY <2>1, <3>1, <3>2, Zenon
    <2>3. gone' \in 0 .. MaxBurst
      BY <2>1, BurstAssumption
    <2>4. TypeOK'
      BY <1>0, <2>1, <2>2, <2>3, Zenon DEF TypeOK
    <2>5. InStep'
      BY <2>0, <2>1, <2>2, PlusZero DEF InStep
    <2>6. QED
      BY <2>4, <2>5
  <1>8. ASSUME NEW cc \in Bases, AnnounceSilently(cc) PROVE TypeOK' /\ InStep'
    <2>0. cc \in Cc
      BY BasesAssumption DEF Cc
    <2>1. /\ stats' = Based(stats, cc) /\ feats' = feats
          /\ delivered' \in 0 .. MaxPackets
          /\ next' = Plus(cc, 1) /\ next' \in Cc /\ gone' = 0 /\ overtaken' \subseteq Cc
          /\ UNCHANGED <<lost, bursts, longest, repeats, lates>> /\ silents' = silents + 1
      BY <1>0, <1>8, <2>0, PlusType, PacketsAssumption
      DEF AnnounceSilently, Jump, Arrives, Observe, Ignored, NewBase, Evaluate
    <2>2. stats' \in Stats /\ stats'.seen /\ stats'.last = cc
      BY <1>0, <2>0, <2>1, Rebase
    <2>3. gone' \in 0 .. MaxBurst /\ silents' \in Nat /\ silents' # 0
      BY <1>0, <2>1, BurstAssumption
    <2>4. TypeOK'
      BY <1>0, <2>1, <2>2, <2>3, Zenon DEF TypeOK
    <2>5. InStep'
      BY <2>0, <2>1, <2>2, <2>3, PlusZero DEF InStep
    <2>6. QED
      BY <2>4, <2>5
  <1>9. QED
    BY <1>1, <1>2, <1>3, <1>4, <1>5, <1>6, <1>7, <1>8 DEF Next

(* What one arrival adds to the two accounts.                              *)
LEMMA CountStep == Inv /\ [Next]_vars => LossesCounted' /\ ExactCount'
  <1> SUFFICES ASSUME Inv, [Next]_vars PROVE LossesCounted' /\ ExactCount'
    OBVIOUS
  <1>0. /\ next \in Cc /\ gone \in 0 .. 15 /\ longest \in 0 .. 15
        /\ stats \in Stats /\ feats \in Features /\ stats.last \in Cc
        /\ lost \in Int /\ bursts \in Nat /\ repeats \in Nat /\ lates \in Nat
        /\ silents \in Nat
        /\ stats.seen /\ silents = 0 => feats.last = stats.last
        /\ ~stats.seen => feats.last = -1
    BY BurstAssumption DEF Inv, TypeOK, Stats, InStep
  <1>1. CASE UNCHANGED vars
    BY <1>1 DEF Inv, LossesCounted, ExactCount, vars
  <1>2. CASE Lose
    BY <1>2 DEF Lose, Inv, LossesCounted, ExactCount
  <1>3. CASE Deliver
    <2>1. /\ stats' = Observe(stats, next, TRUE, FALSE)
          /\ feats' = Evaluate(feats, next, TRUE, FALSE)
          /\ repeats' = repeats /\ lates' = lates /\ silents' = silents
      BY <1>3 DEF Deliver, Arrives
    <2>2. CASE ~stats.seen
      <3>1. stats' = Based(stats, next)
        BY <2>1, <2>2 DEF Observe, Ignored, NewBase
      <3>2. feats' = Follows(feats, next)
        BY <1>0, <2>1, <2>2 DEF Evaluate
      <3>3. lost' = lost /\ bursts' = bursts /\ longest' = longest
        BY <1>3, <2>2 DEF Deliver
      <3>4. /\ stats'.missing = stats.missing /\ stats'.errors = stats.errors
            /\ stats'.outOfOrder = stats.outOfOrder
        BY <1>0, <3>1, Rebase
      <3>5. /\ feats'.missing = feats.missing /\ feats'.errors = feats.errors
            /\ feats'.outOfOrder = feats.outOfOrder
        BY <1>0, <3>2, Weights
      <3>6. QED
        BY <2>1, <3>3, <3>4, <3>5 DEF Inv, LossesCounted, ExactCount
    <2>3. CASE stats.seen
      <3>1. /\ lost' = lost + gone
            /\ bursts' = IF gone > 0 THEN bursts + 1 ELSE bursts
            /\ longest' = IF gone > longest THEN gone ELSE longest
        BY <1>3, <2>3 DEF Deliver
      <3>2. longest' \in 0 .. 15 /\ longest <= longest' /\ gone <= longest'
        BY <1>0, <3>1
      <3>3. lates' = 0 => next = Plus(stats.last, 1 + gone)
        BY <2>1, <2>3 DEF Inv, InStep
      <3>4. ASSUME lates' = 0, longest' <= 7
            PROVE  /\ stats'.missing = lost' + bursts'
                   /\ stats'.errors = bursts' + repeats'
                   /\ stats'.outOfOrder = 0
        <4>1. stats' = Judge(stats, next)
          BY <2>1, <2>3 DEF Observe, Ignored, NewBase
        <4>2. gone \in 0 .. 7
          BY <1>0, <3>2, <3>4
        <4>3. /\ stats'.outOfOrder = stats.outOfOrder
              /\ stats'.missing = IF gone = 0 THEN stats.missing ELSE stats.missing + gone + 1
              /\ stats'.errors = IF gone = 0 THEN stats.errors ELSE stats.errors + 1
          BY <1>0, <3>3, <3>4, <4>1, <4>2, JudgeAfterLoss
        <4>4. longest <= 7
          BY <1>0, <3>1, <3>4
        <4>5. /\ stats.missing = lost + bursts /\ stats.errors = bursts + repeats
              /\ stats.outOfOrder = 0
          BY <2>1, <3>4, <4>4 DEF Inv, LossesCounted
        <4>6. /\ lost \in Int /\ bursts \in Nat /\ repeats \in Nat /\ repeats' = repeats
              /\ lost' = lost + gone
          BY <1>0, <2>1, <3>1, Zenon
        <4>7. CASE gone = 0
          <5>1. /\ stats'.missing = stats.missing /\ stats'.errors = stats.errors
                /\ bursts' = bursts /\ lost' = lost
            BY <3>1, <4>3, <4>6, <4>7
          <5>2. QED
            BY <4>3, <4>5, <4>6, <5>1, Zenon
        <4>8. CASE gone > 0
          <5>1. /\ stats'.missing = stats.missing + gone + 1 /\ stats'.errors = stats.errors + 1
                /\ bursts' = bursts + 1
            BY <3>1, <4>2, <4>3, <4>8
          <5>2. QED
            BY <4>2, <4>3, <4>5, <4>6, <5>1
        <4>9. QED
          BY <4>2, <4>7, <4>8
      <3>5. ASSUME lates' = 0, silents' = 0, longest' <= 8
            PROVE  /\ feats'.missing = lost'
                   /\ feats'.errors = bursts' + repeats'
                   /\ feats'.outOfOrder = 0
        <4>0. silents = 0 /\ feats.last = stats.last
          BY <1>0, <2>1, <2>3, <3>5
        <4>1. feats' = Weigh(feats, next)
          BY <1>0, <2>1, <4>0 DEF Evaluate, Cc
        <4>2. gone \in 0 .. 8
          BY <1>0, <3>2, <3>5
        <4>3. /\ feats'.outOfOrder = feats.outOfOrder
              /\ feats'.missing = feats.missing + gone
              /\ feats'.errors = IF gone = 0 THEN feats.errors ELSE feats.errors + 1
          BY <1>0, <3>3, <3>5, <4>0, <4>1, <4>2, WeighAfterLoss
        <4>4. longest <= 8
          BY <1>0, <3>1, <3>5
        <4>5. /\ feats.missing = lost /\ feats.errors = bursts + repeats
              /\ feats.outOfOrder = 0
          BY <2>1, <3>5, <4>0, <4>4 DEF Inv, ExactCount
        <4>6. /\ lost \in Int /\ bursts \in Nat /\ repeats \in Nat /\ repeats' = repeats
              /\ lost' = lost + gone
          BY <1>0, <2>1, <3>1, Zenon
        <4>7. CASE gone = 0
          <5>1. /\ feats'.missing = feats.missing /\ feats'.errors = feats.errors
                /\ bursts' = bursts /\ lost' = lost
            BY <3>1, <4>3, <4>6, <4>7, <4>5
          <5>2. QED
            BY <4>3, <4>5, <4>6, <5>1, Zenon
        <4>8. CASE gone > 0
          <5>1. /\ feats'.missing = feats.missing + gone /\ feats'.errors = feats.errors + 1
                /\ bursts' = bursts + 1
            BY <3>1, <4>2, <4>3, <4>8
          <5>2. QED
            BY <4>2, <4>3, <4>5, <4>6, <5>1
        <4>9. QED
          BY <4>2, <4>7, <4>8
      <3>6. QED
        BY <3>4, <3>5 DEF LossesCounted, ExactCount
    <2>4. QED
      BY <2>2, <2>3
  <1>4. CASE Repeat
    <2>1. /\ stats' = Observe(stats, stats.last, TRUE, FALSE)
          /\ feats' = Evaluate(feats, stats.last, TRUE, FALSE)
          /\ stats.seen /\ feats.last = stats.last /\ repeats' = repeats + 1
          /\ UNCHANGED <<lost, bursts, longest, lates, silents>>
      BY <1>0, <1>4 DEF Repeat, Arrives, Cc
    <2>2. Plus(stats.last, 1) # stats.last /\ Plus(stats.last, -(stats.last + 1)) = 15
      BY <1>0 DEF Plus, Cc
    <2>3. stats' = Repeated(stats)
      BY <2>1, <2>2 DEF Observe, Ignored, NewBase, Judge
    <2>4. feats' = Again(feats)
      BY <1>0, <2>1, <2>2 DEF Evaluate, Weigh, Cc
    <2>5. /\ stats'.missing = stats.missing /\ stats'.errors = stats.errors + 1
          /\ stats'.outOfOrder = stats.outOfOrder
      BY <1>0, <2>3, Verdicts
    <2>6. /\ feats'.missing = feats.missing /\ feats'.errors = feats.errors + 1
          /\ feats'.outOfOrder = feats.outOfOrder
      BY <1>0, <2>4, Weights
    <2>7. LossesCounted'
      <3>1. lates = 0 /\ longest <= 7 =>
              /\ stats.missing = lost + bursts /\ stats.errors = bursts + repeats
              /\ stats.outOfOrder = 0
        BY DEF Inv, LossesCounted
      <3>2. lates' = 0 /\ longest' <= 7 =>
              /\ stats'.missing = lost' + bursts' /\ stats'.errors = bursts' + repeats'
              /\ stats'.outOfOrder = 0
        <4>1. lost \in Int /\ bursts \in Nat /\ repeats \in Nat
          BY <1>0, Zenon
        <4>2. /\ lost' = lost /\ bursts' = bursts /\ repeats' = repeats + 1
              /\ longest' = longest /\ lates' = lates
          BY <2>1
        <4>3. QED
          BY <2>5, <3>1, <4>1, <4>2
      <3>3. QED
        BY <3>2 DEF LossesCounted
    <2>8. ExactCount'
      <3>1. lates = 0 /\ silents = 0 /\ longest <= 8 =>
              /\ feats.missing = lost /\ feats.errors = bursts + repeats
              /\ feats.outOfOrder = 0
        BY DEF Inv, ExactCount
      <3>2. lates' = 0 /\ silents' = 0 /\ longest' <= 8 =>
              /\ feats'.missing = lost' /\ feats'.errors = bursts' + repeats'
              /\ feats'.outOfOrder = 0
        <4>1. lost \in Int /\ bursts \in Nat /\ repeats \in Nat
          BY <1>0, Zenon
        <4>2. /\ lost' = lost /\ bursts' = bursts /\ repeats' = repeats + 1
              /\ longest' = longest /\ lates' = lates /\ silents' = silents
          BY <2>1
        <4>3. QED
          BY <2>6, <3>1, <4>1, <4>2
      <3>3. QED
        BY <3>2 DEF ExactCount
    <2>9. QED
      BY <2>7, <2>8
  <1>5. CASE Filler
    <2>1. stats' = stats /\ feats' = feats
      BY <1>5 DEF Filler, Arrives, Observe, Ignored, Evaluate
    <2>2. QED
      BY <1>5, <2>1 DEF Filler, Inv, LossesCounted, ExactCount
  <1>6. ASSUME NEW cc \in Cc, Late(cc) PROVE LossesCounted' /\ ExactCount'
    <2>1. lates' # 0
      BY <1>0, <1>6 DEF Late
    <2>2. QED
      BY <2>1 DEF LossesCounted, ExactCount
  <1>7. ASSUME NEW cc \in Bases, Announce(cc) PROVE LossesCounted' /\ ExactCount'
    <2>1. cc \in Cc
      BY BasesAssumption DEF Cc
    <2>2. stats' = Based(stats, cc) /\ feats' = Follows(feats, cc)
      BY <1>7 DEF Announce, Jump, Arrives, Observe, Ignored, NewBase, Evaluate
    <2>3. UNCHANGED <<lost, bursts, longest, repeats, lates, silents>>
      BY <1>7 DEF Announce, Jump
    <2>4. /\ stats'.missing = stats.missing /\ stats'.errors = stats.errors
          /\ stats'.outOfOrder = stats.outOfOrder
      BY <1>0, <2>1, <2>2, Rebase
    <2>5. /\ feats'.missing = feats.missing /\ feats'.errors = feats.errors
          /\ feats'.outOfOrder = feats.outOfOrder
      BY <1>0, <2>1, <2>2, Weights
    <2>6. QED
      BY <2>3, <2>4, <2>5 DEF Inv, LossesCounted, ExactCount
  <1>8. ASSUME NEW cc \in Bases, AnnounceSilently(cc) PROVE LossesCounted' /\ ExactCount'
    <2>1. cc \in Cc
      BY BasesAssumption DEF Cc
    <2>2. stats' = Based(stats, cc) /\ silents' # 0
      BY <1>0, <1>8 DEF AnnounceSilently, Jump, Arrives, Observe, Ignored, NewBase
    <2>3. UNCHANGED <<lost, bursts, longest, repeats, lates>>
      BY <1>8 DEF AnnounceSilently, Jump
    <2>4. /\ stats'.missing = stats.missing /\ stats'.errors = stats.errors
          /\ stats'.outOfOrder = stats.outOfOrder
      BY <1>0, <2>1, <2>2, Rebase
    <2>5. QED
      BY <2>2, <2>3, <2>4 DEF Inv, LossesCounted, ExactCount
  <1>9. QED
    BY <1>1, <1>2, <1>3, <1>4, <1>5, <1>6, <1>7, <1>8 DEF Next

(* One packet is one error at most, and none if the tracker starts anew or *)
(* the packet is the next one.                                             *)
LEMMA OneError ==
  ASSUME NEW f \in Features, NEW cc \in Cc
  PROVE  /\ Evaluate(f, cc, TRUE, TRUE).errors = f.errors
         /\ Evaluate(f, cc, TRUE, FALSE).errors <= f.errors + 1
         /\ f.last = -1 \/ cc = Plus(f.last, 1) =>
              Evaluate(f, cc, TRUE, FALSE).errors = f.errors
  <1>1. f.last \in Cc \cup {-1} /\ f.errors \in Nat
    BY DEF Features
  <1> DEFINE delta == Plus(cc, -(f.last + 1))
  <1>2. delta \in Nat
    BY <1>1 DEF Plus, Cc
  <1>3. /\ Follows(f, cc).errors = f.errors /\ Again(f).errors = f.errors + 1
        /\ Missed(f, cc, delta).errors = f.errors + 1
    BY <1>2, Weights
  <1>4. Swapped(f, cc).errors = f.errors + 1
    BY DEF Swapped, Features
  <1>5. \/ Weigh(f, cc) = Follows(f, cc)
        \/ Weigh(f, cc) = Again(f)
        \/ Weigh(f, cc) = Missed(f, cc, delta)
        \/ Weigh(f, cc) = Swapped(f, cc)
    BY DEF Weigh
  <1>6. Weigh(f, cc).errors <= f.errors + 1
    BY <1>1, <1>3, <1>4, <1>5
  <1>7. f.last # -1 /\ cc = Plus(f.last, 1) => Weigh(f, cc) = Follows(f, cc)
    <2>1. ASSUME f.last \in Cc, cc = Plus(f.last, 1) PROVE delta = 0
      BY <2>1 DEF Plus, Cc
    <2>2. QED
      BY <1>1, <2>1 DEF Weigh
  <1>8. f.last < 0 <=> f.last = -1
    BY <1>1 DEF Cc
  <1>9. QED
    BY <1>1, <1>3, <1>6, <1>7, <1>8 DEF Evaluate

(* A burst, a repetition and a silent jump pay for one error each.         *)
LEMMA ChargedStep == Inv /\ [Next]_vars => Charged'
  <1> SUFFICES ASSUME Inv, [Next]_vars, lates' = 0 PROVE Charged'
    BY DEF Charged
  <1>0. /\ next \in Cc /\ gone \in Nat /\ feats \in Features
        /\ stats \in Stats /\ stats.last \in Cc
        /\ feats.errors \in Nat /\ feats.last \in Cc \cup {-1}
        /\ bursts \in Nat /\ repeats \in Nat /\ lates \in Nat /\ silents \in Nat
        /\ ~stats.seen => feats.last = -1
    BY BurstAssumption DEF Inv, TypeOK, Stats, Features, InStep
  <1>a. ASSUME ~OutOfStep', feats'.errors \in Nat,
               feats'.errors <= bursts' + repeats' + silents'
        PROVE  Charged'
    <2>1. (IF OutOfStep' THEN 1 ELSE 0) = 0
      BY <1>a
    <2>2. feats'.errors + (IF OutOfStep' THEN 1 ELSE 0) = feats'.errors
      BY <1>a, <2>1
    <2>3. QED
      BY <1>a, <2>2 DEF Charged
  <1>b. lates = 0 => /\ feats.errors <= bursts + repeats + silents
                     /\ OutOfStep => feats.errors + 1 <= bursts + repeats + silents
    BY <1>0 DEF Inv, Charged
  <1>1. CASE UNCHANGED vars \/ Lose \/ Filler
    <2>1. UNCHANGED <<stats, feats, bursts, repeats, lates, silents>>
      BY <1>1 DEF vars, Lose, Filler, Arrives, Observe, Ignored, Evaluate
    <2>2. QED
      BY <2>1 DEF Inv, Charged, OutOfStep
  <1>2. CASE Deliver
    <2>1. /\ stats' = Observe(stats, next, TRUE, FALSE)
          /\ feats' = Evaluate(feats, next, TRUE, FALSE)
          /\ bursts' = IF stats.seen /\ gone > 0 THEN bursts + 1 ELSE bursts
          /\ UNCHANGED <<repeats, lates, silents>>
      BY <1>2 DEF Deliver, Arrives
    <2>2. ~OutOfStep'
      <3>1. stats'.last = next
        BY <1>0, <2>1, LastObserved
      <3>2. feats'.last = next
        BY <1>0, <2>1, LastEvaluated
      <3>3. QED
        BY <3>1, <3>2 DEF OutOfStep
    <2>3. lates = 0
      BY <2>1
    <2>4. feats'.errors <= feats.errors + 1
      BY <1>0, <2>1, OneError
    <2>5. feats'.errors \in Nat
      <3>1. Evaluate(feats, next, TRUE, FALSE) \in Features
        BY <1>0, LastEvaluated
      <3>2. QED
        BY <2>1, <3>1 DEF Features
    <2>6. CASE OutOfStep \/ (stats.seen /\ gone > 0)
      <3>1. /\ bursts' \in Nat /\ bursts <= bursts'
            /\ stats.seen /\ gone > 0 => bursts' = bursts + 1
        BY <1>0, <2>1
      <3>2. feats.errors + 1 <= bursts' + repeats + silents
        <4>1. CASE OutOfStep
          BY <1>0, <1>b, <2>3, <3>1, <4>1
        <4>2. CASE stats.seen /\ gone > 0
          BY <1>0, <1>b, <2>3, <3>1, <4>2
        <4>3. QED
          BY <2>6, <4>1, <4>2
      <3>3. feats'.errors <= bursts' + repeats + silents
        BY <1>0, <2>4, <2>5, <3>1, <3>2
      <3>4. QED
        BY <1>a, <2>1, <2>2, <2>5, <3>3
    <2>7. CASE ~OutOfStep /\ ~(stats.seen /\ gone > 0)
      <3>1. feats.last = -1 \/ next = Plus(feats.last, 1)
        <4>1. ASSUME feats.last # -1 PROVE next = Plus(feats.last, 1)
          <5>1. stats.seen /\ gone = 0 /\ feats.last = stats.last
            BY <1>0, <2>7, <4>1 DEF OutOfStep
          <5>2. next = Plus(stats.last, 1 + gone)
            BY <2>3, <5>1 DEF Inv, InStep
          <5>3. QED
            BY <1>0, <5>1, <5>2, PlusZero
        <4>2. QED
          BY <4>1
      <3>2. feats'.errors = feats.errors
        BY <1>0, <2>1, <3>1, OneError
      <3>3. QED
        BY <1>0, <1>a, <1>b, <2>1, <2>2, <2>3, <2>5, <2>7, <3>2
    <2>8. QED
      BY <2>6, <2>7
  <1>3. CASE Repeat
    <2>1. /\ stats' = Observe(stats, stats.last, TRUE, FALSE)
          /\ feats' = Evaluate(feats, stats.last, TRUE, FALSE)
          /\ repeats' = repeats + 1 /\ feats.last = stats.last
          /\ UNCHANGED <<bursts, lates, silents>>
      BY <1>3 DEF Repeat, Arrives
    <2>2. ~OutOfStep' /\ feats'.errors \in Nat
      <3>1. stats'.last = stats.last
        BY <1>0, <2>1, LastObserved
      <3>2. feats'.last = stats.last /\ feats' \in Features
        BY <1>0, <2>1, LastEvaluated
      <3>3. QED
        BY <3>1, <3>2 DEF OutOfStep, Features
    <2>3. feats'.errors <= feats.errors + 1
      BY <1>0, <2>1, OneError
    <2>4. feats'.errors <= bursts' + repeats' + silents'
      <3>1. feats.errors <= bursts + repeats + silents /\ lates = 0
        BY <1>b, <2>1
      <3>2. repeats' = repeats + 1 /\ bursts' = bursts /\ silents' = silents
        BY <2>1
      <3>3. QED
        BY <1>0, <2>2, <2>3, <3>1, <3>2
    <2>5. QED
      BY <1>a, <2>2, <2>4
  <1>4. ASSUME NEW cc \in Cc, Late(cc) PROVE FALSE
    BY <1>0, <1>4 DEF Late
  <1>5. ASSUME NEW cc \in Bases, Announce(cc) PROVE Charged'
    <2>1. /\ stats' = Observe(stats, cc, TRUE, TRUE)
          /\ feats' = Evaluate(feats, cc, TRUE, TRUE) /\ cc \in Cc
          /\ UNCHANGED <<bursts, repeats, lates, silents>>
      BY <1>5, BasesAssumption DEF Announce, Jump, Arrives, Cc
    <2>2. ~OutOfStep'
      <3>1. stats'.last = cc
        BY <1>0, <2>1, LastObserved
      <3>2. feats'.last = cc
        BY <1>0, <2>1, LastEvaluated
      <3>3. QED
        BY <3>1, <3>2 DEF OutOfStep
    <2>3. feats'.errors = feats.errors
      BY <1>0, <2>1, OneError
    <2>4. QED
      BY <1>0, <1>a, <1>b, <2>1, <2>2, <2>3
  <1>6. ASSUME NEW cc \in Bases, AnnounceSilently(cc) PROVE Charged'
    <2>1. /\ feats' = feats /\ silents' = silents + 1
          /\ UNCHANGED <<bursts, repeats, lates>>
      BY <1>6 DEF AnnounceSilently, Jump, Arrives, Evaluate
    <2>2. feats'.errors + 1 <= bursts' + repeats' + silents'
      BY <1>0, <1>b, <2>1
    <2>3. QED
      BY <1>0, <2>1, <2>2 DEF Charged
  <1>7. QED
    BY <1>1, <1>2, <1>3, <1>4, <1>5, <1>6 DEF Next

LEMMA InvStep == Inv /\ [Next]_vars => Inv'
  BY TypeStep, CountStep, ChargedStep DEF Inv

(* Every variable keeps its type, for every burst and number of packets.   *)
THEOREM TypeCorrect == Spec => []TypeOK
  <1>1. Inv => TypeOK
    BY DEF Inv
  <1>2. QED
    BY <1>1, InvInit, InvStep, PTL DEF Spec

(* The statistics' missing packets are the packets lost plus one per burst, *)
(* while no burst exceeds seven packets and none arrived late.              *)
THEOREM MissingOvercountsByBursts == Spec => []LossesCounted
  <1>1. Inv => LossesCounted
    BY DEF Inv
  <1>2. QED
    BY <1>1, InvInit, InvStep, PTL DEF Spec

(* The ranking's missing packets are the packets lost, up to bursts of     *)
(* eight; a jump announced without payload costs it one error at most.     *)
THEOREM RankingCountsLosses == Spec => []RecoveryExact
  <1>1. Inv => RecoveryExact
    <2>1. Inv => (lates = 0 => feats.errors <= bursts + repeats + silents)
      <3> SUFFICES ASSUME Inv, lates = 0 PROVE feats.errors <= bursts + repeats + silents
        OBVIOUS
      <3>1. feats.errors \in Nat /\ bursts \in Nat /\ repeats \in Nat /\ silents \in Nat
        BY DEF Inv, TypeOK, Features
      <3>2. QED
        BY <3>1 DEF Inv, Charged
    <2>2. QED
      BY <2>1 DEF Inv, ExactCount, RecoveryExact
  <1>2. QED
    BY <1>1, InvInit, InvStep, PTL DEF Spec
-----------------------------------------------------------------------------
(* While either account is clean, nothing was lost, repeated or overtaken, *)
(* and no packet of a burst is still on its way.                           *)
Unblemished == stats.errors = 0 \/ (feats.errors = 0 /\ silents = 0)
CleanInv ==
    /\ TypeOK /\ InStep
    /\ Unblemished => lost = 0 /\ repeats = 0 /\ lates = 0 /\ overtaken = {}

(* A verdict never takes an error back, and only the next packet costs     *)
(* none.                                                                   *)
LEMMA JudgedErrors ==
  ASSUME NEW s \in Stats, NEW cc \in Cc
  PROVE  Judge(s, cc).errors = IF cc = Plus(s.last, 1) THEN s.errors ELSE s.errors + 1
  <1>1. Delta(s, cc) \in Nat
    BY DEF Delta, Plus, Stats, Cc
  <1>2. /\ Follows(s, cc).errors = s.errors /\ Repeated(s).errors = s.errors + 1
        /\ Gap(s, cc).errors = s.errors + 1
    BY <1>1, Verdicts
  <1>3. Swapped(s, cc).errors = s.errors + 1
    BY DEF Swapped, Stats
  <1>4. QED
    BY <1>2, <1>3, Zenon DEF Judge

LEMMA NoDistance ==
  ASSUME NEW last \in Cc, NEW cc \in Cc
  PROVE  Plus(cc, -(last + 1)) = 0 <=> cc = Plus(last, 1)
  <1>1. cc \in 0 .. 15 /\ last \in 0 .. 15
    BY DEF Cc
  <1>2. Plus(last, 1) = IF last = 15 THEN 0 ELSE last + 1
    BY <1>1 DEF Plus
  <1>3. Plus(cc, -(last + 1)) = IF cc >= last + 1 THEN cc - (last + 1) ELSE cc - last + 15
    BY <1>1 DEF Plus
  <1>4. QED
    BY <1>1, <1>2, <1>3

LEMMA WeighedErrors ==
  ASSUME NEW f \in Features, f.last \in Cc, NEW cc \in Cc
  PROVE  Weigh(f, cc).errors = IF cc = Plus(f.last, 1) THEN f.errors ELSE f.errors + 1
  <1> DEFINE delta == Plus(cc, -(f.last + 1))
  <1>1. delta \in Nat /\ (delta = 0 <=> cc = Plus(f.last, 1))
    <2>1. delta \in Nat
      BY DEF Plus, Cc
    <2>2. QED
      BY <2>1, NoDistance
  <1>2. /\ Follows(f, cc).errors = f.errors /\ Again(f).errors = f.errors + 1
        /\ Missed(f, cc, delta).errors = f.errors + 1
    BY <1>1, Weights
  <1>3. Swapped(f, cc).errors = f.errors + 1
    BY DEF Swapped, Features
  <1>4. Weigh(f, cc) = IF delta = 0 THEN Follows(f, cc)
                       ELSE IF delta <= 8 THEN Missed(f, cc, delta)
                       ELSE IF cc = f.last THEN Again(f)
                       ELSE Swapped(f, cc)
    BY DEF Weigh
  <1> HIDE DEF delta
  <1>5. CASE cc = Plus(f.last, 1)
    BY <1>1, <1>2, <1>4, <1>5, Zenon
  <1>6. CASE cc # Plus(f.last, 1)
    <2>1. delta # 0
      BY <1>1, <1>6, Zenon
    <2>2. QED
      BY <1>2, <1>3, <1>4, <1>6, <2>1, Zenon
  <1>7. QED
    BY <1>5, <1>6, Zenon

(* No number of packets lost looks like none: not even fifteen, after      *)
(* which the next packet has the counter of the last one.                  *)
LEMMA LossShows ==
  ASSUME NEW last \in Cc, NEW n \in 1 .. 15
  PROVE  Plus(last, 1 + n) # Plus(last, 1)
  BY DEF Plus, Cc

(* An arrival that leaves an account clean found it clean.                 *)
LEMMA StaysBlemished ==
  ASSUME TypeOK, NEW cc \in Cc, NEW payload \in BOOLEAN, NEW announce \in BOOLEAN,
         Arrives(cc, payload, announce), silents' = silents \/ silents' = silents + 1,
         Unblemished'
  PROVE  Unblemished
  <1>0. stats \in Stats /\ feats \in Features /\ silents \in Nat
    BY DEF TypeOK
  <1>1. stats.errors \in Nat /\ feats.errors \in Nat /\ feats.last \in Cc \cup {-1}
    BY <1>0 DEF Stats, Features
  <1>2. stats'.errors = 0 => stats.errors = 0
    <2>1. stats' = Observe(stats, cc, payload, announce)
      BY DEF Arrives
    <2>2. \/ stats' = stats \/ stats' = Based(stats, cc) \/ stats' = Judge(stats, cc)
      BY <2>1, Zenon DEF Observe
    <2>3. Based(stats, cc).errors = stats.errors
      BY <1>0, Rebase
    <2>4. Judge(stats, cc).errors \in {stats.errors, stats.errors + 1}
      BY <1>0, JudgedErrors
    <2>5. stats'.errors \in {stats.errors, stats.errors + 1}
      BY <2>2, <2>3, <2>4, Zenon
    <2>6. QED
      BY <1>1, <2>5
  <1>3. feats'.errors = 0 => feats.errors = 0
    <2>1. feats' = Evaluate(feats, cc, payload, announce)
      BY DEF Arrives
    <2>2. \/ feats' = feats \/ feats' = Follows(feats, cc)
          \/ feats.last \in Cc /\ feats' = Weigh(feats, cc)
      <3>1. feats.last < 0 \/ feats.last \in Cc
        BY <1>1
      <3>2. QED
        BY <2>1, <3>1, Zenon DEF Evaluate
    <2>3. Follows(feats, cc).errors = feats.errors
      <3>1. 0 \in Nat
        OBVIOUS
      <3>2. QED
        BY <1>0, <3>1, Weights
    <2>4. feats.last \in Cc => Weigh(feats, cc).errors \in {feats.errors, feats.errors + 1}
      BY <1>0, WeighedErrors
    <2>5. feats'.errors \in {feats.errors, feats.errors + 1}
      BY <2>2, <2>3, <2>4, Zenon
    <2>6. QED
      BY <1>1, <2>5
  <1>4. silents' = 0 => silents = 0
    BY <1>0
  <1>5. QED
    BY <1>2, <1>3, <1>4 DEF Unblemished

LEMMA CleanInit == Init => CleanInv
  BY InvInit DEF Init, Inv, CleanInv

LEMMA CleanStep == CleanInv /\ [Next]_vars => CleanInv'
  <1> SUFFICES ASSUME CleanInv, [Next]_vars, Unblemished'
               PROVE  lost' = 0 /\ repeats' = 0 /\ lates' = 0 /\ overtaken' = {}
    <2>1. CleanInv /\ [Next]_vars => TypeOK' /\ InStep'
      BY TypeStep DEF CleanInv
    <2>2. QED
      BY <2>1 DEF CleanInv
  <1>0. /\ TypeOK /\ next \in Cc /\ gone \in 0 .. 15 /\ silents \in Nat
        /\ stats \in Stats /\ feats \in Features /\ stats.last \in Cc
        /\ stats.errors \in Nat /\ feats.errors \in Nat
    BY BurstAssumption DEF CleanInv, TypeOK, Stats, Features
  <1>a. Unblemished => lost = 0 /\ repeats = 0 /\ lates = 0 /\ overtaken = {}
    BY DEF CleanInv
  <1>1. CASE UNCHANGED vars \/ Lose
    <2>1. UNCHANGED <<overtaken, stats, feats, lost, repeats, lates, silents>>
      BY <1>1 DEF vars, Lose
    <2>2. Unblemished
      BY <2>1 DEF Unblemished
    <2>3. QED
      BY <1>a, <2>1, <2>2
  <1>2. CASE Deliver
    <2>1. /\ Arrives(next, TRUE, FALSE)
          /\ overtaken' = IF stats.seen THEN {Plus(next, -k) : k \in 1 .. gone} ELSE {}
          /\ lost' = IF stats.seen THEN lost + gone ELSE lost
          /\ UNCHANGED <<repeats, lates, silents>>
      BY <1>2 DEF Deliver
    <2>2. Unblemished
      BY <1>0, <2>1, StaysBlemished
    <2>3. lost = 0 /\ repeats = 0 /\ lates = 0
      BY <1>a, <2>2
    <2>4. CASE ~stats.seen
      BY <2>1, <2>3, <2>4
    <2>5. CASE stats.seen
      <3>1. next = Plus(stats.last, 1 + gone)
        BY <2>3, <2>5 DEF CleanInv, InStep
      <3>2. gone = 0
        <4> SUFFICES ASSUME gone # 0 PROVE FALSE
          OBVIOUS
        <4>1. next # Plus(stats.last, 1)
          BY <1>0, <3>1, LossShows
        <4>2. stats'.errors # 0
          <5>1. stats' = Judge(stats, next)
            BY <2>1, <2>5 DEF Arrives, Observe, Ignored, NewBase
          <5>2. stats'.errors = stats.errors + 1
            BY <1>0, <4>1, <5>1, JudgedErrors
          <5>3. QED
            BY <1>0, <5>2
        <4>3. silents = 0 => feats'.errors # 0
          <5> SUFFICES ASSUME silents = 0 PROVE feats'.errors # 0
            OBVIOUS
          <5>1. feats.last = stats.last
            BY <2>5 DEF CleanInv, InStep
          <5>2. feats' = Weigh(feats, next)
            BY <1>0, <2>1, <5>1 DEF Arrives, Evaluate, Cc
          <5>3. feats'.errors = feats.errors + 1
            BY <1>0, <4>1, <5>1, <5>2, WeighedErrors
          <5>4. QED
            BY <1>0, <5>3
        <4>4. QED
          BY <2>1, <4>2, <4>3 DEF Unblemished
      <3>3. lost' = 0 /\ overtaken' = {}
        <4>1. 1 .. gone = {}
          BY <3>2
        <4>2. overtaken' = {}
          BY <2>1, <2>5, <4>1
        <4>3. QED
          BY <2>1, <2>3, <2>5, <3>2, <4>2
      <3>4. QED
        BY <2>1, <2>3, <3>3
    <2>6. QED
      BY <2>4, <2>5
  <1>3. CASE Repeat
    <2>1. /\ Arrives(stats.last, TRUE, FALSE) /\ feats.last = stats.last
          /\ stats.seen /\ silents' = silents
      <3>1. Arrives(stats.last, TRUE, FALSE) /\ feats.last = stats.last /\ silents' = silents
        BY <1>3, Zenon DEF Repeat
      <3>2. stats.last # -1 /\ (~stats.seen => feats.last = -1)
        BY <1>0 DEF CleanInv, InStep, Cc
      <3>3. QED
        BY <3>1, <3>2, Zenon
    <2>2. stats.last # Plus(stats.last, 1)
      BY <1>0 DEF Plus, Cc
    <2>3. stats' = Judge(stats, stats.last) /\ feats' = Weigh(feats, stats.last)
      BY <1>0, <2>1 DEF Arrives, Observe, Ignored, NewBase, Evaluate, Cc
    <2>4. stats'.errors = stats.errors + 1
      BY <1>0, <2>2, <2>3, JudgedErrors
    <2>5. feats'.errors = feats.errors + 1
      BY <1>0, <2>1, <2>2, <2>3, WeighedErrors
    <2>6. ~Unblemished'
      BY <1>0, <2>4, <2>5 DEF Unblemished
    <2>7. QED
      BY <2>6
  <1>4. CASE Filler
    <2>1. /\ UNCHANGED <<stats, feats>>
          /\ UNCHANGED <<overtaken, lost, repeats, lates, silents>>
      BY <1>4 DEF Filler, Arrives, Observe, Ignored, Evaluate
    <2>2. Unblemished
      BY <2>1 DEF Unblemished
    <2>3. QED
      BY <1>a, <2>1, <2>2
  <1>5. ASSUME NEW cc \in Cc, Late(cc) PROVE FALSE
    <2>1. Arrives(cc, TRUE, FALSE) /\ silents' = silents /\ cc \in overtaken
      BY <1>5 DEF Late
    <2>2. Unblemished
      BY <1>0, <2>1, StaysBlemished
    <2>3. QED
      BY <1>a, <2>1, <2>2
  <1>6. ASSUME NEW cc \in Bases, Announce(cc) \/ AnnounceSilently(cc)
        PROVE  lost' = 0 /\ repeats' = 0 /\ lates' = 0 /\ overtaken' = {}
    <2>1. cc \in Cc
      BY BasesAssumption DEF Cc
    <2>2. /\ overtaken' = {} /\ UNCHANGED <<lost, repeats, lates>>
          /\ Arrives(cc, TRUE, TRUE) \/ Arrives(cc, FALSE, TRUE)
          /\ silents' = silents \/ silents' = silents + 1
      BY <1>6 DEF Announce, AnnounceSilently, Jump
    <2>3. Unblemished
      BY <1>0, <2>1, <2>2, StaysBlemished
    <2>4. QED
      BY <1>a, <2>2, <2>3
  <1>7. QED
    BY <1>1, <1>2, <1>3, <1>4, <1>5, <1>6 DEF Next

(* No loss, repetition or late packet goes without an error: a stream that *)
(* the statistics, or the ranking of the pictures, call clean was clean.   *)
THEOREM CleanIsEarned == Spec => []CleanMeansClean
  <1>1. CleanInv => CleanMeansClean
    BY DEF CleanInv, Unblemished, CleanMeansClean
  <1>2. QED
    BY <1>1, CleanInit, CleanStep, PTL DEF Spec
=============================================================================
