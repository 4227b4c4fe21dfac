--------------------------- MODULE Recovery_proofs ---------------------------
(***************************************************************************)
(* Image recovery implements BestImage, its candidates are of one stream,  *)
(* a preview leaves no trace of itself, the budget is respected, a pass    *)
(* tries the best candidates first, and each step of a call leaves less to *)
(* do, for every set of streams, packets and configurations, and every     *)
(* budget.                                                                 *)
(***************************************************************************)
EXTENDS Recovery, FiniteSetTheorems, SequenceTheorems, WellFoundedInduction, TLAPS

(* What the comparison in emit_candidate relies on: the best score is      *)
(* looked at only when the version counter of the pictures is not 0.       *)
Agree ==
    /\ config \in Configs
    /\ stream \in Streams \cup {NoStream}
    /\ frames \in Nat
    /\ frames = 0 => best = Nothing

Anywhere == Streams \cup {NoStream}

LEMMA SourceIsStream == \A c \in Configs : c.source \in Anywhere
  BY ConfigsAssumption DEF Config, Anywhere

(* A decoded picture is better than the last one shown.                    *)
LEMMA DecodeShows ==
  ASSUME Agree, NEW score, NEW good, Decode(score, good), UNCHANGED <<config, stream>>
  PROVE  Agree' /\ [Promise!Next]_(Promise!vars)
  <1>1. CASE Worthwhile(score) /\ good
    <2>1. frames' = frames + 1 /\ best' = score /\ (frames = 0 \/ score > best)
      BY <1>1 DEF Decode, Worthwhile
    <2>2. Agree'
      BY <2>1 DEF Agree
    <2>3. best = Nothing \/ best' > best
      BY <2>1 DEF Agree
    <2>4. Promise!Show
      BY <2>3 DEF Promise!Show
    <2>5. QED
      BY <2>2, <2>4 DEF Promise!Next
  <1>2. CASE ~(Worthwhile(score) /\ good)
    <2>1. UNCHANGED <<frames, best>>
      BY <1>2 DEF Decode
    <2>2. QED
      BY <2>1 DEF Agree, Promise!vars
  <1>3. QED
    BY <1>1, <1>2

(* A step that leaves the pictures alone is a stutter, one that forgets    *)
(* them starts over.                                                       *)
LEMMA Unseen ==
  ASSUME Agree, UNCHANGED <<config, stream, frames, best>>
  PROVE  Agree' /\ [Promise!Next]_(Promise!vars)
  BY DEF Agree, Promise!vars

LEMMA Forgotten ==
  ASSUME Agree, config' = config, stream' \in Anywhere, frames' = 0, best' = Nothing
  PROVE  Agree' /\ [Promise!Next]_(Promise!vars)
  <1>1. Agree'
    BY DEF Agree, Anywhere
  <1>2. Promise!StartOver
    BY DEF Promise!StartOver, Anywhere
  <1>3. QED
    BY <1>1, <1>2 DEF Promise!Next

LEMMA AgreeInit == Init => Agree /\ Promise!Init
  BY SourceIsStream DEF Init, Agree, Promise!Init, Anywhere

LEMMA AgreeStep == Agree /\ [Next]_vars => Agree' /\ [Promise!Next]_(Promise!vars)
  <1> SUFFICES ASSUME Agree, [Next]_vars PROVE Agree' /\ [Promise!Next]_(Promise!vars)
    OBVIOUS
  <1>1. CASE UNCHANGED vars
    BY <1>1, Unseen DEF vars, published
  <1>2. ASSUME NEW s \in Streams, Switch(s) PROVE Agree' /\ [Promise!Next]_(Promise!vars)
    BY <1>2, Forgotten DEF Switch, Anywhere
  <1>3. CASE Reset
    BY <1>3, Forgotten, SourceIsStream DEF Reset, Agree
  <1>4. ASSUME NEW p \in config.brings, FeedStart(p) PROVE Agree' /\ [Promise!Next]_(Promise!vars)
    BY <1>4, Unseen DEF FeedStart, published
  <1>5. ASSUME NEW p \in config.brings, FeedRejected(p) PROVE Agree' /\ [Promise!Next]_(Promise!vars)
    BY <1>5, Unseen DEF FeedRejected, RejectUnit, published
  <1>6. ASSUME NEW p \in config.brings, FeedMore(p) PROVE Agree' /\ [Promise!Next]_(Promise!vars)
    BY <1>6, Unseen DEF FeedMore, published
  <1>7. CASE Analyze
    BY <1>7, Unseen DEF Analyze, published
  <1>8. CASE Finish
    BY <1>8, Unseen DEF Finish, published
  <1>9. CASE FinishRejected
    BY <1>9, Unseen DEF FinishRejected, RejectUnit, published
  <1>10. ASSUME NEW good \in BOOLEAN, Try(good) PROVE Agree' /\ [Promise!Next]_(Promise!vars)
    <2>1. Decode(cands[order[NextUntried]].score, good) /\ UNCHANGED <<config, stream>>
      BY <1>10 DEF Try
    <2>2. QED
      BY <2>1, DecodeShows
  <1>11. ASSUME NEW good \in BOOLEAN, Vote(good) PROVE Agree' /\ [Promise!Next]_(Promise!vars)
    <2>1. Decode(cands[order[Min(Votes)]].score, good) /\ UNCHANGED <<config, stream>>
      BY <1>11 DEF Vote
    <2>2. QED
      BY <2>1, DecodeShows
  <1>12. CASE CallbackFails
    BY <1>12, Unseen DEF CallbackFails, published
  <1>13. CASE EndPass
    BY <1>13, Unseen DEF EndPass, published
  <1>14. CASE AddHeld
    BY <1>14, Unseen DEF AddHeld, published
  <1>15. CASE Sort
    BY <1>15, Unseen DEF Sort, published
  <1>16. QED
    BY <1>1, <1>2, <1>3, <1>4, <1>5, <1>6, <1>7, <1>8, <1>9, <1>10, <1>11, <1>12, <1>13, <1>14,
       <1>15
    DEF Next, Engine

(* Applications are shown better and better pictures of one stream: the    *)
(* detailed engine implements the promise.                                 *)
THEOREM RecoveryImplementsBestImage == Spec => ImagesImprove
  <1>1. Init => Agree /\ Promise!Init
    BY AgreeInit
  <1>2. Agree /\ [Next]_vars => Agree' /\ [Promise!Next]_(Promise!vars)
    BY AgreeStep
  <1>3. QED
    BY <1>1, <1>2, PTL DEF Spec, ImagesImprove, Promise!Spec
-----------------------------------------------------------------------------
(* What a unit and a candidate of a stream may be.                         *)
CandidateOf(s) == [index : Nat, codec : {s.codec}, score : Int, size : Nat, emitted : Nat,
                   from : {{s}}]
Gathered == gathered = {stream} \/ (gathered = {} /\ \A k \in Kinds : unit[k] = 0)
Collected ==
    /\ config \in Configs /\ held \in Packets \cup {NoPacket}
    /\ unit \in [Kinds -> Nat] /\ worth \in Int
    /\ Gathered
Originated == \A h \in ParameterSets : headers[h] > 0 => origin[h] = {stream}
Learned ==
    /\ headers \in [ParameterSets -> Nat] /\ version \in Nat /\ units \in Nat
    /\ cands \in Seq(CandidateOf(stream))
    /\ Originated
StreamInv == Collected /\ Learned

LEMMA LeastExists ==
  ASSUME NEW S \in SUBSET Nat, S # {}
  PROVE  Min(S) \in S /\ \A y \in S : Min(S) <= y
  <1> DEFINE R == {ss \in Nat \X Nat : ss[1] < ss[2]}
  <1>1. IsWellFoundedOn(R, Nat)
    BY NatLessThanWellFounded DEF OpToRel
  <1>2. \E x \in S : \A y \in S : ~(<<y, x>> \in R)
    BY <1>1, WFMin, Zenon
  <1>3. PICK x \in S : \A y \in S : ~(<<y, x>> \in R)
    BY <1>2
  <1>4. ASSUME NEW y \in S PROVE x <= y
    <2>1. x \in Nat /\ y \in Nat
      OBVIOUS
    <2>2. ~(y < x)
      BY <1>3, <2>1
    <2>3. QED
      BY <2>1, <2>2
  <1>5. QED
    BY <1>4 DEF Min

(* The candidates that stay are candidates of the same stream.             *)
LEMMA OthersKept ==
  ASSUME NEW C, cands \in Seq(C)
  PROVE  Others \in Seq(C)
  <1> DEFINE I == {i \in 1 .. Len(cands) : SameUnit(cands[i])}
  <1>1. Replaced = IF I # {} THEN Min(I) ELSE 0
    BY DEF Replaced, SelectInSeq
  <1>2. Len(cands) \in Nat
    OBVIOUS
  <1>3. Replaced \in 0 .. Len(cands)
    <2>1. CASE I = {}
      BY <1>1, <1>2, <2>1
    <2>2. CASE I # {}
      <3>1. I \in SUBSET Nat
        OBVIOUS
      <3>2. Min(I) \in I
        BY <2>2, <3>1, LeastExists
      <3>3. QED
        BY <1>1, <2>2, <3>2
    <2>3. QED
      BY <2>1, <2>2
  <1> HIDE DEF I
  <1>4. CASE Replaced = 0
    BY <1>4 DEF Others
  <1>5. CASE Replaced # 0
    <2>1. SubSeq(cands, 1, Replaced - 1) \in Seq(C)
      BY <1>2, <1>3, <1>5, SubSeqProperties
    <2>2. SubSeq(cands, Replaced + 1, Len(cands)) \in Seq(C)
      BY <1>2, <1>3, <1>5, SubSeqProperties
    <2>3. QED
      BY <1>5, <2>1, <2>2, ConcatProperties DEF Others, RemoveAt
  <1>6. QED
    BY <1>4, <1>5

LEMMA EvictedFits ==
  ASSUME NEW C, Others \in Seq(C)
  PROVE  Evicted \in 0 .. Len(Others) /\ (Evicted = Len(Others) \/ Fits(Evicted))
  <1> DEFINE E == {k \in 0 .. Len(Others) : k = Len(Others) \/ Fits(k)}
  <1>1. Len(Others) \in Nat
    OBVIOUS
  <1>2. E \in SUBSET Nat /\ Len(Others) \in E
    BY <1>1
  <1>3. Min(E) \in E
    BY <1>2, LeastExists
  <1>4. QED
    BY <1>3 DEF Evicted

LEMMA LargerCounted == Cardinality(Larger) \in Nat
  <1>1. IsFiniteSet(ParameterSets)
    <2>1. ParameterSets = {"vps"} \cup {"sps"} \cup {"pps"}
      BY DEF ParameterSets
    <2>2. IsFiniteSet({"vps"}) /\ IsFiniteSet({"sps"}) /\ IsFiniteSet({"pps"})
      BY FS_Singleton
    <2>3. QED
      BY <2>1, <2>2, FS_Union
  <1>2. Larger \subseteq ParameterSets
    BY DEF Larger, Required, ParameterSets
  <1>3. QED
    BY <1>1, <1>2, FS_Subset, FS_CardinalityType

(* What is learned from a unit is learned from the stream.                 *)
LEMMA LearnKeeps ==
  ASSUME StreamInv, Learn, stream' = stream
  PROVE  headers' \in [ParameterSets -> Nat] /\ version' \in Nat /\ Originated'
  <1>1. headers' \in [ParameterSets -> Nat]
    BY DEF StreamInv, Collected, Learned, Learn, Kinds
  <1>2. Cardinality(Larger) \in Nat
    BY LargerCounted
  <1>3. version' \in Nat
    BY <1>2 DEF StreamInv, Learned, Learn
  <1>4. ASSUME NEW h \in ParameterSets, headers'[h] > 0 PROVE origin'[h] = {stream}
    <2>1. CASE h \in Larger
      <3>1. unit[h] \in Nat /\ headers[h] \in Nat /\ unit[h] > headers[h] /\ h \in Kinds
        BY <2>1 DEF StreamInv, Collected, Learned, Larger, Kinds
      <3>2. unit[h] # 0
        BY <3>1
      <3>3. gathered = {stream}
        BY <3>1, <3>2 DEF StreamInv, Collected, Gathered
      <3>4. QED
        BY <2>1, <3>3 DEF Learn
    <2>2. CASE h \notin Larger
      BY <1>4, <2>2 DEF Learn, StreamInv, Learned, Originated
    <2>3. QED
      BY <2>1, <2>2
  <1>5. QED
    BY <1>1, <1>3, <1>4 DEF Originated

LEMMA CandidateTyped ==
  ASSUME StreamInv, IsPicture
  PROVE  Candidate \in CandidateOf(stream)
  <1>1. "key" \in Kinds /\ unit["key"] \in Nat /\ unit["key"] # 0
    BY DEF IsPicture, StreamInv, Collected, Kinds
  <1>2. gathered = {stream}
    BY <1>1 DEF StreamInv, Collected, Gathered
  <1>3. QED
    BY <1>1, <1>2 DEF StreamInv, Collected, Learned, Candidate, CandidateOf

LEMMA HarvestKeeps ==
  ASSUME StreamInv, Harvest, stream' = stream
  PROVE  /\ headers' \in [ParameterSets -> Nat] /\ version' \in Nat
         /\ cands' \in Seq(CandidateOf(stream')) /\ Originated'
  <1> DEFINE C == CandidateOf(stream)
  <1>1. headers' \in [ParameterSets -> Nat] /\ version' \in Nat /\ Originated'
    BY LearnKeeps DEF Harvest
  <1>5. cands \in Seq(C)
    BY DEF StreamInv, Learned
  <1> HIDE DEF C
  <1>6. SubSeq(Others, Evicted + 1, Len(Others)) \in Seq(C)
    <2>1. Others \in Seq(C)
      BY <1>5, OthersKept
    <2>2. Evicted \in 0 .. Len(Others) /\ Len(Others) \in Nat
      BY <2>1, EvictedFits
    <2>3. QED
      BY <2>1, <2>2, SubSeqProperties
  <1>7. cands' \in Seq(C)
    <2>1. CASE IsPicture
      <3>1. cands' = Append(SubSeq(Others, Evicted + 1, Len(Others)), Candidate)
        BY <2>1 DEF Harvest
      <3>2. Candidate \in C
        BY <2>1, CandidateTyped DEF C
      <3>3. QED
        BY <1>6, <3>1, <3>2, AppendProperties
    <2>2. CASE ~IsPicture
      BY <1>5, <2>2 DEF Harvest
    <2>3. QED
      BY <2>1, <2>2
  <1>8. QED
    BY <1>1, <1>7 DEF C

LEMMA NothingTyped ==
  /\ None \in [Kinds -> Nat] /\ NoHeaders \in [ParameterSets -> Nat]
  /\ \A C : <<>> \in Seq(C)
  BY DEF None, NoHeaders

(* A packet of the channel has a merit.                                    *)
LEMMA PacketTyped ==
  ASSUME NEW p \in Packets
  PROVE  p.merit \in Int /\ p \in Packets \cup {NoPacket}
  BY PacketsAssumption DEF Packet

LEMMA ClearKeeps ==
  ASSUME StreamInv, Clear, units' \in Nat, UNCHANGED <<config, held>>
  PROVE  StreamInv'
  <1>1. Collected'
    BY NothingTyped DEF StreamInv, Collected, Clear, Gathered, None
  <1>2. Learned'
    BY NothingTyped DEF StreamInv, Learned, Clear, Originated, NoHeaders
  <1>3. QED
    BY <1>1, <1>2 DEF StreamInv

LEMMA EndUnitKeeps ==
  ASSUME StreamInv, EndUnit, config' = config, stream' = stream,
         held' \in Packets \cup {NoPacket}
  PROVE  StreamInv'
  <1>1. Collected'
    BY NothingTyped DEF StreamInv, Collected, EndUnit, Gathered, None
  <1>2. units' \in Nat
    BY DEF StreamInv, Learned, EndUnit
  <1>3. Learned'
    BY <1>2, HarvestKeeps DEF EndUnit, Learned
  <1>4. QED
    BY <1>1, <1>3 DEF StreamInv

LEMMA RejectKeeps ==
  ASSUME StreamInv, RejectUnit
  PROVE  StreamInv'
  <1>1. UNCHANGED <<config, stream, held, unit, worth, gathered, cands>> /\ Learn
    BY DEF RejectUnit, collecting, calling
  <1>2. headers' \in [ParameterSets -> Nat] /\ version' \in Nat /\ Originated'
    BY <1>1, LearnKeeps
  <1>3. units' \in Nat
    BY DEF StreamInv, Learned, RejectUnit
  <1>4. QED
    BY <1>1, <1>2, <1>3 DEF StreamInv, Collected, Learned, Gathered

LEMMA AddKeeps ==
  ASSUME StreamInv, NEW p \in Packets, AddPacket(p),
         UNCHANGED <<config, stream, learned, units>>, held' \in Packets \cup {NoPacket}
  PROVE  StreamInv'
  <1>1. worth' \in Int
    BY PacketTyped DEF StreamInv, Collected, AddPacket
  <1>2. unit' \in [Kinds -> Nat]
    BY NothingTyped DEF StreamInv, Collected, AddPacket
  <1>3. Gathered'
    BY DEF StreamInv, Collected, Gathered, AddPacket
  <1>4. QED
    BY <1>1, <1>2, <1>3 DEF StreamInv, Collected, Learned, Originated, learned

(* Steps that touch neither the unit nor what was learned.                 *)
LEMMA StreamLeft ==
  ASSUME StreamInv, held' \in Packets \cup {NoPacket},
         UNCHANGED <<config, stream, unit, worth, gathered, headers, version, units, cands, origin>>
  PROVE  StreamInv'
  BY DEF StreamInv, Collected, Learned, Gathered, Originated

LEMMA StreamInit == Init => StreamInv
  BY NothingTyped DEF Init, StreamInv, Collected, Learned, Gathered, Originated, None, NoHeaders

LEMMA StreamStep == StreamInv /\ [Next]_vars => StreamInv'
  <1> SUFFICES ASSUME StreamInv, [Next]_vars PROVE StreamInv'
    OBVIOUS
  <1>0. held \in Packets \cup {NoPacket} /\ units \in Nat /\ config.brings \subseteq Packets
    BY ConfigsAssumption DEF StreamInv, Collected, Learned, Config
  <1>1. CASE UNCHANGED vars
    BY <1>0, <1>1, StreamLeft DEF vars, collecting, learned, calling
  <1>2. ASSUME NEW s \in Streams, Switch(s) PROVE StreamInv'
    BY <1>0, <1>2, ClearKeeps DEF Switch, calling
  <1>3. CASE Reset
    BY <1>3, ClearKeeps DEF Reset, calling
  <1>4. ASSUME NEW p \in config.brings, FeedStart(p) PROVE StreamInv'
    <2>1. p \in Packets
      BY <1>0
    <2>2. QED
      BY <1>4, <2>1, EndUnitKeeps DEF FeedStart
  <1>5. ASSUME NEW p \in config.brings, FeedRejected(p) PROVE StreamInv'
    BY <1>5, RejectKeeps DEF FeedRejected
  <1>6. ASSUME NEW p \in config.brings, FeedMore(p) PROVE StreamInv'
    <2>1. p \in Packets /\ held' = held
      BY <1>0, <1>6 DEF FeedMore, calling
    <2>2. QED
      BY <1>0, <1>6, <2>1, AddKeeps DEF FeedMore
  <1>7. CASE AddHeld
    BY <1>0, <1>7, AddKeeps DEF AddHeld
  <1>8. CASE Analyze
    <2>1. UNCHANGED <<config, stream, held, unit, worth, gathered, units>>
      BY <1>8 DEF Analyze
    <2>2. CASE size # preview /\ ~dropping
      <3>1. Harvest
        BY <1>8, <2>2 DEF Analyze
      <3>2. Learned'
        BY <2>1, <3>1, HarvestKeeps DEF Learned, StreamInv
      <3>3. QED
        BY <2>1, <3>2 DEF StreamInv, Collected, Gathered
    <2>3. CASE ~(size # preview /\ ~dropping)
      BY <1>0, <1>8, <2>1, <2>3, StreamLeft DEF Analyze, learned
    <2>4. QED
      BY <2>2, <2>3
  <1>9. CASE Finish
    <2>1. UNCHANGED <<config, stream, held>>
      BY <1>9 DEF Finish
    <2>2. CASE packets > 0
      BY <1>0, <1>9, <2>1, <2>2, EndUnitKeeps DEF Finish
    <2>3. CASE ~(packets > 0)
      BY <1>0, <1>9, <2>1, <2>3, StreamLeft DEF Finish, collecting, learned
    <2>4. QED
      BY <2>2, <2>3
  <1>10. CASE FinishRejected
    BY <1>10, RejectKeeps DEF FinishRejected
  <1>11. ASSUME NEW good \in BOOLEAN, Try(good) PROVE StreamInv'
    <2>1. /\ cands' = [cands EXCEPT ![order[NextUntried]].emitted = version]
          /\ UNCHANGED <<config, stream, held, unit, worth, gathered, headers, version, units,
                         origin>>
      BY <1>11 DEF Try, collecting
    <2>2. cands' \in Seq(CandidateOf(stream))
      <3> DEFINE n == order[NextUntried]
      <3>1. cands \in Seq(CandidateOf(stream)) /\ version \in Nat
        BY DEF StreamInv, Learned
      <3> HIDE DEF n
      <3>2. cands' = [cands EXCEPT ![n].emitted = version]
        BY <2>1 DEF n
      <3>3. CASE n \in 1 .. Len(cands)
        <4>1. cands[n] \in CandidateOf(stream)
          BY <3>1, <3>3
        <4>2. [cands[n] EXCEPT !.emitted = version] \in CandidateOf(stream)
          BY <3>1, <4>1 DEF CandidateOf
        <4>3. cands' = [cands EXCEPT ![n] = [cands[n] EXCEPT !.emitted = version]]
          BY <3>2
        <4>4. QED
          BY <3>1, <3>3, <4>2, <4>3, ExceptSeq
      <3>4. CASE n \notin 1 .. Len(cands)
        <4>1. cands = [i \in 1 .. Len(cands) |-> cands[i]]
          BY <3>1
        <4>2. cands' = cands
          BY <3>2, <3>4, <4>1
        <4>3. QED
          BY <3>1, <4>2
      <3>5. QED
        BY <3>3, <3>4
    <2>3. QED
      BY <2>1, <2>2 DEF StreamInv, Collected, Learned, Gathered, Originated
  <1>12. ASSUME NEW good \in BOOLEAN, Vote(good) PROVE StreamInv'
    BY <1>0, <1>12, StreamLeft DEF Vote, collecting, learned
  <1>13. CASE CallbackFails
    BY <1>13, StreamLeft DEF CallbackFails, collecting, learned
  <1>14. CASE EndPass
    BY <1>0, <1>14, StreamLeft DEF EndPass, collecting
  <1>15. CASE Sort
    BY <1>0, <1>15, StreamLeft DEF Sort, collecting, learned
  <1>16. QED
    BY <1>1, <1>2, <1>3, <1>4, <1>5, <1>6, <1>7, <1>8, <1>9, <1>10, <1>11, <1>12, <1>13, <1>14,
       <1>15
    DEF Next, Engine

(* What the engine keeps, candidates and parameter sets, is all made of    *)
(* packets of the stream being recovered, so that parameter sets of one    *)
(* stream are never put in front of another's picture (recovery.c:67-76).  *)
THEOREM CandidatesOfOneStream == Spec => []OneStream
  <1>1. StreamInv => OneStream
    <2>1. ASSUME StreamInv, NEW i \in DOMAIN cands
          PROVE  cands[i].from = {stream} /\ cands[i].codec = stream.codec
      <3>1. cands \in Seq(CandidateOf(stream))
        BY <2>1 DEF StreamInv, Learned
      <3>2. cands[i] \in CandidateOf(stream)
        BY <2>1, <3>1
      <3>3. QED
        BY <3>2 DEF CandidateOf
    <2>2. QED
      BY <2>1 DEF OneStream, StreamInv, Learned, Originated
  <1>2. QED
    BY <1>1, StreamInit, StreamStep, PTL DEF Spec
-----------------------------------------------------------------------------
(* Only the youngest candidate can be of the unit being collected, and     *)
(* whole has an entry for every unit completed.                            *)
UnitInv ==
    /\ units = Len(whole) /\ whole \in Seq(Nat)
    /\ \A i \in DOMAIN cands : cands[i].index <= units
    /\ PreviewSuperseded
PreviewInv == StreamInv /\ UnitInv

OfStream == CandidateOf(stream)

LEMMA ListTyped ==
  ASSUME PreviewInv
  PROVE  /\ cands \in Seq(OfStream) /\ Len(cands) \in Nat
         /\ DOMAIN cands = 1 .. Len(cands)
         /\ \A i \in DOMAIN cands : cands[i].index \in Nat /\ cands[i].size \in Nat
         /\ units \in Nat
  <1>1. cands \in Seq(OfStream) /\ units \in Nat
    BY DEF PreviewInv, StreamInv, Learned, OfStream
  <1>2. /\ Len(cands) \in Nat /\ DOMAIN cands = 1 .. Len(cands)
        /\ \A i \in 1 .. Len(cands) : cands[i] \in OfStream
    BY <1>1
  <1>3. \A c \in OfStream : c.index \in Nat /\ c.size \in Nat
    BY DEF OfStream, CandidateOf
  <1>4. QED
    BY <1>1, <1>2, <1>3, Zenon

(* Giving up a preview of the unit shortens the list by its last element   *)
(* and leaves candidates of earlier units only.                            *)
LEMMA OthersAreOlder ==
  ASSUME PreviewInv
  PROVE  /\ Others \in Seq(OfStream) /\ Len(Others) \in Nat
         /\ Len(Others) <= Len(cands)
         /\ \A k \in 1 .. Len(Others) : Others[k] = cands[k] /\ cands[k].index < units
         /\ \/ Replaced = 0 /\ Others = cands
            \/ /\ Replaced = Len(cands) /\ Replaced # 0
               /\ Others = SubSeq(cands, 1, Len(cands) - 1)
  <1> DEFINE I == {i \in 1 .. Len(cands) : SameUnit(cands[i])}
  <1>0. /\ cands \in Seq(OfStream) /\ Len(cands) \in Nat /\ units \in Nat
        /\ DOMAIN cands = 1 .. Len(cands)
        /\ \A i \in 1 .. Len(cands) : cands[i].index \in Nat
    BY ListTyped
  <1>1. Replaced = IF I # {} THEN Min(I) ELSE 0
    BY DEF Replaced, SelectInSeq
  <1>2. ASSUME NEW i \in 1 .. Len(cands), cands[i].index = units
        PROVE  i = Len(cands)
    <2> SUFFICES ASSUME i # Len(cands) PROVE FALSE
      OBVIOUS
    <2> DEFINE n == Len(cands)
    <2>a. i \in 1 .. n /\ i # n /\ n \in Nat
      BY <1>0
    <2>b. i < n /\ n \in 1 .. n
      <3> HIDE DEF n
      <3>1. QED
        BY ONLY <2>a
    <2>1. i < Len(cands) /\ Len(cands) \in 1 .. Len(cands)
      BY <2>b
    <2>2. cands[i].index < cands[Len(cands)].index
      BY <1>0, <2>1 DEF PreviewInv, UnitInv, PreviewSuperseded
    <2>3. cands[Len(cands)].index <= units
      BY <1>0, <2>1 DEF PreviewInv, UnitInv
    <2>4. cands[i].index \in Nat /\ cands[Len(cands)].index \in Nat
      BY <1>0, <2>1
    <2> DEFINE a == cands[i].index  b == cands[Len(cands)].index
    <2>5. a = units /\ a < b /\ b <= units /\ a \in Nat /\ b \in Nat
      BY <1>2, <2>2, <2>3, <2>4
    <2> HIDE DEF a, b
    <2>6. QED
      BY ONLY <1>0, <2>5
  <1>3. \A k \in 1 .. Len(cands) : cands[k].index <= units
    BY <1>0 DEF PreviewInv, UnitInv
  <1>4. CASE I = {}
    <2>1. Others = cands /\ Replaced = 0
      BY <1>1, <1>4 DEF Others
    <2>2. \A k \in 1 .. Len(cands) : cands[k].index # units
      BY <1>4 DEF SameUnit
    <2>3. \A k \in 1 .. Len(cands) : cands[k].index < units
      BY <1>0, <1>3, <2>2
    <2>4. QED
      BY <1>0, <2>1, <2>3
  <1>5. CASE I # {}
    <2>1. Min(I) \in I
      <3>1. I \in SUBSET Nat
        OBVIOUS
      <3>2. QED
        BY <1>5, <3>1, LeastExists
    <2>2. Replaced = Len(cands) /\ Len(cands) > 0
      <3>1. Replaced = Min(I)
        BY <1>1, <1>5
      <3>2. Replaced \in 1 .. Len(cands) /\ cands[Replaced].index = units
        BY <2>1, <3>1 DEF SameUnit
      <3>3. Replaced = Len(cands)
        BY <1>2, <3>2
      <3>4. QED
        BY <1>0, <3>2, <3>3
    <2>3. SubSeq(cands, Len(cands) + 1, Len(cands)) = <<>>
      BY <1>0, SubSeqProperties
    <2>4. /\ SubSeq(cands, 1, Len(cands) - 1) \in Seq(OfStream)
          /\ Len(SubSeq(cands, 1, Len(cands) - 1)) = Len(cands) - 1
          /\ \A k \in 1 .. Len(cands) - 1 : SubSeq(cands, 1, Len(cands) - 1)[k] = cands[k]
      BY <1>0, <2>2, SubSeqProperties
    <2>5. Others = SubSeq(cands, 1, Len(cands) - 1)
      <3>1. Others = SubSeq(cands, 1, Len(cands) - 1) \o SubSeq(cands, Len(cands) + 1, Len(cands))
        BY <2>2 DEF Others, RemoveAt
      <3>2. QED
        BY <2>3, <2>4, <3>1, ConcatEmptySeq
    <2>6. ASSUME NEW k \in 1 .. Len(cands) - 1 PROVE cands[k].index < units
      <3>1. k \in 1 .. Len(cands) /\ k # Len(cands)
        <4> DEFINE n == Len(cands)
        <4>1. n \in Nat /\ k \in 1 .. n - 1
          BY <1>0
        <4> HIDE DEF n
        <4>2. k \in 1 .. n /\ k # n
          BY ONLY <4>1
        <4>3. QED
          BY <4>2 DEF n
      <3>2. cands[k].index # units
        BY <1>2, <3>1
      <3> DEFINE a == cands[k].index
      <3>3. a \in Nat /\ a <= units /\ a # units
        BY <1>0, <1>3, <3>1, <3>2
      <3> HIDE DEF a
      <3>4. a < units
        BY ONLY <1>0, <3>3
      <3>5. QED
        BY <3>4 DEF a
    <2>7. /\ Replaced = Len(cands) /\ Replaced # 0
          /\ Others = SubSeq(cands, 1, Len(cands) - 1)
      BY <1>0, <2>2, <2>5
    <2>8. Others \in Seq(OfStream) /\ Len(Others) = Len(cands) - 1
      BY <2>4, <2>5
    <2>9. Len(Others) \in Nat /\ Len(Others) <= Len(cands)
      BY <1>0, <2>2, <2>8
    <2>10. \A k \in 1 .. Len(Others) : Others[k] = cands[k] /\ cands[k].index < units
      BY <2>4, <2>5, <2>6, <2>8
    <2>11. QED
      BY <2>7, <2>8, <2>9, <2>10
  <1>6. QED
    BY <1>4, <1>5

(* The list after a harvest: an end of the old one, and the candidate.     *)
LEMMA HarvestOrders ==
  ASSUME PreviewInv, Harvest
  PROVE  /\ \A i, j \in DOMAIN cands' : i < j => cands'[i].index < cands'[j].index
         /\ \A i \in DOMAIN cands' :
              /\ cands'[i].index \in Nat /\ cands'[i].index <= units
              /\ cands'[i].index < units => \E k \in DOMAIN cands : cands[k] = cands'[i]
              /\ cands'[i].index = units /\ IsPicture => cands'[i].size = unit["key"]
  <1>0. /\ cands \in Seq(OfStream) /\ Len(cands) \in Nat /\ units \in Nat
        /\ DOMAIN cands = 1 .. Len(cands)
        /\ \A i \in 1 .. Len(cands) : cands[i].index \in Nat /\ cands[i].index <= units
        /\ \A i, j \in 1 .. Len(cands) : i < j => cands[i].index < cands[j].index
    BY ListTyped DEF PreviewInv, UnitInv, PreviewSuperseded
  <1>1. CASE ~IsPicture
    <2>1. cands' = cands
      BY <1>1 DEF Harvest
    <2>2. QED
      BY <1>0, <1>1, <2>1
  <1>2. CASE IsPicture
    <2> DEFINE e == Evicted  m == Len(Others) - e  Kept == SubSeq(Others, e + 1, Len(Others))
    <2>1. /\ Others \in Seq(OfStream) /\ Len(Others) \in Nat
          /\ Len(Others) <= Len(cands)
          /\ \A k \in 1 .. Len(Others) : Others[k] = cands[k] /\ cands[k].index < units
      BY OthersAreOlder
    <2>2. e \in 0 .. Len(Others)
      BY <2>1, EvictedFits
    <2>3. cands' = Append(Kept, Candidate)
      BY <1>2 DEF Harvest
    <2> HIDE DEF e
    <2>4. /\ Kept \in Seq(OfStream) /\ Len(Kept) = m
          /\ \A k \in 1 .. m : Kept[k] = Others[e + k]
      BY <2>1, <2>2, SubSeqProperties
    <2>5. m \in Nat
      BY <2>1, <2>2
    <2>6. \A k \in 1 .. m : /\ e + k \in 1 .. Len(cands)
                            /\ Kept[k] = cands[e + k] /\ cands[e + k].index < units
      BY <1>0, <2>1, <2>2, <2>4
    <2> HIDE DEF Kept, m
    <2>7. Candidate.index = units /\ Candidate.size = unit["key"]
      BY DEF Candidate
    <2>8. /\ DOMAIN cands' = 1 .. m + 1
          /\ \A k \in 1 .. m : cands'[k] = cands[e + k]
          /\ cands'[m + 1] = Candidate
      BY <2>3, <2>4, <2>5, <2>6
    <2>9. ASSUME NEW i \in DOMAIN cands', NEW j \in DOMAIN cands', i < j
          PROVE  cands'[i].index < cands'[j].index
      <3>1. i \in 1 .. m /\ e + i \in 1 .. Len(cands) /\ cands'[i] = cands[e + i]
        BY <2>5, <2>6, <2>8, <2>9
      <3>2. CASE j = m + 1
        <4>1. cands[e + i].index < units
          BY <2>6, <3>1
        <4>2. QED
          BY <2>7, <2>8, <3>1, <3>2, <4>1
      <3>3. CASE j # m + 1
        <4>1. j \in 1 .. m /\ e + j \in 1 .. Len(cands) /\ cands'[j] = cands[e + j]
          BY <2>5, <2>6, <2>8, <3>3
        <4>2. e + i < e + j
          BY <2>2, <2>9, <3>1, <4>1
        <4>3. QED
          BY <1>0, <3>1, <4>1, <4>2
      <3>4. QED
        BY <3>2, <3>3
    <2>10. ASSUME NEW i \in DOMAIN cands'
           PROVE  /\ cands'[i].index \in Nat /\ cands'[i].index <= units
                  /\ cands'[i].index < units => \E k \in DOMAIN cands : cands[k] = cands'[i]
                  /\ cands'[i].index = units => cands'[i].size = unit["key"]
      <3>1. CASE i = m + 1
        BY <1>0, <2>7, <2>8, <3>1
      <3>2. CASE i # m + 1
        <4>1. /\ e + i \in 1 .. Len(cands) /\ cands'[i] = cands[e + i]
              /\ cands[e + i].index < units
          BY <2>5, <2>6, <2>8, <3>2
        <4>2. QED
          BY <1>0, <4>1
      <3>3. QED
        BY <3>1, <3>2
    <2>11. QED
      BY <2>9, <2>10
  <1>3. QED
    BY <1>1, <1>2

(* Collecting goes on: the entries of whole stay.                          *)
LEMMA LookedAt ==
  ASSUME PreviewInv, Harvest, UNCHANGED <<units, whole>>
  PROVE  UnitInv'
  <1>1. /\ \A i, j \in DOMAIN cands' : i < j => cands'[i].index < cands'[j].index
        /\ \A i \in DOMAIN cands' : /\ cands'[i].index <= units
                                    /\ cands'[i].index < units =>
                                         \E k \in DOMAIN cands : cands[k] = cands'[i]
    BY HarvestOrders
  <1>2. \A k \in DOMAIN cands : cands[k].index < units =>
             whole[cands[k].index + 1] \in {0, cands[k].size}
    BY DEF PreviewInv, UnitInv, PreviewSuperseded
  <1>3. \A i \in DOMAIN cands' : cands'[i].index < units =>
             whole[cands'[i].index + 1] \in {0, cands'[i].size}
    BY <1>1, <1>2, Zenon
  <1>4. units' = Len(whole') /\ whole' \in Seq(Nat)
    BY DEF PreviewInv, UnitInv
  <1>5. QED
    BY <1>1, <1>3, <1>4 DEF UnitInv, PreviewSuperseded

(* One entry more in whole: those before it stay.                          *)
LEMMA Entered ==
  ASSUME PreviewInv, NEW n \in Nat, whole' = Append(whole, n), units' = units + 1
  PROVE  /\ units' = Len(whole') /\ whole' \in Seq(Nat)
         /\ \A k \in Nat : k < units => whole'[k + 1] = whole[k + 1]
         /\ whole'[units + 1] = n
  <1>1. whole \in Seq(Nat) /\ units = Len(whole) /\ units \in Nat
    BY DEF PreviewInv, UnitInv
  <1>2. QED
    BY <1>1, AppendProperties

LEMMA EndsUnit ==
  ASSUME PreviewInv, EndUnit
  PROVE  UnitInv'
  <1> DEFINE n == IF IsPicture THEN unit["key"] ELSE 0
  <1>1. n \in Nat /\ units \in Nat
    BY DEF PreviewInv, StreamInv, Collected, Learned, Kinds
  <1>2. whole' = Append(whole, n) /\ units' = units + 1 /\ Harvest
    BY DEF EndUnit
  <1>3. /\ units' = Len(whole') /\ whole' \in Seq(Nat)
        /\ \A k \in Nat : k < units => whole'[k + 1] = whole[k + 1]
        /\ whole'[units + 1] = n
    BY <1>1, <1>2, Entered
  <1>4. \A i, j \in DOMAIN cands' : i < j => cands'[i].index < cands'[j].index
    BY <1>2, HarvestOrders
  <1>5. ASSUME NEW i \in DOMAIN cands'
        PROVE  /\ cands'[i].index <= units'
               /\ whole'[cands'[i].index + 1] \in {0, cands'[i].size}
    <2>1. /\ cands'[i].index \in Nat /\ cands'[i].index <= units
          /\ cands'[i].index < units => \E k \in DOMAIN cands : cands[k] = cands'[i]
          /\ cands'[i].index = units /\ IsPicture => cands'[i].size = unit["key"]
      BY <1>2, HarvestOrders
    <2>2. CASE cands'[i].index = units
      BY <1>1, <1>2, <1>3, <2>1, <2>2
    <2>3. CASE cands'[i].index # units
      <3>1. cands'[i].index < units
        BY <1>1, <2>1, <2>3
      <3>2. PICK k \in DOMAIN cands : cands[k] = cands'[i]
        BY <2>1, <3>1
      <3>3. whole[cands[k].index + 1] \in {0, cands[k].size}
        BY <3>1, <3>2 DEF PreviewInv, UnitInv, PreviewSuperseded
      <3>4. whole'[cands'[i].index + 1] = whole[cands'[i].index + 1]
        BY <1>3, <2>1, <3>1
      <3>5. cands'[i].index <= units'
        BY <1>1, <1>2, <2>1
      <3>6. QED
        BY <3>2, <3>3, <3>4, <3>5
    <2>4. QED
      BY <2>2, <2>3
  <1>6. QED
    BY <1>3, <1>4, <1>5 DEF UnitInv, PreviewSuperseded

(* A unit that was rejected promised nothing.                              *)
LEMMA RejectsUnit ==
  ASSUME PreviewInv, RejectUnit
  PROVE  UnitInv'
  <1>0. units \in Nat /\ \A i \in DOMAIN cands : cands[i].index \in Nat
    BY ListTyped
  <1>1. whole' = Append(whole, 0) /\ units' = units + 1 /\ cands' = cands
    BY DEF RejectUnit
  <1>2. /\ units' = Len(whole') /\ whole' \in Seq(Nat)
        /\ \A k \in Nat : k < units => whole'[k + 1] = whole[k + 1]
        /\ whole'[units + 1] = 0
    BY <1>1, Entered
  <1>3. \A i, j \in DOMAIN cands : i < j => cands[i].index < cands[j].index
    BY DEF PreviewInv, UnitInv, PreviewSuperseded
  <1>4. ASSUME NEW i \in DOMAIN cands
        PROVE  cands[i].index <= units' /\ whole'[cands[i].index + 1] \in {0, cands[i].size}
    <2>1. cands[i].index <= units
      BY DEF PreviewInv, UnitInv
    <2>2. cands[i].index < units => whole[cands[i].index + 1] \in {0, cands[i].size}
      BY DEF PreviewInv, UnitInv, PreviewSuperseded
    <2>3. QED
      BY <1>0, <1>1, <1>2, <2>1, <2>2
  <1>5. QED
    BY <1>1, <1>2, <1>3, <1>4 DEF UnitInv, PreviewSuperseded

LEMMA UnitsLeft ==
  ASSUME UnitInv, UNCHANGED <<cands, units, whole>>
  PROVE  UnitInv'
  BY DEF UnitInv, PreviewSuperseded

(* Everything is given up: no candidate is left to be out of order.        *)
LEMMA NoneLeft ==
  ASSUME cands' = <<>>, units' = Len(whole'), whole' \in Seq(Nat)
  PROVE  UnitInv'
  BY DEF UnitInv, PreviewSuperseded

LEMMA UnitsInit == Init => UnitInv
  BY DEF Init, UnitInv, PreviewSuperseded

LEMMA UnitsStep == PreviewInv /\ [Next]_vars => UnitInv'
  <1> SUFFICES ASSUME PreviewInv, [Next]_vars PROVE UnitInv'
    OBVIOUS
  <1>0. UnitInv
    BY DEF PreviewInv
  <1>1. CASE UNCHANGED vars
    BY <1>0, <1>1, UnitsLeft DEF vars, learned, history
  <1>2. ASSUME NEW s \in Streams, Switch(s) PROVE UnitInv'
    BY <1>0, <1>2, NoneLeft DEF Switch, Clear, UnitInv
  <1>3. CASE Reset
    <2>1. cands' = <<>> /\ units' = 0 /\ whole' = <<>>
      BY <1>3 DEF Reset, Clear
    <2>2. units' = Len(whole') /\ whole' \in Seq(Nat)
      BY <2>1
    <2>3. QED
      BY <2>1, <2>2, NoneLeft
  <1>4. ASSUME NEW p \in config.brings, FeedStart(p) PROVE UnitInv'
    BY <1>4, EndsUnit DEF FeedStart
  <1>5. ASSUME NEW p \in config.brings, FeedRejected(p) PROVE UnitInv'
    BY <1>5, RejectsUnit DEF FeedRejected
  <1>6. ASSUME NEW p \in config.brings, FeedMore(p) PROVE UnitInv'
    BY <1>0, <1>6, UnitsLeft DEF FeedMore, learned
  <1>7. CASE AddHeld
    BY <1>0, <1>7, UnitsLeft DEF AddHeld, learned, history
  <1>8. CASE Analyze
    <2>1. UNCHANGED <<units, whole>>
      BY <1>8 DEF Analyze
    <2>2. CASE size # preview /\ ~dropping
      BY <1>8, <2>1, <2>2, LookedAt DEF Analyze
    <2>3. CASE ~(size # preview /\ ~dropping)
      BY <1>0, <1>8, <2>1, <2>3, UnitsLeft DEF Analyze, learned
    <2>4. QED
      BY <2>2, <2>3
  <1>9. CASE Finish
    <2>1. CASE packets > 0
      BY <1>9, <2>1, EndsUnit DEF Finish
    <2>2. CASE ~(packets > 0)
      BY <1>0, <1>9, <2>2, UnitsLeft DEF Finish, learned
    <2>3. QED
      BY <2>1, <2>2
  <1>10. CASE FinishRejected
    BY <1>10, RejectsUnit DEF FinishRejected
  <1>11. ASSUME NEW good \in BOOLEAN, Try(good) PROVE UnitInv'
    <2> DEFINE n == order[NextUntried]
    <2>1. /\ cands' = [cands EXCEPT ![n].emitted = version]
          /\ UNCHANGED <<units, whole>>
      BY <1>11 DEF Try, history
    <2> HIDE DEF n
    <2>2. DOMAIN cands' = DOMAIN cands
      BY <2>1
    <2>3. \A i \in DOMAIN cands : cands[i] \in OfStream
      BY ListTyped
    <2>4. ASSUME NEW i \in DOMAIN cands
          PROVE  cands'[i].index = cands[i].index /\ cands'[i].size = cands[i].size
      <3>1. CASE i = n
        <4>1. cands'[i] = [cands[i] EXCEPT !.emitted = version]
          BY <2>1, <3>1
        <4>2. QED
          BY <2>3, <4>1 DEF OfStream, CandidateOf
      <3>2. CASE i # n
        BY <2>1, <3>2
      <3>3. QED
        BY <3>1, <3>2
    <2>5. QED
      BY <1>0, <2>1, <2>2, <2>4 DEF UnitInv, PreviewSuperseded
  <1>12. ASSUME NEW good \in BOOLEAN, Vote(good) PROVE UnitInv'
    BY <1>0, <1>12, UnitsLeft DEF Vote, learned, history
  <1>13. CASE CallbackFails
    BY <1>0, <1>13, UnitsLeft DEF CallbackFails, learned, history
  <1>14. CASE EndPass
    BY <1>0, <1>14, UnitsLeft DEF EndPass, history
  <1>15. CASE Sort
    BY <1>0, <1>15, UnitsLeft DEF Sort, learned, history
  <1>16. QED
    BY <1>1, <1>2, <1>3, <1>4, <1>5, <1>6, <1>7, <1>8, <1>9, <1>10, <1>11, <1>12, <1>13, <1>14,
       <1>15
    DEF Next, Engine

(* Previews leave no trace: whatever was analysed of a unit while it grew, *)
(* the unit has one candidate, in its place in the stream, and when it is  *)
(* complete that candidate holds the whole picture.                        *)
THEOREM PreviewsLeaveNoTrace == Spec => []PreviewSuperseded
  <1>1. Init => PreviewInv
    BY StreamInit, UnitsInit DEF PreviewInv
  <1>2. PreviewInv /\ [Next]_vars => PreviewInv'
    BY StreamStep, UnitsStep DEF PreviewInv
  <1>3. PreviewInv => PreviewSuperseded
    BY DEF PreviewInv, UnitInv
  <1>4. QED
    BY <1>1, <1>2, <1>3, PTL DEF Spec
-----------------------------------------------------------------------------
(* Induction over the natural numbers, for a set instead of a predicate.   *)
LEMMA NatSetInduction ==
  ASSUME NEW S, 0 \in S, \A n \in Nat : n \in S => n + 1 \in S
  PROVE  Nat \subseteq S
  <1> DEFINE R == {ss \in Nat \X Nat : ss[1] < ss[2]}
             T == Nat \ S
  <1>1. SUFFICES ASSUME T # {} PROVE FALSE
    OBVIOUS
  <1>2. IsWellFoundedOn(R, Nat)
    BY NatLessThanWellFounded DEF OpToRel
  <1>3. \E x \in T : \A y \in T : ~(<<y, x>> \in R)
    BY <1>1, <1>2, WFMin, Zenon
  <1>4. PICK x \in T : \A y \in T : ~(<<y, x>> \in R)
    BY <1>3
  <1>5. x \in Nat /\ x # 0 /\ x - 1 \in Nat /\ (x - 1) + 1 = x
    OBVIOUS
  <1>6. x - 1 \in S
    <2>1. x - 1 \in T => ~(<<x - 1, x>> \in R)
      BY <1>4
    <2>2. <<x - 1, x>> \in R
      BY <1>5
    <2>3. QED
      BY <1>5, <2>1, <2>2
  <1>7. QED
    BY <1>5, <1>6

(* The sum of the sizes of a list is a fold over the set of its positions: *)
(* the recursive function behind it, which takes out the largest position, *)
(* exists for every length, so that the fold is that function's value.     *)
SizeStep(cs, it, n) ==
   it = [s \in SUBSET (1 .. n) |-> IF s = {} THEN 0 ELSE it[s \ {Max(s)}] + cs[Max(s)].size]

LEMMA MaxIs == ASSUME NEW n \in Nat, NEW s \in SUBSET (1 .. n), n \in s PROVE Max(s) = n
  <1>1. \A y \in s : n >= y
    OBVIOUS
  <1>2. \A x \in s : (\A y \in s : x >= y) => x = n
    OBVIOUS
  <1>3. QED
    BY <1>1, <1>2 DEF Max

LEMMA SizeFunction ==
  ASSUME NEW cs PROVE \A n \in Nat : \E it : SizeStep(cs, it, n)
  <1> DEFINE S == {n \in Nat : \E it : SizeStep(cs, it, n)}
  <1>1. 0 \in S
    <2> DEFINE it == [s \in SUBSET (1 .. 0) |-> 0]
    <2>1. SizeStep(cs, it, 0)
      BY DEF SizeStep
    <2>2. QED
      BY <2>1
  <1>2. ASSUME NEW n \in Nat, n \in S PROVE n + 1 \in S
    <2>1. PICK it : SizeStep(cs, it, n)
      BY <1>2
    <2> DEFINE m == n + 1
               new == [s \in SUBSET (1 .. m) |->
                         IF m \in s THEN it[s \ {m}] + cs[m].size ELSE it[s]]
    <2>2. ASSUME NEW s \in SUBSET (1 .. m)
          PROVE  new[s] = IF s = {} THEN 0 ELSE new[s \ {Max(s)}] + cs[Max(s)].size
      <3>1. CASE m \in s
        <4>1. Max(s) = m
          BY <3>1, MaxIs
        <4>2. s \ {m} \in SUBSET (1 .. m) /\ m \notin s \ {m}
          OBVIOUS
        <4>3. new[s \ {m}] = it[s \ {m}]
          BY <4>2
        <4>4. QED
          BY <3>1, <4>1, <4>3
      <3>2. CASE m \notin s
        <4>1. s \in SUBSET (1 .. n)
          BY <3>2
        <4>2. new[s] = it[s]
          BY <3>2
        <4>3. it[s] = IF s = {} THEN 0 ELSE it[s \ {Max(s)}] + cs[Max(s)].size
          BY <2>1, <4>1 DEF SizeStep
        <4>4. new[s \ {Max(s)}] = it[s \ {Max(s)}]
          BY <3>2
        <4>5. QED
          BY <4>2, <4>3, <4>4
      <3>3. QED
        BY <3>1, <3>2
    <2>3. SizeStep(cs, new, m)
      <3>1. new = [s \in SUBSET (1 .. m) |-> new[s]]
        OBVIOUS
      <3> HIDE DEF new
      <3>2. QED
        BY <2>2, <3>1, Zenon DEF SizeStep
    <2>4. QED
      BY <2>3
  <1>3. Nat \subseteq S
    BY <1>1, <1>2, NatSetInduction
  <1>4. QED
    BY <1>3

LEMMA SizeUnfolds ==
  ASSUME NEW C, NEW cs \in Seq(C)
  PROVE  \E it : SizeStep(cs, it, Len(cs)) /\ SizeOf(cs) = it[1 .. Len(cs)]
  <1> DEFINE it == CHOOSE it : SizeStep(cs, it, Len(cs))
  <1>1. SizeStep(cs, it, Len(cs))
    <2>1. Len(cs) \in Nat
      OBVIOUS
    <2>2. QED
      BY <2>1, SizeFunction
  <1>2. SizeOf(cs) = it[1 .. Len(cs)]
    <2>1. DOMAIN cs = 1 .. Len(cs)
      OBVIOUS
    <2>2. QED
      BY <2>1 DEF SizeOf, FoldLeft, MapThenFoldSet, SizeStep
  <1>3. QED
    BY <1>1, <1>2

(* The sizes add up from the left.                                         *)
Sums(g, cs) ==
    /\ g \in [0 .. Len(cs) -> Nat] /\ g[0] = 0
    /\ \A k \in 1 .. Len(cs) : g[k] = g[k - 1] + cs[k].size

Sized(cs) == \A k \in 1 .. Len(cs) : cs[k].size \in Nat

LEMMA SizeSums ==
  ASSUME NEW C, NEW cs \in Seq(C), Sized(cs)
  PROVE  \E g : Sums(g, cs) /\ SizeOf(cs) = g[Len(cs)]
  <1> DEFINE n == Len(cs)
  <1>0. n \in Nat
    OBVIOUS
  <1>1. PICK it : SizeStep(cs, it, n) /\ SizeOf(cs) = it[1 .. n]
    BY SizeUnfolds
  <1> DEFINE g == [k \in 0 .. n |-> it[1 .. k]]
  <1>2. ASSUME NEW k \in 1 .. n
        PROVE  it[1 .. k] = it[1 .. k - 1] + cs[k].size
    <2>0. k \in Nat /\ 1 <= k /\ k <= n
      BY <1>0
    <2>1. k \in 1 .. k /\ 1 .. k # {} /\ 1 .. k \in SUBSET (1 .. n) /\ k \in Nat
      <3> HIDE DEF n, g
      <3>1. 1 .. k \subseteq 1 .. n
        BY ONLY <1>0, <2>0
      <3>2. k \in 1 .. k
        BY ONLY <2>0
      <3>3. QED
        BY ONLY <2>0, <3>1, <3>2
    <2>2. Max(1 .. k) = k
      BY <2>1, MaxIs
    <2>3. (1 .. k) \ {k} = 1 .. k - 1
      BY <2>1
    <2>4. it[1 .. k] = it[(1 .. k) \ {Max(1 .. k)}] + cs[Max(1 .. k)].size
      BY <1>1, <2>1 DEF SizeStep
    <2>5. QED
      BY <2>2, <2>3, <2>4
  <1>3. it[1 .. 0] = 0
    <2>1. 1 .. 0 = {} /\ {} \in SUBSET (1 .. n)
      OBVIOUS
    <2>2. QED
      BY <1>1, <2>1 DEF SizeStep
  <1>4. \A k \in 0 .. n : it[1 .. k] \in Nat
    <2> DEFINE S == {k \in Nat : k \in 0 .. n => it[1 .. k] \in Nat}
    <2>1. 0 \in S
      BY <1>3
    <2>2. ASSUME NEW k \in Nat, k \in S PROVE k + 1 \in S
      <3> SUFFICES ASSUME k + 1 \in 0 .. n PROVE it[1 .. k + 1] \in Nat
        OBVIOUS
      <3>1. k \in 0 .. n /\ k + 1 \in 1 .. n /\ (k + 1) - 1 = k
        BY <1>0
      <3>2. it[1 .. k + 1] = it[1 .. (k + 1) - 1] + cs[k + 1].size
        BY <1>2, <3>1
      <3>3. it[1 .. k] \in Nat /\ cs[k + 1].size \in Nat
        BY <2>2, <3>1 DEF Sized
      <3> DEFINE x == it[1 .. k]  y == cs[k + 1].size
      <3>4. it[1 .. k + 1] = x + y /\ x \in Nat /\ y \in Nat
        BY <3>1, <3>2, <3>3
      <3> HIDE DEF x, y
      <3>5. QED
        BY <3>4
    <2>3. Nat \subseteq S
      BY <2>1, <2>2, NatSetInduction
    <2>4. QED
      BY <1>0, <2>3
  <1>5. Sums(g, cs)
    <2>1. g \in [0 .. n -> Nat] /\ g[0] = 0
      BY <1>0, <1>3, <1>4
    <2>2. ASSUME NEW k \in 1 .. n PROVE g[k] = g[k - 1] + cs[k].size
      BY <1>0, <1>2
    <2>3. QED
      BY <2>1, <2>2 DEF Sums
  <1>6. SizeOf(cs) = g[n]
    BY <1>0, <1>1
  <1>7. QED
    BY <1>5, <1>6

(* Candidates in a row, of whatever list, hold the difference of two sums. *)
LEMMA SizeOfRun ==
  ASSUME NEW C, NEW cs \in Seq(C), Sized(cs), NEW g, Sums(g, cs),
         NEW D, NEW ds \in Seq(D), NEW a \in Nat, a + Len(ds) <= Len(cs),
         \A k \in 1 .. Len(ds) : ds[k].size = cs[a + k].size
  PROVE  SizeOf(ds) = g[a + Len(ds)] - g[a]
  <1>0. Len(cs) \in Nat /\ Len(ds) \in Nat
    OBVIOUS
  <1>1. Sized(ds)
    <2>1. ASSUME NEW k \in 1 .. Len(ds) PROVE ds[k].size \in Nat
      <3>1. a + k \in 1 .. Len(cs)
        BY <1>0
      <3>2. ds[k].size = cs[a + k].size
        OBVIOUS
      <3>3. QED
        BY <3>1, <3>2 DEF Sized
    <2>2. QED
      BY <2>1 DEF Sized
  <1>2. PICK h : Sums(h, ds) /\ SizeOf(ds) = h[Len(ds)]
    BY <1>1, SizeSums
  <1> DEFINE S == {k \in Nat : k <= Len(ds) => h[k] = g[a + k] - g[a]}
  <1>a. \A k \in 0 .. Len(ds) : h[k] \in Nat
    BY <1>2 DEF Sums
  <1>b. \A k \in 0 .. Len(cs) : g[k] \in Nat
    BY DEF Sums
  <1>3. 0 \in S
    <2>1. g[a] \in Nat /\ a + 0 = a
      BY <1>0, <1>b
    <2>2. h[0] = 0
      BY <1>2 DEF Sums
    <2> DEFINE x == g[a]
    <2>3. h[0] = g[a + 0] - x /\ x = g[a]
      BY <2>1, <2>2
    <2>4. QED
      BY <2>3
  <1>4. ASSUME NEW k \in Nat, k \in S PROVE k + 1 \in S
    <2> SUFFICES ASSUME k + 1 <= Len(ds) PROVE h[k + 1] = g[a + (k + 1)] - g[a]
      OBVIOUS
    <2>1. /\ k + 1 \in 1 .. Len(ds) /\ (k + 1) - 1 = k /\ k \in 0 .. Len(ds)
          /\ a + (k + 1) \in 1 .. Len(cs) /\ (a + (k + 1)) - 1 = a + k
          /\ a + k \in 0 .. Len(cs) /\ a \in 0 .. Len(cs)
      BY <1>0
    <2>2. h[k + 1] = h[k] + ds[k + 1].size
      BY <1>2, <2>1 DEF Sums
    <2>3. g[a + (k + 1)] = g[a + k] + cs[a + (k + 1)].size
      BY <2>1 DEF Sums
    <2>4. ds[k + 1].size = cs[a + (k + 1)].size /\ cs[a + (k + 1)].size \in Nat
      BY <2>1 DEF Sized
    <2>5. h[k] = g[a + k] - g[a]
      BY <1>4, <2>1
    <2>6. g[a] \in Nat /\ g[a + k] \in Nat
      BY <1>b, <2>1
    <2> DEFINE x == g[a]  y == g[a + k]  z == cs[a + (k + 1)].size
    <2>7. /\ h[k + 1] = (y - x) + z /\ g[a + (k + 1)] = y + z
          /\ x \in Nat /\ y \in Nat /\ z \in Nat
      BY <2>2, <2>3, <2>4, <2>5, <2>6
    <2> HIDE DEF y, z
    <2>8. h[k + 1] = g[a + (k + 1)] - x
      <3> HIDE DEF x
      <3>1. QED
        BY <2>7
    <2>9. QED
      BY <2>8
  <1>5. Nat \subseteq S
    BY <1>3, <1>4, NatSetInduction
  <1>6. QED
    BY <1>0, <1>2, <1>5

LEMMA SizeAppended ==
  ASSUME NEW C, NEW cs \in Seq(C), Sized(cs), NEW c \in C, c.size \in Nat
  PROVE  SizeOf(Append(cs, c)) = SizeOf(cs) + c.size /\ SizeOf(cs) \in Nat
  <1> DEFINE ds == Append(cs, c)
  <1>1. /\ Len(cs) \in Nat /\ ds \in Seq(C) /\ Len(ds) = Len(cs) + 1
        /\ \A k \in 1 .. Len(cs) : ds[k] = cs[k]
        /\ ds[Len(cs) + 1] = c
    BY AppendProperties
  <1> HIDE DEF ds
  <1>2. Sized(ds)
    <2>1. ASSUME NEW k \in 1 .. Len(ds) PROVE ds[k].size \in Nat
      <3>1. CASE k \in 1 .. Len(cs)
        BY <1>1, <3>1 DEF Sized
      <3>2. CASE k = Len(cs) + 1
        BY <1>1, <3>2
      <3>3. QED
        BY <1>1, <3>1, <3>2
    <2>2. QED
      BY <2>1 DEF Sized
  <1>3. PICK g : Sums(g, ds) /\ SizeOf(ds) = g[Len(ds)]
    BY <1>1, <1>2, SizeSums
  <1>4. SizeOf(cs) = g[0 + Len(cs)] - g[0]
    BY <1>1, <1>2, <1>3, SizeOfRun
  <1>5. g[0] = 0 /\ g[Len(cs)] \in Nat /\ g[Len(ds)] = g[Len(cs)] + c.size
    <2>1. Len(ds) \in 1 .. Len(ds) /\ Len(ds) - 1 = Len(cs) /\ Len(cs) \in 0 .. Len(ds)
      BY <1>1
    <2>2. g[Len(ds)] = g[Len(ds) - 1] + ds[Len(ds)].size
      BY <1>3, <2>1 DEF Sums
    <2>3. QED
      BY <1>1, <1>3, <2>1, <2>2 DEF Sums
  <1>6. QED
    BY <1>1, <1>3, <1>4, <1>5 DEF ds

(* A list cut in two.                                                      *)
LEMMA SizeCut ==
  ASSUME NEW C, NEW cs \in Seq(C), Sized(cs), NEW e \in 0 .. Len(cs)
  PROVE  /\ SizeOf(cs) = SizeOf(SubSeq(cs, 1, e)) + SizeOf(SubSeq(cs, e + 1, Len(cs)))
         /\ SizeOf(SubSeq(cs, 1, e)) \in Nat /\ SizeOf(SubSeq(cs, e + 1, Len(cs))) \in Nat
         /\ SizeOf(cs) \in Nat
  <1> DEFINE n == Len(cs)  b == SubSeq(cs, 1, e)  d == SubSeq(cs, e + 1, n)
  <1>0. n \in Nat /\ e \in Nat /\ e <= n
    OBVIOUS
  <1>1. /\ b \in Seq(C) /\ Len(b) = e /\ \A k \in 1 .. e : b[k] = cs[k]
    BY <1>0, SubSeqProperties
  <1>2. /\ d \in Seq(C) /\ Len(d) = n - e /\ \A k \in 1 .. n - e : d[k] = cs[e + k]
    BY <1>0, SubSeqProperties
  <1>3. PICK g : Sums(g, cs) /\ SizeOf(cs) = g[n]
    BY SizeSums
  <1>4. Sized(b) /\ Sized(d)
    <2>1. Sized(b)
      BY <1>0, <1>1 DEF Sized
    <2>2. ASSUME NEW k \in 1 .. n - e PROVE d[k].size \in Nat
      BY <1>0, <1>2 DEF Sized
    <2>3. QED
      BY <1>2, <2>1, <2>2 DEF Sized
  <1> HIDE DEF b, d, n
  <1>5. SizeOf(b) = g[0 + Len(b)] - g[0]
    BY <1>0, <1>1, <1>3, SizeOfRun DEF n
  <1>6. SizeOf(d) = g[e + Len(d)] - g[e]
    <2>1. Sums(g, cs) /\ d \in Seq(C) /\ e \in Nat
      BY <1>0, <1>2, <1>3
    <2>2. e + Len(d) <= Len(cs) /\ \A k \in 1 .. Len(d) : d[k].size = cs[e + k].size
      BY <1>0, <1>2 DEF n
    <2>3. QED
      BY <2>1, <2>2, SizeOfRun
  <1>7. 0 + Len(b) = e /\ e + Len(d) = n
    BY <1>0, <1>1, <1>2
  <1>8. g[0] = 0 /\ g[e] \in Nat /\ g[n] \in Nat
    BY <1>0, <1>3 DEF Sums, n
  <1>9. SizeOf(b) \in Nat /\ SizeOf(d) \in Nat
    <2>1. PICK hb : Sums(hb, b) /\ SizeOf(b) = hb[Len(b)]
      BY <1>1, <1>4, SizeSums
    <2>2. PICK hd : Sums(hd, d) /\ SizeOf(d) = hd[Len(d)]
      BY <1>2, <1>4, SizeSums
    <2>3. Len(b) \in 0 .. Len(b) /\ Len(d) \in 0 .. Len(d)
      BY <1>0, <1>1, <1>2
    <2>4. QED
      BY <2>1, <2>2, <2>3 DEF Sums
  <1> DEFINE x == g[e]  y == g[n]
  <1>10. SizeOf(b) = x - 0 /\ SizeOf(d) = y - x /\ SizeOf(cs) = y /\ x \in Nat /\ y \in Nat
    BY <1>3, <1>5, <1>6, <1>7, <1>8
  <1> HIDE DEF x, y
  <1>11. SizeOf(cs) = SizeOf(b) + SizeOf(d) /\ SizeOf(cs) \in Nat
    BY <1>10
  <1>12. QED
    BY <1>9, <1>11 DEF b, d, n

LEMMA SizeNone == SizeOf(<<>>) = 0
  <1> DEFINE cs == <<>>
  <1>1. cs \in Seq({}) /\ Len(cs) = 0
    OBVIOUS
  <1> HIDE DEF cs
  <1>2. Sized(cs)
    BY <1>1 DEF Sized
  <1>3. PICK g : Sums(g, cs) /\ SizeOf(cs) = g[Len(cs)]
    BY <1>1, <1>2, SizeSums
  <1>4. SizeOf(cs) = 0
    BY <1>1, <1>3 DEF Sums
  <1>5. QED
    BY <1>4 DEF cs

(* Lists of the same sizes hold the same.                                  *)
LEMMA SizeSame ==
  ASSUME NEW C, NEW cs \in Seq(C), Sized(cs), NEW D, NEW ds \in Seq(D),
         Len(ds) = Len(cs), \A k \in 1 .. Len(ds) : ds[k].size = cs[k].size
  PROVE  SizeOf(ds) = SizeOf(cs)
  <1>1. PICK g : Sums(g, cs) /\ SizeOf(cs) = g[Len(cs)]
    BY SizeSums
  <1>2. Len(cs) \in Nat /\ Len(ds) \in Nat
    OBVIOUS
  <1>3. 0 + Len(ds) <= Len(cs) /\ \A k \in 1 .. Len(ds) : ds[k].size = cs[0 + k].size
    BY <1>2
  <1>4. SizeOf(ds) = g[0 + Len(ds)] - g[0]
    BY <1>1, <1>3, SizeOfRun
  <1>5. g[Len(cs)] \in Nat /\ g[0] = 0 /\ 0 + Len(ds) = Len(cs)
    BY <1>1, <1>2 DEF Sums
  <1> DEFINE x == g[Len(cs)]
  <1>6. SizeOf(ds) = x - 0 /\ x \in Nat /\ SizeOf(cs) = x
    BY <1>1, <1>4, <1>5
  <1> HIDE DEF x
  <1>7. QED
    BY <1>6
-----------------------------------------------------------------------------
(* The unit stays within its half of the budget, and so does each NAL unit *)
(* taken out of it; the list of candidates within the other half.          *)
UnitFits == size \in 0 .. HalfBudget /\ \A k \in Kinds : unit[k] <= size
ListFits ==
    retained = SizeOf(cands) /\ retained <= HalfBudget /\ Len(cands) <= Capacity
BudgetInv == PreviewInv /\ UnitFits /\ ListFits

LEMMA ListSized ==
  ASSUME NEW s, NEW cs \in Seq(CandidateOf(s))
  PROVE  Sized(cs) /\ SizeOf(cs) \in Nat
  <1>1. Sized(cs)
    <2>1. ASSUME NEW k \in 1 .. Len(cs) PROVE cs[k].size \in Nat
      <3>1. cs[k] \in CandidateOf(s)
        OBVIOUS
      <3>2. QED
        BY <3>1 DEF CandidateOf
    <2>2. QED
      BY <2>1 DEF Sized
  <1>2. PICK g : Sums(g, cs) /\ SizeOf(cs) = g[Len(cs)]
    BY <1>1, SizeSums
  <1>3. Len(cs) \in 0 .. Len(cs)
    OBVIOUS
  <1>4. QED
    BY <1>1, <1>2, <1>3 DEF Sums

(* What retained is lowered to when a preview is given up is what the      *)
(* others hold.                                                            *)
LEMMA OthersHoldIsSize ==
  ASSUME BudgetInv
  PROVE  /\ OthersHold = SizeOf(Others) /\ SizeOf(Others) \in Nat
         /\ Others \in Seq(OfStream) /\ Sized(Others)
         /\ SizeOf(Others) <= HalfBudget /\ Len(Others) \in Nat /\ Len(Others) <= Capacity
  <1>0. /\ cands \in Seq(OfStream) /\ Len(cands) \in Nat
        /\ retained = SizeOf(cands) /\ retained <= HalfBudget /\ Len(cands) <= Capacity
        /\ HalfBudget \in Nat /\ Capacity \in Nat
    BY ListTyped, BoundsAssumption DEF BudgetInv, ListFits
  <1>1. /\ Others \in Seq(OfStream) /\ Len(Others) \in Nat /\ Len(Others) <= Len(cands)
        /\ \/ Replaced = 0 /\ Others = cands
           \/ /\ Replaced = Len(cands) /\ Replaced # 0
              /\ Others = SubSeq(cands, 1, Len(cands) - 1)
    BY OthersAreOlder DEF BudgetInv
  <1>2. Sized(cands) /\ Sized(Others) /\ SizeOf(cands) \in Nat /\ SizeOf(Others) \in Nat
    BY <1>0, <1>1, ListSized DEF OfStream
  <1>3. OthersHold = SizeOf(Others) /\ SizeOf(Others) <= SizeOf(cands)
    <2>1. CASE Replaced = 0 /\ Others = cands
      BY <1>0, <1>2, <2>1 DEF OthersHold
    <2>2. CASE /\ Replaced = Len(cands) /\ Replaced # 0
               /\ Others = SubSeq(cands, 1, Len(cands) - 1)
      <3> DEFINE n == Len(cands)
      <3>1. n \in 1 .. n /\ n - 1 \in Nat /\ (n - 1) + 1 = n /\ n > 0
        BY <1>0, <2>2
      <3>2. cands[n] \in OfStream /\ cands[n].size \in Nat
        <4>1. cands[n] \in OfStream
          BY <1>0, <3>1
        <4>2. QED
          BY <4>1 DEF OfStream, CandidateOf
      <3>3. cands = Append(Others, cands[n])
        <4>1. cands = Append(SubSeq(cands, 1, Len(cands) - 1), cands[Len(cands)])
          BY <1>0, <3>1
        <4>2. QED
          BY <2>2, <4>1
      <3>4. SizeOf(cands) = SizeOf(Others) + cands[n].size
        BY <1>1, <1>2, <3>2, <3>3, SizeAppended
      <3>5. OthersHold = SizeOf(cands) - cands[n].size
        BY <1>0, <2>2 DEF OthersHold
      <3> DEFINE x == SizeOf(Others)  y == cands[n].size
      <3>6. /\ SizeOf(cands) = x + y /\ OthersHold = (x + y) - y
            /\ x \in Nat /\ y \in Nat
        BY <1>2, <3>2, <3>4, <3>5
      <3> HIDE DEF x, y
      <3>7. OthersHold = x /\ x <= SizeOf(cands)
        BY <3>6
      <3>8. QED
        BY <3>7 DEF x
    <2>3. QED
      BY <1>1, <2>1, <2>2
  <1>4. QED
    <2> DEFINE x == SizeOf(Others)  y == SizeOf(cands)  m == Len(Others)  n == Len(cands)
    <2>1. /\ x <= y /\ y <= HalfBudget /\ m <= n /\ n <= Capacity /\ HalfBudget \in Nat
          /\ x \in Nat /\ y \in Nat /\ m \in Nat /\ n \in Nat /\ Capacity \in Nat
      BY <1>0, <1>1, <1>2, <1>3
    <2> HIDE DEF x, y, m, n
    <2>2. x <= HalfBudget /\ m <= Capacity
      BY ONLY <2>1
    <2>3. QED
      BY <1>1, <1>2, <1>3, <2>2 DEF x, m

(* A harvest keeps the account and the limits: the oldest candidates make  *)
(* room, and a picture alone is no larger than its unit.                   *)
LEMMA HarvestFits ==
  ASSUME BudgetInv, Harvest
  PROVE  ListFits'
  <1>1. CASE ~IsPicture
    BY <1>1 DEF Harvest, BudgetInv, ListFits
  <1>2. CASE IsPicture
    <2> DEFINE e == Evicted  n == Len(Others)  c == Candidate
               Gone == SubSeq(Others, 1, e)  Kept == SubSeq(Others, e + 1, n)
    <2>1. /\ OthersHold = SizeOf(Others) /\ SizeOf(Others) \in Nat
          /\ Others \in Seq(OfStream) /\ Sized(Others)
          /\ SizeOf(Others) <= HalfBudget /\ n \in Nat /\ n <= Capacity
      BY OthersHoldIsSize
    <2>2. e \in 0 .. n /\ (e = n \/ Fits(e))
      BY <2>1, EvictedFits
    <2>3. /\ cands' = Append(Kept, c)
          /\ retained' = OthersHold - SizeOf(Gone) + c.size
      BY <1>2 DEF Harvest
    <2>4. /\ c \in OfStream /\ c.size \in Nat /\ c.size <= HalfBudget
          /\ HalfBudget \in Nat /\ Capacity \in Nat \ {0}
      <3>1. c.size = unit["key"] /\ "key" \in Kinds
        BY DEF Candidate, Kinds
      <3>2. unit["key"] \in Nat /\ unit["key"] <= size /\ size \in 0 .. HalfBudget
        BY <3>1 DEF BudgetInv, PreviewInv, StreamInv, Collected, UnitFits
      <3>3. HalfBudget \in Nat /\ Capacity \in Nat \ {0}
        BY BoundsAssumption
      <3>4. c \in OfStream
        BY <1>2, CandidateTyped DEF BudgetInv, PreviewInv, OfStream
      <3> DEFINE x == unit["key"]
      <3>5. x \in Nat /\ x <= size /\ size \in 0 .. HalfBudget /\ HalfBudget \in Nat
        BY <3>2, <3>3
      <3> HIDE DEF x
      <3>6. x <= HalfBudget
        BY ONLY <3>5
      <3>7. QED
        BY <3>1, <3>2, <3>3, <3>4, <3>6 DEF x
    <2>5. (e = n \/ n - e < Capacity) /\ (e = n \/ OthersHold - SizeOf(Gone) + c.size <= HalfBudget)
      BY <2>2 DEF Fits
    <2> HIDE DEF e, c
    <2>6. /\ SizeOf(Others) = SizeOf(Gone) + SizeOf(Kept)
          /\ SizeOf(Gone) \in Nat /\ SizeOf(Kept) \in Nat
      BY <2>1, <2>2, SizeCut
    <2>7. /\ Kept \in Seq(OfStream) /\ Len(Kept) = n - e /\ Sized(Kept)
      <3>1. Kept \in Seq(OfStream) /\ Len(Kept) = n - e
        BY <2>1, <2>2, SubSeqProperties
      <3>2. QED
        BY <3>1, ListSized DEF OfStream
    <2>8. SizeOf(cands') = SizeOf(Kept) + c.size
      BY <2>3, <2>4, <2>7, SizeAppended
    <2>9. Len(cands') = (n - e) + 1
      BY <2>3, <2>7, AppendProperties, <2>4
    <2>10. e = n => SizeOf(Kept) = 0
      <3> SUFFICES ASSUME e = n PROVE SizeOf(Kept) = 0
        OBVIOUS
      <3>1. Kept = <<>>
        BY <2>1, <2>7
      <3>2. QED
        BY <3>1, SizeNone
    <2> DEFINE x == SizeOf(Gone)  y == SizeOf(Kept)  z == c.size
    <2>11. /\ retained' = ((x + y) - x) + z /\ SizeOf(cands') = y + z
           /\ x \in Nat /\ y \in Nat /\ z \in Nat /\ z <= HalfBudget
           /\ e = n \/ ((x + y) - x) + z <= HalfBudget
           /\ e = n => y = 0
           /\ e = n \/ n - e < Capacity
           /\ Len(cands') = (n - e) + 1 /\ e \in Nat /\ n \in Nat /\ e <= n
           /\ HalfBudget \in Nat /\ Capacity \in Nat \ {0}
      BY <2>1, <2>2, <2>3, <2>4, <2>5, <2>6, <2>8, <2>9, <2>10
    <2> HIDE DEF x, y, z, n, Kept, Gone
    <2>12. retained' = SizeOf(cands') /\ retained' <= HalfBudget
      <3>1. ((x + y) - x) + z = y + z
        BY ONLY <2>11
      <3>2. CASE e = n
        BY <2>11, <3>1, <3>2
      <3>3. CASE e # n
        BY <2>11, <3>1, <3>3
      <3>4. QED
        BY <3>2, <3>3
    <2>13. Len(cands') <= Capacity
      <3> DEFINE w == Len(cands')
      <3>1. /\ e = n \/ n - e < Capacity
            /\ w = (n - e) + 1 /\ e \in Nat /\ n \in Nat /\ Capacity \in Nat \ {0}
        BY <2>11
      <3> HIDE DEF w
      <3>2. w <= Capacity
        BY ONLY <3>1
      <3>3. QED
        BY <3>2 DEF w
    <2>14. QED
      BY <2>12, <2>13 DEF ListFits
  <1>3. QED
    BY <1>1, <1>2

LEMMA ListLeft ==
  ASSUME ListFits, UNCHANGED <<cands, retained>>
  PROVE  ListFits'
  BY DEF ListFits

LEMMA ListCleared ==
  ASSUME cands' = <<>>, retained' = 0
  PROVE  ListFits'
  <1>1. SizeOf(cands') = 0 /\ Len(cands') = 0
    BY SizeNone
  <1>2. QED
    BY <1>1, BoundsAssumption DEF ListFits

(* Trying a candidate notes it in the candidate, whose size stays.         *)
LEMMA ListTried ==
  ASSUME BudgetInv, PreviewInv', NEW n, cands' = [cands EXCEPT ![n].emitted = version],
         retained' = retained
  PROVE  ListFits'
  <1>1. /\ cands \in Seq(OfStream) /\ cands' \in Seq(CandidateOf(stream'))
        /\ DOMAIN cands = 1 .. Len(cands) /\ Len(cands) \in Nat
    BY ListTyped DEF BudgetInv, PreviewInv, StreamInv, Learned
  <1>2. DOMAIN cands' = 1 .. Len(cands) /\ Len(cands') = Len(cands)
    BY <1>1
  <1>3. ASSUME NEW i \in 1 .. Len(cands) PROVE cands'[i].size = cands[i].size
    <2>1. CASE i = n
      <3>1. cands'[i] = [cands[i] EXCEPT !.emitted = version]
        BY <1>1, <2>1
      <3>2. cands[i] \in OfStream
        BY <1>1
      <3>3. QED
        BY <3>1, <3>2 DEF OfStream, CandidateOf
    <2>2. CASE i # n
      BY <1>1, <2>2
    <2>3. QED
      BY <2>1, <2>2
  <1>4. Sized(cands)
    BY <1>1, ListSized DEF OfStream
  <1>5. SizeOf(cands') = SizeOf(cands)
    <2> DEFINE ds == cands'
    <2>1. ds \in Seq(CandidateOf(stream')) /\ Len(ds) = Len(cands)
          /\ \A k \in 1 .. Len(ds) : ds[k].size = cands[k].size
      BY <1>1, <1>2, <1>3
    <2> HIDE DEF ds
    <2>2. SizeOf(ds) = SizeOf(cands)
      BY <1>1, <1>4, <2>1, SizeSame
    <2>3. QED
      BY <2>2 DEF ds
  <1>6. QED
    BY <1>2, <1>5 DEF BudgetInv, ListFits

LEMMA UnitLeft ==
  ASSUME UnitFits, UNCHANGED <<unit, size>>
  PROVE  UnitFits'
  BY DEF UnitFits

LEMMA UnitCleared ==
  ASSUME unit' = None, size' = 0
  PROVE  UnitFits'
  BY BoundsAssumption DEF UnitFits, None

LEMMA UnitGrows ==
  ASSUME StreamInv, UnitFits, NEW p, AddPacket(p)
  PROVE  UnitFits'
  <1>1. CASE ~dropping /\ size + 1 <= HalfBudget
    <2>1. unit' = [k \in Kinds |-> IF k \in p.nals THEN unit[k] + 1 ELSE unit[k]]
          /\ size' = size + 1
      BY <1>1 DEF AddPacket
    <2>2. size \in Nat /\ size' \in 0 .. HalfBudget
      BY <1>1, <2>1, BoundsAssumption DEF UnitFits
    <2>3. ASSUME NEW k \in Kinds PROVE unit'[k] <= size'
      <3>1. unit[k] \in Nat /\ unit[k] <= size
        BY DEF StreamInv, Collected, UnitFits
      <3>2. unit'[k] = unit[k] + 1 \/ unit'[k] = unit[k]
        BY <2>1
      <3> DEFINE x == unit[k]  y == unit'[k]
      <3>3. x \in Nat /\ size \in Nat /\ x <= size /\ (y = x + 1 \/ y = x) /\ size' = size + 1
        BY <2>1, <2>2, <3>1, <3>2
      <3> HIDE DEF x, y
      <3>4. y <= size'
        BY ONLY <3>3
      <3>5. QED
        BY <3>4 DEF y
    <2>4. QED
      BY <2>2, <2>3 DEF UnitFits
  <1>2. CASE ~(~dropping /\ size + 1 <= HalfBudget)
    BY <1>2, UnitCleared DEF AddPacket
  <1>3. QED
    BY <1>1, <1>2

LEMMA BudgetInit == Init => UnitFits /\ ListFits
  <1> SUFFICES ASSUME Init PROVE UnitFits /\ ListFits
    OBVIOUS
  <1>1. unit = None /\ size = 0 /\ cands = <<>> /\ retained = 0
    BY DEF Init
  <1>2. SizeOf(cands) = 0 /\ Len(cands) = 0
    BY <1>1, SizeNone
  <1>3. ListFits
    BY <1>1, <1>2, BoundsAssumption DEF ListFits
  <1>4. UnitFits
    BY <1>1, BoundsAssumption DEF UnitFits, None
  <1>5. QED
    BY <1>3, <1>4

LEMMA BudgetStep == BudgetInv /\ PreviewInv' /\ [Next]_vars => UnitFits' /\ ListFits'
  <1> SUFFICES ASSUME BudgetInv, PreviewInv', [Next]_vars PROVE UnitFits' /\ ListFits'
    OBVIOUS
  <1>0. UnitFits /\ ListFits /\ StreamInv
    BY DEF BudgetInv, PreviewInv
  <1>1. CASE UNCHANGED vars
    BY <1>0, <1>1, UnitLeft, ListLeft DEF vars, collecting, learned
  <1>2. ASSUME NEW s \in Streams, Switch(s) PROVE UnitFits' /\ ListFits'
    BY <1>2, UnitCleared, ListCleared DEF Switch, Clear
  <1>3. CASE Reset
    BY <1>3, UnitCleared, ListCleared DEF Reset, Clear
  <1>4. ASSUME NEW p \in config.brings, FeedStart(p) PROVE UnitFits' /\ ListFits'
    BY <1>4, UnitCleared, HarvestFits DEF FeedStart, EndUnit
  <1>5. ASSUME NEW p \in config.brings, FeedRejected(p) PROVE UnitFits' /\ ListFits'
    BY <1>0, <1>5, UnitLeft, ListLeft DEF FeedRejected, RejectUnit, collecting
  <1>6. ASSUME NEW p \in config.brings, FeedMore(p) PROVE UnitFits' /\ ListFits'
    BY <1>0, <1>6, UnitGrows, ListLeft DEF FeedMore, learned
  <1>7. CASE AddHeld
    BY <1>0, <1>7, UnitGrows, ListLeft DEF AddHeld, learned
  <1>8. CASE Analyze
    <2>1. UNCHANGED <<unit, size>>
      BY <1>8 DEF Analyze
    <2>2. CASE size # preview /\ ~dropping
      BY <1>0, <1>8, <2>1, <2>2, UnitLeft, HarvestFits DEF Analyze
    <2>3. CASE ~(size # preview /\ ~dropping)
      BY <1>0, <1>8, <2>1, <2>3, UnitLeft, ListLeft DEF Analyze, learned
    <2>4. QED
      BY <2>2, <2>3
  <1>9. CASE Finish
    <2>1. CASE packets > 0
      BY <1>9, <2>1, UnitCleared, HarvestFits DEF Finish, EndUnit
    <2>2. CASE ~(packets > 0)
      BY <1>0, <1>9, <2>2, UnitLeft, ListLeft DEF Finish, collecting, learned
    <2>3. QED
      BY <2>1, <2>2
  <1>10. CASE FinishRejected
    BY <1>0, <1>10, UnitLeft, ListLeft DEF FinishRejected, RejectUnit, collecting
  <1>11. ASSUME NEW good \in BOOLEAN, Try(good) PROVE UnitFits' /\ ListFits'
    <2>1. /\ cands' = [cands EXCEPT ![order[NextUntried]].emitted = version]
          /\ UNCHANGED <<unit, size, retained>>
      BY <1>11 DEF Try, collecting
    <2>2. QED
      BY <1>0, <2>1, UnitLeft, ListTried
  <1>12. ASSUME NEW good \in BOOLEAN, Vote(good) PROVE UnitFits' /\ ListFits'
    BY <1>0, <1>12, UnitLeft, ListLeft DEF Vote, collecting, learned
  <1>13. CASE CallbackFails
    BY <1>0, <1>13, UnitLeft, ListLeft DEF CallbackFails, collecting, learned
  <1>14. CASE EndPass
    BY <1>0, <1>14, UnitLeft, ListLeft DEF EndPass, collecting
  <1>15. CASE Sort
    BY <1>0, <1>15, UnitLeft, ListLeft DEF Sort, collecting, learned
  <1>16. QED
    BY <1>1, <1>2, <1>3, <1>4, <1>5, <1>6, <1>7, <1>8, <1>9, <1>10, <1>11, <1>12, <1>13, <1>14,
       <1>15
    DEF Next, Engine

(* "max_bytes: total retained PES/candidate budget" (recovery.h:61): what  *)
(* the engine believes it retains is what it retains, and the unit and the *)
(* candidates stay within half the budget each.                            *)
THEOREM BudgetIsRespected == Spec => []BudgetRespected
  <1>1. Init => BudgetInv
    BY StreamInit, UnitsInit, BudgetInit DEF BudgetInv, PreviewInv
  <1>2. BudgetInv /\ [Next]_vars => BudgetInv'
    BY StreamStep, UnitsStep, BudgetStep DEF BudgetInv, PreviewInv
  <1>3. BudgetInv => BudgetRespected
    BY DEF BudgetInv, UnitFits, ListFits, BudgetRespected
  <1>4. QED
    BY <1>1, <1>2, <1>3, PTL DEF Spec
-----------------------------------------------------------------------------
(***************************************************************************)
(* The order of a pass: the best first, and the oldest first among equals. *)
(***************************************************************************)
Before(i, j) ==
    \/ cands[i].score > cands[j].score
    \/ cands[i].score = cands[j].score /\ i < j

(* A list of the oldest n candidates in that order.                        *)
SortedUpTo(list, n) ==
    /\ list \in Seq(1 .. n) /\ Len(list) = n
    /\ \A i \in 1 .. n : \E k \in 1 .. n : list[k] = i
    /\ \A k, m \in 1 .. n : k < m => Before(list[k], list[m])

Scored == Len(cands) \in Nat /\ \A i \in 1 .. Len(cands) : cands[i].score \in Int

LEMMA ListScored == StreamInv => Scored /\ DOMAIN cands = 1 .. Len(cands)
  <1> SUFFICES ASSUME StreamInv PROVE Scored /\ DOMAIN cands = 1 .. Len(cands)
    OBVIOUS
  <1>1. cands \in Seq(CandidateOf(stream))
    BY DEF StreamInv, Learned
  <1>2. Len(cands) \in Nat /\ DOMAIN cands = 1 .. Len(cands)
    BY <1>1
  <1>3. ASSUME NEW i \in 1 .. Len(cands) PROVE cands[i].score \in Int
    <2>1. cands[i] \in CandidateOf(stream)
      BY <1>1
    <2>2. QED
      BY <2>1 DEF CandidateOf
  <1>4. QED
    BY <1>2, <1>3 DEF Scored

LEMMA MaxExists ==
  ASSUME NEW n \in Nat, NEW S \in SUBSET (0 .. n), S # {}
  PROVE  Max(S) \in S /\ \A y \in S : Max(S) >= y
  <1> DEFINE T == {n - x : x \in S}
  <1>1. T \in SUBSET Nat /\ T # {}
    <2>1. \A x \in S : n - x \in Nat
      OBVIOUS
    <2>2. QED
      BY <2>1
  <1>2. Min(T) \in T /\ \A y \in T : Min(T) <= y
    BY <1>1, LeastExists
  <1>3. PICK x \in S : Min(T) = n - x
    BY <1>2
  <1>4. ASSUME NEW y \in S PROVE x >= y
    <2>1. n - x <= n - y
      BY <1>2, <1>3
    <2>2. x \in Nat /\ y \in Nat
      OBVIOUS
    <2>3. QED
      BY <2>1, <2>2
  <1>5. QED
    BY <1>4 DEF Max

LEMMA Inserted ==
  ASSUME NEW T, NEW s \in Seq(T), NEW e \in T, NEW k \in 1 .. Len(s) + 1
  PROVE  /\ InsertAt(s, k, e) \in Seq(T) /\ Len(InsertAt(s, k, e)) = Len(s) + 1
         /\ \A i \in 1 .. Len(s) + 1 :
               InsertAt(s, k, e)[i] = IF i < k THEN s[i] ELSE IF i = k THEN e ELSE s[i - 1]
  <1> DEFINE n == Len(s)  a == SubSeq(s, 1, k - 1)  b == SubSeq(s, k, n)
             h == a \o <<e>>  t == InsertAt(s, k, e)
  <1>0. n \in Nat /\ k \in Nat /\ 1 <= k /\ k <= n + 1
    OBVIOUS
  <1>1. a \in Seq(T) /\ Len(a) = k - 1 /\ \A i \in 1 .. k - 1 : a[i] = s[i]
    OBVIOUS
  <1>2. b \in Seq(T) /\ Len(b) = (n + 1) - k /\ \A i \in 1 .. (n + 1) - k : b[i] = s[(k + i) - 1]
    OBVIOUS
  <1>3. t = h \o b
    BY DEF InsertAt
  <1> HIDE DEF a, b, n, t
  <1>4. h \in Seq(T) /\ Len(h) = k /\ h[k] = e /\ \A i \in 1 .. k - 1 : h[i] = a[i]
    BY <1>0, <1>1
  <1> HIDE DEF h
  <1>5. t \in Seq(T) /\ Len(t) = n + 1
    <2>1. h \o b \in Seq(T) /\ Len(h \o b) = Len(h) + Len(b)
      BY <1>2, <1>4, ConcatProperties, Zenon
    <2>2. Len(h) + Len(b) = n + 1
      BY ONLY <1>0, <1>2, <1>4
    <2>3. QED
      BY <1>3, <2>1, <2>2
  <1>6. ASSUME NEW i \in 1 .. n + 1
        PROVE  t[i] = IF i < k THEN s[i] ELSE IF i = k THEN e ELSE s[i - 1]
    <2>1. CASE i <= k
      <3>1. t[i] = h[i]
        BY <1>0, <1>2, <1>3, <1>4, <2>1
      <3>2. QED
        BY <1>0, <1>1, <1>4, <2>1, <3>1
    <2>2. CASE i > k
      <3>1. t[i] = b[i - k] /\ i - k \in 1 .. (n + 1) - k /\ (k + (i - k)) - 1 = i - 1
        BY <1>0, <1>2, <1>3, <1>4, <2>2
      <3>2. QED
        BY <1>0, <1>2, <2>2, <3>1
    <2>3. QED
      BY <1>0, <2>1, <2>2
  <1>7. QED
    BY <1>5, <1>6 DEF t, n

(* The next candidate goes behind those with a score no smaller.           *)
LEMMA PlaceIs ==
  ASSUME Scored, NEW n \in Nat, n + 1 <= Len(cands), NEW list, SortedUpTo(list, n)
  PROVE  /\ Place(list, n + 1) \in 1 .. n + 1
         /\ \A k \in 1 .. n : k < Place(list, n + 1)
                                 <=> cands[list[k]].score >= cands[n + 1].score
  <1> DEFINE c == cands[n + 1].score  w(k) == cands[list[k]].score
             S == {0} \cup {k \in DOMAIN list : w(k) >= c}
             m == Max(S)
  <1>1. /\ DOMAIN list = 1 .. n /\ c \in Int /\ \A k \in 1 .. n : w(k) \in Int
        /\ \A k, j \in 1 .. n : k < j => w(k) >= w(j)
    <2>1. DOMAIN list = 1 .. n /\ \A k \in 1 .. n : list[k] \in 1 .. n
      <3>1. list \in Seq(1 .. n) /\ Len(list) = n
        BY DEF SortedUpTo
      <3>2. QED
        BY <3>1
    <2>2. \A i \in 1 .. n + 1 : i \in 1 .. Len(cands)
      BY DEF Scored
    <2>3. c \in Int /\ \A k \in 1 .. n : w(k) \in Int
      BY <2>1, <2>2 DEF Scored
    <2>4. \A k, j \in 1 .. n : k < j => w(k) > w(j) \/ w(k) = w(j)
      BY DEF SortedUpTo, Before
    <2> HIDE DEF c, w
    <2>5. \A k, j \in 1 .. n : k < j => w(k) >= w(j)
      BY <2>3, <2>4
    <2>6. QED
      BY <2>1, <2>3, <2>5
  <1>2. S \in SUBSET (0 .. n) /\ S # {}
    BY <1>1
  <1>3. m \in S /\ \A y \in S : m >= y
    BY <1>2, MaxExists
  <1>4. Place(list, n + 1) = 1 + m
    BY DEF Place
  <1> HIDE DEF m, c, w
  <1>5. m \in 0 .. n
    BY <1>2, <1>3
  <1>6. ASSUME NEW k \in 1 .. n, k < 1 + m PROVE w(k) >= c
    <2>1. m \in 1 .. n /\ w(m) >= c
      BY <1>1, <1>3, <1>5, <1>6
    <2>2. k = m \/ w(k) >= w(m)
      BY <1>1, <1>5, <1>6, <2>1
    <2>3. QED
      BY <1>1, <2>1, <2>2
  <1>7. ASSUME NEW k \in 1 .. n, w(k) >= c PROVE k < 1 + m
    <2>1. k \in S
      BY <1>1, <1>7
    <2>2. QED
      BY <1>3, <1>5, <2>1
  <1>8. QED
    BY <1>4, <1>5, <1>6, <1>7 DEF c, w

LEMMA InsertSorts ==
  ASSUME Scored, NEW n \in Nat, n + 1 <= Len(cands), NEW list, SortedUpTo(list, n)
  PROVE  SortedUpTo(InsertAt(list, Place(list, n + 1), n + 1), n + 1)
  <1> DEFINE p == Place(list, n + 1)  new == InsertAt(list, p, n + 1)
  <1>0. Len(list) = n /\ list \in Seq(1 .. n + 1) /\ \A k \in 1 .. n : list[k] \in 1 .. n
    <2>1. list \in Seq(1 .. n) /\ Len(list) = n
      BY DEF SortedUpTo
    <2>2. \A k \in 1 .. n : list[k] \in 1 .. n
      BY <2>1
    <2>3. \A k \in 1 .. n : list[k] \in 1 .. n + 1
      BY <2>2
    <2>4. list \in Seq(1 .. n + 1)
      BY <2>1, <2>3
    <2>5. QED
      BY <2>1, <2>2, <2>4
  <1>1. /\ p \in 1 .. n + 1
        /\ \A k \in 1 .. n : k < p <=> cands[list[k]].score >= cands[n + 1].score
    BY PlaceIs
  <1> HIDE DEF p
  <1>2. /\ new \in Seq(1 .. n + 1) /\ Len(new) = n + 1
        /\ \A i \in 1 .. n + 1 : new[i] = IF i < p THEN list[i] ELSE IF i = p THEN n + 1 ELSE list[i - 1]
    <2> DEFINE T == 1 .. n + 1  e == n + 1
    <2>1. list \in Seq(T) /\ e \in T /\ p \in 1 .. Len(list) + 1
      BY <1>0, <1>1
    <2> HIDE DEF T, e
    <2>2. /\ InsertAt(list, p, e) \in Seq(T) /\ Len(InsertAt(list, p, e)) = Len(list) + 1
          /\ \A i \in 1 .. Len(list) + 1 :
                InsertAt(list, p, e)[i] = IF i < p THEN list[i] ELSE IF i = p THEN e ELSE list[i - 1]
      BY ONLY <2>1, Inserted
    <2>3. QED
      BY <1>0, <2>2 DEF T, e
  <1> HIDE DEF new
  <1>3. ASSUME NEW i \in 1 .. n + 1 PROVE \E k \in 1 .. n + 1 : new[k] = i
    <2>1. CASE i = n + 1
      <3>1. p \in 1 .. n + 1 /\ ~(p < p)
        BY <1>1
      <3>2. new[p] = n + 1
        BY <1>2, <3>1
      <3>3. QED
        BY <2>1, <3>1, <3>2
    <2>2. CASE i # n + 1
      <3>1. PICK k \in 1 .. n : list[k] = i
        BY <2>2 DEF SortedUpTo
      <3>2. CASE k < p
        <4>1. k \in 1 .. n + 1
          OBVIOUS
        <4>2. QED
          BY <1>2, <3>1, <3>2, <4>1
      <3>3. CASE ~(k < p)
        <4>1. k + 1 \in 1 .. n + 1 /\ ~(k + 1 < p) /\ k + 1 # p /\ (k + 1) - 1 = k
          BY <1>1, <3>3
        <4>2. QED
          BY <1>2, <3>1, <4>1
      <3>4. QED
        BY <3>2, <3>3
    <2>3. QED
      BY <2>1, <2>2
  <1>4. ASSUME NEW k \in 1 .. n, k < p PROVE Before(list[k], n + 1)
    <2>1. cands[list[k]].score >= cands[n + 1].score /\ list[k] \in 1 .. n /\ list[k] < n + 1
      BY <1>0, <1>1, <1>4
    <2>2. cands[list[k]].score \in Int /\ cands[n + 1].score \in Int
      BY <2>1 DEF Scored
    <2> DEFINE x == cands[list[k]].score  y == cands[n + 1].score
    <2>3. x > y \/ x = y
      <3>1. x >= y /\ x \in Int /\ y \in Int
        BY <2>1, <2>2
      <3> HIDE DEF x, y
      <3>2. QED
        BY <3>1
    <2>4. QED
      BY <2>1, <2>3 DEF Before
  <1>5. ASSUME NEW k \in 1 .. n, ~(k < p) PROVE Before(n + 1, list[k])
    <2>1. ~(cands[list[k]].score >= cands[n + 1].score) /\ list[k] \in 1 .. n
      BY <1>0, <1>1, <1>5
    <2>2. cands[list[k]].score \in Int /\ cands[n + 1].score \in Int
      BY <2>1 DEF Scored
    <2> DEFINE x == cands[list[k]].score  y == cands[n + 1].score
    <2>3. y > x
      <3>1. ~(x >= y) /\ x \in Int /\ y \in Int
        BY <2>1, <2>2
      <3> HIDE DEF x, y
      <3>2. QED
        BY <3>1
    <2>4. QED
      BY <2>3 DEF Before
  <1>6. ASSUME NEW k \in 1 .. n + 1, NEW m \in 1 .. n + 1, k < m
        PROVE  Before(new[k], new[m])
    <2>0. \A i, j \in 1 .. n : i < j => Before(list[i], list[j])
      BY DEF SortedUpTo
    <2>1. CASE m < p
      <3>1. k \in 1 .. n /\ m \in 1 .. n /\ new[k] = list[k] /\ new[m] = list[m]
        BY <1>1, <1>2, <1>6, <2>1
      <3>2. QED
        BY <1>6, <2>0, <3>1
    <2>2. CASE m = p
      <3>1. k \in 1 .. n /\ k < p /\ new[k] = list[k] /\ new[m] = n + 1
        BY <1>1, <1>2, <1>6, <2>2
      <3>2. QED
        BY <1>4, <3>1
    <2>3. CASE m > p
      <3>1. m - 1 \in 1 .. n /\ ~(m - 1 < p) /\ new[m] = list[m - 1]
        <4>1. m - 1 \in 1 .. n /\ ~(m - 1 < p) /\ ~(m < p) /\ m # p
          BY <1>1, <2>3
        <4>2. QED
          BY <1>2, <4>1
      <3>2. CASE k < p
        <4>1. k \in 1 .. n /\ k < m - 1
          BY <1>1, <2>3, <3>2
        <4>2. new[k] = list[k]
          BY <1>2, <3>2
        <4>3. QED
          BY <2>0, <3>1, <4>1, <4>2
      <3>3. CASE k = p
        <4>1. new[k] = n + 1
          BY <1>2, <3>3
        <4>2. QED
          BY <1>5, <3>1, <4>1
      <3>4. CASE k > p
        <4>1. k - 1 \in 1 .. n /\ k - 1 < m - 1 /\ ~(k < p) /\ k # p
          BY <1>1, <1>6, <3>4
        <4>2. new[k] = list[k - 1]
          BY <1>2, <4>1
        <4>3. QED
          BY <2>0, <3>1, <4>1, <4>2
      <3>5. QED
        BY <1>1, <3>2, <3>3, <3>4
    <2>4. QED
      BY <1>1, <2>1, <2>2, <2>3
  <1>7. QED
    BY <1>2, <1>3, <1>6 DEF SortedUpTo, new, p

(* The function by which the list is sorted, on the oldest n candidates.   *)
Steps(list, n) ==
    list = [m \in 0 .. n |-> IF m = 0 THEN <<>>
                             ELSE InsertAt(list[m - 1], Place(list[m - 1], m), m)]

LEMMA StepsExist == \A n \in Nat : \E list : Steps(list, n)
  <1> DEFINE N == {n \in Nat : \E list : Steps(list, n)}
             Then(m, old) == IF m = 0 THEN <<>> ELSE InsertAt(old, Place(old, m), m)
  <1>1. 0 \in N
    <2> DEFINE list == [m \in 0 .. 0 |-> <<>>]
    <2>1. \A m \in 0 .. 0 : m = 0
      OBVIOUS
    <2>2. Steps(list, 0)
      BY <2>1 DEF Steps
    <2>3. QED
      BY <2>2
  <1>2. ASSUME NEW n \in Nat, n \in N PROVE n + 1 \in N
    <2>1. PICK list : Steps(list, n)
      BY <1>2
    <2> DEFINE new == [m \in 0 .. n + 1 |-> Then(m, list[m - 1])]
    <2>2. list = [m \in 0 .. n |-> Then(m, list[m - 1])]
      BY <2>1 DEF Steps
    <2> HIDE DEF Then
    <2>3. \A m \in 0 .. n : m \in 0 .. n + 1
      OBVIOUS
    <2>4. \A m \in 0 .. n : new[m] = list[m]
      BY <2>2, <2>3
    <2>5. \A m \in 0 .. n + 1 : m # 0 => m - 1 \in 0 .. n
      OBVIOUS
    <2>6. \A m \in 0 .. n + 1 : Then(m, list[m - 1]) = Then(m, new[m - 1])
      BY <2>4, <2>5 DEF Then
    <2>7. new = [m \in 0 .. n + 1 |-> Then(m, new[m - 1])]
      BY <2>6
    <2> HIDE DEF new
    <2>8. Steps(new, n + 1)
      BY <2>7, Zenon DEF Steps, Then
    <2>9. QED
      BY <2>8
  <1>3. Nat \subseteq N
    BY <1>1, <1>2, NatSetInduction
  <1>4. QED
    BY <1>3

LEMMA SortUnfolds ==
  ASSUME Len(cands) \in Nat
  PROVE  \E list : Steps(list, Len(cands)) /\ Sorted = list[Len(cands)]
  <1> DEFINE list == CHOOSE l : Steps(l, Len(cands))
  <1>1. \E l : Steps(l, Len(cands))
    BY StepsExist
  <1>2. Steps(list, Len(cands))
    BY <1>1
  <1>3. Sorted = list[Len(cands)]
    BY DEF Sorted, Steps
  <1>4. QED
    BY <1>2, <1>3

(* The insertion sort at the head of analyze sorts.                        *)
LEMMA SortSorts ==
  ASSUME StreamInv
  PROVE  SortedUpTo(Sorted, Len(cands))
  <1> DEFINE L == Len(cands)
  <1>0. Scored /\ L \in Nat
    BY ListScored DEF Scored
  <1>1. PICK list : Steps(list, L) /\ Sorted = list[L]
    BY <1>0, SortUnfolds
  <1> DEFINE N == {n \in Nat : n <= L => SortedUpTo(list[n], n)}
  <1>2. 0 \in N
    <2>1. list[0] = <<>>
      BY <1>0, <1>1 DEF Steps
    <2>2. SortedUpTo(<<>>, 0)
      BY DEF SortedUpTo
    <2>3. QED
      BY <2>1, <2>2
  <1>3. ASSUME NEW n \in Nat, n \in N PROVE n + 1 \in N
    <2> SUFFICES ASSUME n + 1 <= L PROVE SortedUpTo(list[n + 1], n + 1)
      OBVIOUS
    <2>1. SortedUpTo(list[n], n)
      BY <1>0, <1>3
    <2>2. list[n + 1] = InsertAt(list[n], Place(list[n], n + 1), n + 1)
      <3>1. n + 1 \in 0 .. L /\ n + 1 # 0 /\ (n + 1) - 1 = n
        BY <1>0
      <3>2. QED
        BY <1>1, <3>1 DEF Steps
    <2>3. QED
      BY <1>0, <2>1, <2>2, InsertSorts
  <1>4. Nat \subseteq N
    BY <1>2, <1>3, NatSetInduction
  <1>5. QED
    BY <1>0, <1>1, <1>4

(* While a pass walks along its order, the order is that of the scores.    *)
OrderInv ==
    /\ order = <<>> \/ SortedUpTo(order, Len(cands))
    /\ passes = 0 => order = <<>>
    /\ voted \in Nat

LEMMA OrderInit == Init => OrderInv
  BY DEF Init, OrderInv

LEMMA OrderEmpty ==
  ASSUME order' = <<>>, voted' \in Nat
  PROVE  OrderInv'
  BY DEF OrderInv

LEMMA OrderLeft ==
  ASSUME OrderInv, UNCHANGED <<cands, order, passes>>, voted' \in Nat
  PROVE  OrderInv'
  BY DEF OrderInv, SortedUpTo, Before

LEMMA OrderIsList ==
  ASSUME StreamInv, OrderInv
  PROVE  /\ Len(order) \in Nat /\ DOMAIN order = 1 .. Len(order)
         /\ \A k \in 1 .. Len(order) : order[k] \in DOMAIN cands
  <1>1. CASE order = <<>>
    BY <1>1
  <1>2. CASE SortedUpTo(order, Len(cands))
    <2>1. order \in Seq(1 .. Len(cands)) /\ DOMAIN cands = 1 .. Len(cands)
      BY <1>2, ListScored DEF SortedUpTo
    <2>2. QED
      BY <2>1
  <1>3. QED
    BY <1>1, <1>2 DEF OrderInv

(* The walk comes to the first candidate in the order that is untried, if  *)
(* there is one.                                                           *)
LEMMA WalkFinds ==
  ASSUME StreamInv, OrderInv, NextUntried # 0 \/ \E k \in 1 .. Len(order) : Untried(order[k])
  PROVE  /\ NextUntried \in 1 .. Len(order) /\ NextUntried # 0
         /\ order[NextUntried] \in DOMAIN cands /\ Untried(order[NextUntried])
         /\ \A k \in 1 .. Len(order) : Untried(order[k]) => NextUntried <= k
  <1> DEFINE I == {k \in 1 .. Len(order) : Untried(order[k])}
  <1>1. NextUntried = IF I # {} THEN Min(I) ELSE 0
    BY DEF NextUntried, SelectInSeq
  <1>2. I # {}
    BY <1>1
  <1>3. I \in SUBSET Nat
    BY OrderIsList
  <1>4. Min(I) \in I /\ \A k \in I : Min(I) <= k
    BY <1>2, <1>3, LeastExists
  <1>5. NextUntried = Min(I)
    BY <1>1, <1>2
  <1> HIDE DEF I
  <1>6. NextUntried \in I /\ \A k \in I : NextUntried <= k
    BY <1>4, <1>5
  <1>7. NextUntried \in 1 .. Len(order) /\ Untried(order[NextUntried])
    BY <1>6 DEF I
  <1>8. QED
    BY <1>6, <1>7, OrderIsList DEF I

(* No untried candidate comes before the one that the walk comes to.       *)
LEMMA NextIsBest ==
  ASSUME StreamInv, OrderInv, InOrder, NEW j \in DOMAIN cands, Untried(j)
  PROVE  order[NextUntried] = j \/ Before(order[NextUntried], j)
  <1>1. DOMAIN cands = 1 .. Len(cands) /\ Len(cands) \in Nat
    BY ListScored DEF Scored
  <1>2. SortedUpTo(order, Len(cands)) /\ Len(order) = Len(cands)
    <2>1. order # <<>>
      BY <1>1 DEF InOrder
    <2>2. QED
      BY <2>1 DEF OrderInv, InOrder
  <1>3. PICK k \in 1 .. Len(order) : order[k] = j
    BY <1>1, <1>2 DEF SortedUpTo
  <1>4. NextUntried \in 1 .. Len(order) /\ NextUntried <= k
    BY <1>3, WalkFinds
  <1>5. CASE NextUntried = k
    BY <1>3, <1>5
  <1>6. CASE NextUntried # k
    <2>1. NextUntried < k
      BY <1>1, <1>2, <1>4, <1>6
    <2>2. QED
      BY <1>2, <1>3, <1>4, <2>1 DEF SortedUpTo
  <1>7. QED
    BY <1>5, <1>6

LEMMA OrderStep == StreamInv /\ OrderInv /\ [Next]_vars => OrderInv'
  <1> SUFFICES ASSUME StreamInv, OrderInv, [Next]_vars PROVE OrderInv'
    OBVIOUS
  <1>0. voted \in Nat /\ (passes = 0 => order = <<>>)
    BY DEF OrderInv
  <1>1. CASE UNCHANGED vars
    BY <1>0, <1>1, OrderLeft DEF vars, learned, calling
  <1>2. ASSUME NEW s \in Streams, Switch(s) PROVE OrderInv'
    BY <1>0, <1>2, OrderEmpty DEF Switch, Called, Returned, calling
  <1>3. CASE Reset
    BY <1>0, <1>3, OrderEmpty DEF Reset, Returned, calling
  <1>4. ASSUME NEW p \in config.brings, FeedStart(p) PROVE OrderInv'
    BY <1>0, <1>4, OrderEmpty DEF FeedStart, Feed, Called, Returned
  <1>5. ASSUME NEW p \in config.brings, FeedRejected(p) PROVE OrderInv'
    BY <1>0, <1>5, OrderEmpty DEF FeedRejected, RejectUnit, Feed, Called, Returned, calling
  <1>6. ASSUME NEW p \in config.brings, FeedMore(p) PROVE OrderInv'
    BY <1>0, <1>6, OrderEmpty DEF FeedMore, Feed, Called, Returned, calling
  <1>7. CASE AddHeld
    BY <1>0, <1>7, OrderEmpty DEF AddHeld
  <1>8. CASE Analyze
    BY <1>0, <1>8, OrderEmpty DEF Analyze, Called, Returned
  <1>9. CASE Finish
    BY <1>0, <1>9, OrderEmpty DEF Finish, Called, Returned
  <1>10. CASE FinishRejected
    BY <1>0, <1>10, OrderEmpty DEF FinishRejected, RejectUnit, Called, Returned, calling
  <1>11. ASSUME NEW good \in BOOLEAN, Try(good) PROVE OrderInv'
    <2> DEFINE n == order[NextUntried]
    <2>1. /\ cands' = [cands EXCEPT ![n].emitted = version]
          /\ UNCHANGED <<order, passes, voted>>
      BY <1>11 DEF Try
    <2> HIDE DEF n
    <2>2. cands \in Seq(CandidateOf(stream))
      BY DEF StreamInv, Learned
    <2>3. Len(cands') = Len(cands)
      BY <2>1, <2>2
    <2>4. ASSUME NEW i \in 1 .. Len(cands) PROVE cands'[i].score = cands[i].score
      <3>1. cands[i] \in CandidateOf(stream)
        BY <2>2
      <3>2. cands'[i] = IF i = n THEN [cands[i] EXCEPT !.emitted = version] ELSE cands[i]
        BY <2>1, <2>2
      <3>3. QED
        BY <3>1, <3>2 DEF CandidateOf
    <2>5. CASE order = <<>>
      BY <1>0, <2>1, <2>5, OrderEmpty
    <2>6. CASE SortedUpTo(order, Len(cands))
      <3>1. order \in Seq(1 .. Len(cands)) /\ Len(order) = Len(cands)
        BY <2>6 DEF SortedUpTo
      <3>2. \A k \in 1 .. Len(cands) : order[k] \in 1 .. Len(cands)
        BY <3>1
      <3>3. ASSUME NEW k \in 1 .. Len(cands), NEW m \in 1 .. Len(cands), k < m
            PROVE  Before(order[k], order[m])'
        <4>1. Before(order[k], order[m])
          BY <2>6, <3>3 DEF SortedUpTo
        <4>2. cands'[order[k]].score = cands[order[k]].score
              /\ cands'[order[m]].score = cands[order[m]].score
          BY <2>4, <3>2
        <4>3. QED
          BY <2>1, <4>1, <4>2 DEF Before
      <3>4. SortedUpTo(order, Len(cands))'
        BY <2>1, <2>3, <2>6, <3>3 DEF SortedUpTo
      <3>5. QED
        BY <1>0, <2>1, <3>4 DEF OrderInv
    <2>7. QED
      BY <2>5, <2>6 DEF OrderInv
  <1>12. ASSUME NEW good \in BOOLEAN, Vote(good) PROVE OrderInv'
    <2>1. UNCHANGED <<cands, order, passes>> /\ voted' = Min(Votes) /\ Votes # {}
      BY <1>12 DEF Vote, Voting, learned
    <2>2. Votes \in SUBSET Nat
      BY OrderIsList DEF Votes
    <2>3. voted' \in Nat
      BY <2>1, <2>2, LeastExists
    <2>4. QED
      BY <2>1, <2>3, OrderLeft
  <1>13. CASE CallbackFails
    BY <1>13, OrderEmpty DEF CallbackFails
  <1>14. CASE EndPass
    BY <1>14, OrderEmpty DEF EndPass
  <1>15. CASE Sort
    <2>1. order' = Sorted /\ UNCHANGED <<cands, passes, voted>> /\ passes > 0
      BY <1>15 DEF Sort, InPass, learned
    <2>2. passes' # 0
      BY <2>1
    <2>3. SortedUpTo(order, Len(cands))'
      BY <2>1, SortSorts DEF SortedUpTo, Before
    <2>4. QED
      BY <1>0, <2>1, <2>2, <2>3 DEF OrderInv
  <1>16. QED
    BY <1>1, <1>2, <1>3, <1>4, <1>5, <1>6, <1>7, <1>8, <1>9, <1>10, <1>11, <1>12, <1>13, <1>14,
       <1>15
    DEF Next, Engine

(* Only trying a candidate raises the count of candidates tried.           *)
OnlyTryRaises ==
    tried' \in Nat /\ (tried' > tried => \E good \in BOOLEAN : Try(good))

LEMMA TriedStep ==
  ASSUME tried \in Nat, [Next]_vars
  PROVE  OnlyTryRaises
  <1>a. ASSUME tried' = tried PROVE OnlyTryRaises
    BY <1>a DEF OnlyTryRaises
  <1>b. ASSUME tried' = 0 PROVE OnlyTryRaises
    BY <1>b DEF OnlyTryRaises
  <1>1. CASE UNCHANGED vars
    BY <1>1, <1>a DEF vars, calling
  <1>2. ASSUME NEW s \in Streams, Switch(s) PROVE OnlyTryRaises
    BY <1>2, <1>a DEF Switch, calling
  <1>3. CASE Reset
    BY <1>3, <1>a DEF Reset, calling
  <1>4. ASSUME NEW p \in config.brings, FeedStart(p) PROVE OnlyTryRaises
    BY <1>4, <1>a DEF FeedStart
  <1>5. ASSUME NEW p \in config.brings, FeedRejected(p) PROVE OnlyTryRaises
    BY <1>5, <1>a DEF FeedRejected, RejectUnit, calling
  <1>6. ASSUME NEW p \in config.brings, FeedMore(p) PROVE OnlyTryRaises
    BY <1>6, <1>a DEF FeedMore, calling
  <1>7. CASE AddHeld
    BY <1>7, <1>a DEF AddHeld
  <1>8. CASE Analyze
    BY <1>8, <1>a DEF Analyze
  <1>9. CASE Finish
    BY <1>9, <1>a DEF Finish
  <1>10. CASE FinishRejected
    BY <1>10, <1>a DEF FinishRejected, RejectUnit, calling
  <1>11. ASSUME NEW good \in BOOLEAN, Try(good) PROVE OnlyTryRaises
    BY <1>11 DEF Try, OnlyTryRaises
  <1>12. ASSUME NEW good \in BOOLEAN, Vote(good) PROVE OnlyTryRaises
    BY <1>12, <1>a DEF Vote
  <1>13. CASE CallbackFails
    BY <1>13, <1>b DEF CallbackFails
  <1>14. CASE EndPass
    BY <1>14, <1>b DEF EndPass
  <1>15. CASE Sort
    BY <1>15, <1>a DEF Sort
  <1>16. QED
    BY <1>1, <1>2, <1>3, <1>4, <1>5, <1>6, <1>7, <1>8, <1>9, <1>10, <1>11, <1>12, <1>13, <1>14,
       <1>15
    DEF Next, Engine

(* A pass spends its allowance on the best, and the oldest among equals:   *)
(* it tries no candidate while a better one, or an older one as good, has  *)
(* not been tried with the present parameter sets (recovery.c:148-165).    *)
THEOREM PassesTryBestFirst == Spec => BestFirst
  <1> DEFINE Inv == StreamInv /\ OrderInv /\ tried \in Nat
             Chosen == tried' > tried =>
                \A i, j \in DOMAIN cands :
                   cands[i].emitted # cands'[i].emitted /\ Untried(j)
                       => \/ cands[j].score < cands[i].score
                          \/ cands[j].score = cands[i].score /\ i <= j
  <1>1. Init => Inv
    BY StreamInit, OrderInit DEF Init
  <1>2. Inv /\ [Next]_vars => Inv'
    BY StreamStep, OrderStep, TriedStep DEF OnlyTryRaises
  <1>3. Inv /\ [Next]_vars => [Chosen]_vars
    <2> SUFFICES ASSUME Inv, [Next]_vars, tried' > tried,
                        NEW i \in DOMAIN cands, NEW j \in DOMAIN cands,
                        cands[i].emitted # cands'[i].emitted, Untried(j)
                 PROVE  \/ cands[j].score < cands[i].score
                        \/ cands[j].score = cands[i].score /\ i <= j
      OBVIOUS
    <2>1. PICK good \in BOOLEAN : Try(good)
      BY TriedStep DEF OnlyTryRaises
    <2>2. i = order[NextUntried] /\ InOrder
      <3>1. cands' = [cands EXCEPT ![order[NextUntried]].emitted = version] /\ InOrder
        BY <2>1 DEF Try
      <3>2. i # order[NextUntried] => cands'[i] = cands[i]
        BY <3>1
      <3>3. QED
        BY <3>1, <3>2
    <2>3. i = j \/ Before(i, j)
      BY <2>2, NextIsBest
    <2>4. cands[i].score \in Int /\ cands[j].score \in Int /\ i \in Nat /\ j \in Nat
      BY ListScored DEF Scored
    <2> DEFINE x == cands[i].score  y == cands[j].score
    <2>5. x \in Int /\ y \in Int /\ ((x = y /\ i = j) \/ x > y \/ (x = y /\ i < j))
      BY <2>3, <2>4 DEF Before
    <2> HIDE DEF x, y
    <2>6. y < x \/ (y = x /\ i <= j)
      BY ONLY <2>4, <2>5
    <2>7. QED
      BY <2>6 DEF x, y
  <1>4. QED
    BY <1>1, <1>2, <1>3, PTL DEF Spec, BestFirst
-----------------------------------------------------------------------------
(* What a step leaves to do is less than what there was: a pass, the       *)
(* packet that waits, the order to be found, a candidate not yet tried     *)
(* with the present parameter sets, or a vote still to be held.            *)
Due == {i \in DOMAIN cands : Untried(i)}

Less ==
    \/ passes' < passes
    \/ passes' = passes /\ held # NoPacket /\ held' = NoPacket
    \/ /\ passes' = passes /\ held' = held
       /\ \/ ~InOrder /\ InOrder'
          \/ /\ InOrder /\ InOrder'
             /\ \/ Due' \subseteq Due /\ Due' # Due
                \/ Due' = Due /\ Votes' \subseteq Votes /\ Votes' # Votes

(* A pass tries each candidate at most once.                               *)
LEMMA TryGetsOn ==
  ASSUME StreamInv, OrderInv, NEW good \in BOOLEAN, Try(good)
  PROVE  Less
  <1> DEFINE i == order[NextUntried]
  <1>1. /\ cands' = [cands EXCEPT ![i].emitted = version]
        /\ UNCHANGED <<version, passes, held, order>> /\ InOrder
    BY DEF Try
  <1>2. i \in DOMAIN cands /\ Untried(i)
    <2>1. NextUntried # 0
      BY DEF Try, Ranked
    <2>2. QED
      BY <2>1, WalkFinds
  <1> HIDE DEF i
  <1>3. cands \in Seq(CandidateOf(stream))
    BY DEF StreamInv, Learned
  <1>4. DOMAIN cands' = DOMAIN cands /\ Len(cands') = Len(cands)
    BY <1>1, <1>3
  <1>5. cands'[i].emitted = version
    <2>1. cands[i] \in CandidateOf(stream)
      BY <1>2, <1>3
    <2>2. cands'[i] = [cands[i] EXCEPT !.emitted = version]
      BY <1>1, <1>2
    <2>3. QED
      BY <2>1, <2>2 DEF CandidateOf
  <1>6. \A j \in DOMAIN cands : j # i => cands'[j] = cands[j]
    BY <1>1
  <1>7. i \in Due /\ i \notin Due' /\ Due' \subseteq Due
    BY <1>1, <1>2, <1>4, <1>5, <1>6 DEF Due, Untried
  <1>8. InOrder'
    BY <1>1, <1>4 DEF InOrder
  <1>9. QED
    BY <1>1, <1>7, <1>8 DEF Less

(* A pass holds one vote for a size.                                       *)
LEMMA VoteGetsOn ==
  ASSUME StreamInv, OrderInv, NEW good \in BOOLEAN, Vote(good)
  PROVE  Less
  <1>1. /\ voted' = Min(Votes) /\ Votes # {} /\ InOrder
        /\ UNCHANGED <<cands, version, passes, held, order>>
    BY DEF Vote, Voting, Ranked, learned
  <1>2. Votes \in SUBSET Nat /\ DOMAIN order \subseteq Nat /\ voted \in Nat
    BY OrderIsList DEF Votes, OrderInv
  <1>3. Min(Votes) \in Votes
    BY <1>1, <1>2, LeastExists
  <1>4. voted' \in Votes /\ voted' \in Nat /\ voted' > voted
    BY <1>1, <1>2, <1>3 DEF Votes
  <1>5. Due' = Due /\ InOrder'
    BY <1>1 DEF Due, Untried, InOrder
  <1>6. Votes' = {k \in DOMAIN order : k > voted' /\ Leads(k)}
    BY <1>1 DEF Votes, Leads
  <1>7. \A k \in DOMAIN order : k > voted' => k > voted /\ k # voted'
    BY <1>2, <1>4
  <1>8. Votes' \subseteq Votes /\ voted' \notin Votes'
    BY <1>6, <1>7 DEF Votes
  <1>9. QED
    BY <1>1, <1>4, <1>5, <1>8 DEF Less

LEMMA EngineGetsOn ==
  ASSUME StreamInv, OrderInv, passes \in Nat, Engine
  PROVE  Less
  <1>1. ASSUME NEW good \in BOOLEAN, Try(good) \/ Vote(good) PROVE Less
    BY <1>1, TryGetsOn, VoteGetsOn
  <1>2. CASE CallbackFails
    BY <1>2 DEF CallbackFails, InPass, Less
  <1>3. CASE EndPass
    BY <1>3 DEF EndPass, Less
  <1>4. CASE AddHeld
    BY <1>4 DEF AddHeld, Less
  <1>5. CASE Sort
    <2>1. ~InOrder /\ order' = Sorted /\ UNCHANGED <<cands, passes, held>>
      BY <1>5 DEF Sort, learned
    <2>2. Len(Sorted) = Len(cands)
      BY SortSorts DEF SortedUpTo
    <2>3. InOrder'
      BY <2>1, <2>2 DEF InOrder
    <2>4. QED
      BY <2>1, <2>3 DEF Less
  <1>6. QED
    BY <1>1, <1>2, <1>3, <1>4, <1>5 DEF Engine

(* Nobody else moves while a call is under way.                            *)
LEMMA PassesStep ==
  ASSUME passes \in Nat, [Next]_vars
  PROVE  passes' \in Nat /\ (Returned \/ Engine \/ UNCHANGED vars)
  <1>1. CASE UNCHANGED vars
    BY <1>1 DEF vars, calling
  <1>2. ASSUME NEW s \in Streams, Switch(s) PROVE passes' = passes /\ Returned
    BY <1>2 DEF Switch, Called, calling
  <1>3. CASE Reset
    BY <1>3 DEF Reset, calling
  <1>4. ASSUME NEW p \in config.brings, FeedStart(p) PROVE passes' \in Nat /\ Returned
    BY <1>4 DEF FeedStart, Feed, Called
  <1>5. ASSUME NEW p \in config.brings, FeedRejected(p) PROVE passes' = passes /\ Returned
    BY <1>5 DEF FeedRejected, Feed, Called, RejectUnit, calling
  <1>6. ASSUME NEW p \in config.brings, FeedMore(p) PROVE passes' = passes /\ Returned
    BY <1>6 DEF FeedMore, Feed, Called, calling
  <1>7. CASE Analyze
    BY <1>7 DEF Analyze, Called
  <1>8. CASE Finish
    BY <1>8 DEF Finish, Called
  <1>9. CASE FinishRejected
    BY <1>9 DEF FinishRejected, Called, RejectUnit, calling
  <1>10. CASE Engine
    BY <1>10 DEF Engine, Sort, Try, Vote, CallbackFails, EndPass, AddHeld
  <1>11. QED
    BY <1>1, <1>2, <1>3, <1>4, <1>5, <1>6, <1>7, <1>8, <1>9, <1>10 DEF Next

(* Each step of a call leaves less to do, in a well-founded order: what    *)
(* CallsReturn needs beside the fairness of the engine, for every number   *)
(* of candidates, allowance, score and vote (recovery.c:141-209).          *)
THEOREM CallsLeaveLessToDo == Spec => [][~Returned => Less]_vars
  <1> DEFINE Inv == StreamInv /\ OrderInv /\ passes \in Nat
  <1>1. Init => Inv
    BY StreamInit, OrderInit DEF Init
  <1>2. Inv /\ [Next]_vars => Inv'
    BY StreamStep, OrderStep, PassesStep
  <1>3. Inv /\ [Next]_vars => [~Returned => Less]_vars
    BY PassesStep, EngineGetsOn
  <1>4. QED
    BY <1>1, <1>2, <1>3, PTL DEF Spec
=============================================================================
