--------------------------- MODULE TsRepair_proofs ---------------------------
(***************************************************************************)
(* What the repair pipeline guarantees for every multiplex, configuration, *)
(* counter modulus and number of packets.                                  *)
(***************************************************************************)
EXTENDS TsRepair, TLAPS

(* Which writes can be pending, and how many tables have gone out by then. *)
StageOK ==
    /\ pc = "pat" => wrote = 0 /\ psi.pat # NoPacket
    /\ pc = "pmt" => wrote \in 0 .. 1 /\ psi.pmt # NoPacket
    /\ pc = "sdt" => wrote \in 0 .. 2 /\ psi.sdt # NoPacket
    /\ pc \in {"idle", "emit"} => wrote = 0

LEMMA NullPacketType == NullPacket \in Packet /\ NullPacket.valid /\ ~NullPacket.tei
  <1>1. 0 \in Cc
    BY CcModAssumption DEF Cc
  <1>2. NullPid \in Pids
    BY PidsAssumption
  <1>3. NoSection \in Section
    BY <1>2 DEF NoSection, Section
  <1>4. QED
    BY <1>1, <1>2, <1>3 DEF NullPacket, Packet

LEMMA PsiInitType == PsiInit \in PsiContext
  BY PidsAssumption DEF PsiInit, PsiContext

(* Observing a packet yields a context whose caches hold what they held or *)
(* the packet observed.                                                    *)
LEMMA ObserveType ==
  ASSUME NEW s \in PsiContext, NEW p \in Packet
  PROVE  /\ PsiObserve(s, p) \in PsiContext
         /\ PsiObserve(s, p).pat \in {s.pat, p}
         /\ PsiObserve(s, p).pmt \in {s.pmt, p}
         /\ PsiObserve(s, p).sdt \in {s.sdt, p}
  <1>0. p.section \in Section
    BY DEF Packet
  <1>1. /\ ParsePat(s, p) \in PsiContext
        /\ ParsePat(s, p).pat \in {s.pat, p}
        /\ ParsePat(s, p).pmt = s.pmt
        /\ ParsePat(s, p).sdt = s.sdt
    BY <1>0 DEF ParsePat, PsiContext, Section
  <1>2. /\ ParsePmt(s, p) \in PsiContext
        /\ ParsePmt(s, p).pmt \in {s.pmt, p}
        /\ ParsePmt(s, p).pat = s.pat
        /\ ParsePmt(s, p).sdt = s.sdt
    BY <1>0 DEF ParsePmt, PsiContext, Section
  <1>3. /\ ParseSdt(s, p) \in PsiContext
        /\ ParseSdt(s, p).sdt \in {s.sdt, p}
        /\ ParseSdt(s, p).pat = s.pat
        /\ ParseSdt(s, p).pmt = s.pmt
    BY <1>0 DEF ParseSdt, PsiContext, Section
  <1>4. HasValidSection(s, p) => p.section.table \in {"pat", "pmt", "sdt"}
    BY <1>0 DEF HasValidSection, TableOf, Section
  <1>5. PsiObserve(s, p) \in {s, ParsePat(s, p), ParsePmt(s, p), ParseSdt(s, p)}
    BY <1>4 DEF PsiObserve
  <1>6. QED
    BY <1>1, <1>2, <1>3, <1>5

LEMMA ReplacementCached ==
  ASSUME NEW s \in PsiContext, NEW pid
  PROVE  /\ Replacement(s, pid) \in Packet \cup {NoPacket}
         /\ Replacement(s, pid) \in {s.pat, s.pmt, s.sdt, NoPacket}
  BY DEF Replacement, PsiContext

LEMMA ReceivedType ==
  ASSUME NEW raw \in Inputs
  PROVE  raw \in Packet
  BY InputsAssumption

(* A repaired packet is the received one, a null packet, or a cached one   *)
(* up to its counter; the received one only if no flagged packet has to be *)
(* kept out.                                                               *)
LEMMA RepairedFrom ==
  ASSUME TypeOK, NEW raw \in Inputs, ~Unrepairable(raw)
  PROVE  LET p == Repaired(raw) IN
         /\ p \in Packet
         /\ \E q \in {raw, NullPacket, psi.pat, psi.pmt, psi.sdt} :
               /\ q # NoPacket
               /\ q = raw => ~(Nulling /\ raw.tei) \/ q \in {psi.pat, psi.pmt, psi.sdt}
               /\ p = [q EXCEPT !.cc = p.cc]
  <1>1. raw \in Packet /\ raw # NoPacket
    BY ReceivedType, NoPacketAssumption
  <1>2. psi \in PsiContext
    BY DEF TypeOK
  <1>3. NullPacket # NoPacket
    BY NullPacketType, NoPacketAssumption
  <1> DEFINE t == ReplaceTei(raw)
             p == Repaired(raw)
  <1>4. /\ t \in Packet
        /\ t \in {raw, psi.pat, psi.pmt, psi.sdt}
        /\ t = raw => ~(Nulling /\ raw.tei) \/ t \in {psi.pat, psi.pmt, psi.sdt}
    BY <1>1, <1>2, ReplacementCached DEF ReplaceTei, Unrepairable, Nulling
  <1>5. t # NoPacket /\ t.cc \in Cc
    BY <1>4, NoPacketAssumption DEF Packet
  <1>6. CASE p = t
    <2>1. t = [t EXCEPT !.cc = t.cc]
      BY <1>4 DEF Packet
    <2>2. QED
      BY <1>4, <1>5, <1>6, <2>1
  <1>7. CASE p = NullPacket
    <2>1. NullPacket = [NullPacket EXCEPT !.cc = NullPacket.cc]
      BY DEF NullPacket
    <2>2. raw = NullPacket => ~raw.tei
      BY NullPacketType
    <2>3. QED
      BY <1>3, <1>7, <2>1, <2>2, NullPacketType
  <1>8. CASE /\ Replacement(psi, t.pid) # NoPacket
             /\ p = [Replacement(psi, t.pid) EXCEPT !.cc = t.cc]
    <2> DEFINE r == Replacement(psi, t.pid)
    <2>1. r \in Packet /\ r \in {psi.pat, psi.pmt, psi.sdt}
      BY <1>2, <1>8, ReplacementCached
    <2>2. p \in Packet /\ p.cc = t.cc
      BY <1>5, <1>8, <2>1 DEF Packet
    <2>3. QED
      BY <1>8, <2>1, <2>2
  <1>9. p = t \/ p = NullPacket \/ (/\ Replacement(psi, t.pid) # NoPacket
                                    /\ p = [Replacement(psi, t.pid) EXCEPT !.cc = t.cc])
    BY DEF Repaired, ReplaceBadPsi
  <1>10. QED
    BY <1>6, <1>7, <1>8, <1>9

(* The counters a packet is stamped with are counters.                     *)
LEMMA StampType ==
  ASSUME TypeOK, NEW s \in PsiContext, NEW p \in Packet
  PROVE  /\ PsiCc(p) \in Cc /\ VideoCc(p) \in Cc /\ StampedCc(s, p) \in Cc
         /\ [p EXCEPT !.cc = StampedCc(s, p)] \in Packet
         /\ NextPsiCc(p) \in Cc /\ NextVideoCc(p) \in Cc
  <1>1. p.pid \in Pids /\ p.cc \in Cc /\ 0 \in Cc
    BY CcModAssumption DEF Packet, Cc
  <1>2. PsiCc(p) \in Cc /\ VideoCc(p) \in Cc /\ StampedCc(s, p) \in Cc
    BY <1>1 DEF TypeOK, PsiCc, VideoCc, StampedCc
  <1>3. [p EXCEPT !.cc = StampedCc(s, p)] \in Packet
    BY <1>2 DEF Packet
  <1>4. \A c \in Cc : Plus1(c) \in Cc
    BY CcModAssumption DEF Cc, Plus1
  <1>5. QED
    BY <1>2, <1>3, <1>4 DEF NextPsiCc, NextVideoCc

LEMMA FilterType ==
  ASSUME NEW s, NEW p \in Packet
  PROVE  Filter(s, p) \in {p, NullPacket} /\ Filter(s, p) \in Packet
  BY NullPacketType DEF Filter
-----------------------------------------------------------------------------
(* The pipeline always has one of its five writes pending or none, and     *)
(* every slot an injection visits is filled.                               *)
LEMMA TypeInit == Init => TypeOK /\ StageOK
  <1> SUFFICES ASSUME Init PROVE TypeOK /\ StageOK
    OBVIOUS
  <1>1. NoCcs \in [Pids -> Cc \cup {NoCc}]
    BY DEF NoCcs
  <1>2. /\ config \in Configs /\ injectedOnce \in BOOLEAN /\ failed \in BOOLEAN
        /\ pc \in Stages /\ held \in Packet /\ psi \in PsiContext /\ seen \subseteq Inputs
    BY PsiInitType, NullPacketType DEF Init, Stages
  <1>3. /\ wrote \in 0 .. 2 /\ read \in 0 .. MaxPackets /\ written \in Nat
        /\ dropped \in Nat /\ injections \in Nat /\ faults \in Nat
    BY MaxPacketsAssumption DEF Init
  <1>4. TypeOK
    BY <1>1, <1>2, <1>3 DEF Init, TypeOK
  <1>5. StageOK
    BY DEF Init, StageOK
  <1>6. QED
    BY <1>4, <1>5

LEMMA FromStages ==
  ASSUME NEW s
  PROVE  /\ FromPat(s) \in Stages \ {"idle"} /\ FromPmt(s) \in {"pmt", "sdt", "emit"}
         /\ FromSdt(s) \in {"sdt", "emit"}
         /\ FromPat(s) = "pat" => s.pat # NoPacket
         /\ FromPat(s) = "pmt" => s.pmt # NoPacket
         /\ FromPat(s) = "sdt" => s.sdt # NoPacket
         /\ FromPmt(s) = "pmt" => s.pmt # NoPacket
         /\ FromPmt(s) = "sdt" => s.sdt # NoPacket
         /\ FromSdt(s) = "sdt" => s.sdt # NoPacket
  BY DEF FromPat, FromPmt, FromSdt, Stages

(* Writing one cached table keeps the types, if no more than two tables    *)
(* are out before the last.                                                *)
LEMMA InjectTypes ==
  ASSUME TypeOK, NEW stage, NEW following \in Stages,
         Inject(stage, following), wrote' \in 0 .. 2
  PROVE  TypeOK'
  <1>1. injectedOnce' \in {TRUE, injectedOnce}
    BY Zenon DEF Inject
  <1>2. injectedOnce' \in BOOLEAN
    BY <1>1, Zenon DEF TypeOK
  <1>3. wrote \in Nat /\ written \in Nat /\ injections \in Nat
    BY DEF TypeOK
  <1>4. written' \in Nat /\ injections' \in Nat
    BY <1>3 DEF Inject
  <1>5. UNCHANGED <<config, psi, psiNext, videoNext, failed, held, read, dropped,
                    faults, seen, lastPsi, lastVideo>>
    BY DEF Inject, history
  <1>6. pc' \in Stages
    BY DEF Inject
  <1>7. QED
    BY <1>2, <1>4, <1>5, <1>6 DEF TypeOK

LEMMA TypeStep == TypeOK /\ StageOK /\ [Next]_vars => TypeOK' /\ StageOK'
  <1> SUFFICES ASSUME TypeOK, StageOK, [Next]_vars PROVE TypeOK' /\ StageOK'
    OBVIOUS
  <1>1. CASE UNCHANGED vars
    BY <1>1 DEF TypeOK, StageOK, vars, control, stats, history
  <1>2. ASSUME NEW raw \in Inputs, AcceptUnusable(raw) PROVE TypeOK' /\ StageOK'
    <2>1. raw \in Packet
      BY ReceivedType
    <2>2. TypeOK'
      BY <1>2, <2>1, NullPacketType, MaxPacketsAssumption
      DEF AcceptUnusable, Receive, TypeOK, Stages
    <2>3. StageOK'
      BY <1>2 DEF AcceptUnusable, Receive, StageOK
    <2>4. QED
      BY <2>2, <2>3
  <1>3. ASSUME NEW raw \in Inputs, NEW due \in BOOLEAN, AcceptPacket(raw, due)
        PROVE  TypeOK' /\ StageOK'
    <2> DEFINE p    == Repaired(raw)
               s    == PsiObserve(psi, p)
               kept == Filter(s, p)
    <2>0. /\ Receive(raw) /\ ~Unrepairable(raw)
          /\ IF p.valid THEN Emit(p, due) ELSE DropUnparsable
      BY <1>3 DEF AcceptPacket
    <2>1. /\ config' \in Configs /\ injectedOnce' \in BOOLEAN /\ failed' \in BOOLEAN
          /\ read' \in 0 .. MaxPackets /\ written' \in Nat /\ injections' \in Nat
          /\ wrote' = 0 /\ wrote = 0 /\ pc = "idle"
          /\ faults' \in Nat /\ seen' \subseteq Inputs
          /\ lastPsi' \in [Pids -> Cc \cup {NoCc}] /\ lastVideo' \in [Pids -> Cc \cup {NoCc}]
      BY <2>0, MaxPacketsAssumption DEF Receive, TypeOK, StageOK
    <2>2. CASE p.valid
      <3>1. Emit(p, due)
        BY <2>0, <2>2
      <3>2. p \in Packet
        BY <2>0, RepairedFrom
      <3>3. s \in PsiContext /\ kept \in Packet
        BY <3>2, ObserveType, FilterType DEF TypeOK
      <3>4. psi' = s /\ psi' \in PsiContext
        BY <3>1, <3>3 DEF Emit
      <3>5. held' \in Packet
        BY <3>1, <3>3, StampType DEF Emit
      <3>6. /\ psiNext' \in [Pids -> Cc \cup {NoCc}]
            /\ videoNext' \in [Pids -> Cc \cup {NoCc}]
        BY <3>1, <3>3, StampType DEF Emit, TypeOK
      <3>7. pc' \in {FromPat(s), "emit"} /\ dropped' = dropped
        BY <3>1 DEF Emit
      <3>8. pc' \in Stages
        BY <3>7, FromStages DEF Stages
      <3>9. TypeOK'
        BY <2>1, <3>4, <3>5, <3>6, <3>7, <3>8 DEF TypeOK
      <3>10. StageOK'
        BY <2>1, <3>4, <3>7, FromStages DEF StageOK
      <3>11. QED
        BY <3>9, <3>10
    <2>3. CASE ~p.valid
      BY <2>0, <2>1, <2>3 DEF DropUnparsable, TypeOK, StageOK
    <2>4. QED
      BY <2>2, <2>3
  <1>4. ASSUME Inject("pat", FromPmt(psi)) PROVE TypeOK' /\ StageOK'
    <2>1. psi' = psi /\ wrote' \in 0 .. 1 /\ (FromPmt(psi) = "emit" => wrote' = 0)
      BY <1>4 DEF Inject, StageOK
    <2>2. pc' = FromPmt(psi) /\ FromPmt(psi) \in {"pmt", "sdt", "emit"}
      BY <1>4, FromStages DEF Inject
    <2>3. StageOK'
      BY <2>1, <2>2, FromStages DEF StageOK
    <2>4. TypeOK'
      BY <1>4, <2>1, <2>2, InjectTypes DEF Stages
    <2>5. QED
      BY <2>3, <2>4
  <1>5. ASSUME Inject("pmt", FromSdt(psi)) PROVE TypeOK' /\ StageOK'
    <2>1. psi' = psi /\ wrote' \in 0 .. 2 /\ (FromSdt(psi) = "emit" => wrote' = 0)
      BY <1>5 DEF Inject, StageOK
    <2>2. pc' = FromSdt(psi) /\ FromSdt(psi) \in {"sdt", "emit"}
      BY <1>5, FromStages DEF Inject
    <2>3. StageOK'
      BY <2>1, <2>2, FromStages DEF StageOK
    <2>4. TypeOK'
      BY <1>5, <2>1, <2>2, InjectTypes DEF Stages
    <2>5. QED
      BY <2>3, <2>4
  <1>6. ASSUME Inject("sdt", "emit") PROVE TypeOK' /\ StageOK'
    <2>1. wrote' = 0 /\ pc' = "emit"
      BY <1>6 DEF Inject
    <2>2. StageOK'
      BY <2>1 DEF StageOK
    <2>3. TypeOK'
      BY <1>6, <2>1, InjectTypes DEF Stages
    <2>4. QED
      BY <2>2, <2>3
  <1>7. CASE Write
    <2>1. held.pid \in Pids /\ held.cc \in Cc
      BY DEF TypeOK, Packet
    <2>2. QED
      BY <1>7, <2>1, NullPacketType DEF Write, TypeOK, StageOK, Stages
  <1>8. CASE WriteFails
    BY <1>8, NullPacketType DEF WriteFails, stats, TypeOK, StageOK, Stages
  <1>9. CASE Reset
    <2>1. NoCcs \in [Pids -> Cc \cup {NoCc}]
      BY DEF NoCcs
    <2>2. QED
      BY <1>9, <2>1, PsiInitType DEF Reset, stats, TypeOK, StageOK
  <1>10. QED
    BY <1>1, <1>2, <1>3, <1>4, <1>5, <1>6, <1>7, <1>8, <1>9 DEF Next

(* Every variable of the pipeline keeps its type, whatever is received and *)
(* whichever writes fail.                                                  *)
THEOREM TypeCorrect == Spec => []TypeOK
  <1>1. Spec => [](TypeOK /\ StageOK)
    BY TypeInit, TypeStep, PTL DEF Spec
  <1>2. QED
    BY <1>1, PTL
-----------------------------------------------------------------------------
(* What the caches and the packet in hand have in common: they parse, and  *)
(* where the configuration keeps flagged packets out they are not flagged. *)
CacheClean ==
    \A q \in {psi.pat, psi.pmt, psi.sdt} :
        q # NoPacket => q.valid /\ ~(Nulling /\ q.tei)

HeldClean == ~(Nulling /\ held.tei)

LEMMA RepairedClean ==
  ASSUME TypeOK, CacheClean, NEW raw \in Inputs, raw.valid, ~Unrepairable(raw)
  PROVE  Repaired(raw).valid /\ ~(Nulling /\ Repaired(raw).tei)
  <1> DEFINE p == Repaired(raw)
  <1>1. PICK q \in {raw, NullPacket, psi.pat, psi.pmt, psi.sdt} :
               /\ q # NoPacket
               /\ q = raw => ~(Nulling /\ raw.tei) \/ q \in {psi.pat, psi.pmt, psi.sdt}
               /\ p = [q EXCEPT !.cc = p.cc]
    BY RepairedFrom
  <1>2. q \in Packet
    BY <1>1, ReceivedType, NullPacketType DEF TypeOK, PsiContext
  <1>3. p.valid = q.valid /\ p.tei = q.tei
    BY <1>1, <1>2 DEF Packet
  <1>4. q.valid /\ ~(Nulling /\ q.tei)
    BY <1>1, NullPacketType DEF CacheClean
  <1>5. QED
    BY <1>3, <1>4

LEMMA CleanInit == Init => CacheClean /\ HeldClean
  BY NullPacketType DEF Init, CacheClean, HeldClean, PsiInit

LEMMA CleanStep ==
  TypeOK /\ CacheClean /\ HeldClean /\ [Next]_vars
     => CacheClean' /\ HeldClean' /\ dropped' = dropped
  <1> SUFFICES ASSUME TypeOK, CacheClean, HeldClean, [Next]_vars
               PROVE  CacheClean' /\ HeldClean' /\ dropped' = dropped
    OBVIOUS
  <1>1. CASE UNCHANGED vars
    BY <1>1 DEF CacheClean, HeldClean, Nulling, vars, control, stats
  <1>2. ASSUME NEW raw \in Inputs, AcceptUnusable(raw)
        PROVE  CacheClean' /\ HeldClean' /\ dropped' = dropped
    BY <1>2, NullPacketType DEF AcceptUnusable, Receive, CacheClean, HeldClean, Nulling
  <1>3. ASSUME NEW raw \in Inputs, NEW due \in BOOLEAN, AcceptPacket(raw, due)
        PROVE  CacheClean' /\ HeldClean' /\ dropped' = dropped
    <2> DEFINE p    == Repaired(raw)
               s    == PsiObserve(psi, p)
               kept == Filter(s, p)
    <2>1. p \in Packet /\ p.valid /\ ~(Nulling /\ p.tei)
      BY <1>3, RepairedClean, RepairedFrom DEF AcceptPacket
    <2>2. Emit(p, due) /\ config' = config
      BY <1>3, <2>1 DEF AcceptPacket, Receive
    <2>3. s \in PsiContext /\ s.pat \in {psi.pat, p} /\ s.pmt \in {psi.pmt, p} /\ s.sdt \in {psi.sdt, p}
      BY <2>1, ObserveType DEF TypeOK
    <2>4. psi' = s /\ dropped' = dropped /\ held'.tei = kept.tei
      BY <2>1, <2>2, FilterType DEF Emit, Packet
    <2>5. Nulling' = Nulling
      BY <2>2 DEF Nulling
    <2>6. CacheClean'
      BY <2>1, <2>3, <2>4, <2>5 DEF CacheClean
    <2>7. HeldClean'
      BY <2>1, <2>4, <2>5, FilterType, NullPacketType DEF HeldClean
    <2>8. QED
      BY <2>4, <2>6, <2>7
  <1>4. ASSUME NEW stage, NEW following, Inject(stage, following)
        PROVE  CacheClean' /\ HeldClean' /\ dropped' = dropped
    BY <1>4 DEF Inject, CacheClean, HeldClean, Nulling
  <1>5. CASE Write
    BY <1>5, NullPacketType DEF Write, CacheClean, HeldClean, Nulling
  <1>6. CASE WriteFails
    BY <1>6, NullPacketType DEF WriteFails, stats, CacheClean, HeldClean, Nulling
  <1>7. CASE Reset
    BY <1>7 DEF Reset, stats, CacheClean, HeldClean, Nulling, PsiInit
  <1>8. QED
    BY <1>1, <1>2, <1>3, <1>4, <1>5, <1>6, <1>7 DEF Next

(* No packet carrying the transport_error_indicator leaves an engine that  *)
(* sanitizes: the tables it reinjects come from clean packets only.        *)
THEOREM TeiNeverLeaves == Spec => []TeiFree
  <1>1. TypeOK /\ StageOK /\ CacheClean /\ HeldClean => TeiFree
    BY DEF StageOK, CacheClean, HeldClean, TeiFree, NextWrite
  <1>2. Spec => [](TypeOK /\ StageOK /\ CacheClean /\ HeldClean)
    BY TypeInit, TypeStep, CleanInit, CleanStep, PTL DEF Spec
  <1>3. QED
    BY <1>1, <1>2, PTL
-----------------------------------------------------------------------------
(* The account behind CadenceKept: the packet in hand counts as owed, the  *)
(* tables of an unfinished injection as already paid.                      *)
Busy == IF pc = "idle" THEN 0 ELSE 1
Ledger == /\ dropped = 0
          /\ written + Busy - (read + injections + wrote) \in -faults .. faults

LEMMA LedgerInit == Init => Ledger
  BY DEF Init, Ledger, Busy

LEMMA LedgerStep ==
  TypeOK /\ StageOK /\ dropped' = dropped /\ Ledger /\ [Next]_vars => Ledger'
  <1> SUFFICES ASSUME TypeOK, StageOK, dropped' = dropped, Ledger, [Next]_vars
               PROVE  Ledger'
    OBVIOUS
  <1>0. /\ written \in Nat /\ read \in Nat /\ injections \in Nat /\ wrote \in 0 .. 2
        /\ faults \in Nat
    BY MaxPacketsAssumption DEF TypeOK
  <1>1. CASE UNCHANGED vars
    BY <1>1 DEF Ledger, Busy, vars, control, stats, history
  <1>2. ASSUME NEW raw \in Inputs, Receive(raw), pc' # "idle" PROVE Ledger'
    BY <1>0, <1>2 DEF Receive, Ledger, Busy
  <1>3. ASSUME NEW raw \in Inputs, AcceptUnusable(raw) PROVE Ledger'
    BY <1>2, <1>3 DEF AcceptUnusable
  <1>4. ASSUME NEW raw \in Inputs, NEW due \in BOOLEAN, AcceptPacket(raw, due) PROVE Ledger'
    <2>1. Receive(raw)
      BY <1>4 DEF AcceptPacket
    <2>2. Repaired(raw).valid
      BY <1>0, <1>4 DEF AcceptPacket, DropUnparsable, Ledger
    <2>3. Emit(Repaired(raw), due)
      BY <1>4, <2>2 DEF AcceptPacket
    <2>4. pc' # "idle"
      BY <2>3, FromStages DEF Emit
    <2>5. QED
      BY <1>2, <2>1, <2>4
  <1>5. ASSUME NEW stage \in {"pat", "pmt", "sdt"}, NEW following \in {"pmt", "sdt", "emit"},
               Inject(stage, following)
        PROVE  Ledger'
    BY <1>0, <1>5 DEF Inject, history, Ledger, Busy
  <1>6. CASE Write
    BY <1>0, <1>6 DEF Write, Ledger, Busy
  <1>7. CASE WriteFails
    BY <1>0, <1>7 DEF WriteFails, stats, Ledger, Busy
  <1>8. CASE Reset
    BY <1>8 DEF Reset, stats, Ledger, Busy
  <1>9. QED
    BY <1>1, <1>3, <1>4, <1>5, <1>6, <1>7, <1>8, FromStages DEF Next

(* One packet out for each one in and each reinjected table; every failed  *)
(* write shifts the balance by at most one.                                *)
THEOREM Cadence == Spec => []CadenceKept
  <1>1. TypeOK /\ StageOK /\ Ledger => CadenceKept
    BY DEF TypeOK, StageOK, Ledger, Busy, CadenceKept
  <1> DEFINE I == TypeOK /\ StageOK /\ CacheClean /\ HeldClean /\ Ledger
  <1>2. Init => I
    BY TypeInit, CleanInit, LedgerInit
  <1>3. I /\ [Next]_vars => I'
    BY TypeStep, CleanStep, LedgerStep
  <1>4. Spec => []I
    BY <1>2, <1>3, PTL DEF Spec
  <1>5. QED
    BY <1>1, <1>4, PTL
-----------------------------------------------------------------------------
(* Where packets come from.  Caches hold packets received since the last   *)
(* reset, up to their counter where clean mode restamps.                   *)
From(p, q) == p = [q EXCEPT !.cc = p.cc] /\ (~Cleaning => p = q)
CacheSeen ==
    \A c \in {psi.pat, psi.pmt, psi.sdt} :
        c # NoPacket => \E q \in seen \cup {NullPacket} : From(c, q)
HeldSeen ==
    pc # "idle" => /\ \E q \in seen \cup {NullPacket} : From(held, q)
                   /\ config.passthrough => pc = "emit" /\ held \in seen
SeenOK == CacheSeen /\ HeldSeen

LEMMA SeenInit == Init => SeenOK
  BY DEF Init, SeenOK, CacheSeen, HeldSeen, PsiInit

(* A counter change on top of a counter change is a counter change.        *)
LEMMA FromTransitive ==
  ASSUME NEW p \in Packet, NEW q \in Packet, NEW r \in Packet, From(p, q), From(q, r)
  PROVE  From(p, r)
  <1>1. p = [r EXCEPT !.cc = p.cc]
    BY DEF From, Packet
  <1>2. QED
    BY <1>1 DEF From

LEMMA FromReflexive ==
  ASSUME NEW p \in Packet
  PROVE  From(p, p)
  BY DEF From, Packet

(* Outside clean mode a repaired packet is the received or a cached one.   *)
LEMMA RepairedSeen ==
  ASSUME TypeOK, CacheSeen, NEW raw \in Inputs, ~Unrepairable(raw)
  PROVE  /\ \E q \in seen \cup {raw, NullPacket} : From(Repaired(raw), q)
         /\ config.passthrough => Repaired(raw) = raw
  <1> DEFINE p == Repaired(raw)
  <1>1. PICK q \in {raw, NullPacket, psi.pat, psi.pmt, psi.sdt} :
               q # NoPacket /\ p = [q EXCEPT !.cc = p.cc]
    BY RepairedFrom
  <1>2. p \in Packet /\ q \in Packet /\ raw \in Packet
    BY <1>1, RepairedFrom, ReceivedType, NullPacketType DEF TypeOK, PsiContext
  <1>3. ~Cleaning => p = ReplaceTei(raw)
    BY DEF Repaired, ReplaceBadPsi
  <1>4. ReplaceTei(raw) \in {raw, psi.pat, psi.pmt, psi.sdt}
    BY ReplacementCached DEF ReplaceTei, TypeOK
  <1>5. config.passthrough => p = raw
    BY DEF Repaired, ReplaceBadPsi, ReplaceTei, Cleaning
  <1>6. CASE Cleaning
    <2>1. From(p, q)
      BY <1>1, <1>6 DEF From
    <2>2. CASE q \in {raw, NullPacket}
      BY <1>5, <2>1, <2>2
    <2>3. CASE q \in {psi.pat, psi.pmt, psi.sdt}
      <3>1. PICK r \in seen \cup {NullPacket} : From(q, r)
        BY <1>1, <2>3 DEF CacheSeen
      <3>2. r \in Packet
        BY ReceivedType, NullPacketType DEF TypeOK
      <3>3. From(p, r)
        BY <1>2, <2>1, <3>1, <3>2, FromTransitive
      <3>4. QED
        BY <1>5, <3>3
    <2>4. QED
      BY <1>1, <2>2, <2>3
  <1>7. CASE ~Cleaning
    <2>1. p # NoPacket
      BY <1>2, NoPacketAssumption
    <2>2. p = raw \/ p \in {psi.pat, psi.pmt, psi.sdt}
      BY <1>3, <1>4, <1>7
    <2>3. From(raw, raw)
      BY <1>2, FromReflexive
    <2>4. QED
      BY <1>5, <2>1, <2>2, <2>3 DEF CacheSeen
  <1>8. QED
    BY <1>6, <1>7

LEMMA SeenStep ==
  TypeOK /\ StageOK /\ SeenOK /\ [Next]_vars => SeenOK'
  <1> SUFFICES ASSUME TypeOK, StageOK, SeenOK, [Next]_vars PROVE SeenOK'
    OBVIOUS
  <1>1. CASE UNCHANGED vars
    BY <1>1 DEF SeenOK, CacheSeen, HeldSeen, From, Cleaning, vars, control, history
  <1>2. ASSUME NEW raw \in Inputs, AcceptUnusable(raw) PROVE SeenOK'
    <2>1. /\ psi' = psi /\ config' = config /\ seen' = seen \cup {raw}
          /\ held' = IF Nulling THEN NullPacket ELSE raw
      BY <1>2 DEF AcceptUnusable, Receive
    <2>2. From(raw, raw) /\ From(NullPacket, NullPacket)
      BY ReceivedType, NullPacketType, FromReflexive
    <2>3. CacheSeen'
      BY <2>1 DEF SeenOK, CacheSeen, From, Cleaning
    <2>4. HeldSeen'
      BY <1>2, <2>1, <2>2 DEF AcceptUnusable, HeldSeen, From, Cleaning, Nulling
    <2>5. QED
      BY <2>3, <2>4 DEF SeenOK
  <1>3. ASSUME NEW raw \in Inputs, NEW due \in BOOLEAN, AcceptPacket(raw, due) PROVE SeenOK'
    <2> DEFINE p    == Repaired(raw)
               s    == PsiObserve(psi, p)
               kept == Filter(s, p)
    <2>1. /\ pc = "idle" /\ config' = config /\ seen' = seen \cup {raw}
          /\ raw \in Packet /\ p \in Packet
      BY <1>3, ReceivedType, RepairedFrom DEF AcceptPacket, Receive
    <2>2. PICK q \in seen \cup {raw, NullPacket} : From(p, q)
      BY <1>3, RepairedSeen DEF AcceptPacket, SeenOK
    <2>3. q \in Packet
      BY <2>1, NullPacketType, ReceivedType DEF TypeOK
    <2>4. CASE ~p.valid
      BY <1>3, <2>1, <2>4 DEF AcceptPacket, DropUnparsable, SeenOK, CacheSeen, HeldSeen,
                              From, Cleaning
    <2>5. CASE p.valid
      <3>1. Emit(p, due)
        BY <1>3, <2>5 DEF AcceptPacket
      <3>2. /\ s.pat \in {psi.pat, p} /\ s.pmt \in {psi.pmt, p} /\ s.sdt \in {psi.sdt, p}
            /\ s \in PsiContext
        BY <2>1, ObserveType DEF TypeOK
      <3>3. psi' = s /\ held' = [kept EXCEPT !.cc = StampedCc(s, kept)]
        BY <3>1 DEF Emit
      <3>4. CacheSeen'
        <4>1. Cleaning' = Cleaning
          BY <2>1 DEF Cleaning
        <4>2. ASSUME NEW c \in {s.pat, s.pmt, s.sdt}, c # NoPacket
              PROVE  \E t \in seen \cup {raw, NullPacket} : From(c, t)
          <5>1. CASE c = p
            BY <2>2, <5>1
          <5>2. CASE c \in {psi.pat, psi.pmt, psi.sdt}
            BY <4>2, <5>2 DEF SeenOK, CacheSeen
          <5>3. QED
            BY <3>2, <5>1, <5>2
        <4>3. QED
          BY <2>1, <3>3, <4>1, <4>2 DEF CacheSeen, From
      <3>5. kept \in Packet /\ held' \in Packet
        BY <2>1, <3>2, <3>3, FilterType, StampType
      <3>6. kept \in {p, NullPacket} /\ From(NullPacket, NullPacket)
        BY <2>1, FilterType, NullPacketType, FromReflexive
      <3>7. PICK r \in seen \cup {raw, NullPacket} : From(kept, r)
        BY <2>2, <3>6
      <3>8. r \in Packet
        BY <2>1, NullPacketType, ReceivedType DEF TypeOK
      <3>9. From(held', kept)
        <4>1. held' = [kept EXCEPT !.cc = held'.cc]
          BY <3>3, <3>5 DEF Packet
        <4>2. ~Cleaning => StampedCc(s, kept) = kept.cc
          BY DEF StampedCc, StampsVideo, StampsPsi
        <4>3. ~Cleaning => held' = kept
          BY <3>3, <3>5, <4>2 DEF Packet
        <4>4. QED
          BY <4>1, <4>3 DEF From
      <3>10. From(held', r)
        BY <3>5, <3>7, <3>8, <3>9, FromTransitive
      <3>11. config.passthrough => held' = raw
        <4>1. config.passthrough => ~Cleaning
          BY DEF Cleaning
        <4>2. config.passthrough => p = raw
          BY <1>3, RepairedSeen DEF AcceptPacket, SeenOK
        <4>3. ~Cleaning => kept = p /\ held' = kept
          BY <3>9 DEF Filter, From
        <4>4. QED
          BY <4>1, <4>2, <4>3
      <3>12. HeldSeen'
        <4>1. config.passthrough => pc' = "emit"
          BY <3>1 DEF Emit
        <4>2. Cleaning' = Cleaning
          BY <2>1 DEF Cleaning
        <4>3. r \in seen' \cup {NullPacket}
          BY <2>1, <3>7
        <4>4. QED
          BY <2>1, <3>10, <3>11, <4>1, <4>2, <4>3 DEF HeldSeen, From
      <3>13. QED
        BY <3>4, <3>12 DEF SeenOK
    <2>6. QED
      BY <2>4, <2>5
  <1>4. ASSUME NEW stage \in {"pat", "pmt", "sdt"}, NEW following, Inject(stage, following)
        PROVE  SeenOK'
    BY <1>4 DEF Inject, history, SeenOK, CacheSeen, HeldSeen, From, Cleaning
  <1>5. CASE Write
    BY <1>5 DEF Write, SeenOK, CacheSeen, HeldSeen, From, Cleaning
  <1>6. CASE WriteFails
    BY <1>6 DEF WriteFails, SeenOK, CacheSeen, HeldSeen, From, Cleaning
  <1>7. CASE Reset
    BY <1>7 DEF Reset, SeenOK, CacheSeen, HeldSeen, PsiInit
  <1>8. QED
    BY <1>1, <1>2, <1>3, <1>4, <1>5, <1>6, <1>7 DEF Next

(* Every packet written was received since the last reset, or is null.     *)
THEOREM NothingInvented == Spec => []WrittenWasReceived
  <1>1. TypeOK /\ StageOK /\ SeenOK => WrittenWasReceived
    <2> SUFFICES ASSUME TypeOK, StageOK, SeenOK, pc # "idle"
                 PROVE  /\ config.passthrough => NextWrite \in seen
                        /\ ~Cleaning => NextWrite \in seen \cup {NullPacket}
                        /\ \E p \in seen \cup {NullPacket} :
                              NextWrite = [p EXCEPT !.cc = NextWrite.cc]
      BY DEF WrittenWasReceived
    <2>1. NextWrite = held \/ (NextWrite \in {psi.pat, psi.pmt, psi.sdt} /\ NextWrite # NoPacket)
      BY DEF NextWrite, StageOK
    <2>2. PICK q \in seen \cup {NullPacket} : From(NextWrite, q)
      BY <2>1 DEF SeenOK, CacheSeen, HeldSeen
    <2>3. QED
      BY <2>1, <2>2 DEF From, SeenOK, HeldSeen, NextWrite
  <1>2. QED
    BY <1>1, TypeInit, TypeStep, SeenInit, SeenStep, PTL DEF Spec
-----------------------------------------------------------------------------
(* What has been learned stems from the sections of the input packets: on  *)
(* a well-formed multiplex no PID is SI and video at once.                 *)
InputSections == {p.section : p \in Inputs} \cup {NoSection}
Learned ==
    /\ \A c \in {psi.pat, psi.pmt, psi.sdt} : c # NoPacket => c.section \in InputSections
    /\ psi.pmtPid \in SiPids
    /\ psi.video \cap SiPids = {}

LEMMA LearnedInit == Init => Learned
  BY DEF Init, Learned, PsiInit, SiPids

(* Observing a packet with a known section keeps what is learned apart.    *)
LEMMA ObserveLearned ==
  ASSUME MuxWellFormed, TypeOK, Learned, NEW p \in Packet, p.section \in InputSections
  PROVE  LET s == PsiObserve(psi, p) IN
         /\ s.pmtPid \in SiPids
         /\ s.video \cap SiPids = {}
  <1>1. psi \in PsiContext
    BY DEF TypeOK
  <1>2. p.section.table = "pat" => p.section.pmt \in SiPids
    BY DEF InputSections, NoSection, SiPids
  <1>3. p.section.table = "pmt" => p.section.video \cap SiPids = {}
    BY DEF InputSections, NoSection, MuxWellFormed
  <1>4. p.section.table = "pat" => /\ ParsePat(psi, p).pmtPid \in SiPids
                                   /\ ParsePat(psi, p).video = psi.video
    BY <1>1, <1>2 DEF ParsePat, PsiContext, Learned
  <1>5. p.section.table = "pmt" => /\ ParsePmt(psi, p).pmtPid = psi.pmtPid
                                   /\ ParsePmt(psi, p).video \cap SiPids = {}
    BY <1>1, <1>3 DEF ParsePmt, PsiContext, Learned
  <1>6. /\ ParseSdt(psi, p).pmtPid = psi.pmtPid
        /\ ParseSdt(psi, p).video = psi.video
    BY <1>1 DEF ParseSdt, PsiContext
  <1>7. p.section \in Section
    BY DEF Packet
  <1>8. HasValidSection(psi, p) => p.section.table \in {"pat", "pmt", "sdt"}
    BY <1>7 DEF HasValidSection, TableOf, Section
  <1>9. CASE ~HasValidSection(psi, p)
    BY <1>9 DEF PsiObserve, Learned
  <1>10. CASE HasValidSection(psi, p) /\ p.section.table = "pat"
    BY <1>4, <1>10 DEF PsiObserve, Learned
  <1>11. CASE HasValidSection(psi, p) /\ p.section.table = "pmt"
    BY <1>5, <1>11 DEF PsiObserve, Learned
  <1>12. CASE HasValidSection(psi, p) /\ p.section.table = "sdt"
    BY <1>6, <1>12 DEF PsiObserve, Learned
  <1>13. QED
    BY <1>8, <1>9, <1>10, <1>11, <1>12

LEMMA RepairedSection ==
  ASSUME TypeOK, Learned, NEW raw \in Inputs, ~Unrepairable(raw)
  PROVE  Repaired(raw) \in Packet /\ Repaired(raw).section \in InputSections
  <1> DEFINE p == Repaired(raw)
  <1>1. p \in Packet
    BY RepairedFrom
  <1>2. PICK q \in {raw, NullPacket, psi.pat, psi.pmt, psi.sdt} :
               q # NoPacket /\ p = [q EXCEPT !.cc = p.cc]
    BY RepairedFrom
  <1>3. q \in Packet
    BY <1>2, ReceivedType, NullPacketType DEF TypeOK, PsiContext
  <1>4. p.section = q.section
    BY <1>2, <1>3 DEF Packet
  <1>5. q.section \in InputSections
    BY <1>2 DEF Learned, InputSections, NullPacket
  <1>6. QED
    BY <1>1, <1>4, <1>5

LEMMA LearnedStep ==
  MuxWellFormed /\ TypeOK /\ Learned /\ [Next]_vars => Learned'
  <1> SUFFICES ASSUME MuxWellFormed, TypeOK, Learned, [Next]_vars PROVE Learned'
    OBVIOUS
  <1>1. CASE psi' = psi
    BY <1>1 DEF Learned
  <1>2. ASSUME NEW raw \in Inputs, NEW due \in BOOLEAN, AcceptPacket(raw, due) PROVE Learned'
    <2> DEFINE p == Repaired(raw)
               s == PsiObserve(psi, p)
    <2>1. CASE ~p.valid
      BY <1>1, <1>2, <2>1 DEF AcceptPacket, DropUnparsable
    <2>2. CASE p.valid
      <3>1. psi' = s
        BY <1>2, <2>2 DEF AcceptPacket, Emit
      <3>2. p \in Packet /\ p.section \in InputSections
        BY <1>2, RepairedSection DEF AcceptPacket
      <3>3. s.pat \in {psi.pat, p} /\ s.pmt \in {psi.pmt, p} /\ s.sdt \in {psi.sdt, p}
        BY <3>2, ObserveType DEF TypeOK
      <3>4. s.pmtPid \in SiPids /\ s.video \cap SiPids = {}
        BY <3>2, ObserveLearned
      <3>5. QED
        BY <3>1, <3>2, <3>3, <3>4 DEF Learned
    <2>3. QED
      BY <2>1, <2>2
  <1>3. CASE Reset
    BY <1>3 DEF Reset, Learned, PsiInit, SiPids
  <1>4. QED
    BY <1>1, <1>2, <1>3 DEF Next, AcceptUnusable, Inject, Write, WriteFails, vars, control

(* A PID that carries SI is not stamped as video, and null packets are not *)
(* stamped at all.                                                         *)
LEMMA Apart ==
  ASSUME NEW s, s.pmtPid \in SiPids, s.video \cap SiPids = {}, NEW p
  PROVE  /\ StampsPsi(s, p) => ~StampsVideo(s, p)
         /\ p.pid = NullPid => ~StampsPsi(s, p) /\ ~StampsVideo(s, p)
  BY DEF StampsPsi, StampsVideo, KnownSi, IsPmt, SiPids, PatPid, SdtPid, NullPid
-----------------------------------------------------------------------------
(* The line of SI counters.  A stamped packet in hand continues what was   *)
(* last written on its PID, and the counter to come continues it; on every *)
(* other PID the counter to come continues what was last written.          *)
PsiInHand(pid) == pc # "idle" /\ StampsPsi(psi, held) /\ held.pid = pid
PsiLine ==
    \A pid \in Pids :
        /\ PsiInHand(pid) =>
              /\ psiNext[pid] = Plus1(held.cc)
              /\ lastPsi[pid] # NoCc => held.cc = Plus1(lastPsi[pid])
        /\ ~PsiInHand(pid) /\ ~failed /\ lastPsi[pid] # NoCc
              => psiNext[pid] = Plus1(lastPsi[pid])

(* The same line for the counters of video PIDs.                           *)
VideoInHand(pid) == pc # "idle" /\ StampsVideo(psi, held) /\ held.pid = pid
VideoLine ==
    \A pid \in Pids :
        /\ VideoInHand(pid) =>
              /\ videoNext[pid] = Plus1(held.cc)
              /\ lastVideo[pid] # NoCc => held.cc = Plus1(lastVideo[pid])
        /\ ~VideoInHand(pid) /\ ~failed /\ lastVideo[pid] # NoCc
              => videoNext[pid] = Plus1(lastVideo[pid])

LEMMA LinesInit == Init => PsiLine /\ VideoLine
  BY DEF Init, PsiLine, VideoLine, PsiInHand, VideoInHand, NoCcs

LEMMA Plus1Counter == \A c \in Cc : Plus1(c) \in Cc /\ Plus1(c) # NoCc
  BY CcModAssumption DEF Cc, Plus1, NoCc

(* Stamping a packet keeps both lines.                                     *)
LEMMA EmitLines ==
  ASSUME TypeOK, Learned, PsiLine, VideoLine, pc = "idle", ~failed,
         UNCHANGED <<config, failed, lastPsi, lastVideo>>,
         NEW p \in Packet, NEW due \in BOOLEAN, Emit(p, due), Learned'
  PROVE  PsiLine' /\ VideoLine'
  <1> DEFINE s    == PsiObserve(psi, p)
             kept == Filter(s, p)
             cc   == StampedCc(s, kept)
  <1>1. s \in PsiContext /\ kept \in Packet
    BY ObserveType, FilterType DEF TypeOK
  <1>2. psi' = s /\ held' = [kept EXCEPT !.cc = cc] /\ pc' # "idle"
    BY FromStages DEF Emit
  <1>3. held'.pid = kept.pid /\ held'.payload = kept.payload /\ held'.cc = cc
        /\ kept.pid \in Pids
    BY <1>1, <1>2 DEF Packet
  <1>4. s.pmtPid \in SiPids /\ s.video \cap SiPids = {}
    BY <1>2 DEF Learned
  <1>5. /\ StampsPsi(s, kept) <=> StampsPsi(psi, held)'
        /\ StampsVideo(s, kept) <=> StampsVideo(psi, held)'
    BY <1>2, <1>3 DEF StampsPsi, StampsVideo, Cleaning
  <1>6. /\ psiNext \in [Pids -> Cc \cup {NoCc}] /\ videoNext \in [Pids -> Cc \cup {NoCc}]
        /\ lastPsi \in [Pids -> Cc \cup {NoCc}] /\ lastVideo \in [Pids -> Cc \cup {NoCc}]
    BY DEF TypeOK
  <1>7. \A pid \in Pids :
           /\ lastPsi[pid] # NoCc => /\ psiNext[pid] = Plus1(lastPsi[pid])
                                     /\ psiNext[pid] # NoCc
           /\ lastVideo[pid] # NoCc => /\ videoNext[pid] = Plus1(lastVideo[pid])
                                       /\ videoNext[pid] # NoCc
    BY <1>6, Plus1Counter DEF PsiLine, VideoLine, PsiInHand, VideoInHand
  <1>8. PsiLine'
    <2>1. CASE StampsPsi(s, kept)
      <3>1. cc = PsiCc(kept)
        BY <1>4, <2>1, Apart DEF StampedCc
      <3>2. psiNext' = [psiNext EXCEPT ![kept.pid] = Plus1(cc)]
        BY <2>1, <3>1 DEF Emit, NextPsiCc
      <3>3. lastPsi[kept.pid] # NoCc => cc = Plus1(lastPsi[kept.pid])
        BY <1>3, <1>7, <3>1 DEF PsiCc
      <3>4. QED
        BY <1>2, <1>3, <1>5, <1>6, <1>7, <2>1, <3>2, <3>3 DEF PsiLine, PsiInHand
    <2>2. CASE ~StampsPsi(s, kept)
      <3>1. psiNext' = psiNext
        BY <2>2 DEF Emit
      <3>2. QED
        BY <1>5, <1>7, <2>2, <3>1 DEF PsiLine, PsiInHand
    <2>3. QED
      BY <2>1, <2>2
  <1>9. VideoLine'
    <2>1. CASE StampsVideo(s, kept)
      <3>1. cc = VideoCc(kept)
        BY <2>1 DEF StampedCc
      <3>2. videoNext' = [videoNext EXCEPT ![kept.pid] = Plus1(cc)]
        BY <2>1, <3>1 DEF Emit, NextVideoCc
      <3>3. lastVideo[kept.pid] # NoCc => cc = Plus1(lastVideo[kept.pid])
        BY <1>3, <1>7, <3>1 DEF VideoCc
      <3>4. QED
        BY <1>2, <1>3, <1>5, <1>6, <1>7, <2>1, <3>2, <3>3 DEF VideoLine, VideoInHand
    <2>2. CASE ~StampsVideo(s, kept)
      <3>1. videoNext' = videoNext
        BY <2>2 DEF Emit
      <3>2. QED
        BY <1>5, <1>7, <2>2, <3>1 DEF VideoLine, VideoInHand
    <2>3. QED
      BY <2>1, <2>2
  <1>10. QED
    BY <1>8, <1>9

LEMMA LinesStep ==
  TypeOK /\ StageOK /\ Learned /\ Learned' /\ (pc # "idle" => ~failed)
    /\ PsiLine /\ VideoLine /\ [Next]_vars
       => PsiLine' /\ VideoLine' /\ (pc' # "idle" => ~failed')
  <1> SUFFICES ASSUME TypeOK, StageOK, Learned, Learned', pc # "idle" => ~failed,
                      PsiLine, VideoLine, [Next]_vars
               PROVE  PsiLine' /\ VideoLine' /\ (pc' # "idle" => ~failed')
    OBVIOUS
  <1> USE DEF PsiInHand, VideoInHand
  <1>1. CASE UNCHANGED vars
    BY <1>1 DEF PsiLine, VideoLine, StampsPsi, StampsVideo, Cleaning, vars, control, history
  <1>2. ASSUME NEW raw \in Inputs, AcceptUnusable(raw)
        PROVE  PsiLine' /\ VideoLine' /\ (pc' # "idle" => ~failed')
    <2>1. /\ pc = "idle" /\ ~failed /\ psi' = psi /\ config' = config
          /\ UNCHANGED <<psiNext, videoNext, lastPsi, lastVideo, failed>>
          /\ held' = IF Nulling THEN NullPacket ELSE raw
      BY <1>2 DEF AcceptUnusable, Receive
    <2>2. ~StampsPsi(psi, held)' /\ ~StampsVideo(psi, held)'
      <3>1. CASE Nulling
        <4>1. held'.pid = NullPid /\ psi'.pmtPid \in SiPids /\ psi'.video \cap SiPids = {}
          BY <2>1, <3>1 DEF NullPacket, Learned
        <4>2. QED
          BY <4>1 DEF StampsPsi, StampsVideo, KnownSi, IsPmt, SiPids, PatPid, SdtPid, NullPid
      <3>2. CASE ~Nulling
        BY <2>1, <3>2 DEF Nulling, StampsPsi, StampsVideo, Cleaning
      <3>3. QED
        BY <3>1, <3>2
    <2>3. QED
      BY <2>1, <2>2 DEF PsiLine, VideoLine
  <1>3. ASSUME NEW raw \in Inputs, NEW due \in BOOLEAN, AcceptPacket(raw, due)
        PROVE  PsiLine' /\ VideoLine' /\ (pc' # "idle" => ~failed')
    <2> DEFINE p == Repaired(raw)
    <2>1. /\ pc = "idle" /\ ~failed /\ p \in Packet
          /\ UNCHANGED <<config, failed, lastPsi, lastVideo>>
      BY <1>3, RepairedFrom DEF AcceptPacket, Receive
    <2>2. CASE p.valid
      BY <1>3, <2>1, <2>2, EmitLines DEF AcceptPacket
    <2>3. CASE ~p.valid
      BY <1>3, <2>1, <2>3 DEF AcceptPacket, DropUnparsable, PsiLine, VideoLine
    <2>4. QED
      BY <2>1, <2>2, <2>3
  <1>4. ASSUME NEW stage \in {"pat", "pmt", "sdt"}, NEW following \in {"pmt", "sdt", "emit"},
               Inject(stage, following)
        PROVE  PsiLine' /\ VideoLine' /\ (pc' # "idle" => ~failed')
    BY <1>4 DEF Inject, history, PsiLine, VideoLine, StampsPsi, StampsVideo, Cleaning
  <1>5. CASE Write
    <2>1. held.pid \in Pids /\ pc' = "idle" /\ pc = "emit"
      BY <1>5 DEF Write, TypeOK, Packet
    <2>2. PsiLine'
      BY <1>5, <2>1 DEF Write, PsiLine, TypeOK
    <2>3. VideoLine'
      BY <1>5, <2>1 DEF Write, VideoLine, TypeOK
    <2>4. QED
      BY <2>1, <2>2, <2>3
  <1>6. CASE WriteFails
    BY <1>6 DEF WriteFails, PsiLine, VideoLine
  <1>7. CASE Reset
    BY <1>7 DEF Reset, PsiLine, VideoLine, NoCcs
  <1>8. QED
    BY <1>1, <1>2, <1>3, <1>4, <1>5, <1>6, <1>7, FromStages DEF Next

LEMMA LinesHold ==
  ASSUME MuxWellFormed
  PROVE  Spec => [](TypeOK /\ PsiLine /\ VideoLine)
  <1> DEFINE I == /\ TypeOK /\ StageOK /\ Learned /\ (pc # "idle" => ~failed)
                  /\ PsiLine /\ VideoLine
  <1>1. Init => I
    BY TypeInit, LearnedInit, LinesInit DEF Init
  <1>2. I /\ [Next]_vars => I'
    BY TypeStep, LearnedStep, LinesStep
  <1>3. QED
    BY <1>1, <1>2, PTL DEF Spec

(* On a well-formed multiplex the SI counters of clean mode never break.   *)
THEOREM PsiCountersContiguous ==
  ASSUME MuxWellFormed
  PROVE  Spec => []PsiCcContiguous
  <1>1. TypeOK /\ PsiLine => PsiCcContiguous
    BY DEF TypeOK, Packet, PsiLine, PsiInHand, PsiCcContiguous
  <1>2. QED
    BY <1>1, LinesHold, PTL

(* On a well-formed multiplex smoothed video counters never break.         *)
THEOREM VideoCountersContiguous ==
  ASSUME MuxWellFormed
  PROVE  Spec => []VideoCcContiguous
  <1>1. TypeOK /\ VideoLine => VideoCcContiguous
    BY DEF TypeOK, Packet, VideoLine, VideoInHand, VideoCcContiguous
  <1>2. QED
    BY <1>1, LinesHold, PTL
=============================================================================
