------------------------------ MODULE TsRepair ------------------------------
(***************************************************************************)
(* The packet pipeline of the repair engine: process_packet in             *)
(* src/scatterfix.c with the writes of src/repair.c, one input packet at a *)
(* time.  A packet is accepted (analysed, repaired, filtered, restamped)   *)
(* in one step; then each call of the caller's write callback is a step of *)
(* its own - the cached tables that are reinjected, in the order PAT, PMT, *)
(* SDT, and last the packet itself - because each of them can fail.  A     *)
(* failed write makes the engine refuse input until it is reset.           *)
(*                                                                         *)
(* The continuity, contest and role observers only count: nothing they     *)
(* keep is read by the pipeline, and they are not part of this module.     *)
(***************************************************************************)
EXTENDS Psi

CONSTANTS
    Inputs,      \* the packets the receiver may deliver
    Configs,     \* the configurations the caller may choose
    MaxPackets   \* bound: packets read in a behaviour

Config == [passthrough : BOOLEAN, sanitize : BOOLEAN, clean : BOOLEAN,
           dropAudio : BOOLEAN, smoothCc : BOOLEAN, inject : BOOLEAN,
           dryRun : BOOLEAN]

ASSUME InputsAssumption == Inputs \subseteq Packet
ASSUME ConfigsAssumption == Configs \subseteq Config
ASSUME MaxPacketsAssumption == MaxPackets \in Nat

VARIABLES
    config,        \* ScatterfixConfig, fixed at creation
    psi,           \* the PSI context
    psiNext,       \* clean_next_cc, NoCc where clean_cc_valid is 0
    videoNext,     \* clean_video_next_cc, likewise
    injectedOnce,  \* last_psi_inject_ms # 0
    failed,        \* ctx->failed
    pc,            \* which write comes next: "idle", "pat", "pmt", "sdt", "emit"
    held,          \* the accepted packet, as it will be written
    wrote,         \* tables written so far in this injection
    read, written, dropped, injections,   \* Stats
    (* history, read by the properties only *)
    faults,        \* writes that failed
    seen,          \* packets read since creation or the last reset
    lastPsi,       \* counter last written on a PID while it carried SI
    lastVideo      \* counter last written on a PID while it carried video

control == <<config, psi, psiNext, videoNext, injectedOnce, failed, pc, held, wrote>>
stats   == <<read, written, dropped, injections>>
history == <<faults, seen, lastPsi, lastVideo>>
vars    == <<control, stats, history>>

NoCc == -1
Stages == {"idle", "pat", "pmt", "sdt", "emit"}
NoCcs == [pid \in Pids |-> NoCc]

Plus1_Mutant(cc) == cc + 1             \* the four bits are not masked
Plus1(cc) == (cc + 1) % CcMod
-----------------------------------------------------------------------------
Nulling == ~config.passthrough /\ (config.sanitize \/ config.clean)
Cleaning == ~config.passthrough /\ config.clean

(* The transport_error_indicator path: a damaged table is replaced by the  *)
(* cached packet, counter and all.                                         *)
ReplaceTei(raw) ==
    IF ~config.passthrough /\ raw.tei /\ Replacement(psi, raw.pid) # NoPacket
    THEN Replacement(psi, raw.pid)
    ELSE raw

(* clean_ts_replace_bad_psi: an SI packet without a valid section becomes  *)
(* the cached packet with the counter of the one received, or null.        *)
ReplaceBadPsi(p) ==
    IF ~Cleaning \/ ~KnownSi(psi, p.pid) \/ HasValidSection(psi, p) THEN p
    ELSE IF Replacement(psi, p.pid) # NoPacket
         THEN [Replacement(psi, p.pid) EXCEPT !.cc = p.cc]
         ELSE NullPacket

Repaired(raw) == ReplaceBadPsi(ReplaceTei(raw))

Unrepairable_Mutant(raw) ==            \* --sanitize is forgotten
    raw.tei /\ Cleaning /\ Replacement(psi, raw.pid) = NoPacket

(* No replacement exists for a packet the receiver flagged as damaged.     *)
Unrepairable(raw) == raw.tei /\ Nulling /\ Replacement(psi, raw.pid) = NoPacket

PidAllowed(s, pid) ==
    \/ pid \in {NullPid, PatPid}
    \/ ~HasPmt(s)
    \/ pid \in {s.pmtPid, s.pcr} \cup s.video
    \/ ~config.dropAudio /\ pid \in s.audio

Filter(s, p) == IF Cleaning /\ ~PidAllowed(s, p.pid) THEN NullPacket ELSE p

StampsPsi(s, p) == Cleaning /\ p.payload /\ KnownSi(s, p.pid)
StampsVideo(s, p) == Cleaning /\ config.smoothCc /\ p.payload /\ p.pid \in s.video

(* The SI counter of a PID starts at 0, the video counter at the first     *)
(* packet's own.                                                           *)
PsiCc(p) == IF psiNext[p.pid] = NoCc THEN 0 ELSE psiNext[p.pid]
VideoCc(p) == IF videoNext[p.pid] = NoCc THEN p.cc ELSE videoNext[p.pid]

NextPsiCc_Mutant(p) == Plus1(p.cc)     \* continues the counter received
NextPsiCc(p) == Plus1(PsiCc(p))
NextVideoCc_Mutant(p) == VideoCc(p)   \* is not advanced
NextVideoCc(p) == Plus1(VideoCc(p))

StampedCc(s, p) == IF StampsVideo(s, p) THEN VideoCc(p)
                   ELSE IF StampsPsi(s, p) THEN PsiCc(p)
                   ELSE p.cc

(* The stages that follow one another in repair_maybe_inject_psi; an empty *)
(* cache slot is passed over.                                              *)
FromSdt(s) == IF s.sdt # NoPacket THEN "sdt" ELSE "emit"
FromPmt(s) == IF s.pmt # NoPacket THEN "pmt" ELSE FromSdt(s)
FromPat(s) == IF s.pat # NoPacket THEN "pat" ELSE FromPmt(s)

(* What the pending callback is about to be given.                         *)
NextWrite == CASE pc = "pat" -> psi.pat
               [] pc = "pmt" -> psi.pmt
               [] pc = "sdt" -> psi.sdt
               [] OTHER -> held
-----------------------------------------------------------------------------
Init ==
    /\ config \in Configs
    /\ psi = PsiInit
    /\ psiNext = NoCcs /\ videoNext = NoCcs
    /\ injectedOnce = FALSE /\ failed = FALSE
    /\ pc = "idle" /\ held = NullPacket /\ wrote = 0
    /\ read = 0 /\ written = 0 /\ dropped = 0 /\ injections = 0
    /\ faults = 0 /\ seen = {} /\ lastPsi = NoCcs /\ lastVideo = NoCcs

Receive(raw) ==
    /\ pc = "idle" /\ ~failed /\ read < MaxPackets
    /\ read' = read + 1
    /\ seen' = seen \cup {raw}
    /\ UNCHANGED <<config, injectedOnce, failed, wrote, written, injections,
                   faults, lastPsi, lastVideo>>

(* A packet that does not parse, or that is damaged beyond repair, is not  *)
(* observed and triggers no injection.                                     *)
AcceptUnusable(raw) ==
    /\ ~raw.valid \/ Unrepairable(raw)
    /\ Receive(raw)
    /\ held' = IF Nulling THEN NullPacket ELSE raw
    /\ pc' = "emit"
    /\ UNCHANGED <<psi, psiNext, videoNext, dropped>>

(* A replacement that does not parse is dropped without being written.     *)
DropUnparsable ==
    /\ dropped' = dropped + 1
    /\ UNCHANGED <<psi, psiNext, videoNext, held, pc>>

(* The observers run on the repaired packet, and the filter and the        *)
(* restamping use what they have just learned.  due is the outcome of the  *)
(* wall-clock comparison, which always holds before the first injection.   *)
Emit(p, due) ==
    LET s    == PsiObserve(psi, p)
        kept == Filter(s, p)
    IN /\ psi' = s
       /\ held' = [kept EXCEPT !.cc = StampedCc(s, kept)]
       /\ psiNext' = IF StampsPsi(s, kept)
                     THEN [psiNext EXCEPT ![kept.pid] = NextPsiCc(kept)]
                     ELSE psiNext
       /\ videoNext' = IF StampsVideo(s, kept)
                       THEN [videoNext EXCEPT ![kept.pid] = NextVideoCc(kept)]
                       ELSE videoNext
       /\ pc' = IF config.inject /\ ~config.passthrough /\ (due \/ ~injectedOnce)
                THEN FromPat(s) ELSE "emit"
       /\ UNCHANGED dropped

AcceptPacket(raw, due) ==
    /\ raw.valid /\ ~Unrepairable(raw)
    /\ Receive(raw)
    /\ IF Repaired(raw).valid THEN Emit(Repaired(raw), due) ELSE DropUnparsable

Inject_Mutant(stage, following) ==     \* the last table is not counted
    /\ pc = stage
    /\ pc' = following
    /\ written' = written + 1
    /\ IF following = "emit"
       THEN injections' = injections + wrote /\ injectedOnce' = TRUE /\ wrote' = 0
       ELSE wrote' = wrote + 1 /\ UNCHANGED <<injections, injectedOnce>>
    /\ UNCHANGED <<config, psi, psiNext, videoNext, failed, held, read, dropped, history>>

(* One table of an injection is written.  The counters of the injection    *)
(* and its time are recorded only once the last one has gone out.          *)
Inject(stage, following) ==
    /\ pc = stage
    /\ pc' = following
    /\ written' = written + 1
    /\ IF following = "emit"
       THEN /\ injections' = injections + wrote + 1
            /\ injectedOnce' = TRUE
            /\ wrote' = 0
       ELSE /\ wrote' = wrote + 1
            /\ UNCHANGED <<injections, injectedOnce>>
    /\ UNCHANGED <<config, psi, psiNext, videoNext, failed, held, read, dropped, history>>

(* The packet itself is written.                                           *)
Write ==
    /\ pc = "emit"
    /\ pc' = "idle"
    /\ written' = written + 1
    /\ lastPsi' = [lastPsi EXCEPT ![held.pid] =
                     IF StampsPsi(psi, held) THEN held.cc ELSE NoCc]
    /\ lastVideo' = [lastVideo EXCEPT ![held.pid] =
                       IF StampsVideo(psi, held) THEN held.cc
                       ELSE IF held.pid \in psi.video THEN @ ELSE NoCc]
    /\ held' = NullPacket
    /\ UNCHANGED <<config, psi, psiNext, videoNext, injectedOnce, failed, wrote,
                   read, dropped, injections, faults, seen>>

(* The write callback reports a failure; a dry run makes no calls.         *)
WriteFails ==
    /\ pc # "idle" /\ ~config.dryRun
    /\ pc' = "idle"
    /\ failed' = TRUE
    /\ wrote' = 0
    /\ faults' = faults + 1
    /\ held' = NullPacket
    /\ UNCHANGED <<config, psi, psiNext, videoNext, injectedOnce, stats,
                   seen, lastPsi, lastVideo>>

Reset_Mutant ==                        \* psi_init is not called
    /\ pc = "idle"
    /\ psiNext' = NoCcs /\ videoNext' = NoCcs
    /\ injectedOnce' = FALSE /\ failed' = FALSE
    /\ seen' = {} /\ lastPsi' = NoCcs /\ lastVideo' = NoCcs
    /\ UNCHANGED <<config, psi, pc, held, wrote, stats, faults>>

(* scatterfix_reset, from the caller between two feeds: everything learned *)
(* goes, the statistics stay.                                              *)
Reset ==
    /\ pc = "idle"
    /\ psi' = PsiInit
    /\ psiNext' = NoCcs /\ videoNext' = NoCcs
    /\ injectedOnce' = FALSE /\ failed' = FALSE
    /\ seen' = {} /\ lastPsi' = NoCcs /\ lastVideo' = NoCcs
    /\ UNCHANGED <<config, pc, held, wrote, stats, faults>>

Next ==
    \/ \E raw \in Inputs : AcceptUnusable(raw)
    \/ \E raw \in Inputs, due \in BOOLEAN : AcceptPacket(raw, due)
    \/ Inject("pat", FromPmt(psi))
    \/ Inject("pmt", FromSdt(psi))
    \/ Inject("sdt", "emit")
    \/ Write
    \/ WriteFails
    \/ Reset

Spec == Init /\ [][Next]_vars
-----------------------------------------------------------------------------
TypeOK ==
    /\ config \in Configs
    /\ psi \in PsiContext
    /\ psiNext \in [Pids -> Cc \cup {NoCc}] /\ videoNext \in [Pids -> Cc \cup {NoCc}]
    /\ injectedOnce \in BOOLEAN /\ failed \in BOOLEAN
    /\ pc \in Stages /\ held \in Packet /\ wrote \in 0 .. 2
    /\ read \in 0 .. MaxPackets /\ written \in Nat /\ dropped \in Nat /\ injections \in Nat
    /\ faults \in Nat /\ seen \subseteq Inputs
    /\ lastPsi \in [Pids -> Cc \cup {NoCc}] /\ lastVideo \in [Pids -> Cc \cup {NoCc}]

(* With --sanitize or --clean-ts nothing that is written carries the       *)
(* transport_error_indicator: not the packet, not its replacement from the *)
(* cache, and not a table that is reinjected later.                        *)
TeiFree == Nulling /\ pc # "idle" => ~NextWrite.tei

(* The engine keeps the cadence of the multiplex: between packets, what it *)
(* has written is one packet for each one read and one for each injection, *)
(* and a failed write - wherever in the sequence it happened, however many *)
(* resets followed - makes a difference of at most one packet.  The branch *)
(* that drops an unparsable replacement is never taken.                    *)
CadenceKept ==
    /\ dropped = 0
    /\ pc = "idle" => written - (read + injections) \in -faults .. faults

(* In clean mode the SI packets passed on carry consecutive counters on    *)
(* each PID, across cache replacements, nulled packets, filtering, and a   *)
(* PMT PID that changes and comes back.  (Reinjected copies are outside    *)
(* this: they keep the counter they were cached with.)                     *)
PsiCcContiguous ==
    pc # "idle" /\ StampsPsi(psi, held) /\ lastPsi[held.pid] # NoCc
        => held.cc = Plus1(lastPsi[held.pid])

(* With --smooth-video-cc the video packets that carry payload leave with  *)
(* consecutive counters, whatever was lost, repeated or nulled before.     *)
VideoCcContiguous ==
    pc # "idle" /\ StampsVideo(psi, held) /\ lastVideo[held.pid] # NoCc
        => held.cc = Plus1(lastVideo[held.pid])

(* The engine invents nothing: a packet it writes is one it received since *)
(* the last reset or a null packet, and only clean mode may give it        *)
(* another counter.  Passthrough writes nothing but what it received.      *)
WrittenWasReceived ==
    pc # "idle" =>
        /\ config.passthrough => NextWrite \in seen
        /\ ~Cleaning => NextWrite \in seen \cup {NullPacket}
        /\ \E p \in seen \cup {NullPacket} : NextWrite = [p EXCEPT !.cc = NextWrite.cc]

(* README.md:177: "`--clean-ts` also filters unknown PIDs after PMT lock".   *)
(* The PMT that is reinjected passes no filter: it may be the one cached   *)
(* before the PAT moved the PMT to another PID.                            *)
InjectedPmtPassesFilter ==
    Cleaning /\ HasPmt(psi) /\ pc = "pmt" => PidAllowed(psi, psi.pmt.pid)

(* The elementary streams of a PMT are not on a PID that carries SI or     *)
(* null packets: the multiplexes the two counter properties are about.     *)
SiPids == {PatPid, SdtPid, NullPid} \cup
          {p.section.pmt : p \in {q \in Inputs : q.section.table = "pat"}}
MuxWellFormed ==
    \A p \in Inputs : p.section.table = "pmt" => p.section.video \cap SiPids = {}
=============================================================================
