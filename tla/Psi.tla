-------------------------------- MODULE Psi --------------------------------
(***************************************************************************)
(* The metadata the repair engine learns from PAT, PMT and SDT packets     *)
(* (src/psi.c): which PID carries the PMT, which PIDs the PMT announces,    *)
(* and one cached packet per table.  There are no variables here: the      *)
(* context is a record, and psi_observe_packet is an operator that maps    *)
(* the context and one parsed packet to the next context.                  *)
(*                                                                         *)
(* A packet is what the engine can tell apart of its 188 bytes: whether    *)
(* the header parses, the PID, the transport_error bit, whether it has a   *)
(* payload, the continuity counter, and the section found in the payload.  *)
(* "none" stands for every payload psi_packet_has_valid_section refuses:   *)
(* no section, a section cut by the packet's end, a CRC mismatch.          *)
(***************************************************************************)
EXTENDS Integers

CONSTANTS
    Pids,      \* the PIDs that occur, a subset of 0 .. 8191
    CcMod,     \* the continuity counter counts modulo CcMod (16 in the code)
    NoPacket   \* what an empty cache slot holds

PatPid  == 0
SdtPid  == 17
NullPid == 8191

ASSUME PidsAssumption == Pids \subseteq 0 .. 8191 /\ {PatPid, SdtPid, NullPid} \subseteq Pids
ASSUME CcModAssumption == CcMod \in Nat \ {0, 1}

Cc == 0 .. CcMod - 1

(* "fits" says that the lengths inside a CRC-correct section are           *)
(* consistent: program_info inside a PMT, descriptors inside an SDT.  A    *)
(* PAT whose first programme is missing, or is on the null PID, has        *)
(* pmt = NullPid.                                                          *)
Section == [table : {"none", "pat", "pmt", "sdt"}, fits : BOOLEAN, pmt : Pids,
            pcr : Pids, video : SUBSET Pids, audio : SUBSET Pids]

NoSection == [table |-> "none", fits |-> FALSE, pmt |-> NullPid,
              pcr |-> NullPid, video |-> {}, audio |-> {}]

Packet == [valid : BOOLEAN, pid : Pids, tei : BOOLEAN, payload : BOOLEAN,
           cc : Cc, section : Section]

NullPacket == [valid |-> TRUE, pid |-> NullPid, tei |-> FALSE, payload |-> TRUE,
               cc |-> 0, section |-> NoSection]

ASSUME NoPacketAssumption == NoPacket \notin Packet

PsiContext == [pmtPid : Pids, pcr : Pids, video : SUBSET Pids, audio : SUBSET Pids,
               pat : Packet \cup {NoPacket}, pmt : Packet \cup {NoPacket},
               sdt : Packet \cup {NoPacket}]

(* has_pmt and has_cached_pmt are set together, in parse_pmt only.         *)
HasPmt(psi) == psi.pmt # NoPacket

PsiInit == [pmtPid |-> NullPid, pcr |-> NullPid, video |-> {}, audio |-> {},
            pat |-> NoPacket, pmt |-> NoPacket, sdt |-> NoPacket]

IsPmt(psi, pid) == psi.pmtPid # NullPid /\ pid = psi.pmtPid

KnownSi(psi, pid) == pid \in {PatPid, SdtPid} \/ IsPmt(psi, pid)

(* The table the PID is expected to carry; 0x0000 and 0x0011 are compared  *)
(* before the PMT PID.                                                     *)
TableOf(psi, pid) == IF pid = PatPid THEN "pat"
                     ELSE IF pid = SdtPid THEN "sdt"
                     ELSE IF IsPmt(psi, pid) THEN "pmt"
                     ELSE "other"

HasValidSection(psi, p) == p.payload /\ p.section.table = TableOf(psi, p.pid)

ParsePat(psi, p) ==
    IF p.section.pmt # NullPid
    THEN [psi EXCEPT !.pmtPid = p.section.pmt, !.pat = p]
    ELSE psi

ParsePmt(psi, p) ==
    IF p.section.fits
    THEN [psi EXCEPT !.pcr = p.section.pcr, !.video = p.section.video,
                     !.audio = p.section.audio, !.pmt = p]
    ELSE psi

ParseSdt(psi, p) == IF p.section.fits THEN [psi EXCEPT !.sdt = p] ELSE psi

(* psi_observe_packet: the section must be of the table its PID carries.   *)
PsiObserve(psi, p) ==
    IF ~HasValidSection(psi, p) THEN psi
    ELSE CASE p.section.table = "pat" -> ParsePat(psi, p)
           [] p.section.table = "pmt" -> ParsePmt(psi, p)
           [] p.section.table = "sdt" -> ParseSdt(psi, p)

(* The packet that stands in for a damaged one on pid.  An empty slot      *)
(* falls through to the next comparison, as in the code.                   *)
Replacement(psi, pid) ==
    IF pid = PatPid /\ psi.pat # NoPacket THEN psi.pat
    ELSE IF IsPmt(psi, pid) /\ psi.pmt # NoPacket THEN psi.pmt
    ELSE IF pid = SdtPid /\ psi.sdt # NoPacket THEN psi.sdt
    ELSE NoPacket
=============================================================================
