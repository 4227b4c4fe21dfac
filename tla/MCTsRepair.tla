---------------------------- MODULE MCTsRepair ----------------------------
(* TsRepair on small multiplexes: two PMT PIDs, one video PID, one other.  *)
EXTENDS TsRepair

VideoPid == 200
OtherPid == 300
MCPids == {PatPid, SdtPid, 100, 101, VideoPid, OtherPid, NullPid}

Good(pid, cc, section) == [valid |-> TRUE, pid |-> pid, tei |-> FALSE, payload |-> TRUE,
                           cc |-> cc, section |-> section]
Damaged(p) == [p EXCEPT !.section = NoSection]
Flagged(p) == [p EXCEPT !.tei = TRUE]

PatFor(pid) == [NoSection EXCEPT !.table = "pat", !.pmt = pid]
Pmt(video, audio) == [NoSection EXCEPT !.table = "pmt", !.fits = TRUE, !.pcr = VideoPid,
                                       !.video = video, !.audio = audio]
Sdt == [NoSection EXCEPT !.table = "sdt", !.fits = TRUE]

Pat1    == Good(PatPid, 1, PatFor(100))
Pat2    == Good(PatPid, 2, PatFor(101))
Pmt1    == Good(100, 2, Pmt({VideoPid}, {OtherPid}))
Pmt2    == Good(101, 1, Pmt({}, {}))
Sdt1    == Good(SdtPid, 1, Sdt)
Unfit   == Good(100, 0, [Pmt({OtherPid}, {}) EXCEPT !.fits = FALSE])
Video0  == Good(VideoPid, 0, NoSection)
Video2  == Good(VideoPid, 2, NoSection)
Filler  == [Video2 EXCEPT !.payload = FALSE]
Other   == Good(OtherPid, 1, NoSection)
Garbage == [Other EXCEPT !.valid = FALSE]

(* Everything that can happen to a table and to the packets around it:     *)
(* damage, flags, losses, and a PMT PID that moves.                        *)
AllInputs == {Pat1, Pat2, Pmt1, Pmt2, Sdt1, Unfit, Video0, Video2, Filler, Other, Garbage,
              Damaged(Pmt1), Flagged(Pat1), Flagged(Pmt1), Flagged(Video2)}
LockInputs == {Pat1, Pat2, Pmt1, Video2}

Plain == [passthrough |-> FALSE, sanitize |-> FALSE, clean |-> FALSE, dropAudio |-> FALSE,
          smoothCc |-> FALSE, inject |-> TRUE, dryRun |-> FALSE]
Sanitize == [Plain EXCEPT !.sanitize = TRUE]
Clean    == [Plain EXCEPT !.clean = TRUE, !.dropAudio = TRUE]
Smooth   == [Clean EXCEPT !.smoothCc = TRUE, !.inject = FALSE, !.dropAudio = FALSE]
Bypass   == [Sanitize EXCEPT !.passthrough = TRUE, !.clean = TRUE]

AllConfigs  == {Plain, Sanitize, Clean, [Sanitize EXCEPT !.dryRun = TRUE], Bypass,
                Smooth}
LockConfigs == {Clean}

ASSUME MCMuxAssumption == MuxWellFormed
=============================================================================
