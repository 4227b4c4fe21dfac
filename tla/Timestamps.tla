----------------------------- MODULE Timestamps -----------------------------
(***************************************************************************)
(* --smooth-timestamps: clean_ts_smooth_timestamps of src/scatterfix.c.    *)
(* The PTS and the PCR of the video stream are compared, each with a clock *)
(* of its own, to the value expected next.  A stamp that is too far from   *)
(* it is replaced by it.  A DTS follows its PTS.  The expected value is    *)
(* never masked to 33 bits, only what is compared and written is.          *)
(*                                                                         *)
(* The sender stamps packets with a clock that advances by at least one    *)
(* frame.  The channel loses packets, and damages stamps.                  *)
(***************************************************************************)
EXTENDS Integers

CONSTANTS
    Wrap,        \* 2^33 in the code
    Tick,        \* frame_ticks and pcr_ticks, 3600
    MaxJump,     \* max_jump, 90000
    Starts,      \* where the sender's clocks may start
    Steps,       \* what the sender's clock may advance by between two packets
    Reorder,     \* by how much a DTS may precede its PTS
    MaxPackets   \* bound: packets with a stamp in a behaviour

ASSUME WrapAssumption == Wrap \in Nat \ {0} /\ Wrap % 2 = 0
ASSUME TickAssumption == Tick \in Nat \ {0} /\ MaxJump \in Nat /\ Tick + MaxJump < Wrap \div 2
ASSUME SenderAssumption == Starts \subseteq 0 .. Wrap - 1 /\ Steps \subseteq Nat
                           /\ Reorder \subseteq 0 .. MaxJump
ASSUME MaxPacketsAssumption == MaxPackets \in Nat

VARIABLES
    wild,        \* stamps are damaged, and the sender is away, by any amount
    clock,       \* valid and next of the PTS and of the PCR
    truth,       \* the sender's clocks, masked
    packets,
    (* history, read by the properties only *)
    out,         \* the last stamp that left, NoStamp before the first
    run,         \* undamaged packets in a row, each one frame after the other
    sound,       \* the clocks that were started by an undamaged stamp
    last         \* the last packet, and whether its stamps left as they came

vars == <<wild, clock, truth, packets, out, run, sound, last>>

Clocks == {"pts", "pcr"}
Stamp == 0 .. Wrap - 1
NoStamp == -1
Mask(n) == n % Wrap

(* pts_delta: the distance the shorter way round, half a turn being ahead. *)
Delta_Mutant(newer, older) == newer - Mask(older)     \* no way round
Delta(newer, older) == LET d == Mask(newer - older)
                       IN IF d > Wrap \div 2 THEN d - Wrap ELSE d
Far(a, b) == Delta(a, b) < -MaxJump \/ Delta(a, b) > MaxJump

Outlier_Mutant(c, stamp) ==            \* what is late passes
    clock[c].valid /\ Delta(stamp, clock[c].next) > MaxJump
Outlier(c, stamp) ==
    /\ clock[c].valid
    /\ Delta(stamp, clock[c].next) < 0 \/ Delta(stamp, clock[c].next) > MaxJump

Smoothed(c, stamp) == IF Outlier(c, stamp) THEN clock[c].next ELSE stamp

(* The next value is counted from what leaves, not from what came.         *)
Advanced_Mutant(c, stamp) == [valid |-> TRUE, next |-> stamp + Tick]
Advanced(c, stamp) == [valid |-> TRUE, next |-> Smoothed(c, stamp) + Tick]

(* The DTS of a packet whose PTS was replaced, or that is far from it.     *)
SmoothedDts(stamp, dts) ==
    IF Outlier("pts", stamp) \/ Far(dts, Smoothed("pts", stamp))
    THEN Smoothed("pts", stamp) ELSE dts
-----------------------------------------------------------------------------
NoClock == [valid |-> FALSE, next |-> 0]
Nothing == [damaged |-> FALSE, sound |-> FALSE, run |-> 0, kept |-> TRUE, keptDts |-> TRUE]
NoRun == [c \in Clocks |-> 0]

Init ==
    /\ wild \in BOOLEAN
    /\ clock = [c \in Clocks |-> NoClock]
    /\ truth \in [Clocks -> Starts]
    /\ packets = 0
    /\ out = [c \in Clocks |-> NoStamp]
    /\ run = NoRun /\ sound = {} /\ last = Nothing

(* A packet with a stamp; a PCR has no DTS, and a PES without one is as if *)
(* it had one equal to its PTS.                                            *)
Smooth(c, stamp, dts, damaged) ==
    /\ packets < MaxPackets
    /\ packets' = packets + 1
    /\ UNCHANGED wild
    /\ clock' = [clock EXCEPT ![c] = Advanced(c, stamp)]
    /\ out' = [out EXCEPT ![c] = Mask(Smoothed(c, stamp))]
    /\ sound' = IF clock[c].valid \/ damaged THEN sound ELSE sound \cup {c}
    /\ last' = [damaged |-> damaged, sound |-> c \in sound', run |-> run'[c],
                kept |-> Mask(Smoothed(c, stamp)) = stamp,
                keptDts |-> c = "pts" => Mask(SmoothedDts(stamp, dts)) = dts]

(* An outage of the sender's clock that a smoother which expects the right *)
(* stamps can follow.                                                      *)
InReach(c, now) == wild \/ c \notin sound \/ Delta(now, clock[c].next) <= MaxJump

Good(c, step, early) ==
    LET now == Mask(truth[c] + step)
    IN /\ InReach(c, now)
       /\ truth' = [truth EXCEPT ![c] = now]
       /\ run' = [run EXCEPT ![c] = IF step = Tick THEN @ + 1 ELSE 0]
       /\ Smooth(c, now, Mask(now - early), FALSE)

(* The stamp of a packet is damaged, into something far from the expected, *)
(* or, if it is the first, from what it was.                               *)
Damaged(c, step, stamp) ==
    LET now == Mask(truth[c] + step)
    IN /\ InReach(c, now)
       /\ wild \/ Far(stamp, IF clock[c].valid THEN clock[c].next ELSE now)
       /\ truth' = [truth EXCEPT ![c] = now]
       /\ run' = [run EXCEPT ![c] = 0]
       /\ Smooth(c, stamp, now, TRUE)

(* A packet is lost, or has no stamp, and the sender's clock goes on.      *)
Missing(c, step) ==
    /\ InReach(c, Mask(truth[c] + step))
    /\ clock[c].valid
    /\ truth' = [truth EXCEPT ![c] = Mask(@ + step)]
    /\ run' = [run EXCEPT ![c] = 0]
    /\ UNCHANGED <<wild, clock, packets, out, sound, last>>

(* scatterfix_reset *)
Reset ==
    /\ clock' = [c \in Clocks |-> NoClock]
    /\ out' = [c \in Clocks |-> NoStamp]
    /\ run' = NoRun /\ sound' = {} /\ last' = Nothing
    /\ UNCHANGED <<wild, truth, packets>>

Next ==
    \/ \E c \in Clocks, step \in Steps, early \in Reorder : Good(c, step, early)
    \/ \E c \in Clocks, step \in Steps, stamp \in Stamp : Damaged(c, step, stamp)
    \/ \E c \in Clocks, step \in Steps : Missing(c, step)
    \/ Reset

Spec == Init /\ [][Next]_vars
-----------------------------------------------------------------------------
(* Whatever arrives, the stamps that leave run forward, each by a frame at *)
(* least and by a frame and max_jump at most, also where they wrap.        *)
RunsForward ==
    [][\A c \in Clocks :
         out[c] # NoStamp /\ clock[c] # clock'[c] /\ clock'[c].valid
            => Delta(out'[c], out[c]) \in Tick .. Tick + MaxJump]_vars

(* Large damage heals (not wild): after and between damaged stamps an      *)
(* undamaged one leaves as it came, with its DTS, if the sender's clock    *)
(* advances by frames - provided that the first stamp since the start or   *)
(* the reset was undamaged, for that one sets the clock (scatterfix.c:209, *)
(* 248).                                                                   *)
Healed ==
    ~wild /\ last.sound /\ ~last.damaged
        => last.kept /\ last.keptDts

(* main.c:95: "--smooth-timestamps  In clean TS mode, repair large video   *)
(* PTS/PCR outliers".  A stamp is no outlier that follows two undamaged    *)
(* ones, frame by frame, even after an outage.                             *)
SteadyStampsPass == last.sound /\ last.run > 2 => last.kept
=============================================================================
