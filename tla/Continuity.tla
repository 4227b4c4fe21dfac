----------------------------- MODULE Continuity -----------------------------
(***************************************************************************)
(* The two trackers that judge one PID by its 4-bit continuity counter:    *)
(* continuity_observe (src/continuity.c), whose counts the statistics      *)
(* print, and the one inside packet() of src/recovery.c, whose counts      *)
(* weigh a candidate picture.  Both watch the same packets, sent with      *)
(* consecutive counters over a channel that may lose a burst, repeat a     *)
(* packet, deliver the packets of a burst late, or carry packets without   *)
(* payload and packets that announce a new counter base.  A new base that  *)
(* is announced without payload is seen by continuity.c only.              *)
(***************************************************************************)
EXTENDS Integers

CONSTANTS
    Events,      \* what the channel may do beside losing packets
    Bases,       \* bound: counters the sender starts at or announces
    MaxBurst,    \* bound: consecutive packets lost
    MaxPackets   \* bound: packets delivered in a behaviour

ASSUME EventsAssumption == Events \subseteq {"repeat", "late", "announce", "silent", "filler"}
ASSUME BasesAssumption == Bases \subseteq 0 .. 15
ASSUME BurstAssumption == MaxBurst \in 0 .. 15
ASSUME PacketsAssumption == MaxPackets \in Nat

Cc == 0 .. 15
Plus(cc, n) == (cc + n) % 16

VARIABLES
    next,        \* counter of the next packet with payload the sender sends
    gone,        \* packets lost since the last one delivered
    overtaken,   \* counters of the last burst, which may still arrive
    stats,       \* continuity.c: seen, last_cc and the counts of Stats
    feats,       \* recovery.c: last_cc and the counts of SfFeatures
    (* history, read by the properties only *)
    delivered, lost, bursts, longest, repeats, lates, silents

vars == <<next, gone, overtaken, stats, feats, delivered, lost, bursts, longest,
          repeats, lates, silents>>

Stats == [seen : BOOLEAN, last : Cc, missing : Nat, duplicates : Nat,
          outOfOrder : Nat, errors : Nat]
Features == [last : Cc \cup {-1}, missing : Nat, outOfOrder : Nat, errors : Nat]
-----------------------------------------------------------------------------
(* continuity_observe on a packet with counter cc, payload or not, with or *)
(* without the discontinuity_indicator.                                    *)
Ignored_Mutant(s, payload, announce) == FALSE    \* no payload is no excuse
Ignored(s, payload, announce) == ~announce /\ ~payload
NewBase(s, payload, announce) == announce \/ (payload /\ ~s.seen)

Delta(s, cc) == Plus(cc, -Plus(s.last, 1))

Counted(delta) == delta + 1          \* "missing" of one gap
IsGap(delta) == delta < 8

Repeated_Mutant(s) == [s EXCEPT !.duplicates = @ + 1]   \* not an error
Repeated(s) == [s EXCEPT !.duplicates = @ + 1, !.errors = @ + 1]

Based(s, cc) == [s EXCEPT !.seen = TRUE, !.last = cc]
Follows(s, cc) == [s EXCEPT !.last = cc]
Gap(s, cc) == [s EXCEPT !.last = cc, !.errors = @ + 1, !.missing = @ + Counted(Delta(s, cc))]
Swapped(s, cc) == [s EXCEPT !.last = cc, !.errors = @ + 1, !.outOfOrder = @ + 1]

Judge(s, cc) == IF cc = Plus(s.last, 1) THEN Follows(s, cc)
                ELSE IF cc = s.last THEN Repeated(s)
                ELSE IF IsGap(Delta(s, cc)) THEN Gap(s, cc)
                ELSE Swapped(s, cc)

Observe(s, cc, payload, announce) ==
    IF Ignored(s, payload, announce) THEN s
    ELSE IF NewBase(s, payload, announce) THEN Based(s, cc)
    ELSE Judge(s, cc)

(* The tracker of recovery.c sees packets with payload only.               *)
Missed(f, cc, n) == [f EXCEPT !.last = cc, !.errors = @ + 1, !.missing = @ + n]
Again(f) == [f EXCEPT !.errors = @ + 1]

Weigh(f, cc) == LET delta == Plus(cc, -(f.last + 1))
                IN IF delta = 0 THEN Follows(f, cc)
                   ELSE IF delta <= 8 THEN Missed(f, cc, delta)
                   ELSE IF cc = f.last THEN Again(f)
                   ELSE Swapped(f, cc)

Evaluate_Mutant(f, cc, payload, announce) ==   \* the announcement is overlooked
    IF ~payload THEN f ELSE IF f.last < 0 THEN Follows(f, cc) ELSE Weigh(f, cc)

Evaluate(f, cc, payload, announce) ==
    IF ~payload THEN f
    ELSE IF announce \/ f.last < 0 THEN Follows(f, cc)
    ELSE Weigh(f, cc)
-----------------------------------------------------------------------------
Init ==
    /\ next \in Bases /\ gone = 0 /\ overtaken = {}
    /\ stats = [seen |-> FALSE, last |-> 0, missing |-> 0, duplicates |-> 0,
                outOfOrder |-> 0, errors |-> 0]
    /\ feats = [last |-> -1, missing |-> 0, outOfOrder |-> 0, errors |-> 0]
    /\ delivered = 0 /\ lost = 0 /\ bursts = 0 /\ longest = 0 /\ repeats = 0 /\ lates = 0
    /\ silents = 0

Arrives(cc, payload, announce) ==
    /\ delivered < MaxPackets
    /\ delivered' = delivered + 1
    /\ stats' = Observe(stats, cc, payload, announce)
    /\ feats' = Evaluate(feats, cc, payload, announce)

Lose ==
    /\ gone < MaxBurst
    /\ gone' = gone + 1
    /\ next' = Plus(next, 1)
    /\ UNCHANGED <<overtaken, stats, feats, delivered, lost, bursts, longest,
                   repeats, lates, silents>>

(* The next packet arrives; what was lost before the first is unknowable.  *)
Deliver ==
    /\ Arrives(next, TRUE, FALSE)
    /\ next' = Plus(next, 1)
    /\ gone' = 0
    /\ overtaken' = IF stats.seen THEN {Plus(next, -k) : k \in 1 .. gone} ELSE {}
    /\ lost' = IF stats.seen THEN lost + gone ELSE lost
    /\ bursts' = IF stats.seen /\ gone > 0 THEN bursts + 1 ELSE bursts
    /\ longest' = IF stats.seen /\ gone > longest THEN gone ELSE longest
    /\ UNCHANGED <<repeats, lates, silents>>

(* The last packet, which both trackers saw, arrives a second time.        *)
Repeat ==
    /\ "repeat" \in Events /\ feats.last = stats.last
    /\ Arrives(stats.last, TRUE, FALSE)
    /\ repeats' = repeats + 1
    /\ UNCHANGED <<next, gone, overtaken, lost, bursts, longest, lates, silents>>

(* A packet of the last burst arrives after the one that followed it.      *)
Late(cc) ==
    /\ "late" \in Events /\ cc \in overtaken /\ gone = 0
    /\ Arrives(cc, TRUE, FALSE)
    /\ overtaken' = overtaken \ {cc}
    /\ lost' = lost - 1
    /\ lates' = lates + 1
    /\ UNCHANGED <<next, gone, bursts, longest, repeats, silents>>

(* A packet without payload carries the counter of the one sent before.    *)
Filler ==
    /\ "filler" \in Events
    /\ Arrives(Plus(next, -1), FALSE, FALSE)
    /\ UNCHANGED <<next, gone, overtaken, lost, bursts, longest, repeats, lates, silents>>

(* The sender starts at a new counter and says so, in a packet with or     *)
(* without payload.                                                        *)
Jump(cc, payload) ==
    /\ Arrives(cc, payload, TRUE)
    /\ next' = Plus(cc, 1)
    /\ gone' = 0 /\ overtaken' = {}
    /\ UNCHANGED <<lost, bursts, longest, repeats, lates>>

Announce(cc) == "announce" \in Events /\ Jump(cc, TRUE) /\ UNCHANGED silents
AnnounceSilently(cc) == "silent" \in Events /\ Jump(cc, FALSE) /\ silents' = silents + 1

Next == Lose \/ Deliver \/ Repeat \/ Filler
        \/ (\E cc \in Cc : Late(cc))
        \/ (\E cc \in Bases : Announce(cc) \/ AnnounceSilently(cc))

Spec == Init /\ [][Next]_vars
-----------------------------------------------------------------------------
TypeOK ==
    /\ next \in Cc /\ gone \in 0 .. MaxBurst /\ overtaken \subseteq Cc
    /\ stats \in Stats /\ feats \in Features
    /\ delivered \in 0 .. MaxPackets /\ lost \in Int /\ bursts \in Nat
    /\ longest \in 0 .. MaxBurst /\ repeats \in Nat /\ lates \in Nat /\ silents \in Nat

(* What the code's "missing" means while no burst was longer than seven    *)
(* packets and none arrived late, whatever was repeated, left without      *)
(* payload or announced: the packets lost, and one more for every burst.   *)
(* Each burst and each repetition is one error, and nothing else is.       *)
LossesCounted ==
    lates = 0 /\ longest <= 7 =>
        /\ stats.missing = lost + bursts
        /\ stats.errors = bursts + repeats
        /\ stats.outOfOrder = 0

(* The tracker of recovery.c counts exactly the packets lost, up to bursts *)
(* of eight, if every jump is announced in a packet with payload.  One     *)
(* that is not costs the picture one error at most, however far it went.   *)
RecoveryExact ==
    /\ lates = 0 /\ silents = 0 /\ longest <= 8 =>
        /\ feats.missing = lost
        /\ feats.errors = bursts + repeats
        /\ feats.outOfOrder = 0
    /\ lates = 0 => feats.errors <= bursts + repeats + silents

(* A clean account means a clean stream: with no error counted, nothing    *)
(* was lost, repeated or overtaken, for every burst the counter can show;  *)
(* the statistics are not deceived by a jump announced without payload.    *)
(* What is lost directly before an announced jump nobody can see: it is    *)
(* not in this account.                                                    *)
CleanMeansClean ==
    stats.errors = 0 \/ (feats.errors = 0 /\ silents = 0) =>
        lost = 0 /\ repeats = 0 /\ lates = 0

(* continuity.c:61 logs "missing=<n> expected=<cc> got=<cc>", and the      *)
(* statistics print the sum as missing packets.                            *)
MissingIsLost == stats.missing = lost
=============================================================================
