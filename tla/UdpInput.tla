------------------------------ MODULE UdpInput ------------------------------
(***************************************************************************)
(* The framer of TsFraming and its two callers.  A host that embeds the    *)
(* library feeds, finishes and resets it as it likes.  tsscatterfix with   *)
(* --udp-input (live) fills a buffer of one packet from datagrams of any   *)
(* size, with ts_input_read of src/io.c, and feeds that.  It looks for the *)
(* R key while it waits, after each datagram and before each feed, so that *)
(* a reset comes between two datagrams of a packet, too.                   *)
(*                                                                         *)
(* The network loses, repeats and reorders datagrams: the next one to      *)
(* arrive may be any.                                                      *)
(***************************************************************************)
EXTENDS TsFraming

CONSTANTS
    MaxDatagram,   \* bound: bytes in a datagram
    MaxReceived    \* bound: bytes received in a behaviour

ASSUME DatagramAssumption == MaxDatagram \in Nat /\ MaxReceived \in 0 .. MaxBytes

VARIABLES
    live,        \* the caller is main.c
    whole,       \* its sender puts whole packets into datagrams
    at,          \* where main.c is
    udp,         \* udp_buf from udp_pos to udp_len
    raw,         \* the bytes read so far
    (* history, read by the properties only *)
    arrived,     \* the bytes of all datagrams received
    consumed     \* the bytes passed to feed

buffers == <<udp, raw, arrived, consumed>>
caller == <<live, whole, at, buffers>>
udpVars == <<vars, caller>>

Places == {"input", "raw", "key", "fed", "ended", "exited"}

(* sizeof(raw)                                                             *)
RawSize_Mutant == PacketSize - 1
RawSize == PacketSize

WholePackets(d) ==
    /\ Len(d) % PacketSize = 0
    /\ \A i \in DOMAIN d : i % PacketSize = 1 => d[i] = Sync

Datagrams == LET any == UNION {[1 .. n -> Byte] : n \in 1 .. MaxDatagram}
             IN IF whole THEN {d \in any : WholePackets(d)} ELSE any
-----------------------------------------------------------------------------
UdpInit ==
    /\ Init
    /\ live \in BOOLEAN /\ whole \in BOOLEAN /\ (whole => live)
    /\ at = "input"
    /\ udp = <<>> /\ raw = <<>> /\ arrived = <<>> /\ consumed = <<>>

Host == ~live /\ Next /\ UNCHANGED caller

(* reset_key_pressed and handle_reset_key.                                 *)
ResetKey(pressed) == IF pressed THEN Reset ELSE UNCHANGED vars

Goes(from, to) ==
    /\ live /\ at = from /\ at' = to
    /\ UNCHANGED <<live, whole>>

Stays(place) == Goes(place, place)

(* What is left of the last datagram is copied, as far as there is room.   *)
Taken == LeastOf(Len(udp), RawSize - Len(raw))

Take_Mutant ==                         \* waits until a read is filled at once
    /\ udp # <<>> /\ Len(udp) >= RawSize - Len(raw)
    /\ raw' = raw \o SubSeq(udp, 1, Taken)
    /\ udp' = SubSeq(udp, Taken + 1, Len(udp))
    /\ Goes("input", IF Len(raw') = RawSize THEN "raw" ELSE "input")
    /\ UNCHANGED <<vars, arrived, consumed>>

Take ==
    /\ udp # <<>>
    /\ raw' = raw \o SubSeq(udp, 1, Taken)
    /\ udp' = SubSeq(udp, Taken + 1, Len(udp))
    /\ Goes("input", IF Len(raw') = RawSize THEN "raw" ELSE "input")
    /\ UNCHANGED <<vars, arrived, consumed>>

(* select times out after 100 ms; the key is polled, and select goes on.   *)
Idle ==
    /\ Stays("input") /\ udp = <<>>
    /\ ResetKey(TRUE)
    /\ UNCHANGED buffers

(* A datagram; the key is polled before its bytes count as received.       *)
Receive(d, pressed) ==
    /\ Stays("input") /\ udp = <<>>
    /\ Len(arrived) + Len(d) <= MaxReceived
    /\ ResetKey(pressed)
    /\ udp' = d /\ arrived' = arrived \o d
    /\ UNCHANGED <<raw, consumed>>

ReadNothing_Mutant ==                  \* what was read before is forgotten
    /\ udp = <<>>
    /\ Goes("input", IF raw = <<>> THEN "ended" ELSE "raw")
    /\ raw' = <<>>
    /\ UNCHANGED <<vars, udp, arrived, consumed>>

(* An empty datagram, or an error of select or recv: what there is, is     *)
(* returned.  To main.c no byte at all is the end of the input.            *)
ReadNothing ==
    /\ udp = <<>>
    /\ Goes("input", IF raw = <<>> THEN "ended" ELSE "raw")
    /\ UNCHANGED <<vars, buffers>>

PollKey(pressed) ==
    /\ Goes("raw", "key")
    /\ ResetKey(pressed)
    /\ UNCHANGED buffers

FeedRaw ==
    /\ Goes("key", "fed")
    /\ Feed(raw)
    /\ raw' = <<>> /\ consumed' = consumed \o raw
    /\ UNCHANGED <<udp, arrived>>

(* scatterfix_feed works; it returns, and a failure ends the loop.         *)
FeedWorks == Stays("fed") /\ Returns /\ UNCHANGED buffers

FeedReturned ==
    /\ input = <<>>
    /\ Goes("fed", IF failed THEN "ended" ELSE "input")
    /\ UNCHANGED <<vars, buffers>>

(* With --max-packets the loop also ends after so many packets, any        *)
(* number, wherever the datagram stands.                                   *)
LimitReached ==
    /\ input = <<>> /\ ~failed /\ read > 0
    /\ Goes("fed", "ended")
    /\ UNCHANGED <<vars, buffers>>

(* The last scatterfix_finish.                                             *)
Exit ==
    /\ Goes("ended", "exited")
    /\ IF pending # <<>> /\ ~failed THEN Finish ELSE UNCHANGED vars
    /\ UNCHANGED buffers

Exited == Stays("exited") /\ UNCHANGED <<vars, buffers>>

(* What the program does without waiting for anything.                     *)
Proceeds ==
    \/ Take \/ FeedRaw \/ FeedWorks \/ FeedReturned \/ LimitReached \/ Exit
    \/ \E pressed \in BOOLEAN : PollKey(pressed)

UdpNext ==
    \/ Host
    \/ Idle \/ ReadNothing \/ Exited
    \/ \E d \in Datagrams, pressed \in BOOLEAN : Receive(d, pressed)
    \/ Proceeds

(* No datagram need ever arrive, and no key be pressed.                    *)
UdpSpec == UdpInit /\ [][UdpNext]_udpVars
           /\ WF_udpVars(Proceeds) /\ WF_udpVars(~live /\ Returns /\ UNCHANGED caller)
-----------------------------------------------------------------------------
(* However datagrams and packets overlap, and wherever a read ends early   *)
(* or the key is pressed: the engine is fed the bytes received, in order,  *)
(* none twice and none left out (ts_input_read).                           *)
DatagramsInOrder == live => consumed \o raw \o udp = arrived

(* From a sender that puts whole packets into its datagrams every packet   *)
(* gets through, whichever datagrams the network delivers: neither losses, *)
(* nor empty datagrams, nor a reset make the engine cut a packet short or  *)
(* look for a sync byte inside one.                                        *)
WholePacketsSurvive ==
    whole => lost = 0 /\ bytesDropped = 0 /\ packetsDropped = 0

(* The program keeps up: it always comes back to wait for a datagram, with *)
(* all that arrived fed but for an incomplete packet, unless it ends.      *)
KeepsUp ==
    udp # <<>> \/ at # "input" ~> (at = "input" /\ udp = <<>>) \/ at = "exited"
=============================================================================
