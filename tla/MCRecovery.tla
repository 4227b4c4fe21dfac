----------------------------- MODULE MCRecovery -----------------------------
(* A stream of short units: parameter sets and key frames in any order,    *)
(* with continuations that make a unit larger or worse.                    *)
EXTENDS Recovery

P(start, nals, merit) == [start |-> start, nals |-> nals, merit |-> merit]

H264 == [pid |-> 256, codec |-> "h264"]
H265 == [pid |-> 256, codec |-> "h265"]
TwoStreams == {H264, H265}

Sets264 == {"sps", "pps"}

(* Units of one or two packets with a good and a damaged key frame.        *)
PicturePackets ==
    {P(TRUE, Sets264 \cup {"key"}, 2), P(TRUE, {"key"}, 1), P(FALSE, {"key"}, 1),
     P(FALSE, {"sps"}, 0)}

(* Parameter sets of both codecs.                                          *)
MixedPackets ==
    {P(TRUE, ParameterSets \cup {"key"}, 1), P(FALSE, {"key"}, -1)}

C(live, vote, allowance, source, names, kinds, limit) ==
    [live |-> live, decode |-> TRUE, vote |-> vote, allowance |-> allowance,
     codec |-> "auto", source |-> source, streams |-> names, brings |-> kinds,
     limit |-> limit]

(* One stream at length, live and not, and changes between two.            *)
Selected == {C(live, TRUE, 1, H264, {H264}, PicturePackets, 4) : live \in BOOLEAN}
            \cup {[C(TRUE, FALSE, 2, H264, {H264}, PicturePackets, 5) EXCEPT !.decode = FALSE]}
Switching == {C(TRUE, FALSE, 2, NoStream, TwoStreams, MixedPackets, 4),
              C(TRUE, TRUE, 2, H264, TwoStreams, MixedPackets, 4)}
             \cup {[C(TRUE, FALSE, 2, NoStream, TwoStreams, MixedPackets, 4)
                     EXCEPT !.codec = "h265"]}
AtOnce == {C(FALSE, FALSE, 1, H264, {H264}, PicturePackets, 3)}

(* Pictures of one packet, better and worse, in any order.                 *)
RankedPackets == {P(TRUE, Sets264 \cup {"key"}, merit) : merit \in 0 .. 2}
InAnyOrder == {C(live, FALSE, 2, H264, {H264}, RankedPackets, 4) : live \in BOOLEAN}
Together == Selected \cup Switching \cup InAnyOrder

AnyPackets == PicturePackets \cup MixedPackets \cup RankedPackets
=============================================================================
