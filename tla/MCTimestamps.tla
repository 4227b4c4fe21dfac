---------------------------- MODULE MCTimestamps ----------------------------
(* A clock of 8 ticks that soon wraps and a jump of 2.  Stamps are         *)
(* expected one tick apart, of senders that keep them that far or further  *)
(* apart, and of one that is away for longer than the jump.                *)
EXTENDS Timestamps

Frames      == {1, 2}
Outages     == {1, 4}
Reorders    == {0, 1}
NearWrap    == {6}
=============================================================================
