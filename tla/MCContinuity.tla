---------------------------- MODULE MCContinuity ----------------------------
(* Two channels: one that does everything, and one that only loses.  The   *)
(* sender starts at a counter whose successors wrap after two packets, and *)
(* at one whose do not wrap within the bound unless a burst takes them     *)
(* there.                                                                  *)
EXTENDS Continuity

AllEvents == {"repeat", "late", "announce", "silent", "filler"}
LossOnly  == {}
TwoBases  == {0, 14}
=============================================================================
