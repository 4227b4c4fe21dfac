----------------------------- MODULE BestImage -----------------------------
(***************************************************************************)
(* What the image callback of src/recovery.h promises an application: the  *)
(* pictures it is shown of one video stream get better and better, and     *)
(* only a change of stream starts over.                                    *)
(***************************************************************************)
EXTENDS Integers

CONSTANTS
    Sources,     \* the video streams, and the absence of one
    Nothing      \* no picture of this stream has been shown

VARIABLES
    source,      \* the stream being recovered
    shown        \* the score of the last picture shown

vars == <<source, shown>>

Init == source \in Sources /\ shown = Nothing

Show ==
    /\ UNCHANGED source
    /\ shown # Nothing => shown' > shown

StartOver == source' \in Sources /\ shown' = Nothing

Next == StartOver \/ Show

Spec == Init /\ [][Next]_vars
=============================================================================
