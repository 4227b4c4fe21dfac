---------------------------- MODULE MCLiveOutput ----------------------------
(* Publication over UDP, with one input or two, until interrupted or only  *)
(* as long as --max-packets lasts; and to a file, and not at all.          *)
EXTENDS LiveOutput

C(output, limited, inputs) == [output |-> output, limited |-> limited, inputs |-> inputs]

AllConfigs == {C("udp", FALSE, 1), C("udp", TRUE, 2), C("file", FALSE, 2), C("none", FALSE, 1)}
=============================================================================
