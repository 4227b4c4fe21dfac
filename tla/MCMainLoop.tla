----------------------------- MODULE MCMainLoop -----------------------------
(* Files of no, two and four packets, read once or in a loop, to the end   *)
(* or up to a limit, with datagrams of three packets; and every combination *)
(* of files, sockets and terminal.                                         *)
EXTENDS MainLoop

C(size, loop, limit) == [size |-> size, loop |-> loop, limit |-> limit,
                         uses |-> {"sockets", "input", "output", "engine"}]

AllConfigs ==
    {C(0, TRUE, 0), C(4, FALSE, 0), C(2, TRUE, 0), C(2, TRUE, 5)}
    \cup {[C(0, FALSE, 0) EXCEPT !.uses = {"sockets", "engine"} \cup some] :
             some \in SUBSET {"input", "output", "status", "key"}}
=============================================================================
