----------------------------- MODULE MCUdpInput -----------------------------
(* Packets of three bytes: a chunk or a datagram can hold less than one    *)
(* packet, parts of two, or more than one.                                 *)
EXTENDS UdpInput
=============================================================================
