-------------------------- MODULE ObservedPackets --------------------------
(* What the observers of the repair engine look at in a packet             *)
(* (TsPacket of src/ts_packet.h): its PID, the size of its payload, and    *)
(* the hashes of all its bytes and of its payload.                         *)
EXTENDS Integers, Sequences, FiniteSets

CONSTANTS
    PidCount,    \* TS_PID_COUNT, 8192
    Pids,        \* the PIDs of the stream
    NullPid,     \* TS_NULL_PID
    Hashes       \* the values of a hash, of 32 bits

ASSUME PidsAssumption == PidCount \in Nat /\ Pids \subseteq 0 .. PidCount - 1
ASSUME HashesAssumption == Hashes \subseteq Nat

Kinds == {"packet", "payload"}
Packet == [pid : Pids, size : Nat, hash : [Kinds -> Hashes]]
=============================================================================
