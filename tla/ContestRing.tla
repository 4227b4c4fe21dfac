---------------------------- MODULE ContestRing ----------------------------
(***************************************************************************)
(* The memory of the contest mode, src/contest.c: the last fragments (the  *)
(* payloads of packets) in a ring, how many bytes they are, and how many   *)
(* fragments each PID had since the reset.  What a fragment contains and   *)
(* the counters of its kinds are left out; it is known by its number.      *)
(***************************************************************************)
EXTENDS ObservedPackets, FiniteSetsExt, SequencesExt

CONSTANTS
    Capacity,    \* CONTEST_FRAGMENT_CAPACITY, 4096
    Top          \* PIDs listed by print_hot_pids, 8

ASSUME CapacityAssumption == Capacity \in Nat \ {0} /\ Top \in Nat \ {0}

VARIABLES
    fragments,      \* the slots
    next_slot,
    seen,           \* fragments_seen
    stored,         \* fragments_stored
    bytes_stored,
    pid_count,      \* pid_fragment_count
    (* history, read by the properties only *)
    offered         \* the fragments since the reset

ring == <<fragments, next_slot, seen, stored, bytes_stored, pid_count, offered>>

Slots == 0 .. Capacity - 1
Fragment == [packet_index : Nat, pid : Nat, size : Nat]
Blank == [packet_index |-> 0, pid |-> 0, size |-> 0]
-----------------------------------------------------------------------------
NoFragments == [s \in Slots |-> Blank]
NoCounts == [p \in Pids |-> 0]

RingInit ==
    /\ fragments = NoFragments /\ next_slot = 0 /\ seen = 0 /\ stored = 0
    /\ bytes_stored = 0 /\ pid_count = NoCounts /\ offered = <<>>

(* contest_init, of a ring in use.                                         *)
RingReset ==
    /\ fragments' = NoFragments /\ next_slot' = 0 /\ seen' = 0 /\ stored' = 0
    /\ bytes_stored' = 0 /\ pid_count' = NoCounts /\ offered' = <<>>

(* The bytes of the fragment that is overwritten, if the ring is full.     *)
Overwritten_Mutant == 0
Overwritten == IF stored >= Capacity THEN fragments[next_slot].size ELSE 0

NextSlot_Mutant == (next_slot + 1) % (Capacity - 1)
NextSlot == (next_slot + 1) % Capacity

(* contest_observe_packet; a packet without payload is not stored.         *)
StoreFragment(f) ==
    IF f.size = 0 THEN UNCHANGED ring
    ELSE /\ fragments' = [fragments EXCEPT ![next_slot] = f]
         /\ next_slot' = NextSlot
         /\ seen' = seen + 1
         /\ stored' = IF stored >= Capacity THEN stored ELSE stored + 1
         /\ bytes_stored' = bytes_stored - Overwritten + f.size
         /\ pid_count' = [pid_count EXCEPT ![f.pid] = @ + 1]
         /\ offered' = Append(offered, f)

(* The PID goes behind the last one that has as many fragments as it.      *)
Place(top, p) == 1 + Max({0} \cup {i \in DOMAIN top : pid_count[top[i]] >= pid_count[p]})

Ranked_Mutant(top, p) ==               \* nothing falls off: a full list is closed
    IF Len(top) = Top THEN top ELSE InsertAt(top, Place(top, p), p)

(* One round of print_hot_pids: the last one falls off a full list.        *)
Ranked(top, p) == SubSeq(InsertAt(top, Place(top, p), p), 1, Min({Top, Len(top) + 1}))

(* The list after the PIDs below n.                                        *)
HotPids ==
    LET top[n \in 0 .. PidCount] ==
            IF n = 0 THEN <<>>
            ELSE IF n - 1 \notin Pids \/ pid_count[n - 1] = 0 THEN top[n - 1]
            ELSE Ranked(top[n - 1], n - 1)
    IN top[PidCount]
-----------------------------------------------------------------------------
(* The k-th youngest fragment in the ring.                                 *)
Youngest(k) == fragments[IF k <= next_slot THEN next_slot - k ELSE next_slot + Capacity - k]

(* The ring holds the last Capacity fragments since the reset, or as many  *)
(* as there were, in order, also after it has wrapped (contest.c:38-78).   *)
RingIsRecent ==
    /\ stored = IF Len(offered) < Capacity THEN Len(offered) ELSE Capacity
    /\ \A k \in 1 .. stored : Youngest(k) = offered[Len(offered) + 1 - k]

(* bytes_stored, kept by adding and subtracting, is the size of what the   *)
(* ring holds (contest.c:40, 68).                                          *)
BytesStored == bytes_stored = MapThenSumSet(LAMBDA s : fragments[s].size, Slots)

(* What print_hot_pids lists by insertion into a short list is right: PIDs *)
(* that had fragments, the most frequent first, and no other PID had more  *)
(* than any of them (contest.c:89-107).                                    *)
HottestListed ==
    LET had == {p \in Pids : \E i \in DOMAIN offered : offered[i].pid = p}
        n(p) == Cardinality({i \in DOMAIN offered : offered[i].pid = p})
        listed == {HotPids[i] : i \in DOMAIN HotPids}
    IN /\ listed \subseteq had
       /\ Len(HotPids) = Min({Top, Cardinality(had)}) /\ Cardinality(listed) = Len(HotPids)
       /\ \A i, j \in DOMAIN HotPids : i < j => n(HotPids[i]) >= n(HotPids[j])
       /\ \A p \in listed, q \in had \ listed : n(p) >= n(q)
=============================================================================
