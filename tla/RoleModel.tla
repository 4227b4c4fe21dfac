----------------------------- MODULE RoleModel -----------------------------
(***************************************************************************)
(* The role model, src/ml_model.c: for each PID, weights of the roles it   *)
(* may have, and the hashes of its last packets and payloads, by which     *)
(* repetitions are counted.  The weights are floating point numbers of     *)
(* which only this matters here: zero, at most 0.1, more.  Five roles are  *)
(* one, the strongest of them; the NULL role has a weight of its own.      *)
(***************************************************************************)
EXTENDS ObservedPackets

CONSTANTS
    LongWindow,  \* ML_REPEAT_HISTORY_CONTEST, 64
    ShortWindow, \* ML_REPEAT_HISTORY_NORMAL, 16
    LongPayload  \* payloads of this size and more are compared, 16

ASSUME WindowAssumption == ShortWindow \in Nat \ {0} /\ LongWindow \in Nat /\ ShortWindow <= LongWindow

VARIABLES
    weight,      \* the weight of each PID's roles
    counted,     \* the PIDs with packets # 0
    window,      \* repeat_window
    hashes,      \* packet_hashes and payload_hashes
    pos,         \* packet_hash_pos and payload_hash_pos
    repeated,    \* repeated_packets and repeated_payloads
    (* history, read by the properties only *)
    hashed       \* the hashes of each PID since the reset

roleModel == <<weight, counted, window, hashes, pos, repeated, hashed>>

Roles == {"known", "null"}
None == 0
Faint == 1                             \* at most 0.1
Strong == 2
NoWeights == [r \in Roles |-> None]
NoneKnown == [p \in Pids |-> NoWeights]

Each(value) == [p \in Pids |-> [k \in Kinds |-> value]]
-----------------------------------------------------------------------------
NoHashes == Each([i \in 0 .. LongWindow - 1 |-> 0])
RepeatWindow(contest) == IF contest THEN LongWindow ELSE ShortWindow

RoleInit(contest) ==
    /\ weight = NoneKnown /\ counted = {} /\ window = RepeatWindow(contest)
    /\ hashes = NoHashes /\ pos = Each(0) /\ repeated = Each(0) /\ hashed = Each(<<>>)

(* ml_model_init, of a model in use, and the weights that it starts with.  *)
RoleReset(contest, weights) ==
    /\ weight' = weights /\ counted' = {} /\ window' = RepeatWindow(contest)
    /\ hashes' = NoHashes /\ pos' = Each(0) /\ repeated' = Each(0) /\ hashed' = Each(<<>>)

(* remember_hash: hash 0, which marks a free place, is stored as 1.        *)
Stored(h) == IF h = 0 THEN 1 ELSE h
Repeats(p, k, h) == h # 0 /\ \E i \in 0 .. window - 1 : hashes[p][k][i] = h

(* What is compared of a packet: all of it, and its payload if it is long. *)
Compared(packet) == {"packet"} \cup (IF packet.size >= LongPayload THEN {"payload"} ELSE {})

NextPos_Mutant(p, k) == (pos[p][k] + 1) % LongWindow
NextPos(p, k) == (pos[p][k] + 1) % window

Remember(packet) ==
    LET p == packet.pid
        of(k) == packet.hash[k]
        changed(old, new(_)) == [old EXCEPT ![p] =
                                    [k \in Kinds |-> IF k \in Compared(packet) THEN new(k) ELSE @[k]]]
    IN /\ hashes' = changed(hashes, LAMBDA k : [hashes[p][k] EXCEPT ![pos[p][k]] = Stored(of(k))])
       /\ pos' = changed(pos, LAMBDA k : NextPos(p, k))
       /\ repeated' = changed(repeated, LAMBDA k : repeated[p][k] + IF Repeats(p, k, of(k)) THEN 1 ELSE 0)
       /\ hashed' = changed(hashed, LAMBDA k : Append(hashed[p][k], of(k)))

(* add_role: one of the weights is raised by less than 0.1, the others     *)
(* decay, and never to zero.                                               *)
AddRole(old, raised) ==
    IF raised THEN (IF old = None THEN {Faint} ELSE {Faint, Strong})
    ELSE IF old = Strong THEN {Faint, Strong} ELSE {old}

(* The roles a packet may speak for: null packets for the NULL role, and,  *)
(* whatever the PID, one of the others according to the tables and the     *)
(* PCR.                                                                    *)
Spoken(p) == IF p = NullPid THEN {{"null"}, Roles} ELSE {{}, {"known"}}

(* ml_model_observe *)
ObserveRoles(packet) ==
    LET p == packet.pid
    IN /\ Remember(packet)
       /\ counted' = counted \cup {p}
       /\ \E spoken \in Spoken(p) :
             \E new \in [Roles -> None .. Strong] :
                /\ \A r \in Roles : new[r] \in IF spoken = {} THEN {weight[p][r]}
                                               ELSE AddRole(weight[p][r], r \in spoken)
                /\ weight' = [weight EXCEPT ![p] = new]
       /\ UNCHANGED window
-----------------------------------------------------------------------------
(* A packet, or a payload, counts as repeated exactly when one of the last *)
(* repeat_window ones of its PID had the same hash, also after the ring of *)
(* hashes has wrapped and while it is not full (ml_model.c:79-92).  The    *)
(* rule is stated for PIDs that have not had the hash 0, because it fails  *)
(* with it: stored as 1, it never counts as repeated itself, and a hash 1  *)
(* that follows it does (ml_model.c:82, 89).                               *)
RepeatsSeen ==
    \A p \in Pids, k \in Kinds :
        LET h == hashed[p][k]
            repeats(i) == \E j \in i - window .. i - 1 : j > 0 /\ h[j] = h[i]
        IN (\A i \in DOMAIN h : h[i] # 0)
           => repeated[p][k] = Cardinality({i \in DOMAIN h : repeats(i)})
=============================================================================
