---------------------------- MODULE MCObservers ----------------------------
(* A ring of two fragments and windows of two or three hashes; the PIDs    *)
(* are those of two streams and of the null packets.                       *)
EXTENDS Observers

CONSTANTS HeardInContest, HeardForRepeats, HeardForRoles

Same == {[k \in Kinds |-> h] : h \in Hashes}
SamePayload == [packet |-> 2, payload |-> 1]

(* An embedding host in contest mode; repetitions, in both modes; and      *)
(* tsscatterfix --ml-state.                                                *)
AllConfigs ==
    {[contest |-> TRUE, ml |-> FALSE, path |-> FALSE, limit |-> HeardInContest,
      pids |-> Pids, sizes |-> {0, 1, 2}, hashes |-> {SamePayload}],
     [contest |-> FALSE, ml |-> TRUE, path |-> TRUE, limit |-> HeardForRoles,
      pids |-> Pids, sizes |-> {1}, hashes |-> {SamePayload}]}
    \cup {[contest |-> c, ml |-> TRUE, path |-> FALSE, limit |-> HeardForRepeats,
           pids |-> {1}, sizes |-> {1, 2}, hashes |-> Same \cup {SamePayload}] : c \in BOOLEAN}
=============================================================================
