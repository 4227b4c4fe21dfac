----------------------------- MODULE Observers -----------------------------
(***************************************************************************)
(* What the repair engine remembers of a reception beside what it repairs: *)
(* the contest ring and the role model, which see each packet in this      *)
(* order (process_packet of src/scatterfix.c), and the file in which       *)
(* tsscatterfix --ml-state keeps the weights between its runs.             *)
(*                                                                         *)
(* The program runs, ends and is started again.  It saves when its input   *)
(* ends; a signal ends it without.  Saving truncates the file and writes   *)
(* it line by line, so that a crash, or a full disk, leaves the beginning  *)
(* of it, and the last line may be cut anywhere.                           *)
(***************************************************************************)
EXTENDS ContestRing, RoleModel

CONSTANTS Configs

(* contest_mode, ml_enabled, whether there is a path for the state; the    *)
(* packets that may come, and a bound on their number in a run.            *)
Config == [contest : BOOLEAN, ml : BOOLEAN, path : BOOLEAN,
           pids : SUBSET Pids, sizes : SUBSET Nat, hashes : SUBSET [Kinds -> Hashes],
           limit : Nat]

ASSUME ConfigsAssumption == Configs \subseteq Config

VARIABLES
    config,
    at,          \* down, up, or saving
    packets_read,
    file,        \* the lines in the file; a file without lines is as good as none
    due,         \* the PIDs whose lines are still to be written
    (* history, read by the properties only *)
    meant,       \* the lines that were to be written last, each in full
    loaded,      \* the weights the run started with
    lasting      \* the run loaded the file, was not reset, and saved it whole

state == <<file, due, meant, loaded, lasting>>
vars == <<ring, roleModel, config, at, packets_read, state>>

(* A line of the file; one that is cut has not all its fields, and known   *)
(* and null are what is in the variables that it should be read into.      *)
Line == [pid : Pids, known : None .. Strong, null : None .. Strong, cut : BOOLEAN]
-----------------------------------------------------------------------------
Readable_Mutant == DOMAIN file         \* a line that is cut is read as well

(* ml_model_load reads up to the first line that has not all its fields.   *)
Readable == {i \in DOMAIN file : \A j \in 1 .. i : ~file[j].cut}
LineOf(p) == {i \in Readable : file[i].pid = p}

(* No PID has two lines.                                                   *)
Loaded ==
    [p \in Pids |->
        IF LineOf(p) = {} THEN NoWeights
        ELSE LET line == file[CHOOSE i \in LineOf(p) : TRUE]
             IN [known |-> line.known, null |-> line.null]]

Init ==
    /\ config \in Configs
    /\ at = "down" /\ packets_read = 0
    /\ RingInit /\ RoleInit(config.contest)
    /\ file = <<>> /\ due = {} /\ meant = <<>> /\ loaded = NoneKnown /\ lasting = FALSE

(* scatterfix_create and scatterfix_load_state, which may be unable to     *)
(* open the file.  The file is not read if the model is switched off.      *)
Start(opens) ==
    /\ at = "down" /\ at' = "up"
    /\ packets_read' = 0
    /\ LET initial == IF opens /\ config.ml /\ config.path THEN Loaded ELSE NoneKnown
       IN RingReset /\ RoleReset(config.contest, initial) /\ loaded' = initial
    /\ lasting' = opens
    /\ UNCHANGED <<config, file, due, meant>>

Packets == [pid : config.pids, size : config.sizes, hash : config.hashes]

(* The observers of process_packet.                                        *)
Hear(packet) ==
    /\ at = "up" /\ packets_read < config.limit
    /\ packets_read' = packets_read + 1
    /\ IF config.contest
       THEN StoreFragment([packet_index |-> packets_read', pid |-> packet.pid, size |-> packet.size])
       ELSE UNCHANGED ring
    /\ IF config.ml THEN ObserveRoles(packet) ELSE UNCHANGED roleModel
    /\ UNCHANGED <<config, at, state>>

(* scatterfix_reset, with the R key: what was loaded is forgotten, too.    *)
Reset ==
    /\ at = "up"
    /\ RingReset /\ RoleReset(config.contest, NoneKnown)
    /\ lasting' = FALSE
    /\ UNCHANGED <<config, at, packets_read, file, due, meant, loaded>>

(* The lines ml_model_save writes.                                         *)
Saved_Mutant == counted                \* what was heard in this run, only
Saved == counted \cup {p \in Pids : weight[p]["known"] = Strong}

(* The input ends.  A file that cannot be opened is left alone.            *)
Save(opens) ==
    /\ at = "up"
    /\ IF opens /\ config.ml /\ config.path
       THEN at' = "saving" /\ file' = <<>> /\ meant' = <<>> /\ due' = Saved /\ UNCHANGED lasting
       ELSE at' = "down" /\ lasting' = FALSE /\ UNCHANGED <<file, meant, due>>
    /\ UNCHANGED <<ring, roleModel, config, packets_read, loaded>>

(* Six digits are written: less than half of the last one is lost, unless  *)
(* the number was read from the file and has not changed.                  *)
Rounded(p, r) ==
    IF p \notin counted THEN {weight[p][r]}
    ELSE {weight[p][r]} \cup IF weight[p][r] = None THEN {} ELSE {weight[p][r] - 1}

NextLine(p, known, null) ==
    /\ at = "saving" /\ p \in due /\ \A q \in due : p <= q
    /\ known \in Rounded(p, "known") /\ null \in Rounded(p, "null")
    /\ meant' = Append(meant, [pid |-> p, known |-> known, null |-> null, cut |-> FALSE])

WriteLine(p, known, null) ==
    /\ NextLine(p, known, null)
    /\ due' = due \ {p}
    /\ file' = Append(file, meant'[Len(meant')])
    /\ UNCHANGED <<ring, roleModel, config, at, packets_read, loaded, lasting>>

(* The line is the last one to reach the disk, and the rest is not        *)
(* written: the program crashes, or does not look at the results of its    *)
(* writes.  A line cut in its last number reads as less.                   *)
LastLine(p, known, null, line) ==
    /\ NextLine(p, known, null)
    /\ file' = Append(file, line)
    /\ at' = "down" /\ due' = {} /\ lasting' = FALSE
    /\ UNCHANGED <<ring, roleModel, config, packets_read, loaded>>

CutNumber(p, known, null, read) ==
    /\ read <= null
    /\ LastLine(p, known, null, [pid |-> p, known |-> known, null |-> read, cut |-> FALSE])

CutLine(p, known, null) ==
    LET before == IF meant = <<>> THEN [known |-> None, null |-> None] ELSE meant[Len(meant)]
    IN LastLine(p, known, null,
                [pid |-> p, known |-> before.known, null |-> before.null, cut |-> TRUE])

(* A signal, a crash, or a disk that was full since the last line.         *)
Crash ==
    /\ at # "down" /\ at' = "down"
    /\ due' = {} /\ lasting' = FALSE
    /\ UNCHANGED <<ring, roleModel, config, packets_read, file, meant, loaded>>

SaveEnds ==
    /\ at = "saving" /\ due = {}
    /\ at' = "down"
    /\ UNCHANGED <<ring, roleModel, config, packets_read, state>>

Next ==
    \/ \E opens \in BOOLEAN : Start(opens) \/ Save(opens)
    \/ \E packet \in Packets : Hear(packet)
    \/ Reset
    \/ \E p \in Pids, known, null \in None .. Strong :
          \/ WriteLine(p, known, null) \/ CutLine(p, known, null)
          \/ \E read \in None .. Strong : CutNumber(p, known, null, read)
    \/ SaveEnds
    \/ Crash

Spec == Init /\ [][Next]_vars
-----------------------------------------------------------------------------
(* Whatever crash cut the file short: a run starts only with weights that  *)
(* were to be saved for the same PID, but for the NULL role of the last    *)
(* line, which may read as less (ml_model.c:193-203).                      *)
LoadedWasSaved ==
    \A p \in Pids : Loaded[p] # NoWeights =>
        \E i \in DOMAIN meant :
            /\ meant[i].pid = p /\ meant[i].known = Loaded[p].known
            /\ Loaded[p].null <= meant[i].null
            /\ i < Len(file) => Loaded[p].null = meant[i].null

(* What is known of a PID for certain outlasts a run that does not hear    *)
(* of it, unless it was reset, killed, or could not read or write the file *)
(* (ml_model.c:218-219).                                                   *)
KnowledgeLasts ==
    at = "down" /\ lasting =>
        \A p \in Pids : config.ml /\ config.path /\ loaded[p].known = Strong /\ p \notin counted
            => Loaded[p].known = Strong /\ Loaded[p].null = loaded[p].null
=============================================================================
