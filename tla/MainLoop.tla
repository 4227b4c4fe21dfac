------------------------------ MODULE MainLoop ------------------------------
(***************************************************************************)
(* tsscatterfix from its input file to the UDP socket: src/main.c, which   *)
(* opens what the command line names, reads, feeds the repair engine,      *)
(* rewinds the file if it loops, and shuts down, with the output of        *)
(* src/io.c, which collects packets into datagrams.  What the engine makes *)
(* of a packet is module TsRepair; here it writes any number of packets.   *)
(***************************************************************************)
EXTENDS Integers, Sequences

CONSTANTS
    Configs,     \* the command lines and input files considered
    Batch,       \* packets of a datagram, 7 in the code
    MaxWrites,   \* bound: packets written for one packet read
    MaxPackets   \* bound: packets read in a behaviour

(* What the program opens, in this order; the terminal is used if there is *)
(* one, the files and sockets if they are named.                           *)
Order == [sockets |-> 1, input |-> 2, output |-> 3, status |-> 4, engine |-> 5, key |-> 6]
Resources == DOMAIN Order

Config == [size : Nat, loop : BOOLEAN, limit : Nat, uses : SUBSET Resources]

ASSUME ConfigsAssumption == Configs \subseteq Config
ASSUME BatchAssumption == Batch \in Nat \ {0}
ASSUME BoundsAssumption == MaxWrites \in Nat /\ MaxPackets \in Nat

VARIABLES
    config,      \* packets in the file, --loop-input, --max-packets (0: none)
    held,        \* how often each resource was opened and not yet closed
    pc,
    position,    \* of the file
    this_pass,   \* bytes_this_pass # 0
    read,        \* packets_read
    writes,      \* packets the engine has still to write for this one
    stuck,       \* the engine's failed flag
    buffer,      \* udp_out_buf: the packets collected, by number
    failed,
    (* history, read by the properties only *)
    accepted,    \* packets copied to the buffer
    net          \* packets in the datagrams sent

vars == <<config, held, pc, position, this_pass, read, writes, stuck, buffer, failed,
          accepted, net>>
setup == <<config, held>>
output == <<buffer, accepted, net>>
input == <<position, this_pass, read>>

States == {"start", "read", "rewind", "feed", "write", "finish", "flush", "close", "exited"}
-----------------------------------------------------------------------------
Init ==
    /\ config \in Configs
    /\ held = [r \in Resources |-> 0]
    /\ pc = "start" /\ position = 0 /\ this_pass = FALSE /\ read = 0 /\ writes = 0
    /\ stuck = FALSE /\ buffer = <<>> /\ failed = FALSE
    /\ accepted = 0 /\ net = <<>>

ToOpen(r) ==
    /\ r \in config.uses /\ held[r] = 0
    /\ \A q \in config.uses : Order[q] < Order[r] => held[q] = 1

Acquire(r) ==
    /\ pc = "start" /\ ToOpen(r)
    /\ held' = [held EXCEPT ![r] = 1]
    /\ UNCHANGED <<config, pc, input, writes, stuck, failed, output>>

Closed(rs) == [r \in Resources |-> held[r] - IF r \in rs \cap config.uses THEN 1 ELSE 0]

(* What is closed by hand where one of them cannot be opened.              *)
Abandons_Mutant(r) ==                  \* the output is forgotten
    IF r = "status" THEN {"sockets", "input"}
    ELSE {q \in Resources : Order[q] < Order[r]}

Abandons(r) ==
    CASE r = "sockets" -> {}
      [] r = "input" -> {"sockets"}
      [] r = "output" -> {"input", "sockets"}
      [] r = "status" -> {"output", "input", "sockets"}
      [] r = "engine" -> {"output", "input", "status", "sockets"}

Refuse(r) ==
    /\ pc = "start" /\ ToOpen(r) /\ r # "key"
    /\ held' = Closed(Abandons(r))
    /\ failed' = TRUE /\ pc' = "exited"
    /\ UNCHANGED <<config, input, writes, stuck, output>>

EnterLoop ==
    /\ pc = "start" /\ \A r \in config.uses : held[r] = 1
    /\ pc' = "read"
    /\ UNCHANGED <<setup, input, writes, stuck, failed, output>>

(* The R key, polled before every feed: scatterfix_reset.                  *)
ResetKey ==
    /\ pc = "feed"
    /\ stuck' = FALSE
    /\ UNCHANGED <<setup, pc, input, writes, failed, output>>

Read ==
    /\ pc = "read" /\ position < config.size /\ read < MaxPackets
    /\ position' = position + 1
    /\ this_pass' = TRUE
    /\ pc' = "feed"
    /\ UNCHANGED <<setup, read, writes, stuck, failed, output>>

(* A loop over a file that yields nothing is not continued.                *)
Rewinds_Mutant == config.loop
Rewinds == config.loop /\ this_pass

EndOfFile ==
    /\ pc = "read" /\ position = config.size
    /\ pc' = IF Rewinds THEN "rewind" ELSE "finish"
    /\ UNCHANGED <<setup, input, writes, stuck, failed, output>>

(* scatterfix_finish, which an engine that has failed refuses, and fseek.  *)
Rewind(ok) ==
    /\ pc = "rewind"
    /\ IF ~stuck /\ ok
       THEN pc' = "read" /\ position' = 0 /\ this_pass' = FALSE /\ UNCHANGED failed
       ELSE pc' = "finish" /\ failed' = TRUE /\ UNCHANGED <<position, this_pass>>
    /\ UNCHANGED <<setup, read, writes, stuck, output>>

ReadError ==
    /\ pc = "read"
    /\ pc' = "finish" /\ failed' = TRUE
    /\ UNCHANGED <<setup, input, writes, stuck, output>>

(* scatterfix_feed: an engine that has failed refuses; otherwise it writes *)
(* n packets.                                                              *)
Feed(n) ==
    /\ pc = "feed"
    /\ IF stuck
       THEN pc' = "finish" /\ failed' = TRUE /\ UNCHANGED <<read, writes>>
       ELSE pc' = "write" /\ read' = read + 1 /\ writes' = n /\ UNCHANGED failed
    /\ UNCHANGED <<setup, position, this_pass, stuck, output>>

(* The call of feed is over; --max-packets ends the loop.                  *)
Fed ==
    /\ pc = "write" /\ writes = 0
    /\ pc' = IF config.limit > 0 /\ read >= config.limit THEN "finish" ELSE "read"
    /\ UNCHANGED <<setup, input, writes, stuck, failed, output>>

Copied == Append(buffer, accepted + 1)

(* ts_output_write_packet: the packet is collected, and the datagram is    *)
(* not full.                                                               *)
Collect ==
    /\ pc = "write" /\ writes > 0
    /\ Len(Copied) < Batch
    /\ buffer' = Copied /\ accepted' = accepted + 1
    /\ writes' = writes - 1
    /\ UNCHANGED <<setup, pc, input, stuck, failed, net>>

Fill ==
    /\ pc = "write" /\ writes > 0
    /\ Len(Copied) >= Batch
    /\ accepted' = accepted + 1

(* The packet fills the datagram, which is sent.                           *)
FillAndSend ==
    /\ Fill
    /\ net' = net \o Copied /\ buffer' = <<>>
    /\ writes' = writes - 1
    /\ UNCHANGED <<setup, pc, input, stuck, failed>>

FillAndFail_Mutant ==                  \* a datagram lost is no failure
    /\ Fill
    /\ buffer' = Copied
    /\ writes' = writes - 1
    /\ UNCHANGED <<setup, pc, input, stuck, failed, net>>

FillAndFailEmpty_Mutant ==             \* the buffer is emptied all the same
    /\ Fill
    /\ buffer' = <<>>
    /\ stuck' = TRUE /\ failed' = TRUE /\ writes' = 0
    /\ pc' = "finish"
    /\ UNCHANGED <<setup, input, net>>

(* sendto fails: the buffer stays full, the engine fails, the loop ends.   *)
FillAndFail ==
    /\ Fill
    /\ buffer' = Copied
    /\ stuck' = TRUE /\ failed' = TRUE /\ writes' = 0
    /\ pc' = "finish"
    /\ UNCHANGED <<setup, input, net>>

(* The final scatterfix_finish, which an engine that has failed refuses.   *)
Finish ==
    /\ pc = "finish"
    /\ pc' = "flush"
    /\ failed' = (failed \/ stuck)
    /\ UNCHANGED <<setup, input, writes, stuck, output>>

Sends(ok) == IF ok THEN net' = net \o buffer /\ buffer' = <<>>
                   ELSE UNCHANGED <<net, buffer>>

Flush_Mutant(ok) ==                    \* the result is not looked at
    /\ pc = "flush"
    /\ Sends(ok)
    /\ pc' = "close"
    /\ UNCHANGED <<setup, input, writes, stuck, failed, accepted>>

(* ts_output_flush sends what is left, or what could not be sent before.   *)
Flush(ok) ==
    /\ pc = "flush"
    /\ Sends(ok \/ buffer = <<>>)
    /\ failed' = (failed \/ (~ok /\ buffer # <<>>))
    /\ pc' = "close"
    /\ UNCHANGED <<setup, input, writes, stuck, accepted>>

(* ts_output_close flushes once more and does not look at the result; the  *)
(* rest is closed, too.                                                    *)
Close(ok) ==
    /\ pc = "close"
    /\ Sends(ok)
    /\ held' = Closed(Resources)
    /\ pc' = "exited"
    /\ UNCHANGED <<config, input, writes, stuck, failed, accepted>>

Done == pc = "exited" /\ UNCHANGED vars

Step ==
    \/ \E r \in Resources : Acquire(r) \/ Refuse(r)
    \/ EnterLoop \/ Read
    \/ \E n \in 0 .. MaxWrites : Feed(n)
    \/ EndOfFile \/ Fed \/ Collect \/ FillAndSend \/ FillAndFail
    \/ Finish
    \/ \E ok \in BOOLEAN : Rewind(ok) \/ Flush(ok) \/ Close(ok)

Next == Step \/ ReadError \/ ResetKey \/ Done

(* Reading a file, sending a datagram and repairing a packet all return.   *)
Spec == Init /\ [][Next]_vars /\ WF_vars(Step)
-----------------------------------------------------------------------------
TypeOK ==
    /\ config \in Configs /\ pc \in States /\ held \in [Resources -> {0, 1}]
    /\ position \in 0 .. config.size /\ this_pass \in BOOLEAN /\ read \in 0 .. MaxPackets
    /\ writes \in 0 .. MaxWrites /\ stuck \in BOOLEAN /\ failed \in BOOLEAN
    /\ buffer \in Seq(Nat) /\ accepted \in Nat /\ net \in Seq(Nat)

(* udp_out_buf has room for the packet that is written, after whatever     *)
(* failure, reset or rewind: a failed datagram leaves it full.             *)
RoomToWrite == Len(buffer) <= Batch /\ (pc = "write" => Len(buffer) < Batch)

(* On every way out, and there is one for each thing that cannot be        *)
(* opened, what was opened is closed, and once (main.c:350-461, 527-534).  *)
ClosedOnce == pc = "exited" => \A r \in Resources : held[r] = 0

(* Packets reach the network in order, none twice, and none is skipped:    *)
(* what was sent and what is collected is all that was written.            *)
InOrderOnce == net \o buffer = [i \in 1 .. accepted |-> i]

(* Success means that everything written was sent.                         *)
SuccessIsDelivery == pc = "exited" /\ ~failed => Len(net) = accepted

(* The program ends at the end of the file, and so does a loop over an     *)
(* empty one.                                                              *)
EndsWithInput ==
    (~config.loop /\ config.size <= MaxPackets) \/ config.size = 0 ~> pc = "exited"
=============================================================================
