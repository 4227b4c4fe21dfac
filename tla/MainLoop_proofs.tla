--------------------------- MODULE MainLoop_proofs ---------------------------
(***************************************************************************)
(* The output buffer for every file, datagram size and number of packets:  *)
(* it has room, it keeps the order, and what a successful exit reports is  *)
(* true; and whatever was opened is closed on every way out.               *)
(***************************************************************************)
EXTENDS MainLoop, SequenceTheorems, TLAPS

USE BatchAssumption, BoundsAssumption

(* The packets written, sent and collected, are Nat sequences; the buffer  *)
(* is full only after a failed datagram, which ends the loop.              *)
InLoop == {"start", "read", "rewind", "feed", "write"}
Lists == buffer \in Seq(Nat) /\ net \in Seq(Nat) /\ accepted \in Nat
Roomy == Len(buffer) <= Batch /\ (pc \in InLoop => Len(buffer) < Batch)
Ordered == InOrderOnce
Flushed == pc \in {"close", "exited"} /\ ~failed => buffer = <<>>

IInv == Lists /\ Roomy /\ Ordered /\ Flushed

USE DEF InLoop, output, input, setup

(* One packet more at the end of what was written.                         *)
LEMMA Written ==
  ASSUME IInv
  PROVE  /\ Copied \in Seq(Nat) /\ Len(Copied) = Len(buffer) + 1
         /\ net \o Copied = [i \in 1 .. accepted + 1 |-> i]
  <1> USE DEF IInv, Lists, Ordered, InOrderOnce
  <1>1. Copied \in Seq(Nat) /\ Len(Copied) = Len(buffer) + 1
    BY DEF Copied
  <1>2. Copied = buffer \o <<accepted + 1>>
    BY AppendIsConcat DEF Copied
  <1>3. net \o Copied = (net \o buffer) \o <<accepted + 1>>
    <2>1. <<accepted + 1>> \in Seq(Nat)
      OBVIOUS
    <2>2. net \in Seq(Nat) /\ buffer \in Seq(Nat)
      OBVIOUS
    <2>3. net \o (buffer \o <<accepted + 1>>) = (net \o buffer) \o <<accepted + 1>>
      BY ONLY <2>1, <2>2, ConcatAssociative
    <2>4. QED
      BY ONLY <1>2, <2>3
  <1>4. (net \o buffer) \o <<accepted + 1>> = [i \in 1 .. accepted + 1 |-> i]
    <2> DEFINE all == [i \in 1 .. accepted |-> i]
    <2>1. all \in Seq(Nat) /\ Len(all) = accepted /\ \A i \in 1 .. accepted : all[i] = i
      OBVIOUS
    <2>2. net \o buffer = all
      OBVIOUS
    <2> HIDE DEF all
    <2>3. all \o <<accepted + 1>> = [i \in 1 .. accepted + 1 |-> i]
      BY <2>1
    <2>4. QED
      BY <2>2, <2>3
  <1>5. QED
    BY <1>1, <1>3, <1>4

LEMMA IInvInit == Init => IInv
  <1> SUFFICES ASSUME Init PROVE IInv
    OBVIOUS
  <1>1. Lists /\ Roomy /\ Flushed
    BY DEF Init, Lists, Roomy, Flushed
  <1>2. Ordered
    BY DEF Init, Ordered, InOrderOnce
  <1>3. QED
    BY <1>1, <1>2 DEF IInv

(* Steps that leave the output alone and do not shut down.                 *)
LEMMA Unwritten ==
  ASSUME IInv, UNCHANGED output,
         pc' \in InLoop \cup {"finish", "flush"},
         pc' \in InLoop => pc \in InLoop
  PROVE  IInv'
  BY DEF IInv, Lists, Roomy, Ordered, InOrderOnce, Flushed

(* What is left is sent, or stays.                                         *)
LEMMA Shutdown ==
  ASSUME IInv, NEW ok \in BOOLEAN, Sends(ok), UNCHANGED accepted
  PROVE  Lists' /\ Ordered' /\ Len(buffer') <= Batch /\ (ok => buffer' = <<>>)
         /\ (buffer = <<>> => buffer' = <<>>)
  <1>1. CASE ok
    <2>1. buffer' = <<>> /\ net' = net \o buffer
      BY <1>1 DEF Sends
    <2>2. Lists'
      BY <2>1, ConcatProperties DEF IInv, Lists
    <2>3. net' \o buffer' = net \o buffer
      BY <2>1, <2>2, ConcatEmptySeq DEF Lists
    <2>4. QED
      BY <1>1, <2>1, <2>2, <2>3 DEF IInv, Ordered, InOrderOnce
  <1>2. CASE ~ok
    BY <1>2 DEF Sends, IInv, Lists, Roomy, Ordered, InOrderOnce
  <1>3. QED
    BY <1>1, <1>2

LEMMA IInvStep == IInv /\ [Next]_vars => IInv'
  <1> SUFFICES ASSUME IInv, [Next]_vars PROVE IInv'
    OBVIOUS
  <1>1. CASE ResetKey
    BY <1>1, Unwritten DEF ResetKey
  <1>2. CASE Read
    BY <1>2, Unwritten DEF Read
  <1>3. ASSUME NEW n \in 0 .. MaxWrites, Feed(n) PROVE IInv'
    BY <1>3, Unwritten DEF Feed
  <1>4. CASE Fed
    BY <1>4, Unwritten DEF Fed
  <1>5. CASE Finish
    BY <1>5, Unwritten DEF Finish
  <1>6. CASE ReadError
    BY <1>6, Unwritten DEF ReadError
  <1>7. CASE EndOfFile
    BY <1>7, Unwritten DEF EndOfFile
  <1>8. ASSUME NEW ok \in BOOLEAN, Rewind(ok) PROVE IInv'
    BY <1>8, Unwritten DEF Rewind
  <1>9. CASE Collect
    <2>1. net' = net /\ buffer' = Copied /\ accepted' = accepted + 1 /\ pc' = pc
          /\ pc = "write" /\ Len(Copied) < Batch
      BY <1>9 DEF Collect
    <2>2. Lists' /\ Roomy' /\ Flushed'
      BY <2>1, Written DEF IInv, Lists, Roomy, Flushed
    <2>3. Ordered'
      BY <2>1, Written DEF Ordered, InOrderOnce
    <2>4. QED
      BY <2>2, <2>3 DEF IInv
  <1>10. CASE FillAndSend
    <2>1. net' = net \o Copied /\ buffer' = <<>> /\ accepted' = accepted + 1 /\ pc' = pc
          /\ pc = "write"
      BY <1>10 DEF FillAndSend, Fill
    <2>2. net' \in Seq(Nat)
      BY <2>1, Written, ConcatProperties DEF IInv, Lists
    <2>3. Lists' /\ Roomy' /\ Flushed'
      BY <2>1, <2>2 DEF IInv, Lists, Roomy, Flushed
    <2>4. net' \o buffer' = net'
      BY <2>1, <2>2, ConcatEmptySeq
    <2>5. Ordered'
      BY <2>1, <2>4, Written DEF Ordered, InOrderOnce
    <2>6. QED
      BY <2>3, <2>5 DEF IInv
  <1>11. CASE FillAndFail
    <2>1. net' = net /\ buffer' = Copied /\ accepted' = accepted + 1
          /\ pc = "write" /\ pc' = "finish"
      BY <1>11 DEF FillAndFail, Fill
    <2>2. Lists' /\ Roomy' /\ Flushed'
      BY <2>1, Written DEF IInv, Lists, Roomy, Flushed
    <2>3. Ordered'
      BY <2>1, Written DEF Ordered, InOrderOnce
    <2>4. QED
      BY <2>2, <2>3 DEF IInv
  <1>12. ASSUME NEW ok \in BOOLEAN, Flush(ok) PROVE IInv'
    <2> DEFINE did == ok \/ buffer = <<>>
    <2>1. Sends(did) /\ did \in BOOLEAN /\ accepted' = accepted /\ pc' = "close"
      BY <1>12 DEF Flush
    <2>2. ~failed' => did
      BY <1>12 DEF Flush
    <2> HIDE DEF did
    <2>3. QED
      BY <2>1, <2>2, Shutdown DEF IInv, Roomy, Flushed
  <1>13. ASSUME NEW ok \in BOOLEAN, Close(ok) PROVE IInv'
    <2>1. Sends(ok) /\ accepted' = accepted /\ pc' = "exited" /\ pc = "close"
          /\ failed' = failed
      BY <1>13 DEF Close
    <2>2. QED
      BY <2>1, Shutdown DEF IInv, Roomy, Flushed
  <1>14. ASSUME NEW r \in Resources, Acquire(r) PROVE IInv'
    BY <1>14, Unwritten DEF Acquire
  <1>15. CASE EnterLoop
    BY <1>15, Unwritten DEF EnterLoop
  <1>16. ASSUME NEW r \in Resources, Refuse(r) PROVE IInv'
    <2>1. UNCHANGED output /\ pc' = "exited" /\ failed'
      BY <1>16 DEF Refuse
    <2>2. QED
      BY <2>1 DEF IInv, Lists, Roomy, Ordered, InOrderOnce, Flushed
  <1>17. CASE Done \/ UNCHANGED vars
    BY <1>17 DEF Done, vars, IInv, Lists, Roomy, Ordered, InOrderOnce, Flushed
  <1>18. QED
    BY <1>1, <1>2, <1>3, <1>4, <1>5, <1>6, <1>7, <1>8, <1>9, <1>10, <1>11, <1>12, <1>13, <1>14,
       <1>15, <1>16, <1>17
    DEF Next, Step

LEMMA IInvAlways == Spec => []IInv
  BY IInvInit, IInvStep, PTL DEF Spec

(* Nothing is written beyond udp_out_buf, whatever sendto answers.         *)
THEOREM BufferHasRoom == Spec => []RoomToWrite
  <1>1. IInv => RoomToWrite
    BY DEF IInv, Roomy, RoomToWrite
  <1>2. QED
    BY <1>1, IInvAlways, PTL

(* A failed datagram is kept and sent again before anything after it.      *)
THEOREM NothingSkipped == Spec => []InOrderOnce
  <1>1. IInv => InOrderOnce
    BY DEF IInv, Ordered
  <1>2. QED
    BY <1>1, IInvAlways, PTL

(* Exit status 0 means that every packet written went out.                 *)
THEOREM ExitZeroMeansSent == Spec => []SuccessIsDelivery
  <1>1. IInv => SuccessIsDelivery
    <2> SUFFICES ASSUME IInv, pc = "exited", ~failed PROVE Len(net) = accepted
      BY DEF SuccessIsDelivery
    <2>1. buffer = <<>>
      BY DEF IInv, Flushed
    <2>2. net = [i \in 1 .. accepted |-> i]
      BY <2>1, ConcatEmptySeq DEF IInv, Lists, Ordered, InOrderOnce
    <2>3. QED
      BY <2>2 DEF IInv, Lists
  <1>2. QED
    BY <1>1, IInvAlways, PTL
-----------------------------------------------------------------------------
(* While the program starts, what is held is what it has opened so far, in *)
(* the order of the command line; in the loop it holds all it uses.        *)
HeldOK ==
    /\ held \in [Resources -> {0, 1}]
    /\ pc = "start" => \A r \in Resources : held[r] = 1 =>
           r \in config.uses /\ \A q \in config.uses : Order[q] < Order[r] => held[q] = 1
    /\ pc \notin {"start", "exited"} =>
           \A r \in Resources : held[r] = IF r \in config.uses THEN 1 ELSE 0
    /\ ClosedOnce

Holding == config \in Config /\ pc \in States /\ HeldOK

(* Each resource has a place of its own in the order.                      *)
LEMMA OrderIsStrict ==
  /\ Resources = {"sockets", "input", "output", "status", "engine", "key"}
  /\ \A r \in Resources : Order[r] \in Nat
  /\ \A q, r \in Resources : q # r => Order[q] < Order[r] \/ Order[r] < Order[q]
  BY DEF Resources, Order

(* Every error path names all that was opened before it.                   *)
LEMMA AbandonsAll ==
  ASSUME NEW r \in Resources, r # "key", NEW q \in Resources
  PROVE  q \in Abandons(r) <=> Order[q] < Order[r]
  BY OrderIsStrict DEF Abandons, Order

LEMMA HoldingInit == Init => Holding
  BY ConfigsAssumption DEF Init, Holding, HeldOK, States, ClosedOnce

LEMMA HoldingStep == Holding /\ [Next]_vars => Holding'
  <1> SUFFICES ASSUME Holding, [Next]_vars PROVE Holding'
    OBVIOUS
  <1> USE DEF Holding, HeldOK, ClosedOnce
  <1>1. config.uses \subseteq Resources
    BY DEF Config
  <1>2. ASSUME NEW r \in Resources, Acquire(r) PROVE Holding'
    <2>1. /\ pc = "start" /\ pc' = "start" /\ config' = config
          /\ r \in config.uses /\ held' = [held EXCEPT ![r] = 1]
          /\ \A q \in config.uses : Order[q] < Order[r] => held[q] = 1
      BY <1>2 DEF Acquire, ToOpen
    <2>2. held' \in [Resources -> {0, 1}] /\ \A q \in Resources : held'[q] = IF q = r THEN 1 ELSE held[q]
      BY <2>1
    <2>3. ASSUME NEW q \in Resources, held'[q] = 1
          PROVE  q \in config.uses /\ \A p \in config.uses : Order[p] < Order[q] => held'[p] = 1
      BY <1>1, <2>1, <2>2, <2>3
    <2>4. QED
      BY <2>1, <2>2, <2>3
  <1>3. ASSUME NEW r \in Resources, Refuse(r) PROVE Holding'
    <2>1. /\ pc = "start" /\ pc' = "exited" /\ config' = config /\ held' = Closed(Abandons(r))
          /\ r \in config.uses /\ held[r] = 0 /\ r # "key"
          /\ \A q \in config.uses : Order[q] < Order[r] => held[q] = 1
      BY <1>3 DEF Refuse, ToOpen
    <2>2. ASSUME NEW q \in Resources PROVE held'[q] = 0
      <3>1. held'[q] = held[q] - IF q \in config.uses /\ Order[q] < Order[r] THEN 1 ELSE 0
        BY <2>1, AbandonsAll DEF Closed
      <3>2. held[q] = 1 => q \in config.uses /\ Order[q] < Order[r]
        BY <2>1, OrderIsStrict
      <3>3. held[q] \in {0, 1}
        OBVIOUS
      <3>4. QED
        BY <2>1, <3>1, <3>2, <3>3
    <2>3. held' \in [Resources -> {0, 1}]
      BY <2>1, <2>2 DEF Closed
    <2>4. QED
      BY <2>1, <2>2, <2>3 DEF States
  <1>4. CASE EnterLoop
    BY <1>1, <1>4 DEF EnterLoop, States
  <1>5. ASSUME NEW ok \in BOOLEAN, Close(ok) PROVE Holding'
    <2>1. pc = "close" /\ pc' = "exited" /\ config' = config /\ held' = Closed(Resources)
      BY <1>5 DEF Close
    <2>2. \A q \in Resources : held'[q] = 0
      BY <1>1, <2>1 DEF Closed
    <2>3. held' \in [Resources -> {0, 1}]
      BY <2>1, <2>2 DEF Closed
    <2>4. QED
      BY <2>1, <2>2, <2>3 DEF States
  <1>6. ASSUME UNCHANGED <<config, held>>, pc \notin {"start", "exited"} \/ pc' = pc,
               pc' \in States, pc' \in {"start", "exited"} => pc' = pc
        PROVE  Holding'
    BY <1>6
  <1>7. CASE ReadError \/ ResetKey \/ Done \/ Read \/ EndOfFile \/ Fed \/ Finish
    BY <1>6, <1>7 DEF ReadError, ResetKey, Done, Read, EndOfFile, Fed, Finish, vars, States
  <1>8. CASE Collect \/ FillAndSend \/ FillAndFail
    BY <1>6, <1>8 DEF Collect, FillAndSend, FillAndFail, Fill, States
  <1>9. ASSUME NEW n \in 0 .. MaxWrites, Feed(n) PROVE Holding'
    BY <1>6, <1>9 DEF Feed, States
  <1>10. ASSUME NEW ok \in BOOLEAN, Rewind(ok) \/ Flush(ok) PROVE Holding'
    BY <1>6, <1>10 DEF Rewind, Flush, States
  <1>11. CASE UNCHANGED vars
    BY <1>6, <1>11 DEF vars
  <1>12. QED
    BY <1>2, <1>3, <1>4, <1>5, <1>7, <1>8, <1>9, <1>10, <1>11 DEF Next, Step

(* Whatever could not be opened, and however the loop ended: nothing is    *)
(* left open at the exit, and nothing was closed twice.                    *)
THEOREM AllClosed == Spec => []ClosedOnce
  <1>1. Holding => ClosedOnce
    BY DEF Holding, HeldOK
  <1>2. QED
    BY <1>1, HoldingInit, HoldingStep, PTL DEF Spec
-----------------------------------------------------------------------------
Numbers ==
    /\ config \in Configs
    /\ position \in 0 .. config.size /\ read \in 0 .. MaxPackets /\ writes \in 0 .. MaxWrites
    /\ pc = "feed" => read < MaxPackets
Flags == this_pass \in BOOLEAN /\ stuck \in BOOLEAN /\ failed \in BOOLEAN

LEMMA NumbersStep == Numbers /\ [Next]_vars => Numbers'
  <1> SUFFICES ASSUME Numbers, [Next]_vars PROVE Numbers'
    OBVIOUS
  <1>1. config.size \in Nat
    BY ConfigsAssumption DEF Numbers, Config
  <1> USE <1>1 DEF Numbers
  <1>2. ASSUME NEW r \in Resources, Acquire(r) \/ Refuse(r) PROVE Numbers'
    BY <1>2 DEF Acquire, Refuse
  <1>3. CASE EnterLoop \/ EndOfFile \/ Fed
    BY <1>3 DEF EnterLoop, EndOfFile, Fed
  <1>4. CASE Read
    BY <1>4 DEF Read
  <1>5. CASE Finish \/ ReadError \/ ResetKey \/ Done \/ UNCHANGED vars
    BY <1>5 DEF Finish, ReadError, ResetKey, Done, vars
  <1>6. ASSUME NEW n \in 0 .. MaxWrites, Feed(n) PROVE Numbers'
    <2>1. CASE stuck
      BY <1>6, <2>1 DEF Feed
    <2>2. CASE ~stuck
      BY <1>6, <2>2 DEF Feed
    <2>3. QED
      BY <2>1, <2>2
  <1>7. CASE Collect \/ FillAndSend
    <2>1. pc = "write" /\ pc' = pc /\ writes > 0 /\ writes' = writes - 1
          /\ UNCHANGED <<config, position, read>>
      BY <1>7 DEF Collect, Fill, FillAndSend
    <2>2. QED
      BY <2>1
  <1>8. CASE FillAndFail
    BY <1>8 DEF Fill, FillAndFail
  <1>9. ASSUME NEW ok \in BOOLEAN, Rewind(ok) PROVE Numbers'
    <2>1. pc' \in {"read", "finish"} /\ position' \in {0, position}
          /\ UNCHANGED <<config, read, writes>>
      BY <1>9, Zenon DEF Rewind
    <2>2. QED
      BY <2>1
  <1>10. ASSUME NEW ok \in BOOLEAN, Flush(ok) \/ Close(ok) PROVE Numbers'
    BY <1>10 DEF Flush, Close
  <1>11. QED
    BY <1>2, <1>3, <1>4, <1>5, <1>6, <1>7, <1>8, <1>9, <1>10 DEF Next, Step

LEMMA FlagsStep == Flags /\ [Next]_vars => Flags'
  <1> SUFFICES ASSUME Flags, [Next]_vars PROVE Flags'
    OBVIOUS
  <1> USE DEF Flags
  <1>1. ASSUME NEW r \in Resources, Acquire(r) \/ Refuse(r) PROVE Flags'
    BY <1>1, Zenon DEF Acquire, Refuse
  <1>2. CASE EnterLoop \/ EndOfFile \/ Fed \/ Read
    BY <1>2, Zenon DEF EnterLoop, EndOfFile, Fed, Read
  <1>3. CASE Finish \/ ReadError \/ ResetKey \/ Done \/ UNCHANGED vars
    BY <1>3, Zenon DEF Finish, ReadError, ResetKey, Done, vars
  <1>4. ASSUME NEW n \in 0 .. MaxWrites, Feed(n) PROVE Flags'
    BY <1>4, Zenon DEF Feed
  <1>5. CASE Collect \/ FillAndSend \/ FillAndFail
    BY <1>5, Zenon DEF Collect, FillAndSend, FillAndFail
  <1>6. ASSUME NEW ok \in BOOLEAN, Rewind(ok) PROVE Flags'
    BY <1>6, Zenon DEF Rewind
  <1>7. ASSUME NEW ok \in BOOLEAN, Flush(ok) \/ Close(ok) PROVE Flags'
    BY <1>7, Zenon DEF Flush, Close
  <1>8. QED
    BY <1>1, <1>2, <1>3, <1>4, <1>5, <1>6, <1>7 DEF Next, Step

(* Every variable keeps its type, for every file and command line.         *)
THEOREM TypeCorrect == Spec => []TypeOK
  <1>1. IInv /\ Holding /\ Numbers /\ Flags => TypeOK
    BY DEF IInv, Lists, Holding, HeldOK, Numbers, Flags, TypeOK
  <1>2. Init => Numbers /\ Flags
    <2> SUFFICES ASSUME Init PROVE Numbers /\ Flags
      OBVIOUS
    <2>1. config.size \in Nat
      BY ConfigsAssumption DEF Init, Config
    <2>2. Numbers
      BY <2>1 DEF Init, Numbers
    <2>3. Flags
      BY DEF Init, Flags
    <2>4. QED
      BY <2>2, <2>3
  <1>3. Spec => [](Holding /\ Numbers /\ Flags)
    BY <1>2, HoldingInit, HoldingStep, NumbersStep, FlagsStep, PTL DEF Spec
  <1>4. QED
    BY <1>1, <1>3, IInvAlways, PTL
=============================================================================
