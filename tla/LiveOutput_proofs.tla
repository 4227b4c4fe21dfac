-------------------------- MODULE LiveOutput_proofs --------------------------
(***************************************************************************)
(* Publication is safe for every command line and however many pictures    *)
(* are recovered: what the output thread sends is whole, and the exit      *)
(* status tells what went wrong.                                           *)
(***************************************************************************)
EXTENDS LiveOutput, TLAPS

(* Who holds the lock, and until when the second thread may run.           *)
LockKept ==
    /\ lock = "main" <=> main \in {"swap", "install"}
    /\ lock = "out" <=> out = "sending"
OutputLives ==
    /\ out # "none" => config.output = "udp"
    /\ main = "start" => out = "none"
    /\ main \in {"close", "exited"} => out \in {"none", "ended"}
    /\ config.output # "none" /\ main # "exited" => open
PictureKept ==
    config.output # "none" /\ main \notin {"install", "exited"} => best # NoPixels
FaultsKept == faults <=> (failed \/ outputFailed \/ out = "report")
Counted == images \in 0 .. MaxImages /\ back \in {"receive", "finish"}

IInv == LockKept /\ OutputLives /\ PictureKept /\ FaultsKept /\ Counted

USE DEF MainTries, MainMoves, OutMoves, Fault, threads, picture, flags

LEMMA IInvInit == Init => IInv
  <1> SUFFICES ASSUME Init PROVE IInv
    OBVIOUS
  <1>1. LockKept /\ FaultsKept
    BY DEF Init, LockKept, FaultsKept
  <1>2. config.output # "none" => open
    BY DEF Init
  <1>3. OutputLives
    BY <1>2 DEF Init, OutputLives
  <1>4. PictureKept
    BY NoPixelsAssumption DEF Init, PictureKept, Black
  <1>5. Counted
    BY MaxImagesAssumption DEF Init, Counted
  <1>6. QED
    BY <1>1, <1>3, <1>4, <1>5 DEF IInv

LEMMA MainKeeps ==
  ASSUME IInv, NEW from, NEW to, NEW ok \in BOOLEAN, MainTries(from, to, ok),
         from \in {"open", "receive", "ready", "linger"},
         to \in {"open", "receive", "finish", "final", "stop"}
  PROVE  IInv'
  BY DEF IInv, LockKept, OutputLives, PictureKept, FaultsKept, Counted

LEMMA StepMain ==
  ASSUME IInv, Main PROVE IInv'
  <1>1. CASE LeaveLoop
    BY <1>1, MainKeeps DEF LeaveLoop
  <1>2. CASE FreeOld
    BY <1>2 DEF FreeOld, IInv, LockKept, OutputLives, PictureKept, FaultsKept, Counted
  <1>3. CASE Linger
    BY <1>3, MainKeeps DEF Linger
  <1>4. CASE Stop
    BY <1>4 DEF Stop, IInv, LockKept, OutputLives, PictureKept, FaultsKept, Counted
  <1>5. CASE Join
    BY <1>5 DEF Join, IInv, LockKept, OutputLives, PictureKept, FaultsKept, Counted
  <1>6. ASSUME NEW ok \in BOOLEAN, Start(ok) PROVE IInv'
    BY <1>6 DEF Start, IInv, LockKept, OutputLives, PictureKept, FaultsKept, Counted
  <1>7. ASSUME NEW ok \in BOOLEAN, Open(ok) PROVE IInv'
    BY <1>7, MainKeeps DEF Open
  <1>8. ASSUME NEW ok \in BOOLEAN, Install(ok) PROVE IInv'
    <2>1. best' # NoPixels
      BY <1>8, NoPixelsAssumption DEF Install, IInv, Counted
    <2>2. main' \in {"receive", "finish"} /\ main = "install" /\ lock' = "free"
      BY <1>8 DEF Install, IInv, Counted
    <2>3. LockKept' /\ OutputLives' /\ FaultsKept'
      BY <1>8, <2>2 DEF Install, IInv, LockKept, OutputLives, FaultsKept
    <2>4. PictureKept' /\ Counted'
      BY <1>8, <2>1 DEF Install, IInv, PictureKept, Counted
    <2>5. QED
      BY <2>3, <2>4 DEF IInv
  <1>9. ASSUME NEW ok \in BOOLEAN, Finish(ok) PROVE IInv'
    BY <1>9 DEF Finish, IInv, LockKept, OutputLives, PictureKept, FaultsKept, Counted
  <1>10. ASSUME NEW published \in BOOLEAN, NEW logged \in BOOLEAN, Final(published, logged)
         PROVE  IInv'
    BY <1>10 DEF Final, Sending, IInv, LockKept, OutputLives, PictureKept, FaultsKept, Counted
  <1>11. ASSUME NEW ok \in BOOLEAN, Close(ok) PROVE IInv'
    BY <1>11 DEF Close, IInv, LockKept, OutputLives, PictureKept, FaultsKept, Counted
  <1>12. QED
    BY <1>1, <1>2, <1>3, <1>4, <1>5, <1>6, <1>7, <1>8, <1>9, <1>10, <1>11 DEF Main

LEMMA StepOutside ==
  ASSUME IInv, Outside \/ Acquire PROVE IInv'
  <1>1. CASE Interrupt
    BY <1>1 DEF Interrupt, IInv, LockKept, OutputLives, PictureKept, FaultsKept, Counted
  <1>2. CASE InputEnds
    BY <1>2, MainKeeps DEF InputEnds
  <1>3. CASE InputFails
    BY <1>3, MainKeeps DEF InputFails
  <1>4. CASE Image
    BY <1>4, MaxImagesAssumption
    DEF Image, IInv, LockKept, OutputLives, PictureKept, FaultsKept, Counted
  <1>5. CASE CopyFails
    BY <1>5, MainKeeps DEF CopyFails, IInv, Counted
  <1>6. CASE Acquire
    BY <1>6 DEF Acquire, IInv, LockKept, OutputLives, PictureKept, FaultsKept, Counted
  <1>7. QED
    BY <1>1, <1>2, <1>3, <1>4, <1>5, <1>6 DEF Outside

LEMMA StepOutput ==
  ASSUME IInv, Output \/ OutAcquire PROVE IInv'
  <1>1. CASE Ends
    BY <1>1 DEF Ends, IInv, LockKept, OutputLives, PictureKept, FaultsKept, Counted
  <1>2. CASE Due
    BY <1>2 DEF Due, IInv, LockKept, OutputLives, PictureKept, FaultsKept, Counted
  <1>3. CASE Sent
    BY <1>3 DEF Sent, IInv, LockKept, OutputLives, PictureKept, FaultsKept, Counted
  <1>4. CASE SendFails
    BY <1>4 DEF SendFails, IInv, LockKept, OutputLives, PictureKept, FaultsKept, Counted
  <1>5. CASE Report
    BY <1>5 DEF Report, IInv, LockKept, OutputLives, PictureKept, FaultsKept, Counted
  <1>6. CASE OutAcquire
    BY <1>6 DEF OutAcquire, IInv, LockKept, OutputLives, PictureKept, FaultsKept, Counted
  <1>7. QED
    BY <1>1, <1>2, <1>3, <1>4, <1>5, <1>6 DEF Output

LEMMA IInvStep == IInv /\ [Next]_vars => IInv'
  <1> SUFFICES ASSUME IInv, [Next]_vars PROVE IInv'
    OBVIOUS
  <1>1. CASE UNCHANGED vars
    BY <1>1 DEF vars, IInv, LockKept, OutputLives, PictureKept, FaultsKept, Counted
  <1>2. CASE Next
    <2>1. CASE Done
      BY <2>1, <1>1 DEF Done
    <2>2. QED
      BY <1>2, <2>1, StepMain, StepOutside, StepOutput DEF Next
  <1>3. QED
    BY <1>1, <1>2

LEMMA IInvAlways == Spec => []IInv
  BY IInvInit, IInvStep, PTL DEF Spec

(* The picture being sent is not replaced, freed or closed meanwhile: the  *)
(* sender holds the lock, so that the main thread is not in image_ready's  *)
(* critical section, and it is joined before the output is closed.         *)
THEOREM WholePicturesSent == Spec => []SendsWhole
  <1>1. IInv => SendsWhole
    BY DEF IInv, LockKept, OutputLives, PictureKept, SendsWhole
  <1>2. QED
    BY <1>1, IInvAlways, PTL

(* The exit status is a failure exactly when something failed, in either   *)
(* thread: a failure not yet reported keeps the main thread from exiting.  *)
THEOREM ExitStatusCorrect == Spec => []ExitTellsFaults
  <1>1. IInv => ExitTellsFaults
    BY DEF IInv, OutputLives, FaultsKept, ExitTellsFaults
  <1>2. QED
    BY <1>1, IInvAlways, PTL
-----------------------------------------------------------------------------
Places ==
    /\ config \in Configs /\ config.inputs \in Nat \ {0}
    /\ main \in MainStates /\ back \in {"receive", "finish"}
    /\ out \in OutStates /\ lock \in {"free", "main", "out"}
    /\ index \in 1 .. config.inputs
Versions ==
    /\ images \in 0 .. MaxImages /\ sent \in 0 .. MaxImages
    /\ best \in 0 .. MaxImages \cup {NoPixels}
Flags ==
    /\ open \in BOOLEAN /\ interrupted \in BOOLEAN /\ stop \in BOOLEAN
    /\ outputFailed \in BOOLEAN /\ failed \in BOOLEAN /\ faults \in BOOLEAN

LEMMA PlacesStep == Places /\ [Next]_vars => Places'
  <1> SUFFICES ASSUME Places, [Next]_vars PROVE Places'
    OBVIOUS
  <1> USE DEF Places, MainStates, OutStates
  <1>1. CASE Interrupt \/ InputEnds \/ InputFails \/ Image \/ CopyFails \/ Acquire
    BY <1>1 DEF Interrupt, InputEnds, InputFails, Image, CopyFails, Acquire
  <1>2. CASE LeaveLoop \/ FreeOld \/ Linger \/ Stop \/ Join
    BY <1>2 DEF LeaveLoop, FreeOld, Linger, Stop, Join
  <1>3. ASSUME NEW ok \in BOOLEAN, Start(ok) \/ Open(ok) \/ Install(ok) \/ Close(ok)
        PROVE  Places'
    BY <1>3 DEF Start, Open, Install, Close
  <1>4. ASSUME NEW ok \in BOOLEAN, Finish(ok) PROVE Places'
    <2>1. main' \in {"open", "final"}
          /\ UNCHANGED <<config, back, out, lock>>
      BY <1>4 DEF Finish
    <2>2. index' = index \/ (index < config.inputs /\ index' = index + 1)
      BY <1>4 DEF Finish, Another
    <2>3. QED
      BY <2>1, <2>2
  <1>5. ASSUME NEW published \in BOOLEAN, NEW logged \in BOOLEAN, Final(published, logged)
        PROVE  Places'
    BY <1>5 DEF Final
  <1>6. CASE Ends \/ Due \/ Sent \/ SendFails \/ Report \/ OutAcquire
    BY <1>6 DEF Ends, Due, Sent, SendFails, Report, OutAcquire
  <1>7. CASE Done \/ UNCHANGED vars
    BY <1>7 DEF Done, vars
  <1>8. QED
    BY <1>1, <1>2, <1>3, <1>4, <1>5, <1>6, <1>7 DEF Next, Outside, Main, Output

LEMMA VersionsStep == IInv /\ Versions /\ [Next]_vars => Versions'
  <1> SUFFICES ASSUME IInv, Versions, [Next]_vars PROVE Versions'
    OBVIOUS
  <1> USE MaxImagesAssumption, NoPixelsAssumption DEF Versions
  <1>1. CASE Interrupt \/ InputEnds \/ InputFails \/ CopyFails \/ Acquire
    BY <1>1 DEF Interrupt, InputEnds, InputFails, CopyFails, Acquire
  <1>2. CASE Image
    BY <1>2 DEF Image
  <1>3. CASE LeaveLoop \/ FreeOld \/ Linger \/ Stop \/ Join
    BY <1>3 DEF LeaveLoop, FreeOld, Linger, Stop, Join
  <1>4. ASSUME NEW ok \in BOOLEAN,
               Start(ok) \/ Open(ok) \/ Install(ok) \/ Close(ok) \/ Finish(ok)
        PROVE  Versions'
    BY <1>4 DEF Start, Open, Install, Close, Finish
  <1>5. ASSUME NEW published \in BOOLEAN, NEW logged \in BOOLEAN, Final(published, logged)
        PROVE  Versions'
    <2>1. main = "final" /\ UNCHANGED <<images, best>>
          /\ sent' = IF published THEN best ELSE sent
      BY <1>5 DEF Final
    <2>2. published => best # NoPixels
      BY <1>5, <2>1 DEF Final, Sending, IInv, PictureKept
    <2>3. QED
      BY <2>1, <2>2
  <1>6. CASE Ends \/ Due \/ SendFails \/ Report \/ OutAcquire
    BY <1>6 DEF Ends, Due, SendFails, Report, OutAcquire
  <1>7. CASE Sent
    <2>1. best # NoPixels
      BY <1>7 DEF Sent, IInv, LockKept, OutputLives, PictureKept
    <2>2. QED
      BY <1>7, <2>1 DEF Sent
  <1>8. CASE Done \/ UNCHANGED vars
    BY <1>8 DEF Done, vars
  <1>9. QED
    BY <1>1, <1>2, <1>3, <1>4, <1>5, <1>6, <1>7, <1>8 DEF Next, Outside, Main, Output

LEMMA FlagsStep == Flags /\ [Next]_vars => Flags'
  <1> SUFFICES ASSUME Flags, [Next]_vars PROVE Flags'
    OBVIOUS
  <1> USE DEF Flags
  <1>1. CASE Interrupt \/ InputEnds \/ InputFails \/ Image \/ CopyFails \/ Acquire
    BY <1>1, Zenon DEF Interrupt, InputEnds, InputFails, Image, CopyFails, Acquire
  <1>2. CASE LeaveLoop \/ FreeOld \/ Linger \/ Stop \/ Join
    BY <1>2, Zenon DEF LeaveLoop, FreeOld, Linger, Stop, Join
  <1>3. ASSUME NEW ok \in BOOLEAN,
               Start(ok) \/ Open(ok) \/ Install(ok) \/ Close(ok) \/ Finish(ok)
        PROVE  Flags'
    BY <1>3, Zenon DEF Start, Open, Install, Close, Finish
  <1>4. ASSUME NEW published \in BOOLEAN, NEW logged \in BOOLEAN, Final(published, logged)
        PROVE  Flags'
    BY <1>4, Zenon DEF Final
  <1>5. CASE Ends \/ Due \/ Sent \/ SendFails \/ Report \/ OutAcquire
    BY <1>5, Zenon DEF Ends, Due, Sent, SendFails, Report, OutAcquire
  <1>6. CASE Done \/ UNCHANGED vars
    BY <1>6, Zenon DEF Done, vars
  <1>7. QED
    BY <1>1, <1>2, <1>3, <1>4, <1>5, <1>6 DEF Next, Outside, Main, Output

(* Every variable keeps its type; above all, what is reported as sent is a *)
(* picture that was recovered, never a freed one.                          *)
THEOREM TypeCorrect == Spec => []TypeOK
  <1>1. Init => Places /\ Versions /\ Flags
    <2> SUFFICES ASSUME Init PROVE Places /\ Versions /\ Flags
      OBVIOUS
    <2>1. config.inputs \in Nat \ {0}
      BY ConfigsAssumption DEF Init, Config
    <2>2. Places
      BY <2>1 DEF Init, Places, MainStates, OutStates
    <2>3. Versions
      BY MaxImagesAssumption DEF Init, Versions, Black
    <2>4. Flags
      BY Zenon DEF Init, Flags
    <2>5. QED
      BY <2>2, <2>3, <2>4
  <1>2. Places /\ Versions /\ Flags => TypeOK
    BY DEF Places, Versions, Flags, TypeOK
  <1>3. QED
    BY <1>1, <1>2, IInvAlways, PlacesStep, VersionsStep, FlagsStep, PTL DEF Spec
=============================================================================
