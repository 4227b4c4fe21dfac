----------------------------- MODULE LiveOutput -----------------------------
(***************************************************************************)
(* scatterfix-contest (tools/contest_cli.c) while it publishes.  The main  *)
(* thread reads its inputs, feeds the recovery engine and, in the image    *)
(* callback, replaces the picture to publish.  A second thread sends that  *)
(* picture over UDP at regular times, whether input arrives or not.  They  *)
(* share the picture, under a mutex, and three flags: stop and             *)
(* output_failed, both atomic, and interrupted, set by a signal handler.   *)
(* With --output there is no second thread: the last picture is sent once, *)
(* by the main thread, when the inputs are used up.                        *)
(***************************************************************************)
EXTENDS Integers

CONSTANTS
    Configs,     \* the command lines considered
    NoPixels,    \* the picture has no pixel buffer
    MaxImages    \* bound: pictures recovered in a behaviour

Config == [output : {"udp", "file", "none"}, limited : BOOLEAN, inputs : Nat \ {0}]

ASSUME ConfigsAssumption == Configs \subseteq Config
ASSUME MaxImagesAssumption == MaxImages \in Nat
ASSUME NoPixelsAssumption == NoPixels \notin Int

VARIABLES
    config,        \* kind of output, --max-packets given, number of inputs
    main, back,    \* where the main thread is, where image_ready returns to
    index,         \* the input being read
    out,           \* where the output thread is
    lock,          \* app.lock: "free", "main" or "out"
    best,          \* app.best: the version of the picture, 0 is black
    images,        \* pictures the engine has accepted, frame_version
    open,          \* app.output
    interrupted, stop, outputFailed, failed,
    (* history, read by the properties only *)
    sent,          \* the last version published
    faults         \* something has gone wrong

vars == <<config, main, back, index, out, lock, best, images, open, interrupted, stop,
          outputFailed, failed, sent, faults>>
threads == <<out, stop, outputFailed, sent>>
picture == <<lock, best, images, back>>
flags == <<interrupted, failed, faults>>

MainStates == {"start", "open", "receive", "ready", "swap", "install", "finish", "final",
               "linger", "stop", "join", "close", "exited"}
OutStates == {"none", "check", "wait", "sending", "report", "ended"}

Black == 0
Handled == {"open", "receive", "ready", "swap", "install", "finish", "final", "linger"}
-----------------------------------------------------------------------------
Init ==
    /\ config \in Configs
    /\ main = "start" /\ back = "receive" /\ index = 1
    /\ out = "none" /\ lock = "free"
    /\ best = IF config.output = "none" THEN NoPixels ELSE Black
    /\ images = 0 /\ open = (config.output # "none")
    /\ interrupted = FALSE /\ stop = FALSE /\ outputFailed = FALSE /\ failed = FALSE
    /\ sent = Black /\ faults = FALSE

Fault(bad) ==
    /\ failed' = (failed \/ bad)
    /\ faults' = (faults \/ bad)

(* A step of one thread that changes where it is, and what Fault says.     *)
MainTries(from, to, ok) ==
    /\ main = from /\ main' = to
    /\ Fault(~ok)
    /\ UNCHANGED <<config, index, threads, picture, open, interrupted>>
MainMoves(from, to) == MainTries(from, to, TRUE)

OutMoves(from, to) ==
    /\ out = from /\ out' = to
    /\ UNCHANGED <<config, main, back, index, best, images, open, stop, interrupted, failed>>

(* SIGINT or SIGTERM, while the handlers are installed.                    *)
Interrupt ==
    /\ main \in Handled
    /\ interrupted' = TRUE
    /\ UNCHANGED <<config, main, index, threads, picture, open, failed, faults>>

(* What is opened before the loop, of which anything may fail: the logs,   *)
(* the engine, the output with its black picture.  The output thread comes *)
(* last, and only for UDP.                                                 *)
Start(ok) ==
    /\ main = "start"
    /\ IF config.output = "udp" /\ ok THEN out' = "check" ELSE UNCHANGED out
    /\ Fault(~ok)
    /\ main' = IF failed' THEN "stop" ELSE "open"
    /\ UNCHANGED <<config, index, picture, open, interrupted, stop, outputFailed, sent>>

(* An input that cannot be opened ends the reading.                        *)
Open(ok) == MainTries("open", IF ok THEN "receive" ELSE "final", ok)

(* The receive loop.  select waits 100 ms at most, so the flags are looked *)
(* at again and again while no input arrives.  The input ends, or          *)
(* --max-packets is reached; a read, feed or analyze reports a failure.    *)
Told == interrupted \/ failed \/ outputFailed

LeaveLoop == Told /\ MainMoves("receive", "finish")
InputEnds == MainMoves("receive", "finish")
InputFails == MainTries("receive", "finish", FALSE)

(* The engine accepts a picture, in feed, analyze or finish, and calls     *)
(* image_ready, which makes its copy before it takes the lock.             *)
Image ==
    /\ main \in {"receive", "finish"} /\ images < MaxImages
    /\ images' = images + 1
    /\ back' = main
    /\ main' = "ready"
    /\ UNCHANGED <<config, index, threads, lock, best, open, flags>>

CopyFails == MainTries("ready", back, FALSE)

Acquire_Mutant == MainMoves("ready", "swap")     \* no lock is taken
Acquire ==
    /\ main = "ready" /\ lock = "free"
    /\ lock' = "main"
    /\ main' = "swap"
    /\ UNCHANGED <<config, index, threads, best, images, back, open, flags>>

FreeOld ==
    /\ main = "swap"
    /\ best' = NoPixels
    /\ main' = "install"
    /\ UNCHANGED <<config, index, threads, lock, images, back, open, flags>>

(* The copy becomes the picture; then best.png may fail to be written.     *)
Install(ok) ==
    /\ main = "install"
    /\ best' = images
    /\ lock' = "free"
    /\ main' = back
    /\ Fault(~ok)
    /\ UNCHANGED <<config, index, threads, images, back, open, interrupted>>

Another == index < config.inputs

(* sf_recovery_finish and the close of the input; then the next input.     *)
Finish(ok) ==
    /\ main = "finish"
    /\ Fault(~ok)
    /\ IF Another /\ ~interrupted /\ ~failed'
       THEN main' = "open" /\ index' = index + 1
       ELSE main' = "final" /\ UNCHANGED index
    /\ UNCHANGED <<config, threads, picture, open, interrupted>>

(* With --output the picture is sent now; then the final status is logged. *)
Sending == config.output = "file" /\ ~failed
Final(published, logged) ==
    /\ main = "final"
    /\ published => Sending
    /\ Fault(~logged \/ (Sending /\ ~published))
    /\ sent' = IF published THEN best ELSE sent
    /\ main' = IF config.output = "udp" /\ ~config.limited THEN "linger" ELSE "stop"
    /\ UNCHANGED <<config, index, out, stop, outputFailed, picture, open, interrupted>>

(* The picture is published until a signal or a failure.                   *)
Linger_Mutant == (interrupted \/ failed) /\ MainMoves("linger", "stop")
Linger == Told /\ MainMoves("linger", "stop")

Stop ==
    /\ main = "stop"
    /\ stop' = TRUE
    /\ main' = "join"
    /\ UNCHANGED <<config, index, out, outputFailed, sent, picture, open, flags>>

Join_Mutant == MainMoves("join", "close")        \* the thread is not waited for
Join == out \in {"none", "ended"} /\ MainMoves("join", "close")

(* The output is closed, the picture freed, the logs closed.               *)
Close(ok) ==
    /\ main = "close"
    /\ open' = FALSE
    /\ best' = NoPixels
    /\ Fault(~ok)
    /\ main' = "exited"
    /\ UNCHANGED <<config, index, threads, lock, images, back, interrupted>>
-----------------------------------------------------------------------------
(* The output thread.  It sleeps 10 ms between two looks at the clock.     *)
Ends == stop /\ OutMoves("check", "ended") /\ UNCHANGED <<lock, outputFailed, sent, faults>>
Due == ~stop /\ OutMoves("check", "wait") /\ UNCHANGED <<lock, outputFailed, sent, faults>>

OutAcquire ==
    /\ OutMoves("wait", "sending")
    /\ lock = "free" /\ lock' = "out"
    /\ UNCHANGED <<outputFailed, sent, faults>>

Sent_Mutant ==                                   \* one picture, then the thread ends
    /\ OutMoves("sending", "ended")
    /\ sent' = best /\ lock' = "free"
    /\ UNCHANGED <<outputFailed, faults>>

Sent ==
    /\ OutMoves("sending", "check")
    /\ sent' = best /\ lock' = "free"
    /\ UNCHANGED <<outputFailed, faults>>

SendFails ==
    /\ OutMoves("sending", "report")
    /\ faults' = TRUE /\ lock' = "free"
    /\ UNCHANGED <<outputFailed, sent>>

Report ==
    /\ OutMoves("report", "ended")
    /\ outputFailed' = TRUE
    /\ UNCHANGED <<lock, sent, faults>>

Done == main = "exited" /\ UNCHANGED vars

(* What depends on the input and on the memory left, and may never happen. *)
Outside == Interrupt \/ InputEnds \/ InputFails \/ Image \/ CopyFails

Main ==
    \/ LeaveLoop \/ FreeOld \/ Linger \/ Stop \/ Join
    \/ \E ok \in BOOLEAN :
          Start(ok) \/ Open(ok) \/ Install(ok) \/ Finish(ok) \/ Close(ok)
    \/ \E published, logged \in BOOLEAN : Final(published, logged)

Output == Ends \/ Due \/ Sent \/ SendFails \/ Report

Next == Outside \/ Acquire \/ Main \/ OutAcquire \/ Output \/ Done

(* Calls return and loops look at their flags.  Whoever waits for the lock *)
(* gets it: its other user gives it up and sleeps, or reads, before asking *)
(* for it again.                                                           *)
Spec == Init /\ [][Next]_vars /\ WF_vars(Main) /\ WF_vars(Output)
        /\ SF_vars(Acquire) /\ SF_vars(OutAcquire)
-----------------------------------------------------------------------------
TypeOK ==
    /\ config \in Configs
    /\ main \in MainStates /\ back \in {"receive", "finish"}
    /\ index \in 1 .. config.inputs
    /\ out \in OutStates /\ lock \in {"free", "main", "out"}
    /\ best \in 0 .. MaxImages \cup {NoPixels} /\ images \in 0 .. MaxImages
    /\ open \in BOOLEAN /\ interrupted \in BOOLEAN /\ stop \in BOOLEAN
    /\ outputFailed \in BOOLEAN /\ failed \in BOOLEAN
    /\ sent \in 0 .. MaxImages /\ faults \in BOOLEAN

(* What is being sent is a whole picture on an open output: it is not      *)
(* replaced meanwhile, and neither is freed under the thread at the end.   *)
SendsWhole == out = "sending" => best # NoPixels /\ open

(* Whatever went wrong, in either thread and at any time, shows in the     *)
(* exit status, and nothing else does.                                     *)
ExitTellsFaults == main = "exited" => (faults <=> (failed \/ outputFailed))

(* The newest picture is published, unless the program ends first - also   *)
(* while the input stalls and after it has ended.                          *)
NewestPublished ==
    \A v \in 1 .. MaxImages :
        (best = v /\ config.output = "udp") ~> (sent >= v \/ main = "exited")

(* A signal, or a failure of either thread, ends the program.              *)
StopsWhenTold == Told ~> main = "exited"
=============================================================================
