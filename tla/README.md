# TSscatterfix in TLA+

Specifications of the programs `tsscatterfix` and `scatterfix-contest`, which
repair MPEG transport streams received over amateur television links and recover
pictures from damaged ones. Paths such as `src/repair.c` are relative to the
repository; quoted documentation is its `README.md`.

The modules are written to be read beside the code: one module per component,
one action per function, step or callback of it. TLC checks each on a small
instance, TLAPS proves what is listed under *Proofs* for every value of the
constants.

## The system

| part | code | state it keeps | operations |
|---|---|---|---|
| repair engine | `src/scatterfix.c`, `src/repair.c`, `src/psi.c` | PSI cache, restamped counters, injection clock, partial packet, sticky failure flag, statistics | `feed`, `finish`, `reset`; per packet: replace, filter, restamp, inject, write |
| framing | `scatterfix_feed`, `sf_recovery_feed` | the partial packet | cut chunks into packets |
| continuity | `src/continuity.c`, `packet()` of `src/recovery.c` | last counter per PID, counts | judge a counter |
| timestamp smoothing | `clean_ts_smooth_timestamps` | expected PTS and PCR | pass or replace a stamp |
| image recovery | `src/recovery.c` | access unit, parameter sets, candidate pictures, best score | `feed`, `analyze`, `finish`, `reset`; ranking, voting, eviction |
| live output | `tools/contest_cli.c` | picture to publish, two threads, flags | receive, replace the picture, publish, shut down |
| main loop, UDP output | `src/main.c`, `src/io.c` | open files and sockets, datagram buffer, file position | open, read, feed, loop, flush, close |
| UDP input | `ts_input_read` of `src/io.c` | the rest of the last datagram, the packet being read | receive, poll the R key, read |
| contest ring | `src/contest.c` | ring of fragments, their bytes, counts per PID | observe, report |
| role model | `src/ml_model.c` | weights and last hashes per PID, the state file | observe, report, load, save |
| ranking model, training | `src/rank_model.c`, `tools/model.c` | weights | load, score, fit |
| FFmpeg | `src/media.c` | codec contexts | decode, encode |
| file reader | `src/ts_parser.c` | read buffer | next packet (called by no program) |

`main.c` reads bytes and calls `scatterfix_feed`; the engine cuts packets, asks the PSI
cache what they are, repairs them, shows them to the observers (continuity, contest
ring, role model) and calls the write callback, which collects datagrams.
`contest_cli.c` reads bytes and calls `sf_recovery_feed` and `sf_recovery_analyze`; the
engine calls back with candidates and pictures; the picture is shared with an output
thread under a mutex. Everything else is sequential: the hard behaviour is in long
sequences of packets, in what happens after a failure, a reset, a crash or a change of
the stream, in counters and rings that wrap, and in the two threads.

What makes each part correct:

- **repair engine**: no flagged packet leaves in sanitize or clean mode; the
  cadence is kept; nothing is written that was not received; restamped counters
  are contiguous.
- **framing**: chunk boundaries do not show; every byte is accounted for.
- **continuity**: gaps, repetitions and late packets are told apart.
- **smoothing**: what leaves runs forward; undamaged stamps survive damaged ones.
- **recovery**: the budget holds; a picture consists of parts of one stream;
  the best candidates are tried first; every call returns.
- **live output**: whole pictures are sent, the newest among them; failures of
  either thread end the program and show in its exit status.
- **main loop**: what is opened is closed once, whatever fails; the buffer is not
  overrun; packets leave in order; success means delivery; the program ends.
- **UDP input**: what was received is fed, in order, whenever the key is pressed;
  whole packets stay whole; the program keeps up.
- **observers**: the ring holds the last fragments, and its byte count and its list
  of PIDs agree with them; repetitions are counted; a run loads only what was saved
  for a PID, and certain knowledge outlasts a run that does not hear of the PID.

## Modules

| module | what it models | proofs |
|---|---|---|
| `Psi` | `psi.c`: parsing of PAT, PMT, SDT into the cache; operators on a PSI context | |
| `TsRepair` | `process_packet`, `repair_maybe_inject_psi` and `scatterfix_reset`; EXTENDS `Psi` | `TsRepair_proofs` |
| `TsFraming` | `scatterfix_feed`, `_finish`, `_reset` on bytes, beside a byte-at-a-time framer | `UdpInput_proofs` |
| `UdpInput` | the framer under its two callers: an embedding host, and `main.c` with `ts_input_read` on datagrams; EXTENDS `TsFraming` | `UdpInput_proofs` |
| `Continuity` | both continuity trackers, with a sender and a channel | `Continuity_proofs` |
| `Timestamps` | `clean_ts_smooth_timestamps`, with a sender and a channel | `Timestamps_proofs` |
| `BestImage` | abstract: an application is shown better and better pictures of one stream | `Recovery_proofs` |
| `Recovery` | `recovery.c`; implements `BestImage` | `Recovery_proofs` |
| `LiveOutput` | the two threads of `contest_cli.c` | `LiveOutput_proofs` |
| `MainLoop` | `main.c` from its start to its end, over a file, with the UDP output of `io.c` | `MainLoop_proofs` |
| `ObservedPackets` | what the observers look at in a packet | |
| `ContestRing` | `contest.c`: the ring and the list of PIDs; EXTENDS `ObservedPackets` | `Observers_proofs` |
| `RoleModel` | `ml_model_observe`: repetitions and weights; EXTENDS `ObservedPackets` | `Observers_proofs` |
| `Observers` | ring and role model composed as in `process_packet`, run after run, with the state file; EXTENDS `ContestRing`, `RoleModel` | `Observers_proofs` |

`MC*.tla` give the constants their values. Definitions named `*_Mutant` are
plausible bugs of the definition after them; no specification uses them, and
replacing the definition by its mutant makes TLC report the property it is listed
with in `PROJECT.json`.

### State and actions

**TsRepair.** A packet is a record: PID, counter, flags, and the section it
carries, if any. `Receive` takes the next packet from `Inputs`. `AcceptPacket` is
`process_packet` up to its writes: replacement of flagged tables (`ReplaceTei`),
of bad ones (`ReplaceBadPsi`), `PsiObserve`, `Filter`, the two restampings, and
whether an injection is due. From then on each write is a step (`Write`,
`WriteFails`), because the callback may fail at each: `pc` says which comes next,
`held` is the accepted packet. `Reset` is `scatterfix_reset`, between packets.
The injection clock becomes a choice at every packet; `injectedOnce` is kept
because the first injection waits for no clock.

**TsFraming.** One action for each path through the loop of `scatterfix_feed`:
`Skip`, `Buffer` and `Complete`. `Feed` starts a call, `Finish` and `Reset` come
between calls. `ref` is the definition it is compared with.

**UdpInput.** `live` tells the two callers apart: `Host` is any step of `TsFraming`;
for `main.c`, `at` is the place in the loop, `udp` what is left of the datagram and
`raw` what has been read of a packet. `Take`, `Idle`, `Receive` and `ReadNothing` are
the branches of `ts_input_read`, of which `Idle` and `Receive` poll the R key;
`PollKey`, `FeedRaw`, `FeedWorks`, `FeedReturned` and `LimitReached` (the end by
`--max-packets`, after any number of packets) are the loop of `main.c`. The
network is `Datagrams`: any, or with `whole` any that consist of whole packets, so that
loss, repetition and reordering of datagrams are contained.

**Continuity.** `Observe` is `continuity_observe`, `Evaluate` the tracker of
`recovery.c`; both are applied to every packet delivered. The sender and the
channel (`Lose`, `Deliver`, `Repeat`, `Late`, `Filler`, `Announce`,
`AnnounceSilently`) are not code of the repository; they are marked external. A jump
announced silently, in a packet without payload, is seen by `continuity.c` only.

**Timestamps.** `Smooth` is one call of `clean_ts_smooth_timestamps` that finds a
PTS (with its DTS) or a PCR. `Wrap` is 2^33, `Tick` 3600 and `MaxJump` 90000 in
the code; what counts is their order, `Tick <= MaxJump < Wrap / 2`. `next` is
unmasked, as in the code. `wild` says whether the behaviour is one of a channel
that may do anything, for which `Healed` promises nothing. The first stamp after the
start or a reset may be damaged like any other, and the code takes it as the base of the
clock; `sound` are the clocks whose first stamp was undamaged, and only of these `Healed`
speaks. When the first stamp is the damaged one, it passes, and the undamaged stamps after
it are the ones that are rewritten, as in an outage.

**Recovery.** Sizes are counted in packets, a NAL unit is the packets of the unit
that carry its kind, the score is a sum over packets. A call of `feed`, `analyze`
or `finish` is one step that changes the unit and the candidates (`EndUnit` and
`Harvest` are `finish_pes`) and sets `passes`. A pass is `analyze`: `Sort` is the
insertion sort at its head, which must have been made (`InOrder`) before anything else
of the pass, and leaves `order`; then follows one step per callback: `Try`, which goes on
to the next candidate of the order that is untried, `Vote`, which goes on to the next size
that several candidates share, `CallbackFails`, and `EndPass`. `Place` is the inner loop
of the sort, `Sorted` its outer one, as a recursive function. `held` is the packet whose
start triggered a pass. `Switch` is a PMT that names another video stream. `gathered`,
`origin` and the field `from` of a candidate are history: the streams whose packets went
into the unit, into each parameter set and into the candidate.

**LiveOutput.** `main` and `out` are the places of the two threads; a step is what
happens between two places where the other thread could notice. `Start` is all that is
opened before the loop (logs, engine, output, thread), and may fail at any of it, to the
same end. `lock` is the
mutex, `best` the picture's version, or `NoPixels` between free and replacement.
`faults` and `sent` are history.

**MainLoop.** `pc` is the place in `main`. `Acquire` opens the next thing the command
line names, `Refuse` is the error path of each, with what it closes by hand
(`Abandons`), `EnterLoop` the end of the start; `held` counts what is open. `Read`,
`Feed` and `Fed` are an iteration of the loop, `Collect`, `FillAndSend` and
`FillAndFail` a call of `ts_output_write_packet`, `EndOfFile` and `Rewind` the end of a
pass, `Finish`, `Flush` and `Close` the shutdown.

**Observers.** `Hear` is what the observers do with a packet in `process_packet`:
`StoreFragment` is `contest_observe_packet`, `ObserveRoles` is `ml_model_observe`.
`HotPids` is the loop of `print_hot_pids` over all `PidCount` PIDs, as a recursive
function; `Ranked` is one round of it, which inserts a PID at its `Place`. `RepeatsSeen`
compares `repeated` with the plain rule (one of the last `window` hashes was the same)
for every PID that has not had the hash 0: the code marks free places with 0 and stores
a hash 0 as 1, so that such a packet is never counted as repeated, and one with hash 1
after it is, against the rule. The model does both; the property makes no claim of them.
A weight is zero, at most 0.1 or more, which is what `ml_model_save` asks of it; a
weight that decays may cross from more to at most 0.1 at any packet. The program is
`down`, `up` or `saving`. `Start` creates the engine and loads the file, `Save` opens
(and truncates) it, `WriteLine` is one line of it; `CutLine` and `CutNumber` are a line
that only in part reaches the disk, after which nothing does, `Crash` is the end of a
run anywhere. `offered`, `hashed`, `meant`, `loaded` and `lasting` are history.

## Runs

All runs use `Spec`, `framing` uses `UdpSpec`. Deadlock is checked except where noted.

| run | checks | instance | states |
|---|---|---|---|
| `repair_all_modes` | `TypeOK`, `TeiFree`, `CadenceKept`, `WrittenWasReceived`, `PsiCcContiguous`, `VideoCcContiguous` | 4 packets, every mode, a PMT PID that moves, counters modulo 3 | 387,020 |
| `repair_stale_pmt` | `InjectedPmtPassesFilter` is violated | clean mode with injection | |
| `framing` | `TypeOK`, `ChunksDoNotMatter`, `HandedIsPrefix`, `BytesAccounted`, `FeedReturns`; `DatagramsInOrder`, `WholePacketsSurvive`, `KeepsUp` | packets of 3 bytes; a host with 9 bytes in chunks up to 5; datagrams up to 6, 7 bytes received | 124,569 |
| `continuity` | `LossesCounted`, `RecoveryExact`, `CleanMeansClean` | 4 packets, bursts up to 15, two counters to start at or announce | 2,510,864 |
| `continuity_exact` | `MissingIsLost` is violated | losses only | |
| `timestamps` | `Healed`, `RunsForward` | 3 packets, a clock of 8 ticks, a sender at 25 frames or fewer with damage and outages, or arbitrary stamps | 202,074 |
| `timestamps_outage` | `SteadyStampsPass` is violated | 4 packets, outages longer than `MaxJump` | |
| `recovery` | `BudgetRespected`, `PreviewSuperseded`, `OneStream`, `BestFirst`, `ImagesImprove`, `CallsReturn` | one stream with every mode of analysis, pictures of three scores in any order, and two streams with changes between them; budget 4, 3 candidates, parameter sets up to 2 | 214,034 |
| `recovery_finish` | `FinishTriesAll` is violated | an allowance of one | |
| `live_output` | `SendsWhole`, `ExitTellsFaults`, `NewestPublished`, `StopsWhenTold` | 2 pictures, all kinds of output | 6,750 |
| `main_loop` | `ClosedOnce`, `RoomToWrite`, `InOrderOnce`, `SuccessIsDelivery`, `EndsWithInput` | every start, files of 0, 2 and 4 packets, datagrams of 3, up to 4 writes per packet | 2,939 |
| `observers` | `RingIsRecent`, `BytesStored`, `HottestListed`, `RepeatsSeen`, `LoadedWasSaved`, `KnowledgeLasts` | a ring of 2 and a list of 2 with 3 of 4 PIDs and 4 packets; windows of 3 and 2 with 5 packets; any number of runs of 2 packets with the state file | 488,543 |

Type invariants are checked where they are not shallow (`TypeOK` of `TsRepair`, of which
the slots of the cache are part, and of `TsFraming`, which says that the packet buffer
is never full); those of `Continuity`, `LiveOutput` and `MainLoop` are proved.

Why the bounds are enough: four packets suffice to cache a table, damage the next, move
the service and inject, and to restamp across the wrap of a counter modulo 3 before and
after such a move; that a third restamped video packet goes on where the second left off
is beyond them and covered by the theorem. Nine bytes are three packets, or garbage
between and after two; datagrams up to 6 bytes are less than a packet, parts of two, or
two, and 7 bytes leave one pending behind two packets. Bursts up to 15 are all the
four-bit counter can show, and two bursts with a late packet or a repetition between
them fit in four packets; the two starting counters let the wrap fall before, inside and
after a burst. Three stamps are one to lock on, one that is damaged or late, and one to
see what that left behind, in every position relative to the wrap. In `Recovery`, a
budget of four packets and three candidates forces eviction by either limit with four
packets and an oversized unit with five, and parameter sets of three packets are above
their limit of two; the stream change needs a picture before and after it, and four
packets are these and two that damage or complete one. For the sort three candidates
with three scores come sorted, reversed, rotated and with equals, and again after one or
two of them were tried; an allowance of two shows the order of the first two. That the
sort is right for every number of candidates is proved. In `LiveOutput` two pictures let
one arrive while the other is sent. `MaxWrites` exceeds the datagram, so that one packet
read can fill it, fail, and leave packets behind. In `Observers` four packets wrap a
ring of two twice and let a third PID push one off a list of two; five packets wrap the
windows of three and two; the number of runs, saves and crashes is not bounded. The
bounds `MaxPackets`, `MaxBytes`, `MaxChunk`, `MaxDatagram`, `MaxReceived`, `MaxImages`,
`MaxBurst`, `Bases`, `MaxWrites` and the `limit` in the configurations of `Recovery` and
`Observers` are the only ones; each is commented where it is declared, and limits what
the environment does, never what the code does.

`CHECK_DEADLOCK FALSE` is set for the models of a sender and a channel
(`Continuity`, `Timestamps`), which end when their packets are used up.

### Fairness

- `TsFraming`, `UdpInput`: the loop of `feed` goes on once it was called (`Returns`), and
  `main.c` goes on wherever it does not wait for the network (`Proceeds`). No datagram
  need ever arrive, and no key be pressed.
- `Observers`: none; its properties are of safety.
- `Recovery`: `WF(Engine)`: a call that has been made goes on; callbacks return.
- `MainLoop`: `WF(Step)`: opening and reading a file, sending and repairing return. Read
  errors and the reset key carry no fairness.
- `LiveOutput`: weak fairness for each thread: `select` waits 100 ms at most,
  `thrd_sleep` 10 or 100 ms, sends return. Strong fairness for taking the lock:
  each user releases it and then sleeps or reads before it asks again, so the
  other finds it free infinitely often and gets it. Arrival of input, pictures,
  signals and failures carry none (`Outside`).

## Findings

- `repair_stale_pmt`: after the PAT has moved the PMT, the packet cached on the
  old PID goes on being injected, although clean mode promises that other PIDs are
  nulled after the lock.
- `continuity_exact`: `missing` is one too many per burst; `recovery.c` counts
  the same gap correctly.
- `recovery_finish`: `sf_recovery_finish` makes one pass of `max_candidates`,
  where README.md says it tries the remaining candidates.
- `timestamps_outage`: after an outage longer than `max_jump` the stamps of a sender that
  is undamaged and perfectly regular are "outliers" for ever, because the expected clock
  advances by a frame for each and never jumps to the sender's.

`PROJECT.json` quotes the lines.

## Proofs

| theorem | property |
|---|---|
| `TsRepair_proofs!TypeCorrect` | `TypeOK` |
| `TsRepair_proofs!TeiNeverLeaves` | `TeiFree` |
| `TsRepair_proofs!Cadence` | `CadenceKept` |
| `TsRepair_proofs!NothingInvented` | `WrittenWasReceived` |
| `TsRepair_proofs!PsiCountersContiguous`, `!VideoCountersContiguous` | `PsiCcContiguous`, `VideoCcContiguous` |
| `UdpInput_proofs!PendingNeverFull`, `!NoByteUnaccounted` | `TypeOK`, `BytesAccounted`, under both callers |
| `UdpInput_proofs!BoundariesDoNotShow`, `!HandedOnIsPrefix` | `ChunksDoNotMatter`, `HandedIsPrefix`, under both callers |
| `UdpInput_proofs!BytesInOrder`, `!WholePacketsGetThrough` | `DatagramsInOrder`, `WholePacketsSurvive` |
| `Continuity_proofs!MissingOvercountsByBursts`, `!RankingCountsLosses`, `!CleanIsEarned` | `LossesCounted`, `RecoveryExact`, `CleanMeansClean` |
| `Recovery_proofs!RecoveryImplementsBestImage`, `!CandidatesOfOneStream`, `!PreviewsLeaveNoTrace` | `ImagesImprove`, `OneStream`, `PreviewSuperseded` |
| `Recovery_proofs!BudgetIsRespected`, `!PassesTryBestFirst` | `BudgetRespected`, `BestFirst` |
| `Recovery_proofs!CallsLeaveLessToDo` | the descent on which `CallsReturn` rests (in no run) |
| `Timestamps_proofs!StampsRunForward`, `!DamageHeals` | `RunsForward`, `Healed` |
| `LiveOutput_proofs!WholePicturesSent`, `!ExitStatusCorrect` | `SendsWhole`, `ExitTellsFaults` |
| `MainLoop_proofs!BufferHasRoom`, `!NothingSkipped`, `!ExitZeroMeansSent` | `RoomToWrite`, `InOrderOnce`, `SuccessIsDelivery` |
| `MainLoop_proofs!AllClosed` | `ClosedOnce` |
| `Observers_proofs!RingHoldsRecent`, `!BytesAreCounted`, `!HottestAreListed` | `RingIsRecent`, `BytesStored`, `HottestListed` |
| `Observers_proofs!RepeatsAreCounted` | `RepeatsSeen` |
| `Observers_proofs!OnlySavedIsLoaded`, `!KnowledgeIsLasting` | `LoadedWasSaved`, `KnowledgeLasts` |
| `TypeCorrect` of `Continuity_proofs`, `LiveOutput_proofs`, `MainLoop_proofs` | `TypeOK` (in no run) |

They rest on the assumptions named with the constants and on these: the two counter
theorems on `MuxWellFormed`, that no PID carries both SI and video (one counter is
stamped over the other otherwise). Those of `Continuity` need one, `BurstAssumption`,
that no burst exceeds fifteen packets: a counter of four bits cannot show a sixteenth.
`LossesCounted` and `RecoveryExact` say themselves up to which burst (seven and eight
packets) and for which order the counter is unambiguous, and the history variables
`longest` and `lates` record what the channel did. `DamageHeals` rests on `SendsFrames`:
between two stamps the sender's clock advances by a frame at least, as the header of the
module says of it, and by so little that what is within `MaxJump` ahead is not mistaken
for late (with the constants of the code, by less than 13 hours). It speaks, as `Healed`
does, of clocks whose first stamp was undamaged. Without the lower bound the theorem is
false, and the code is strict about it: a stamp that is early by one tick is replaced.
`RunsForward` needs neither.

The arguments:

- **TsRepair.** `TeiFree` is not inductive: a flagged packet must not have been cached
  either. The invariant says of the held packet, of each cached table and of what an
  interrupted injection has still to write that it is clean, received since the reset,
  and carried by the PID its slot stands for. `CadenceKept` counts the tables of the
  present injection by where `pc` stands. The counters need that `psiNext` is one more
  than the counter last written on the PID, or that the packet with that counter is the
  one held.
- **TsFraming**, under any host and under `main.c`, whose reads are chunks like any
  other. Bytes are conserved by each branch of the loop; the length of the pending
  packet is what the block copied leaves. The reference takes a chunk by a fold, whose
  value is shown to be the last state of a run through the chunk. While `feed` works,
  the reference is where the engine will be when the chunk is used up, because copying a
  block is taking its bytes one by one (by induction over its length); after a failure
  the engine stops behind it, and what was handed on stays the beginning of what the
  reference has.
- **UdpInput.** What was fed, read and is left of the datagram, in this order, is what
  arrived. With whole packets, what is left of a datagram is whole packets, a read that
  has begun is complete, and nothing is pending when feed is called; this needs that a
  remainder does not change when the divisor is added, which is proved from scratch.
- **Continuity.** Both trackers always hold the last counter that arrived. Until a
  packet arrives late, it is the sender's `next` minus the gap, which determines `delta`
  as long as the gap does not exceed the tracker's half of the circle. The tracker of
  `recovery.c` falls behind by a silent jump, which costs it one error whatever the
  difference. An account with no error saw every packet follow the one before: no loss
  of one to fifteen packets leads back to the counter expected, so that none happened,
  and with none there is no burst of which a packet could arrive late.
- **Recovery.** A step of `Recovery` changes `best` only through `Decode`, to a higher
  score, or together with a change of stream or a reset, which are steps of `BestImage`.
  `OneStream` is not inductive: what is collected must also come from the stream and
  from no other, and a unit of which nothing is collected holds no parameter set;
  eviction keeps a subsequence, from the least index whose rest fits (the least one
  exists because the natural numbers are well-founded). For `PreviewSuperseded` no
  candidate is of a unit yet to come, so that a preview of the present unit is the last
  of the list, and taking it out leaves an end to append to. `retained` is the sum of
  the sizes of the candidates: appending, taking a preview out, eviction and a reset
  change the sum as they change the count, for which the fold over the list is split at
  any place. The insertion sort keeps what is sorted sorted, and a permutation: those in
  front of the place found score no less, those behind it less, and the newcomer is
  younger than all; the rounds are the values of a recursive function, shown to exist.
  The first of the order that is untried is then ahead of every other that is. Each step
  of a call ends a pass, adds the packet that waits, finds the order, takes a candidate
  off those to try, or leaves these and takes a size off those to vote about
  (`CallsLeaveLessToDo`): with the fairness of `Engine`, this is why calls return.
- **Timestamps.** Modulo `Wrap` the last stamp that left is `next` minus a frame, and
  the one that leaves is `next` plus 0 to `MaxJump`; the rest is arithmetic modulo
  `Wrap`, proved from scratch. Without wild damage, the sender is never behind that last
  stamp, and at most `MaxJump` and a frame ahead of it, so that its next stamp is no
  outlier; replacing a damaged one advances `next` no further than the sender's clock
  advances.
- **LiveOutput.** Who holds the lock is determined by where the threads are; the second
  thread has ended when the main thread closes; a fault is in `failed`, in
  `outputFailed`, or the output thread is about to report it.
- **MainLoop.** The buffer is full only after a failed datagram, which ends the loop;
  what was sent followed by what is collected is the sequence of everything written;
  after a flush without failure nothing is collected. What is open is always what comes
  first in `Order`, and each error path closes just that.
- **Observers.** Going back from `next_slot` the slots hold the last fragments; until
  the ring is full, `next_slot` is their number. The slots not yet used hold no bytes,
  so that overwriting one changes the sum over the slots by what `bytes_stored` is
  changed by; the sum takes its slots in an arbitrary order, and is shown not to depend
  on it. After each round of `print_hot_pids` the list is one of the PIDs looked at so
  far: sorted, none twice, and a PID that is not in it had no more than any of a full
  list. A slot of the ring of hashes is as old as the number of hashes that came since,
  and holds the one that old; a hash is in the ring exactly when it came within the
  window. The file has the lines of `meant`, but the last one may be cut. While a file
  is saved, each PID to be saved is due or has a line, no PID two; who was not heard has
  the weights it was loaded with.

Sums, folds and recursive functions need induction over data. The induction theorems of
the library take a predicate as a parameter, which the provers cannot instantiate;
`NatSetInduction` states induction for a set instead, and follows from the
well-foundedness of the natural numbers. With it a function that is defined recursively is
shown to exist, and what it computes is shown argument by argument.

Every safety property of a passing run, and the refinement of `BestImage`, is proved.
Only model-checked is liveness (`FeedReturns`, `KeepsUp`, `CallsReturn`,
`NewestPublished`, `StopsWhenTold`, `EndsWithInput`), which TLAPS does not prove under
fairness; of `CallsReturn` the descent it rests on is proved.

## Not modelled

The file reader, which no program of the repository calls; the ranking model and its
training, which are arithmetic in floating point; decoding and encoding, which wrap
libavcodec and appear as nondeterministic outcomes; option parsing, the pacing of
datagrams, and all printing but the list of `print_hot_pids`. Of `psi.c`, the
confidences of candidates, which influence nothing but a log, and the SDT names; of
`contest.c`, the counters by kind of fragment; of `ml_model.c`, the moving averages of
intervals. A state file with a hole in it, from a disk that is full for a while only, is
not modelled: `CutLine` and `CutNumber` end the saving. Byte layouts
(packet headers, sections, NAL units, CRC, PES headers) are abstracted to the
records the code derives from them. Memory exhaustion is modelled only where the
code handles it as an event of its own (`image_ready`).

## Plan

Done: the repair engine with its PSI cache, framing, UDP input, continuity, image recovery
with its abstract specification, the two threads, the main loop with its start and
shutdown, timestamp smoothing, and the observers with the state file.

What would add most next:

1. `Recovery` composed with `LiveOutput` through `BestImage`: the picture published
   is never worse than the one before, until the stream changes.
2. Proofs about `psi.c`: what the cache holds for a PID after a run of `Receive`, beyond
   what `TeiFree` and `WrittenWasReceived` need.
3. The candidate lists of `psi.c` (eviction of the weakest).
