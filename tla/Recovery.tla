------------------------------ MODULE Recovery ------------------------------
(***************************************************************************)
(* Image recovery: src/recovery.c.  The packets of one video stream are    *)
(* collected into access units (PES); the parameter sets found in a unit   *)
(* are kept, and a unit with a key frame becomes a candidate picture.  An  *)
(* analysis pass tries the candidates in the order of their scores, a      *)
(* limited number per pass, with one call of the caller's callback each,   *)
(* and then optionally votes between candidates of one size.               *)
(*                                                                         *)
(* A call of sf_recovery_feed, _analyze or _finish is a first step that    *)
(* changes the unit and the candidates, and one step for each callback     *)
(* that its passes make.  Sizes are counted in packets.  A NAL unit is the *)
(* packets of the unit that carry its kind; every feature that enters the  *)
(* score is a sum over packets, and a packet's share is its merit.         *)
(***************************************************************************)
EXTENDS Integers, Sequences, FiniteSets, SequencesExt

CONSTANTS
    Streams,     \* video PIDs with their codec
    Packets,     \* the packets the stream may bring
    Configs,     \* the configurations the caller may choose, each with what
                 \* the channel then brings: streams, packets and how many
    HalfBudget,  \* max_bytes/2, the limit of a unit and of all candidates
    Capacity,    \* 256 in the code
    HeaderLimit, \* 65536 bytes, the limit of a parameter set
    NoStream, NoPacket, Nothing

ParameterSets == {"vps", "sps", "pps"}
Kinds == ParameterSets \cup {"key", "slice"}
Packet == [start : BOOLEAN, nals : SUBSET Kinds, merit : Int]
Codecs == {"h264", "h265"}
Config == [live : BOOLEAN, decode : BOOLEAN, vote : BOOLEAN, allowance : Nat \ {0},
           codec : Codecs \cup {"auto"}, source : Streams \cup {NoStream},
           streams : SUBSET Streams, brings : SUBSET Packets,
           limit : Nat]          \* bound: packets fed in a behaviour

ASSUME StreamsAssumption ==
    \A s \in Streams : s \in [pid : Nat, codec : Codecs]
ASSUME NoStreamAssumption == NoStream \notin Streams
ASSUME PacketsAssumption == Packets \subseteq Packet /\ NoPacket \notin Packets
ASSUME ConfigsAssumption ==                      \* "auto" starts as h264
    /\ Configs \subseteq Config
    /\ \A c \in Configs : c.source # NoStream =>
          c.source.codec = IF c.codec = "auto" THEN "h264" ELSE c.codec
ASSUME BoundsAssumption ==
    HalfBudget \in Nat \ {0} /\ Capacity \in Nat \ {0} /\ HeaderLimit \in Nat \ {0}
ASSUME NothingIsNoScore == Nothing \notin Int

VARIABLES
    config,      \* SfRecoveryConfig, fixed at creation
    stream,      \* pid and codec
    unit,        \* the unit being collected: packets per kind of NAL unit
    size,        \* pes_size
    packets,     \* current.values[1], the packets it is made of
    worth,       \* its score so far
    dropping,    \* it is too large and is given up
    preview,     \* preview_size, how much of it analyze has looked at
    headers,     \* header_sizes
    version,     \* header_version
    cands,       \* the candidates, oldest first
    retained,    \* bytes they hold
    dirty,       \* something to vote about is new
    units,       \* status.access_units
    frames,      \* status.frame_version
    best,        \* status.best_score
    failed,
    passes,      \* analysis passes left in this call
    order,       \* order, empty before it is sorted and when there is no pass
    tried,       \* candidates tried in this pass
    voted,       \* how far the loop of the votes has come in the order
    held,        \* a packet that waits for the pass its start triggered
    (* history, read by the properties only *)
    fed, whole, finished,
    gathered,    \* the streams whose packets are in the unit
    origin       \* those that each parameter set is from

collecting == <<unit, size, packets, worth, dropping, preview, gathered>>
learned    == <<headers, version, cands, retained, dirty, origin>>
published  == <<frames, best>>
calling    == <<passes, order, tried, voted, held>>
history    == <<fed, whole, finished>>
vars == <<config, stream, collecting, learned, units, published, failed, calling, history>>

None == [k \in Kinds |-> 0]
NoHeaders == [h \in ParameterSets |-> 0]
NoOrigin == [h \in ParameterSets |-> {}]
Required == IF stream # NoStream /\ stream.codec = "h265"
            THEN ParameterSets ELSE {"sps", "pps"}
HeadersComplete == \A h \in Required : headers[h] > 0
Returned == passes = 0 /\ held = NoPacket
-----------------------------------------------------------------------------
(* The insertion sort at the head of analyze: a candidate goes behind the  *)
(* last one of those sorted so far whose score is no smaller.              *)
Place_Mutant(list, i) ==                         \* compares with what is not in that place
    1 + Max({0} \cup {k \in DOMAIN list : cands[k].score >= cands[i].score})
Place(list, i) ==
    1 + Max({0} \cup {k \in DOMAIN list : cands[list[k]].score >= cands[i].score})
Sorted ==
    LET list[n \in 0 .. Len(cands)] ==
            IF n = 0 THEN <<>> ELSE InsertAt(list[n - 1], Place(list[n - 1], n), n)
    IN list[Len(cands)]
InOrder == Len(order) = Len(cands)

(* The walk along the order passes over the candidates that were tried     *)
(* with the present parameter sets; 0 is its end.                          *)
Untried(i) == cands[i].emitted # version
NextUntried == SelectInSeq(order, Untried)
Ranked == InOrder /\ (tried = config.allowance \/ NextUntried = 0)

(* A second walk holds a vote for each size that several candidates share, *)
(* at the first of them.                                                   *)
Leads(k) ==
    LET same == {j \in DOMAIN order : cands[order[j]].size = cands[order[k]].size}
    IN same # {k} /\ \A j \in same : k <= j
Votes == {k \in DOMAIN order : k > voted /\ Leads(k)}
Voting == config.vote /\ dirty /\ Votes # {}
-----------------------------------------------------------------------------
(* finish_pes: the parameter sets of the unit replace smaller ones, unless *)
(* they are too large.                                                     *)
Larger == {h \in Required : unit[h] > headers[h] /\ unit[h] <= HeaderLimit}
Learn ==
    /\ headers' = [h \in ParameterSets |-> IF h \in Larger THEN unit[h] ELSE headers[h]]
    /\ version' = version + Cardinality(Larger)
    /\ origin' = [h \in ParameterSets |-> IF h \in Larger THEN gathered ELSE origin[h]]

(* A unit with a key frame replaces what a preview of the same unit left,  *)
(* and the oldest candidates make room for it.                             *)
IsPicture == unit["key"] > 0 /\ ~dropping
Candidate == [index |-> units, codec |-> stream.codec, score |-> worth,
              size |-> unit["key"], emitted |-> 0,
              from |-> gathered]     \* history, the streams its packets are of

SameUnit_Mutant(c) == FALSE                      \* the preview stays
SameUnit(c) == c.index = units
Replaced == SelectInSeq(cands, SameUnit)
Others == IF Replaced = 0 THEN cands ELSE RemoveAt(cands, Replaced)
OthersHold == IF Replaced = 0 THEN retained ELSE retained - cands[Replaced].size
SizeOf(cs) == FoldLeft(LAMBDA n, c : n + c.size, 0, cs)

(* The number of candidates evicted; evicting them all is always enough.   *)
Fits_Mutant(k) ==                                \* the new candidate is not counted
    Len(Others) - k < Capacity /\ OthersHold - SizeOf(SubSeq(Others, 1, k)) <= HalfBudget
Fits(k) ==
    /\ Len(Others) - k < Capacity
    /\ OthersHold - SizeOf(SubSeq(Others, 1, k)) + Candidate.size <= HalfBudget
Evicted == Min({k \in 0 .. Len(Others) : k = Len(Others) \/ Fits(k)})

Harvest ==
    /\ Learn
    /\ dirty' = (dirty \/ Larger # {} \/ IsPicture)
    /\ IF IsPicture
       THEN /\ cands' = Append(SubSeq(Others, Evicted + 1, Len(Others)), Candidate)
            /\ retained' = OthersHold - SizeOf(SubSeq(Others, 1, Evicted)) + Candidate.size
       ELSE UNCHANGED <<cands, retained>>

EndUnit ==
    /\ Harvest
    /\ units' = units + 1
    /\ whole' = Append(whole, IF IsPicture THEN unit["key"] ELSE 0)
    /\ unit' = None /\ size' = 0 /\ packets' = 0 /\ worth' = 0
    /\ dropping' = FALSE /\ preview' = 0 /\ gathered' = {}

(* The features callback rejects the unit: the parameter sets are learned, *)
(* the unit is counted but not cleared, and the engine has failed.         *)
RejectUnit ==
    /\ Learn
    /\ dirty' = (dirty \/ Larger # {})
    /\ units' = units + 1
    /\ whole' = Append(whole, 0)
    /\ failed' = TRUE
    /\ UNCHANGED <<config, stream, collecting, cands, retained, published, calling>>

(* The payload of a packet is added, or the unit has grown too large.      *)
AddPacket(p) ==
    /\ packets' = packets + 1
    /\ worth' = worth + p.merit
    /\ gathered' = gathered \cup {stream}
    /\ IF ~dropping /\ size + 1 <= HalfBudget
       THEN /\ unit' = [k \in Kinds |-> IF k \in p.nals THEN unit[k] + 1 ELSE unit[k]]
            /\ size' = size + 1
            /\ UNCHANGED dropping
       ELSE unit' = None /\ size' = 0 /\ dropping' = TRUE
    /\ UNCHANGED preview
-----------------------------------------------------------------------------
Init ==
    /\ config \in Configs /\ stream = config.source
    /\ unit = None /\ size = 0 /\ packets = 0 /\ worth = 0
    /\ dropping = FALSE /\ preview = 0 /\ gathered = {}
    /\ headers = NoHeaders /\ version = 0 /\ origin = NoOrigin /\ cands = <<>> /\ retained = 0 /\ dirty = FALSE
    /\ units = 0 /\ frames = 0 /\ best = Nothing /\ failed = FALSE
    /\ passes = 0 /\ order = <<>> /\ tried = 0 /\ voted = 0 /\ held = NoPacket
    /\ fed = 0 /\ whole = <<>> /\ finished = FALSE

(* The caller may call again: the last call has returned success.          *)
Called == Returned /\ ~failed

Clear_Mutant ==                                  \* the parameter sets are kept
    /\ cands' = <<>> /\ retained' = 0
    /\ unit' = None /\ size' = 0 /\ packets' = 0 /\ worth' = 0
    /\ dropping' = FALSE /\ preview' = 0 /\ gathered' = {}
    /\ UNCHANGED <<headers, version, origin>>

(* clear_candidates: everything learned from one stream is given up.       *)
Clear ==
    /\ cands' = <<>> /\ retained' = 0
    /\ headers' = NoHeaders /\ version' = 0 /\ origin' = NoOrigin
    /\ unit' = None /\ size' = 0 /\ packets' = 0 /\ worth' = 0
    /\ dropping' = FALSE /\ preview' = 0 /\ gathered' = {}

Acceptable == {s \in Streams : config.source = NoStream \/ config.source.pid = s.pid}
              \cap {s \in config.streams : config.codec \in {"auto", s.codec}}

(* A PMT names another video stream, on the PID configured and of the      *)
(* codec configured, if they are.                                          *)
Switch(s) ==
    /\ Called /\ s \in Acceptable \ {stream}
    /\ Clear
    /\ stream' = s
    /\ frames' = 0 /\ best' = Nothing
    /\ finished' = FALSE
    /\ UNCHANGED <<config, dirty, units, failed, calling, fed, whole>>

Feed(p) ==
    /\ Called /\ stream # NoStream /\ fed < config.limit
    /\ fed' = fed + 1
    /\ finished' = FALSE

(* The first packet of a unit ends the one before it; the pass of a live   *)
(* engine runs before the packet is added.                                 *)
FeedStart(p) ==
    /\ p.start /\ packets > 0
    /\ Feed(p)
    /\ EndUnit
    /\ passes' = IF config.live THEN 1 ELSE 0
    /\ held' = p
    /\ UNCHANGED <<config, stream, published, failed, order, tried, voted>>

FeedRejected(p) ==
    /\ p.start /\ packets > 0
    /\ Feed(p)
    /\ RejectUnit

FeedMore(p) ==
    /\ ~p.start \/ packets = 0
    /\ Feed(p)
    /\ AddPacket(p)
    /\ UNCHANGED <<config, stream, learned, units, published, failed, calling, whole>>

AddHeld ==
    /\ passes = 0 /\ held # NoPacket /\ ~failed
    /\ AddPacket(held)
    /\ held' = NoPacket
    /\ UNCHANGED <<config, stream, learned, units, published, failed, passes, order,
                   tried, voted, history>>

(* sf_recovery_analyze: the unit is looked at as far as it has come, and   *)
(* stays; a live engine then makes a pass for it before the pass asked for. *)
Analyze ==
    /\ Called
    /\ finished' = FALSE
    /\ IF size # preview /\ ~dropping
       THEN /\ preview' = size
            /\ Harvest
            /\ passes' = IF config.live THEN 2 ELSE 1
       ELSE /\ passes' = 1
            /\ UNCHANGED <<preview, learned>>
    /\ UNCHANGED <<config, stream, unit, size, packets, worth, dropping, units,
                   published, failed, order, tried, voted, held, fed, whole, gathered>>

(* sf_recovery_finish, at the end of the input.                            *)
Finish ==
    /\ Called
    /\ finished' = TRUE
    /\ IF packets > 0
       THEN EndUnit /\ passes' = (IF config.live THEN 2 ELSE 1)
       ELSE passes' = 1 /\ UNCHANGED <<collecting, learned, units, whole>>
    /\ UNCHANGED <<config, stream, published, failed, order, tried, voted, held, fed>>

FinishRejected ==
    /\ Called /\ packets > 0
    /\ finished' = TRUE
    /\ RejectUnit
    /\ UNCHANGED fed

(* sf_recovery_reset, between two calls.                                   *)
Reset ==
    /\ Returned
    /\ Clear
    /\ stream' = config.source
    /\ frames' = 0 /\ best' = Nothing
    /\ dirty' = FALSE /\ failed' = FALSE /\ units' = 0
    /\ whole' = <<>> /\ finished' = FALSE
    /\ UNCHANGED <<config, calling, fed>>
-----------------------------------------------------------------------------
(* emit_candidate after the callback: a picture no better than the one     *)
(* shown is not decoded; a decoded one of sufficient quality is shown.     *)
Worthwhile_Mutant(score) == config.decode        \* decodes and shows them all
Worthwhile(score) == config.decode /\ (frames = 0 \/ score > best)

Decode(score, good) ==
    IF Worthwhile(score) /\ good
    THEN frames' = frames + 1 /\ best' = score
    ELSE UNCHANGED <<frames, best>>

InPass == passes > 0 /\ HeadersComplete

Sort ==
    /\ InPass /\ ~InOrder
    /\ order' = Sorted
    /\ UNCHANGED <<config, stream, collecting, learned, units, published, failed, passes,
                   tried, voted, held, history>>

Try(good) ==
    /\ InPass /\ InOrder /\ ~Ranked
    /\ LET i == order[NextUntried]
       IN cands' = [cands EXCEPT ![i].emitted = version] /\ Decode(cands[i].score, good)
    /\ tried' = tried + 1
    /\ UNCHANGED <<config, stream, collecting, headers, version, retained, dirty, origin,
                   units, failed, passes, order, voted, held, history>>

Vote(good) ==
    /\ InPass /\ Ranked /\ Voting
    /\ voted' = Min(Votes)
    /\ Decode(cands[order[Min(Votes)]].score, good)
    /\ UNCHANGED <<config, stream, collecting, learned, units, failed, passes, order, tried,
                   held, history>>

(* The candidate callback reports a failure: the call is abandoned.        *)
CallbackFails ==
    /\ InPass /\ InOrder /\ (~Ranked \/ Voting)
    /\ failed' = TRUE
    /\ passes' = 0 /\ order' = <<>> /\ tried' = 0 /\ voted' = 0 /\ held' = NoPacket
    /\ UNCHANGED <<config, stream, collecting, learned, units, published, history>>

EndPass_Mutant ==                                \* another pass is always due
    /\ passes > 0
    /\ ~HeadersComplete \/ (Ranked /\ ~Voting)
    /\ dirty' = (dirty /\ ~HeadersComplete)
    /\ order' = <<>> /\ tried' = 0 /\ voted' = 0
    /\ UNCHANGED <<config, stream, collecting, headers, version, cands, retained, origin,
                   units, published, failed, passes, held, history>>

(* A pass without the parameter sets does nothing.                         *)
EndPass ==
    /\ passes > 0
    /\ ~HeadersComplete \/ (Ranked /\ ~Voting)
    /\ passes' = passes - 1
    /\ dirty' = (dirty /\ ~HeadersComplete)
    /\ order' = <<>> /\ tried' = 0 /\ voted' = 0
    /\ UNCHANGED <<config, stream, collecting, headers, version, cands, retained, origin,
                   units, published, failed, held, history>>

Engine == Sort \/ (\E good \in BOOLEAN : Try(good) \/ Vote(good)) \/ CallbackFails
          \/ EndPass \/ AddHeld

Next ==
    \/ \E s \in Streams : Switch(s)
    \/ Reset
    \/ \E p \in config.brings : FeedStart(p) \/ FeedRejected(p) \/ FeedMore(p)
    \/ Analyze
    \/ Finish
    \/ FinishRejected
    \/ Engine

Spec == Init /\ [][Next]_vars /\ WF_vars(Engine)
-----------------------------------------------------------------------------
(* "max_bytes: total retained PES/candidate budget" (recovery.h:61): what  *)
(* the engine believes it retains is what it retains, and the unit and the *)
(* candidates stay within half the budget each, across previews that are   *)
(* replaced, evictions, oversized units and changes of stream.             *)
BudgetRespected ==
    /\ retained = SizeOf(cands) /\ retained <= HalfBudget
    /\ size <= HalfBudget
    /\ Len(cands) <= Capacity

(* Parameter sets of one stream are never put in front of a picture of     *)
(* another, nor packets of two streams into one picture: what the engine   *)
(* keeps, candidates and parameter sets, is all made of packets of the     *)
(* stream being recovered, through changes of stream in the middle of a    *)
(* unit and back (clear_candidates, recovery.c:67-76).                     *)
OneStream ==
    /\ \A i \in DOMAIN cands : cands[i].from = {stream} /\ cands[i].codec = stream.codec
    /\ \A h \in ParameterSets : headers[h] > 0 => origin[h] = {stream}

(* A unit has one candidate however often it was previewed, the candidates *)
(* are in the order of the stream, and that of a completed unit holds the  *)
(* whole picture - unless the unit outgrew the budget after its preview.   *)
PreviewSuperseded ==
    /\ \A i, j \in DOMAIN cands : i < j => cands[i].index < cands[j].index
    /\ \A i \in DOMAIN cands :
          cands[i].index < units => whole[cands[i].index + 1] \in {0, cands[i].size}

(* A pass spends its allowance on the best, and the oldest among equals:   *)
(* it tries no candidate while a better one, or an older one as good, has  *)
(* not been tried with the present parameter sets, whatever the order in   *)
(* which the candidates came (recovery.c:148-165).                         *)
BestFirst ==
    [][tried' > tried =>
         \A i, j \in DOMAIN cands :
            cands[i].emitted # cands'[i].emitted /\ Untried(j)
                => \/ cands[j].score < cands[i].score
                   \/ cands[j].score = cands[i].score /\ i <= j]_vars

(* Recovery implements what an application is promised: better and better  *)
(* pictures of one stream.                                                 *)
Promise == INSTANCE BestImage WITH Sources <- Streams \cup {NoStream},
                                   source <- stream, shown <- best
ImagesImprove == Promise!Spec

(* The loops of an analysis pass end: every call returns.                  *)
CallsReturn == ~Returned ~> Returned

(* README.md:104: "End of input: consume the final PES and try remaining   *)
(* candidates."  A pass tries at most max_candidates of them.              *)
FinishTriesAll ==
    finished /\ Called /\ HeadersComplete => \A i \in DOMAIN cands : ~Untried(i)
=============================================================================
