----------------------------- MODULE TsFraming -----------------------------
(***************************************************************************)
(* How both engines cut a byte stream into transport packets:              *)
(* scatterfix_feed, scatterfix_finish and scatterfix_reset of              *)
(* src/scatterfix.c (sf_recovery_feed has the same loop without the resync *)
(* counter).  The caller feeds chunks of any size; the engine keeps an     *)
(* incomplete packet in a buffer, copies in blocks, skips bytes that are   *)
(* not a sync byte where a packet should begin, and stops in the middle of *)
(* a chunk when processing a packet fails.                                 *)
(*                                                                         *)
(* Beside it runs the definition of what cutting a stream means: a framer  *)
(* that takes one byte at a time and never sees a chunk boundary.          *)
(***************************************************************************)
EXTENDS Integers, Sequences, SequencesExt

CONSTANTS
    PacketSize,   \* TS_PACKET_SIZE, 188 in the code
    Sync, Other,  \* the sync byte, and any other byte
    MaxChunk,     \* bound: bytes in one call of feed
    MaxBytes      \* bound: bytes fed in a behaviour

ASSUME PacketSizeAssumption == PacketSize \in Nat \ {0, 1}
ASSUME BoundsAssumption == MaxChunk \in Nat \ {0} /\ MaxBytes \in Nat

Byte == {Sync, Other}

VARIABLES
    pending,      \* the incomplete packet
    input,        \* what is left of the chunk being fed
    failed, skipping,
    read,         \* packets handed to process_packet
    bytesDropped, resyncs, packetsDropped,
    (* history, read by the properties only *)
    fed,          \* bytes accepted by feed
    lost,         \* bytes given up by a failure or a reset
    handed,       \* the packets handed on since the last reset
    ref           \* the byte-at-a-time framer

vars == <<pending, input, failed, skipping, read, bytesDropped, resyncs,
          packetsDropped, fed, lost, handed, ref>>

LeastOf(a, b) == IF a < b THEN a ELSE b
-----------------------------------------------------------------------------
(* The reference: one byte in, at most one packet out.                     *)
RefInit == [partial |-> <<>>, packets |-> <<>>, skipped |-> 0, resyncs |-> 0,
            skipping |-> FALSE]

RefByte(r, b) ==
    IF r.partial = <<>> /\ b # Sync
    THEN [r EXCEPT !.skipped = @ + 1, !.skipping = TRUE,
                   !.resyncs = IF r.skipping THEN @ ELSE @ + 1]
    ELSE IF Len(r.partial) + 1 = PacketSize
         THEN [r EXCEPT !.partial = <<>>, !.skipping = FALSE,
                        !.packets = Append(@, Append(r.partial, b))]
         ELSE [r EXCEPT !.partial = Append(@, b), !.skipping = FALSE]

RefChunk(r, chunk) == FoldLeft(RefByte, r, chunk)

RefEnd(r) == [r EXCEPT !.skipped = @ + Len(r.partial), !.partial = <<>>]
-----------------------------------------------------------------------------
Init ==
    /\ pending = <<>> /\ input = <<>>
    /\ failed = FALSE /\ skipping = FALSE
    /\ read = 0 /\ bytesDropped = 0 /\ resyncs = 0 /\ packetsDropped = 0
    /\ fed = 0 /\ lost = 0 /\ handed = <<>> /\ ref = RefInit

(* The caller feeds a chunk; after a failure feed refuses it.              *)
Feed(chunk) ==
    /\ input = <<>> /\ ~failed
    /\ fed + Len(chunk) <= MaxBytes
    /\ input' = chunk
    /\ fed' = fed + Len(chunk)
    /\ ref' = RefChunk(ref, chunk)
    /\ UNCHANGED <<pending, failed, skipping, read, bytesDropped, resyncs,
                   packetsDropped, lost, handed>>

AtGarbage_Mutant == Head(input) # Sync   \* looks for a sync byte inside a packet
AtGarbage == pending = <<>> /\ Head(input) # Sync

Skip_Mutant ==                       \* every skipped byte counts as a resync
    /\ input # <<>> /\ AtGarbage
    /\ bytesDropped' = bytesDropped + 1
    /\ resyncs' = resyncs + 1
    /\ skipping' = TRUE
    /\ input' = Tail(input)
    /\ UNCHANGED <<pending, failed, read, packetsDropped, fed, lost, handed, ref>>

(* Out of sync: one byte is skipped, and the first of a run counts as a    *)
(* resynchronisation.                                                      *)
Skip ==
    /\ input # <<>> /\ AtGarbage
    /\ bytesDropped' = bytesDropped + 1
    /\ resyncs' = IF skipping THEN resyncs ELSE resyncs + 1
    /\ skipping' = TRUE
    /\ input' = Tail(input)
    /\ UNCHANGED <<pending, failed, read, packetsDropped, fed, lost, handed, ref>>

CopySize_Mutant == LeastOf(PacketSize, Len(input))   \* ignores what is pending
CopySizeShort_Mutant == LeastOf(PacketSize - Len(pending) - 1, Len(input))
CopySize == LeastOf(PacketSize - Len(pending), Len(input))

Copied == pending \o SubSeq(input, 1, CopySize)
Rest == SubSeq(input, CopySize + 1, Len(input))

(* A block is copied, and the packet stays incomplete.                     *)
Buffer ==
    /\ input # <<>> /\ ~AtGarbage
    /\ Len(Copied) # PacketSize
    /\ pending' = Copied
    /\ input' = Rest
    /\ skipping' = FALSE
    /\ UNCHANGED <<failed, read, bytesDropped, resyncs, packetsDropped, fed, lost,
                   handed, ref>>

(* A block completes a packet, which is processed.  ok is what             *)
(* process_packet returns; on failure the rest of the chunk is abandoned.  *)
Complete(ok) ==
    /\ input # <<>> /\ ~AtGarbage
    /\ Len(Copied) = PacketSize
    /\ pending' = <<>>
    /\ read' = read + 1
    /\ handed' = Append(handed, Copied)
    /\ skipping' = FALSE
    /\ failed' = ~ok
    /\ input' = IF ok THEN Rest ELSE <<>>
    /\ lost' = IF ok THEN lost ELSE lost + Len(Rest)
    /\ UNCHANGED <<bytesDropped, resyncs, packetsDropped, fed, ref>>

Finish_Mutant ==                     \* the partial packet is kept for later
    /\ input = <<>> /\ ~failed /\ pending # <<>>
    /\ bytesDropped' = bytesDropped + Len(pending)
    /\ packetsDropped' = packetsDropped + 1
    /\ ref' = RefEnd(ref)
    /\ UNCHANGED <<pending, input, failed, skipping, read, resyncs, fed, lost, handed>>

(* End of input: the incomplete packet is dropped.                         *)
Finish ==
    /\ input = <<>> /\ ~failed /\ pending # <<>>
    /\ bytesDropped' = bytesDropped + Len(pending)
    /\ packetsDropped' = packetsDropped + 1
    /\ pending' = <<>>
    /\ ref' = RefEnd(ref)
    /\ UNCHANGED <<input, failed, skipping, read, resyncs, fed, lost, handed>>

(* Reset, between two calls of feed: the pending bytes go uncounted, and   *)
(* the statistics stay.                                                    *)
Reset ==
    /\ input = <<>>
    /\ pending' = <<>> /\ failed' = FALSE /\ skipping' = FALSE
    /\ lost' = lost + Len(pending)
    /\ handed' = <<>>
    /\ ref' = [RefInit EXCEPT !.skipped = bytesDropped, !.resyncs = resyncs]
    /\ UNCHANGED <<input, read, bytesDropped, resyncs, packetsDropped, fed>>

Chunks == UNION {[1 .. n -> Byte] : n \in 1 .. MaxChunk}

Next ==
    \/ \E chunk \in Chunks : Feed(chunk)
    \/ Skip
    \/ Buffer
    \/ \E ok \in BOOLEAN : Complete(ok)
    \/ Finish
    \/ Reset

(* feed returns only when the chunk is used up.                            *)
Returns == Skip \/ Buffer \/ \E ok \in BOOLEAN : Complete(ok)

Spec == Init /\ [][Next]_vars /\ WF_vars(Returns)
-----------------------------------------------------------------------------
TypeOK ==
    /\ pending \in Seq(Byte) /\ Len(pending) < PacketSize
    /\ input \in Seq(Byte)
    /\ failed \in BOOLEAN /\ skipping \in BOOLEAN
    /\ read \in Nat /\ bytesDropped \in Nat /\ resyncs \in Nat /\ packetsDropped \in Nat
    /\ fed \in Nat /\ lost \in Nat

(* Chunk boundaries do not show: whenever feed has returned success, the   *)
(* packets, the partial packet and the statistics are those of the framer  *)
(* that took the same bytes one by one.                                    *)
ChunksDoNotMatter ==
    input = <<>> /\ ~failed =>
        /\ handed = ref.packets
        /\ pending = ref.partial
        /\ bytesDropped = ref.skipped
        /\ resyncs = ref.resyncs
        /\ skipping = ref.skipping

(* A failure cuts the stream, it does not disturb it: what was handed on   *)
(* before is still the beginning of what the stream contained, each packet *)
(* whole and starting at a sync byte.                                      *)
HandedIsPrefix ==
    /\ IsPrefix(handed, ref.packets)
    /\ \A i \in DOMAIN handed : Len(handed[i]) = PacketSize /\ handed[i][1] = Sync

(* Every byte accepted is in a packet, dropped, pending, still to be       *)
(* looked at, or was given up by a failure or a reset.                     *)
BytesAccounted ==
    fed = PacketSize * read + bytesDropped + Len(pending) + Len(input) + lost

(* The input loop ends: every call of feed returns.                        *)
FeedReturns == input # <<>> ~> input = <<>>
=============================================================================
