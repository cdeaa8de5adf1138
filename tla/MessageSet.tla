----------------------------- MODULE MessageSet -----------------------------
(***************************************************************************)
(* KafkaCodec._decode_message_set_iter() (afkak/kafkacodec.py): what a     *)
(* Consumer gets out of a fetch response, which the broker cuts off at the *)
(* size that was asked for.  Sizes are in units of four bytes: an entry is *)
(* an offset (2), a length (1) and a message.  An entry is the sequence of *)
(* offsets it holds: one, or those of a compressed message set.            *)
(***************************************************************************)
EXTENDS Naturals, SequencesExt

CONSTANTS
    Sets,      \* message sets, as sequences of entries
    Overhead   \* units of an encoded message apart from its content

ASSUME OverheadNat == Overhead \in Nat

VARIABLES
    set,      \* the message set that was encoded
    bad,      \* the entry whose checksum or codec is wrong; 0: none
    length,   \* len(data)
    cur,
    index,    \* entries read
    yielded,  \* the offsets of the messages yielded so far
    ended     \* "no", "end", "small": ConsumerFetchSizeTooSmall, "error": another exception

mvars == <<set, bad, length, cur, index, yielded, ended>>

EntrySize(e) == 3 + Overhead + Len(e)

\* len() of what _encode_message_set() makes of the first n entries.
EncodedSize(s) ==
    LET size[n \in 0 .. Len(s)] == IF n = 0 THEN 0 ELSE size[n - 1] + EntrySize(s[n])
    IN  size

\* The broker cuts the encoded set anywhere.
DecodeInit ==
    /\ set \in Sets
    /\ bad \in 0 .. Len(set)
    /\ length \in 0 .. EncodedSize(set)[Len(set)]
    /\ cur = 0 /\ index = 0
    /\ yielded = <<>>
    /\ ended = "no"

\* Mutant: a partial entry ends the set quietly.
QuietEnd == "end"

\* BufferUnderflowError: an error only if nothing was read.
Underflow == IF yielded = <<>> THEN "small" ELSE "end"

\* relative_unpack('>q') and read_int_string() raise BufferUnderflowError if the data
\* ends before the offset, the length or the message does; _decode_message() checks
\* the message and yields it, or those of the message set compressed in it.
ReadEntry ==
    /\ ended = "no" /\ cur < length
    /\ LET e == set[index + 1] IN
       IF cur + EntrySize(e) > length
       THEN ended' = Underflow /\ UNCHANGED <<cur, index, yielded>>
       ELSE IF index + 1 = bad
       THEN ended' = "error" /\ UNCHANGED <<cur, index, yielded>>
       ELSE /\ cur' = cur + EntrySize(e)
            /\ index' = index + 1
            /\ yielded' = yielded \o e
            /\ UNCHANGED ended
    /\ UNCHANGED <<set, bad, length>>

EndOfData ==
    /\ ended = "no" /\ cur >= length
    /\ ended' = "end"
    /\ UNCHANGED <<set, bad, length, cur, index, yielded>>

DecodeNext == ReadEntry \/ EndOfData

-----------------------------------------------------------------------------
(* Properties *)

\* The messages of exactly those entries that arrived whole are yielded, in order, up
\* to a corrupt one, which is always reported; and ConsumerFetchSizeTooSmall is raised
\* exactly if there are none although there is data: so a consumer makes progress,
\* hears of the error or asks for more, and skips nothing.
WholeEntriesDecoded ==
    ended # "no" =>
        LET size  == EncodedSize(set)
            whole == Max({n \in 0 .. Len(set) : size[n] <= length})
            hit   == bad \in 1 .. whole
            good  == IF hit THEN bad - 1 ELSE whole
        IN  /\ yielded = FlattenSeq(SubSeq(set, 1, good))
            /\ ended = "error" <=> hit
            /\ ended = "small" <=> (yielded = <<>> /\ ~hit /\ size[whole] < length)
=============================================================================
