------------------------------- MODULE Framing -------------------------------
(***************************************************************************)
(* Transactions as frames on a byte stream. Five decoders of the           *)
(* repository read the same stream in lock-step, a frame at a time:        *)
(*   buffered       TransactionReader::read_transaction (legacy server)    *)
(*   streaming      StreamingTransaction::next_fragment, with a consumer   *)
(*                  that joins the fragments                               *)
(*   frame_codec    HotlineFrameDecoder, InboundSeriesTracker and the      *)
(*                  message assembler (wireframe server)                   *)
(*   hotline_codec  the Tokio codec HotlineCodec                           *)
(*   bincode        HotlineTransaction::borrow_decode                      *)
(* The peer sends arbitrary frames, or is one of the repository's writers. *)
(*                                                                         *)
(* A byte is named by its position in the stream and remembers the header  *)
(* it came under. `id` stands for is_reply, ty and id. Whether a payload   *)
(* is a parameter list that validates depends on `id` only. A decoder      *)
(* that returns an error has its connection closed by its caller.          *)
(***************************************************************************)
EXTENDS Integers, Sequences

Seqs == INSTANCE SequencesExt

CONSTANTS
    MAX_FRAME_DATA, MAX_PAYLOAD_SIZE,   \* sizes, in units of many bytes
    IO_TIMEOUT,                         \* in units of time
    Ids, BadIds,                        \* BadIds: the payload does not validate
    Errors,                             \* the error field
    MaxSize,                            \* bound on the sizes in arbitrary headers
    MaxFrames, MaxWrites,               \* bounds on the frames and transactions sent
    None                                \* no header, no assembly

ASSUME SizesAssumption ==
    /\ MAX_FRAME_DATA \in Nat \ {0} /\ MAX_PAYLOAD_SIZE \in Nat
    /\ IO_TIMEOUT \in Nat /\ MaxSize \in Nat
    /\ BadIds \subseteq Ids /\ Errors \subseteq Nat

Readers == {"buffered", "streaming", "frame_codec", "hotline_codec", "bincode"}

FrameHeader == [flags : {0, 1}, id : Ids, error : Errors, total_size : 0..MaxSize, data_size : 0..MaxSize]

ASSUME NoneAssumption == None \notin FrameHeader

VARIABLES
    peer,           \* "any", or "writer": this repository's writers
    wire,           \* frames the writer has sent and no decoder has seen
    sent,           \* bytes sent by the writer
    written,        \* transactions whose write returned Ok
    broken,         \* a write returned an error after some frames; the stream is abandoned
    frames,         \* number of arbitrary frames so far
    received,       \* bytes that have arrived
    reader,         \* the decoders
    next_sequence,  \* InboundSeriesState::next_sequence
    assembly        \* the message assembler's only entry: key, next sequence and metadata

writerVars == <<wire, sent, written, broken>>
vars == <<peer, wire, sent, written, broken, frames, received, reader, next_sequence, assembly>>

-----------------------------------------------------------------------------
(* Headers.                                                                *)

(* The header of the reassembled transaction.                              *)
Logical(h) == [h EXCEPT !.data_size = h.total_size]

(* validate_payload.                                                       *)
Validates(h) == h.total_size = 0 \/ h.id \notin BadIds

headers_match(first, next) ==
    /\ next.id = first.id /\ next.error = first.error
    /\ next.total_size = first.total_size /\ next.flags = first.flags

(* The part of read_frame between its two reads.                           *)
read_frame_accepts(h) == h.total_size <= MAX_PAYLOAD_SIZE /\ h.data_size <= MAX_FRAME_DATA

validate_first_header(h) ==
    /\ h.flags = 0
    /\ h.total_size <= MAX_PAYLOAD_SIZE
    /\ h.data_size <= h.total_size
    /\ ~(h.data_size = 0 /\ h.total_size > 0)

validate_continuation_frame(first, next, remaining) ==
    headers_match(first, next) /\ next.data_size # 0 /\ next.data_size <= remaining

(* The codec's own versions of the checks above.                           *)
validate_header(h) ==
    /\ h.flags = 0
    /\ h.total_size <= MAX_PAYLOAD_SIZE /\ h.data_size <= MAX_FRAME_DATA
    /\ h.data_size <= h.total_size /\ ~(h.data_size = 0 /\ h.total_size > 0)

(* Compares what the message key is made of, and not `error`.              *)
MutFragmentConsistency(first, next) ==
    /\ next.flags = first.flags /\ next.id = first.id
    /\ next.total_size = first.total_size

validate_fragment_consistency(first, next) ==
    /\ next.flags = first.flags /\ next.id = first.id
    /\ next.error = first.error /\ next.total_size = first.total_size

(* Made of is_reply, ty and id.                                            *)
message_key_for(h) == h.id

-----------------------------------------------------------------------------
(* What the decoders share: s is a decoder's state, h the header of the    *)
(* frame that arrives.                                                     *)

Chunk(h) == [k \in 1..h.data_size |-> [at |-> received + k, of |-> Logical(h)]]

Close(s, why) == [s EXCEPT !.status = why]

(* The frame's bytes join the transaction: the first one or a continuation.*)
MutTake(s, h) ==
    [s EXCEPT !.first = IF @ = None THEN h ELSE @,
              !.remaining = IF s.first = None THEN h.total_size - h.data_size ELSE 0,
              !.partial = @ \o Chunk(h)]

Take(s, h) ==
    [s EXCEPT !.first = IF @ = None THEN h ELSE @,
              !.remaining = (IF s.first = None THEN h.total_size ELSE @) - h.data_size,
              !.partial = @ \o Chunk(h)]

(* Nothing remains: the transaction is handed over.                        *)
Finish(s) ==
    [s EXCEPT !.first = None, !.partial = <<>>,
              !.out = Append(@, [header |-> Logical(s.first), payload |-> s.partial])]

Progress(t) == IF t.remaining = 0 THEN Finish(t) ELSE t

-----------------------------------------------------------------------------
(* The decoders. A frame's header arrives `head` after the bytes before    *)
(* it, its payload `body` after the header.                                *)

(* read_frame and the checks of the legacy readers; io_with_timeout guards *)
(* each of the two reads, also while no transaction has begun.             *)
Timely(delay) == delay <= IO_TIMEOUT

LegacyVerdict(s, h, head, body) ==
    CASE ~Timely(head) -> "late"
      [] Timely(head) /\ ~read_frame_accepts(h) -> "rejected"
      [] Timely(head) /\ read_frame_accepts(h) /\ ~Timely(body) -> "late"
      [] OTHER -> IF \/ s.first = None /\ validate_first_header(h)
                     \/ s.first # None /\ validate_continuation_frame(s.first, h, s.remaining)
                  THEN "open" ELSE "rejected"

read_transaction(s, h, head, body) ==
    LET verdict == LegacyVerdict(s, h, head, body)
        t == Take(s, h)
    IN  CASE verdict # "open" -> Close(s, verdict)
          [] verdict = "open" /\ t.remaining = 0 /\ ~Validates(t.first) -> Close(t, "malformed")
          [] OTHER -> Progress(t)

(* What a consumer is given; the offset grows as `remaining` shrinks.      *)
TransactionFragment(s, h) ==
    [payload |-> Chunk(h),
     offset  |-> IF s.first = None THEN 0 ELSE s.first.total_size - s.remaining,
     is_last |-> Take(s, h).remaining = 0]

(* The fragments are not validated as parameters. The consumer puts each   *)
(* one at its offset and is done at is_last.                               *)
next_fragment(s, h, head, body) ==
    LET verdict == LegacyVerdict(s, h, head, body)
        f == TransactionFragment(s, h)
        t == [Take(s, h) EXCEPT !.partial = SubSeq(s.partial, 1, f.offset) \o f.payload]
    IN  CASE verdict # "open" -> Close(s, verdict)
          [] verdict = "open" /\ f.is_last -> Finish(t)
          [] OTHER -> t

(* InboundSeriesTracker::start and continue_series, after                  *)
(* take_hotline_frame. The deadline is looked at when a frame has arrived  *)
(* in a series, and only then.                                             *)
SeriesVerdict(s, h, head, body) ==
    CASE ~validate_header(h) -> "rejected"
      [] validate_header(h) /\ s.first # None /\ head + body > IO_TIMEOUT -> "late"
      [] OTHER -> IF s.first = None \/ ( /\ validate_fragment_consistency(s.first, h)
                                         /\ h.data_size > 0 /\ h.data_size <= s.remaining )
                  THEN "open" ELSE "rejected"

(* The codec tells the assembler about a frame in bytes of their own:      *)
(*   tag | key | middle | body_len | metadata | body                       *)
(* Here a field of fixed width is one cell, as is the logical header that  *)
(* is the metadata, and lengths count cells.                               *)
HEADER_LEN == 1
FIRST_FRAME_HEADER_LEN == 4
CONTINUATION_FRAME_HEADER_LEN == 5

assemble_frame_payload(tag, key, middle, metadata, body) ==
    <<tag, key>> \o middle \o <<Len(body)>> \o metadata \o body

first_frame_payload(key, h, body) ==
    assemble_frame_payload(0, key, <<h.total_size>>, <<Logical(h)>>, body)

continuation_frame_payload(key, sequence, is_last, body) ==
    assemble_frame_payload(1, key, <<sequence, IF is_last THEN 1 ELSE 0>>, <<>>, body)

(* parse_frame_header reads them back with a cursor, or fails with None.   *)
parse_first_frame_header(p) ==
    IF /\ Len(p) >= FIRST_FRAME_HEADER_LEN + HEADER_LEN
       /\ p[4] <= p[3]
       /\ Len(p) = FIRST_FRAME_HEADER_LEN + HEADER_LEN + p[4]
       /\ p[5].total_size = p[3] /\ p[5].data_size = p[5].total_size
    THEN [kind |-> "first", key |-> p[2], sequence |-> 0, is_last |-> p[4] = p[3],
          body_at |-> FIRST_FRAME_HEADER_LEN + HEADER_LEN]
    ELSE None

parse_continuation_frame_header(p) ==
    IF /\ Len(p) >= CONTINUATION_FRAME_HEADER_LEN
       /\ p[4] \in {0, 1}
       /\ Len(p) = CONTINUATION_FRAME_HEADER_LEN + p[5]
    THEN [kind |-> "continuation", key |-> p[2], sequence |-> p[3], is_last |-> p[4] = 1,
          body_at |-> CONTINUATION_FRAME_HEADER_LEN]
    ELSE None

parse_frame_header(p) ==
    CASE p[1] = 0 -> parse_first_frame_header(p)
      [] p[1] = 1 -> parse_continuation_frame_header(p)
      [] OTHER -> None

(* What start and continue_series return for a frame they accept.          *)
EnvelopePayload(s, h) ==
    IF s.first = None
    THEN first_frame_payload(message_key_for(h), h, Chunk(h))
    ELSE continuation_frame_payload(message_key_for(s.first), next_sequence,
                                    s.remaining = h.data_size, Chunk(h))

(* External: the assembler takes a first frame under a key that is not in  *)
(* use, and a continuation under the key and with the number it expects.   *)
AssemblerAccepts(parsed) ==
    /\ parsed # None
    /\ IF parsed.kind = "first" THEN assembly = None
       ELSE assembly # None /\ parsed.key = assembly.key /\ parsed.sequence = assembly.next

(* External: its entry after that, and whether the message is complete.    *)
Metadata(p, parsed) == IF parsed.kind = "first" THEN p[FIRST_FRAME_HEADER_LEN + 1] ELSE assembly.metadata

AssemblyAfter(p, parsed) ==
    IF parsed.is_last THEN None
    ELSE [key |-> parsed.key, next |-> parsed.sequence + 1, metadata |-> Metadata(p, parsed)]

(* The tracker keeps `first` and `remaining`, the assembler the body.      *)
HotlineFrameDecoder(s, h, head, body) ==
    LET verdict == SeriesVerdict(s, h, head, body)
        p == EnvelopePayload(s, h)
        parsed == parse_frame_header(p)
        t == Take(s, h)
        whole == s.partial \o SubSeq(p, parsed.body_at + 1, Len(p))
    IN  CASE verdict # "open" -> Close(s, verdict)
          [] verdict = "open" /\ ~AssemblerAccepts(parsed) -> Close(s, "out of step")
          [] OTHER ->
                [t EXCEPT !.first = IF t.remaining = 0 THEN None ELSE @,
                          !.partial = IF parsed.is_last THEN <<>> ELSE whole,
                          !.out = IF parsed.is_last
                                  THEN Append(@, [header |-> Metadata(p, parsed), payload |-> whole])
                                  ELSE @]

(* The tracker's sequence number after that frame.                         *)
NextSequence(s, h) ==
    CASE s.first = None -> IF h.total_size > h.data_size THEN 1 ELSE 0
      [] s.first # None -> IF s.remaining > h.data_size THEN next_sequence + 1 ELSE 0

(* The checks a HotlineTransaction is constructed with, on the header of   *)
(* the whole: from_parts holds it to the limit of one frame.               *)
from_parts(h) ==
    LET large == h.total_size > MAX_PAYLOAD_SIZE \/ h.data_size > MAX_FRAME_DATA
        sound == /\ h.data_size <= h.total_size /\ ~(h.data_size = 0 /\ h.total_size > 0)
                 /\ Validates(h)
    IN  CASE h.flags = 0 /\ large -> "too large"
          [] h.flags = 0 /\ ~large /\ sound -> "open"
          [] OTHER -> "malformed"

append_fragment_accepts(s, h) ==
    /\ validate_fragment_consistency(s.first, h)
    /\ h.data_size # 0
    /\ h.data_size <= s.first.total_size - Len(s.partial)

(* HotlineCodec::decode with finalize_transaction.                         *)
HotlineCodec(s, h) ==
    LET accepts == validate_header(h) /\ (s.first # None => append_fragment_accepts(s, h))
        t == Take(s, h)
        final == from_parts(Logical(t.first))
    IN  CASE ~accepts -> Close(s, "rejected")
          [] accepts /\ t.remaining = 0 /\ final # "open" -> Close(t, final)
          [] OTHER -> Progress(t)

(* Neither a timeout nor a look at the parameters.                         *)
borrow_decode(s, h) ==
    IF \/ s.first = None /\ validate_header(h)
       \/ /\ s.first # None
          /\ validate_fragment_consistency(s.first, h)
          /\ h.data_size # 0 /\ h.data_size <= MAX_FRAME_DATA /\ h.data_size <= s.remaining
    THEN Progress(Take(s, h))
    ELSE Close(s, "rejected")

Step(r, s, h, head, body) ==
    CASE r = "buffered" -> read_transaction(s, h, head, body)
      [] r = "streaming" -> next_fragment(s, h, head, body)
      [] r = "frame_codec" -> HotlineFrameDecoder(s, h, head, body)
      [] r = "hotline_codec" -> HotlineCodec(s, h)
      [] r = "bincode" -> borrow_decode(s, h)

-----------------------------------------------------------------------------
NewReader == [status |-> "open", first |-> None, remaining |-> 0, partial |-> <<>>, out |-> <<>>]

Init ==
    /\ peer \in {"any", "writer"}
    /\ wire = <<>> /\ sent = 0 /\ written = <<>> /\ broken = FALSE
    /\ frames = 0 /\ received = 0
    /\ reader = [r \in Readers |-> NewReader]
    /\ next_sequence = 0 /\ assembly = None

Arrive(h, head, body) ==
    LET f == reader["frame_codec"]
        p == EnvelopePayload(f, h)
    IN  /\ h.data_size = 0 => body = 0
        /\ reader' = [r \in Readers |-> IF reader[r].status = "open"
                                        THEN Step(r, reader[r], h, head, body) ELSE reader[r]]
        /\ received' = received + h.data_size
        /\ IF reader'["frame_codec"].status = "open"
           THEN /\ next_sequence' = NextSequence(f, h)
                /\ assembly' = AssemblyAfter(p, parse_frame_header(p))
           ELSE UNCHANGED <<next_sequence, assembly>>

Delays == 0..(IO_TIMEOUT + 1)

AnyFrame(h, head, body) ==
    /\ peer = "any" /\ frames < MaxFrames
    /\ \E r \in Readers : reader[r].status = "open"
    /\ frames' = frames + 1
    /\ Arrive(h, head, body)
    /\ UNCHANGED <<peer, writerVars>>

WrittenFrame(head, body) ==
    /\ wire # <<>>
    /\ Arrive(Head(wire), head, body)
    /\ wire' = Tail(wire)
    /\ UNCHANGED <<peer, sent, written, broken, frames>>

-----------------------------------------------------------------------------
(* The writers.                                                            *)

(* with_max_frame.                                                         *)
ClampFrame(m) ==
    CASE m = 0 -> 1
      [] m > MAX_FRAME_DATA -> MAX_FRAME_DATA
      [] OTHER -> m

(* The loop over chunks of at most m bytes; an empty payload is one frame. *)
MutFragments(h, m) ==
    [i \in 1..((h.total_size + m - 1) \div m) |->
        [h EXCEPT !.data_size = IF i * m <= h.total_size THEN m ELSE h.total_size - (i - 1) * m]]

Fragments(h, m) ==
    [i \in 1..(IF h.total_size = 0 THEN 1 ELSE (h.total_size + m - 1) \div m) |->
        [h EXCEPT !.data_size = IF i * m <= h.total_size THEN m ELSE h.total_size - (i - 1) * m]]

Payload(h) == [k \in 1..h.total_size |-> [at |-> sent + k, of |-> Logical(h)]]

(* The stream keeps the order of the frames, so the decoders see the same  *)
(* whether the frames of one write have arrived before the next or not.    *)
WriterReady == peer = "writer" /\ ~broken /\ Len(written) < MaxWrites /\ wire = <<>>

Written(h, m) ==
    /\ WriterReady
    /\ wire' = Fragments(h, m)
    /\ sent' = sent + h.total_size
    /\ written' = Append(written, [header |-> Logical(h), payload |-> Payload(h)])
    /\ UNCHANGED <<peer, broken, frames, received, reader, next_sequence, assembly>>

(* TransactionWriter::write_transaction; with an invalid transaction       *)
(* nothing is sent.                                                        *)
write_transaction(h, m) ==
    /\ h.flags = 0 /\ Validates(h) /\ h.total_size <= MAX_PAYLOAD_SIZE
    /\ Written(h, ClampFrame(m))

(* HotlineTransaction::try_from, with no limit of one frame.               *)
try_from(h) == h.flags = 0 /\ h.total_size <= MAX_PAYLOAD_SIZE /\ Validates(h)

(* On the bytes of to_bytes, whose length is that of header and payload.   *)
parse_transaction(h) == h.total_size <= MAX_PAYLOAD_SIZE /\ Validates(h)

(* HotlineCodec::encode.                                                   *)
encode(h) == h.flags = 0 /\ h.total_size <= MAX_PAYLOAD_SIZE /\ Written(h, MAX_FRAME_DATA)

(* The reply of a handler, on its way out through the codec.               *)
HotlineFrameEncoder(h) == parse_transaction(h) /\ try_from(h) /\ encode(h)

(* request_from_params and reply_from_params, encoded: a header with the   *)
(* size of its block, which has to validate.                               *)
from_params(h) ==
    /\ h.flags = 0 /\ h.total_size <= MAX_PAYLOAD_SIZE /\ Validates(h)
    /\ encode(h)

(* Encode for HotlineTransaction, the bincode form.                        *)
bincode_encode(h) ==
    /\ h.flags = 0 /\ h.total_size <= MAX_PAYLOAD_SIZE
    /\ Written(h, MAX_FRAME_DATA)

(* TransactionWriter::write_streaming with a source of n bytes: a source   *)
(* that ends early leaves the frames that could be filled.                 *)
write_streaming(h, m, n) ==
    /\ h.flags = 0 /\ h.total_size <= MAX_PAYLOAD_SIZE
    /\ \/ n = h.total_size /\ Written(h, ClampFrame(m))
       \/ /\ n < h.total_size /\ WriterReady
          /\ wire' = SubSeq(Fragments(h, ClampFrame(m)), 1, n \div ClampFrame(m))
          /\ sent' = sent + n - (n % ClampFrame(m))
          /\ broken' = TRUE
          /\ UNCHANGED <<peer, written, frames, received, reader, next_sequence, assembly>>

Next ==
    \/ \E head, body \in Delays :
           \/ WrittenFrame(head, body)
           \/ \E h \in FrameHeader : AnyFrame(h, head, body)
    \/ \E h \in FrameHeader :
           /\ h.data_size = 0
           /\ \/ HotlineFrameEncoder(h)
              \/ from_params(h)
              \/ bincode_encode(h)
              \/ \E m \in 0..(MAX_FRAME_DATA + 1) :
                     \/ write_transaction(h, m)
                     \/ \E n \in 0..h.total_size : write_streaming(h, m, n)

Spec == Init /\ [][Next]_vars

-----------------------------------------------------------------------------
(* All decoders read a stream the same way. Those that are still open have *)
(* handed over the same transactions and hold the same partial one; and a  *)
(* frame that one of them rejects for its framing leaves none open, so     *)
(* they part only over a timeout, over a payload that does not validate    *)
(* or over HotlineCodec's limit. bincode knows none of the three: it is    *)
(* open as long as anyone is. In particular the assembler never refuses    *)
(* the key, number or layout of a frame the series tracker lets through.   *)
ReadersAgree ==
    \A r \in Readers :
        /\ reader[r].status = "open" =>
               /\ reader["bincode"].status = "open"
               /\ reader[r].out = reader["bincode"].out
               /\ reader[r].partial = reader["bincode"].partial
               /\ reader[r].first = reader["bincode"].first
        /\ reader[r].status \in {"rejected", "out of step"} => \A q \in Readers : reader[q].status # "open"

(* What a decoder hands over is whole: as long as its header says, made    *)
(* only of bytes that came under that header, in the order of the stream.  *)
(* Between two transactions no byte is lost or used twice, and an open     *)
(* decoder has accounted for every byte received.                          *)
DeliveredAreWhole ==
    \A r \in Readers :
        LET s == reader[r]
            bytes == Seqs!FlattenSeq([i \in DOMAIN s.out |-> s.out[i].payload]) \o s.partial
        IN  /\ \A i \in DOMAIN s.out :
                   /\ Len(s.out[i].payload) = s.out[i].header.total_size
                   /\ \A k \in DOMAIN s.out[i].payload : s.out[i].payload[k].of = s.out[i].header
            /\ \A k \in DOMAIN bytes : bytes[k].at = k
            /\ s.status = "open" => Len(bytes) = received

(* What this repository's writers write, its readers read: however the     *)
(* payload was cut, no frame is rejected, the transactions come out as     *)
(* they went in, all of them once the last frame is in, and the leftover   *)
(* of a stream whose source ended early never comes out as a transaction.  *)
(* Only HotlineCodec gives up on what its own encoder writes: on a         *)
(* transaction that is larger than one frame.                              *)
RoundTrip ==
    peer = "writer" =>
        \A r \in Readers :
            /\ reader[r].status \notin {"rejected", "out of step"}
            /\ reader[r].status = "too large" =>
                   /\ r = "hotline_codec"
                   /\ \E i \in DOMAIN written :
                          /\ i = Len(reader[r].out) + 1
                          /\ written[i].header.total_size > MAX_FRAME_DATA
            /\ Seqs!IsPrefix(reader[r].out, written)
            /\ wire = <<>> /\ reader[r].status = "open" =>
                   reader[r].out = written /\ (reader[r].partial # <<>> => broken)
==============================================================================
