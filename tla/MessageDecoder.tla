--------------------------- MODULE MessageDecoder ---------------------------
(***************************************************************************)
(* chunk_io::MessageDecoder: messages assembled from the fragments of the  *)
(* chunk parser, under the limits of DecoderLimits, and the two control    *)
(* messages that a session applies to it.                                  *)
(*                                                                         *)
(* The peer may interleave the chunks of its chunk streams as it likes,    *)
(* and every call of decode or decode_slice may bring any part of a chunk. *)
(* A message being assembled is kept in segments when its first fragment   *)
(* came through decode, and in one buffer of its full length when it came  *)
(* through decode_slice.  Timestamps play no part here and are 0.          *)
(***************************************************************************)
EXTENDS ChunkParser, Sequences

CONSTANTS MaximumBufferedBytes,
          MaximumFragmentsPerMessage,
          PeerCsids,     \* chunk streams the peer uses
          PeerLengths,   \* lengths of its messages
          PeerTypes,     \* their types
          PeerSizes      \* the sizes in its SetChunkSize messages

ASSUME DecoderAssumption ==
  /\ MaximumBufferedBytes \in Nat /\ MaximumFragmentsPerMessage \in Nat
  /\ PeerCsids \subseteq Csids /\ PeerTypes \subseteq Nat
  /\ PeerLengths \subseteq Nat /\ PeerSizes \subseteq Nat

VARIABLES parser,
          partials,  \* per chunk stream, the message being assembled
          buffered,  \* bytes held by partial messages
          reserved,  \* bytes allocated for them
          last,      \* the last message returned: its header's length and its own
          error      \* "no", or the limit or rule whose violation ended decoding

decoder == <<parser, partials, buffered, reserved, last, error>>

AbortType == 2

NoPartial == [kind |-> "none", len |-> 0, reserved |-> 0, segments |-> 0]

Partials == {c \in Csids : partials[c].kind # "none"}

NoMessage == [type |-> 0, len |-> 0, body |-> 0]

-----------------------------------------------------------------------------
(* abort_chunk_stream and set_chunk_size, as a session applies them.       *)

\* Defects of an abort: it leaves the count, or the message.
AbortedKeepingCount(d, csid) ==
  [d EXCEPT !.parser = abort_chunk_stream(d.parser, csid),
            !.partials[csid] = NoPartial,
            !.reserved = @ - d.partials[csid].reserved]

AbortedKeepingPartial(d, csid) ==
  [d EXCEPT !.parser = abort_chunk_stream(d.parser, csid)]

\* The decoder d after an abort: the stream's progress and its bytes are gone.
Aborted(d, csid) ==
  [d EXCEPT !.parser = abort_chunk_stream(d.parser, csid),
            !.partials[csid] = NoPartial,
            !.buffered = @ - d.partials[csid].len,
            !.reserved = @ - d.partials[csid].reserved]

Resized(d, size) == [d EXCEPT !.parser = set_chunk_size(d.parser, size)]

-----------------------------------------------------------------------------
(* decode_input: one fragment of n bytes that the parser p hands out.      *)

Fail(p, reason) == /\ parser' = p
                   /\ error' = reason
                   /\ UNCHANGED <<last>>

\* A defect: a buffer for a whole message is not charged in advance.
RefusedUncharged(p, n, owned) ==
  IF buffered + n > MaximumBufferedBytes THEN "buffered bytes"
  ELSE IF owned /\ n # 0 /\ MaximumFragmentsPerMessage = 0 /\ p.current \notin Partials
  THEN "payload fragments"
  ELSE IF p.current \in Partials THEN "no"
  ELSE IF CompletesMessage(p, n)
  THEN IF reserved + n > MaximumBufferedBytes THEN "reserved bytes" ELSE "no"
  ELSE IF Cardinality(Partials) >= MaximumPartialMessages THEN "partial messages"
  ELSE "no"

\* A fragment is refused before any byte of it is stored.
Refused(p, n, owned) ==
  LET s == p.streams[p.current] IN
  IF buffered + n > MaximumBufferedBytes THEN "buffered bytes"
  ELSE IF owned /\ n # 0 /\ MaximumFragmentsPerMessage = 0 /\ p.current \notin Partials
  THEN "payload fragments"
  ELSE IF p.current \in Partials THEN "no"
  ELSE IF CompletesMessage(p, n)
  THEN IF reserved + n > MaximumBufferedBytes THEN "reserved bytes" ELSE "no"
  ELSE IF Cardinality(Partials) >= MaximumPartialMessages THEN "partial messages"
  ELSE IF ~owned /\ reserved + s.len > MaximumBufferedBytes THEN "reserved bytes"
  ELSE "no"

\* The partial message a fragment is added to, made for the first fragment.
\* Its buffer is allocated with exactly the length in the header.
Assembly(p, owned) ==
  LET s == p.streams[p.current] IN
  IF p.current \in Partials THEN partials[p.current]
  ELSE IF owned
  THEN [kind |-> "segmented", len |-> 0, reserved |-> 0, segments |-> 0]
  ELSE [kind |-> "contiguous", len |-> 0, reserved |-> s.len, segments |-> 0]

\* A segmented message takes the fragment only within its own limits.
SegmentRefused(a, n, held) ==
  IF a.kind # "segmented" THEN "no"
  ELSE IF n # 0 /\ a.segments >= MaximumFragmentsPerMessage THEN "payload fragments"
  ELSE IF held + n > MaximumBufferedBytes THEN "reserved bytes"
  ELSE "no"

Extend(a, n) ==
  IF a.kind = "segmented"
  THEN [a EXCEPT !.len = @ + n, !.reserved = @ + n,
                 !.segments = IF n = 0 THEN @ ELSE @ + 1]
  ELSE [a EXCEPT !.len = @ + n]

Becomes(d) == /\ parser' = d.parser
              /\ partials' = d.partials
              /\ buffered' = d.buffered
              /\ reserved' = d.reserved

\* The message in d is returned, and the session applies it if it is a
\* SetChunkSize or an Abort.
Return(d, s, body) ==
  /\ last' = [type |-> s.type, len |-> s.len, body |-> body]
  /\ \/ /\ s.type \notin {SetChunkSizeType, AbortType}
        /\ Becomes(d)
        /\ UNCHANGED error
     \/ /\ s.type = SetChunkSizeType
        /\ \E size \in PeerSizes :
             \/ ChunkSizeAccepted(size) /\ Becomes(Resized(d, size)) /\ UNCHANGED error
             \/ ~ChunkSizeAccepted(size) /\ Becomes(d) /\ error' = "chunk size"
     \/ /\ s.type = AbortType
        /\ \E csid \in PeerCsids : Becomes(Aborted(d, csid))
        /\ UNCHANGED error

Fragment(p, n, owned) ==
  LET csid == p.current
      s    == p.streams[csid]
      next == consume(p, n)
      a    == Assembly(p, owned)
      held == IF csid \in Partials THEN reserved ELSE reserved + a.reserved
      e    == Extend(a, n)
      full == held + (e.reserved - a.reserved)
  IN IF Refused(p, n, owned) # "no"
     THEN Fail(next, Refused(p, n, owned)) /\ UNCHANGED <<partials, buffered, reserved>>
     ELSE IF CompletesMessage(p, n) /\ csid \notin Partials
     THEN Return([parser |-> next, partials |-> partials, buffered |-> buffered,
                  reserved |-> reserved], s, n)
     ELSE IF SegmentRefused(a, n, held) # "no"
     THEN /\ Fail(next, SegmentRefused(a, n, held))
          /\ partials' = [partials EXCEPT ![csid] = a]
          /\ reserved' = held
          /\ UNCHANGED buffered
     ELSE IF CompletesMessage(p, n)
     THEN Return([parser |-> next,
                  partials |-> [partials EXCEPT ![csid] = NoPartial],
                  buffered |-> (buffered + n) - e.len,
                  reserved |-> full - e.reserved], s, e.len)
     ELSE /\ parser' = next
          /\ partials' = [partials EXCEPT ![csid] = e]
          /\ buffered' = buffered + n
          /\ reserved' = full
          /\ UNCHANGED <<last, error>>

-----------------------------------------------------------------------------
(* The actions: what arrives next from the peer.                           *)

\* A new message on c, or one more chunk of the message it is sending there.
PeerHeaders ==
  {[fmt |-> Full, csid |-> c, field |-> 0, ext |-> NoExt, len |-> n, type |-> t,
    msid |-> 0] : c \in PeerCsids, n \in PeerLengths, t \in PeerTypes} \cup
  {[fmt |-> Empty, csid |-> c, field |-> 0, ext |-> NoExt, len |-> 0, type |-> 0,
    msid |-> 0] : c \in PeerCsids}

\* A chunk header is complete.  A message without a body ends here.
ChunkHeader ==
  /\ error = "no"
  /\ parser.current = NoCsid
  /\ \E h \in PeerHeaders, owned \in BOOLEAN :
       IF BeginChunkFails(parser, h)
       THEN Fail(parser, "chunk header") /\ UNCHANGED <<partials, buffered, reserved>>
       ELSE LET begun == begin_chunk(parser, h) IN
            IF begun.chunk_left = 0 THEN Fragment(begun, 0, owned)
            ELSE /\ parser' = begun
                 /\ UNCHANGED <<partials, buffered, reserved, last, error>>

\* n payload bytes arrive through decode (owned) or decode_slice.
ChunkBody ==
  /\ error = "no"
  /\ parser.current # NoCsid
  /\ \E n \in 1 .. parser.chunk_left, owned \in BOOLEAN : Fragment(parser, n, owned)

Init ==
  /\ parser = NewParser
  /\ partials = [c \in Csids |-> NoPartial]
  /\ buffered = 0
  /\ reserved = 0
  /\ last = NoMessage
  /\ error = "no"

Next == ChunkHeader \/ ChunkBody

Spec == Init /\ [][Next]_decoder

-----------------------------------------------------------------------------
\* Lengths and counters are natural numbers.
DecoderTypeOK ==
  /\ parser.current \in Csids \cup {NoCsid} /\ parser.chunk_left \in Nat
  /\ parser.chunk_size \in Nat \ {0}
  /\ partials \in [Csids -> [kind : {"none", "segmented", "contiguous"}, len : Nat,
                             reserved : Nat, segments : Nat]]
  /\ buffered \in Nat /\ reserved \in Nat

\* The sum over the chunk streams, 2 .. 6.
Total(f) == f[2] + f[3] + f[4] + f[5] + f[6]

\* The counters are the sums over the partial messages, also after aborts,
\* errors and messages that mix decode and decode_slice; nothing leaks from the
\* budget and no subtraction can go below zero.
AccountingExact ==
  /\ DecoderTypeOK
  /\ buffered = Total([c \in Csids |-> partials[c].len])
  /\ reserved = Total([c \in Csids |-> partials[c].reserved])

\* The decoder's partial messages and the parser's progress agree: a message has
\* a partial body exactly when some but not all of it has arrived, and the body
\* holds exactly the bytes received.
PartialsMatchParser ==
  error = "no" =>
    \A c \in Csids :
      LET s == parser.streams[c] IN
      /\ partials[c].kind # "none" <=> s.active /\ s.received > 0
      /\ partials[c].kind # "none" => partials[c].len = s.received

\* A returned message is whole: as long as its header says.
ReturnedWhole == last.len = last.body

\* What is held stays within the configured limits, whatever the peer sends.
WithinLimits ==
  /\ buffered <= reserved /\ reserved <= MaximumBufferedBytes
  /\ Cardinality(Partials) <= MaximumPartialMessages
  /\ \A c \in Csids : partials[c].segments <= MaximumFragmentsPerMessage

\* A message is returned between chunks, so a SetChunkSize or an Abort never
\* takes effect in the middle of one.
ReturnsAtBoundary ==
  [][last' # last => parser'.current = NoCsid /\ parser'.chunk_left = 0]_decoder

\* streaming.rs:257: "A complete single-chunk control message need not occupy a
\* partial-message slot."  So the limit on partial messages should never refuse
\* a message that fits in one chunk.
SingleChunkNeedsNoSlot ==
  [][error' = "partial messages" =>
       parser.streams[parser.current].len > parser.chunk_size]_decoder
=============================================================================
