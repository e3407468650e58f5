------------------------------ MODULE ChunkWire ------------------------------
(***************************************************************************)
(* One direction of an RTMP connection: a ChunkEncoder that compresses     *)
(* headers against what it encoded before, the application's queue of      *)
(* Packets, the transport, and the peer's ChunkParser.                     *)
(*                                                                         *)
(* The encoder advances its header state when a packet is made.  The       *)
(* packet may leave much later, or never: the application may discard a    *)
(* packet encoded with DropPolicy::Allowed until its first byte is         *)
(* written.  Encoder and parser therefore see different message            *)
(* sequences, and header compression is sound only if no header that       *)
(* reaches the wire depends on one that did not.                           *)
(*                                                                         *)
(* The transport is a reliable byte stream, so nothing can happen to a     *)
(* byte between the packet cursor and the parser: a byte leaves the        *)
(* cursor and enters the parser in one step.  A step moves the rest of a   *)
(* header or any number of payload bytes, so every way a write can be      *)
(* short and a read can be split inside a chunk is covered.                *)
(***************************************************************************)
EXTENDS ChunkParser, Sequences

CONSTANTS Messages,      \* what the application sends: [type, msid, ts, len]
          ChunkSizes,    \* arguments of set_chunk_size
          ControlTimes,  \* timestamps of SetChunkSize messages
          ControlLength, \* the body length of a SetChunkSize message, 4
          MaxPackets     \* bound on the number of packets made

\* The chunk sizes the application picks are ones the peer accepts, and the
\* peer's limits leave room for this encoder's five chunk streams and for
\* its messages.  Sessions send SetChunkSize only through set_chunk_size.
ASSUME WireAssumption ==
  /\ Messages \subseteq [type : Nat, msid : Nat, ts : Times, len : Nat]
  /\ \A m \in Messages : m.type # SetChunkSizeType /\ m.len <= MaximumMessageSize
  /\ ControlTimes \subseteq Times
  /\ ControlLength \in 1 .. MaximumMessageSize
  /\ ChunkSizes \subseteq 1 .. MaximumChunkSize
  /\ MaximumTrackedChunkStreams >= 5
  /\ MaximumPartialMessages >= 1
  /\ MaxPackets \in Nat

VARIABLES
  previous_headers,  \* encoder: last header per chunk stream
  max_chunk_size,    \* encoder: chunk size for the next packet
  packets,           \* every packet made, in the order it was made
  discarded,         \* indices of packets the application dropped unsent
  cursor,            \* the packet on the transport and how much of it is sent
  parser,            \* the peer's parser
  delivered,         \* messages the parser completed
  broken             \* "no", or why the parser cannot go on

vars == <<previous_headers, max_chunk_size, packets, discarded, cursor,
          parser, delivered, broken>>

encoderVars == <<previous_headers, max_chunk_size, packets>>

-----------------------------------------------------------------------------
(* ChunkEncoder::encode                                                    *)

\* A defect: a packet that may be dropped serves as the base of the next.
ChunkHeaderFormatOnDroppable(previous, m, force_uncompressed) ==
  IF force_uncompressed \/ ~previous.known \/ previous.msid # m.msid
  THEN Full
  ELSE IF previous.type # m.type \/ previous.len # m.len
  THEN TimeDeltaWithoutMessageStreamId
  ELSE IF previous.field # sub_values(m.ts, previous.ts)
  THEN TimeDeltaOnly
  ELSE Empty

\* Compression needs a previous header on the chunk stream, of the same
\* message stream, that is certain to reach the peer.
ChunkHeaderFormat(previous, m, force_uncompressed) ==
  IF \/ force_uncompressed
     \/ ~previous.known
     \/ previous.droppable
     \/ previous.msid # m.msid
  THEN Full
  ELSE IF previous.type # m.type \/ previous.len # m.len
  THEN TimeDeltaWithoutMessageStreamId
  ELSE IF previous.field # sub_values(m.ts, previous.ts)
  THEN TimeDeltaOnly
  ELSE Empty

\* A defect: the difference of two timestamps can leave their range.
HeaderForWide(previous, m, format, can_be_dropped) ==
  [known |-> TRUE,
   csid  |-> get_csid_for_message_type(m.type),
   ts    |-> m.ts,
   field |-> IF format = Full THEN m.ts ELSE (m.ts + Word) - previous.ts,
   type  |-> m.type,
   msid  |-> m.msid,
   len   |-> m.len,
   droppable |-> can_be_dropped]

\* The header written to the slot; its field is the timestamp of a full
\* header and the wrapping difference to the previous message otherwise.
HeaderFor(previous, m, format, can_be_dropped) ==
  [known |-> TRUE,
   csid  |-> get_csid_for_message_type(m.type),
   ts    |-> m.ts,
   field |-> IF format = Full THEN m.ts ELSE sub_values(m.ts, previous.ts),
   type  |-> m.type,
   msid  |-> m.msid,
   len   |-> m.len,
   droppable |-> can_be_dropped]

\* The body of a SetChunkSize message; 0 for any other.
NoSize == 0

encode(m, can_be_dropped, force_uncompressed, size) ==
  LET csid     == get_csid_for_message_type(m.type)
      previous == previous_headers[csid]
      format   == ChunkHeaderFormat(previous, m, force_uncompressed)
      header   == HeaderFor(previous, m, format, can_be_dropped)
  IN  /\ previous_headers' = [previous_headers EXCEPT ![csid] = header]
      /\ packets' = Append(packets,
           [header |-> header,
            first |-> format,
            continuation |-> IF force_uncompressed THEN Full ELSE Empty,
            chunk_size |-> max_chunk_size,
            size |-> size])

Encode ==
  /\ Len(packets) < MaxPackets
  /\ \E m \in Messages, can_be_dropped, force_uncompressed \in BOOLEAN :
       encode(m, can_be_dropped, force_uncompressed, NoSize)
  /\ UNCHANGED <<max_chunk_size, discarded, cursor, parser, delivered, broken>>

\* set_chunk_size: the message goes out with full headers, split by the old
\* size; the packets made after it use the new one.
SetChunkSize ==
  /\ Len(packets) < MaxPackets
  /\ \E size \in ChunkSizes, time \in ControlTimes :
       /\ encode([type |-> SetChunkSizeType, msid |-> 0, ts |-> time,
                  len |-> ControlLength], FALSE, TRUE, size)
       /\ max_chunk_size' = size
  /\ UNCHANGED <<discarded, cursor, parser, delivered, broken>>

-----------------------------------------------------------------------------
(* The application's queue and the packet cursor.                          *)

Idle == "idle"       \* nothing of packet cursor.pkt + 1 is on the wire
InHeader == "header" \* somewhere before the end of a chunk header
InBody == "body"     \* before the end of a chunk's payload

Unsent(i) == /\ i \in cursor.pkt + 1 .. Len(packets)
             /\ i \notin discarded

\* The application drops a packet for which can_drop() holds.
Discard ==
  /\ \E i \in DOMAIN packets :
       /\ Unsent(i)
       /\ packets[i].header.droppable
       /\ discarded' = discarded \cup {i}
  /\ UNCHANGED <<encoderVars, cursor, parser, delivered, broken>>

\* The first byte of the next packet is written; it must finish now.
StartPacket ==
  /\ broken = "no"
  /\ cursor.state = Idle
  /\ \E i \in DOMAIN packets :
       /\ Unsent(i)
       /\ \A j \in DOMAIN packets : Unsent(j) => i <= j
       /\ cursor' = [pkt |-> i, state |-> InHeader, sent |-> 0, body |-> 0]
  /\ UNCHANGED <<encoderVars, discarded, parser, delivered, broken>>

\* The chunk header the cursor is in.  sent = body only in the first chunk.
CurrentHeader ==
  LET p == packets[cursor.pkt] IN
  InlineHeader(p.header, IF cursor.sent = cursor.body THEN p.first ELSE p.continuation)

\* PacketCursor::advance by n payload bytes.  A full chunk is followed by the
\* next header unless the packet is complete.
AfterBody(n) ==
  LET p == packets[cursor.pkt] IN
  IF cursor.sent + n = p.header.len
  THEN [pkt |-> cursor.pkt, state |-> Idle, sent |-> 0, body |-> 0]
  ELSE IF cursor.body + n = p.chunk_size
  THEN [pkt |-> cursor.pkt, state |-> InHeader, sent |-> cursor.sent + n, body |-> 0]
  ELSE [pkt |-> cursor.pkt, state |-> InBody, sent |-> cursor.sent + n,
        body |-> cursor.body + n]

\* The fragment of n bytes that the parser p hands out.  The one that ends a
\* message delivers it; a SetChunkSize is applied before the next chunk.
Fragment(p, n) ==
  LET s    == p.streams[p.current]
      size == packets[cursor.pkt].size
      next == consume(p, n)
  IN  IF ~CompletesMessage(p, n)
      THEN parser' = next /\ UNCHANGED <<delivered, broken>>
      ELSE /\ delivered' = Append(delivered,
                [pkt |-> cursor.pkt, type |-> s.type, msid |-> s.msid,
                 ts |-> s.ts, len |-> s.len])
           /\ IF s.type # SetChunkSizeType
              THEN parser' = next /\ UNCHANGED broken
              ELSE IF ChunkSizeAccepted(size)
              THEN parser' = set_chunk_size(next, size) /\ UNCHANGED broken
              ELSE parser' = next /\ broken' = "rejected"

\* The parser loses its place when it expects the wrong number of header
\* bytes, or sees a header where it expects payload or the reverse.
LosesPlace(reason) == broken' = reason /\ UNCHANGED <<parser, delivered>>

\* The header h was read, and begun is what begin_chunk makes of it; a message
\* without a body has its only fragment here.
BeginsChunk(h, begun) ==
  /\ IF parser.current # NoCsid
     THEN LosesPlace("misaligned")
     ELSE IF NoPreviousChunkOnStream(parser, h)
     THEN LosesPlace("rejected")
     ELSE IF ~(Extended(parser, h) <=> h.ext # NoExt)
     THEN LosesPlace("misaligned")
     ELSE IF BeginChunkFails(parser, h)
     THEN LosesPlace("rejected")
     ELSE IF begun.chunk_left = 0
     THEN Fragment(begun, 0)
     ELSE parser' = begun /\ UNCHANGED <<delivered, broken>>
  /\ cursor' = IF packets[cursor.pkt].header.len = 0 THEN AfterBody(0)
               ELSE [cursor EXCEPT !.state = InBody]

\* The last byte of a chunk header arrives: header_needed and begin_chunk.
HeaderArrives ==
  /\ broken = "no"
  /\ cursor.state = InHeader
  /\ \E h \in {CurrentHeader} : \E begun \in {begin_chunk(parser, h)} : BeginsChunk(h, begun)
  /\ UNCHANGED <<encoderVars, discarded>>

\* n payload bytes arrive, within one chunk of the sender.
BodyArrives ==
  /\ broken = "no"
  /\ cursor.state = InBody
  /\ LET p == packets[cursor.pkt] IN
     \E n \in 1 .. MinOf(p.chunk_size - cursor.body, p.header.len - cursor.sent) :
       /\ IF parser.current = NoCsid \/ n > parser.chunk_left
          THEN LosesPlace("misaligned")
          ELSE Fragment(parser, n)
       /\ cursor' = AfterBody(n)
  /\ UNCHANGED <<encoderVars, discarded>>

-----------------------------------------------------------------------------
Init ==
  /\ previous_headers = [c \in Csids |-> NoHeader]
  /\ max_chunk_size = InitialChunkSize
  /\ packets = << >>
  /\ discarded = {}
  /\ cursor = [pkt |-> 0, state |-> Idle, sent |-> 0, body |-> 0]
  /\ parser = NewParser
  /\ delivered = << >>
  /\ broken = "no"

Next == Encode \/ SetChunkSize \/ Discard \/ StartPacket \/ HeaderArrives \/ BodyArrives

Spec == Init /\ [][Next]_vars

\* The transport keeps writing and reading while there is something to send.
FairSpec == Spec /\ WF_vars(StartPacket) /\ WF_vars(HeaderArrives) /\ WF_vars(BodyArrives)

-----------------------------------------------------------------------------
PacketType == [header : [known : {TRUE}, csid : Csids, ts : Times, field : Times,
                         type : Nat, msid : Nat, len : Nat, droppable : BOOLEAN],
               first : 0 .. 3, continuation : {Full, Empty},
               chunk_size : Nat \ {0}, size : Nat]

StreamType == [known : BOOLEAN, ts : Times, type : Nat, msid : Nat, len : Nat,
               time_field : Times, received : Nat, active : BOOLEAN]

ParserType == [streams : [Csids -> StreamType], current : Csids \cup {NoCsid},
               chunk_left : Nat, chunk_size : Nat \ {0}]

TypeOK ==
  /\ previous_headers \in [Csids -> [known : BOOLEAN, csid : Csids, ts : Times,
                                     field : Times, type : Nat, msid : Nat,
                                     len : Nat, droppable : BOOLEAN]]
  /\ max_chunk_size \in Nat \ {0}
  /\ packets \in Seq(PacketType)
  /\ discarded \subseteq DOMAIN packets
  /\ cursor \in [pkt : Nat, state : {Idle, InHeader, InBody}, sent : Nat, body : Nat]
  /\ cursor.pkt <= Len(packets)
  /\ cursor.state # Idle => cursor.pkt > 0
  /\ parser \in ParserType
  /\ delivered \in Seq([pkt : Nat, type : Nat, msid : Nat, ts : Times, len : Nat])
  /\ broken \in {"no", "misaligned", "rejected"}

\* The parser never meets a header it must refuse and never reads a header
\* byte as payload or the reverse, whichever droppable packets were left out,
\* however the chunk size changed in between and however reads were split.
StaysAligned == broken = "no"

\* What the parser delivers is the message that was encoded: type, message
\* stream, length and absolute timestamp survive header compression.
RoundTrip ==
  \A k \in DOMAIN delivered :
    LET d == delivered[k]
        h == packets[d.pkt].header
    IN  /\ d.pkt \in DOMAIN packets
        /\ d.type = h.type /\ d.msid = h.msid /\ d.ts = h.ts /\ d.len = h.len

Finished(i) == /\ i \in 1 .. cursor.pkt
               /\ i \notin discarded
               /\ i = cursor.pkt => cursor.state = Idle

\* Every packet whose last byte was written has been delivered exactly once,
\* in the order of encoding, and no other.
DeliveredOnceInOrder ==
  /\ {delivered[k].pkt : k \in DOMAIN delivered} = {i \in DOMAIN packets : Finished(i)}
  /\ \A k, l \in DOMAIN delivered : k < l => delivered[k].pkt < delivered[l].pkt

-----------------------------------------------------------------------------
(* Why header compression is sound: the inductive invariant.               *)

\* Made but not completely received.
Pending(i) == \/ Unsent(i)
              \/ i = cursor.pkt /\ cursor.state # Idle

\* The parser has not seen the first header yet.
NotBegun(i) == \/ Unsent(i)
               \/ i = cursor.pkt /\ cursor.state = InHeader /\ cursor.sent = 0

SameCsid(i, j) == packets[i].header.csid = packets[j].header.csid

\* j is the pending packet just before i on i's chunk stream.
Precedes(j, i) == /\ Pending(j) /\ j < i /\ SameCsid(j, i)
                  /\ \A k \in DOMAIN packets :
                       Pending(k) /\ SameCsid(k, i) /\ k < i => k <= j

IsFirst(i) == \A k \in DOMAIN packets : Pending(k) /\ SameCsid(k, i) => i <= k

\* The part of a header that the next one may be compressed against.
HeaderOf(s) == [ts |-> s.ts, type |-> s.type, msid |-> s.msid, len |-> s.len,
                field |-> s.time_field]

\* Packet p's first header, read after header h, yields p's message.
Follows(p, h) ==
  p.first # Full =>
    /\ h.msid = p.header.msid
    /\ p.header.field = sub_values(p.header.ts, h.ts)
    /\ p.first \in {TimeDeltaOnly, Empty} => h.type = p.header.type /\ h.len = p.header.len
    /\ p.first = Empty => h.field = p.header.field

\* What encode guarantees of one packet.
PacketsOK ==
  \A i \in DOMAIN packets :
    LET p == packets[i] IN
    /\ p.header.csid = get_csid_for_message_type(p.header.type)
    /\ p.first = Full => p.header.field = p.header.ts
    /\ p.continuation = Full => p.first = Full
    /\ p.header.len <= MaximumMessageSize
    /\ p.header.type = SetChunkSizeType => /\ ~p.header.droppable
                                           /\ p.size \in ChunkSizes

\* Each compressed header follows the header the parser will have seen last.
ChainOK ==
  \A i \in DOMAIN packets :
    NotBegun(i) /\ packets[i].first # Full =>
      /\ \A j \in DOMAIN packets :
           Precedes(j, i) => /\ ~packets[j].header.droppable
                             /\ Follows(packets[i], packets[j].header)
      /\ IsFirst(i) => LET s == parser.streams[packets[i].header.csid] IN
                       s.known /\ Follows(packets[i], HeaderOf(s))

\* The encoder's slot is the header the parser will have seen last, unless
\* the packet it belongs to may still be dropped.
SlotsOK ==
  \A c \in Csids :
    LET h == previous_headers[c]
        s == parser.streams[c]
    IN h.known /\ ~h.droppable =>
         /\ \A j \in DOMAIN packets :
              /\ Pending(j) /\ packets[j].header.csid = c
              /\ \A k \in DOMAIN packets :
                   Pending(k) /\ packets[k].header.csid = c => k <= j
              => packets[j].header = h
         /\ (\A j \in DOMAIN packets : Pending(j) => packets[j].header.csid # c)
            => /\ s.known
               /\ s.ts = h.ts /\ s.type = h.type /\ s.msid = h.msid
               /\ s.len = h.len /\ s.time_field = h.field

IsResize(j) == packets[j].header.type = SetChunkSizeType

\* The chunk size in force before packet i: the one of the last pending
\* SetChunkSize, or the parser's.
SizeBefore(i, size) ==
  /\ \A j \in DOMAIN packets :
       /\ Pending(j) /\ IsResize(j) /\ j < i
       /\ \A k \in DOMAIN packets : Pending(k) /\ IsResize(k) /\ k < i => k <= j
       => size = packets[j].size
  /\ (\A j \in DOMAIN packets : Pending(j) /\ IsResize(j) => i <= j)
     => size = parser.chunk_size

SizesOK ==
  /\ \A i \in DOMAIN packets : Pending(i) => SizeBefore(i, packets[i].chunk_size)
  /\ SizeBefore(Len(packets) + 1, max_chunk_size)

\* The parser is exactly where the cursor is.
ProgressOK ==
  LET p == packets[cursor.pkt]
      c == p.header.csid
      s == parser.streams[c]
      begun == \/ cursor.state = InBody
               \/ cursor.state = InHeader /\ cursor.sent > 0
  IN /\ cursor.state # Idle => cursor.pkt \notin discarded
     /\ cursor.state # InBody => parser.current = NoCsid /\ cursor.body = 0
     /\ ~begun => \A d \in Csids : ~parser.streams[d].active
     /\ begun => /\ \A d \in Csids \ {c} : ~parser.streams[d].active
                 /\ s.known /\ s.active
                 /\ s.ts = p.header.ts /\ s.type = p.header.type
                 /\ s.msid = p.header.msid /\ s.len = p.header.len
                 /\ s.time_field = p.header.field
                 /\ s.received = cursor.sent
                 /\ cursor.sent < p.header.len
     /\ cursor.state = InBody =>
          /\ parser.current = c
          /\ cursor.body <= cursor.sent
          /\ cursor.body < p.chunk_size
          /\ parser.chunk_left =
               MinOf(p.header.len - (cursor.sent - cursor.body), p.chunk_size) - cursor.body

IndInv == /\ TypeOK
          /\ StaysAligned
          /\ RoundTrip
          /\ DeliveredOnceInOrder
          /\ PacketsOK
          /\ ChainOK
          /\ SlotsOK
          /\ SizesOK
          /\ ProgressOK
=============================================================================
