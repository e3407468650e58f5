--------------------------- MODULE ChunkWireProofs ---------------------------
(***************************************************************************)
(* ChunkWire keeps its inductive invariant for every clock, chunk size,    *)
(* message set and number of packets: header compression is sound under    *)
(* any choice of packets to drop.                                          *)
(*                                                                         *)
(* First the initial states and the steps of the sending application, and  *)
(* how the peer reads each chunk header and each fragment; then the steps  *)
(* of the packet cursor, the invariants and the refinement.                *)
(***************************************************************************)
EXTENDS ChunkWire, ChunkChannel, FiniteSetTheorems, TLAPS

-----------------------------------------------------------------------------
(* Arithmetic of the wrapping clock.                                       *)

\* The difference of two timestamps is a timestamp, and adding it back to the
\* earlier one gives the later one, also across the wrap.
LEMMA WrapAddSub ==
  ASSUME NEW a \in Times, NEW b \in Times
  PROVE  /\ sub_values(a, b) \in Times
         /\ add_values(a, b) \in Times
         /\ add_values(b, sub_values(a, b)) = a
BY ClockAssumption DEF Times, sub_values, add_values

\* Every message type has one of the encoder's five chunk streams.
LEMMA CsidOfType ==
  ASSUME NEW t \in Nat
  PROVE  get_csid_for_message_type(t) \in Csids
BY DEF get_csid_for_message_type, Csids

-----------------------------------------------------------------------------
(* The initial states.                                                     *)

\* Nothing has been sent, and the two sides agree on it.
LEMMA InitIndInv == Init => IndInv
<1> SUFFICES ASSUME Init PROVE IndInv
  BY Zenon
<1> USE DEF Init
<1>1. packets = << >> /\ DOMAIN packets = {} /\ Len(packets) = 0
  OBVIOUS
<1>2. TypeOK
  BY ClockAssumption, ParserLimits
  DEF TypeOK, ParserType, NoHeader, NewParser, Untracked, StreamType, Times, Csids, Idle,
      InHeader, InBody, NoCsid
<1>3. StaysAligned /\ RoundTrip /\ PacketsOK /\ ChainOK
  BY Zenon, <1>1 DEF StaysAligned, RoundTrip, PacketsOK, ChainOK
<1>4. DeliveredOnceInOrder
  BY Zenon, <1>1 DEF DeliveredOnceInOrder
<1>5. SlotsOK
  BY Zenon DEF SlotsOK, NoHeader
<1>6. SizesOK
  BY Zenon, <1>1 DEF SizesOK, SizeBefore, NewParser
<1>7. ProgressOK
  BY Zenon DEF ProgressOK, NewParser, Untracked, Idle, InHeader, InBody
<1> QED BY Zenon, <1>2, <1>3, <1>4, <1>5, <1>6, <1>7 DEF IndInv

-----------------------------------------------------------------------------
(* Encode and SetChunkSize: a packet is added to the log.                  *)

\* The encoder adds a packet, whole and well formed, behind the others.
LEMMA EncodeIndInv ==
  ASSUME IndInv,
         NEW m \in [type : Nat, msid : Nat, ts : Times, len : Nat],
         m.len <= MaximumMessageSize,
         NEW drop \in BOOLEAN, NEW full \in BOOLEAN, NEW size \in Nat,
         encode(m, drop, full, size),
         IF m.type = SetChunkSizeType
         THEN ~drop /\ size \in ChunkSizes /\ max_chunk_size' = size
         ELSE max_chunk_size' = max_chunk_size,
         UNCHANGED <<discarded, cursor, parser, delivered, broken>>
  PROVE  IndInv'
<1> PICK n : n = Len(packets) + 1
  BY Zenon
<1> DEFINE c == get_csid_for_message_type(m.type)
           previous == previous_headers[c]
           format == ChunkHeaderFormat(previous, m, full)
           h == HeaderFor(previous, m, format, drop)
           q == [header |-> h, first |-> format,
                 continuation |-> IF full THEN Full ELSE Empty,
                 chunk_size |-> max_chunk_size, size |-> size]
<1>1. /\ previous_headers' = [previous_headers EXCEPT ![c] = h]
      /\ packets' = Append(packets, q)
  BY Zenon DEF encode
<1>2. TypeOK /\ ProgressOK /\ PacketsOK /\ ChainOK /\ SlotsOK /\ SizesOK
  BY Zenon DEF IndInv
<1>3. c \in Csids /\ m.type \in Nat /\ m.msid \in Nat /\ m.ts \in Times /\ m.len \in Nat
  BY Zenon, CsidOfType
<1>4. /\ format \in 0 .. 3
      /\ full => format = Full
      /\ format # Full => /\ previous.known /\ ~previous.droppable
                          /\ previous.msid = m.msid
      /\ format \in {TimeDeltaOnly, Empty} => previous.type = m.type /\ previous.len = m.len
      /\ format = Empty => previous.field = sub_values(m.ts, previous.ts)
  BY DEF ChunkHeaderFormat, Full, TimeDeltaWithoutMessageStreamId, TimeDeltaOnly, Empty
<1>5. /\ h.known = TRUE /\ h.csid = c /\ h.ts = m.ts /\ h.type = m.type /\ h.msid = m.msid
      /\ h.len = m.len /\ h.droppable = drop
      /\ h.field = IF format = Full THEN m.ts ELSE sub_values(m.ts, previous.ts)
  BY Zenon DEF HeaderFor
<1>6. previous.ts \in Times /\ h.field \in Times
  <2>1. previous.ts \in Times
    BY Zenon, <1>2, <1>3 DEF TypeOK
  <2> QED BY Zenon, <2>1, <1>3, <1>5, WrapAddSub
<1>7. h \in [known : {TRUE}, csid : Csids, ts : Times, field : Times,
             type : Nat, msid : Nat, len : Nat, droppable : BOOLEAN]
  BY Zenon, <1>3, <1>5, <1>6 DEF HeaderFor
<1>8. q \in PacketType
  BY ZenonT(30), <1>2, <1>4, <1>7 DEF PacketType, TypeOK, Full, Empty
<1>9. /\ q.header = h /\ q.first = format /\ q.chunk_size = max_chunk_size
      /\ q.size = size /\ q.continuation = IF full THEN Full ELSE Empty
  BY Zenon
<1> HIDE DEF format, h, q, previous, c
<1>10. /\ n \in Nat /\ n \notin DOMAIN packets
       /\ DOMAIN packets' = DOMAIN packets \cup {n} /\ Len(packets') = n
       /\ packets'[n] = q
       /\ \A i \in DOMAIN packets : packets'[i] = packets[i] /\ i \in Nat /\ i < n
  BY SMTT(30), <1>1, <1>2, <1>8 DEF TypeOK
<1>11. /\ \A i \in DOMAIN packets : /\ Pending(i)' <=> Pending(i)
                                    /\ NotBegun(i)' <=> NotBegun(i)
                                    /\ Unsent(i)' <=> Unsent(i)
       /\ Pending(n)' /\ NotBegun(n)'
       /\ cursor.state # Idle => cursor.pkt \in DOMAIN packets
  <2>1. /\ cursor' = cursor /\ discarded' = discarded /\ cursor.pkt \in Nat
        /\ cursor.pkt <= Len(packets) /\ Len(packets) \in Nat
        /\ DOMAIN packets = 1 .. Len(packets) /\ Len(packets') = Len(packets) + 1
        /\ discarded \subseteq DOMAIN packets
        /\ cursor.state # Idle => cursor.pkt > 0
    BY <1>2, <1>10 DEF TypeOK
  <2>2. \A i \in DOMAIN packets : Unsent(i)' <=> Unsent(i)
    BY <2>1 DEF Unsent
  <2>3. \A i \in DOMAIN packets : /\ Pending(i)' <=> Pending(i)
                                  /\ NotBegun(i)' <=> NotBegun(i)
    BY Zenon, <2>1, <2>2 DEF Pending, NotBegun
  <2>4. Unsent(n)'
    BY <2>1 DEF Unsent
  <2> QED BY <2>1, <2>2, <2>3, <2>4 DEF Pending, NotBegun
<1>12. TypeOK'
  <2>1. packets' \in Seq(PacketType)
    BY <1>1, <1>2, <1>8 DEF TypeOK
  <2>2. max_chunk_size' \in Nat \ {0}
    BY SMTT(30), <1>2, WireAssumption DEF TypeOK
  <2>3. previous_headers' \in [Csids -> [known : BOOLEAN, csid : Csids, ts : Times,
                                         field : Times, type : Nat, msid : Nat,
                                         len : Nat, droppable : BOOLEAN]]
    BY ZenonT(30), <1>1, <1>2, <1>7 DEF TypeOK
  <2>4. discarded' \subseteq DOMAIN packets'
    BY Zenon, <1>2, <1>10 DEF TypeOK
  <2>5. /\ cursor' \in [pkt : Nat, state : {Idle, InHeader, InBody}, sent : Nat, body : Nat]
        /\ cursor'.state # Idle => cursor'.pkt > 0
    BY Zenon, <1>2 DEF TypeOK
  <2>6. cursor'.pkt <= Len(packets')
    <3>1. cursor.pkt \in Nat /\ cursor.pkt <= Len(packets) /\ Len(packets) \in Nat
      BY <1>2 DEF TypeOK
    <3> QED BY <3>1, <1>10
  <2>7. /\ parser' \in ParserType
        /\ delivered' \in Seq([pkt : Nat, type : Nat, msid : Nat, ts : Times, len : Nat])
        /\ broken' \in {"no", "misaligned", "rejected"}
    BY Zenon, <1>2 DEF TypeOK
  <2> QED BY Zenon, <2>1, <2>2, <2>3, <2>4, <2>5, <2>6, <2>7 DEF TypeOK
<1>13. StaysAligned' /\ RoundTrip' /\ DeliveredOnceInOrder'
  <2>1. StaysAligned' /\ RoundTrip'
    BY <1>10 DEF IndInv, StaysAligned, RoundTrip
  <2>2. \A i \in DOMAIN packets : Finished(i)' <=> Finished(i)
    BY Zenon DEF Finished
  <2>3. ~Finished(n)'
    BY <1>2, <1>10 DEF Finished, TypeOK
  <2> QED BY <1>10, <2>1, <2>2, <2>3 DEF IndInv, DeliveredOnceInOrder
<1>14. PacketsOK'
  BY SMTT(30), <1>2, <1>3, <1>4, <1>5, <1>9, <1>10 DEF PacketsOK, c, Full, Empty
<1>15. ProgressOK'
  <2>1. CASE cursor.state = Idle
    BY Zenon, <2>1, <1>2 DEF ProgressOK, Idle, InHeader, InBody
  <2>2. CASE cursor.state # Idle
    <3>1. packets'[cursor.pkt] = packets[cursor.pkt]
      BY Zenon, <2>2, <1>10, <1>11
    <3> QED BY ZenonT(30), <3>1, <1>2 DEF ProgressOK
  <2> QED BY Zenon, <2>1, <2>2
<1>16. ChainOK'
  <2> SUFFICES ASSUME NEW i \in DOMAIN packets', NotBegun(i)', packets'[i].first # Full
               PROVE  /\ \A j \in DOMAIN packets' :
                           Precedes(j, i)' =>
                             /\ ~packets'[j].header.droppable
                             /\ Follows(packets'[i], packets'[j].header)
                      /\ IsFirst(i)' =>
                           LET s == parser.streams[packets'[i].header.csid] IN
                           s.known /\ Follows(packets'[i], HeaderOf(s))
    BY Zenon DEF ChainOK
  <2>1. CASE i \in DOMAIN packets
    <3>1. packets'[i] = packets[i] /\ NotBegun(i) /\ packets[i].first # Full
      BY Zenon, <2>1, <1>10, <1>11
    <3>2. ASSUME NEW j \in DOMAIN packets', Precedes(j, i)'
          PROVE  /\ ~packets'[j].header.droppable
                 /\ Follows(packets'[i], packets'[j].header)
      <4>1. j \in DOMAIN packets /\ packets'[j] = packets[j]
        BY <3>2, <2>1, <1>10 DEF Precedes
      <4>2. Precedes(j, i)
        BY Zenon, <4>1, <3>1, <3>2, <2>1, <1>10, <1>11 DEF Precedes, SameCsid
      <4> QED BY Zenon, <4>1, <4>2, <3>1, <2>1, <1>2 DEF ChainOK
    <3>3. ASSUME IsFirst(i)'
          PROVE  IsFirst(i)
      BY Zenon, <3>1, <3>3, <2>1, <1>10, <1>11 DEF IsFirst, SameCsid
    <3>4. IsFirst(i) => LET s == parser.streams[packets[i].header.csid] IN
                        s.known /\ Follows(packets[i], HeaderOf(s))
      BY Zenon, <3>1, <2>1, <1>2 DEF ChainOK
    <3> QED BY Zenon, <3>1, <3>2, <3>3, <3>4
  <2>2. CASE i = n
    <3>1. previous.known /\ ~previous.droppable
      BY Zenon, <2>2, <1>4, <1>9, <1>10
    <3>2. Follows(q, previous)
      BY Zenon, <1>4, <1>5, <1>9 DEF Follows, Full, TimeDeltaOnly, Empty
    <3>3. ASSUME NEW j \in DOMAIN packets', Precedes(j, i)'
          PROVE  packets'[j].header = previous
      <4>1. j \in DOMAIN packets /\ Pending(j) /\ packets[j].header.csid = c
        BY SMTT(40), ZenonT(20), <3>3, <2>2, <1>5, <1>9, <1>10, <1>11 DEF Precedes, SameCsid
      <4>2. \A k \in DOMAIN packets :
              Pending(k) /\ packets[k].header.csid = c => k <= j
        BY SMTT(40), ZenonT(20), <3>3, <2>2, <1>5, <1>9, <1>10, <1>11 DEF Precedes, SameCsid
      <4> QED BY <4>1, <4>2, <3>1, <1>2, <1>3, <1>10 DEF SlotsOK, previous
    <3>4. ASSUME IsFirst(i)'
          PROVE  LET s == parser.streams[c] IN s.known /\ Follows(q, HeaderOf(s))
      <4>1. \A j \in DOMAIN packets : Pending(j) => packets[j].header.csid # c
        BY SMTT(40), ZenonT(20), <3>4, <2>2, <1>5, <1>9, <1>10, <1>11 DEF IsFirst, SameCsid
      <4>2. LET s == parser.streams[c] IN
              /\ s.known
              /\ s.ts = previous.ts /\ s.type = previous.type /\ s.msid = previous.msid
              /\ s.len = previous.len /\ s.time_field = previous.field
        BY Zenon, <4>1, <3>1, <1>2, <1>3 DEF SlotsOK, previous
      <4> QED BY Zenon, <4>2, <3>2 DEF Follows, HeaderOf
    <3> QED BY Zenon, <3>1, <3>2, <3>3, <3>4, <2>2, <1>5, <1>9, <1>10
  <2> QED BY Zenon, <2>1, <2>2, <1>10
<1>17. SlotsOK'
  <2> SUFFICES ASSUME NEW d \in Csids, previous_headers'[d].known,
                      ~previous_headers'[d].droppable
               PROVE  LET g == previous_headers'[d]
                          s == parser.streams[d]
                      IN /\ \A j \in DOMAIN packets' :
                              /\ Pending(j)' /\ packets'[j].header.csid = d
                              /\ \A k \in DOMAIN packets' :
                                   Pending(k)' /\ packets'[k].header.csid = d => k <= j
                              => packets'[j].header = g
                         /\ (\A j \in DOMAIN packets' :
                               Pending(j)' => packets'[j].header.csid # d)
                            => /\ s.known
                               /\ s.ts = g.ts /\ s.type = g.type /\ s.msid = g.msid
                               /\ s.len = g.len /\ s.time_field = g.field
    BY Zenon DEF SlotsOK
  <2>1. CASE d = c
    <3>1. previous_headers'[d] = h
      BY Zenon, <2>1, <1>1, <1>2, <1>3 DEF TypeOK
    <3>2. ASSUME NEW j \in DOMAIN packets',
                 \A k \in DOMAIN packets' :
                   Pending(k)' /\ packets'[k].header.csid = d => k <= j
          PROVE  j = n
      BY <3>2, <2>1, <1>5, <1>9, <1>10, <1>11
    <3> QED BY SMTT(40), ZenonT(20), <3>1, <3>2, <2>1, <1>5, <1>9, <1>10, <1>11
  <2>2. CASE d # c
    <3>1. previous_headers'[d] = previous_headers[d]
      BY Zenon, <2>2, <1>1, <1>2, <1>3 DEF TypeOK
    <3>2. packets'[n].header.csid # d
      BY Zenon, <2>2, <1>5, <1>9, <1>10
    <3>3. ASSUME NEW j \in DOMAIN packets', Pending(j)', packets'[j].header.csid = d,
                 \A k \in DOMAIN packets' :
                   Pending(k)' /\ packets'[k].header.csid = d => k <= j
          PROVE  packets'[j].header = previous_headers[d]
      <4>1. j \in DOMAIN packets /\ packets'[j] = packets[j]
        BY Zenon, <3>2, <3>3, <1>10
      <4>2. \A k \in DOMAIN packets : k \in DOMAIN packets' /\ packets'[k] = packets[k]
        BY Zenon, <1>10
      <4>3. Pending(j) /\ \A k \in DOMAIN packets :
                            Pending(k) /\ packets[k].header.csid = d => k <= j
        BY ZenonT(30), <3>3, <4>1, <4>2, <1>11
      <4>4. previous_headers[d].known /\ ~previous_headers[d].droppable
            /\ packets[j].header.csid = d
        BY Zenon, <3>1, <3>3, <4>1
      <4>5. packets[j].header = previous_headers[d]
        BY ZenonT(30), <4>1, <4>3, <4>4, <1>2 DEF SlotsOK
      <4> QED BY Zenon, <4>1, <4>5
    <3>4. ASSUME \A j \in DOMAIN packets' : Pending(j)' => packets'[j].header.csid # d
          PROVE  \A j \in DOMAIN packets : Pending(j) => packets[j].header.csid # d
      <4>1. \A k \in DOMAIN packets : k \in DOMAIN packets' /\ packets'[k] = packets[k]
        BY Zenon, <1>10
      <4> QED BY ZenonT(30), <3>4, <4>1, <1>11
    <3> QED BY ZenonT(30), <3>1, <3>3, <3>4, <1>2 DEF SlotsOK
  <2> QED BY Zenon, <2>1, <2>2
<1>18. SizesOK'
  <2>1. \A i \in DOMAIN packets : Pending(i)' => SizeBefore(i, packets[i].chunk_size)'
    <3> SUFFICES ASSUME NEW i \in DOMAIN packets, Pending(i)
                 PROVE  SizeBefore(i, packets[i].chunk_size)'
      BY Zenon, <1>11
    <3>1. SizeBefore(i, packets[i].chunk_size) /\ i < n /\ i \in Nat
      BY Zenon, <1>2, <1>10 DEF SizesOK
    <3>2. \A j \in DOMAIN packets : /\ IsResize(j)' <=> IsResize(j)
                                    /\ packets'[j].size = packets[j].size
      BY Zenon, <1>10 DEF IsResize
    <3> QED BY SMTT(40), ZenonT(20), <3>1, <3>2, <1>10, <1>11 DEF SizeBefore
  <2>2. SizeBefore(n, max_chunk_size)
    BY Zenon, <1>2 DEF SizesOK
  <2>3. SizeBefore(n, packets[n].chunk_size)'
    BY SMTT(40), ZenonT(20), <2>2, <1>9, <1>10, <1>11 DEF SizeBefore, IsResize
  <2>4. SizeBefore(n + 1, max_chunk_size)'
    <3>1. CASE m.type = SetChunkSizeType
      <4>1. IsResize(n)' /\ packets'[n].size = max_chunk_size'
        BY Zenon, <3>1, <1>5, <1>9, <1>10 DEF IsResize
      <4> QED BY SMTT(40), ZenonT(20), <4>1, <1>10, <1>11 DEF SizeBefore
    <3>2. CASE m.type # SetChunkSizeType
      <4>1. ~IsResize(n)' /\ max_chunk_size' = max_chunk_size
        BY Zenon, <3>2, <1>5, <1>9, <1>10 DEF IsResize
      <4> QED BY SMTT(40), ZenonT(20), <4>1, <2>2, <1>10, <1>11 DEF SizeBefore, IsResize
    <3> QED BY Zenon, <3>1, <3>2
  <2> QED BY Zenon, <2>1, <2>3, <2>4, <1>10 DEF SizesOK
<1> QED BY Zenon, <1>12, <1>13, <1>14, <1>15, <1>16, <1>17, <1>18 DEF IndInv

\* Encode and SetChunkSize are both instances of the lemma above.
LEMMA EncodersIndInv ==
  ASSUME IndInv, Encode \/ SetChunkSize
  PROVE  IndInv'
<1>1. CASE Encode
  <2>1. PICK m \in Messages, drop \in BOOLEAN, full \in BOOLEAN :
          encode(m, drop, full, NoSize)
    BY Zenon, <1>1 DEF Encode
  <2>2. /\ m \in [type : Nat, msid : Nat, ts : Times, len : Nat]
        /\ m.len <= MaximumMessageSize /\ m.type # SetChunkSizeType
    BY Zenon, WireAssumption
  <2>3. NoSize \in Nat
    BY Zenon DEF NoSize
  <2> QED BY Zenon, <1>1, <2>1, <2>2, <2>3, EncodeIndInv DEF Encode
<1>2. CASE SetChunkSize
  <2>1. PICK size \in ChunkSizes, time \in ControlTimes :
          /\ encode([type |-> SetChunkSizeType, msid |-> 0, ts |-> time,
                     len |-> ControlLength], FALSE, TRUE, size)
          /\ max_chunk_size' = size
    BY ZenonT(30), <1>2 DEF SetChunkSize
  <2> DEFINE m == [type |-> SetChunkSizeType, msid |-> 0, ts |-> time,
                   len |-> ControlLength]
  <2>2. /\ m \in [type : Nat, msid : Nat, ts : Times, len : Nat]
        /\ m.len <= MaximumMessageSize /\ m.type = SetChunkSizeType
        /\ size \in Nat
    BY WireAssumption, ParserLimits DEF SetChunkSizeType
  <2>3. encode(m, FALSE, TRUE, size)
    BY ZenonT(30), <2>1
  <2> HIDE DEF m
  <2> QED BY ZenonT(30), <1>2, <2>1, <2>2, <2>3, EncodeIndInv DEF SetChunkSize
<1> QED BY Zenon, <1>1, <1>2

\* A dropped packet was never the one a later header is compressed against.
LEMMA DiscardIndInv ==
  ASSUME IndInv, Discard
  PROVE  IndInv'
<1>1. PICK d \in DOMAIN packets : /\ Unsent(d)
                                  /\ packets[d].header.droppable
                                  /\ discarded' = discarded \cup {d}
  BY Zenon DEF Discard
<1>2. UNCHANGED <<previous_headers, max_chunk_size, packets, cursor, parser, delivered, broken>>
  BY Zenon DEF Discard, encoderVars
<1>3. TypeOK /\ ProgressOK /\ PacketsOK /\ ChainOK /\ SlotsOK /\ SizesOK
  BY Zenon DEF IndInv
<1>4. /\ d > cursor.pkt /\ d \in Nat
      /\ \A i \in DOMAIN packets : i \in Nat
  BY <1>1, <1>3 DEF Unsent, TypeOK
<1>5. /\ \A i \in DOMAIN packets : /\ Pending(i)' <=> Pending(i) /\ i # d
                                   /\ NotBegun(i)' <=> NotBegun(i) /\ i # d
                                   /\ Finished(i)' <=> Finished(i)
      /\ Pending(d) /\ ~IsResize(d)
  <2>1. cursor.pkt \in Nat
    BY Zenon, <1>3 DEF TypeOK
  <2>2. d # cursor.pkt /\ d \notin 1 .. cursor.pkt
    BY <1>4, <2>1
  <2>3. \A i \in DOMAIN packets : Unsent(i)' <=> Unsent(i) /\ i # d
    BY Zenon, <1>1, <1>2 DEF Unsent
  <2>4. \A i \in DOMAIN packets : /\ Pending(i)' <=> Pending(i) /\ i # d
                                  /\ NotBegun(i)' <=> NotBegun(i) /\ i # d
    BY Zenon, <1>2, <2>2, <2>3 DEF Pending, NotBegun
  <2>5. \A i \in DOMAIN packets : Finished(i)' <=> Finished(i)
    BY Zenon, <1>1, <1>2, <2>2 DEF Finished
  <2>6. Pending(d) /\ ~IsResize(d)
    BY Zenon, <1>1, <1>3 DEF Pending, PacketsOK, IsResize
  <2> QED BY Zenon, <2>4, <2>5, <2>6
<1>6. TypeOK'
  BY Zenon, <1>1, <1>2, <1>3 DEF TypeOK
<1>7. StaysAligned' /\ RoundTrip' /\ DeliveredOnceInOrder' /\ PacketsOK'
  <2>1. StaysAligned' /\ RoundTrip' /\ PacketsOK'
    BY Zenon, <1>2 DEF IndInv, StaysAligned, RoundTrip, PacketsOK
  <2>2. DeliveredOnceInOrder'
    BY Zenon, <1>2, <1>5 DEF IndInv, DeliveredOnceInOrder
  <2> QED BY Zenon, <2>1, <2>2
<1>8. ProgressOK'
  <2>1. cursor.pkt \in discarded' <=> cursor.pkt \in discarded
    BY <1>1, <1>3, <1>4 DEF TypeOK
  <2> QED BY ZenonT(30), <2>1, <1>2, <1>3 DEF ProgressOK
<1>9. ChainOK'
  <2> SUFFICES ASSUME NEW i \in DOMAIN packets, NotBegun(i), i # d,
                      packets[i].first # Full
               PROVE  /\ \A j \in DOMAIN packets :
                           Precedes(j, i)' =>
                             /\ ~packets[j].header.droppable
                             /\ Follows(packets[i], packets[j].header)
                      /\ IsFirst(i)' =>
                           LET s == parser.streams[packets[i].header.csid] IN
                           s.known /\ Follows(packets[i], HeaderOf(s))
    BY Zenon, <1>2, <1>5 DEF ChainOK
  <2>1. ~Precedes(d, i)
    BY Zenon, <1>1, <1>3 DEF ChainOK
  <2>2. \A j \in DOMAIN packets : Precedes(j, i)' => Precedes(j, i)
    <3> SUFFICES ASSUME NEW j \in DOMAIN packets, Precedes(j, i)',
                        ~Precedes(j, i)
                 PROVE  FALSE
      BY Zenon
    <3>1. Pending(j) /\ j < i /\ SameCsid(j, i) /\ j # d
      BY Zenon, <1>2, <1>5 DEF Precedes, SameCsid
    <3>2. \A k \in DOMAIN packets : Pending(k) /\ k # d /\ SameCsid(k, i) /\ k < i => k <= j
      BY Zenon, <1>2, <1>5 DEF Precedes, SameCsid
    <3>3. SameCsid(d, i) /\ d < i /\ ~(d <= j)
      BY Zenon, <3>1, <3>2 DEF Precedes
    <3>4. Precedes(d, i)
      BY <3>1, <3>2, <3>3, <1>4, <1>5 DEF Precedes
    <3> QED BY Zenon, <2>1, <3>4
  <2>3. IsFirst(i)' => IsFirst(i)
    <3> SUFFICES ASSUME IsFirst(i)', ~IsFirst(i) PROVE FALSE
      BY Zenon
    <3>1. \A k \in DOMAIN packets : Pending(k) /\ k # d /\ SameCsid(k, i) => i <= k
      BY Zenon, <1>2, <1>5 DEF IsFirst, SameCsid
    <3>2. SameCsid(d, i) /\ ~(i <= d)
      BY Zenon, <3>1 DEF IsFirst
    <3>3. Precedes(d, i)
      BY <3>1, <3>2, <1>4, <1>5 DEF Precedes
    <3> QED BY Zenon, <2>1, <3>3
  <2> QED BY Zenon, <2>2, <2>3, <1>3 DEF ChainOK
<1>10. SlotsOK'
  <2> SUFFICES ASSUME NEW c \in Csids, previous_headers[c].known,
                      ~previous_headers[c].droppable
               PROVE  LET h == previous_headers[c]
                          s == parser.streams[c]
                      IN /\ \A j \in DOMAIN packets :
                              /\ Pending(j)' /\ packets[j].header.csid = c
                              /\ \A k \in DOMAIN packets :
                                   Pending(k)' /\ packets[k].header.csid = c => k <= j
                              => packets[j].header = h
                         /\ (\A j \in DOMAIN packets :
                               Pending(j)' => packets[j].header.csid # c)
                            => /\ s.known
                               /\ s.ts = h.ts /\ s.type = h.type /\ s.msid = h.msid
                               /\ s.len = h.len /\ s.time_field = h.field
    BY Zenon, <1>2 DEF SlotsOK
  <2> DEFINE Last(j) == \A k \in DOMAIN packets :
                          Pending(k) /\ packets[k].header.csid = c => k <= j
             LastNow(j) == \A k \in DOMAIN packets :
                             Pending(k) /\ k # d /\ packets[k].header.csid = c => k <= j
  <2>1. ~(packets[d].header.csid = c /\ Last(d))
    BY Zenon, <1>1, <1>3, <1>5 DEF SlotsOK
  <2>2. \A j \in DOMAIN packets : LastNow(j) /\ packets[j].header.csid = c /\ Pending(j) /\ j # d => Last(j)
    BY <2>1, <1>4
  <2>3. (\A j \in DOMAIN packets : Pending(j) /\ j # d => packets[j].header.csid # c)
        => \A j \in DOMAIN packets : Pending(j) => packets[j].header.csid # c
    BY <2>1, <1>4
  <2> QED BY Zenon, <2>2, <2>3, <1>3, <1>5 DEF SlotsOK
<1>11. SizesOK'
  <2>1. \A i \in DOMAIN packets : Pending(i)' => SizeBefore(i, packets[i].chunk_size)'
    BY SMTT(40), ZenonT(20), <1>2, <1>3, <1>5 DEF SizesOK, SizeBefore, IsResize
  <2>2. SizeBefore(Len(packets) + 1, max_chunk_size)'
    BY SMTT(40), ZenonT(20), <1>2, <1>3, <1>5 DEF SizesOK, SizeBefore, IsResize
  <2> QED BY Zenon, <2>1, <2>2, <1>2 DEF SizesOK
<1> QED BY Zenon, <1>6, <1>7, <1>8, <1>9, <1>10, <1>11 DEF IndInv

\* Every packet between the finished one and the next one to send was dropped,
\* so starting a packet leaves the set of pending packets as it was.
LEMMA StartPacketIndInv ==
  ASSUME IndInv, StartPacket
  PROVE  IndInv'
<1>1. PICK i \in DOMAIN packets :
        /\ Unsent(i)
        /\ \A j \in DOMAIN packets : Unsent(j) => i <= j
        /\ cursor' = [pkt |-> i, state |-> InHeader, sent |-> 0, body |-> 0]
  BY Zenon DEF StartPacket
<1>2. /\ UNCHANGED <<previous_headers, max_chunk_size, packets, discarded, parser,
                     delivered, broken>>
      /\ cursor.state = Idle
  BY Zenon DEF StartPacket, encoderVars
<1>3. TypeOK /\ ProgressOK /\ PacketsOK /\ ChainOK /\ SlotsOK /\ SizesOK
  BY Zenon DEF IndInv
<1>4. /\ i \in Nat /\ i > cursor.pkt /\ i \notin discarded /\ i <= Len(packets)
      /\ cursor.pkt \in Nat /\ Len(packets) \in Nat /\ DOMAIN packets = 1 .. Len(packets)
      /\ cursor'.pkt = i /\ cursor'.state = InHeader /\ cursor'.sent = 0 /\ cursor'.body = 0
  BY <1>1, <1>3 DEF Unsent, TypeOK
<1>5. \A j \in DOMAIN packets : /\ Pending(j)' <=> Pending(j)
                                /\ NotBegun(j)' <=> NotBegun(j)
                                /\ Finished(j)' <=> Finished(j)
  BY <1>1, <1>2, <1>4 DEF Pending, NotBegun, Unsent, Finished, Idle, InHeader
<1>6. TypeOK'
  BY <1>1, <1>2, <1>3, <1>4 DEF TypeOK, InHeader, Idle
<1>7. StaysAligned' /\ RoundTrip' /\ DeliveredOnceInOrder' /\ PacketsOK'
  <2>1. StaysAligned' /\ RoundTrip' /\ PacketsOK'
    BY Zenon, <1>2 DEF IndInv, StaysAligned, RoundTrip, PacketsOK
  <2>2. DeliveredOnceInOrder'
    BY Zenon, <1>2, <1>5 DEF IndInv, DeliveredOnceInOrder
  <2> QED BY Zenon, <2>1, <2>2
<1>8. ProgressOK'
  <2>1. parser'.current = NoCsid /\ \A d \in Csids : ~parser'.streams[d].active
    BY Zenon, <1>2, <1>3 DEF ProgressOK, Idle, InBody, InHeader
  <2>2. /\ cursor'.state = InHeader /\ cursor'.state # InBody /\ ~(cursor'.sent > 0)
        /\ cursor'.body = 0 /\ cursor'.pkt \notin discarded'
    BY <1>2, <1>4 DEF InHeader, InBody
  <2> QED BY ZenonT(30), <2>1, <2>2 DEF ProgressOK
<1>9. ChainOK'
  BY ZenonT(30), <1>2, <1>3, <1>5 DEF ChainOK, Precedes, IsFirst, SameCsid
<1>10. SlotsOK'
  BY ZenonT(30), <1>2, <1>3, <1>5 DEF SlotsOK
<1>11. SizesOK'
  <2>1. \A k, size : SizeBefore(k, size)' <=> SizeBefore(k, size)
    BY ZenonT(30), <1>2, <1>5 DEF SizeBefore, IsResize
  <2> QED BY ZenonT(30), <1>2, <1>3, <1>5, <2>1 DEF SizesOK
<1> QED BY Zenon, <1>6, <1>7, <1>8, <1>9, <1>10, <1>11 DEF IndInv

-----------------------------------------------------------------------------
(* The parser on a header and on a fragment that are in step with it.      *)

\* What TypeOK says of one packet.
LEMMA PacketTypes ==
  ASSUME TypeOK
  PROVE  /\ Len(packets) \in Nat /\ DOMAIN packets = 1 .. Len(packets)
         /\ max_chunk_size \in Nat
         /\ \A i \in DOMAIN packets : /\ i \in Nat
                                      /\ packets[i] \in PacketType
                                      /\ packets[i].header.csid \in Csids
                                      /\ packets[i].chunk_size \in Nat
<1>1. /\ Len(packets) \in Nat /\ DOMAIN packets = 1 .. Len(packets)
      /\ max_chunk_size \in Nat
      /\ \A i \in DOMAIN packets : packets[i] \in PacketType
  BY DEF TypeOK
<1>2. \A p \in PacketType : p.header.csid \in Csids /\ p.chunk_size \in Nat
  BY Zenon DEF PacketType
<1> QED BY <1>1, <1>2

\* The packet on the wire comes before every other pending packet.
LEMMA CursorFirst ==
  ASSUME IndInv, cursor.state # Idle
  PROVE  /\ cursor.pkt \in DOMAIN packets /\ cursor.pkt \in Nat
         /\ packets[cursor.pkt] \in PacketType
         /\ Pending(cursor.pkt)
         /\ \A j \in DOMAIN packets : /\ j \in Nat
                                      /\ Pending(j) => cursor.pkt <= j
                                      /\ Pending(j) /\ j # cursor.pkt => cursor.pkt < j
         /\ parser.chunk_size = packets[cursor.pkt].chunk_size
<1>1. TypeOK /\ SizesOK /\ ProgressOK
  BY Zenon DEF IndInv
<1>2. /\ cursor.pkt \in DOMAIN packets /\ cursor.pkt \in Nat
      /\ packets[cursor.pkt] \in PacketType
  BY <1>1 DEF TypeOK
<1>3. Pending(cursor.pkt)
  BY Zenon DEF Pending
<1>4. \A j \in DOMAIN packets : /\ j \in Nat
                                /\ Pending(j) => cursor.pkt <= j
                                /\ Pending(j) /\ j # cursor.pkt => cursor.pkt < j
  BY <1>1 DEF Pending, Unsent, TypeOK
<1>5. parser.chunk_size = packets[cursor.pkt].chunk_size
  BY Zenon, <1>1, <1>2, <1>3, <1>4 DEF SizesOK, SizeBefore
<1> QED BY Zenon, <1>2, <1>3, <1>4, <1>5

\* The last byte of a packet with header h: h is now what the parser saw last
\* on its chunk stream, and a SetChunkSize is in force.
FinishesPacket(h) ==
  /\ cursor.state # Idle
  /\ h = packets[cursor.pkt].header
  /\ cursor' = [pkt |-> cursor.pkt, state |-> Idle, sent |-> 0, body |-> 0]
  /\ parser' \in ParserType
  /\ parser'.current = NoCsid
  /\ parser'.chunk_size = IF h.type = SetChunkSizeType THEN packets[cursor.pkt].size
                                                       ELSE parser.chunk_size
  /\ \A d \in Csids \ {h.csid} : /\ parser'.streams[d] = parser.streams[d]
                                 /\ ~parser.streams[d].active
  /\ LET s == parser'.streams[h.csid]
     IN /\ s.known /\ ~s.active /\ s.ts = h.ts /\ s.type = h.type
        /\ s.msid = h.msid /\ s.len = h.len /\ s.time_field = h.field
  /\ delivered' = Append(delivered, [pkt |-> cursor.pkt, type |-> h.type,
                                     msid |-> h.msid, ts |-> h.ts, len |-> h.len])
  /\ UNCHANGED <<encoderVars, discarded, broken>>

\* A chunk stream that is not tracked leaves room for it.
LEMMA RoomForStream ==
  ASSUME NEW p, NEW c \in Csids, ~p.streams[c].known
  PROVE  Cardinality(Tracked(p)) < 5 /\ Cardinality(Tracked(p)) \in Nat
<1> DEFINE S == 2 .. 6
<1>1. /\ IsFiniteSet(S) /\ Cardinality(S) = 5
  <2>1. \A a, b \in Int : /\ IsFiniteSet(a .. b)
                          /\ a <= b => Cardinality(a .. b) = (b - a) + 1
    BY FS_Interval
  <2>2. /\ IsFiniteSet(2 .. 6)
        /\ 2 <= 6 => Cardinality(2 .. 6) = (6 - 2) + 1
    <3>1. 2 \in Int /\ 6 \in Int
      OBVIOUS
    <3> QED BY Zenon, <2>1, <3>1
  <2> QED BY <2>2
<1>2. /\ IsFiniteSet(S \ {c}) /\ Cardinality(S \ {c}) = 4
  <2> HIDE DEF S
  <2>1. c \in S
    BY Zenon DEF S, Csids
  <2> QED BY SMTT(30), <1>1, <2>1, FS_RemoveElement
<1>3. Tracked(p) \subseteq S \ {c}
  BY Zenon DEF Tracked, Csids
<1>4. Cardinality(Tracked(p)) <= Cardinality(S \ {c})
  BY Zenon, <1>2, <1>3, FS_Subset
<1>5. Cardinality(Tracked(p)) \in Nat
  BY Zenon, <1>2, <1>3, FS_Subset, FS_CardinalityType
<1> QED BY <1>2, <1>4, <1>5

\* The fields of an InlineHeader, and what decides about its extended timestamp.
LEMMA InlineFields ==
  ASSUME NEW h \in [known : {TRUE}, csid : Csids, ts : Times, field : Times,
                    type : Nat, msid : Nat, len : Nat, droppable : BOOLEAN],
         NEW f \in 0 .. 3, NEW g, g = InlineHeader(h, f)
  PROVE  /\ g.fmt = f /\ g.csid = h.csid
         /\ f <= TimeDeltaWithoutMessageStreamId => g.len = h.len /\ g.type = h.type
         /\ f = Full => g.msid = h.msid
         /\ f # Empty => /\ (g.field = ExtField) <=> (h.field >= ExtField)
                         /\ h.field < ExtField => g.field = h.field
         /\ (g.ext # NoExt) <=> (h.field >= ExtField)
         /\ h.field >= ExtField => g.ext = h.field
         /\ h.field \in Nat /\ h.field < Word
<1>1. /\ g.fmt = f /\ g.csid = h.csid
      /\ g.field = IF f = Empty THEN 0
                   ELSE IF h.field < ExtField THEN h.field ELSE ExtField
      /\ g.ext = IF h.field >= ExtField THEN h.field ELSE NoExt
      /\ g.len = IF f \in {Full, TimeDeltaWithoutMessageStreamId} THEN h.len ELSE 0
      /\ g.type = IF f \in {Full, TimeDeltaWithoutMessageStreamId} THEN h.type ELSE 0
      /\ g.msid = IF f = Full THEN h.msid ELSE 0
  BY Zenon DEF InlineHeader
<1>2. h.field \in Nat /\ h.field < Word
  BY ClockAssumption DEF Times
<1>3. f <= TimeDeltaWithoutMessageStreamId => f \in {Full, TimeDeltaWithoutMessageStreamId}
  BY DEF Full, TimeDeltaWithoutMessageStreamId
<1> QED BY <1>1, <1>2, <1>3, ClockAssumption DEF NoExt

\* The parser and the packet on the wire: types, and ProgressOK unfolded.
LEMMA OnTheWire ==
  ASSUME IndInv, cursor.state # Idle, NEW h, h = packets[cursor.pkt].header
  PROVE  /\ h \in [known : {TRUE}, csid : Csids, ts : Times, field : Times,
                   type : Nat, msid : Nat, len : Nat, droppable : BOOLEAN]
         /\ parser.streams \in [Csids -> StreamType]
         /\ parser.streams[h.csid].ts \in Times
         /\ cursor.sent \in Nat /\ cursor.body \in Nat
         /\ \A d \in Csids \ {h.csid} : ~parser.streams[d].active
         /\ cursor.state = InHeader =>
              /\ parser.current = NoCsid /\ cursor.body = 0
              /\ cursor.sent = 0 => ~parser.streams[h.csid].active
         /\ cursor.state = InBody \/ cursor.sent # 0 =>
              LET s == parser.streams[h.csid]
              IN /\ s.known /\ s.active /\ s.ts = h.ts /\ s.type = h.type
                 /\ s.msid = h.msid /\ s.len = h.len /\ s.time_field = h.field
                 /\ s.received = cursor.sent
                 /\ cursor.sent < h.len
<1>1. TypeOK /\ ProgressOK
  BY Zenon DEF IndInv
<1>2. h \in [known : {TRUE}, csid : Csids, ts : Times, field : Times,
             type : Nat, msid : Nat, len : Nat, droppable : BOOLEAN]
  <2>1. \A q \in PacketType : q.header \in [known : {TRUE}, csid : Csids, ts : Times,
                                 field : Times, type : Nat, msid : Nat, len : Nat,
                                 droppable : BOOLEAN]
    BY ZenonT(30) DEF PacketType
  <2>2. packets[cursor.pkt] \in PacketType
    BY Zenon, CursorFirst
  <2> QED BY ZenonT(30), <2>1, <2>2
<1>3. /\ parser.streams \in [Csids -> StreamType]
      /\ cursor.sent \in Nat /\ cursor.body \in Nat
      /\ cursor.state \in {InHeader, InBody}
  BY Zenon, <1>1 DEF TypeOK, ParserType
<1>4. parser.streams[h.csid].ts \in Times
  BY ZenonT(30), <1>2, <1>3 DEF StreamType
<1>5. \A d \in Csids \ {h.csid} : ~parser.streams[d].active
  BY ZenonT(30), <1>1 DEF ProgressOK
<1>6. cursor.state = InHeader => /\ parser.current = NoCsid /\ cursor.body = 0
                                 /\ cursor.sent = 0 => ~parser.streams[h.csid].active
  <2>1. h.csid \in Csids
    BY ZenonT(30), <1>2
  <2>2. cursor.state = InHeader => parser.current = NoCsid /\ cursor.body = 0
    BY ZenonT(30), <1>1 DEF ProgressOK, InHeader, InBody
  <2>3. cursor.state = InHeader /\ cursor.sent = 0 => \A d \in Csids : ~parser.streams[d].active
    BY <1>1 DEF ProgressOK, InHeader, InBody
  <2> QED BY Zenon, <2>1, <2>2, <2>3
<1>7. cursor.state = InBody \/ cursor.sent # 0 =>
        LET s == parser.streams[h.csid]
        IN /\ s.known /\ s.active /\ s.ts = h.ts /\ s.type = h.type
           /\ s.msid = h.msid /\ s.len = h.len /\ s.time_field = h.field
           /\ s.received = cursor.sent
           /\ cursor.sent < h.len
  <2>1. cursor.sent # 0 => cursor.sent > 0
    BY <1>3
  <2> QED BY ZenonT(30), <2>1, <1>1, <1>3 DEF ProgressOK, InHeader, InBody
<1> QED BY ZenonT(30), <1>2, <1>3, <1>4, <1>5, <1>6, <1>7

\* The header that arrives, and the parser's stream s for it.
Arriving(p, h, s, f) ==
  /\ cursor.state = InHeader
  /\ p = packets[cursor.pkt]
  /\ h = p.header
  /\ s = parser.streams[h.csid]
  /\ f = IF cursor.sent = 0 THEN p.first ELSE p.continuation

\* The header on the wire carries what the reader needs to restore the sent one.
LEMMA HeaderMatches ==
  ASSUME IndInv, NEW p, NEW h, NEW s, NEW f, Arriving(p, h, s, f)
  PROVE  /\ CurrentHeader = InlineHeader(h, f)
         /\ f \in 0 .. 3
         /\ h.len <= MaximumMessageSize
         /\ f # Full => s.known /\ s.msid = h.msid
         /\ f = Full => h.field = h.ts
         /\ f = Empty => s.time_field = h.field
         /\ f \in {TimeDeltaOnly, Empty} => s.type = h.type /\ s.len = h.len
         /\ IF cursor.sent = 0
            THEN /\ ~s.active
                 /\ f # Full => h.field = sub_values(h.ts, s.ts)
            ELSE /\ s.known /\ s.active /\ s.ts = h.ts /\ s.type = h.type
                 /\ s.msid = h.msid /\ s.len = h.len
                 /\ s.received = cursor.sent /\ cursor.sent < h.len
<1>1. PacketsOK /\ ChainOK
  BY Zenon DEF IndInv
<1>2. /\ cursor.pkt \in DOMAIN packets /\ p \in PacketType
      /\ \A j \in DOMAIN packets : Pending(j) => cursor.pkt <= j
  BY Zenon, CursorFirst DEF Arriving, Idle, InHeader
<1>3. /\ cursor.body = 0
      /\ cursor.sent = 0 => ~s.active
      /\ cursor.sent # 0 => /\ s.known /\ s.active /\ s.ts = h.ts /\ s.type = h.type
                            /\ s.msid = h.msid /\ s.len = h.len /\ s.time_field = h.field
                            /\ s.received = cursor.sent /\ cursor.sent < h.len
  BY ZenonT(30), OnTheWire DEF Arriving, Idle, InHeader
<1>4. CurrentHeader = InlineHeader(h, f)
  BY ZenonT(30), <1>3 DEF Arriving, CurrentHeader
<1>5. p.first \in 0 .. 3 /\ p.continuation \in {Full, Empty}
  BY Zenon, <1>2 DEF PacketType
<1>6. f \in 0 .. 3
  BY <1>5 DEF Arriving, Full, Empty
<1>7. /\ p.first = Full => h.field = h.ts
      /\ p.continuation = Full => h.field = h.ts
      /\ h.len <= MaximumMessageSize
  BY Zenon, <1>1, <1>2 DEF Arriving, PacketsOK
<1>8. cursor.sent = 0 /\ p.first # Full => s.known /\ Follows(p, HeaderOf(s))
  <2>1. cursor.sent = 0 => NotBegun(cursor.pkt) /\ IsFirst(cursor.pkt)
    BY Zenon, <1>2 DEF Arriving, NotBegun, IsFirst
  <2> QED BY Zenon, <2>1, <1>1, <1>2 DEF Arriving, ChainOK
<1>9. cursor.sent = 0 /\ p.first # Full =>
        /\ s.known /\ s.msid = h.msid /\ h.field = sub_values(h.ts, s.ts)
        /\ p.first \in {TimeDeltaOnly, Empty} => s.type = h.type /\ s.len = h.len
        /\ p.first = Empty => s.time_field = h.field
  BY ZenonT(30), <1>8 DEF Arriving, Follows, HeaderOf
<1>10. CASE cursor.sent = 0
  <2>1. f = p.first
    BY Zenon, <1>10 DEF Arriving
  <2> QED BY SMTT(20), ZenonT(20), <2>1, <1>10, <1>3, <1>4, <1>6, <1>7, <1>9 DEF Full, Empty, TimeDeltaOnly
<1>11. CASE cursor.sent # 0
  <2>1. f = p.continuation
    BY Zenon, <1>11 DEF Arriving
  <2> QED BY Zenon, <2>1, <1>11, <1>3, <1>4, <1>6, <1>7 DEF Full, Empty, TimeDeltaOnly
<1> QED BY Zenon, <1>10, <1>11

\* A header that arrives is accepted, is read with the right length, and leaves
\* the parser with the message header that was encoded.
LEMMA HeaderRead ==
  ASSUME IndInv, NEW p, NEW h, NEW s, NEW f, Arriving(p, h, s, f),
         NEW g, g = CurrentHeader
  PROVE  /\ ~NoPreviousChunkOnStream(parser, g)
         /\ Extended(parser, g) <=> g.ext # NoExt
         /\ ~BeginChunkFails(parser, g)
         /\ g.csid = h.csid
         /\ HeaderTime(parser, g) = h.field
         /\ MessageHeader(parser, g) = [len |-> h.len, type |-> h.type,
                                        msid |-> h.msid, ts |-> h.ts]
<1>1. /\ g = InlineHeader(h, f)
      /\ f \in 0 .. 3
      /\ h.len <= MaximumMessageSize
  BY Zenon, HeaderMatches
<1>2. /\ f # Full => s.known /\ s.msid = h.msid
      /\ f = Full => h.field = h.ts
      /\ f = Empty => s.time_field = h.field
      /\ f \in {TimeDeltaOnly, Empty} => s.type = h.type /\ s.len = h.len
  BY SMTT(20), ZenonT(20), HeaderMatches
<1>3. IF cursor.sent = 0
      THEN /\ ~s.active
           /\ f # Full => h.field = sub_values(h.ts, s.ts)
      ELSE /\ s.known /\ s.active /\ s.ts = h.ts /\ s.type = h.type
           /\ s.msid = h.msid /\ s.len = h.len
           /\ s.received = cursor.sent /\ cursor.sent < h.len
  BY Zenon, HeaderMatches
<1>4. /\ h \in [known : {TRUE}, csid : Csids, ts : Times, field : Times,
                type : Nat, msid : Nat, len : Nat, droppable : BOOLEAN]
      /\ s.ts \in Times /\ cursor.sent \in Nat
      /\ \A d \in Csids \ {h.csid} : ~parser.streams[d].active
  BY ZenonT(30), OnTheWire DEF Arriving, Idle, InHeader
<1>5. h.csid \in Csids /\ h.ts \in Times /\ h.field \in Times /\ h.len \in Nat
  BY Zenon, <1>4
<1>6. /\ g.fmt = f /\ g.csid = h.csid
      /\ f <= TimeDeltaWithoutMessageStreamId => g.len = h.len /\ g.type = h.type
      /\ f = Full => g.msid = h.msid
      /\ f # Empty => /\ (g.field = ExtField) <=> (h.field >= ExtField)
                      /\ h.field < ExtField => g.field = h.field
      /\ (g.ext # NoExt) <=> (h.field >= ExtField)
      /\ h.field >= ExtField => g.ext = h.field
      /\ h.field \in Nat /\ h.field < Word
  BY ZenonT(60), <1>1, <1>4, InlineFields
<1>7. s = parser.streams[g.csid]
  BY Zenon, <1>6 DEF Arriving
<1>8. Extended(parser, g) <=> h.field >= ExtField
  BY Zenon, <1>2, <1>6, <1>7 DEF Extended
<1>9. HeaderTime(parser, g) = h.field
  <2>1. CASE h.field >= ExtField
    BY Zenon, <2>1, <1>6, <1>8 DEF HeaderTime
  <2>2. CASE ~(h.field >= ExtField)
    <3>1. h.field < ExtField
      BY <2>2, <1>6, ClockAssumption
    <3> QED BY Zenon, <2>2, <3>1, <1>2, <1>6, <1>7, <1>8 DEF HeaderTime
  <2> QED BY Zenon, <2>1, <2>2
<1>10. MessageHeader(parser, g) = [len |-> h.len, type |-> h.type, msid |-> h.msid, ts |-> h.ts]
  <2>1. add_values(s.ts, sub_values(h.ts, s.ts)) = h.ts
    BY Zenon, <1>4, <1>5, WrapAddSub
  <2>2. (IF s.active THEN s.ts ELSE IF g.fmt = Full THEN HeaderTime(parser, g)
                               ELSE add_values(s.ts, HeaderTime(parser, g))) = h.ts
    BY Zenon, <2>1, <1>2, <1>3, <1>6, <1>9
  <2>3. f \in 0 .. 3
    BY Zenon, <1>1
  <2>4. f <= TimeDeltaWithoutMessageStreamId \/ f \in {TimeDeltaOnly, Empty}
    BY <2>3 DEF TimeDeltaWithoutMessageStreamId, TimeDeltaOnly, Empty
  <2>5. /\ (IF g.fmt <= TimeDeltaWithoutMessageStreamId THEN g.len ELSE s.len) = h.len
        /\ (IF g.fmt <= TimeDeltaWithoutMessageStreamId THEN g.type ELSE s.type) = h.type
        /\ (IF g.fmt = Full THEN g.msid ELSE s.msid) = h.msid
    BY Zenon, <2>4, <1>2, <1>6
  <2> QED BY Zenon, <2>2, <2>5, <1>7 DEF MessageHeader
<1>11. ~NoPreviousChunkOnStream(parser, g)
  BY Zenon, <1>2, <1>6, <1>7 DEF NoPreviousChunkOnStream
<1>12. ~TooManyTrackedStreams(parser, g)
  <2> SUFFICES ASSUME ~parser.streams[g.csid].known
               PROVE  ~(Cardinality(Tracked(parser)) >= MaximumTrackedChunkStreams)
    BY Zenon DEF TooManyTrackedStreams
  <2>1. g.csid \in Csids
    BY Zenon, <1>5, <1>6
  <2>2. Cardinality(Tracked(parser)) < 5 /\ Cardinality(Tracked(parser)) \in Nat
    BY Zenon, <2>1, RoomForStream
  <2> QED BY <2>2, WireAssumption, ParserLimits
<1>13. ~TooManyPartialMessages(parser, g)
  <2> SUFFICES ASSUME ~s.active
               PROVE  ~(Cardinality(Active(parser)) >= MaximumPartialMessages)
    BY Zenon, <1>7 DEF TooManyPartialMessages
  <2>1. Active(parser) = {}
    BY Zenon, <1>4 DEF Active, Arriving
  <2> QED BY <2>1, FS_EmptySet, WireAssumption, ParserLimits
<1>14. ~InvalidContinuation(parser, g)
  <2>1. \A m : m = MessageHeader(parser, g) =>
          m.len = h.len /\ m.type = h.type /\ m.msid = h.msid
    BY <1>10
  <2>2. s.active => ~(h.len < s.received)
    <3>1. \A a, b \in Nat : a < b => ~(b < a)
      OBVIOUS
    <3> QED BY Zenon, <3>1, <1>3, <1>4, <1>5
  <2>3. s.active => s.ts = h.ts /\ s.type = h.type /\ s.msid = h.msid /\ s.len = h.len
    BY Zenon, <1>3
  <2> QED BY Zenon, <2>1, <2>2, <2>3, <1>2, <1>6, <1>7, <1>9 DEF InvalidContinuation
<1>15. ~(MessageHeader(parser, g).len > MaximumMessageSize)
  <2>1. MessageHeader(parser, g).len = h.len
    BY <1>10
  <2> QED BY <2>1, <1>1, <1>5, ParserLimits
<1>16. ~BeginChunkFails(parser, g)
  BY Zenon, <1>11, <1>12, <1>13, <1>14, <1>15 DEF BeginChunkFails
<1> QED BY Zenon, <1>6, <1>8, <1>9, <1>10, <1>11, <1>16

\* Parser b has read "got" bytes of the message with header h, "left" bytes of
\* its chunk are missing, and it differs from the parser only in that.
Reading(b, h, got, left) ==
  /\ b \in ParserType
  /\ b.chunk_size = parser.chunk_size
  /\ b.chunk_left = left
  /\ \A d \in Csids \ {h.csid} : b.streams[d] = parser.streams[d]
  /\ LET s == b.streams[h.csid]
     IN /\ s.known /\ s.ts = h.ts /\ s.type = h.type
        /\ s.msid = h.msid /\ s.len = h.len /\ s.time_field = h.field
        /\ s.received = got

\* begin_chunk restores the header that was sent.
LEMMA BeginReads ==
  ASSUME IndInv, NEW p, NEW h, NEW s, NEW f, Arriving(p, h, s, f),
         NEW b, b = begin_chunk(parser, CurrentHeader)
  PROVE  /\ Reading(b, h, cursor.sent, MinOf(h.len - cursor.sent, p.chunk_size))
         /\ b.current = h.csid /\ b.streams[h.csid].active
<1> PICK g : g = CurrentHeader
  BY Zenon
<1>1. /\ g.csid = h.csid
      /\ HeaderTime(parser, g) = h.field
      /\ MessageHeader(parser, g) = [len |-> h.len, type |-> h.type,
                                     msid |-> h.msid, ts |-> h.ts]
  BY Zenon, HeaderRead
<1>2. /\ h \in [known : {TRUE}, csid : Csids, ts : Times, field : Times,
                type : Nat, msid : Nat, len : Nat, droppable : BOOLEAN]
      /\ parser.streams \in [Csids -> StreamType]
      /\ cursor.sent \in Nat
  BY ZenonT(30), OnTheWire DEF Arriving, Idle, InHeader
<1>3. (IF s.active THEN s.received ELSE 0) = cursor.sent
  BY Zenon, HeaderMatches
<1>4. parser \in ParserType /\ parser.chunk_size = p.chunk_size
  BY Zenon, CursorFirst DEF Arriving, Idle, InHeader, IndInv, TypeOK
<1>5. s = parser.streams[h.csid]
  BY Zenon DEF Arriving
<1> DEFINE S == [known |-> TRUE, ts |-> h.ts, type |-> h.type, msid |-> h.msid,
                 len |-> h.len, time_field |-> h.field, received |-> cursor.sent,
                 active |-> TRUE]
<1>6. b = [streams |-> [parser.streams EXCEPT ![h.csid] = S],
           current |-> h.csid,
           chunk_left |-> MinOf(h.len - cursor.sent, parser.chunk_size),
           chunk_size |-> parser.chunk_size]
  <2>1. b = begin_chunk(parser, g)
    BY Zenon
  <2> PICK m : m = MessageHeader(parser, g)
    BY Zenon
  <2>2. m.len = h.len /\ m.type = h.type /\ m.msid = h.msid /\ m.ts = h.ts
    BY SMTT(20), ZenonT(20), <1>1
  <2>3. /\ m.len - (IF s.active THEN s.received ELSE 0) = h.len - cursor.sent
        /\ [known |-> TRUE, ts |-> m.ts, type |-> m.type, msid |-> m.msid, len |-> m.len,
            time_field |-> HeaderTime(parser, g),
            received |-> IF s.active THEN s.received ELSE 0, active |-> TRUE] = S
    BY ZenonT(30), <2>2, <1>1, <1>3
  <2> HIDE DEF S
  <2> QED BY ZenonT(30), <2>1, <2>3, <1>1, <1>5 DEF begin_chunk
<1>7. S \in StreamType
  BY Zenon, <1>2 DEF StreamType
<1>8. MinOf(h.len - cursor.sent, parser.chunk_size) \in Nat
  <2>1. h.len \in Nat /\ cursor.sent \in Nat /\ parser.chunk_size \in Nat
    BY Zenon, <1>2, <1>4 DEF ParserType
  <2>2. cursor.sent <= h.len
    BY SMTT(20), ZenonT(20), <2>1, HeaderMatches
  <2> QED BY <2>1, <2>2 DEF MinOf
<1>9. /\ S.known /\ S.ts = h.ts /\ S.type = h.type /\ S.msid = h.msid /\ S.len = h.len
      /\ S.time_field = h.field /\ S.received = cursor.sent /\ S.active
  BY Zenon
<1>10. h.csid \in Csids
  BY Zenon, <1>2
<1> HIDE DEF S
<1>11. /\ b.streams = [parser.streams EXCEPT ![h.csid] = S]
       /\ b.current = h.csid
       /\ b.chunk_left = MinOf(h.len - cursor.sent, parser.chunk_size)
       /\ b.chunk_size = parser.chunk_size
       /\ b \in ParserType
  BY <1>2, <1>4, <1>6, <1>7, <1>8, <1>10 DEF ParserType
<1>12. b.streams[h.csid] = S /\ \A d \in Csids \ {h.csid} : b.streams[d] = parser.streams[d]
  BY <1>2, <1>10, <1>11
<1> QED BY Zenon, <1>4, <1>9, <1>11, <1>12 DEF Reading

\* consume advances by what arrived, and ends the chunk when all of it did.
LEMMA ConsumeReads ==
  ASSUME NEW b, NEW h, NEW got \in Nat, NEW left \in Nat, NEW n \in 0 .. left,
         h.csid \in Csids, Reading(b, h, got, left), b.current = h.csid,
         NEW next, next = consume(b, n)
  PROVE  /\ Reading(next, h, got + n, left - n)
         /\ next.current = IF left = n THEN NoCsid ELSE h.csid
         /\ next.streams[h.csid].active <=> got + n # h.len
<1>1. /\ b \in ParserType /\ b.chunk_left = left /\ b.chunk_size = parser.chunk_size
      /\ \A d \in Csids \ {h.csid} : b.streams[d] = parser.streams[d]
  BY Zenon DEF Reading
<1> PICK s : s = b.streams[h.csid]
  BY Zenon
<1>2. /\ s.known /\ s.ts = h.ts /\ s.type = h.type
      /\ s.msid = h.msid /\ s.len = h.len /\ s.time_field = h.field
      /\ s.received = got
  BY Zenon DEF Reading
<1>3. /\ b.streams \in [Csids -> StreamType] /\ s \in StreamType
      /\ b.chunk_size \in Nat \ {0}
  BY Zenon, <1>1 DEF ParserType
<1>4. CompletesMessage(b, n) <=> got + n = h.len
  BY Zenon, <1>2 DEF CompletesMessage
<1> DEFINE t == [s EXCEPT !.received = s.received + n, !.active = ~CompletesMessage(b, n)]
<1>5. t \in StreamType
  <2>1. \A x \in StreamType, r \in Nat, a \in BOOLEAN :
          [x EXCEPT !.received = r, !.active = a] \in StreamType
    BY ZenonT(30) DEF StreamType
  <2>2. s.received + n \in Nat
    BY <1>2
  <2>3. (~CompletesMessage(b, n)) \in BOOLEAN
    BY Zenon DEF CompletesMessage
  <2> QED BY ZenonT(30), <2>1, <2>2, <2>3, <1>3
<1>6. /\ t.known = s.known /\ t.ts = s.ts /\ t.type = s.type /\ t.msid = s.msid
      /\ t.len = s.len /\ t.time_field = s.time_field /\ t.received = got + n
      /\ t.active = ~CompletesMessage(b, n)
  BY ZenonT(30), <1>2, <1>3 DEF StreamType
<1>7. next = [streams |-> [b.streams EXCEPT ![h.csid] = t],
              current |-> IF left = n THEN NoCsid ELSE h.csid,
              chunk_left |-> left - n,
              chunk_size |-> b.chunk_size]
  BY Zenon, <1>1 DEF consume
<1> HIDE DEF t
<1>8. /\ next.streams = [b.streams EXCEPT ![h.csid] = t]
      /\ next.chunk_left = left - n
      /\ next.current = IF left = n THEN NoCsid ELSE h.csid
      /\ next.chunk_size = parser.chunk_size
      /\ next \in ParserType
  <2>1. left - n \in Nat
    OBVIOUS
  <2>2. [b.streams EXCEPT ![h.csid] = t] \in [Csids -> StreamType]
    BY Zenon, <1>3, <1>5
  <2> QED BY <2>1, <2>2, <1>1, <1>3, <1>7 DEF ParserType
<1>9. next.streams[h.csid] = t /\ \A d \in Csids \ {h.csid} : next.streams[d] = b.streams[d]
  BY Zenon, <1>3, <1>8
<1>10. Reading(next, h, got + n, left - n)
  BY SMTT(40), ZenonT(20), <1>1, <1>2, <1>6, <1>8, <1>9 DEF Reading
<1>11. next.streams[h.csid].active <=> got + n # h.len
  BY ZenonT(30), <1>4, <1>6, <1>9
<1> QED BY Zenon, <1>8, <1>10, <1>11

\* The fragment that ends a chunk and its message finishes the packet.
EndsPacket(b, h, got, n) ==
  /\ cursor.state # Idle
  /\ h = packets[cursor.pkt].header
  /\ Reading(b, h, got, n)
  /\ b.current = h.csid
  /\ Fragment(b, n)
  /\ cursor' = [pkt |-> cursor.pkt, state |-> Idle, sent |-> 0, body |-> 0]
  /\ UNCHANGED <<encoderVars, discarded>>

\* The last fragment ends the packet: the message is whole and the slot is free again.
LEMMA LastFragment ==
  ASSUME IndInv, NEW h, NEW b, NEW got \in Nat, NEW n \in Nat, got + n = h.len,
         EndsPacket(b, h, got, n)
  PROVE  FinishesPacket(h)
<1>1. /\ h \in [known : {TRUE}, csid : Csids, ts : Times, field : Times,
                type : Nat, msid : Nat, len : Nat, droppable : BOOLEAN]
      /\ \A d \in Csids \ {h.csid} : ~parser.streams[d].active
  BY ZenonT(30), OnTheWire DEF EndsPacket
<1>2. h.csid \in Csids
  BY Zenon, <1>1
<1>3. PICK next : next = consume(b, n)
  BY Zenon
<1>4. /\ Reading(next, h, got + n, n - n)
      /\ next.current = NoCsid
      /\ ~next.streams[h.csid].active
  <2>1. n \in 0 .. n
    OBVIOUS
  <2>2. Reading(b, h, got, n) /\ b.current = h.csid
    BY Zenon DEF EndsPacket
  <2> QED BY <2>1, <2>2, <1>2, <1>3, ConsumeReads
<1>5. /\ next \in ParserType /\ next.chunk_size = parser.chunk_size
      /\ \A d \in Csids \ {h.csid} : next.streams[d] = parser.streams[d]
      /\ LET s == next.streams[h.csid]
         IN /\ s.known /\ s.ts = h.ts /\ s.type = h.type
            /\ s.msid = h.msid /\ s.len = h.len /\ s.time_field = h.field
  BY Zenon, <1>4 DEF Reading
<1>6. /\ b.current = h.csid
      /\ LET s == b.streams[h.csid]
         IN /\ s.ts = h.ts /\ s.type = h.type /\ s.msid = h.msid
            /\ s.len = h.len /\ s.received = got
  BY ZenonT(30) DEF EndsPacket, Reading
<1>7. CompletesMessage(b, n)
  BY Zenon, <1>6 DEF CompletesMessage
<1>8. PICK size : size = packets[cursor.pkt].size
  BY Zenon
<1>9. h.type = SetChunkSizeType => ChunkSizeAccepted(size) /\ size \in Nat \ {0}
  <2>1. h.type = SetChunkSizeType => size \in ChunkSizes
    BY Zenon, <1>8, CursorFirst DEF EndsPacket, IndInv, PacketsOK
  <2>2. \A z \in ChunkSizes : z \in Nat /\ z # 0 /\ z <= MaximumChunkSize
    BY WireAssumption, ParserLimits
  <2> QED BY Zenon, <2>1, <2>2 DEF ChunkSizeAccepted
<1>10. /\ delivered' = Append(delivered, [pkt |-> cursor.pkt, type |-> h.type,
                                          msid |-> h.msid, ts |-> h.ts, len |-> h.len])
       /\ parser' = IF h.type = SetChunkSizeType THEN set_chunk_size(next, size) ELSE next
       /\ UNCHANGED broken
  <2>1. Fragment(b, n)
    BY Zenon DEF EndsPacket
  <2> QED BY Zenon, <2>1, <1>3, <1>6, <1>7, <1>8, <1>9 DEF Fragment
<1>11. /\ parser' \in ParserType
       /\ parser'.streams = next.streams
       /\ parser'.current = NoCsid
       /\ parser'.chunk_size = IF h.type = SetChunkSizeType THEN size ELSE parser.chunk_size
  <2>1. CASE h.type = SetChunkSizeType
    BY Zenon, <2>1, <1>4, <1>5, <1>9, <1>10 DEF set_chunk_size, ParserType
  <2>2. CASE h.type # SetChunkSizeType
    BY Zenon, <2>2, <1>4, <1>5, <1>10
  <2> QED BY Zenon, <2>1, <2>2
<1>12. LET s == parser'.streams[h.csid]
       IN /\ s.known /\ ~s.active /\ s.ts = h.ts /\ s.type = h.type
          /\ s.msid = h.msid /\ s.len = h.len /\ s.time_field = h.field
  BY Zenon, <1>4, <1>5, <1>11
<1>13. \A d \in Csids \ {h.csid} : /\ parser'.streams[d] = parser.streams[d]
                                   /\ ~parser.streams[d].active
  BY Zenon, <1>1, <1>5, <1>11
<1>14. /\ cursor.state # Idle /\ h = packets[cursor.pkt].header
       /\ cursor' = [pkt |-> cursor.pkt, state |-> Idle, sent |-> 0, body |-> 0]
       /\ UNCHANGED <<encoderVars, discarded, broken>>
  BY Zenon, <1>10 DEF EndsPacket
<1> QED BY ZenonT(30), <1>8, <1>10, <1>11, <1>12, <1>13, <1>14 DEF FinishesPacket

-----------------------------------------------------------------------------
(* What a step of the packet cursor must do to keep the invariant, inside  *)
(* a packet and at its end.                                                *)

\* Appending keeps the elements and adds one.
LEMMA AppendFacts ==
  ASSUME NEW S, NEW s \in Seq(S), NEW e \in S, NEW t, t = Append(s, e)
  PROVE  /\ t \in Seq(S) /\ Len(s) \in Nat
         /\ DOMAIN t = DOMAIN s \cup {Len(s) + 1}
         /\ t[Len(s) + 1] = e
         /\ \A k \in DOMAIN s : t[k] = s[k] /\ k \in Nat /\ k < Len(s) + 1
OBVIOUS

\* A step inside a packet: the parser's knowledge of the packet's own chunk
\* stream may change, the rest stays.
LEMMA UnfinishedIndInv ==
  ASSUME IndInv, cursor.state # Idle, ProgressOK', parser' \in ParserType,
         cursor' \in [pkt : {cursor.pkt}, state : {InHeader, InBody}, sent : Nat, body : Nat],
         cursor'.state = InHeader => cursor'.sent > 0,
         parser'.chunk_size = parser.chunk_size,
         \A d \in Csids \ {packets[cursor.pkt].header.csid} :
           parser'.streams[d] = parser.streams[d],
         UNCHANGED <<encoderVars, discarded, delivered, broken>>
  PROVE  IndInv'
<1>1. UNCHANGED <<previous_headers, max_chunk_size, packets, discarded, delivered, broken>>
  BY Zenon DEF encoderVars
<1>2. TypeOK /\ PacketsOK /\ ChainOK /\ SlotsOK /\ SizesOK
  BY Zenon DEF IndInv
<1>3. /\ cursor.pkt \in DOMAIN packets
      /\ \A j \in DOMAIN packets : Pending(j) => cursor.pkt <= j
      /\ \A j \in DOMAIN packets : j \in Nat
      /\ Pending(cursor.pkt)
  BY Zenon, CursorFirst
<1>4. /\ \A j \in DOMAIN packets : /\ Pending(j)' <=> Pending(j)
                                   /\ NotBegun(j)' => NotBegun(j) /\ j # cursor.pkt
                                   /\ NotBegun(j) => Pending(j)
                                   /\ Finished(j)' <=> Finished(j)
      /\ cursor'.pkt = cursor.pkt
  BY SMTT(30), <1>1, <1>2, <1>3 DEF Pending, NotBegun, Unsent, Finished, TypeOK, Idle, InHeader, InBody
<1>5. TypeOK'
  BY Zenon, <1>1, <1>2, <1>3 DEF TypeOK
<1>6. StaysAligned' /\ RoundTrip' /\ DeliveredOnceInOrder' /\ PacketsOK'
  <2>1. StaysAligned' /\ RoundTrip' /\ PacketsOK'
    BY SMTT(30), <1>1 DEF IndInv, StaysAligned, RoundTrip, PacketsOK
  <2>2. DeliveredOnceInOrder'
    BY Zenon, <1>1, <1>4 DEF IndInv, DeliveredOnceInOrder
  <2> QED BY Zenon, <2>1, <2>2
<1>7. ChainOK'
  <2>1. \A i \in DOMAIN packets : NotBegun(i)' /\ IsFirst(i)' =>
          packets[i].header.csid # packets[cursor.pkt].header.csid
    <3> SUFFICES ASSUME NEW i \in DOMAIN packets, NotBegun(i)', IsFirst(i)',
                        packets[i].header.csid = packets[cursor.pkt].header.csid
                 PROVE  FALSE
      BY Zenon
    <3>1. Pending(i) /\ i # cursor.pkt
      BY Zenon, <1>4
    <3>2. Pending(cursor.pkt)' /\ SameCsid(cursor.pkt, i)'
      BY Zenon, <1>1, <1>3, <1>4 DEF SameCsid
    <3>3. i <= cursor.pkt
      BY Zenon, <1>1, <1>3, <3>2 DEF IsFirst
    <3>4. cursor.pkt <= i /\ i \in Nat /\ cursor.pkt \in Nat
      BY Zenon, <1>3, <3>1
    <3> QED BY <3>1, <3>3, <3>4
  <2>2. \A i, j \in DOMAIN packets : /\ Precedes(j, i)' <=> Precedes(j, i)
                                     /\ IsFirst(i)' <=> IsFirst(i)
    BY Zenon, <1>1, <1>4 DEF Precedes, IsFirst, SameCsid
  <2>3. \A i \in DOMAIN packets : packets[i].header.csid \in Csids
    BY Zenon, <1>2, PacketTypes
  <2> QED BY Zenon, <2>1, <2>2, <2>3, <1>1, <1>2, <1>4 DEF ChainOK
<1>8. SlotsOK'
  <2>1. \A c \in Csids :
          (\A j \in DOMAIN packets : Pending(j) => packets[j].header.csid # c)
          => parser'.streams[c] = parser.streams[c]
    BY Zenon, <1>3
  <2> SUFFICES ASSUME NEW d \in Csids, previous_headers[d].known, ~previous_headers[d].droppable
               PROVE  LET h == previous_headers[d]
                          s == parser'.streams[d]
                      IN /\ \A j \in DOMAIN packets :
                              /\ Pending(j)' /\ packets[j].header.csid = d
                              /\ \A k \in DOMAIN packets :
                                   Pending(k)' /\ packets[k].header.csid = d => k <= j
                              => packets[j].header = h
                         /\ (\A j \in DOMAIN packets : Pending(j)' => packets[j].header.csid # d)
                            => /\ s.known
                               /\ s.ts = h.ts /\ s.type = h.type /\ s.msid = h.msid
                               /\ s.len = h.len /\ s.time_field = h.field
    BY Zenon, <1>1 DEF SlotsOK
  <2>2. ASSUME NEW j \in DOMAIN packets, Pending(j)', packets[j].header.csid = d,
               \A k \in DOMAIN packets : Pending(k)' /\ packets[k].header.csid = d => k <= j
        PROVE  packets[j].header = previous_headers[d]
    <3>1. Pending(j) /\ \A k \in DOMAIN packets : Pending(k) /\ packets[k].header.csid = d => k <= j
      BY Zenon, <1>4, <2>2
    <3> QED BY Zenon, <1>2, <2>2, <3>1 DEF SlotsOK
  <2>3. ASSUME \A j \in DOMAIN packets : Pending(j)' => packets[j].header.csid # d
        PROVE  LET h == previous_headers[d]
                   s == parser'.streams[d]
               IN /\ s.known
                  /\ s.ts = h.ts /\ s.type = h.type /\ s.msid = h.msid
                  /\ s.len = h.len /\ s.time_field = h.field
    <3>1. \A j \in DOMAIN packets : Pending(j) => packets[j].header.csid # d
      BY Zenon, <1>4, <2>3
    <3>2. parser'.streams[d] = parser.streams[d]
      BY Zenon, <2>1, <3>1
    <3> QED BY ZenonT(40), <1>2, <3>1, <3>2 DEF SlotsOK
  <2> QED BY Zenon, <2>2, <2>3
<1>9. SizesOK'
  BY SMTT(30), <1>1, <1>2, <1>4 DEF SizesOK, SizeBefore, IsResize
<1> QED BY Zenon, <1>5, <1>6, <1>7, <1>8, <1>9 DEF IndInv

\* The last step of a packet: it is no longer pending, and the next packet of
\* its chunk stream follows what the parser has seen.
LEMMA FinishedIndInv ==
  ASSUME IndInv, NEW h, FinishesPacket(h)
  PROVE  IndInv'
<1> PICK c : c = cursor.pkt
  BY Zenon
<1>a. /\ parser'.chunk_size = IF h.type = SetChunkSizeType THEN packets[c].size
                                                           ELSE parser.chunk_size
      /\ h = packets[c].header
      /\ cursor.state # Idle
      /\ parser' \in ParserType
      /\ parser'.current = NoCsid
      /\ \A d \in Csids \ {h.csid} : /\ parser'.streams[d] = parser.streams[d]
                                     /\ ~parser.streams[d].active
  BY Zenon DEF FinishesPacket
<1>b. LET s == parser'.streams[h.csid]
      IN /\ s.known /\ ~s.active /\ s.ts = h.ts /\ s.type = h.type
         /\ s.msid = h.msid /\ s.len = h.len /\ s.time_field = h.field
  BY Zenon DEF FinishesPacket
<1>1. UNCHANGED <<previous_headers, max_chunk_size, packets, discarded, broken>>
  BY Zenon DEF FinishesPacket, encoderVars
<1>2. TypeOK /\ PacketsOK /\ ChainOK /\ SlotsOK /\ SizesOK /\ ProgressOK
  BY Zenon DEF IndInv
<1>3. /\ c \in DOMAIN packets /\ c \in Nat
      /\ packets[c] \in PacketType
      /\ Pending(c)
      /\ \A j \in DOMAIN packets : /\ j \in Nat
                                   /\ Pending(j) => c <= j
                                   /\ Pending(j) /\ j # c => c < j
  BY Zenon, <1>a, CursorFirst
<1>4. /\ cursor'.pkt = c /\ cursor'.state = Idle /\ cursor'.sent = 0 /\ cursor'.body = 0
      /\ c \notin discarded
  BY Zenon, <1>2 DEF FinishesPacket, ProgressOK
<1>5. \A j \in DOMAIN packets : /\ Pending(j)' <=> Pending(j) /\ j # c
                                /\ NotBegun(j)' => NotBegun(j) /\ j # c /\ Pending(j)
                                /\ Finished(j)' <=> Finished(j) \/ j = c
                                /\ Finished(j) => j < c
  <2> TAKE j \in DOMAIN packets
  <2>1. j \in Nat /\ j <= Len(packets) /\ Len(packets) \in Nat /\ j >= 1
    BY <1>2, PacketTypes
  <2>2. Unsent(j) <=> c < j /\ j \notin discarded
    BY <2>1, <1>3 DEF Unsent
  <2>3. Unsent(j)' <=> c < j /\ j \notin discarded
    BY <2>1, <1>1, <1>3, <1>4 DEF Unsent
  <2>4. Pending(j)' <=> Pending(j) /\ j # c
    BY <2>1, <2>2, <2>3, <1>a, <1>3, <1>4 DEF Pending
  <2>5. NotBegun(j)' => NotBegun(j) /\ j # c /\ Pending(j)
    BY <2>1, <2>2, <2>3, <1>a, <1>3, <1>4 DEF NotBegun, Pending, Idle, InHeader
  <2>6. /\ Finished(j)' <=> Finished(j) \/ j = c
        /\ Finished(j) => j < c
    BY <2>1, <1>a, <1>1, <1>3, <1>4 DEF Finished
  <2> QED BY Zenon, <2>4, <2>5, <2>6
<1>6. h \in [known : {TRUE}, csid : Csids, ts : Times, field : Times,
             type : Nat, msid : Nat, len : Nat, droppable : BOOLEAN]
  BY Zenon, <1>a, <1>3 DEF PacketType
<1> DEFINE e == [pkt |-> c, type |-> h.type, msid |-> h.msid, ts |-> h.ts, len |-> h.len]
           D == [pkt : Nat, type : Nat, msid : Nat, ts : Times, len : Nat]
<1>7. e \in D /\ delivered \in Seq(D) /\ delivered' = Append(delivered, e)
  BY Zenon, <1>2, <1>3, <1>6 DEF TypeOK, FinishesPacket
<1>8. /\ e.pkt = c /\ e.type = h.type /\ e.msid = h.msid /\ e.ts = h.ts /\ e.len = h.len
  BY Zenon
<1> HIDE DEF e, D
<1>9. /\ delivered' \in Seq(D)
      /\ Len(delivered) \in Nat
      /\ DOMAIN delivered' = DOMAIN delivered \cup {Len(delivered) + 1}
      /\ delivered'[Len(delivered) + 1] = e
      /\ \A k \in DOMAIN delivered : /\ delivered'[k] = delivered[k]
                                     /\ k \in Nat /\ k < Len(delivered) + 1
  BY <1>7, AppendFacts
<1>10. TypeOK'
  BY Zenon, <1>a, <1>1, <1>2, <1>3, <1>4, <1>9 DEF TypeOK, D, FinishesPacket
<1>11. StaysAligned' /\ PacketsOK'
  BY Zenon, <1>1 DEF IndInv, StaysAligned, PacketsOK
<1>12. RoundTrip'
  <2>1. RoundTrip
    BY Zenon DEF IndInv
  <2> QED BY SMTT(20), <2>1, <1>a, <1>1, <1>3, <1>8, <1>9 DEF RoundTrip
<1>13. DeliveredOnceInOrder'
  <2>1. /\ {delivered[k].pkt : k \in DOMAIN delivered} = {i \in DOMAIN packets : Finished(i)}
        /\ \A k, l \in DOMAIN delivered : k < l => delivered[k].pkt < delivered[l].pkt
    BY Zenon DEF IndInv, DeliveredOnceInOrder
  <2>2. \A k \in DOMAIN delivered : delivered[k].pkt < c
    <3> TAKE k \in DOMAIN delivered
    <3>1. delivered[k].pkt \in {i \in DOMAIN packets : Finished(i)}
      BY Zenon, <2>1
    <3> QED BY Zenon, <3>1, <1>5
  <2>3. {delivered'[k].pkt : k \in DOMAIN delivered'}
          = {delivered[k].pkt : k \in DOMAIN delivered} \cup {c}
    BY <1>8, <1>9
  <2>4. {i \in DOMAIN packets : Finished(i)'} = {i \in DOMAIN packets : Finished(i)} \cup {c}
    BY Zenon, <1>3, <1>5
  <2>5. \A k, l \in DOMAIN delivered' : k < l => delivered'[k].pkt < delivered'[l].pkt
    BY <2>1, <2>2, <1>8, <1>9
  <2> QED BY Zenon, <2>1, <2>3, <2>4, <2>5, <1>1 DEF DeliveredOnceInOrder
<1>14. ProgressOK'
  <2>1. \A d \in Csids : ~parser'.streams[d].active
    BY Zenon, <1>a, <1>b
  <2> QED BY Zenon, <2>1, <1>a, <1>4 DEF ProgressOK, Idle, InHeader, InBody
<1>15. ChainOK'
  <2> SUFFICES ASSUME NEW i \in DOMAIN packets, NotBegun(i), i # c, Pending(i),
                      packets[i].first # Full
               PROVE  /\ \A j \in DOMAIN packets :
                           Precedes(j, i)' =>
                             /\ ~packets[j].header.droppable
                             /\ Follows(packets[i], packets[j].header)
                      /\ IsFirst(i)' =>
                           LET s == parser'.streams[packets[i].header.csid] IN
                           s.known /\ Follows(packets[i], HeaderOf(s))
    BY Zenon, <1>1, <1>5 DEF ChainOK, NotBegun, Pending, Unsent, InHeader, Idle
  <2>1. \A j \in DOMAIN packets : Precedes(j, i)' => Precedes(j, i)
    BY Zenon, <1>1, <1>3, <1>5 DEF Precedes, SameCsid
  <2>2. CASE packets[i].header.csid = h.csid
    <3>1. ASSUME IsFirst(i)' PROVE Precedes(c, i)
      <4>1. c < i /\ SameCsid(c, i) /\ i \in Nat
        BY Zenon, <2>2, <1>a, <1>3 DEF SameCsid
      <4>2. \A k \in DOMAIN packets : Pending(k) /\ k # c /\ SameCsid(k, i) => i <= k
        BY Zenon, <3>1, <1>1, <1>5 DEF IsFirst, SameCsid
      <4> QED BY <4>1, <4>2, <1>3 DEF Precedes
    <3>2. IsFirst(i)' => Follows(packets[i], h)
      BY Zenon, <3>1, <1>a, <1>2, <1>3 DEF ChainOK
    <3>3. LET s == parser'.streams[h.csid] IN
          s.known /\ (Follows(packets[i], h) => Follows(packets[i], HeaderOf(s)))
      <4>1. PICK s, g : s = parser'.streams[h.csid] /\ g = HeaderOf(s)
        BY Zenon
      <4>2. /\ g.ts = s.ts /\ g.type = s.type /\ g.msid = s.msid /\ g.len = s.len
            /\ g.field = s.time_field
        BY Zenon, <4>1 DEF HeaderOf
      <4>3. /\ s.known /\ g.ts = h.ts /\ g.type = h.type /\ g.msid = h.msid
            /\ g.len = h.len /\ g.field = h.field
        BY Zenon, <1>b, <4>1, <4>2
      <4>4. Follows(packets[i], h) => Follows(packets[i], g)
        BY Zenon, <4>3 DEF Follows
      <4> QED BY Zenon, <4>1, <4>3, <4>4
    <3> QED BY Zenon, <2>1, <2>2, <3>2, <3>3, <1>2 DEF ChainOK
  <2>3. CASE packets[i].header.csid # h.csid
    <3>1. IsFirst(i)' => IsFirst(i)
      BY Zenon, <2>3, <1>a, <1>1, <1>3, <1>5 DEF IsFirst, SameCsid
    <3>2. parser'.streams[packets[i].header.csid] = parser.streams[packets[i].header.csid]
      <4>1. packets[i].header.csid \in Csids
        BY Zenon, <1>2, PacketTypes
      <4> QED BY Zenon, <2>3, <4>1, <1>a
    <3> QED BY Zenon, <2>1, <3>1, <3>2, <1>2 DEF ChainOK
  <2> QED BY Zenon, <2>2, <2>3
<1>16. SlotsOK'
  <2> SUFFICES ASSUME NEW d \in Csids, previous_headers[d].known,
                      ~previous_headers[d].droppable
               PROVE  LET g == previous_headers[d]
                          s == parser'.streams[d]
                      IN /\ \A j \in DOMAIN packets :
                              /\ Pending(j)' /\ packets[j].header.csid = d
                              /\ \A k \in DOMAIN packets :
                                   Pending(k)' /\ packets[k].header.csid = d => k <= j
                              => packets[j].header = g
                         /\ (\A j \in DOMAIN packets :
                               Pending(j)' => packets[j].header.csid # d)
                            => /\ s.known
                               /\ s.ts = g.ts /\ s.type = g.type /\ s.msid = g.msid
                               /\ s.len = g.len /\ s.time_field = g.field
    BY Zenon, <1>1 DEF SlotsOK
  <2>1. \A j \in DOMAIN packets :
          /\ Pending(j)' /\ packets[j].header.csid = d
          /\ \A k \in DOMAIN packets :
               Pending(k)' /\ packets[k].header.csid = d => k <= j
          => packets[j].header = previous_headers[d]
    BY SMTT(30), <1>2, <1>3, <1>5 DEF SlotsOK
  <2>2. ASSUME \A j \in DOMAIN packets : Pending(j)' => packets[j].header.csid # d
        PROVE  LET g == previous_headers[d]
                   s == parser'.streams[d]
               IN  /\ s.known
                   /\ s.ts = g.ts /\ s.type = g.type /\ s.msid = g.msid
                   /\ s.len = g.len /\ s.time_field = g.field
    <3>1. CASE h.csid = d
      <4>1. \A k \in DOMAIN packets :
              Pending(k) /\ packets[k].header.csid = d => k <= c
        BY Zenon, <2>2, <1>3, <1>5
      <4>2. h = previous_headers[d]
        BY <3>1, <4>1, <1>a, <1>2, <1>3 DEF SlotsOK
      <4> QED BY Zenon, <3>1, <4>2, <1>b
    <3>2. CASE h.csid # d
      <4>1. \A j \in DOMAIN packets : Pending(j) => packets[j].header.csid # d
        BY Zenon, <2>2, <3>2, <1>a, <1>5
      <4>2. parser'.streams[d] = parser.streams[d]
        BY Zenon, <3>2, <1>a
      <4>3. LET g == previous_headers[d]
                s == parser.streams[d]
            IN  /\ s.known
                /\ s.ts = g.ts /\ s.type = g.type /\ s.msid = g.msid
                /\ s.len = g.len /\ s.time_field = g.field
        BY Zenon, <4>1, <1>2 DEF SlotsOK
      <4> QED BY Zenon, <4>2, <4>3
    <3> QED BY Zenon, <3>1, <3>2
  <2> QED BY Zenon, <2>1, <2>2
<1>17. SizesOK'
  <2> DEFINE After(i, size) ==
        /\ \A j \in DOMAIN packets :
             /\ Pending(j)' /\ IsResize(j) /\ j < i
             /\ \A k \in DOMAIN packets : Pending(k)' /\ IsResize(k) /\ k < i => k <= j
             => size = packets[j].size
        /\ (\A j \in DOMAIN packets : Pending(j)' /\ IsResize(j) => i <= j)
           => size = parser'.chunk_size
  <2>1. ASSUME NEW i \in Nat, NEW size, SizeBefore(i, size), c < i
        PROVE  After(i, size)
    <3>1. \A j \in DOMAIN packets :
            /\ Pending(j)' /\ IsResize(j) /\ j < i
            /\ \A k \in DOMAIN packets : Pending(k)' /\ IsResize(k) /\ k < i => k <= j
            => size = packets[j].size
      BY Zenon, <2>1, <1>3, <1>5 DEF SizeBefore
    <3>2. ASSUME \A j \in DOMAIN packets : Pending(j)' /\ IsResize(j) => i <= j
          PROVE  size = parser'.chunk_size
      <4>1. \A j \in DOMAIN packets : Pending(j) /\ IsResize(j) /\ j # c => i <= j
        BY Zenon, <3>2, <1>5
      <4>2. CASE IsResize(c)
        <5>1. \A k \in DOMAIN packets : Pending(k) /\ IsResize(k) /\ k < i => k <= c
          BY <4>1, <1>3
        <5>2. size = packets[c].size
          BY Zenon, <5>1, <4>2, <2>1, <1>3 DEF SizeBefore
        <5>3. h.type = SetChunkSizeType
          BY Zenon, <4>2, <1>a DEF IsResize
        <5> QED BY Zenon, <5>2, <5>3, <1>a
      <4>3. CASE ~IsResize(c)
        <5>1. size = parser.chunk_size
          BY Zenon, <4>1, <4>3, <2>1 DEF SizeBefore
        <5>2. h.type # SetChunkSizeType
          BY Zenon, <4>3, <1>a DEF IsResize
        <5> QED BY Zenon, <5>1, <5>2, <1>a
      <4> QED BY Zenon, <4>2, <4>3
    <3> QED BY Zenon, <3>1, <3>2
  <2>2. \A i \in DOMAIN packets : Pending(i)' => After(i, packets[i].chunk_size)
    <3> SUFFICES ASSUME NEW i \in DOMAIN packets, Pending(i)'
                 PROVE  After(i, packets[i].chunk_size)
      BY Zenon
    <3>1. i \in Nat /\ Pending(i) /\ c < i
      BY Zenon, <1>3, <1>5
    <3>2. SizeBefore(i, packets[i].chunk_size)
      BY Zenon, <3>1, <1>2 DEF SizesOK
    <3> HIDE DEF After
    <3> QED BY Zenon, <2>1, <3>1, <3>2
  <2>3. After(Len(packets) + 1, max_chunk_size)
    <3>1. Len(packets) + 1 \in Nat /\ c < Len(packets) + 1
      BY <1>2, <1>3, PacketTypes
    <3>2. SizeBefore(Len(packets) + 1, max_chunk_size)
      BY Zenon, <1>2 DEF SizesOK
    <3> HIDE DEF After
    <3> QED BY Zenon, <2>1, <3>1, <3>2
  <2> QED BY <2>2, <2>3, <1>1 DEF SizesOK, SizeBefore, IsResize
<1> QED BY Zenon, <1>10, <1>11, <1>12, <1>13, <1>14, <1>15, <1>16, <1>17 DEF IndInv

-----------------------------------------------------------------------------
(* The steps of the transport.                                             *)


\* The header of a chunk arrives, and is read against the last one on its chunk stream.
LEMMA HeaderArrivesIndInv ==
  ASSUME IndInv, HeaderArrives
  PROVE  IndInv'
<1>1. PICK p : p = packets[cursor.pkt]
  BY Zenon
<1>2. PICK h : h = p.header
  BY Zenon
<1>3. PICK s : s = parser.streams[h.csid]
  BY Zenon
<1>4. PICK f : f = IF cursor.sent = 0 THEN p.first ELSE p.continuation
  BY Zenon
<1>5. PICK b : b = begin_chunk(parser, CurrentHeader)
  BY Zenon
<1>6. Arriving(p, h, s, f)
  BY Zenon, <1>1, <1>2, <1>3, <1>4 DEF Arriving, HeaderArrives
<1>7. /\ Reading(b, h, cursor.sent, MinOf(h.len - cursor.sent, p.chunk_size))
      /\ b.current = h.csid /\ b.streams[h.csid].active
  BY Zenon, <1>5, <1>6, BeginReads
<1>8. /\ ~NoPreviousChunkOnStream(parser, CurrentHeader)
      /\ Extended(parser, CurrentHeader) <=> CurrentHeader.ext # NoExt
      /\ ~BeginChunkFails(parser, CurrentHeader)
  BY Zenon, <1>6, HeaderRead
<1>9. /\ cursor.state # Idle /\ cursor.state = InHeader
      /\ cursor \in [pkt : Nat, state : {Idle, InHeader, InBody}, sent : Nat, body : Nat]
  BY Zenon DEF IndInv, TypeOK, HeaderArrives, Idle, InHeader
<1>10. /\ parser.current = NoCsid /\ cursor.body = 0 /\ cursor.sent \in Nat
       /\ h \in [known : {TRUE}, csid : Csids, ts : Times, field : Times,
                 type : Nat, msid : Nat, len : Nat, droppable : BOOLEAN]
       /\ \A d \in Csids \ {h.csid} : ~parser.streams[d].active
       /\ cursor.sent # 0 => cursor.sent < h.len
  BY Zenon, <1>1, <1>2, <1>9, OnTheWire
<1>11. /\ h.len \in Nat /\ h.csid \in Csids
       /\ p.chunk_size \in Nat \ {0} /\ cursor.pkt \in Nat /\ cursor.pkt \notin discarded
  <2>1. p \in PacketType /\ cursor.pkt \in Nat
    BY Zenon, <1>1, <1>9, CursorFirst
  <2>2. cursor.pkt \notin discarded
    BY Zenon, <1>9 DEF IndInv, ProgressOK
  <2> QED BY Zenon, <2>1, <2>2, <1>10 DEF PacketType
<1>12. /\ IF b.chunk_left = 0 THEN Fragment(b, 0)
                              ELSE parser' = b /\ UNCHANGED <<delivered, broken>>
       /\ cursor' = IF h.len = 0 THEN AfterBody(0) ELSE [cursor EXCEPT !.state = InBody]
       /\ UNCHANGED <<encoderVars, discarded>>
  <2>1. BeginsChunk(CurrentHeader, b) /\ UNCHANGED <<encoderVars, discarded>>
    BY Zenon, <1>5 DEF HeaderArrives
  <2> QED BY Zenon, <2>1, <1>1, <1>2, <1>8, <1>10 DEF BeginsChunk
<1>13. CASE h.len = 0
  <2>1. cursor.sent = 0 /\ MinOf(h.len - cursor.sent, p.chunk_size) = 0
    BY <1>10, <1>11, <1>13 DEF MinOf
  <2>2. Reading(b, h, 0, 0) /\ b.chunk_left = 0
    BY Zenon, <2>1, <1>7 DEF Reading
  <2>3. cursor' = [pkt |-> cursor.pkt, state |-> Idle, sent |-> 0, body |-> 0]
    BY <2>1, <1>1, <1>2, <1>12, <1>13 DEF AfterBody
  <2>4. EndsPacket(b, h, 0, 0)
    BY Zenon, <2>2, <2>3, <1>1, <1>2, <1>7, <1>9, <1>12 DEF EndsPacket
  <2>5. 0 + 0 = h.len /\ 0 \in Nat
    BY <1>13
  <2> QED BY Zenon, <2>4, <2>5, LastFragment, FinishedIndInv
<1>14. CASE h.len # 0
  <2>1. PICK left : left = MinOf(h.len - cursor.sent, p.chunk_size)
    BY Zenon
  <2>2. left # 0
    BY <2>1, <1>10, <1>11, <1>14 DEF MinOf
  <2>3. /\ b.chunk_left = left /\ b \in ParserType /\ b.chunk_size = parser.chunk_size
        /\ \A d \in Csids \ {h.csid} : b.streams[d] = parser.streams[d]
    BY Zenon, <2>1, <1>7 DEF Reading
  <2>4. LET r == b.streams[h.csid]
        IN /\ r.known /\ r.ts = h.ts /\ r.type = h.type
           /\ r.msid = h.msid /\ r.len = h.len /\ r.time_field = h.field
           /\ r.received = cursor.sent
    BY Zenon, <1>7 DEF Reading
  <2>5. /\ parser' = b
        /\ UNCHANGED <<encoderVars, discarded, delivered, broken>>
        /\ cursor' = [cursor EXCEPT !.state = InBody]
    BY Zenon, <2>2, <2>3, <1>12, <1>14
  <2>6. /\ cursor'.pkt = cursor.pkt /\ cursor'.state = InBody
        /\ cursor'.sent = cursor.sent /\ cursor'.body = 0
    BY Zenon, <2>5, <1>9, <1>10
  <2>a. cursor' \in [pkt : {cursor.pkt}, state : {InHeader, InBody}, sent : Nat, body : Nat]
    BY Zenon, <2>5, <1>9, <1>10
  <2>7. /\ packets' = packets /\ discarded' = discarded
    BY Zenon, <2>5 DEF encoderVars
  <2>8. /\ 0 <= cursor.sent /\ 0 < p.chunk_size /\ cursor.sent < h.len
        /\ left = MinOf(h.len - (cursor.sent - 0), p.chunk_size) - 0
    BY <2>1, <1>10, <1>11, <1>14 DEF MinOf
  <2>b. packets'[cursor'.pkt] = p /\ parser' = b
    BY Zenon, <2>5, <2>6, <2>7, <1>1
  <2>c. \A d \in Csids \ {h.csid} : ~b.streams[d].active
    BY Zenon, <2>3, <1>10
  <2>9. ProgressOK'
    BY ZenonT(60), <2>b, <2>c, <2>3, <2>4, <2>6, <2>7, <2>8, <1>2, <1>7, <1>11
    DEF ProgressOK, Idle, InHeader, InBody
  <2>10. cursor'.state # InHeader
    BY Zenon, <2>6 DEF InHeader, InBody
  <2> QED BY Zenon, <2>a, <2>3, <2>5, <2>6, <2>9, <2>10, <1>1, <1>2, <1>9, UnfinishedIndInv
<1> QED BY Zenon, <1>13, <1>14

\* A part of the body of a chunk arrives.
LEMMA BodyArrivesIndInv ==
  ASSUME IndInv, BodyArrives
  PROVE  IndInv'
<1>1. PICK p : p = packets[cursor.pkt]
  BY Zenon
<1>2. PICK h : h = p.header
  BY Zenon
<1>3. PICK n \in 1 .. MinOf(p.chunk_size - cursor.body, h.len - cursor.sent) :
        /\ IF parser.current = NoCsid \/ n > parser.chunk_left
           THEN LosesPlace("misaligned")
           ELSE Fragment(parser, n)
        /\ cursor' = AfterBody(n)
  BY Zenon, <1>1, <1>2 DEF BodyArrives
<1>4. /\ cursor.state # Idle /\ cursor.state = InBody
      /\ UNCHANGED <<encoderVars, discarded>>
  BY Zenon DEF BodyArrives, Idle, InBody
<1>5. PICK sent, body : sent = cursor.sent /\ body = cursor.body
  BY Zenon
<1>a. h \in [known : {TRUE}, csid : Csids, ts : Times, field : Times,
             type : Nat, msid : Nat, len : Nat, droppable : BOOLEAN]
  BY Zenon, <1>1, <1>2, <1>4, <1>5, OnTheWire
<1>6. /\ sent \in Nat /\ body \in Nat
      /\ \A d \in Csids \ {h.csid} : ~parser.streams[d].active
      /\ sent < h.len
      /\ LET s == parser.streams[h.csid]
         IN /\ s.known /\ s.active /\ s.ts = h.ts /\ s.type = h.type
            /\ s.msid = h.msid /\ s.len = h.len /\ s.time_field = h.field
            /\ s.received = sent
  BY Zenon, <1>1, <1>2, <1>4, <1>5, OnTheWire
<1>7. /\ h.len \in Nat /\ h.csid \in Csids /\ h.csid # NoCsid
      /\ p.chunk_size \in Nat \ {0} /\ cursor.pkt \in Nat /\ cursor.pkt \notin discarded
  <2>1. p \in PacketType /\ cursor.pkt \in Nat
    BY Zenon, <1>1, <1>4, CursorFirst
  <2>2. cursor.pkt \notin discarded
    BY Zenon, <1>4 DEF IndInv, ProgressOK
  <2> QED BY <2>1, <2>2, <1>a DEF PacketType, Csids, NoCsid
<1>8. PICK left : left = MinOf(h.len - (sent - body), p.chunk_size) - body
  BY Zenon
<1>9. /\ parser.current = h.csid /\ parser.chunk_left = left
      /\ body <= sent /\ body < p.chunk_size
  BY Zenon, <1>1, <1>2, <1>4, <1>5, <1>8 DEF IndInv, ProgressOK
<1>10. parser \in ParserType
  BY Zenon DEF IndInv, TypeOK
<1>11. Reading(parser, h, sent, left)
  BY Zenon, <1>6, <1>9, <1>10 DEF Reading
<1>12. n \in Nat /\ n > 0 /\ n <= p.chunk_size - body /\ n <= h.len - sent
  BY <1>3, <1>5, <1>6, <1>7 DEF MinOf
<1>13. /\ left \in Nat /\ n <= left
       /\ left = n <=> (n = p.chunk_size - body \/ n = h.len - sent)
  BY <1>6, <1>7, <1>8, <1>9, <1>12 DEF MinOf
<1>14. Fragment(parser, n) /\ cursor' = AfterBody(n)
  BY <1>3, <1>7, <1>9, <1>13
<1>15. CASE sent + n = h.len
  <2>1. cursor' = [pkt |-> cursor.pkt, state |-> Idle, sent |-> 0, body |-> 0]
    BY Zenon, <1>1, <1>2, <1>5, <1>14, <1>15 DEF AfterBody
  <2>2. left = n
    BY SMTT(60), <1>6, <1>7, <1>12, <1>13, <1>15
  <2>3. EndsPacket(parser, h, sent, n)
    BY Zenon, <2>1, <2>2, <1>1, <1>2, <1>4, <1>9, <1>11, <1>14 DEF EndsPacket
  <2> QED BY Zenon, <2>3, <1>6, <1>12, <1>15, LastFragment, FinishedIndInv
<1>16. CASE sent + n # h.len
  <2>1. PICK next : next = consume(parser, n)
    BY Zenon
  <2>2. /\ Reading(next, h, sent + n, left - n)
        /\ next.current = IF left = n THEN NoCsid ELSE h.csid
        /\ next.streams[h.csid].active
    <3>1. n \in 0 .. left
      BY <1>12, <1>13
    <3>2. sent \in Nat /\ left \in Nat /\ h.csid \in Csids /\ parser.current = h.csid
      BY SMTT(20), <1>6, <1>7, <1>9, <1>13
    <3>3. PICK b : b = parser
      BY Zenon
    <3>4. next = consume(b, n) /\ Reading(b, h, sent, left) /\ b.current = h.csid
      BY Zenon, <2>1, <3>2, <3>3, <1>11
    <3>5. /\ Reading(next, h, sent + n, left - n)
          /\ next.current = IF left = n THEN NoCsid ELSE h.csid
          /\ next.streams[h.csid].active <=> sent + n # h.len
      BY ZenonT(60), <3>1, <3>2, <3>4, ConsumeReads
    <3> QED BY Zenon, <3>5, <1>16
  <2>3. ~CompletesMessage(parser, n)
    BY Zenon, <1>6, <1>9, <1>16 DEF CompletesMessage
  <2>4. /\ parser' = next
        /\ UNCHANGED <<encoderVars, discarded, delivered, broken>>
    BY Zenon, <2>1, <2>3, <1>4, <1>14 DEF Fragment
  <2>5. /\ next \in ParserType /\ next.chunk_left = left - n
        /\ next.chunk_size = parser.chunk_size
        /\ \A d \in Csids \ {h.csid} : next.streams[d] = parser.streams[d]
    BY Zenon, <2>2 DEF Reading
  <2>6. LET s == next.streams[h.csid]
        IN /\ s.known /\ s.ts = h.ts /\ s.type = h.type
           /\ s.msid = h.msid /\ s.len = h.len /\ s.time_field = h.field
           /\ s.received = sent + n
    BY Zenon, <2>2 DEF Reading
  <2>7. /\ packets' = packets /\ discarded' = discarded
    BY Zenon, <2>4 DEF encoderVars
  <2>8. sent + n \in Nat /\ body + n \in Nat /\ sent + n > 0 /\ sent + n < h.len
    BY <1>6, <1>7, <1>12, <1>16
  <2>9. CASE body + n = p.chunk_size
    <3>1. cursor' = [pkt |-> cursor.pkt, state |-> InHeader, sent |-> sent + n, body |-> 0]
      BY SMTT(20), <2>9, <1>1, <1>2, <1>5, <1>14, <1>16 DEF AfterBody
    <3>2. /\ cursor'.pkt = cursor.pkt /\ cursor'.state = InHeader
          /\ cursor'.sent = sent + n /\ cursor'.body = 0
      BY Zenon, <3>1
    <3>a. cursor' \in [pkt : {cursor.pkt}, state : {InHeader, InBody}, sent : Nat, body : Nat]
      BY Zenon, <2>8, <3>1
    <3>b. packets'[cursor'.pkt] = p /\ parser' = next
      BY Zenon, <2>4, <2>7, <3>2, <1>1
    <3>c. \A d \in Csids \ {h.csid} : ~next.streams[d].active
      BY Zenon, <2>5, <1>6
    <3>3. left = n
      BY <2>9, <1>6, <1>7, <1>12, <1>13
    <3>4. ProgressOK'
      BY ZenonT(60), <2>2, <2>5, <2>6, <2>7, <2>8, <3>b, <3>c, <3>2, <3>3, <1>2, <1>7
      DEF ProgressOK, Idle, InHeader, InBody
    <3> QED BY Zenon, <2>4, <2>5, <2>8, <3>a, <3>2, <3>4, <1>1, <1>2, <1>4, UnfinishedIndInv
  <2>10. CASE body + n # p.chunk_size
    <3>1. cursor' = [pkt |-> cursor.pkt, state |-> InBody, sent |-> sent + n, body |-> body + n]
      BY Zenon, <2>10, <1>1, <1>2, <1>5, <1>14, <1>16 DEF AfterBody
    <3>2. /\ cursor'.pkt = cursor.pkt /\ cursor'.state = InBody
          /\ cursor'.sent = sent + n /\ cursor'.body = body + n
      BY Zenon, <3>1
    <3>a. cursor' \in [pkt : {cursor.pkt}, state : {InHeader, InBody}, sent : Nat, body : Nat]
      BY Zenon, <2>8, <3>1
    <3>b. packets'[cursor'.pkt] = p /\ parser' = next
      BY Zenon, <2>4, <2>7, <3>2, <1>1
    <3>c. \A d \in Csids \ {h.csid} : ~next.streams[d].active
      BY Zenon, <2>5, <1>6
    <3>3. left # n
      BY <2>10, <1>6, <1>7, <1>9, <1>12, <1>13, <1>16
    <3>4. /\ body + n <= sent + n /\ body + n < p.chunk_size
          /\ left - n = MinOf(h.len - ((sent + n) - (body + n)), p.chunk_size) - (body + n)
      <4>1. (sent + n) - (body + n) = sent - body
        BY <1>6, <1>12
      <4>2. \A x \in Int : x - (body + n) = (x - body) - n
        BY <1>6, <1>12
      <4>3. MinOf(h.len - (sent - body), p.chunk_size) \in Int
        BY <1>6, <1>7 DEF MinOf
      <4>4. body + n <= sent + n /\ body + n < p.chunk_size
        BY <2>10, <1>6, <1>7, <1>9, <1>12
      <4> QED BY Zenon, <4>1, <4>2, <4>3, <4>4, <1>8
    <3>5. ProgressOK'
      BY ZenonT(60), <2>2, <2>5, <2>6, <2>7, <2>8, <3>b, <3>c, <3>2, <3>3, <3>4, <1>2, <1>7
      DEF ProgressOK, Idle, InHeader, InBody
    <3>6. cursor'.state # InHeader
      BY Zenon, <3>2 DEF InHeader, InBody
    <3> QED BY Zenon, <2>4, <2>5, <3>a, <3>2, <3>5, <3>6, <1>1, <1>2, <1>4, UnfinishedIndInv
  <2> QED BY Zenon, <2>9, <2>10
<1> QED BY Zenon, <1>15, <1>16

-----------------------------------------------------------------------------
(* The theorems.                                                           *)

\* A step that changes nothing keeps the invariant.
LEMMA StutterIndInv ==
  ASSUME IndInv, UNCHANGED vars
  PROVE  IndInv'
<1>1. UNCHANGED <<previous_headers, max_chunk_size, packets, discarded, cursor, parser,
                  delivered, broken>>
  BY Zenon DEF vars
<1>2. TypeOK' /\ StaysAligned' /\ RoundTrip' /\ PacketsOK'
  BY SMTT(20), <1>1 DEF IndInv, TypeOK, StaysAligned, RoundTrip, PacketsOK
<1>3. DeliveredOnceInOrder'
  BY Zenon, <1>1 DEF IndInv, DeliveredOnceInOrder, Finished
<1>4. ASSUME NEW i
      PROVE  /\ Pending(i)' <=> Pending(i)
             /\ NotBegun(i)' <=> NotBegun(i)
             /\ IsResize(i)' <=> IsResize(i)
  BY Zenon, <1>1 DEF Pending, NotBegun, Unsent, IsResize
<1>5. ASSUME NEW i, NEW j
      PROVE  SameCsid(i, j)' <=> SameCsid(i, j)
  BY Zenon, <1>1 DEF SameCsid
<1>6. ASSUME NEW i, NEW j
      PROVE  /\ Precedes(j, i)' <=> Precedes(j, i)
             /\ IsFirst(i)' <=> IsFirst(i)
  BY Zenon, <1>1, <1>4, <1>5 DEF Precedes, IsFirst
<1>7. ASSUME NEW i, NEW size
      PROVE  SizeBefore(i, size)' <=> SizeBefore(i, size)
  <2>1. SizeBefore(i, size)' => SizeBefore(i, size)
    BY Zenon, <1>1, <1>4 DEF SizeBefore
  <2>2. SizeBefore(i, size) => SizeBefore(i, size)'
    BY Zenon, <1>1, <1>4 DEF SizeBefore
  <2> QED BY Zenon, <2>1, <2>2
<1>8. ChainOK'
  BY Zenon, <1>1, <1>4, <1>6 DEF IndInv, ChainOK
<1>9. SlotsOK'
  BY Zenon, <1>1, <1>4 DEF IndInv, SlotsOK
<1>10. SizesOK'
  BY Zenon, <1>1, <1>4, <1>7 DEF IndInv, SizesOK
<1>11. ProgressOK'
  <2>1. ProgressOK
    BY Zenon DEF IndInv
  <2> QED BY Zenon, <2>1, <1>1 DEF ProgressOK
<1> QED BY Zenon, <1>2, <1>3, <1>8, <1>9, <1>10, <1>11 DEF IndInv

\* Header compression is sound: whatever is encoded, resized, dropped, sent and
\* read in whatever pieces, encoder and parser stay in the relation IndInv.
THEOREM Invariance == Spec => []IndInv
<1>1. IndInv /\ [Next]_vars => IndInv'
  BY Zenon, EncodersIndInv, DiscardIndInv, StartPacketIndInv, HeaderArrivesIndInv,
     BodyArrivesIndInv, StutterIndInv
  DEF Next
<1> QED BY <1>1, InitIndInv, PTL DEF Spec

\* The state of encoder, queue, transport and parser is well formed.
THEOREM TypeCorrect == Spec => []TypeOK
<1>1. IndInv => TypeOK
  BY Zenon DEF IndInv
<1> QED BY <1>1, Invariance, PTL

\* The parser of a peer never refuses what the encoder wrote and never loses
\* its place in the byte stream.
THEOREM Alignment == Spec => []StaysAligned
<1>1. IndInv => StaysAligned
  BY Zenon DEF IndInv
<1> QED BY <1>1, Invariance, PTL

\* Every delivered message has the type, message stream, absolute timestamp
\* and length that were encoded.
THEOREM Fidelity == Spec => []RoundTrip
<1>1. IndInv => RoundTrip
  BY Zenon DEF IndInv
<1> QED BY <1>1, Invariance, PTL

\* Packets that are sent are delivered exactly once and in order.
THEOREM ExactlyOnce == Spec => []DeliveredOnceInOrder
<1>1. IndInv => DeliveredOnceInOrder
  BY Zenon DEF IndInv
<1> QED BY <1>1, Invariance, PTL

-----------------------------------------------------------------------------
(* Encoder, queue, transport and parser implement the message channel.     *)

\* Mapping a sequence that has grown appends the image of the new element.
LEMMA MapAppend ==
  ASSUME NEW S, NEW s \in Seq(S), NEW e \in S, NEW t, t = Append(s, e),
         NEW T, NEW f \in [DOMAIN s -> T], NEW g \in [DOMAIN t -> T],
         \A i \in DOMAIN s : g[i] = f[i]
  PROVE  g = Append(f, g[Len(s) + 1]) /\ Len(f) = Len(s) /\ DOMAIN f = DOMAIN s
<1>1. DOMAIN s = 1 .. Len(s) /\ Len(s) \in Nat
  OBVIOUS
<1>2. DOMAIN t = 1 .. Len(s) + 1
  BY <1>1
<1>3. f \in Seq(T) /\ Len(f) = Len(s)
  BY <1>1
<1>4. g \in Seq(T) /\ Len(g) = Len(s) + 1
  BY <1>1, <1>2
<1>5. g[Len(s) + 1] \in T
  BY <1>1, <1>2
<1> QED BY <1>1, <1>2, <1>3, <1>4, <1>5

\* A packet that is made is an entry sent.
LEMMA EncodeSends ==
  ASSUME TypeOK, TypeOK', NEW q, packets' = Append(packets, q),
         NEW m, m \in [type : Nat, msid : Nat, ts : Times, len : Nat],
         q.header.type = m.type, q.header.msid = m.msid, q.header.ts = m.ts,
         q.header.len = m.len,
         [msg |-> m, droppable |-> q.header.droppable] \in ChannelEntries,
         UNCHANGED <<discarded, delivered>>
  PROVE  Channel!Send
<1>1. packets \in Seq(PacketType) /\ packets' \in Seq(PacketType)
  BY Zenon DEF TypeOK
<1>2. q \in PacketType
  <2>1. Len(packets') = Len(packets) + 1 /\ packets'[Len(packets) + 1] = q /\ Len(packets) \in Nat
    BY <1>1
  <2> QED BY <1>1, <2>1
<1>3. Message(q.header) = m
  BY Zenon DEF Message
<1>4. /\ \A i \in DOMAIN packets : packets'[i] = packets[i]
      /\ packets'[Len(packets) + 1] = q
      /\ DOMAIN packets' = DOMAIN packets \cup {Len(packets) + 1}
  BY <1>1, <1>2, AppendFacts
<1>5. /\ \A i \in DOMAIN packets : SentEntries'[i] = SentEntries[i]
      /\ SentEntries'[Len(packets) + 1] = [msg |-> m, droppable |-> q.header.droppable]
  BY Zenon, <1>3, <1>4 DEF SentEntries
<1> DEFINE T == [msg : [type : Nat, msid : Nat, ts : Times, len : Nat], droppable : BOOLEAN]
<1>6. ASSUME NEW p \in PacketType
      PROVE  [msg |-> Message(p.header), droppable |-> p.header.droppable] \in T
  BY SMTT(20) DEF PacketType, Message
<1> HIDE DEF T
<1>7. SentEntries \in [DOMAIN packets -> T] /\ SentEntries' \in [DOMAIN packets' -> T]
  BY SMTT(20), <1>1, <1>6 DEF SentEntries
<1>8. SentEntries' = Append(SentEntries, [msg |-> m, droppable |-> q.header.droppable])
  BY SMTT(20), <1>1, <1>2, <1>5, <1>7, MapAppend
<1>9. UNCHANGED <<LastDelivered, DeliveredMessages>>
  BY Zenon DEF LastDelivered, DeliveredMessages
<1> QED BY Zenon, <1>8, <1>9 DEF Channel!Send

\* What DeliveredOnceInOrder says of the last packet delivered: it is not after
\* the cursor's, and whatever lies between the two was dropped.
LEMMA LastIsBehind ==
  ASSUME IndInv
  PROVE  /\ LastDelivered \in 0 .. cursor.pkt /\ cursor.pkt \in 0 .. Len(packets)
         /\ \A i \in DOMAIN packets : Finished(i) => i <= LastDelivered
<1>1. /\ delivered \in Seq([pkt : Nat, type : Nat, msid : Nat, ts : Times, len : Nat])
      /\ cursor.pkt \in Nat /\ cursor.pkt <= Len(packets) /\ packets \in Seq(PacketType)
      /\ DOMAIN packets = 1 .. Len(packets) /\ Len(packets) \in Nat
      /\ DeliveredOnceInOrder
  BY DEF IndInv, TypeOK
<1>2. /\ DOMAIN delivered = 1 .. Len(delivered) /\ Len(delivered) \in Nat
      /\ \A k \in DOMAIN delivered : delivered[k].pkt \in Nat
  <2> DEFINE R == [pkt : Nat, type : Nat, msid : Nat, ts : Times, len : Nat]
  <2>1. \A r \in R : r.pkt \in Nat
    BY Zenon
  <2> HIDE DEF R
  <2>2. delivered \in Seq(R)
    BY Zenon, <1>1 DEF R
  <2> QED BY <2>1, <2>2
<1>3. /\ {delivered[k].pkt : k \in DOMAIN delivered} = {i \in DOMAIN packets : Finished(i)}
      /\ \A k, l \in DOMAIN delivered : k < l => delivered[k].pkt < delivered[l].pkt
  BY Zenon, <1>1 DEF DeliveredOnceInOrder
<1>4. /\ \A k \in DOMAIN delivered :
           delivered[k].pkt \in DOMAIN packets /\ Finished(delivered[k].pkt)
      /\ \A i \in DOMAIN packets :
           Finished(i) => \E k \in DOMAIN delivered : delivered[k].pkt = i
  BY Zenon, <1>3
<1>5. CASE delivered = << >>
  <2>1. LastDelivered = 0 /\ DOMAIN delivered = {}
    BY <1>5 DEF LastDelivered
  <2> QED BY <2>1, <1>1, <1>4
<1>6. CASE delivered # << >>
  <2> DEFINE n == Len(delivered)
  <2>1. n \in DOMAIN delivered /\ n \in Nat
    BY <1>1, <1>2, <1>6
  <2>2. LastDelivered = delivered[n].pkt
    BY Zenon, <1>6 DEF LastDelivered
  <2>3. \A k \in DOMAIN delivered : k = n \/ k < n
    BY <1>2
  <2> HIDE DEF n
  <2>4. LastDelivered \in DOMAIN packets /\ Finished(LastDelivered)
    BY Zenon, <2>1, <2>2, <1>4
  <2>5. \A k \in DOMAIN delivered : delivered[k].pkt <= LastDelivered
    BY <2>1, <2>2, <2>3, <1>2, <1>3
  <2>6. LastDelivered \in 1 .. cursor.pkt
    BY Zenon, <2>4 DEF Finished
  <2>7. \A i \in DOMAIN packets : Finished(i) => i <= LastDelivered
    BY Zenon, <2>5, <1>4
  <2> QED BY <2>6, <2>7, <1>1
<1> QED BY Zenon, <1>5, <1>6

\* A packet that the application drops is an entry lost.
LEMMA DiscardLoses ==
  ASSUME IndInv, Discard
  PROVE  Channel!Lose
<1>1. PICK i \in DOMAIN packets : /\ Unsent(i) /\ packets[i].header.droppable
                                  /\ discarded' = discarded \cup {i}
  BY Zenon DEF Discard
<1>2. UNCHANGED <<packets, delivered>>
  BY Zenon DEF Discard, encoderVars
<1>3. UNCHANGED <<SentEntries, LastDelivered, DeliveredMessages>>
  BY Zenon, <1>2 DEF SentEntries, LastDelivered, DeliveredMessages
<1>4. SentEntries[i].droppable /\ DOMAIN SentEntries = DOMAIN packets
  BY Zenon, <1>1 DEF SentEntries
<1>5. packets \in Seq(PacketType)
  BY Zenon DEF IndInv, TypeOK
<1>6. Len(SentEntries) = Len(packets)
  BY <1>4, <1>5
<1>7. i \in LastDelivered + 1 .. Len(SentEntries)
  BY <1>1, <1>6, LastIsBehind DEF Unsent
<1> QED BY Zenon, <1>1, <1>3, <1>4, <1>7 DEF Channel!Lose

\* A step that completes the packet under the cursor delivers its entry: what
\* was sent before it and not yet delivered has been lost.
LEMMA CompletionDelivers ==
  ASSUME IndInv, IndInv', cursor.state # Idle,
         NEW r, r.pkt = cursor.pkt, delivered' = Append(delivered, r),
         UNCHANGED <<packets, discarded>>
  PROVE  Channel!Deliver
<1> DEFINE R == [pkt : Nat, type : Nat, msid : Nat, ts : Times, len : Nat]
           n == Len(delivered)
<1>1. delivered \in Seq(R) /\ delivered' \in Seq(R) /\ n \in Nat
  BY DEF IndInv, TypeOK
<1>2. packets \in Seq(PacketType) /\ Len(packets) \in Nat /\ DOMAIN packets = 1 .. Len(packets)
  BY SMTT(20) DEF IndInv, TypeOK
<1>3. cursor.pkt \in DOMAIN packets /\ cursor.pkt \notin discarded
  <2>1. ProgressOK
    BY Zenon DEF IndInv
  <2>2. cursor.pkt \notin discarded
    BY Zenon, <2>1 DEF ProgressOK
  <2> QED BY Zenon, <2>2, CursorFirst
<1> DEFINE T == [type : Nat, msid : Nat, ts : Times, len : Nat]
<1>4. \A q \in R : Message(q) \in T
  BY Zenon DEF Message
<1> HIDE DEF R, T
<1>5. /\ \A k \in DOMAIN delivered : delivered'[k] = delivered[k] /\ k \in Nat /\ k < n + 1
      /\ delivered'[n + 1] = r /\ n + 1 \in DOMAIN delivered'
      /\ DOMAIN delivered' = DOMAIN delivered \cup {n + 1} /\ r \in R
      /\ delivered # << >> => n \in DOMAIN delivered
  <2>1. Len(delivered') = n + 1 /\ delivered'[n + 1] = r
    BY <1>1
  <2>2. r \in R
    BY <1>1, <2>1
  <2>3. delivered # << >> => n \in DOMAIN delivered
    BY <1>1
  <2> QED BY <1>1, <2>1, <2>2, <2>3, AppendFacts
<1>6. LastDelivered' = cursor.pkt
  <2>1. Len(delivered') = n + 1 /\ delivered' # << >>
    BY <1>1, <1>5
  <2> QED BY Zenon, <2>1, <1>5 DEF LastDelivered
<1>7. LastDelivered < cursor.pkt /\ LastDelivered \in Nat
  <2>1. CASE delivered = << >>
    BY <2>1, <1>2, <1>3 DEF LastDelivered
  <2>2. CASE delivered # << >>
    <3>1. \A k, l \in DOMAIN delivered' : k < l => delivered'[k].pkt < delivered'[l].pkt
      BY Zenon DEF IndInv, DeliveredOnceInOrder
    <3>2. delivered[n].pkt < cursor.pkt
      BY Zenon, <2>2, <3>1, <1>5
    <3>3. LastDelivered \in Nat
      BY LastIsBehind
    <3> QED BY Zenon, <2>2, <3>2, <3>3 DEF LastDelivered
  <2> QED BY Zenon, <2>1, <2>2
<1>8. LastDelivered + 1 .. cursor.pkt - 1 \subseteq discarded
  <2> SUFFICES ASSUME NEW i \in LastDelivered + 1 .. cursor.pkt - 1, i \notin discarded
               PROVE  FALSE
    BY Zenon
  <2>1. i \in DOMAIN packets /\ i \in 1 .. cursor.pkt /\ i # cursor.pkt /\ ~(i <= LastDelivered)
    BY <1>2, <1>3, <1>7
  <2>2. Finished(i)
    BY Zenon, <2>1 DEF Finished
  <2> QED BY Zenon, <2>1, <2>2, LastIsBehind
<1>9. SentEntries[cursor.pkt].msg = Message(r)
  <2> DEFINE h == packets[cursor.pkt].header
  <2>1. RoundTrip'
    BY Zenon DEF IndInv
  <2>2. \A k \in DOMAIN delivered' :
          LET g == packets[delivered'[k].pkt].header
          IN  /\ delivered'[k].type = g.type /\ delivered'[k].msid = g.msid
              /\ delivered'[k].ts = g.ts /\ delivered'[k].len = g.len
    BY SMTT(20), <2>1 DEF RoundTrip
  <2>3. n + 1 \in DOMAIN delivered' /\ delivered'[n + 1] = r
    BY Zenon, <1>5
  <2>4. r.type = h.type /\ r.msid = h.msid /\ r.ts = h.ts /\ r.len = h.len
    BY SMTT(20), <2>2, <2>3
  <2> QED BY SMTT(20), <2>4, <1>3 DEF SentEntries, Message
<1>10. DeliveredMessages' = Append(DeliveredMessages, Message(r))
  <2>1. /\ DeliveredMessages \in [DOMAIN delivered -> T]
        /\ DeliveredMessages' \in [DOMAIN delivered' -> T]
    BY <1>4, <1>1 DEF DeliveredMessages
  <2>2. /\ \A k \in DOMAIN delivered : DeliveredMessages'[k] = DeliveredMessages[k]
        /\ DeliveredMessages'[n + 1] = Message(r)
    BY Zenon, <1>5 DEF DeliveredMessages
  <2> DEFINE f == DeliveredMessages
             g == DeliveredMessages'
             t == delivered'
  <2>3. /\ delivered \in Seq(R) /\ r \in R /\ t = Append(delivered, r)
        /\ f \in [DOMAIN delivered -> T] /\ g \in [DOMAIN t -> T]
        /\ \A k \in DOMAIN delivered : g[k] = f[k]
        /\ g[Len(delivered) + 1] = Message(r)
    BY SMTT(20), <2>1, <2>2, <1>1, <1>5
  <2> HIDE DEF f, g, t
  <2>4. g = Append(f, Message(r))
    BY SMTT(20), <2>3, MapAppend
  <2> QED BY Zenon, <2>4 DEF f, g
<1>11. Len(SentEntries) = Len(packets) /\ UNCHANGED SentEntries
  <2>1. DOMAIN SentEntries = DOMAIN packets
    BY Zenon DEF SentEntries
  <2> QED BY <2>1, <1>2 DEF SentEntries
<1>12. cursor.pkt \in (LastDelivered + 1 .. Len(SentEntries)) \ discarded
  BY <1>2, <1>3, <1>7, <1>11
<1> QED BY SMTT(20), <1>6, <1>8, <1>9, <1>10, <1>11, <1>12 DEF Channel!Deliver

\* A fragment delivers nothing, or the message of the packet under the cursor.
LEMMA FragmentDelivers ==
  ASSUME NEW p, NEW n, Fragment(p, n)
  PROVE  \/ UNCHANGED delivered
         \/ \E r : r.pkt = cursor.pkt /\ delivered' = Append(delivered, r)
<1> DEFINE s == p.streams[p.current]
           record == [pkt |-> cursor.pkt, type |-> s.type, msid |-> s.msid,
                      ts |-> s.ts, len |-> s.len]
<1>1. \/ UNCHANGED delivered
      \/ delivered' = Append(delivered, record)
  BY Zenon DEF Fragment
<1>2. record.pkt = cursor.pkt
  BY Zenon
<1> HIDE DEF record
<1> QED BY Zenon, <1>1, <1>2

\* The bytes that arrive deliver nothing, or complete the packet under the cursor.
LEMMA ArrivalDelivers ==
  ASSUME HeaderArrives \/ BodyArrives
  PROVE  /\ cursor.state # Idle
         /\ UNCHANGED <<packets, discarded>>
         /\ \/ UNCHANGED delivered
            \/ \E r : r.pkt = cursor.pkt /\ delivered' = Append(delivered, r)
<1>1. CASE HeaderArrives
  <2>1. PICK h, begun : BeginsChunk(h, begun)
    BY Zenon, <1>1 DEF HeaderArrives
  <2>2. UNCHANGED delivered \/ Fragment(begun, 0)
    BY Zenon, <2>1 DEF BeginsChunk, LosesPlace
  <2>3. cursor.state # Idle /\ UNCHANGED <<packets, discarded>>
    BY Zenon, <1>1 DEF HeaderArrives, encoderVars, Idle, InHeader
  <2> QED BY Zenon, <2>2, <2>3, FragmentDelivers
<1>2. CASE BodyArrives
  <2>1. PICK n : UNCHANGED delivered \/ Fragment(parser, n)
    BY Zenon, <1>2 DEF BodyArrives, LosesPlace
  <2>2. cursor.state # Idle /\ UNCHANGED <<packets, discarded>>
    BY Zenon, <1>2 DEF BodyArrives, encoderVars, Idle, InBody
  <2> QED BY Zenon, <2>1, <2>2, FragmentDelivers
<1> QED BY Zenon, <1>1, <1>2

\* The packet that encode makes carries the message.
LEMMA EncodedPacket ==
  ASSUME NEW m, NEW drop, NEW full, NEW size, encode(m, drop, full, size)
  PROVE  \E q : /\ packets' = Append(packets, q)
                /\ q.header.type = m.type /\ q.header.msid = m.msid
                /\ q.header.ts = m.ts /\ q.header.len = m.len
                /\ q.header.droppable = drop
BY SMTT(20) DEF encode, HeaderFor

\* What the application hands to the encoder is an entry of the channel.
LEMMA EncodersSend ==
  ASSUME IndInv, IndInv', Encode \/ SetChunkSize
  PROVE  Channel!Send
<1>1. TypeOK /\ TypeOK'
  BY Zenon DEF IndInv
<1>2. CASE Encode
  <2>1. PICK m \in Messages, drop \in BOOLEAN, full \in BOOLEAN :
          encode(m, drop, full, NoSize)
    BY Zenon, <1>2 DEF Encode
  <2>2. PICK q : /\ packets' = Append(packets, q)
                 /\ q.header.type = m.type /\ q.header.msid = m.msid
                 /\ q.header.ts = m.ts /\ q.header.len = m.len
                 /\ q.header.droppable = drop
    BY <2>1, EncodedPacket
  <2>3. m \in [type : Nat, msid : Nat, ts : Times, len : Nat]
    BY Zenon, WireAssumption
  <2>4. [msg |-> m, droppable |-> q.header.droppable] \in ChannelEntries
    BY Zenon, <2>1, <2>2 DEF ChannelEntries
  <2>5. UNCHANGED <<discarded, delivered>>
    BY Zenon, <1>2 DEF Encode
  <2> QED BY SMTT(20), <1>1, <2>2, <2>3, <2>4, <2>5, EncodeSends
<1>3. CASE SetChunkSize
  <2>1. PICK size \in ChunkSizes, time \in ControlTimes :
          encode([type |-> SetChunkSizeType, msid |-> 0, ts |-> time, len |-> ControlLength],
                 FALSE, TRUE, size)
    BY Zenon, <1>3 DEF SetChunkSize
  <2> DEFINE m == [type |-> SetChunkSizeType, msid |-> 0, ts |-> time, len |-> ControlLength]
  <2>2. PICK drop \in BOOLEAN, full \in BOOLEAN : drop = FALSE /\ encode(m, drop, full, size)
    BY Zenon, <2>1
  <2>3. m \in [type : Nat, msid : Nat, ts : Times, len : Nat]
    BY WireAssumption DEF SetChunkSizeType
  <2>4. [msg |-> m, droppable |-> FALSE] \in ChannelEntries
    BY Zenon, <2>1 DEF ChannelEntries
  <2> HIDE DEF m
  <2>5. PICK q : /\ packets' = Append(packets, q)
                 /\ q.header.type = m.type /\ q.header.msid = m.msid
                 /\ q.header.ts = m.ts /\ q.header.len = m.len
                 /\ q.header.droppable = drop
    BY <2>2, EncodedPacket
  <2>6. [msg |-> m, droppable |-> q.header.droppable] \in ChannelEntries
    BY Zenon, <2>2, <2>4, <2>5
  <2>7. UNCHANGED <<discarded, delivered>>
    BY Zenon, <1>3 DEF SetChunkSize
  <2> QED BY SMTT(20), <1>1, <2>3, <2>5, <2>6, <2>7, EncodeSends
<1> QED BY Zenon, <1>2, <1>3

\* Encoder, queue, transport and parser together implement the ordered message
\* channel that loses only what may be dropped: encoding is sending, a dropped
\* packet is a lost entry, and the last fragment of a message is its delivery.
\* That what is sent is delivered in the end is checked with ImplementsChannel.
THEOREM Refinement == Spec => Channel!Safety
<1>1. Init => Channel!Init
  BY DEF Init, Channel!Init, SentEntries, LastDelivered, DeliveredMessages
<1>2. ASSUME IndInv, IndInv', [Next]_vars
      PROVE  [Channel!Next]_Channel!channel
  <2>1. CASE Encode \/ SetChunkSize
    BY Zenon, <1>2, <2>1, EncodersSend DEF Channel!Next
  <2>2. CASE Discard
    BY Zenon, <1>2, <2>2, DiscardLoses DEF Channel!Next
  <2>3. CASE UNCHANGED <<packets, discarded, delivered>>
    BY Zenon, <2>3 DEF Channel!channel, SentEntries, LastDelivered, DeliveredMessages
  <2>4. CASE StartPacket
    BY Zenon, <2>3, <2>4 DEF StartPacket, encoderVars
  <2>5. CASE HeaderArrives \/ BodyArrives
    <3>1. CASE UNCHANGED delivered
      BY Zenon, <2>3, <2>5, <3>1, ArrivalDelivers
    <3>2. CASE ~UNCHANGED delivered
      <4>1. PICK r : r.pkt = cursor.pkt /\ delivered' = Append(delivered, r)
        BY Zenon, <2>5, <3>2, ArrivalDelivers
      <4> QED BY Zenon, <1>2, <2>5, <4>1, ArrivalDelivers, CompletionDelivers DEF Channel!Next
    <3> QED BY Zenon, <3>1, <3>2
  <2>6. CASE UNCHANGED vars
    BY Zenon, <2>3, <2>6 DEF vars
  <2> QED BY Zenon, <1>2, <2>1, <2>2, <2>4, <2>5, <2>6 DEF Next
<1> QED BY <1>1, <1>2, Invariance, PTL DEF Spec, Channel!Safety
=============================================================================
