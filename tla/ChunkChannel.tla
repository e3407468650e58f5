---------------------------- MODULE ChunkChannel ----------------------------
(***************************************************************************)
(* Encoder, queue, transport and parser together implement the message     *)
(* channel.                                                                *)
(***************************************************************************)
EXTENDS ChunkWire

Message(h) == [type |-> h.type, msid |-> h.msid, ts |-> h.ts, len |-> h.len]

ChannelEntries ==
  [msg : Messages, droppable : BOOLEAN] \cup
  [msg : [type : {SetChunkSizeType}, msid : {0}, ts : ControlTimes, len : {ControlLength}],
   droppable : {FALSE}]

SentEntries == [i \in DOMAIN packets |-> [msg |-> Message(packets[i].header),
                                          droppable |-> packets[i].header.droppable]]

LastDelivered == IF delivered = << >> THEN 0 ELSE delivered[Len(delivered)].pkt

DeliveredMessages == [k \in DOMAIN delivered |-> Message(delivered[k])]

Channel == INSTANCE MessageChannel WITH
  Entries <- ChannelEntries,
  sent <- SentEntries,
  lost <- discarded,
  last <- LastDelivered,
  out  <- DeliveredMessages

\* Encoding is sending, discarding is losing and the last fragment of a message
\* is its delivery; what is sent and not dropped is delivered in the end.
ImplementsChannel == Channel!Spec
=============================================================================
