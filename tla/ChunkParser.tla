----------------------------- MODULE ChunkParser -----------------------------
(***************************************************************************)
(* The sans-I/O chunk parser of chunk_io/streaming.rs, as operators on its *)
(* state, a record                                                         *)
(*   streams    : per chunk stream, the last message header and progress   *)
(*   current    : the chunk stream whose chunk is being read, or NoCsid    *)
(*   chunk_left : bytes of that chunk still to come                        *)
(*   chunk_size : the peer's negotiated chunk size                         *)
(* The scratch buffer of a header that is still arriving is not part of    *)
(* it: a header acts on the state only once all its bytes are there.       *)
(***************************************************************************)
EXTENDS ChunkHeader, FiniteSets

CONSTANTS MaximumChunkSize,            \* the configured limit, at most 0x7fffffff
          MaximumMessageSize,
          MaximumTrackedChunkStreams,
          MaximumPartialMessages,
          InitialChunkSize            \* 128

ASSUME ParserLimits == /\ MaximumChunkSize \in Nat
                       /\ MaximumMessageSize \in Nat
                       /\ MaximumTrackedChunkStreams \in Nat
                       /\ MaximumPartialMessages \in Nat
                       /\ InitialChunkSize \in Nat \ {0}

NoCsid == 0

\* An entry that is not in the stream map yet.
Untracked == [known |-> FALSE, ts |-> 0, type |-> 0, msid |-> 0, len |-> 0,
              time_field |-> 0, received |-> 0, active |-> FALSE]

NewParser == [streams    |-> [c \in Csids |-> Untracked],
              current    |-> NoCsid,
              chunk_left |-> 0,
              chunk_size |-> InitialChunkSize]

Tracked(p) == {c \in Csids : p.streams[c].known}

Active(p) == {c \in Csids : p.streams[c].active}

is_idle(p) == p.current = NoCsid /\ Active(p) = {}

-----------------------------------------------------------------------------
(* set_chunk_size and abort_chunk_stream                                   *)

ChunkSizeAccepted(size) == size # 0 /\ size <= MaximumChunkSize

set_chunk_size(p, size) == [p EXCEPT !.chunk_size = size]

abort_chunk_stream(p, csid) ==
  [p EXCEPT !.streams = [@ EXCEPT ![csid].active = FALSE, ![csid].received = 0],
            !.current = IF @ = csid THEN NoCsid ELSE @,
            !.chunk_left = IF p.current = csid THEN 0 ELSE @]

-----------------------------------------------------------------------------
(* header_needed: does the parser expect an extended timestamp after h?    *)

Extended(p, h) == IF h.fmt = Empty THEN p.streams[h.csid].time_field >= ExtField
                                   ELSE h.field = ExtField

-----------------------------------------------------------------------------
(* begin_chunk: the header h is complete.                                  *)

\* The timestamp field in effect: the extended one, the header's own, or the
\* one of the previous chunk.
HeaderTime(p, h) == IF Extended(p, h) THEN h.ext
                    ELSE IF h.fmt = Empty THEN p.streams[h.csid].time_field
                                          ELSE h.field

\* The message header that results from h and the stream's previous header.
MessageHeader(p, h) ==
  LET old == p.streams[h.csid] IN
  [len  |-> IF h.fmt <= TimeDeltaWithoutMessageStreamId THEN h.len ELSE old.len,
   type |-> IF h.fmt <= TimeDeltaWithoutMessageStreamId THEN h.type ELSE old.type,
   msid |-> IF h.fmt = Full THEN h.msid ELSE old.msid,
   ts   |-> IF old.active THEN old.ts
            ELSE IF h.fmt = Full THEN HeaderTime(p, h)
                                 ELSE add_values(old.ts, HeaderTime(p, h))]

NoPreviousChunkOnStream(p, h) == h.fmt # Full /\ ~p.streams[h.csid].known

TooManyTrackedStreams(p, h) ==
  /\ ~p.streams[h.csid].known
  /\ Cardinality(Tracked(p)) >= MaximumTrackedChunkStreams

\* "A complete single-chunk control message need not occupy a partial-message
\* slot": only a message longer than a chunk is counted.
TooManyPartialMessages(p, h) ==
  /\ ~p.streams[h.csid].active
  /\ MessageHeader(p, h).len > p.chunk_size
  /\ Cardinality(Active(p)) >= MaximumPartialMessages

\* A chunk that continues a message must repeat what it repeats unchanged.
InvalidContinuation(p, h) ==
  LET old == p.streams[h.csid]
      new == MessageHeader(p, h)
  IN  /\ old.active
      /\ \/ new.len < old.received
         \/ new.len # old.len
         \/ new.type # old.type
         \/ new.msid # old.msid
         \/ h.fmt = Full /\ HeaderTime(p, h) # old.ts

BeginChunkFails(p, h) == \/ NoPreviousChunkOnStream(p, h)
                         \/ TooManyTrackedStreams(p, h)
                         \/ MessageHeader(p, h).len > MaximumMessageSize
                         \/ TooManyPartialMessages(p, h)
                         \/ InvalidContinuation(p, h)

MinOf(a, b) == IF a <= b THEN a ELSE b

begin_chunk(p, h) ==
  LET old == p.streams[h.csid]
      new == MessageHeader(p, h)
      got == IF old.active THEN old.received ELSE 0
  IN  [streams |-> [p.streams EXCEPT ![h.csid] =
                      [known |-> TRUE, ts |-> new.ts, type |-> new.type,
                       msid |-> new.msid, len |-> new.len,
                       time_field |-> HeaderTime(p, h),
                       received |-> got, active |-> TRUE]],
       current |-> h.csid,
       chunk_left |-> MinOf(new.len - got, p.chunk_size),
       chunk_size |-> p.chunk_size]

-----------------------------------------------------------------------------
(* consume: n bytes of the current chunk (n <= chunk_left) become a        *)
(* fragment.  n = 0 only for a message without a body.                     *)

\* A defect: a message ends with its chunk.
CompletesMessageWithChunk(p, n) == p.chunk_left = n

CompletesMessage(p, n) ==
  p.streams[p.current].received + n = p.streams[p.current].len

\* A defect: the chunk that ends a message is not left.
consumeKeepingChunk(p, n) ==
  LET s == p.streams[p.current] IN
  [streams |-> [p.streams EXCEPT ![p.current] =
                  [s EXCEPT !.received = s.received + n,
                            !.active = ~CompletesMessage(p, n)]],
   current |-> IF p.chunk_left = n /\ ~CompletesMessage(p, n) THEN NoCsid ELSE p.current,
   chunk_left |-> p.chunk_left - n,
   chunk_size |-> p.chunk_size]

consume(p, n) ==
  LET s == p.streams[p.current] IN
  [streams |-> [p.streams EXCEPT ![p.current] =
                  [s EXCEPT !.received = s.received + n,
                            !.active = ~CompletesMessage(p, n)]],
   current |-> IF p.chunk_left = n THEN NoCsid ELSE p.current,
   chunk_left |-> p.chunk_left - n,
   chunk_size |-> p.chunk_size]
=============================================================================
