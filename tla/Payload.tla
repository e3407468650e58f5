------------------------------ MODULE Payload ------------------------------
(***************************************************************************)
(* Segmented payloads, the pool that recycles their descriptor vectors,    *)
(* and the borrowed views and readers over them (payload.rs).              *)
(*                                                                         *)
(* Each payload has one owner, and owners are threads of their own: drops  *)
(* of several payloads overlap.  A drop releases the buffers, and then     *)
(* takes the pool's lock to return the descriptor vector.                  *)
(*                                                                         *)
(* The bytes of a payload are named by their position: the n-th byte ever  *)
(* pushed is n.  Segments are numbered from 0, as in the code.             *)
(***************************************************************************)
EXTENDS Integers, Sequences

CONSTANTS Payloads,              \* names for the payloads of the application
          MaxCachedPayloads,     \* max_cached_payloads
          MaxDescriptors,        \* max_descriptors_per_payload
          MinCapacity,           \* a vector's first capacity
          MaxPush,               \* bound on the length of a pushed segment
          MaxLen                 \* bound on the length of a payload

ASSUME PayloadAssumption ==
  /\ MaxCachedPayloads \in Nat /\ MaxDescriptors \in Nat
  /\ MinCapacity \in Nat \ {0} /\ MaxLen \in Nat /\ MaxPush \in 0 .. MaxLen

VARIABLES
  live,     \* name -> [first, rest, len, capacity, pooled]
  dropping, \* name -> what is left of a payload between release and return
  cached,   \* the pool: descriptor vectors, [rest, capacity]
  reader    \* the reader some payload is borrowed by, or NoReader

vars == <<live, dropping, cached, reader>>

Empty == << >>
Absent == [first |-> Empty, rest |-> Empty, len |-> 0, capacity |-> -1, pooled |-> FALSE]
NewPayload == [Absent EXCEPT !.capacity = 0]

IsLive(p) == live[p] # Absent
Unused(p) == ~IsLive(p) /\ dropping[p] = Absent

-----------------------------------------------------------------------------
(* Payload                                                                 *)

\* Vec::push in a full vector: the capacity doubles.
Grown(capacity) == IF capacity = 0 THEN MinCapacity ELSE 2 * capacity

push(p, bytes) ==
  IF bytes = Empty THEN p
  ELSE LET q == [p EXCEPT !.len = @ + Len(bytes)]
       IN IF p.first = Empty THEN [q EXCEPT !.first = bytes]
          ELSE [q EXCEPT !.rest = Append(@, bytes),
                         !.capacity = IF Len(p.rest) = @ THEN Grown(@) ELSE @]

segment_count(p) == (IF p.first = Empty THEN 0 ELSE 1) + Len(p.rest)

segment(p, i) == IF i = 0 THEN p.first ELSE p.rest[i]

to_bytes(p) ==
  LET output[i \in 0 .. Len(p.rest)] == IF i = 0 THEN p.first ELSE output[i - 1] \o p.rest[i]
  IN output[Len(p.rest)]

-----------------------------------------------------------------------------
(* PayloadView                                                             *)

view(p) ==
  LET last == IF segment_count(p) = 0 THEN 0 ELSE segment_count(p) - 1 IN
  [source |-> p, first |-> 0, offset |-> 0, last |-> last,
   last_end |-> IF p.len = 0 THEN 0 ELSE Len(segment(p, last)), len |-> p.len]

\* A turn of the loops of slice: the place lies in this segment, or the next one
\* is tried with what is left.  The start of a range is past the end of a
\* segment, at the next one; the end of a range stays there.
Turn(p, at, edge) ==
  LET available == Len(segment(p, at.segment)) - at.offset IN
  IF at.left = 0 THEN at
  ELSE IF at.left < available \/ (edge = "end" /\ at.left = available)
  THEN [at EXCEPT !.offset = @ + at.left, !.left = 0]
  ELSE [segment |-> at.segment + 1, offset |-> 0, left |-> at.left - available]

\* The place that lies at.left bytes on.  A loop takes a turn for each segment at
\* most.
Walk(p, at, edge) ==
  LET after[n \in 0 .. segment_count(p)] == IF n = 0 THEN at ELSE Turn(p, after[n - 1], edge)
  IN after[segment_count(p)]

Place(v) == [segment |-> v.first, offset |-> v.offset, left |-> 0]

\* A defect: the end is looked for from where the view began.
sliceFromOldStart(v, from, to) ==
  IF from = to THEN [v EXCEPT !.len = 0]
  ELSE LET start == Walk(v.source, [Place(v) EXCEPT !.left = from], "start")
           end == Walk(v.source, [Place(v) EXCEPT !.left = to - from], "end")
           out == [v EXCEPT !.first = start.segment, !.offset = start.offset, !.len = to - from]
       IN IF to = v.len THEN out
          ELSE [out EXCEPT !.last = end.segment, !.last_end = end.offset]

slice(v, from, to) ==
  IF from = to THEN [v EXCEPT !.len = 0]
  ELSE LET start == Walk(v.source, [Place(v) EXCEPT !.left = from], "start")
           end == Walk(v.source, [start EXCEPT !.left = to - from], "end")
           out == [v EXCEPT !.first = start.segment, !.offset = start.offset, !.len = to - from]
       IN IF to = v.len THEN out
          ELSE [out EXCEPT !.last = end.segment, !.last_end = end.offset]

view_segment_count(v) == IF v.len = 0 THEN 0 ELSE v.last - v.first + 1

view_segment(v, i) ==
  LET bytes == segment(v.source, v.first + i)
  IN SubSeq(bytes, (IF i = 0 THEN v.offset ELSE 0) + 1,
                   IF v.first + i = v.last THEN v.last_end ELSE Len(bytes))

-----------------------------------------------------------------------------
(* Operations of the application.                                          *)

\* What a reader borrows can be neither changed nor dropped.
NoReader == [of |-> "none"]
Borrowed(p) == reader # NoReader /\ reader.of = p

\* Payload::new, or From<Bytes> with its one segment.
new(p) ==
  /\ Unused(p)
  /\ \E n \in 0 .. MaxPush :
       live' = [live EXCEPT ![p] = [NewPayload EXCEPT !.first = [i \in 1 .. n |-> i], !.len = n]]
  /\ UNCHANGED <<dropping, cached, reader>>

acquire(p) ==
  /\ Unused(p)
  /\ IF cached = Empty
     THEN /\ live' = [live EXCEPT ![p] = [NewPayload EXCEPT !.pooled = TRUE]]
          /\ UNCHANGED cached
     ELSE /\ live' = [live EXCEPT ![p] = [NewPayload EXCEPT !.pooled = TRUE,
                                            !.rest = cached[Len(cached)].rest,
                                            !.capacity = cached[Len(cached)].capacity]]
          /\ cached' = SubSeq(cached, 1, Len(cached) - 1)
  /\ UNCHANGED <<dropping, reader>>

Push(p) ==
  /\ IsLive(p) /\ ~Borrowed(p)
  /\ \E n \in 0 .. MaxPush :
       /\ live[p].len + n <= MaxLen
       /\ live' = [live EXCEPT ![p] = push(@, [i \in 1 .. n |-> live[p].len + i])]
  /\ UNCHANGED <<dropping, cached, reader>>

\* The clone of a vector has the capacity of its length.
clone(p, q) ==
  /\ IsLive(p) /\ Unused(q)
  /\ live' = [live EXCEPT ![q] = [live[p] EXCEPT !.capacity = Len(live[p].rest)]]
  /\ UNCHANGED <<dropping, cached, reader>>

\* A defect: the descriptors are not cleared.
releaseFirstOnly(p) == [p EXCEPT !.first = Empty, !.len = 0]

\* The first part of drop: the buffers are let go of.  The vector stays.
release(p) == [p EXCEPT !.first = Empty, !.rest = Empty, !.len = 0]

\* drop, or the end of into_bytes.
Drop(p) ==
  /\ IsLive(p) /\ ~Borrowed(p)
  /\ live' = [live EXCEPT ![p] = Absent]
  /\ dropping' = IF live[p].capacity = 0 THEN dropping
                 ELSE [dropping EXCEPT ![p] = release(live[p])]
  /\ UNCHANGED <<cached, reader>>

\* A defect: the bound on the number of vectors is off by one.
KeepsLate(d) == d.pooled /\ d.capacity <= MaxDescriptors /\ Len(cached) <= MaxCachedPayloads

\* The second part of drop, under the pool's lock.
Keeps(d) == d.pooled /\ d.capacity <= MaxDescriptors /\ Len(cached) < MaxCachedPayloads

Return(p) ==
  /\ dropping[p] # Absent
  /\ cached' = IF Keeps(dropping[p])
               THEN Append(cached, [rest |-> dropping[p].rest, capacity |-> dropping[p].capacity])
               ELSE cached
  /\ dropping' = [dropping EXCEPT ![p] = Absent]
  /\ UNCHANGED <<live, reader>>

-----------------------------------------------------------------------------
(* PayloadReader, over a part of a part of a payload.                      *)

Ranges(n) == {r \in (0 .. n) \X (0 .. n) : r[1] <= r[2]}

open(p) ==
  /\ IsLive(p) /\ reader = NoReader
  /\ \E a \in Ranges(live[p].len) : \E b \in Ranges(a[2] - a[1]) :
       reader' = [of |-> p, from |-> a[1] + b[1], to |-> a[1] + b[2],
                  over |-> slice(slice(view(live[p]), a[1], a[2]), b[1], b[2]),
                  segment |-> 0, offset |-> 0, remaining |-> b[2] - b[1], got |-> Empty]
  /\ UNCHANGED <<live, dropping, cached>>

read(r, room) ==
  LET bytes == view_segment(r.over, r.segment)
      n == IF room < Len(bytes) - r.offset THEN room ELSE Len(bytes) - r.offset
      out == [r EXCEPT !.got = @ \o SubSeq(bytes, r.offset + 1, r.offset + n),
                       !.remaining = @ - n]
  IN IF r.offset + n = Len(bytes)
     THEN [out EXCEPT !.segment = @ + 1, !.offset = 0]
     ELSE [out EXCEPT !.offset = @ + n]

Read ==
  /\ reader # NoReader /\ reader.remaining > 0
  /\ \E room \in 1 .. MaxPush + 1 : reader' = read(reader, room)
  /\ UNCHANGED <<live, dropping, cached>>

Close ==
  /\ reader # NoReader
  /\ reader' = NoReader
  /\ UNCHANGED <<live, dropping, cached>>

-----------------------------------------------------------------------------
Init == /\ live = [p \in Payloads |-> Absent]
        /\ dropping = [p \in Payloads |-> Absent]
        /\ cached = Empty
        /\ reader = NoReader

Next == \/ \E p \in Payloads : new(p) \/ acquire(p) \/ Push(p) \/ Drop(p) \/ Return(p) \/ open(p)
        \/ \E p, q \in Payloads : clone(p, q)
        \/ Read \/ Close

Spec == Init /\ [][Next]_vars

-----------------------------------------------------------------------------
Segments == Seq(1 .. MaxLen)
Descriptors == [first : Segments, rest : Seq(Segments), len : 0 .. MaxLen,
                capacity : Nat, pooled : BOOLEAN] \cup {Absent}

\* Payloads, dropped payloads and the pool are well typed; a vector of descriptors
\* fits its capacity through push, clone, drop and acquire, and a drop goes on to
\* the pool only with a vector that has storage.
PayloadTypeOK ==
  /\ live \in [Payloads -> Descriptors] /\ dropping \in [Payloads -> Descriptors]
  /\ \A p \in Payloads : dropping[p].capacity # 0
  /\ cached \in Seq([rest : Seq(Segments), capacity : Nat])
  /\ \A p \in Payloads : IsLive(p) => Len(live[p].rest) <= live[p].capacity
  /\ reader # NoReader => /\ reader.of \in Payloads
                          /\ reader.segment \in 0 .. MaxLen /\ reader.offset \in 0 .. MaxPush

\* The contract of the trait Segments, which the encoder and every reader rely on:
\* a payload's segments are what was pushed into this payload, in order, its
\* length is theirs, none is empty and an empty payload has none.  A vector that
\* comes back from the pool with old descriptors, dropped by any thread, breaks it.
SegmentsWellFormed ==
  /\ PayloadTypeOK
  /\ \A p \in {q \in Payloads : IsLive(q)} :
       /\ to_bytes(live[p]) = [i \in 1 .. live[p].len |-> i]
       /\ \A i \in 0 .. segment_count(live[p]) - 1 : segment(live[p], i) # Empty

\* However drops overlap, the pool keeps no more vectors than it may, none
\* larger than it may, none without storage, and none that holds on to a buffer.
CacheBounded ==
  /\ Len(cached) <= MaxCachedPayloads
  /\ \A i \in DOMAIN cached : cached[i].rest = Empty /\ cached[i].capacity \in 1 .. MaxDescriptors

\* A reader over a slice of a slice yields the bytes of that range in order,
\* whatever the segments and the room in each read, and while bytes remain it
\* stands at one of them: read neither stops early nor leaves the last segment.
ReadsTheRange ==
  reader # NoReader =>
    /\ reader.got = [i \in 1 .. Len(reader.got) |-> reader.from + i]
    /\ reader.remaining = reader.to - reader.from - Len(reader.got)
    /\ reader.remaining > 0 =>
         /\ reader.segment < view_segment_count(reader.over)
         /\ reader.offset < Len(view_segment(reader.over, reader.segment))
=============================================================================
