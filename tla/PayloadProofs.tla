---------------------------- MODULE PayloadProofs ----------------------------
(***************************************************************************)
(* Payloads keep the contract of Segments, the pool keeps its bounds and   *)
(* holds no buffer, and a reader over a slice of a slice reads its range,  *)
(* for any number of payloads and owners, any limits and any lengths.      *)
(*                                                                         *)
(* The segments of a payload are a chain: each holds consecutive bytes and *)
(* begins where the one before ended.  A place in the payload is then the  *)
(* number of bytes before it, and what the loops of slice add to the       *)
(* segment and the offset they take from what is left to go.               *)
(***************************************************************************)
EXTENDS Payload, SequenceTheorems, WellFoundedInduction, TLAPS

\* The number of bytes of p before its segment i.
Before(p, i) == segment(p, i)[1] - 1

\* Segment i of p holds consecutive bytes, and leaves none out.
Link(p, i) ==
  /\ segment(p, i) \in Segments /\ Len(segment(p, i)) \in 1 .. MaxPush
  /\ \A j \in 1 .. Len(segment(p, i)) : segment(p, i)[j] = Before(p, i) + j
  /\ Before(p, i) \in Nat /\ i <= Before(p, i)
  /\ i = 0 => Before(p, i) = 0
  /\ i + 1 < segment_count(p) => Before(p, i + 1) = Before(p, i) + Len(segment(p, i))
  /\ i + 1 = segment_count(p) => p.len = Before(p, i) + Len(segment(p, i))

Chained(p) == /\ p.first = Empty => p.rest = Empty /\ p.len = 0
              /\ \A i \in 0 .. segment_count(p) - 1 : Link(p, i)

Records == [first : Segments, rest : Seq(Segments), len : 0 .. MaxLen,
            capacity : Nat, pooled : BOOLEAN]

\* A non-empty set of numbers has a least one.
LEMMA LeastNumber ==
  ASSUME NEW T \in SUBSET Nat, T # {}
  PROVE  \E x \in T : \A y \in T : x <= y
<1> DEFINE R == {ss \in Nat \X Nat : ss[1] < ss[2]}
<1>1. IsWellFoundedOn(R, Nat)
  BY Zenon, NatLessThanWellFounded DEF OpToRel
<1>2. \A x, y \in Nat : <<y, x>> \in R <=> y < x
  BY Zenon
<1> HIDE DEF R
<1>3. PICK x \in T : \A y \in T : ~(<<y, x>> \in R)
  BY ZenonT(30), <1>1, WFMin
<1>4. ASSUME NEW y \in T PROVE x <= y
  <2>1. x \in Nat /\ y \in Nat /\ ~(y < x)
    BY ZenonT(30), <1>2, <1>3
  <2> QED BY <2>1
<1> QED BY Zenon, <1>4

\* What holds at 0, and one further on up to n, holds up to n.
LEMMA Counting ==
  ASSUME NEW n \in Nat, NEW T, 0 \in T, \A j \in 0 .. n - 1 : j \in T => j + 1 \in T
  PROVE  \A j \in 0 .. n : j \in T
<1> DEFINE F == {j \in 0 .. n : j \notin T}
<1>1. SUFFICES ASSUME F # {} PROVE FALSE
  BY Zenon
<1>2. F \in SUBSET Nat
  OBVIOUS
<1>3. PICK x \in F : \A y \in F : x <= y
  BY Zenon, <1>1, <1>2, LeastNumber
<1>4. x \in 0 .. n /\ x \notin T /\ x # 0
  BY Zenon
<1>5. x - 1 \in 0 .. n - 1 /\ x - 1 \in 0 .. n /\ (x - 1) + 1 = x /\ ~(x <= x - 1)
  BY <1>4
<1>6. x - 1 \notin F
  BY Zenon, <1>3, <1>5
<1>7. x - 1 \in T
  BY Zenon, <1>5, <1>6
<1> QED BY Zenon, <1>4, <1>5, <1>7

-----------------------------------------------------------------------------
(* The loops of slice.                                                     *)

Places == [segment : Nat, offset : Nat, left : Nat]
Edges == {"start", "end"}

\* A place of p, to bytes in once what is left has been gone over.
Toward(p, at, edge, to) ==
  /\ at \in Places /\ at.segment < segment_count(p)
  /\ at.offset <= Len(segment(p, at.segment))
  /\ edge = "start" \/ at.left > 0 => at.offset < Len(segment(p, at.segment))
  /\ Before(p, at.segment) + at.offset + at.left = to

\* The number of segments is a number.
LEMMA CountIs ==
  ASSUME NEW p \in Records
  PROVE  segment_count(p) \in Nat
BY DEF Records, segment_count

\* A place in a payload: a turn stays on course, and one that does not arrive
\* goes on to the next segment.
LEMMA TurnIs ==
  ASSUME NEW p \in Records, Chained(p), NEW edge \in Edges, NEW to \in Nat, NEW at,
         Toward(p, at, edge, to), to <= p.len, edge = "start" => to < p.len
  PROVE  /\ Toward(p, Turn(p, at, edge), edge, to)
         /\ Turn(p, at, edge).left > 0 =>
              at.left > 0 /\ Turn(p, at, edge).segment = at.segment + 1
         /\ Turn(p, at, edge).left = 0 => at.left = 0 \/ edge = "start" \/ Turn(p, at, edge).offset > 0
<1>1. PICK s, o, k : s = at.segment /\ o = at.offset /\ k = at.left
  BY Zenon
<1>2. /\ at \in Places /\ s \in Nat /\ o \in Nat /\ k \in Nat
      /\ s < segment_count(p)
  BY Zenon, <1>1 DEF Toward, Places
<1>3. segment_count(p) \in Nat
  BY Zenon, CountIs
<1>4. Link(p, s)
  <2>1. s \in 0 .. segment_count(p) - 1
    BY <1>2, <1>3
  <2> QED BY Zenon, <2>1 DEF Chained
<1>5. PICK len, before : len = Len(segment(p, s)) /\ before = Before(p, s)
  BY Zenon
<1>6. /\ len \in Nat /\ len >= 1 /\ before \in Nat
      /\ s + 1 < segment_count(p) => Before(p, s + 1) = before + len
      /\ s + 1 = segment_count(p) => p.len = before + len
  <2>1. len \in 1 .. MaxPush /\ MaxPush \in Nat
    BY <1>4, <1>5, PayloadAssumption DEF Link
  <2>2. len \in Nat /\ len >= 1
    BY <2>1
  <2> QED BY Zenon, <1>4, <1>5, <2>2 DEF Link
<1>7. o <= len /\ (edge = "start" \/ k > 0 => o < len) /\ before + o + k = to
  BY Zenon, <1>1, <1>5 DEF Toward
<1>8. PICK t : t = Turn(p, at, edge)
  BY Zenon
<1>9. CASE k = 0
  <2>1. t = at
    BY Zenon, <1>1, <1>8, <1>9 DEF Turn
  <2>2. ~(k > 0)
    BY <1>9
  <2> QED BY Zenon, <1>1, <1>8, <1>9, <2>1, <2>2
<1>10. CASE k # 0 /\ (k < len - o \/ (k = len - o /\ edge = "end"))
  <2>1. t = [at EXCEPT !.offset = @ + at.left, !.left = 0]
    BY Zenon, <1>1, <1>5, <1>8, <1>10 DEF Turn
  <2>2. t \in Places /\ t.segment = s /\ t.offset = o + k /\ t.left = 0
    <3>1. o + k \in Nat /\ 0 \in Nat
      BY <1>2
    <3>2. t = [at EXCEPT !.offset = o + k, !.left = 0]
      BY Zenon, <1>1, <2>1
    <3> QED BY Zenon, <1>1, <1>2, <3>1, <3>2 DEF Places
  <2>3. o + k <= len /\ (edge = "start" => o + k < len) /\ o + k > 0
    BY <1>2, <1>6, <1>7, <1>10
  <2>4. before + (o + k) + 0 = to /\ ~(0 > 0)
    BY <1>2, <1>6, <1>7
  <2> QED BY Zenon, <1>2, <1>5, <1>8, <2>2, <2>3, <2>4 DEF Toward
<1>11. CASE k # 0 /\ ~(k < len - o \/ (k = len - o /\ edge = "end"))
  <2>1. t = [segment |-> s + 1, offset |-> 0, left |-> k - (len - o)]
    BY Zenon, <1>1, <1>5, <1>8, <1>11 DEF Turn
  <2>2. PICK r : r = k - (len - o)
    BY Zenon
  <2>3. r \in Nat /\ (edge = "end" => r > 0) /\ (before + len) + 0 + r = to /\ k > 0
    BY <1>2, <1>6, <1>7, <1>11, <2>2
  <2>4. p.len \in Nat /\ s + 1 \in Nat
    BY <1>2, PayloadAssumption DEF Records
  <2>5. s + 1 < segment_count(p)
    BY <1>2, <1>3, <1>6, <2>3, <2>4 DEF Edges
  <2>6. t \in Places /\ t.segment = s + 1 /\ t.offset = 0 /\ t.left = r
    BY Zenon, <2>1, <2>2, <2>3, <2>4 DEF Places
  <2>7. Link(p, s + 1)
    <3>1. s + 1 \in 0 .. segment_count(p) - 1
      BY <1>3, <2>4, <2>5
    <3> QED BY Zenon, <3>1 DEF Chained
  <2>8. 0 < Len(segment(p, s + 1)) /\ 0 <= Len(segment(p, s + 1))
    BY <2>7, PayloadAssumption DEF Link
  <2>9. Before(p, s + 1) + 0 + r = to
    BY Zenon, <1>6, <2>3, <2>5
  <2>10. r = 0 => edge = "start"
    BY <2>3 DEF Edges
  <2> QED BY Zenon, <1>1, <1>8, <2>3, <2>5, <2>6, <2>8, <2>9, <2>10 DEF Toward
<1> QED BY Zenon, <1>9, <1>10, <1>11

\* f has the places after 0 .. n turns.
Turns(p, at, edge, n, f) ==
  f = [j \in 0 .. n |-> IF j = 0 THEN at ELSE Turn(p, f[j - 1], edge)]

\* There are such places, whatever the place the loop begins at.
LEMMA TurnsExist ==
  ASSUME NEW p, NEW at, NEW edge, NEW n \in Nat
  PROVE  \E f : Turns(p, at, edge, n, f)
<1> USE DEF Turns
<1> DEFINE T == {m \in 0 .. n : \E f : Turns(p, at, edge, m, f)}
<1>1. 0 \in T
  <2> DEFINE f == [j \in 0 .. 0 |-> at]
  <2>1. Turns(p, at, edge, 0, f)
    BY SMT
  <2>2. 0 \in 0 .. n
    OBVIOUS
  <2> QED BY Zenon, <2>1, <2>2
<1>2. ASSUME NEW m \in 0 .. n - 1, m \in T PROVE m + 1 \in T
  <2>1. PICK f : Turns(p, at, edge, m, f)
    BY Zenon, <1>2
  <2>2. PICK last : last = Turn(p, f[m], edge)
    BY Zenon
  <2> DEFINE g == [j \in 0 .. m + 1 |-> IF j <= m THEN f[j] ELSE last]
  <2>3. ASSUME NEW j \in 0 .. m + 1
        PROVE  g[j] = IF j = 0 THEN at ELSE Turn(p, g[j - 1], edge)
    <3>1. CASE j = 0
      BY <2>1, <3>1
    <3>2. CASE j # 0 /\ j <= m
      <4>1. j - 1 \in 0 .. m + 1 /\ j - 1 <= m /\ j \in 0 .. m
        BY <3>2
      <4>2. g[j] = f[j] /\ g[j - 1] = f[j - 1]
        BY Zenon, <3>2, <4>1
      <4>3. f[j] = Turn(p, f[j - 1], edge)
        BY Zenon, <2>1, <3>2, <4>1
      <4> QED BY Zenon, <3>2, <4>2, <4>3
    <3>3. CASE ~(j <= m)
      <4>1. j # 0 /\ j - 1 = m /\ m \in 0 .. m + 1 /\ m <= m
        BY <3>3
      <4>2. g[j] = last /\ g[m] = f[m]
        BY Zenon, <3>3, <4>1
      <4> QED BY Zenon, <2>2, <4>1, <4>2
    <3> QED BY Zenon, <3>1, <3>2, <3>3
  <2>4. Turns(p, at, edge, m + 1, g)
    BY Zenon, <2>3
  <2>5. m + 1 \in 0 .. n
    OBVIOUS
  <2> QED BY Zenon, <2>4, <2>5
<1>3. n \in T
  <2> HIDE DEF T
  <2>1. \A j \in 0 .. n : j \in T
    BY Zenon, <1>1, <1>2, Counting
  <2> QED BY <2>1
<1> QED BY Zenon, <1>3

\* A walk through p ends at the place it is meant to reach, with nothing left.
LEMMA WalkIs ==
  ASSUME NEW p \in Records, Chained(p), NEW edge \in Edges, NEW to \in Nat, NEW at,
         Toward(p, at, edge, to), to <= p.len, edge = "start" => to < p.len
  PROVE  /\ Toward(p, Walk(p, at, edge), edge, to) /\ Walk(p, at, edge).left = 0
         /\ at.left = 0 \/ edge = "start" \/ Walk(p, at, edge).offset > 0
<1>1. PICK n \in Nat : n = segment_count(p)
  BY Zenon, CountIs
<1>2. PICK f : Turns(p, at, edge, n, f) /\ Walk(p, at, edge) = f[n]
  <2>1. \E f : Turns(p, at, edge, n, f)
    BY Zenon, TurnsExist
  <2> QED BY Zenon, <1>1, <2>1 DEF Walk, Turns
<1> DEFINE On(j) == /\ Toward(p, f[j], edge, to)
                    /\ f[j].left > 0 => f[j].segment >= j /\ at.left > 0
                    /\ f[j].left = 0 => at.left = 0 \/ edge = "start" \/ f[j].offset > 0
           T == {j \in 0 .. n : On(j)}
<1>3. 0 \in T
  <2>1. f[0] = at /\ 0 \in 0 .. n
    BY <1>2 DEF Turns
  <2>2. at.segment \in Nat /\ at.segment >= 0
    BY DEF Toward, Places
  <2> QED BY Zenon, <2>1, <2>2
<1>4. ASSUME NEW j \in 0 .. n - 1, j \in T PROVE j + 1 \in T
  <2>1. j \in 0 .. n /\ j + 1 \in 0 .. n /\ j + 1 # 0 /\ (j + 1) - 1 = j
    OBVIOUS
  <2>2. f[j + 1] = Turn(p, f[j], edge)
    BY Zenon, <1>2, <2>1 DEF Turns
  <2>3. On(j)
    BY Zenon, <1>4
  <2>4. /\ Toward(p, f[j + 1], edge, to)
        /\ f[j + 1].left > 0 => f[j].left > 0 /\ f[j + 1].segment = f[j].segment + 1
        /\ f[j + 1].left = 0 => f[j].left = 0 \/ edge = "start" \/ f[j + 1].offset > 0
    <3>1. PICK now, next : now = f[j] /\ next = f[j + 1]
      BY Zenon
    <3>2. Toward(p, now, edge, to) /\ next = Turn(p, now, edge)
      BY Zenon, <2>2, <2>3, <3>1
    <3>3. /\ Toward(p, next, edge, to)
          /\ next.left > 0 => now.left > 0 /\ next.segment = now.segment + 1
          /\ next.left = 0 => now.left = 0 \/ edge = "start" \/ next.offset > 0
      BY Zenon, <3>2, TurnIs
    <3> QED BY Zenon, <3>1, <3>3
  <2>5. f[j].segment \in Nat /\ f[j].left \in Nat
    BY Zenon, <2>3 DEF Toward, Places
  <2>6. f[j].segment >= j => f[j].segment + 1 >= j + 1
    BY <2>1, <2>5
  <2>7. f[j + 1].left > 0 => f[j + 1].segment >= j + 1 /\ at.left > 0
    BY Zenon, <2>3, <2>4, <2>6
  <2>8. ASSUME f[j + 1].left = 0 PROVE at.left = 0 \/ edge = "start" \/ f[j + 1].offset > 0
    <3>1. CASE f[j].left = 0 /\ edge = "end"
      <4>1. f[j + 1] = f[j]
        BY Zenon, <2>2, <3>1 DEF Turn
      <4> QED BY Zenon, <2>3, <3>1, <4>1
    <3> QED BY Zenon, <2>4, <2>8, <3>1 DEF Edges
  <2>9. On(j + 1)
    BY Zenon, <2>4, <2>7, <2>8
  <2> QED BY Zenon, <2>1, <2>9
<1>5. On(n)
  <2>1. n \in T
    <3> HIDE DEF T
    <3>1. \A j \in 0 .. n : j \in T
      BY Zenon, <1>3, <1>4, Counting
    <3> QED BY <3>1
  <2> QED BY Zenon, <2>1
<1>6. f[n].left = 0
  <2>1. f[n].left \in Nat /\ f[n].segment \in Nat /\ f[n].segment < n
    BY Zenon, <1>1, <1>5 DEF Toward, Places
  <2>2. ~(f[n].segment >= n)
    BY <2>1
  <2>3. ~(f[n].left > 0)
    BY Zenon, <1>5, <2>2
  <2> QED BY <2>1, <2>3
<1> QED BY Zenon, <1>2, <1>5, <1>6

-----------------------------------------------------------------------------
(* Views.                                                                  *)

Views == [source : Records, first : Nat, offset : Nat, last : Nat, last_end : Nat, len : Nat]

\* The view v is over the bytes of p after the first from and up to the to-th.
Covers(v, p, from, to) ==
  /\ v \in Views /\ v.source = p
  /\ from \in Nat /\ to \in Nat /\ from <= to /\ to <= p.len /\ v.len = to - from
  /\ from < to =>
       /\ v.first < segment_count(p) /\ v.last < segment_count(p)
       /\ v.offset < Len(segment(p, v.first))
       /\ 0 < v.last_end /\ v.last_end <= Len(segment(p, v.last))
       /\ Before(p, v.first) + v.offset = from
       /\ Before(p, v.last) + v.last_end = to

\* Every segment of a payload is a link of its chain.
LEMMA LinkIs ==
  ASSUME NEW p \in Records, Chained(p), NEW i \in Nat, i < segment_count(p)
  PROVE  /\ segment(p, i) \in Segments /\ Len(segment(p, i)) \in Nat
         /\ 0 < Len(segment(p, i)) /\ Len(segment(p, i)) <= MaxPush
         /\ \A j \in 1 .. Len(segment(p, i)) : segment(p, i)[j] = Before(p, i) + j
         /\ Before(p, i) \in Nat /\ i <= Before(p, i)
         /\ i = 0 => Before(p, i) = 0
         /\ i + 1 < segment_count(p) => Before(p, i + 1) = Before(p, i) + Len(segment(p, i))
         /\ i + 1 = segment_count(p) => p.len = Before(p, i) + Len(segment(p, i))
<1>1. segment_count(p) \in Nat
  BY Zenon, CountIs
<1>2. i \in 0 .. segment_count(p) - 1
  BY <1>1
<1>3. Link(p, i)
  BY Zenon, <1>2 DEF Chained
<1>4. Len(segment(p, i)) \in 1 .. MaxPush /\ MaxPush \in Nat
  BY <1>3, PayloadAssumption DEF Link
<1>5. /\ Len(segment(p, i)) \in Nat
      /\ 0 < Len(segment(p, i)) /\ Len(segment(p, i)) <= MaxPush
  BY <1>4
<1> QED BY Zenon, <1>3, <1>5 DEF Link

\* PayloadView::new is a view over the whole payload.
LEMMA ViewIs ==
  ASSUME NEW p \in Records, Chained(p)
  PROVE  Covers(view(p), p, 0, p.len)
<1>1. PICK n \in Nat : n = segment_count(p)
  BY Zenon, CountIs
<1>2. p.len \in Nat
  BY PayloadAssumption DEF Records
<1>3. PICK last : last = IF n = 0 THEN 0 ELSE n - 1
  BY Zenon
<1>4. last \in Nat
  BY <1>3
<1>5. PICK end : end = IF p.len = 0 THEN 0 ELSE Len(segment(p, last))
  BY Zenon
<1>6. view(p) = [source |-> p, first |-> 0, offset |-> 0, last |-> last,
                 last_end |-> end, len |-> p.len]
  BY Zenon, <1>1, <1>3, <1>5 DEF view
<1>7. CASE p.len = 0
  <2>1. end = 0 /\ ~(0 < p.len) /\ 0 \in Nat /\ 0 <= p.len /\ p.len = p.len - 0 /\ p.len <= p.len
    BY <1>5, <1>7
  <2>2. PICK v : v = view(p)
    BY Zenon
  <2>3. v \in Views /\ v.source = p /\ v.len = p.len
    BY <1>2, <1>4, <1>6, <2>1, <2>2 DEF Views
  <2> QED BY Zenon, <1>2, <2>1, <2>2, <2>3 DEF Covers
<1>8. CASE p.len # 0
  <2>1. p.first # Empty
    BY Zenon, <1>8 DEF Chained
  <2>2. n >= 1
    BY <1>1, <2>1 DEF segment_count, Records
  <2>3. last = n - 1 /\ last < n /\ last + 1 = n /\ 0 < n
    BY <1>3, <2>2
  <2>4. end = Len(segment(p, last))
    BY Zenon, <1>5, <1>8
  <2>5. /\ end \in Nat /\ 0 < end /\ end <= end
        /\ p.len = Before(p, last) + Len(segment(p, last))
    <3>1. Len(segment(p, last)) \in Nat /\ 0 < Len(segment(p, last))
      BY Zenon, <1>1, <1>4, <2>3, LinkIs
    <3>2. p.len = Before(p, last) + Len(segment(p, last))
      BY Zenon, <1>1, <1>4, <2>3, LinkIs
    <3> QED BY <2>4, <3>1, <3>2
  <2>6. 0 \in Nat /\ 0 < Len(segment(p, 0)) /\ Before(p, 0) + 0 = 0
    <3>1. 0 < Len(segment(p, 0)) /\ Before(p, 0) = 0 /\ 0 \in Nat
      BY Zenon, <1>1, <2>3, LinkIs
    <3> QED BY <3>1
  <2>7. 0 <= p.len /\ p.len = p.len - 0 /\ p.len <= p.len
    BY <1>2
  <2>8. PICK v : v = view(p)
    BY Zenon
  <2>9. /\ v \in Views /\ v.source = p /\ v.len = p.len /\ v.first = 0 /\ v.offset = 0
        /\ v.last = last /\ v.last_end = end
    BY <1>2, <1>4, <1>6, <2>5, <2>8 DEF Views
  <2> QED BY Zenon, <1>1, <1>2, <2>3, <2>4, <2>5, <2>6, <2>7, <2>8, <2>9 DEF Covers
<1> QED BY Zenon, <1>7, <1>8

\* slice of a view over a range is a view over that part of the range.
LEMMA SliceIs ==
  ASSUME NEW p \in Records, Chained(p), NEW v, NEW from, NEW to, Covers(v, p, from, to),
         NEW x \in Nat, NEW y \in Nat, x <= y, y <= to - from
  PROVE  Covers(slice(v, x, y), p, from + x, from + y)
<1>1. /\ v \in Views /\ v.source = p /\ v.len = to - from
      /\ from \in Nat /\ to \in Nat /\ from <= to /\ to <= p.len
  BY Zenon DEF Covers
<1>2. p.len \in Nat
  BY PayloadAssumption DEF Records
<1>3. PICK f, t, k : f = from + x /\ t = from + y /\ k = y - x
  BY Zenon
<1>4. /\ f \in Nat /\ t \in Nat /\ f <= t /\ t <= to /\ t <= p.len /\ f <= p.len
      /\ k = t - f /\ k \in Nat
  BY <1>1, <1>2, <1>3
<1>5. PICK w : w = slice(v, x, y)
  BY Zenon
<1>6. CASE x = y
  <2>1. w = [v EXCEPT !.len = 0] /\ 0 \in Nat
    BY Zenon, <1>5, <1>6 DEF slice
  <2>2. w \in Views /\ w.source = p /\ w.len = 0
    BY Zenon, <1>1, <2>1 DEF Views
  <2>3. 0 = t - f /\ ~(f < t)
    BY <1>1, <1>3, <1>6
  <2> QED BY Zenon, <1>3, <1>4, <1>5, <2>2, <2>3 DEF Covers
<1>7. CASE x # y
  <2>1. from < to /\ f < t /\ f < p.len /\ k > 0 /\ k # 0
    BY <1>1, <1>2, <1>3, <1>4, <1>7
  <2>2. /\ v.first \in Nat /\ v.offset \in Nat
        /\ v.first < segment_count(p)
        /\ v.offset < Len(segment(p, v.first)) /\ Before(p, v.first) + v.offset = from
    BY Zenon, <1>1, <2>1 DEF Covers, Views
  <2>3. PICK at : at = [Place(v) EXCEPT !.left = x]
    BY Zenon
  <2>4. at \in Places /\ at.segment = v.first /\ at.offset = v.offset /\ at.left = x
    BY Zenon, <2>2, <2>3 DEF Places, Place
  <2>5. Toward(p, at, "start", f)
    <3>1. PICK o, len, before : /\ o = v.offset /\ len = Len(segment(p, v.first))
                                /\ before = Before(p, v.first)
      BY Zenon
    <3>2. len \in Nat /\ before \in Nat
      BY Zenon, <2>2, <3>1, LinkIs
    <3>3. o \in Nat /\ o < len /\ before + o = from
      BY Zenon, <2>2, <3>1
    <3>4. o <= len /\ o < len /\ before + o + x = f
      BY <1>3, <3>2, <3>3
    <3> QED BY Zenon, <2>2, <2>4, <3>1, <3>4 DEF Toward
  <2>6. PICK start : start = Walk(p, at, "start")
    BY Zenon
  <2>7. "start" \in Edges /\ "end" \in Edges /\ "end" # "start"
    BY Zenon DEF Edges
  <2>8. Toward(p, start, "start", f) /\ start.left = 0
    BY Zenon, <1>4, <2>1, <2>5, <2>6, <2>7, WalkIs
  <2>9. PICK s, o : s = start.segment /\ o = start.offset
    BY Zenon
  <2>10. /\ start \in Places /\ s \in Nat /\ o \in Nat
         /\ s < segment_count(p) /\ o < Len(segment(p, s)) /\ Before(p, s) + o + 0 = f
    BY Zenon, <2>8, <2>9 DEF Toward, Places
  <2>11. PICK len, before : len = Len(segment(p, s)) /\ before = Before(p, s)
    BY Zenon
  <2>12. len \in Nat /\ before \in Nat
    BY Zenon, <2>10, <2>11, LinkIs
  <2>13. o < len /\ o <= len /\ before + o = f /\ before + o + k = t
    BY <1>4, <2>10, <2>11, <2>12
  <2>14. PICK on : on = [start EXCEPT !.left = k]
    BY Zenon
  <2>15. on \in Places /\ on.segment = s /\ on.offset = o /\ on.left = k
    BY Zenon, <1>4, <2>9, <2>10, <2>14 DEF Places
  <2>16. Toward(p, on, "end", t)
    BY Zenon, <2>10, <2>11, <2>13, <2>15 DEF Toward
  <2>17. PICK end : end = Walk(p, on, "end")
    BY Zenon
  <2>18. Toward(p, end, "end", t) /\ end.left = 0 /\ end.offset > 0
    BY Zenon, <1>4, <2>1, <2>7, <2>15, <2>16, <2>17, WalkIs
  <2>19. PICK e, g : e = end.segment /\ g = end.offset
    BY Zenon
  <2>20. /\ e \in Nat /\ g \in Nat /\ 0 < g
         /\ e < segment_count(p) /\ g <= Len(segment(p, e)) /\ Before(p, e) + g = t
    <3>1. /\ e \in Nat /\ g \in Nat /\ g > 0
          /\ e < segment_count(p) /\ g <= Len(segment(p, e)) /\ Before(p, e) + g + 0 = t
      BY Zenon, <2>18, <2>19 DEF Toward, Places
    <3>2. Before(p, e) \in Nat
      BY Zenon, <3>1, LinkIs
    <3> QED BY <3>1, <3>2
  <2>21. PICK out : out = [v EXCEPT !.first = s, !.offset = o, !.len = k]
    BY Zenon
  <2>22. /\ out \in Views /\ out.source = p /\ out.first = s /\ out.offset = o /\ out.len = k
         /\ out.last = v.last /\ out.last_end = v.last_end
    BY Zenon, <1>1, <1>4, <2>10, <2>21 DEF Views
  <2>23. w = IF y = v.len THEN out ELSE [out EXCEPT !.last = e, !.last_end = g]
    BY Zenon, <1>1, <1>3, <1>5, <1>7, <2>3, <2>6, <2>9, <2>14, <2>17, <2>19, <2>21 DEF slice
  <2>24. CASE y = v.len
    <3>1. t = to
      BY <1>1, <1>3, <2>24
    <3>2. /\ v.last < segment_count(p) /\ 0 < v.last_end
          /\ v.last_end <= Len(segment(p, v.last)) /\ Before(p, v.last) + v.last_end = to
      BY Zenon, <2>1 DEF Covers
    <3>3. w = out
      BY Zenon, <2>23, <2>24
    <3> QED BY Zenon, <1>3, <1>4, <1>5, <2>10, <2>11, <2>13, <2>22, <3>1, <3>2, <3>3 DEF Covers
  <2>25. CASE y # v.len
    <3>1. w = [out EXCEPT !.last = e, !.last_end = g]
      BY Zenon, <2>23, <2>25
    <3>2. /\ w \in Views /\ w.source = p /\ w.first = s /\ w.offset = o /\ w.len = k
          /\ w.last = e /\ w.last_end = g
      BY Zenon, <2>20, <2>22, <3>1 DEF Views
    <3> QED BY Zenon, <1>3, <1>4, <1>5, <2>10, <2>11, <2>13, <2>20, <3>2 DEF Covers
  <2> QED BY Zenon, <2>24, <2>25
<1> QED BY Zenon, <1>6, <1>7

\* The segments follow one another.
LEMMA InOrder ==
  ASSUME NEW p \in Records, Chained(p), NEW i \in Nat, NEW k \in Nat,
         i < k, k < segment_count(p)
  PROVE  Before(p, i) + Len(segment(p, i)) <= Before(p, k)
<1>1. PICK n \in Nat : n = segment_count(p)
  BY Zenon, CountIs
<1>2. PICK m : m = n - i - 2
  BY Zenon
<1>3. m \in Nat /\ i < n /\ i + 1 < n
  BY <1>1, <1>2
<1>4. PICK a : a = Before(p, i) + Len(segment(p, i))
  BY Zenon
<1>5. a \in Nat /\ Before(p, i + 1) = a
  <2>1. Before(p, i) \in Nat /\ Len(segment(p, i)) \in Nat
    BY Zenon, <1>1, <1>3, LinkIs
  <2>2. Before(p, i + 1) = a
    BY Zenon, <1>1, <1>3, <1>4, LinkIs
  <2> QED BY <1>4, <2>1, <2>2
<1> DEFINE T == {j \in 0 .. m : a <= Before(p, i + 1 + j)}
<1>6. 0 \in T
  <2>1. i + 1 + 0 = i + 1 /\ 0 \in 0 .. m
    BY <1>3
  <2>2. a <= a
    BY <1>5
  <2> QED BY Zenon, <1>5, <2>1, <2>2
<1>7. ASSUME NEW j \in 0 .. m - 1, j \in T PROVE j + 1 \in T
  <2>1. PICK h : h = i + 1 + j
    BY Zenon
  <2>2. h \in Nat /\ h < n /\ h + 1 < n /\ i + 1 + (j + 1) = h + 1 /\ j + 1 \in 0 .. m
    BY <1>2, <1>3, <2>1
  <2>3. Before(p, h) \in Nat /\ Len(segment(p, h)) \in Nat
    BY Zenon, <1>1, <2>2, LinkIs
  <2>4. Before(p, h + 1) = Before(p, h) + Len(segment(p, h))
    BY Zenon, <1>1, <2>2, LinkIs
  <2>5. a <= Before(p, h)
    BY Zenon, <1>7, <2>1
  <2>6. a <= Before(p, h + 1)
    BY <1>5, <2>3, <2>4, <2>5
  <2> QED BY Zenon, <2>2, <2>6
<1>8. \A j \in 0 .. m : j \in T
  <2> HIDE DEF T
  <2> QED BY Zenon, <1>3, <1>6, <1>7, Counting
<1>9. k - (i + 1) \in 0 .. m /\ i + 1 + (k - (i + 1)) = k
  BY <1>1, <1>2
<1>10. k - (i + 1) \in T
  <2> HIDE DEF T
  <2> QED BY Zenon, <1>8, <1>9
<1> QED BY Zenon, <1>4, <1>9, <1>10

\* A view over some bytes begins in a segment no later than the one it ends in.
LEMMA ViewRuns ==
  ASSUME NEW p \in Records, Chained(p), NEW v, NEW from, NEW to, Covers(v, p, from, to),
         from < to
  PROVE  /\ v.first \in Nat /\ v.last \in Nat /\ v.offset \in Nat /\ v.last_end \in Nat
         /\ v.first <= v.last /\ view_segment_count(v) = v.last - v.first + 1
         /\ v.first = v.last => v.offset < v.last_end
<1>1. PICK f, l, o, e : f = v.first /\ l = v.last /\ o = v.offset /\ e = v.last_end
  BY Zenon
<1>2. /\ f \in Nat /\ l \in Nat /\ o \in Nat /\ e \in Nat
      /\ from \in Nat /\ to \in Nat /\ v.len = to - from
  BY Zenon, <1>1 DEF Covers, Views
<1>3. /\ f < segment_count(p) /\ l < segment_count(p)
      /\ e <= Len(segment(p, l)) /\ Before(p, f) + o = from /\ Before(p, l) + e = to
  BY Zenon, <1>1 DEF Covers
<1>4. Before(p, f) \in Nat /\ Before(p, l) \in Nat /\ Len(segment(p, l)) \in Nat
  BY Zenon, <1>2, <1>3, LinkIs
<1>5. f <= l
  <2>1. SUFFICES ASSUME l < f PROVE FALSE
    BY <1>2
  <2>2. Before(p, l) + Len(segment(p, l)) <= Before(p, f)
    BY Zenon, <1>2, <1>3, <2>1, InOrder
  <2> QED BY <1>2, <1>3, <1>4, <2>2
<1>6. f = l => o < e
  BY <1>2, <1>3, <1>4
<1>7. v.len # 0
  BY <1>2
<1> QED BY Zenon, <1>1, <1>2, <1>5, <1>6, <1>7 DEF view_segment_count

\* The number of bytes of the payload before segment i of a view over it.
Ahead(v, p, i) == Before(p, v.first + i) + (IF i = 0 THEN v.offset ELSE 0)

\* Segment i of a view over a range has the next bytes of the range.
Piece(v, p, from, to, i) ==
  /\ view_segment(v, i) \in Seq(Nat) /\ Ahead(v, p, i) \in Nat
  /\ 0 < Len(view_segment(v, i)) /\ Len(view_segment(v, i)) <= MaxPush
  /\ \A j \in 1 .. Len(view_segment(v, i)) : view_segment(v, i)[j] = Ahead(v, p, i) + j
  /\ i = 0 => Ahead(v, p, i) = from
  /\ i < MaxLen
  /\ i + 1 < view_segment_count(v) =>
       Ahead(v, p, i + 1) = Ahead(v, p, i) + Len(view_segment(v, i))
  /\ i + 1 = view_segment_count(v) => to = Ahead(v, p, i) + Len(view_segment(v, i))
  /\ Ahead(v, p, i) + Len(view_segment(v, i)) <= to

\* The segments of a view over a range hold the bytes of the range, in order.
LEMMA PieceIs ==
  ASSUME NEW p \in Records, Chained(p), NEW v, NEW from, NEW to, Covers(v, p, from, to),
         from < to, NEW i \in Nat, i < view_segment_count(v)
  PROVE  Piece(v, p, from, to, i)
<1>1. PICK f, l, o, e : f = v.first /\ l = v.last /\ o = v.offset /\ e = v.last_end
  BY Zenon
<1>2. PICK c : c = view_segment_count(v)
  BY Zenon
<1>3. /\ f \in Nat /\ l \in Nat /\ o \in Nat /\ e \in Nat
      /\ f <= l /\ c = l - f + 1 /\ (f = l => o < e)
  BY Zenon, <1>1, <1>2, ViewRuns
<1>4. /\ v.source = p /\ to \in Nat /\ from \in Nat /\ to <= p.len
      /\ f < segment_count(p) /\ l < segment_count(p)
      /\ o < Len(segment(p, f)) /\ 0 < e /\ e <= Len(segment(p, l))
      /\ Before(p, f) + o = from /\ Before(p, l) + e = to
  BY Zenon, <1>1 DEF Covers
<1>5. PICK n \in Nat : n = segment_count(p)
  BY Zenon, CountIs
<1>6. PICK k : k = f + i
  BY Zenon
<1>7. k \in Nat /\ k < n /\ k <= l /\ (i = 0 <=> k = f) /\ (i + 1 = c <=> k = l) /\ c \in Nat
  BY <1>2, <1>3, <1>4, <1>5, <1>6
<1>8. PICK s : s = segment(p, k)
  BY Zenon
<1>9. PICK len, before : len = Len(s) /\ before = Before(p, k)
  BY Zenon
<1>10. /\ s \in Segments /\ len \in Nat /\ 0 < len /\ len <= MaxPush
       /\ \A j \in 1 .. len : s[j] = before + j
       /\ before \in Nat /\ k <= before
       /\ k + 1 < n => Before(p, k + 1) = before + len
  BY Zenon, <1>5, <1>7, <1>8, <1>9, LinkIs
<1>11. PICK lo, hi : lo = (IF i = 0 THEN o ELSE 0) /\ hi = (IF k = l THEN e ELSE len)
  BY Zenon
<1>12. k = f => o < len
  BY Zenon, <1>4, <1>8, <1>9
<1>13. k = l => e <= len
  BY Zenon, <1>4, <1>8, <1>9
<1>14. lo \in Nat /\ hi \in Nat /\ lo < hi /\ hi <= len
  BY SMTT(30), <1>3, <1>4, <1>7, <1>10, <1>11, <1>12, <1>13
<1>15. PICK w : w = view_segment(v, i)
  BY Zenon
<1>16. w = SubSeq(s, lo + 1, hi)
  BY Zenon, <1>1, <1>4, <1>6, <1>8, <1>9, <1>11, <1>15 DEF view_segment
<1>17. /\ w \in Seq(Nat) /\ Len(w) = hi - lo
       /\ \A j \in 1 .. Len(w) : w[j] = before + lo + j
  <2>1. lo + 1 \in Int /\ hi \in Int /\ lo + 1 <= hi /\ hi - (lo + 1) + 1 = hi - lo
    BY <1>14
  <2>2. ASSUME NEW j \in lo + 1 .. hi PROVE s[j] \in Nat
    <3>1. j \in 1 .. len /\ before + j \in Nat
      BY <1>10, <1>14
    <3> QED BY Zenon, <1>10, <3>1
  <2>3. /\ w \in Seq(Nat) /\ Len(w) = hi - lo
        /\ \A j \in 1 .. hi - lo : w[j] = s[lo + 1 + j - 1]
    BY <1>16, <2>1, <2>2, SubSeqProperties
  <2>4. ASSUME NEW j \in 1 .. Len(w) PROVE w[j] = before + lo + j
    <3>1. w[j] = s[lo + 1 + j - 1]
      BY Zenon, <2>3
    <3>2. lo + 1 + j - 1 \in 1 .. len /\ before + (lo + 1 + j - 1) = before + lo + j
      BY <1>10, <1>14, <2>3
    <3> QED BY Zenon, <1>10, <3>1, <3>2
  <2> QED BY Zenon, <2>3, <2>4
<1>18. PICK a : a = before + lo
  BY Zenon
<1>19. a = Ahead(v, p, i)
  BY Zenon, <1>1, <1>6, <1>9, <1>11, <1>18 DEF Ahead
<1>20. a \in Nat /\ 0 < Len(w) /\ Len(w) <= MaxPush
  BY <1>10, <1>14, <1>17, <1>18, PayloadAssumption
<1>21. i = 0 => a = from
  BY Zenon, <1>4, <1>7, <1>9, <1>11, <1>18
<1>22. i + 1 < c => Ahead(v, p, i + 1) = a + Len(w)
  <2>1. SUFFICES ASSUME i + 1 < c PROVE Ahead(v, p, i + 1) = a + Len(w)
    BY Zenon
  <2>2. k # l /\ k + 1 < n /\ f + (i + 1) = k + 1 /\ i + 1 # 0
    BY <1>3, <1>4, <1>5, <1>6, <1>7, <2>1
  <2>3. hi = len /\ Before(p, k + 1) = before + len
    BY Zenon, <1>10, <1>11, <2>2
  <2>4. Ahead(v, p, i + 1) = Before(p, k + 1) + 0
    BY Zenon, <1>1, <2>2 DEF Ahead
  <2> QED BY <1>10, <1>14, <1>17, <1>18, <2>3, <2>4
<1>23. i + 1 = c => to = a + Len(w)
  <2>1. SUFFICES ASSUME i + 1 = c PROVE to = a + Len(w)
    BY Zenon
  <2>2. hi = e /\ before + e = to
    BY Zenon, <1>4, <1>7, <1>9, <1>11, <2>1
  <2> QED BY <1>3, <1>10, <1>14, <1>17, <1>18, <2>2
<1>24. before < to /\ a + Len(w) <= to
  <2>1. PICK far : far = Before(p, l)
    BY Zenon
  <2>2. /\ before \in Nat /\ len \in Nat /\ 0 < len /\ e \in Nat /\ 0 < e
        /\ to \in Nat /\ far + e = to
    BY Zenon, <1>3, <1>4, <1>10, <2>1
  <2>3. CASE k = l
    <3>1. before + e = to
      BY Zenon, <1>4, <1>9, <2>3
    <3>2. to = a + Len(w)
      BY Zenon, <1>7, <1>23, <2>3
    <3> QED BY <2>2, <3>1, <3>2
  <2>4. CASE k # l
    <3>1. k < l /\ l < n
      BY <1>3, <1>4, <1>5, <1>7, <2>4
    <3>2. before + len <= far
      BY Zenon, <1>3, <1>5, <1>7, <1>8, <1>9, <2>1, <3>1, InOrder
    <3>3. far \in Nat
      BY Zenon, <1>3, <1>4, <2>1, LinkIs
    <3>4. hi = len
      BY Zenon, <1>11, <2>4
    <3>5. a + Len(w) = before + len
      BY <1>14, <1>17, <1>18, <2>2, <3>4
    <3> QED BY <2>2, <3>2, <3>3, <3>5
  <2> QED BY Zenon, <2>3, <2>4
<1>25. i < MaxLen
  <2>1. p.len \in 0 .. MaxLen /\ MaxLen \in Nat /\ to <= p.len /\ to \in Nat
    BY Zenon, <1>4, PayloadAssumption DEF Records
  <2> QED BY <1>3, <1>6, <1>10, <1>24, <2>1
<1> QED BY Zenon, <1>2, <1>15, <1>17, <1>18, <1>19, <1>20, <1>21, <1>22, <1>23, <1>24, <1>25
        DEF Piece

-----------------------------------------------------------------------------
(* Readers.                                                                *)

Readers == [of : Payloads, from : Nat, to : Nat, over : Views, segment : 0 .. MaxLen,
            offset : 0 .. MaxPush, remaining : Nat, got : Seq(Nat)]

\* The bytes s follow the first from ones.
Run(s, from) == s = [i \in 1 .. Len(s) |-> from + i]

\* The reader r of p has got the first bytes of its range, and stands at the next.
Reads(r, p) ==
  /\ r \in Readers /\ Covers(r.over, p, r.from, r.to)
  /\ Run(r.got, r.from)
  /\ r.remaining = r.to - r.from - Len(r.got)
  /\ r.remaining > 0 =>
       /\ r.segment < view_segment_count(r.over)
       /\ r.offset < Len(view_segment(r.over, r.segment))
       /\ Ahead(r.over, p, r.segment) + r.offset = r.from + Len(r.got)

\* A run of consecutive bytes with the bytes after it is a run of them.
LEMMA RunsJoin ==
  ASSUME NEW from \in Nat, NEW s \in Seq(Nat), NEW t \in Seq(Nat),
         Run(s, from),
         \A j \in 1 .. Len(t) : t[j] = from + Len(s) + j
  PROVE  /\ s \o t \in Seq(Nat) /\ Len(s \o t) = Len(s) + Len(t)
         /\ Run(s \o t, from)
<1>1. /\ s \o t \in Seq(Nat) /\ Len(s \o t) = Len(s) + Len(t)
      /\ \A i \in 1 .. Len(s) + Len(t) : (s \o t)[i] =
           IF i <= Len(s) THEN s[i] ELSE t[i - Len(s)]
  BY Zenon, ConcatProperties
<1>2. PICK u : u = s \o t
  BY Zenon
<1>3. Len(s) \in Nat /\ Len(t) \in Nat
  BY Zenon, LenProperties
<1>4. u \in Seq(Nat) /\ Len(u) = Len(s) + Len(t) /\ DOMAIN u = 1 .. Len(u)
      /\ u \in [1 .. Len(u) -> Nat]
  BY Zenon, <1>1, <1>2, LenProperties
<1>5. ASSUME NEW i \in 1 .. Len(u) PROVE u[i] = from + i
  <2>1. i \in 1 .. Len(s) + Len(t)
    BY Zenon, <1>4
  <2>2. CASE i <= Len(s)
    <3>1. i \in 1 .. Len(s) /\ u[i] = s[i]
      BY <1>1, <1>2, <1>3, <2>1, <2>2
    <3> QED BY Zenon, <3>1 DEF Run
  <2>3. CASE ~(i <= Len(s))
    <3>1. u[i] = t[i - Len(s)]
      BY Zenon, <1>1, <1>2, <2>1, <2>3
    <3>2. i - Len(s) \in 1 .. Len(t) /\ from + Len(s) + (i - Len(s)) = from + i
      BY <1>3, <2>1, <2>3
    <3> QED BY Zenon, <3>1, <3>2
  <2> QED BY Zenon, <2>2, <2>3
<1>6. Run(u, from)
  BY Zenon, <1>4, <1>5 DEF Run
<1> QED BY Zenon, <1>1, <1>2, <1>6

\* PayloadReader::read goes on with the range.
LEMMA ReadKeeps ==
  ASSUME NEW p \in Records, Chained(p), NEW r, Reads(r, p), r.remaining > 0,
         NEW room \in Nat, room >= 1
  PROVE  Reads(read(r, room), p) /\ read(r, room).of = r.of
<1>1. PICK v, from, to, i, o, g, c : /\ v = r.over /\ from = r.from /\ to = r.to /\ i = r.segment
                                     /\ o = r.offset /\ g = r.got /\ c = view_segment_count(v)
  BY Zenon
<1>2. /\ r \in Readers /\ from \in Nat /\ to \in Nat /\ i \in 0 .. MaxLen /\ o \in 0 .. MaxPush
      /\ r.remaining \in Nat /\ g \in Seq(Nat)
  BY Zenon, <1>1 DEF Reads, Readers
<1>3. PICK have : have = Len(g)
  BY Zenon
<1>4. PICK w, a : w = view_segment(v, i) /\ a = Ahead(v, p, i)
  BY Zenon
<1>5. PICK len : len = Len(w)
  BY Zenon
<1>6. /\ Covers(v, p, from, to)
      /\ Run(g, from)
      /\ r.remaining = to - from - have
      /\ i < c /\ o < len /\ a + o = from + have
  BY Zenon, <1>1, <1>3, <1>4, <1>5 DEF Reads
<1>7. have \in Nat /\ i \in Nat /\ o \in Nat /\ from < to
  BY <1>2, <1>3, <1>6, PayloadAssumption
<1>8. /\ w \in Seq(Nat) /\ a \in Nat /\ 0 < len /\ len <= MaxPush
      /\ \A j \in 1 .. len : w[j] = a + j
      /\ i < MaxLen
      /\ i + 1 < c => Ahead(v, p, i + 1) = a + len
      /\ i + 1 = c => to = a + len
      /\ a + len <= to
  <2>1. i < view_segment_count(v)
    BY Zenon, <1>1, <1>6
  <2>2. Piece(v, p, from, to, i)
    BY Zenon, <1>6, <1>7, <2>1, PieceIs
  <2> QED BY Zenon, <1>1, <1>4, <1>5, <2>2 DEF Piece
<1>9. PICK n : n = IF room < len - o THEN room ELSE len - o
  BY Zenon
<1>10. len \in Nat /\ n \in Nat /\ n >= 1 /\ o + n <= len
  BY SMTT(30), <1>5, <1>6, <1>7, <1>8, <1>9
<1>11. PICK t : t = SubSeq(w, o + 1, o + n)
  BY Zenon
<1>12. /\ t \in Seq(Nat) /\ Len(t) = n
       /\ \A j \in 1 .. Len(t) : t[j] = from + Len(g) + j
  <2>1. o + 1 \in Int /\ o + n \in Int /\ o + 1 <= o + n /\ (o + n) - (o + 1) + 1 = n
    BY <1>7, <1>10
  <2>2. ASSUME NEW j \in o + 1 .. o + n PROVE w[j] \in Nat
    <3>1. j \in 1 .. len /\ a + j \in Nat
      BY <1>7, <1>8, <1>10
    <3> QED BY Zenon, <1>8, <3>1
  <2>3. /\ t \in Seq(Nat) /\ Len(t) = n
        /\ \A j \in 1 .. n : t[j] = w[o + 1 + j - 1]
    BY <1>11, <2>1, <2>2, SubSeqProperties
  <2>4. ASSUME NEW j \in 1 .. Len(t) PROVE t[j] = from + Len(g) + j
    <3>1. t[j] = w[o + 1 + j - 1]
      BY Zenon, <2>3
    <3>2. j \in 1 .. n
      BY Zenon, <2>3
    <3>3. o + 1 + j - 1 \in 1 .. len /\ a + (o + 1 + j - 1) = from + have + j
      BY <1>2, <1>6, <1>7, <1>8, <1>10, <3>2
    <3> QED BY Zenon, <1>3, <1>8, <3>1, <3>3
  <2> QED BY Zenon, <2>3, <2>4
<1>13. PICK h : h = g \o t
  BY Zenon
<1>14. h \in Seq(Nat) /\ Len(h) = have + n /\ Run(h, from)
  BY Zenon, <1>2, <1>3, <1>6, <1>12, <1>13, RunsJoin
<1>15. PICK m : m = r.remaining - n
  BY Zenon
<1>16. m = to - from - (have + n) /\ m \in Nat
  BY <1>2, <1>6, <1>7, <1>8, <1>10, <1>15
<1>17. PICK out : out = [r EXCEPT !.got = h, !.remaining = m]
  BY Zenon
<1>18. /\ out \in Readers /\ out.of = r.of /\ out.over = v /\ out.from = from /\ out.to = to
       /\ out.got = h /\ out.remaining = m /\ out.segment = i /\ out.offset = o
  BY Zenon, <1>1, <1>2, <1>14, <1>16, <1>17 DEF Readers
<1>19. PICK q : q = read(r, room)
  BY Zenon
<1>20. q = IF o + n = len THEN [out EXCEPT !.segment = i + 1, !.offset = 0]
           ELSE [out EXCEPT !.offset = o + n]
  <2>1. q = IF o + n = len THEN [out EXCEPT !.segment = @ + 1, !.offset = 0]
            ELSE [out EXCEPT !.offset = @ + n]
    BY ZenonT(40), <1>1, <1>4, <1>5, <1>9, <1>11, <1>13, <1>15, <1>17, <1>19 DEF read
  <2> QED BY Zenon, <1>18, <2>1
<1>21. CASE o + n = len
  <2>1. i + 1 \in 0 .. MaxLen /\ 0 \in 0 .. MaxPush
    BY <1>7, <1>8, PayloadAssumption
  <2>2. q = [out EXCEPT !.segment = i + 1, !.offset = 0]
    BY Zenon, <1>20, <1>21
  <2>3. /\ q \in Readers /\ q.of = r.of /\ q.over = v /\ q.from = from /\ q.to = to
        /\ q.got = h /\ q.remaining = m /\ q.segment = i + 1 /\ q.offset = 0
    BY Zenon, <1>18, <2>1, <2>2 DEF Readers
  <2>4. ASSUME m > 0
        PROVE  i + 1 < c /\ 0 < Len(view_segment(v, i + 1))
               /\ Ahead(v, p, i + 1) + 0 = from + (have + n)
    <3>1. c \in Nat /\ i + 1 \in Nat
      <4>1. v.first \in Nat /\ v.last \in Nat /\ v.first <= v.last /\ c = v.last - v.first + 1
        BY Zenon, <1>1, <1>6, <1>7, ViewRuns
      <4> QED BY <1>7, <4>1
    <3>2. i + 1 # c
      BY <1>2, <1>6, <1>7, <1>8, <1>10, <1>16, <1>21, <2>4
    <3>3. i + 1 < c
      BY <1>6, <1>7, <3>1, <3>2
    <3>4. 0 < Len(view_segment(v, i + 1))
      <4>1. Piece(v, p, from, to, i + 1)
        BY Zenon, <1>1, <1>6, <1>7, <3>1, <3>3, PieceIs
      <4> QED BY Zenon, <4>1 DEF Piece
    <3>5. Ahead(v, p, i + 1) + 0 = from + (have + n)
      <4>1. Ahead(v, p, i + 1) = a + len
        BY Zenon, <1>8, <3>3
      <4>2. a \in Nat /\ from \in Nat /\ a + o = from + have
        BY Zenon, <1>2, <1>6, <1>8
      <4> QED BY <1>7, <1>10, <1>21, <4>1, <4>2
    <3> QED BY Zenon, <3>3, <3>4, <3>5
  <2> QED BY Zenon, <1>1, <1>6, <1>14, <1>16, <1>19, <2>3, <2>4 DEF Reads
<1>22. CASE o + n # len
  <2>1. o + n \in 0 .. MaxPush /\ o + n < len /\ a + (o + n) = from + (have + n)
    BY <1>2, <1>6, <1>7, <1>8, <1>10, <1>22, PayloadAssumption
  <2>2. q = [out EXCEPT !.offset = o + n]
    BY Zenon, <1>20, <1>22
  <2>3. /\ q \in Readers /\ q.of = r.of /\ q.over = v /\ q.from = from /\ q.to = to
        /\ q.got = h /\ q.remaining = m /\ q.segment = i /\ q.offset = o + n
    BY Zenon, <1>18, <2>1, <2>2 DEF Readers
  <2> QED BY Zenon, <1>1, <1>4, <1>5, <1>6, <1>14, <1>16, <1>19, <2>1, <2>3 DEF Reads
<1> QED BY Zenon, <1>21, <1>22

-----------------------------------------------------------------------------
(* Payloads.                                                               *)

\* A payload that is in use, and what is left of one while it is dropped.
Lives == {x \in Records : Chained(x) /\ Len(x.rest) <= x.capacity} \cup {Absent}
Drops == {x \in Records : x.rest = Empty /\ x.capacity # 0} \cup {Absent}

\* A payload has storage of some size, if none.
LEMMA NotAbsent ==
  ASSUME NEW x \in Records
  PROVE  x # Absent /\ x.len \in Nat /\ x.len <= MaxLen /\ x.capacity \in Nat
BY PayloadAssumption DEF Records, Absent

\* The next k bytes after the first b are a segment.
LEMMA NextBytes ==
  ASSUME NEW k \in Nat, NEW b \in Nat, k <= MaxPush, b + k <= MaxLen
  PROVE  LET s == [i \in 1 .. k |-> b + i]
         IN  /\ s \in Segments /\ Len(s) = k /\ (k = 0 <=> s = Empty)
             /\ \A j \in 1 .. k : s[j] = b + j
<1>1. PICK s : s = [i \in 1 .. k |-> b + i]
  BY Zenon
<1>2. ASSUME NEW i \in 1 .. k PROVE b + i \in 1 .. MaxLen
  BY PayloadAssumption
<1>3. s \in [1 .. k -> 1 .. MaxLen]
  BY Zenon, <1>1, <1>2
<1>4. s \in Segments /\ Len(s) = k
  <2>1. s \in Seq(1 .. MaxLen)
    BY Zenon, <1>3, SeqDef
  <2>2. Len(s) \in Nat /\ 1 .. Len(s) = 1 .. k
    BY Zenon, <1>3, <2>1, LenProperties
  <2> QED BY <2>1, <2>2 DEF Segments
<1>5. k = 0 <=> s = Empty
  BY <1>4 DEF Empty, Segments
<1>6. \A j \in 1 .. k : s[j] = b + j
  BY Zenon, <1>1
<1> QED BY Zenon, <1>1, <1>4, <1>5, <1>6

\* A payload of one segment, or of none.
LEMMA OneSegment ==
  ASSUME NEW x \in Records, x.rest = Empty, NEW k \in Nat, k <= MaxPush, x.len = k,
         Len(x.first) = k, k = 0 <=> x.first = Empty, \A j \in 1 .. k : x.first[j] = j
  PROVE  Chained(x)
<1>1. x.first = Empty => x.rest = Empty /\ x.len = 0
  BY Zenon
<1>2. segment_count(x) = IF k = 0 THEN 0 ELSE 1
  <2>1. Len(x.rest) = 0
    BY DEF Empty
  <2> QED BY <2>1 DEF segment_count
<1>3. ASSUME NEW i \in 0 .. segment_count(x) - 1 PROVE Link(x, i)
  <2>1. k >= 1 /\ i = 0 /\ segment_count(x) = 1
    BY <1>2
  <2>2. x.first[1] = 1
    BY <2>1
  <2>3. segment(x, i) = x.first /\ Before(x, i) = 1 - 1
    BY Zenon, <2>1, <2>2 DEF segment, Before
  <2>4. x.first \in Segments
    BY Zenon DEF Records
  <2>5. Before(x, i) = 0 /\ k \in 1 .. MaxPush
    BY <2>1, <2>3, PayloadAssumption
  <2>6. \A j \in 1 .. k : x.first[j] = 0 + j
    OBVIOUS
  <2>7. i <= 0 /\ 0 \in Nat /\ ~(i + 1 < 1) /\ k = 0 + k
    BY <2>1
  <2> QED BY Zenon, <2>1, <2>3, <2>4, <2>5, <2>6, <2>7 DEF Link
<1> QED BY Zenon, <1>1, <1>3 DEF Chained

\* Only the segments and the length matter to the chain.
LEMMA SameChain ==
  ASSUME NEW x \in Records, Chained(x), NEW y \in Records,
         y.first = x.first, y.rest = x.rest, y.len = x.len
  PROVE  Chained(y)
<1>1. segment_count(y) = segment_count(x)
  BY Zenon DEF segment_count
<1>2. ASSUME NEW i PROVE segment(y, i) = segment(x, i) /\ Before(y, i) = Before(x, i)
  BY Zenon DEF segment, Before
<1>3. ASSUME NEW i \in 0 .. segment_count(y) - 1 PROVE Link(y, i)
  <2>1. Link(x, i)
    BY Zenon, <1>1 DEF Chained
  <2> QED BY Zenon, <1>1, <1>2, <2>1 DEF Link
<1> QED BY Zenon, <1>3 DEF Chained

\* push keeps the chain: the pushed segment is its next link.
LEMMA PushKeeps ==
  ASSUME NEW x \in Records, Chained(x), Len(x.rest) <= x.capacity,
         NEW k \in Nat, k <= MaxPush, x.len + k <= MaxLen
  PROVE  LET y == push(x, [i \in 1 .. k |-> x.len + i])
         IN  y \in Records /\ Chained(y) /\ Len(y.rest) <= y.capacity
<1>1. PICK s : s = [i \in 1 .. k |-> x.len + i]
  BY Zenon
<1>2. x.len \in Nat /\ x.capacity \in Nat
  BY Zenon, NotAbsent
<1>3. s \in Segments /\ Len(s) = k /\ (k = 0 <=> s = Empty) /\ \A j \in 1 .. k : s[j] = x.len + j
  BY Zenon, <1>1, <1>2, NextBytes
<1>4. PICK y : y = push(x, s)
  BY Zenon
<1>5. PICK sum : sum = x.len + k
  BY Zenon
<1>6. sum \in 0 .. MaxLen /\ sum \in Nat
  BY <1>2, <1>5, PayloadAssumption
<1>7. CASE k = 0
  <2>1. y = x
    BY Zenon, <1>3, <1>4, <1>7 DEF push
  <2> QED BY Zenon, <1>1, <1>4, <2>1
<1>8. CASE k # 0 /\ x.first = Empty
  <2>1. x.rest = Empty /\ x.len = 0
    BY Zenon, <1>8 DEF Chained
  <2>2. y = [x EXCEPT !.len = sum, !.first = s]
    <3>1. y = [[x EXCEPT !.len = @ + Len(s)] EXCEPT !.first = s]
      BY Zenon, <1>3, <1>4, <1>8 DEF push
    <3> QED BY Zenon, <1>3, <1>5, <3>1 DEF Records
  <2>3. /\ y \in Records /\ y.first = s /\ y.rest = x.rest /\ y.len = sum
        /\ y.capacity = x.capacity
    BY Zenon, <1>3, <1>6, <2>2 DEF Records
  <2>4. sum = k /\ \A j \in 1 .. k : s[j] = j
    <3>1. \A j \in 1 .. k : s[j] = 0 + j
      BY Zenon, <1>3, <2>1
    <3> QED BY <1>5, <2>1, <3>1
  <2>5. Chained(y)
    BY Zenon, <1>3, <2>1, <2>3, <2>4, OneSegment
  <2> QED BY Zenon, <1>1, <1>4, <2>3, <2>5
<1>9. CASE k # 0 /\ x.first # Empty
  <2>1. PICK cap : cap = IF Len(x.rest) = x.capacity THEN Grown(x.capacity) ELSE x.capacity
    BY Zenon
  <2>2. PICK more : more = Append(x.rest, s)
    BY Zenon
  <2>3. PICK n : n = Len(x.rest) + 1
    BY Zenon
  <2>4. x.rest \in Seq(Segments) /\ Len(x.rest) \in Nat /\ x.first \in Segments
    BY DEF Records
  <2>5. /\ more \in Seq(Segments) /\ Len(more) = n
        /\ \A i \in 1 .. Len(x.rest) : more[i] = x.rest[i]
        /\ more[n] = s
    BY <1>3, <2>2, <2>3, <2>4
  <2>6. cap \in Nat /\ n <= cap /\ n \in Nat /\ n >= 1
    BY <1>2, <2>1, <2>3, <2>4, PayloadAssumption DEF Grown
  <2>7. y = [x EXCEPT !.len = sum, !.rest = more, !.capacity = cap]
    <3>1. y = [[x EXCEPT !.len = @ + Len(s)] EXCEPT !.rest = Append(@, s),
                 !.capacity = IF Len(x.rest) = @ THEN Grown(@) ELSE @]
      BY Zenon, <1>3, <1>4, <1>9 DEF push
    <3>2. PICK q : q = [x EXCEPT !.len = sum]
      BY Zenon
    <3>3. q.rest = x.rest /\ q.capacity = x.capacity /\ q = [x EXCEPT !.len = @ + Len(s)]
      BY Zenon, <1>3, <1>5, <3>2 DEF Records
    <3>4. y = [q EXCEPT !.rest = more, !.capacity = cap]
      BY Zenon, <2>1, <2>2, <3>1, <3>3
    <3> QED BY Zenon, <3>2, <3>4
  <2>8. /\ y \in Records /\ y.first = x.first /\ y.rest = more /\ y.len = sum
        /\ y.capacity = cap
    BY Zenon, <1>6, <2>5, <2>6, <2>7 DEF Records
  <2>9. segment_count(x) = n /\ segment_count(y) = n + 1
    BY <1>9, <2>3, <2>4, <2>5, <2>8 DEF segment_count
  <2>10. ASSUME NEW i \in 0 .. n - 1
         PROVE  segment(y, i) = segment(x, i) /\ Before(y, i) = Before(x, i)
    <3>1. segment(y, i) = segment(x, i)
      <4>1. CASE i = 0
        BY Zenon, <2>8, <4>1 DEF segment
      <4>2. CASE i # 0
        <5>1. i \in 1 .. Len(x.rest)
          BY <2>3, <2>4, <4>2
        <5> QED BY Zenon, <2>5, <2>8, <4>2, <5>1 DEF segment
      <4> QED BY Zenon, <4>1, <4>2
    <3> QED BY Zenon, <3>1 DEF Before
  <2>11. segment(y, n) = s /\ Before(y, n) = x.len
    <3>1. n # 0 /\ segment(y, n) = s
      BY <2>5, <2>6, <2>8 DEF segment
    <3>2. s[1] = x.len + 1
      BY <1>3, <1>9
    <3> QED BY <1>2, <3>1, <3>2 DEF Before
  <2>12. PICK m : m = n - 1
    BY Zenon
  <2>13. m \in Nat /\ m < n /\ m + 1 = n
    BY <2>6, <2>12
  <2>14. /\ Before(x, m) \in Nat /\ Len(segment(x, m)) \in Nat /\ 0 < Len(segment(x, m))
         /\ m <= Before(x, m) /\ x.len = Before(x, m) + Len(segment(x, m))
    BY ZenonT(40), <2>9, <2>13, LinkIs
  <2>15. ASSUME NEW i \in 0 .. segment_count(y) - 1 PROVE Link(y, i)
    <3>1. CASE i = n
      <4>1. n <= x.len
        BY <1>2, <2>13, <2>14
      <4>2. k \in 1 .. MaxPush /\ n # 0 /\ ~(n + 1 < n + 1)
        BY <1>9, <2>6, PayloadAssumption
      <4> QED BY Zenon, <1>2, <1>3, <1>5, <2>8, <2>9, <2>11, <3>1, <4>1, <4>2 DEF Link
    <3>2. CASE i # n
      <4>1. i \in 0 .. n - 1 /\ i \in Nat
        BY <2>6, <2>9, <3>2
      <4>2. Link(x, i)
        BY Zenon, <2>9, <4>1 DEF Chained
      <4>3. segment(y, i) = segment(x, i) /\ Before(y, i) = Before(x, i)
        BY Zenon, <2>10, <4>1
      <4>4. CASE i = m
        <5>1. Before(y, m + 1) = Before(x, m) + Len(segment(x, m)) /\ m + 1 # n + 1
          BY <2>6, <2>11, <2>13, <2>14
        <5> QED BY Zenon, <2>9, <4>2, <4>3, <4>4, <5>1 DEF Link
      <4>5. CASE i # m
        <5>1. i + 1 \in 0 .. n - 1 /\ i + 1 < n /\ i + 1 # n + 1
          BY <2>6, <2>12, <4>1, <4>5
        <5>2. Before(y, i + 1) = Before(x, i + 1)
          BY Zenon, <2>10, <5>1
        <5> QED BY Zenon, <2>9, <4>2, <4>3, <5>1, <5>2 DEF Link
      <4> QED BY Zenon, <4>4, <4>5
    <3> QED BY Zenon, <3>1, <3>2
  <2>16. Chained(y)
    BY Zenon, <1>9, <2>8, <2>15 DEF Chained
  <2> QED BY Zenon, <1>1, <1>4, <2>5, <2>6, <2>8, <2>16
<1> QED BY Zenon, <1>7, <1>8, <1>9

-----------------------------------------------------------------------------
(* The steps.                                                              *)

\* A reader's payload is in use.
ReaderInv == reader # NoReader => Reads(reader, live[reader.of]) /\ live[reader.of] # Absent

Vectors == [rest : {Empty}, capacity : 1 .. MaxDescriptors]

\* The inductive invariant.
PInv == /\ live \in [Payloads -> Lives] /\ dropping \in [Payloads -> Drops]
        /\ cached \in Seq(Vectors) /\ Len(cached) <= MaxCachedPayloads
        /\ ReaderInv

\* A payload that is in use is a chain of segments.
LEMMA LiveIs ==
  ASSUME PInv, NEW p \in Payloads, live[p] # Absent
  PROVE  live[p] \in Records /\ Chained(live[p]) /\ Len(live[p].rest) <= live[p].capacity
<1>1. live[p] \in Lives
  BY Zenon DEF PInv
<1> QED BY Zenon, <1>1 DEF Lives

\* A step that changes one payload, which no reader borrows, by another one in use
\* or by none.
LEMMA LiveStep ==
  ASSUME PInv, NEW p \in Payloads, ~Borrowed(p), NEW x \in Lives,
         live' = [live EXCEPT ![p] = x], reader' = reader
  PROVE  live' \in [Payloads -> Lives] /\ ReaderInv'
<1>1. live' \in [Payloads -> Lives]
  BY Zenon DEF PInv
<1>2. ASSUME reader # NoReader PROVE live'[reader.of] = live[reader.of]
  <2>1. reader.of \in Payloads
    BY Zenon, <1>2 DEF PInv, ReaderInv, Reads, Readers
  <2>2. reader.of # p
    BY Zenon, <1>2 DEF Borrowed
  <2> QED BY Zenon, <2>1, <2>2 DEF PInv
<1>3. ReaderInv'
  BY Zenon, <1>2 DEF PInv, ReaderInv
<1> QED BY Zenon, <1>1, <1>3

\* A reader borrows a payload that is in use.
LEMMA UnusedIsFree ==
  ASSUME PInv, NEW p \in Payloads, Unused(p)
  PROVE  ~Borrowed(p)
BY Zenon DEF PInv, ReaderInv, Unused, IsLive, Borrowed

\* The steps that only add or change a payload.
LEMMA NewKeeps == ASSUME PInv, NEW p \in Payloads, new(p) PROVE PInv'
<1>1. PICK k \in 0 .. MaxPush :
        live' = [live EXCEPT ![p] = [NewPayload EXCEPT !.first = [i \in 1 .. k |-> i], !.len = k]]
  BY Zenon DEF new
<1>2. k \in Nat /\ k <= MaxPush /\ 0 + k <= MaxLen /\ 0 \in Nat /\ k \in 0 .. MaxLen
  BY PayloadAssumption
<1>3. PICK s : s = [i \in 1 .. k |-> 0 + i]
  BY Zenon
<1>4. s \in Segments /\ Len(s) = k /\ (k = 0 <=> s = Empty) /\ \A j \in 1 .. k : s[j] = 0 + j
  BY Zenon, <1>2, <1>3, NextBytes
<1>5. [i \in 1 .. k |-> i] = s
  BY <1>2, <1>3
<1>6. PICK x : x = [NewPayload EXCEPT !.first = s, !.len = k]
  BY Zenon
<1>7. x = [first |-> s, rest |-> Empty, len |-> k, capacity |-> 0, pooled |-> FALSE]
  BY Zenon, <1>6 DEF NewPayload, Absent
<1>8. Empty \in Seq(Segments) /\ Len(Empty) = 0 /\ 0 \in Nat /\ 0 <= 0
  BY DEF Empty
<1>9. x \in Records /\ x.first = s /\ x.rest = Empty /\ x.len = k /\ x.capacity = 0
  BY Zenon, <1>2, <1>4, <1>7, <1>8 DEF Records
<1>10. Chained(x)
  <2>1. \A j \in 1 .. k : s[j] = j
    BY <1>2, <1>4
  <2> QED BY Zenon, <1>2, <1>4, <1>9, <2>1, OneSegment
<1>11. x \in Lives
  BY Zenon, <1>8, <1>9, <1>10 DEF Lives
<1>12. live' = [live EXCEPT ![p] = x]
  BY Zenon, <1>1, <1>5, <1>6
<1>13. Unused(p) /\ dropping' = dropping /\ cached' = cached /\ reader' = reader
  BY Zenon DEF new
<1>14. live' \in [Payloads -> Lives] /\ ReaderInv'
  BY Zenon, <1>11, <1>12, <1>13, UnusedIsFree, LiveStep
<1> QED BY Zenon, <1>13, <1>14 DEF PInv

\* Payload::push, with the next bytes, keeps the invariant.
LEMMA PushStepKeeps == ASSUME PInv, NEW p \in Payloads, Push(p) PROVE PInv'
<1>1. live[p] # Absent /\ ~Borrowed(p) /\ UNCHANGED <<dropping, cached, reader>>
  BY Zenon DEF Push, IsLive
<1>2. PICK k \in 0 .. MaxPush :
        /\ live[p].len + k <= MaxLen
        /\ live' = [live EXCEPT ![p] = push(@, [i \in 1 .. k |-> live[p].len + i])]
  BY Zenon DEF Push
<1>3. PICK x : x = live[p]
  BY Zenon
<1>4. x \in Records /\ Chained(x) /\ Len(x.rest) <= x.capacity
  BY Zenon, <1>1, <1>3, LiveIs
<1>5. k \in Nat /\ k <= MaxPush
  BY PayloadAssumption
<1>6. PICK y : y = push(x, [i \in 1 .. k |-> x.len + i])
  BY Zenon
<1>7. y \in Records /\ Chained(y) /\ Len(y.rest) <= y.capacity
  BY Zenon, <1>2, <1>3, <1>4, <1>5, <1>6, PushKeeps
<1>8. live' = [live EXCEPT ![p] = y]
  BY Zenon, <1>2, <1>3, <1>6
<1>9. y \in Lives
  BY Zenon, <1>7 DEF Lives
<1>10. live' \in [Payloads -> Lives] /\ ReaderInv'
  BY Zenon, <1>1, <1>8, <1>9, LiveStep
<1> QED BY Zenon, <1>1, <1>10 DEF PInv

\* Payload::clone copies the segments into a vector that holds them, outside the pool.
LEMMA CloneKeeps == ASSUME PInv, NEW p \in Payloads, NEW q \in Payloads, clone(p, q) PROVE PInv'
<1>1. live[p] # Absent /\ Unused(q) /\ UNCHANGED <<dropping, cached, reader>>
  BY Zenon DEF clone, IsLive
<1>2. PICK x : x = live[p]
  BY Zenon
<1>3. x \in Records /\ Chained(x)
  BY Zenon, <1>1, <1>2, LiveIs
<1>4. PICK y : y = [x EXCEPT !.capacity = Len(x.rest)]
  BY Zenon
<1>5. live' = [live EXCEPT ![q] = y]
  BY Zenon, <1>2, <1>4 DEF clone
<1>6. PICK size : size = Len(x.rest)
  BY Zenon
<1>7. size \in Nat /\ size <= size
  BY <1>3, <1>6 DEF Records
<1>8. y \in Records /\ y.first = x.first /\ y.rest = x.rest /\ y.len = x.len /\ y.capacity = size
  BY Zenon, <1>3, <1>4, <1>6, <1>7 DEF Records
<1>9. Chained(y)
  BY Zenon, <1>3, <1>8, SameChain
<1>10. y \in Lives
  BY Zenon, <1>6, <1>7, <1>8, <1>9 DEF Lives
<1>11. live' \in [Payloads -> Lives] /\ ReaderInv'
  BY Zenon, <1>1, <1>5, <1>10, UnusedIsFree, LiveStep
<1> QED BY Zenon, <1>1, <1>11 DEF PInv

\* PayloadPool::acquire hands out a vector that holds nothing.
LEMMA AcquireKeeps == ASSUME PInv, NEW p \in Payloads, acquire(p) PROVE PInv'
<1>0. PICK yes \in BOOLEAN : yes = TRUE
  BY Zenon
<1>1. Unused(p) /\ dropping' = dropping /\ reader' = reader
  BY Zenon DEF acquire
<1>2. PICK cap : cap = IF cached = Empty THEN 0 ELSE cached[Len(cached)].capacity
  BY Zenon
<1>3. cached \in Seq(Vectors) /\ Len(cached) \in Nat /\ Len(cached) <= MaxCachedPayloads
  BY DEF PInv
<1>4. ASSUME cached # Empty
      PROVE  /\ cached[Len(cached)] \in Vectors
             /\ SubSeq(cached, 1, Len(cached) - 1) \in Seq(Vectors) /\ Len(SubSeq(cached, 1, Len(cached) - 1)) <= MaxCachedPayloads
  <2>1. Len(cached) \in 1 .. Len(cached)
    BY <1>3, <1>4 DEF Empty
  <2>2. cached[Len(cached)] \in Vectors
    BY Zenon, <1>3, <2>1, ElementOfSeq
  <2>3. /\ SubSeq(cached, 1, Len(cached) - 1) \in Seq(Vectors)
        /\ Len(SubSeq(cached, 1, Len(cached) - 1)) = Len(cached) - 1
    <3>1. PICK k : k = Len(cached) - 1
      BY Zenon
    <3>2. 1 \in Int /\ k \in Int /\ k \in Nat
      BY <1>3, <2>1, <3>1
    <3>3. ASSUME NEW i \in 1 .. k PROVE cached[i] \in Vectors
      <4>1. i \in 1 .. Len(cached)
        BY <1>3, <3>1
      <4> QED BY Zenon, <1>3, <4>1, ElementOfSeq
    <3>4. SubSeq(cached, 1, k) \in Seq(Vectors) /\ Len(SubSeq(cached, 1, k)) = k
      BY <3>2, <3>3, SubSeqProperties
    <3> QED BY Zenon, <3>1, <3>4
  <2>5. Len(cached) - 1 <= MaxCachedPayloads
    BY <1>3, PayloadAssumption
  <2> QED BY Zenon, <2>2, <2>3, <2>5
<1>5. cap \in Nat
  <2>1. CASE cached = Empty
    BY Zenon, <1>2, <2>1
  <2>2. CASE cached # Empty
    BY <1>2, <1>4, <2>2, PayloadAssumption DEF Vectors
  <2> QED BY Zenon, <2>1, <2>2
<1>6. Empty \in Seq(Segments) /\ Empty \in Segments /\ Len(Empty) = 0 /\ 0 \in 0 .. MaxLen
  BY PayloadAssumption DEF Empty, Segments
<1>7. PICK fresh : fresh = NewPayload
  BY Zenon
<1>8. /\ fresh \in Records /\ fresh.first = Empty /\ fresh.rest = Empty /\ fresh.len = 0
      /\ fresh.capacity = 0
  BY Zenon, <1>6, <1>7 DEF NewPayload, Absent, Records
<1>9. PICK x : /\ live' = [live EXCEPT ![p] = x]
               /\ x \in Records /\ x.first = Empty /\ x.rest = Empty /\ x.len = 0 /\ x.capacity = cap
  <2>1. CASE cached = Empty
    <3>1. PICK x : x = [fresh EXCEPT !.pooled = yes]
      BY Zenon
    <3>2. /\ x \in Records /\ x.first = Empty /\ x.rest = Empty /\ x.len = 0 /\ x.capacity = 0
      BY Zenon, <1>8, <3>1 DEF Records
    <3>3. live' = [live EXCEPT ![p] = x] /\ cap = 0
      BY Zenon, <1>0, <1>2, <1>7, <2>1, <3>1 DEF acquire
    <3> QED BY Zenon, <3>2, <3>3
  <2>2. CASE cached # Empty
    <3>1. PICK c : c = cached[Len(cached)]
      BY Zenon
    <3>2. c.rest = Empty /\ c.capacity = cap
      <4>1. c \in Vectors /\ c.capacity = cap
        BY Zenon, <1>2, <1>4, <2>2, <3>1
      <4> QED BY Zenon, <4>1 DEF Vectors
    <3>3. PICK x : x = [fresh EXCEPT !.pooled = yes, !.rest = c.rest, !.capacity = c.capacity]
      BY Zenon
    <3>4. /\ x \in Records /\ x.first = Empty /\ x.rest = Empty /\ x.len = 0 /\ x.capacity = cap
      BY Zenon, <1>5, <1>6, <1>8, <3>2, <3>3 DEF Records
    <3>5. live' = [live EXCEPT ![p] = x]
      BY Zenon, <1>0, <1>7, <2>2, <3>1, <3>3 DEF acquire
    <3> QED BY Zenon, <3>4, <3>5
  <2> QED BY Zenon, <2>1, <2>2
<1>10. Chained(x)
  <2>1. 0 \in Nat /\ 0 <= MaxPush /\ \A j \in 1 .. 0 : Empty[j] = j
    BY PayloadAssumption
  <2> QED BY Zenon, <1>6, <1>9, <2>1, OneSegment
<1>11. 0 <= cap
  BY <1>5
<1>12. x \in Lives
  BY Zenon, <1>6, <1>9, <1>10, <1>11 DEF Lives
<1>13. live' \in [Payloads -> Lives] /\ ReaderInv'
  BY Zenon, <1>1, <1>9, <1>12, UnusedIsFree, LiveStep
<1>14. cached' \in Seq(Vectors) /\ Len(cached') <= MaxCachedPayloads
  BY Zenon, <1>3, <1>4 DEF acquire
<1> QED BY Zenon, <1>1, <1>13, <1>14 DEF PInv

\* drop lets go of the buffers before the vector goes on to the pool.
LEMMA DropKeeps == ASSUME PInv, NEW p \in Payloads, Drop(p) PROVE PInv'
<1>1. live[p] # Absent /\ ~Borrowed(p) /\ UNCHANGED <<cached, reader>>
  BY Zenon DEF Drop, IsLive
<1>2. live' = [live EXCEPT ![p] = Absent] /\ Absent \in Lives
  BY Zenon DEF Drop, Lives
<1>3. live' \in [Payloads -> Lives] /\ ReaderInv'
  BY Zenon, <1>1, <1>2, LiveStep
<1>4. dropping' \in [Payloads -> Drops]
  <2>1. CASE live[p].capacity = 0
    BY Zenon, <2>1 DEF Drop, PInv
  <2>2. CASE live[p].capacity # 0
    <3>1. PICK x, y : x = live[p] /\ y = release(x)
      BY Zenon
    <3>2. x \in Records
      BY Zenon, <1>1, <3>1, LiveIs
    <3>3. Empty \in Seq(Segments) /\ Empty \in Segments /\ 0 \in 0 .. MaxLen
      BY PayloadAssumption DEF Empty, Segments
    <3>4. y \in Records /\ y.rest = Empty /\ y.capacity = x.capacity
      BY Zenon, <3>1, <3>2, <3>3 DEF Records, release
    <3>5. y \in Drops
      BY Zenon, <2>2, <3>1, <3>4 DEF Drops
    <3>6. dropping' = [dropping EXCEPT ![p] = y]
      BY Zenon, <2>2, <3>1 DEF Drop
    <3> QED BY Zenon, <3>5, <3>6 DEF PInv
  <2> QED BY Zenon, <2>1, <2>2
<1> QED BY Zenon, <1>1, <1>3, <1>4 DEF PInv

\* The end of drop: the pool keeps the vector if it is small enough and there is
\* room for it when the lock is held.
LEMMA ReturnKeeps == ASSUME PInv, NEW p \in Payloads, Return(p) PROVE PInv'
<1>1. dropping[p] # Absent /\ UNCHANGED <<live, reader>>
  BY Zenon DEF Return
<1>2. PICK d : d = dropping[p]
  BY Zenon
<1>3. d \in Records /\ d.rest = Empty /\ d.capacity # 0
  <2>1. d \in Drops
    BY Zenon, <1>2 DEF PInv
  <2> QED BY Zenon, <1>1, <1>2, <2>1 DEF Drops
<1>4. dropping' \in [Payloads -> Drops]
  <2>1. dropping' = [dropping EXCEPT ![p] = Absent] /\ Absent \in Drops
    BY Zenon DEF Return, Drops
  <2> QED BY Zenon, <2>1 DEF PInv
<1>5. cached \in Seq(Vectors) /\ Len(cached) \in Nat /\ Len(cached) <= MaxCachedPayloads
  BY DEF PInv
<1>6. cached' \in Seq(Vectors) /\ Len(cached') <= MaxCachedPayloads
  <2>1. CASE Keeps(d)
    <3>1. PICK c : c = [rest |-> d.rest, capacity |-> d.capacity]
      BY Zenon
    <3>2. d.capacity <= MaxDescriptors /\ Len(cached) < MaxCachedPayloads
      BY Zenon, <2>1 DEF Keeps
    <3>3. d.capacity \in 1 .. MaxDescriptors
      BY <1>3, <3>2, PayloadAssumption DEF Records
    <3>4. c \in Vectors
      BY Zenon, <1>3, <3>1, <3>3 DEF Vectors
    <3>5. cached' = Append(cached, c)
      BY Zenon, <1>2, <2>1, <3>1 DEF Return
    <3>6. cached' \in Seq(Vectors) /\ Len(cached') = Len(cached) + 1
      BY <1>5, <3>4, <3>5
    <3> QED BY <1>5, <3>2, <3>6, PayloadAssumption
  <2>2. CASE ~Keeps(d)
    BY Zenon, <1>2, <1>5, <2>2 DEF Return
  <2> QED BY Zenon, <2>1, <2>2
<1>7. ReaderInv'
  BY Zenon, <1>1 DEF PInv, ReaderInv
<1> QED BY Zenon, <1>1, <1>4, <1>6, <1>7 DEF PInv

\* A reader begins at the start of its range.
LEMMA OpenKeeps == ASSUME PInv, NEW p \in Payloads, open(p) PROVE PInv'
<1>1. live[p] # Absent /\ UNCHANGED <<live, dropping, cached>>
  BY Zenon DEF open, IsLive
<1>2. PICK x : x = live[p]
  BY Zenon
<1>3. x \in Records /\ Chained(x) /\ x.len \in Nat /\ x.len <= MaxLen
  BY Zenon, <1>1, <1>2, LiveIs, NotAbsent
<1>4. PICK a, b :
        /\ a \in Ranges(x.len) /\ b \in Ranges(a[2] - a[1])
        /\ reader' =
                  [of |-> p, from |-> a[1] + b[1], to |-> a[1] + b[2],
                   over |-> slice(slice(view(x), a[1], a[2]), b[1], b[2]),
                   segment |-> 0, offset |-> 0, remaining |-> b[2] - b[1], got |-> Empty]
  BY Zenon, <1>2 DEF open
<1>5. PICK a1, a2, b1, b2 : a1 = a[1] /\ a2 = a[2] /\ b1 = b[1] /\ b2 = b[2]
  BY Zenon
<1>6. a1 \in 0 .. x.len /\ a2 \in 0 .. x.len /\ a1 <= a2
  BY Zenon, <1>4, <1>5 DEF Ranges
<1>7. b1 \in 0 .. (a2 - a1) /\ b2 \in 0 .. (a2 - a1) /\ b1 <= b2
  BY Zenon, <1>4, <1>5 DEF Ranges
<1>8. /\ a1 \in Nat /\ a2 \in Nat /\ b1 \in Nat /\ b2 \in Nat /\ a2 <= x.len - 0
      /\ b2 <= a2 - a1 /\ 0 + a1 = a1 /\ 0 + a2 = a2
  BY <1>3, <1>6, <1>7
<1>9. PICK v : v = slice(view(x), a1, a2)
  BY Zenon
<1>10. Covers(v, x, a1, a2)
  <2>1. Covers(view(x), x, 0, x.len)
    BY Zenon, <1>3, ViewIs
  <2>2. Covers(v, x, 0 + a1, 0 + a2)
    BY Zenon, <1>3, <1>6, <1>8, <1>9, <2>1, SliceIs
  <2> QED BY Zenon, <1>8, <2>2
<1>11. PICK w, from, to : w = slice(v, b1, b2) /\ from = a1 + b1 /\ to = a1 + b2
  BY Zenon
<1>12. Covers(w, x, from, to)
  BY Zenon, <1>3, <1>7, <1>8, <1>10, <1>11, SliceIs
<1>13. PICK left : left = b2 - b1
  BY Zenon
<1>14. from \in Nat /\ to \in Nat /\ left \in Nat /\ left = to - from - 0 /\ (left > 0 => from < to)
  BY <1>7, <1>8, <1>11, <1>13
<1>15. PICK r : r = reader'
  BY Zenon
<1>16. r = [of |-> p, from |-> from, to |-> to, over |-> w, segment |-> 0, offset |-> 0,
            remaining |-> left, got |-> Empty]
  BY Zenon, <1>4, <1>5, <1>9, <1>11, <1>13, <1>15
<1>17. Empty \in Seq(Nat) /\ Len(Empty) = 0 /\ 0 \in 0 .. MaxLen /\ 0 \in 0 .. MaxPush
  BY PayloadAssumption DEF Empty
<1>18. w \in Views
  BY Zenon, <1>12 DEF Covers
<1>19. /\ r \in Readers /\ r.of = p /\ r.from = from /\ r.to = to /\ r.over = w
       /\ r.segment = 0 /\ r.offset = 0 /\ r.remaining = left /\ r.got = Empty
  BY Zenon, <1>14, <1>16, <1>17, <1>18 DEF Readers
<1>20. Run(Empty, from)
  BY DEF Run, Empty
<1>21. ASSUME left > 0
       PROVE  /\ 0 < view_segment_count(w) /\ 0 < Len(view_segment(w, 0))
              /\ Ahead(w, x, 0) + 0 = from + 0
  <2>1. 0 < view_segment_count(w) /\ 0 \in Nat
    <3>1. w.first \in Nat /\ w.last \in Nat /\ w.first <= w.last
      BY Zenon, <1>3, <1>12, <1>14, <1>21, ViewRuns
    <3>2. view_segment_count(w) = w.last - w.first + 1
      BY Zenon, <1>3, <1>12, <1>14, <1>21, ViewRuns
    <3> QED BY <3>1, <3>2
  <2>2. Piece(w, x, from, to, 0)
    BY Zenon, <1>3, <1>12, <1>14, <1>21, <2>1, PieceIs
  <2>3. Ahead(w, x, 0) = from
    BY Zenon, <2>2 DEF Piece
  <2> QED BY Zenon, <2>1, <2>2, <2>3 DEF Piece
<1>22. Reads(r, x)
  BY Zenon, <1>12, <1>14, <1>17, <1>19, <1>20, <1>21 DEF Reads
<1>23. ReaderInv'
  <2>1. live'[reader'.of] = x
    BY Zenon, <1>1, <1>2, <1>15, <1>19
  <2> QED BY Zenon, <1>1, <1>2, <1>15, <1>22, <2>1 DEF ReaderInv
<1> QED BY Zenon, <1>1, <1>23 DEF PInv

\* PayloadReader::read keeps the reader in its range.
LEMMA ReadStepKeeps == PInv /\ Read => PInv'
<1>1. SUFFICES ASSUME PInv, Read PROVE PInv'
  BY Zenon
<1>2. reader # NoReader /\ reader.remaining > 0 /\ UNCHANGED <<live, dropping, cached>>
  BY Zenon, <1>1 DEF Read
<1>3. PICK room \in 1 .. MaxPush + 1 : reader' = read(reader, room)
  BY Zenon, <1>1 DEF Read
<1>4. room \in Nat /\ room >= 1
  BY PayloadAssumption
<1>5. PICK r, x : r = reader /\ x = live[reader.of]
  BY Zenon
<1>6. Reads(r, x) /\ x # Absent
  BY Zenon, <1>1, <1>2, <1>5 DEF PInv, ReaderInv
<1>7. r.of \in Payloads
  BY Zenon, <1>6 DEF Reads, Readers
<1>8. x \in Records /\ Chained(x)
  BY Zenon, <1>1, <1>5, <1>6, <1>7, LiveIs
<1>9. Reads(read(r, room), x) /\ read(r, room).of = r.of
  BY Zenon, <1>2, <1>4, <1>5, <1>6, <1>8, ReadKeeps
<1>10. Reads(reader', x) /\ live'[reader'.of] = x
  BY Zenon, <1>2, <1>3, <1>5, <1>9
<1>11. ReaderInv'
  BY Zenon, <1>6, <1>10 DEF ReaderInv
<1> QED BY Zenon, <1>1, <1>2, <1>11 DEF PInv

\* A dropped reader leaves nothing behind.
LEMMA CloseKeeps == PInv /\ Close => PInv'
BY Zenon DEF PInv, Close, ReaderInv

\* At first no payload exists, the pool is empty and nothing is read.
LEMMA InitHolds == Init => PInv
<1>1. SUFFICES ASSUME Init PROVE PInv
  BY Zenon
<1>2. live \in [Payloads -> Lives] /\ dropping \in [Payloads -> Drops]
  BY Zenon, <1>1 DEF Init, Lives, Drops
<1>3. cached \in Seq(Vectors) /\ Len(cached) <= MaxCachedPayloads
  BY <1>1, PayloadAssumption DEF Init, Empty
<1>4. ReaderInv
  BY Zenon, <1>1 DEF Init, ReaderInv
<1> QED BY Zenon, <1>2, <1>3, <1>4 DEF PInv

\* Every step keeps the invariant.
LEMMA NextHolds == PInv /\ [Next]_vars => PInv'
<1>1. SUFFICES ASSUME PInv, [Next]_vars PROVE PInv'
  BY Zenon
<1>2. CASE UNCHANGED vars
  BY Zenon, <1>1, <1>2 DEF vars, PInv, ReaderInv
<1>3. ASSUME NEW p \in Payloads,
             new(p) \/ acquire(p) \/ Push(p) \/ Drop(p) \/ Return(p) \/ open(p)
      PROVE  PInv'
  BY Zenon, <1>1, <1>3, NewKeeps, AcquireKeeps, PushStepKeeps, DropKeeps, ReturnKeeps, OpenKeeps
<1>4. ASSUME NEW p \in Payloads, NEW q \in Payloads, clone(p, q) PROVE PInv'
  BY Zenon, <1>1, <1>4, CloneKeeps
<1> QED BY Zenon, <1>1, <1>2, <1>3, <1>4, ReadStepKeeps, CloseKeeps DEF Next

\* Each payload is a chain of segments, each vector in the pool or on its way there
\* is empty, and a reader stands at the byte after those it got, at all times.
THEOREM PInvHolds == Spec => []PInv
BY InitHolds, NextHolds, PTL DEF Spec

-----------------------------------------------------------------------------
(* The bytes of a payload.                                                 *)

\* f has the concatenations of x with the first 0 .. n sequences of s.
Joins(x, s, n, f) == f = [i \in 0 .. n |-> IF i = 0 THEN x ELSE f[i - 1] \o s[i]]

\* There are such concatenations, whatever the sequences.
LEMMA JoinsExist ==
  ASSUME NEW x, NEW s, NEW n \in Nat
  PROVE  \E f : Joins(x, s, n, f)
<1> USE DEF Joins
<1> DEFINE T == {m \in 0 .. n : \E f : Joins(x, s, m, f)}
<1>1. 0 \in T
  <2> DEFINE f == [j \in 0 .. 0 |-> x]
  <2>1. Joins(x, s, 0, f)
    BY SMT
  <2>2. 0 \in 0 .. n
    OBVIOUS
  <2> QED BY Zenon, <2>1, <2>2
<1>2. ASSUME NEW m \in 0 .. n - 1, m \in T PROVE m + 1 \in T
  <2>1. PICK f : Joins(x, s, m, f)
    BY Zenon, <1>2
  <2>2. PICK last : last = f[m] \o s[m + 1]
    BY Zenon
  <2> DEFINE g == [j \in 0 .. m + 1 |-> IF j <= m THEN f[j] ELSE last]
  <2>3. ASSUME NEW j \in 0 .. m + 1
        PROVE  g[j] = IF j = 0 THEN x ELSE g[j - 1] \o s[j]
    <3>1. CASE j <= m
      <4>1. j \in 0 .. m /\ (j # 0 => j - 1 \in 0 .. m + 1 /\ j - 1 <= m)
        BY <3>1
      <4>2. g[j] = f[j] /\ (j # 0 => g[j - 1] = f[j - 1])
        BY Zenon, <3>1, <4>1
      <4>3. f[j] = IF j = 0 THEN x ELSE f[j - 1] \o s[j]
        BY Zenon, <2>1, <4>1
      <4> QED BY Zenon, <4>2, <4>3
    <3>2. CASE ~(j <= m)
      <4>1. j = m + 1 /\ j - 1 = m /\ j # 0 /\ m \in 0 .. m + 1 /\ m <= m
        BY <3>2
      <4>2. g[j] = last /\ g[m] = f[m]
        BY Zenon, <3>2, <4>1
      <4> QED BY Zenon, <2>2, <4>1, <4>2
    <3> QED BY Zenon, <3>1, <3>2
  <2>4. Joins(x, s, m + 1, g)
    BY Zenon, <2>3
  <2>5. m + 1 \in 0 .. n
    OBVIOUS
  <2> QED BY Zenon, <2>4, <2>5
<1>3. n \in T
  <2> HIDE DEF T
  <2>1. \A j \in 0 .. n : j \in T
    BY Zenon, <1>1, <1>2, Counting
  <2> QED BY <2>1
<1> QED BY Zenon, <1>3

\* The bytes of a payload, its segments joined, are as many as its length says
\* and the ones pushed, in order.
LEMMA BytesAre ==
  ASSUME NEW x \in Records, Chained(x)
  PROVE  to_bytes(x) = [i \in 1 .. x.len |-> i]
<1>1. x.first \in Segments /\ x.rest \in Seq(Segments) /\ x.len \in Nat /\ Len(x.rest) \in Nat
  BY PayloadAssumption DEF Records
<1>2. PICK n \in Nat : n = Len(x.rest)
  BY Zenon, <1>1
<1>3. PICK f : Joins(x.first, x.rest, n, f) /\ to_bytes(x) = f[n]
  <2>1. \E f : Joins(x.first, x.rest, n, f)
    BY Zenon, JoinsExist
  <2> QED BY Zenon, <1>2, <2>1 DEF to_bytes, Joins
<1>4. 0 \in 0 .. n /\ n \in 0 .. n
  OBVIOUS
<1>5. f[0] = x.first
  BY Zenon, <1>3, <1>4 DEF Joins
<1>6. CASE x.first = Empty
  <2>1. n = 0 /\ x.len = 0
    BY Zenon, <1>2, <1>6 DEF Chained, Empty
  <2> QED BY <1>3, <1>5, <1>6, <2>1 DEF Empty
<1>7. CASE x.first # Empty
  <2>1. segment_count(x) = n + 1
    BY <1>2, <1>7 DEF segment_count
  <2>2. ASSUME NEW i \in 0 .. n
        PROVE  /\ segment(x, i) \in Seq(Nat) /\ Len(segment(x, i)) \in Nat /\ Before(x, i) \in Nat
               /\ \A j \in 1 .. Len(segment(x, i)) : segment(x, i)[j] = Before(x, i) + j
               /\ i = 0 => Before(x, i) = 0
               /\ i # n => Before(x, i + 1) = Before(x, i) + Len(segment(x, i))
               /\ i = n => x.len = Before(x, i) + Len(segment(x, i))
    <3>1. /\ i \in Nat /\ i < segment_count(x)
          /\ (i # n => i + 1 < segment_count(x)) /\ (i = n => i + 1 = segment_count(x))
      BY <2>1
    <3>2. 1 .. MaxLen \subseteq Nat
      BY PayloadAssumption
    <3>3. segment(x, i) \in Seq(Nat)
      <4>1. segment(x, i) \in Segments
        BY Zenon, <3>1, LinkIs
      <4> QED BY Zenon, <3>2, <4>1, SeqMonotonic DEF Segments
    <3> QED BY Zenon, <3>1, <3>3, LinkIs
  <2> DEFINE Upto(i) == Before(x, i) + Len(segment(x, i))
             So(i) == f[i] \in Seq(Nat) /\ Run(f[i], 0) /\ Len(f[i]) = Upto(i)
             T == {i \in 0 .. n : So(i)}
  <2>3. 0 \in T
    <3>1. PICK s : s = x.first
      BY Zenon
    <3>2. segment(x, 0) = s
      BY Zenon, <3>1 DEF segment
    <3>3. s \in Seq(Nat) /\ Len(s) \in Nat /\ \A j \in 1 .. Len(s) : s[j] = 0 + j
      BY Zenon, <1>4, <2>2, <3>2
    <3>4. Run(s, 0)
      <4>1. s \in [1 .. Len(s) -> Nat]
        BY Zenon, <3>3, LenProperties
      <4> QED BY Zenon, <3>3, <4>1 DEF Run
    <3>5. Len(s) = Upto(0)
      <4>1. Before(x, 0) = 0
        BY Zenon, <1>4, <2>2
      <4> QED BY <3>2, <3>3, <4>1
    <3> QED BY Zenon, <1>4, <1>5, <3>1, <3>3, <3>4, <3>5
  <2>4. ASSUME NEW i \in 0 .. n - 1, i \in T PROVE i + 1 \in T
    <3>1. PICK k : k = i + 1
      BY Zenon
    <3>2. i \in 0 .. n /\ i # n /\ k \in 0 .. n /\ k # 0 /\ k - 1 = i
      BY <3>1
    <3>3. PICK left, right, here : left = f[i] /\ right = segment(x, k) /\ here = Before(x, k)
      BY Zenon
    <3>4. f[k] = left \o right
      BY Zenon, <1>3, <3>2, <3>3 DEF Joins, segment
    <3>5. left \in Seq(Nat) /\ Run(left, 0) /\ Len(left) = here
      BY Zenon, <2>2, <2>4, <3>1, <3>2, <3>3
    <3>6. /\ right \in Seq(Nat) /\ Len(right) \in Nat /\ here \in Nat
          /\ \A j \in 1 .. Len(right) : right[j] = here + j
      BY Zenon, <2>2, <3>2, <3>3
    <3>7. 0 \in Nat /\ 0 + Len(left) = here
      BY <3>5, <3>6
    <3>8. \A j \in 1 .. Len(right) : right[j] = 0 + Len(left) + j
      BY Zenon, <3>6, <3>7
    <3>9. /\ left \o right \in Seq(Nat) /\ Run(left \o right, 0)
          /\ Len(left \o right) = Len(left) + Len(right)
      BY Zenon, <3>5, <3>6, <3>7, <3>8, RunsJoin
    <3>10. So(k)
      BY Zenon, <3>3, <3>4, <3>5, <3>9
    <3> QED BY Zenon, <3>1, <3>2, <3>10
  <2>5. n \in T
    <3> HIDE DEF T
    <3>1. \A i \in 0 .. n : i \in T
      BY Zenon, <2>3, <2>4, Counting
    <3> QED BY Zenon, <1>4, <3>1
  <2>6. to_bytes(x) \in Seq(Nat) /\ Run(to_bytes(x), 0) /\ Len(to_bytes(x)) = x.len
    BY Zenon, <1>3, <1>4, <2>2, <2>5
  <2>7. to_bytes(x) = [i \in 1 .. x.len |-> 0 + i]
    BY Zenon, <2>6 DEF Run
  <2>8. \A i \in 1 .. x.len : 0 + i = i
    OBVIOUS
  <2> QED BY Zenon, <2>7, <2>8
<1> QED BY Zenon, <1>6, <1>7

-----------------------------------------------------------------------------
(* The properties of the runs.                                             *)

\* However drops overlap, the pool keeps at most MaxCachedPayloads vectors, each
\* empty and with storage for 1 .. MaxDescriptors descriptors: release clears the
\* vector it gives to the pool, and looks at the room under the pool's lock.
THEOREM PoolStaysBounded == Spec => []CacheBounded
<1>1. PInv => CacheBounded
  <2> SUFFICES ASSUME PInv PROVE CacheBounded
    BY Zenon
  <2>1. ASSUME NEW i \in DOMAIN cached
        PROVE  cached[i].rest = Empty /\ cached[i].capacity \in 1 .. MaxDescriptors
    <3>1. cached[i] \in Vectors
      BY DEF PInv
    <3> QED BY Zenon, <3>1 DEF Vectors
  <2> QED BY Zenon, <2>1 DEF PInv, CacheBounded
<1> QED BY PInvHolds, <1>1, PTL

\* A reader over a slice of a slice of a payload yields the bytes of that range, in
\* order and without a gap, whatever the segments and the room in each read; while
\* bytes remain it stands at one of them.
THEOREM ReaderReadsItsRange == Spec => []ReadsTheRange
<1>1. PInv => ReadsTheRange
  <2> SUFFICES ASSUME PInv, reader # NoReader PROVE ReadsTheRange
    BY Zenon DEF ReadsTheRange
  <2>1. Reads(reader, live[reader.of])
    BY Zenon DEF PInv, ReaderInv
  <2> QED BY Zenon, <2>1 DEF Reads, Run, ReadsTheRange
<1> QED BY PInvHolds, <1>1, PTL

\* A payload's segments are the bytes pushed into it, in order, as many as its
\* length says, none empty, whichever vector new, clone or acquire gave it and
\* whichever payloads were dropped meanwhile.
THEOREM SegmentsStayWellFormed == Spec => []SegmentsWellFormed
<1>1. PInv => SegmentsWellFormed
  <2> SUFFICES ASSUME PInv PROVE SegmentsWellFormed
    BY Zenon
  <2>1. PayloadTypeOK
    <3>1. Lives \subseteq Descriptors /\ Drops \subseteq Descriptors
      BY Zenon DEF Lives, Drops, Descriptors, Records
    <3>2. live \in [Payloads -> Descriptors] /\ dropping \in [Payloads -> Descriptors]
      BY Zenon, <3>1 DEF PInv
    <3>3. \A p \in Payloads : dropping[p].capacity # 0
      <4>1. Absent.capacity # 0
        BY DEF Absent
      <4> QED BY Zenon, <4>1 DEF PInv, Drops
    <3>4. cached \in Seq([rest : Seq(Segments), capacity : Nat])
      <4>1. Vectors \subseteq [rest : Seq(Segments), capacity : Nat]
        <5>1. Empty \in Seq(Segments)
          BY DEF Empty
        <5>2. 1 .. MaxDescriptors \subseteq Nat
          BY PayloadAssumption
        <5> QED BY Zenon, <5>1, <5>2 DEF Vectors
      <4> QED BY Zenon, <4>1, SeqMonotonic DEF PInv
    <3>5. \A p \in Payloads : IsLive(p) => Len(live[p].rest) <= live[p].capacity
      BY Zenon DEF PInv, Lives, IsLive
    <3>6. reader # NoReader => /\ reader.of \in Payloads
                               /\ reader.segment \in 0 .. MaxLen /\ reader.offset \in 0 .. MaxPush
      <4>1. reader # NoReader => reader \in Readers
        BY Zenon DEF PInv, ReaderInv, Reads
      <4> QED BY Zenon, <4>1 DEF Readers
    <3> QED BY Zenon, <3>2, <3>3, <3>4, <3>5, <3>6 DEF PayloadTypeOK
  <2>2. ASSUME NEW p \in Payloads, IsLive(p)
        PROVE  /\ to_bytes(live[p]) = [i \in 1 .. live[p].len |-> i]
               /\ \A i \in 0 .. segment_count(live[p]) - 1 : segment(live[p], i) # Empty
    <3>1. PICK x : x = live[p]
      BY Zenon
    <3>2. x \in Records /\ Chained(x)
      BY Zenon, <2>2, <3>1 DEF PInv, Lives, IsLive
    <3>3. to_bytes(x) = [i \in 1 .. x.len |-> i]
      BY Zenon, <3>2, BytesAre
    <3>4. ASSUME NEW i \in 0 .. segment_count(x) - 1 PROVE segment(x, i) # Empty
      <4>1. Len(segment(x, i)) \in 1 .. MaxPush
        BY Zenon, <3>2 DEF Chained, Link
      <4>2. Len(Empty) = 0
        BY Zenon DEF Empty
      <4>3. 0 \notin 1 .. MaxPush
        OBVIOUS
      <4> QED BY Zenon, <4>1, <4>2, <4>3
    <3> QED BY Zenon, <3>1, <3>3, <3>4
  <2> QED BY Zenon, <2>1, <2>2 DEF SegmentsWellFormed
<1> QED BY PInvHolds, <1>1, PTL
=============================================================================
