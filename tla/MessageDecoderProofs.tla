------------------------ MODULE MessageDecoderProofs ------------------------
(***************************************************************************)
(* The decoder's accounting is exact, its limits hold and what it returns  *)
(* is whole, for all limits and whatever the peer sends.                   *)
(***************************************************************************)
EXTENDS MessageDecoder, FiniteSetTheorems, TLAPS

-----------------------------------------------------------------------------
(* The inductive invariant.                                                *)

StreamT == [known : BOOLEAN, ts : Nat, type : Nat, msid : Nat, len : Nat,
            time_field : Nat, received : Nat, active : BOOLEAN]

ParserT == [streams : [Csids -> StreamT], current : Csids \cup {NoCsid},
            chunk_left : Nat, chunk_size : Nat \ {0}]

PartialT == [kind : {"none", "segmented", "contiguous"}, len : Nat, reserved : Nat,
             segments : Nat]

Holding(pt) == {c \in Csids : pt[c].kind # "none"}

\* What holds of the partial messages pt and the counters also after an error.
Budget(pt, b, r) ==
  /\ pt \in [Csids -> PartialT]
  /\ b = Total([c \in Csids |-> pt[c].len])
  /\ r = Total([c \in Csids |-> pt[c].reserved])
  /\ r <= MaximumBufferedBytes
  /\ \A c \in Csids : /\ pt[c].len <= pt[c].reserved
                       /\ pt[c].segments <= MaximumFragmentsPerMessage
  /\ Cardinality(Holding(pt)) <= MaximumPartialMessages

\* The body x of a message and the progress s of its chunk stream.
BodyOK(s, x) ==
  /\ x.kind # "none" <=> s.active /\ s.received > 0
  /\ x.kind # "none" => x.len = s.received
  /\ x.kind = "contiguous" => x.reserved = s.len
  /\ x.kind = "segmented" => x.reserved = x.len
  /\ x.kind = "none" => x = NoPartial
  /\ s.active => s.received <= s.len

Bodies(p, pt) == \A c \in Csids : BodyOK(p.streams[c], pt[c])

\* The parser stands between chunks or in one that its message has room for.
Place(p) ==
  IF p.current = NoCsid THEN p.chunk_left = 0
  ELSE LET s == p.streams[p.current] IN
       s.active /\ p.chunk_left > 0 /\ s.received + p.chunk_left <= s.len

DecInv ==
  /\ parser \in ParserT
  /\ Budget(partials, buffered, reserved)
  /\ last.len = last.body
  /\ error = "no" => Bodies(parser, partials) /\ Place(parser)

-----------------------------------------------------------------------------
(* Sums over the chunk streams.                                            *)

\* A sum of natural numbers is one, and a single change changes it by as much.
LEMMA TotalChange ==
  ASSUME NEW f \in [Csids -> Nat], NEW g \in [Csids -> Nat], NEW c \in Csids,
         \A d \in Csids \ {c} : g[d] = f[d]
  PROVE  /\ Total(f) \in Nat /\ f[c] <= Total(f)
         /\ Total(g) = (Total(f) - f[c]) + g[c]
<1>1. /\ f[2] \in Nat /\ f[3] \in Nat /\ f[4] \in Nat /\ f[5] \in Nat /\ f[6] \in Nat
      /\ g[2] \in Nat /\ g[3] \in Nat /\ g[4] \in Nat /\ g[5] \in Nat /\ g[6] \in Nat
  BY DEF Csids
<1>2. c \in {2, 3, 4, 5, 6}
  BY DEF Csids
<1>3. /\ c # 2 => g[2] = f[2]
      /\ c # 3 => g[3] = f[3]
      /\ c # 4 => g[4] = f[4]
      /\ c # 5 => g[5] = f[5]
      /\ c # 6 => g[6] = f[6]
  BY DEF Csids
<1> QED BY SMTT(30), <1>1, <1>2, <1>3 DEF Total

\* A sum of smaller numbers is smaller.
LEMMA TotalOrder ==
  ASSUME NEW f \in [Csids -> Nat], NEW g \in [Csids -> Nat],
         \A c \in Csids : f[c] <= g[c]
  PROVE  Total(f) <= Total(g) /\ Total(f) \in Nat /\ Total(g) \in Nat
<1>1. /\ f[2] \in Nat /\ f[3] \in Nat /\ f[4] \in Nat /\ f[5] \in Nat /\ f[6] \in Nat
      /\ g[2] \in Nat /\ g[3] \in Nat /\ g[4] \in Nat /\ g[5] \in Nat /\ g[6] \in Nat
  BY DEF Csids
<1>2. f[2] <= g[2] /\ f[3] <= g[3] /\ f[4] <= g[4] /\ f[5] <= g[5] /\ f[6] <= g[6]
  BY DEF Csids
<1> QED BY <1>1, <1>2 DEF Total

\* The set of chunk streams with a partial message is finite, and grows by at
\* most the stream whose message changes.
LEMMA HoldingChange ==
  ASSUME NEW pt \in [Csids -> PartialT], NEW x \in PartialT, NEW c \in Csids,
         NEW qt, qt = [pt EXCEPT ![c] = x]
  PROVE  /\ Cardinality(Holding(pt)) \in Nat /\ Cardinality(Holding(qt)) \in Nat
         /\ x.kind = "none" \/ pt[c].kind # "none" =>
              Cardinality(Holding(qt)) <= Cardinality(Holding(pt))
         /\ Cardinality(Holding(qt)) <= Cardinality(Holding(pt)) + 1
<1>1. IsFiniteSet(Csids)
  <2>1. 2 \in Int /\ 6 \in Int
    OBVIOUS
  <2> QED BY Zenon, <2>1, FS_Interval DEF Csids
<1>2. /\ Holding(pt) \in SUBSET Csids /\ Holding(qt) \in SUBSET Csids
      /\ Holding(qt) \in SUBSET (Holding(pt) \cup {c})
      /\ x.kind = "none" \/ pt[c].kind # "none" => Holding(qt) \in SUBSET Holding(pt)
  BY Zenon DEF Holding
<1>3. IsFiniteSet(Holding(pt)) /\ IsFiniteSet(Holding(qt))
  BY Zenon, <1>1, <1>2, FS_Subset
<1>4. Cardinality(Holding(pt)) \in Nat /\ Cardinality(Holding(qt)) \in Nat
  BY Zenon, <1>3, FS_CardinalityType
<1>5. /\ IsFiniteSet(Holding(pt) \cup {c})
      /\ Cardinality(Holding(pt) \cup {c}) <= Cardinality(Holding(pt)) + 1
  <2> DEFINE H == Holding(pt)
  <2>1. IsFiniteSet(H) /\ Cardinality(H) \in Nat
    BY Zenon, <1>3, <1>4
  <2> HIDE DEF H
  <2>2. /\ IsFiniteSet(H \cup {c})
        /\ Cardinality(H \cup {c}) = IF c \in H THEN Cardinality(H) ELSE Cardinality(H) + 1
    BY Zenon, <2>1, FS_AddElement
  <2>3. Cardinality(H \cup {c}) <= Cardinality(H) + 1
    BY <2>1, <2>2
  <2> QED BY Zenon, <2>2, <2>3 DEF H
<1>6. /\ Cardinality(Holding(qt)) <= Cardinality(Holding(pt) \cup {c})
      /\ Cardinality(Holding(pt) \cup {c}) \in Nat
  BY Zenon, <1>2, <1>5, FS_Subset, FS_CardinalityType
<1>7. Cardinality(Holding(qt)) <= Cardinality(Holding(pt)) + 1
  BY <1>4, <1>5, <1>6
<1>8. ASSUME x.kind = "none" \/ pt[c].kind # "none"
      PROVE  Cardinality(Holding(qt)) <= Cardinality(Holding(pt))
  BY Zenon, <1>2, <1>3, <1>8, FS_Subset
<1> QED BY Zenon, <1>4, <1>7, <1>8

-----------------------------------------------------------------------------
(* The steps of the decoder, on its state.                                 *)

\* Replacing one partial message keeps the budget when the counters follow and
\* the new one is within its limits.
LEMMA BudgetChange ==
  ASSUME NEW pt, NEW b, NEW r, Budget(pt, b, r),
         NEW c \in Csids, NEW x \in PartialT, NEW qt, qt = [pt EXCEPT ![c] = x],
         x.len <= x.reserved, x.segments <= MaximumFragmentsPerMessage,
         (r - pt[c].reserved) + x.reserved <= MaximumBufferedBytes,
         \/ x.kind = "none" \/ pt[c].kind # "none"
         \/ Cardinality(Holding(pt)) < MaximumPartialMessages
  PROVE  Budget(qt, (b - pt[c].len) + x.len, (r - pt[c].reserved) + x.reserved)
<1>1. /\ pt \in [Csids -> PartialT] /\ qt \in [Csids -> PartialT]
      /\ qt[c] = x /\ \A d \in Csids \ {c} : qt[d] = pt[d]
  BY Zenon DEF Budget
<1> DEFINE fl == [d \in Csids |-> pt[d].len]
           gl == [d \in Csids |-> qt[d].len]
           fr == [d \in Csids |-> pt[d].reserved]
           gr == [d \in Csids |-> qt[d].reserved]
<1>2. \A y \in PartialT : y.len \in Nat /\ y.reserved \in Nat /\ y.segments \in Nat
  BY Zenon DEF PartialT
<1>3. /\ fl \in [Csids -> Nat] /\ gl \in [Csids -> Nat]
      /\ fr \in [Csids -> Nat] /\ gr \in [Csids -> Nat]
  BY Zenon, <1>1, <1>2
<1>4. /\ \A d \in Csids \ {c} : gl[d] = fl[d] /\ gr[d] = fr[d]
      /\ fl[c] = pt[c].len /\ gl[c] = x.len
      /\ fr[c] = pt[c].reserved /\ gr[c] = x.reserved
  BY Zenon, <1>1
<1>5. b = Total(fl) /\ r = Total(fr)
  BY Zenon DEF Budget
<1> HIDE DEF fl, gl, fr, gr
<1>6. Total(gl) = (b - pt[c].len) + x.len /\ Total(gr) = (r - pt[c].reserved) + x.reserved
  BY <1>3, <1>4, <1>5, TotalChange
<1>7. \A d \in Csids : /\ qt[d].len <= qt[d].reserved
                        /\ qt[d].segments <= MaximumFragmentsPerMessage
  BY Zenon, <1>1 DEF Budget
<1>8. Cardinality(Holding(qt)) <= MaximumPartialMessages
  <2>1. Cardinality(Holding(pt)) <= MaximumPartialMessages /\ MaximumPartialMessages \in Nat
    BY Zenon, ParserLimits DEF Budget
  <2>2. /\ Cardinality(Holding(pt)) \in Nat /\ Cardinality(Holding(qt)) \in Nat
        /\ x.kind = "none" \/ pt[c].kind # "none" =>
             Cardinality(Holding(qt)) <= Cardinality(Holding(pt))
        /\ Cardinality(Holding(qt)) <= Cardinality(Holding(pt)) + 1
    BY Zenon, <1>1, HoldingChange
  <2>3. CASE x.kind = "none" \/ pt[c].kind # "none"
    BY <2>1, <2>2, <2>3
  <2>4. CASE Cardinality(Holding(pt)) < MaximumPartialMessages
    BY <2>1, <2>2, <2>4
  <2> QED BY Zenon, <2>3, <2>4
<1> QED BY Zenon, <1>1, <1>6, <1>7, <1>8 DEF Budget, gl, gr

\* In a budget every counter covers what each message holds.
LEMMA BudgetCovers ==
  ASSUME NEW pt, NEW b, NEW r, Budget(pt, b, r)
  PROVE  /\ b \in Nat /\ r \in Nat /\ b <= r
         /\ \A c \in Csids : /\ pt[c] \in PartialT /\ pt[c].len \in Nat
                              /\ pt[c].reserved \in Nat /\ pt[c].segments \in Nat
                              /\ pt[c].len <= b /\ pt[c].reserved <= r
<1> DEFINE fl == [d \in Csids |-> pt[d].len]
           fr == [d \in Csids |-> pt[d].reserved]
<1>1. \A c \in Csids : /\ pt[c] \in PartialT /\ pt[c].len \in Nat /\ pt[c].reserved \in Nat
                        /\ pt[c].segments \in Nat /\ pt[c].len <= pt[c].reserved
  BY Zenon DEF Budget, PartialT
<1>2. /\ fl \in [Csids -> Nat] /\ fr \in [Csids -> Nat] /\ b = Total(fl) /\ r = Total(fr)
      /\ \A c \in Csids : fl[c] = pt[c].len /\ fr[c] = pt[c].reserved /\ fl[c] <= fr[c]
  BY Zenon, <1>1 DEF Budget
<1> HIDE DEF fl, fr
<1>3. b \in Nat /\ r \in Nat /\ b <= r
  BY Zenon, <1>2, TotalOrder
<1>4. \A c \in Csids : fl[c] <= b /\ fr[c] <= r
  BY Zenon, <1>2, TotalChange
<1> QED BY Zenon, <1>1, <1>2, <1>3, <1>4

\* NoPartial takes nothing.
LEMMA NoPartialFacts ==
  /\ NoPartial \in PartialT /\ NoPartial.kind = "none" /\ NoPartial.len = 0
  /\ NoPartial.reserved = 0 /\ NoPartial.segments = 0
BY Zenon DEF NoPartial, PartialT

\* Removing a partial message gives back what it held.
LEMMA BudgetRemove ==
  ASSUME NEW pt, NEW b, NEW r, Budget(pt, b, r), NEW c \in Csids
  PROVE  Budget([pt EXCEPT ![c] = NoPartial], b - pt[c].len, r - pt[c].reserved)
<1>1. /\ b \in Nat /\ r \in Nat /\ pt[c].len \in Nat /\ pt[c].reserved \in Nat
      /\ pt[c].len <= b /\ pt[c].reserved <= r
  BY Zenon, BudgetCovers
<1>2. r <= MaximumBufferedBytes /\ MaximumBufferedBytes \in Nat /\ MaximumFragmentsPerMessage \in Nat
  BY Zenon, DecoderAssumption DEF Budget
<1> DEFINE x == NoPartial
<1>3. /\ x \in PartialT /\ x.kind = "none" /\ x.len = 0 /\ x.reserved = 0 /\ x.segments = 0
  BY Zenon, NoPartialFacts
<1> HIDE DEF x
<1>4. Budget([pt EXCEPT ![c] = x], (b - pt[c].len) + x.len, (r - pt[c].reserved) + x.reserved)
  BY <1>1, <1>2, <1>3, BudgetChange
<1>5. (b - pt[c].len) + x.len = b - pt[c].len /\ (r - pt[c].reserved) + x.reserved = r - pt[c].reserved
  BY <1>1, <1>3
<1> QED BY Zenon, <1>4, <1>5 DEF x

-----------------------------------------------------------------------------
(* The steps of the parser.                                                *)

\* The fields of a parser and its streams.
LEMMA ParserFields ==
  ASSUME NEW p \in ParserT
  PROVE  /\ p.streams \in [Csids -> StreamT] /\ p.current \in Csids \cup {NoCsid}
         /\ p.chunk_left \in Nat /\ p.chunk_size \in Nat \ {0} /\ NoCsid \notin Csids
         /\ \A c \in Csids : LET s == p.streams[c] IN
              /\ s \in StreamT /\ s.known \in BOOLEAN /\ s.active \in BOOLEAN
              /\ s.len \in Nat /\ s.received \in Nat /\ s.type \in Nat /\ s.msid \in Nat
              /\ s.ts \in Nat /\ s.time_field \in Nat
<1>1. /\ p.streams \in [Csids -> StreamT] /\ p.current \in Csids \cup {NoCsid}
      /\ p.chunk_left \in Nat /\ p.chunk_size \in Nat \ {0}
  BY Zenon DEF ParserT
<1>2. NoCsid \notin Csids
  BY DEF NoCsid, Csids
<1>3. \A s \in StreamT : /\ s.known \in BOOLEAN /\ s.active \in BOOLEAN
                          /\ s.len \in Nat /\ s.received \in Nat /\ s.type \in Nat
                          /\ s.msid \in Nat /\ s.ts \in Nat /\ s.time_field \in Nat
  BY Zenon DEF StreamT
<1> QED BY Zenon, <1>1, <1>2, <1>3

\* An abort stops the message of one stream and touches no other.
LEMMA AbortFacts ==
  ASSUME NEW p \in ParserT, NEW c \in Csids, NEW q, q = abort_chunk_stream(p, c)
  PROVE  /\ q \in ParserT
         /\ \A d \in Csids \ {c} : q.streams[d] = p.streams[d]
         /\ ~q.streams[c].active
         /\ p.current # c => q.current = p.current /\ q.chunk_left = p.chunk_left
<1>1. /\ p.streams \in [Csids -> StreamT] /\ p.current \in Csids \cup {NoCsid}
      /\ p.chunk_left \in Nat /\ p.chunk_size \in Nat \ {0}
  BY Zenon, ParserFields
<1> DEFINE s == p.streams[c]
           t == [s EXCEPT !.active = FALSE, !.received = 0]
           ss == [p.streams EXCEPT ![c].active = FALSE, ![c].received = 0]
<1>2. s \in StreamT
  BY Zenon, <1>1
<1>3. t \in StreamT /\ t.active = FALSE
  BY Zenon, <1>2 DEF StreamT
<1>4. ss = [p.streams EXCEPT ![c] = t]
  BY Zenon, <1>1
<1> HIDE DEF t
<1>5. ss \in [Csids -> StreamT] /\ ss[c] = t /\ \A d \in Csids \ {c} : ss[d] = p.streams[d]
  BY Zenon, <1>1, <1>3, <1>4
<1> HIDE DEF ss
<1>6. /\ q.streams = ss /\ q.current = IF p.current = c THEN NoCsid ELSE p.current
      /\ q.chunk_left = IF p.current = c THEN 0 ELSE p.chunk_left
      /\ q.chunk_size = p.chunk_size
      /\ q = [streams |-> q.streams, current |-> q.current, chunk_left |-> q.chunk_left,
              chunk_size |-> q.chunk_size]
  BY Zenon DEF abort_chunk_stream, ss, ParserT
<1>7. q \in ParserT
  BY <1>1, <1>5, <1>6 DEF ParserT
<1> QED BY Zenon, <1>3, <1>5, <1>6, <1>7

\* A fragment is taken from the current chunk; no other stream changes.
LEMMA ConsumeFacts ==
  ASSUME NEW p \in ParserT, p.current \in Csids, NEW n \in Nat, n <= p.chunk_left,
         NEW q, q = consume(p, n), NEW c, c = p.current
  PROVE  /\ q \in ParserT
         /\ \A d \in Csids \ {c} : q.streams[d] = p.streams[d]
         /\ q.streams[c].received = p.streams[c].received + n
         /\ q.streams[c].active = ~CompletesMessage(p, n)
         /\ q.streams[c].len = p.streams[c].len
         /\ q.current = IF p.chunk_left = n THEN NoCsid ELSE c
         /\ q.chunk_left = p.chunk_left - n
<1>1. /\ p.streams \in [Csids -> StreamT] /\ p.current \in Csids \cup {NoCsid}
      /\ p.chunk_left \in Nat /\ p.chunk_size \in Nat \ {0}
  BY Zenon, ParserFields
<1>2. PICK goes \in BOOLEAN : goes = ~CompletesMessage(p, n)
  <2>1. CASE CompletesMessage(p, n)
    <3>1. FALSE \in BOOLEAN /\ FALSE = ~CompletesMessage(p, n)
      BY Zenon, <2>1
    <3> QED BY Zenon, <3>1
  <2>2. CASE ~CompletesMessage(p, n)
    <3>1. TRUE \in BOOLEAN /\ TRUE = ~CompletesMessage(p, n)
      BY Zenon, <2>2
    <3> QED BY Zenon, <3>1
  <2> QED BY Zenon, <2>1, <2>2
<1> DEFINE s == p.streams[c]
           t == [s EXCEPT !.received = s.received + n, !.active = goes]
           ss == [p.streams EXCEPT ![c] = t]
<1>3. s \in StreamT /\ s.received \in Nat
  BY Zenon, <1>1, ParserFields
<1> HIDE DEF s
<1>4. t \in StreamT /\ t.received = s.received + n /\ t.active = goes /\ t.len = s.len
  <2>1. s.received + n \in Nat
    BY <1>3
  <2>2. PICK m \in Nat : m = s.received + n
    BY Zenon, <2>1
  <2>3. /\ [s EXCEPT !.received = m, !.active = goes] \in StreamT
        /\ [s EXCEPT !.received = m, !.active = goes].received = m
        /\ [s EXCEPT !.received = m, !.active = goes].len = s.len
    BY Zenon, <1>3 DEF StreamT
  <2>4. t.active = goes
    BY Zenon, <1>3 DEF StreamT
  <2> QED BY Zenon, <2>2, <2>3, <2>4
<1>5. q = [streams |-> ss, current |-> IF p.chunk_left = n THEN NoCsid ELSE c,
           chunk_left |-> p.chunk_left - n, chunk_size |-> p.chunk_size]
  BY Zenon, <1>2 DEF consume, s
<1> HIDE DEF t
<1>6. ss \in [Csids -> StreamT] /\ ss[c] = t /\ \A d \in Csids \ {c} : ss[d] = p.streams[d]
  BY Zenon, <1>1, <1>4
<1> HIDE DEF ss
<1>7. /\ q.streams = ss /\ q.current = IF p.chunk_left = n THEN NoCsid ELSE c
      /\ q.chunk_left = p.chunk_left - n
  BY <1>5
<1>8. q \in ParserT
  BY <1>1, <1>5, <1>6 DEF ParserT
<1> QED BY Zenon, <1>2, <1>4, <1>6, <1>7, <1>8 DEF s

\* The headers a peer sends are well typed.
LEMMA PeerHeaderFields ==
  ASSUME NEW h \in PeerHeaders
  PROVE  /\ h.csid \in Csids /\ h.len \in Nat /\ h.type \in Nat /\ h.msid \in Nat
         /\ h.field \in Nat /\ h.ext \in Nat
BY DecoderAssumption, ClockAssumption DEF PeerHeaders, NoExt

\* A header that is not refused begins or continues a message, and the chunk
\* it announces fits into what is left of it.
LEMMA BeginFacts ==
  ASSUME NEW p \in ParserT, NEW h \in PeerHeaders, ~BeginChunkFails(p, h),
         NEW pt, Bodies(p, pt),
         NEW q, q = begin_chunk(p, h), NEW c, c = h.csid
  PROVE  /\ q \in ParserT /\ q.current = c /\ c \in Csids
         /\ Bodies(q, pt)
         /\ q.streams[c].active
         /\ q.streams[c].received + q.chunk_left <= q.streams[c].len
         /\ q.chunk_left = 0 => q.streams[c].received = q.streams[c].len
<1>1. /\ c \in Csids /\ h.len \in Nat /\ h.type \in Nat /\ h.msid \in Nat
      /\ h.field \in Nat /\ h.ext \in Nat
  BY Zenon, PeerHeaderFields
<1> DEFINE old == p.streams[c]
<1>2. /\ old \in StreamT /\ old.known \in BOOLEAN /\ old.active \in BOOLEAN
      /\ old.len \in Nat /\ old.received \in Nat /\ old.type \in Nat /\ old.msid \in Nat
      /\ old.ts \in Nat /\ old.time_field \in Nat
      /\ p.chunk_size \in Nat \ {0} /\ p.streams \in [Csids -> StreamT]
  BY Zenon, <1>1, ParserFields
<1>3. BodyOK(old, pt[c])
  BY Zenon, <1>1 DEF Bodies
<1> DEFINE time == HeaderTime(p, h)
           m == MessageHeader(p, h)
           got == IF old.active THEN old.received ELSE 0
           t == [known |-> TRUE, ts |-> m.ts, type |-> m.type, msid |-> m.msid,
                 len |-> m.len, time_field |-> time, received |-> got, active |-> TRUE]
           ss == [p.streams EXCEPT ![c] = t]
           left == MinOf(m.len - got, p.chunk_size)
<1>4. q = [streams |-> ss, current |-> c, chunk_left |-> left, chunk_size |-> p.chunk_size]
  BY Zenon DEF begin_chunk
<1>5. time \in Nat
  BY Zenon, <1>1, <1>2 DEF HeaderTime
<1>6. old.active => m.len = old.len /\ old.received <= m.len
  <2>1. old.active => ~(m.len < old.received) /\ m.len = old.len
    BY Zenon DEF BeginChunkFails, InvalidContinuation
  <2> QED BY <2>1, <1>2
<1> HIDE DEF old, time
<1>7. m.len \in Nat /\ m.type \in Nat /\ m.msid \in Nat /\ m.ts \in Nat
  <2>1. \A a, b \in Nat : add_values(a, b) \in Nat
    BY ClockAssumption DEF add_values
  <2>2. /\ m.len = h.len \/ m.len = old.len
        /\ m.type = h.type \/ m.type = old.type
        /\ m.msid = h.msid \/ m.msid = old.msid
        /\ m.ts = old.ts \/ m.ts = time \/ m.ts = add_values(old.ts, time)
    BY SMTT(20) DEF MessageHeader, old, time
  <2> HIDE DEF m
  <2> QED BY ZenonT(40), <2>1, <2>2, <1>1, <1>2, <1>5
<1> HIDE DEF m
<1>8. got \in Nat /\ got <= m.len /\ (old.active => got = old.received) /\ (~old.active => got = 0)
  BY <1>2, <1>6, <1>7
<1> HIDE DEF got
<1>9. left \in Nat /\ got + left <= m.len /\ (left = 0 => got = m.len)
  BY <1>2, <1>7, <1>8 DEF MinOf
<1> HIDE DEF left
<1>10. t \in StreamT /\ t.received = got /\ t.len = m.len /\ t.active
  BY Zenon, <1>5, <1>7, <1>8 DEF StreamT
<1> HIDE DEF t
<1>11. ss \in [Csids -> StreamT] /\ ss[c] = t /\ \A d \in Csids \ {c} : ss[d] = p.streams[d]
  BY Zenon, <1>1, <1>2, <1>10
<1> HIDE DEF ss
<1>12. q \in ParserT /\ q.streams = ss /\ q.current = c /\ q.chunk_left = left
  BY <1>1, <1>2, <1>4, <1>9, <1>11 DEF ParserT
<1>13. BodyOK(t, pt[c])
  <2>1. CASE old.active
    BY Zenon, <2>1, <1>2, <1>3, <1>6, <1>8, <1>10 DEF BodyOK
  <2>2. CASE ~old.active
    BY <2>2, <1>2, <1>3, <1>8, <1>10 DEF BodyOK
  <2> QED BY Zenon, <2>1, <2>2
<1>14. Bodies(q, pt)
  BY Zenon, <1>11, <1>12, <1>13 DEF Bodies
<1> QED BY Zenon, <1>1, <1>9, <1>10, <1>11, <1>12, <1>14

-----------------------------------------------------------------------------
(* The steps of the decoder.                                               *)

\* A decoder between chunks.
Resting(p, pt, b, r) ==
  /\ p \in ParserT /\ p.current = NoCsid /\ p.chunk_left = 0
  /\ Budget(pt, b, r) /\ Bodies(p, pt)

\* An abort takes the message of one stream and what was counted for it.
LEMMA AbortedRests ==
  ASSUME NEW p, NEW pt, NEW b, NEW r, Resting(p, pt, b, r), NEW c \in Csids
  PROVE  Resting(abort_chunk_stream(p, c), [pt EXCEPT ![c] = NoPartial],
                 b - pt[c].len, r - pt[c].reserved)
<1> DEFINE q == abort_chunk_stream(p, c)
           qt == [pt EXCEPT ![c] = NoPartial]
<1>0. p \in ParserT /\ q = abort_chunk_stream(p, c)
  BY Zenon DEF Resting
<1> HIDE DEF q
<1>1. q \in ParserT
  BY Zenon, <1>0, AbortFacts
<1>11. \A d \in Csids \ {c} : q.streams[d] = p.streams[d]
  BY <1>0, AbortFacts
<1>12. ~q.streams[c].active
  BY Zenon, <1>0, AbortFacts
<1>13. q.current = NoCsid /\ q.chunk_left = 0
  <2>1. p.current = NoCsid /\ p.current # c /\ p.chunk_left = 0
    BY Zenon, ParserFields DEF Resting
  <2> QED BY Zenon, <1>0, <2>1, AbortFacts
<1>2. Budget(qt, b - pt[c].len, r - pt[c].reserved)
  BY Zenon, BudgetRemove DEF Resting
<1>3. /\ qt[c] = NoPartial /\ \A d \in Csids \ {c} : qt[d] = pt[d]
  BY Zenon DEF Resting, Budget
<1> HIDE DEF qt
<1>4. BodyOK(q.streams[c], qt[c])
  BY Zenon, <1>12, <1>3, NoPartialFacts DEF BodyOK
<1>5. Bodies(q, qt)
  BY Zenon, <1>11, <1>3, <1>4 DEF Bodies, Resting
<1>6. Resting(q, qt, b - pt[c].len, r - pt[c].reserved)
  BY Zenon, <1>1, <1>13, <1>2, <1>5 DEF Resting
<1> QED BY Zenon, <1>6 DEF q, qt

\* A SetChunkSize is applied between chunks.
LEMMA ResizedRests ==
  ASSUME NEW p, NEW pt, NEW b, NEW r, Resting(p, pt, b, r), NEW size \in Nat, size # 0
  PROVE  Resting(set_chunk_size(p, size), pt, b, r)
<1> DEFINE q == set_chunk_size(p, size)
<1>1. /\ q \in ParserT /\ q.streams = p.streams /\ q.current = p.current
      /\ q.chunk_left = p.chunk_left
  BY Zenon DEF set_chunk_size, ParserT, Resting
<1> HIDE DEF q
<1>2. Resting(q, pt, b, r)
  BY Zenon, <1>1 DEF Resting, Bodies
<1> QED BY Zenon, <1>2 DEF q

\* A whole message is returned and applied.
LEMMA ReturnKeeps ==
  ASSUME NEW p, NEW pt, NEW b, NEW r, Resting(p, pt, b, r), NEW s, NEW body, s.len = body,
         Return([parser |-> p, partials |-> pt, buffered |-> b, reserved |-> r], s, body)
  PROVE  DecInv' /\ parser'.current = NoCsid /\ parser'.chunk_left = 0
<1> DEFINE d == [parser |-> p, partials |-> pt, buffered |-> b, reserved |-> r]
<1>1. last'.len = last'.body
  BY Zenon DEF Return
<1>2. \/ Becomes(d)
      \/ \E size \in PeerSizes : ChunkSizeAccepted(size) /\ Becomes(Resized(d, size))
      \/ \E c \in PeerCsids : Becomes(Aborted(d, c))
  BY Zenon DEF Return
<1>3. Resting(parser', partials', buffered', reserved')
  <2>1. CASE Becomes(d)
    BY Zenon, <2>1 DEF Becomes
  <2>2. ASSUME NEW size \in PeerSizes, ChunkSizeAccepted(size), Becomes(Resized(d, size))
        PROVE  Resting(parser', partials', buffered', reserved')
    <3>1. /\ parser' = set_chunk_size(p, size) /\ partials' = pt
          /\ buffered' = b /\ reserved' = r
      BY Zenon, <2>2 DEF Becomes, Resized
    <3>2. size \in Nat /\ size # 0
      BY Zenon, <2>2, DecoderAssumption DEF ChunkSizeAccepted
    <3> QED BY Zenon, <3>1, <3>2, ResizedRests
  <2>3. ASSUME NEW c \in PeerCsids, Becomes(Aborted(d, c))
        PROVE  Resting(parser', partials', buffered', reserved')
    <3>1. /\ parser' = abort_chunk_stream(p, c) /\ partials' = [pt EXCEPT ![c] = NoPartial]
          /\ buffered' = b - pt[c].len /\ reserved' = r - pt[c].reserved
      BY Zenon, <2>3 DEF Becomes, Aborted
    <3>2. c \in Csids
      BY Zenon, DecoderAssumption
    <3> QED BY Zenon, <3>1, <3>2, AbortedRests
  <2> QED BY Zenon, <1>2, <2>1, <2>2, <2>3
<1> QED BY Zenon, <1>1, <1>3 DEF DecInv, Resting, Place

\* The message that a fragment is added to: the partial one of the stream, or
\* an empty one.
LEMMA AssemblyFacts ==
  ASSUME NEW p \in ParserT, NEW c \in Csids, c = p.current, NEW owned \in BOOLEAN,
         Budget(partials, buffered, reserved), BodyOK(p.streams[c], partials[c]),
         p.streams[c].active, NEW a, a = Assembly(p, owned)
  PROVE  /\ a \in PartialT /\ a.kind # "none" /\ a.len = p.streams[c].received
         /\ a.len = partials[c].len /\ a.segments <= MaximumFragmentsPerMessage
         /\ a.kind = "contiguous" => a.reserved = p.streams[c].len
         /\ a.kind = "segmented" => a.reserved = a.len
         /\ c \in Partials => a = partials[c]
         /\ c \notin Partials => partials[c].reserved = 0 /\ p.streams[c].received = 0
         /\ c \notin Partials /\ owned => a.reserved = 0
         /\ c \notin Partials /\ ~owned => a.reserved = p.streams[c].len
<1> DEFINE s == p.streams[c]
           x == partials[c]
<1>1. s.len \in Nat /\ s.received \in Nat /\ s.active
  BY Zenon, ParserFields
<1>2. x \in PartialT /\ x.segments <= MaximumFragmentsPerMessage
  BY Zenon DEF Budget
<1>3. MaximumFragmentsPerMessage \in Nat
  BY Zenon, DecoderAssumption
<1>4. c \in Partials <=> x.kind # "none"
  BY Zenon DEF Partials
<1>5. BodyOK(s, x)
  BY Zenon
<1>6. /\ c \in Partials => a = x
      /\ c \notin Partials /\ owned =>
           a = [kind |-> "segmented", len |-> 0, reserved |-> 0, segments |-> 0]
      /\ c \notin Partials /\ ~owned =>
           a = [kind |-> "contiguous", len |-> 0, reserved |-> s.len, segments |-> 0]
  BY Zenon DEF Assembly
<1> HIDE DEF s, x
<1>7. CASE c \in Partials
  <2>1. a = x /\ x.kind # "none"
    BY Zenon, <1>4, <1>6, <1>7
  <2>2. /\ x.len = s.received
        /\ x.kind = "contiguous" => x.reserved = s.len
        /\ x.kind = "segmented" => x.reserved = x.len
    BY Zenon, <2>1, <1>5 DEF BodyOK
  <2> QED BY Zenon, <2>1, <2>2, <1>2, <1>7 DEF s, x
<1>8. CASE c \notin Partials
  <2>1. x = NoPartial /\ s.received = 0
    BY SMTT(20), <1>1, <1>4, <1>5, <1>8 DEF BodyOK
  <2>2. x.len = 0 /\ x.reserved = 0
    BY Zenon, <2>1, NoPartialFacts
  <2>3. CASE owned
    <3>1. a = [kind |-> "segmented", len |-> 0, reserved |-> 0, segments |-> 0]
      BY Zenon, <1>6, <1>8, <2>3
    <3>2. /\ a \in PartialT /\ a.kind = "segmented" /\ a.len = 0 /\ a.reserved = 0
          /\ a.segments = 0
      BY <3>1 DEF PartialT
    <3>3. a.segments <= MaximumFragmentsPerMessage
      BY <3>2, <1>3
    <3> QED BY Zenon, <2>1, <2>2, <2>3, <3>2, <3>3, <1>8 DEF s, x
  <2>4. CASE ~owned
    <3>1. a = [kind |-> "contiguous", len |-> 0, reserved |-> s.len, segments |-> 0]
      BY Zenon, <1>6, <1>8, <2>4
    <3>2. /\ a \in PartialT /\ a.kind = "contiguous" /\ a.len = 0 /\ a.reserved = s.len
          /\ a.segments = 0
      BY <3>1, <1>1 DEF PartialT
    <3> QED BY <2>1, <2>2, <2>4, <3>2, <1>3, <1>8 DEF s, x
  <2> QED BY SMTT(20), <2>3, <2>4
<1> QED BY SMTT(20), <1>7, <1>8

\* A fragment of n bytes adds n bytes, and to a segmented message one segment.
LEMMA ExtendFacts ==
  ASSUME NEW a \in PartialT, a.kind # "none", NEW n \in Nat, NEW e, e = Extend(a, n)
  PROVE  /\ e \in PartialT /\ e.kind = a.kind /\ e.len = a.len + n
         /\ a.kind = "segmented" => /\ e.reserved = a.reserved + n
                                    /\ e.segments = IF n = 0 THEN a.segments
                                                             ELSE a.segments + 1
         /\ a.kind = "contiguous" => e.reserved = a.reserved /\ e.segments = a.segments
<1>1. a.len \in Nat /\ a.reserved \in Nat /\ a.segments \in Nat
      /\ a.kind \in {"segmented", "contiguous"}
  BY Zenon DEF PartialT
<1>2. PICK l \in Nat, r \in Nat, g \in Nat :
        /\ l = a.len + n /\ r = a.reserved + n
        /\ g = IF n = 0 THEN a.segments ELSE a.segments + 1
  <2>1. a.len + n \in Nat /\ a.reserved + n \in Nat /\ a.segments + 1 \in Nat
    BY <1>1
  <2> QED BY Zenon, <1>1, <2>1
<1>3. CASE a.kind = "segmented"
  <2>1. e = [a EXCEPT !.len = l, !.reserved = r, !.segments = g]
    BY Zenon, <1>2, <1>3 DEF Extend
  <2>2. /\ e \in PartialT /\ e.kind = a.kind /\ e.len = l /\ e.reserved = r
        /\ e.segments = g
    BY Zenon, <2>1 DEF PartialT
  <2> QED BY Zenon, <1>2, <1>3, <2>2
<1>4. CASE a.kind = "contiguous"
  <2>1. e = [a EXCEPT !.len = l]
    BY Zenon, <1>2, <1>4 DEF Extend
  <2>2. /\ e \in PartialT /\ e.kind = a.kind /\ e.len = l /\ e.reserved = a.reserved
        /\ e.segments = a.segments
    BY Zenon, <2>1 DEF PartialT
  <2> QED BY Zenon, <1>2, <1>4, <2>2
<1> QED BY Zenon, <1>1, <1>3, <1>4

\* A fragment is refused, extends a message or completes it.
LEMMA FragmentKeeps ==
  ASSUME NEW p \in ParserT, NEW c \in Csids, c = p.current, NEW owned \in BOOLEAN,
         Budget(partials, buffered, reserved), Bodies(p, partials),
         last.len = last.body, p.streams[c].active,
         NEW n \in Nat, n <= p.chunk_left,
         p.streams[c].received + p.chunk_left <= p.streams[c].len,
         n = 0 => p.streams[c].received = p.streams[c].len,
         Fragment(p, n, owned)
  PROVE  /\ DecInv'
         /\ last' # last => parser'.current = NoCsid /\ parser'.chunk_left = 0
<1> DEFINE s == p.streams[c]
           x == partials[c]
           next == consume(p, n)
           a == Assembly(p, owned)
           held == IF c \in Partials THEN reserved ELSE reserved + a.reserved
           e == Extend(a, n)
           full == held + (e.reserved - a.reserved)
<1>1. /\ s.received \in Nat /\ s.len \in Nat /\ s.active /\ p.chunk_left \in Nat
      /\ s.received + p.chunk_left <= s.len /\ (n = 0 => s.received = s.len)
      /\ BodyOK(s, x)
  BY SMTT(20), ParserFields DEF Bodies
<1>2. /\ buffered \in Nat /\ reserved \in Nat /\ x \in PartialT /\ x.len \in Nat
      /\ x.reserved \in Nat /\ x.len <= buffered /\ x.reserved <= reserved
  BY Zenon, BudgetCovers
<1>3. /\ next \in ParserT
      /\ \A d \in Csids \ {c} : next.streams[d] = p.streams[d]
      /\ next.streams[c].received = s.received + n
      /\ next.streams[c].active = ~CompletesMessage(p, n)
      /\ next.streams[c].len = s.len
      /\ next.current = IF p.chunk_left = n THEN NoCsid ELSE c
      /\ next.chunk_left = p.chunk_left - n
  BY SMTT(20), ConsumeFacts
<1>4. /\ a \in PartialT /\ a.kind # "none" /\ a.len = s.received
      /\ a.len = x.len /\ a.segments <= MaximumFragmentsPerMessage
      /\ a.kind = "contiguous" => a.reserved = s.len
      /\ a.kind = "segmented" => a.reserved = a.len
      /\ c \in Partials => a = x
      /\ c \notin Partials => x.reserved = 0 /\ s.received = 0
      /\ c \notin Partials /\ owned => a.reserved = 0
      /\ c \notin Partials /\ ~owned => a.reserved = s.len
  BY SMTT(20), <1>1, AssemblyFacts
<1>5. CompletesMessage(p, n) <=> s.received + n = s.len
  BY SMTT(20) DEF CompletesMessage
<1>6. /\ e \in PartialT /\ e.kind = a.kind /\ e.len = a.len + n
      /\ a.kind = "segmented" => /\ e.reserved = a.reserved + n
                                 /\ e.segments = IF n = 0 THEN a.segments
                                                          ELSE a.segments + 1
      /\ a.kind = "contiguous" => e.reserved = a.reserved /\ e.segments = a.segments
  BY SMTT(20), <1>4, ExtendFacts
<1>7. /\ a.len \in Nat /\ a.reserved \in Nat /\ a.segments \in Nat
      /\ e.len \in Nat /\ e.reserved \in Nat /\ e.segments \in Nat
      /\ a.kind \in {"segmented", "contiguous"}
      /\ MaximumBufferedBytes \in Nat /\ MaximumFragmentsPerMessage \in Nat
  <2>1. \A y \in PartialT : /\ y.len \in Nat /\ y.reserved \in Nat /\ y.segments \in Nat
                            /\ y.kind \in {"none", "segmented", "contiguous"}
    BY SMTT(20) DEF PartialT
  <2> QED BY SMTT(20), <2>1, <1>4, <1>6, DecoderAssumption
<1>8. \/ /\ Refused(p, n, owned) # "no"
         /\ Fail(next, Refused(p, n, owned)) /\ UNCHANGED <<partials, buffered, reserved>>
      \/ /\ Refused(p, n, owned) = "no" /\ CompletesMessage(p, n) /\ c \notin Partials
         /\ Return([parser |-> next, partials |-> partials, buffered |-> buffered,
                    reserved |-> reserved], s, n)
      \/ /\ Refused(p, n, owned) = "no" /\ ~(CompletesMessage(p, n) /\ c \notin Partials)
         /\ SegmentRefused(a, n, held) # "no"
         /\ Fail(next, SegmentRefused(a, n, held))
         /\ partials' = [partials EXCEPT ![c] = a] /\ reserved' = held /\ UNCHANGED buffered
      \/ /\ CompletesMessage(p, n) /\ c \in Partials
         /\ Return([parser |-> next, partials |-> [partials EXCEPT ![c] = NoPartial],
                    buffered |-> (buffered + n) - e.len,
                    reserved |-> full - e.reserved], s, e.len)
      \/ /\ Refused(p, n, owned) = "no" /\ ~CompletesMessage(p, n)
         /\ SegmentRefused(a, n, held) = "no"
         /\ parser' = next /\ partials' = [partials EXCEPT ![c] = e]
         /\ buffered' = buffered + n /\ reserved' = full /\ UNCHANGED <<last, error>>
  BY ZenonT(60) DEF Fragment
<1>9. held = (reserved - x.reserved) + a.reserved /\ full = (reserved - x.reserved) + e.reserved
  <2> HIDE DEF s, x, next, a, e
  <2>1. CASE c \in Partials
    <3>1. x.reserved = a.reserved /\ held = reserved
      BY Zenon, <2>1, <1>4
    <3>2. reserved \in Nat /\ x.reserved \in Nat /\ a.reserved \in Nat /\ e.reserved \in Nat
      BY Zenon, <1>2, <1>7
    <3> HIDE DEF held
    <3> QED BY <3>1, <3>2
  <2>2. CASE c \notin Partials
    <3>1. x.reserved = 0 /\ held = reserved + a.reserved
      BY Zenon, <2>2, <1>4
    <3>2. reserved \in Nat /\ a.reserved \in Nat /\ e.reserved \in Nat
      BY Zenon, <1>2, <1>7
    <3> HIDE DEF held
    <3> QED BY <3>1, <3>2
  <2> QED BY Zenon, <2>1, <2>2
<1>10. ASSUME Refused(p, n, owned) = "no", ~(CompletesMessage(p, n) /\ c \notin Partials)
       PROVE  /\ c \notin Partials => Cardinality(Holding(partials)) < MaximumPartialMessages
              /\ held <= MaximumBufferedBytes
  <2>1. c \notin Partials => /\ ~(Cardinality(Partials) >= MaximumPartialMessages)
                             /\ ~owned => ~(reserved + s.len > MaximumBufferedBytes)
    BY Zenon, <1>10 DEF Refused
  <2>2. Cardinality(Partials) \in Nat /\ MaximumPartialMessages \in Nat /\ Partials = Holding(partials)
    <3>1. partials = [partials EXCEPT ![c] = x] /\ partials \in [Csids -> PartialT]
      BY Zenon DEF Budget
    <3>2. Cardinality(Holding(partials)) \in Nat
      BY Zenon, <3>1, <1>2, HoldingChange
    <3>3. Partials = Holding(partials)
      BY Zenon DEF Partials, Holding
    <3> QED BY Zenon, <3>2, <3>3, ParserLimits
  <2>3. c \notin Partials => Cardinality(Holding(partials)) < MaximumPartialMessages
    BY <2>1, <2>2
  <2>4. reserved <= MaximumBufferedBytes
    BY Zenon DEF Budget
  <2>5. CASE c \in Partials
    BY Zenon, <2>4, <2>5, <2>3
  <2>6. CASE c \notin Partials /\ owned
    <3>1. x.reserved = 0 /\ a.reserved = 0
      BY Zenon, <1>4, <2>6
    <3>2. held = reserved
      BY SMTT(20), <3>1, <1>2, <1>9
    <3> QED BY Zenon, <3>2, <2>3, <2>4
  <2>7. CASE c \notin Partials /\ ~owned
    <3>1. x.reserved = 0 /\ a.reserved = s.len
      BY Zenon, <1>4, <2>7
    <3>2. ~(reserved + s.len > MaximumBufferedBytes)
      BY Zenon, <2>1, <2>7
    <3>3. held = reserved + s.len
      BY SMTT(20), <3>1, <1>2, <1>9
    <3> QED BY SMTT(20), <3>2, <3>3, <2>3, <1>1, <1>2, <1>7
  <2> QED BY Zenon, <2>5, <2>6, <2>7
<1> HIDE DEF held, full, e, a, next, s, x
\* Refused before anything is stored.
<1>11. CASE /\ Refused(p, n, owned) # "no"
            /\ Fail(next, Refused(p, n, owned)) /\ UNCHANGED <<partials, buffered, reserved>>
  <2>1. /\ parser' = next /\ error' # "no" /\ last' = last /\ partials' = partials
        /\ buffered' = buffered /\ reserved' = reserved
    BY Zenon, <1>11 DEF Fail
  <2> QED BY SMTT(20), <2>1, <1>3 DEF DecInv
\* Refused as one segment or byte too many, by a message that is kept.
<1>12. CASE /\ Refused(p, n, owned) = "no" /\ ~(CompletesMessage(p, n) /\ c \notin Partials)
            /\ SegmentRefused(a, n, held) # "no"
            /\ Fail(next, SegmentRefused(a, n, held))
            /\ partials' = [partials EXCEPT ![c] = a] /\ reserved' = held /\ UNCHANGED buffered
  <2>1. /\ parser' = next /\ error' # "no" /\ last' = last
        /\ partials' = [partials EXCEPT ![c] = a] /\ reserved' = held /\ buffered' = buffered
    BY Zenon, <1>12 DEF Fail
  <2>2. x.kind # "none" \/ Cardinality(Holding(partials)) < MaximumPartialMessages
    BY SMTT(20), <1>10, <1>12 DEF Partials, x
  <2>3. (reserved - x.reserved) + a.reserved <= MaximumBufferedBytes
    BY SMTT(20), <1>9, <1>10, <1>12
  <2>4. a.len <= a.reserved
    BY <1>1, <1>4, <1>7
  <2>5. Budget(partials', (buffered - x.len) + a.len, (reserved - x.reserved) + a.reserved)
    BY Zenon, <2>1, <2>2, <2>3, <2>4, <1>4, BudgetChange DEF x
  <2>6. (buffered - x.len) + a.len = buffered'
    BY SMTT(20), <2>1, <1>2, <1>4
  <2>7. Budget(partials', buffered', reserved')
    BY Zenon, <2>1, <2>5, <2>6, <1>9
  <2> QED BY SMTT(20), <2>1, <2>7, <1>3 DEF DecInv
\* Complete in one fragment.
<1>13. CASE /\ CompletesMessage(p, n) /\ c \notin Partials
            /\ Return([parser |-> next, partials |-> partials, buffered |-> buffered,
                       reserved |-> reserved], s, n)
  <2>1. s.len = n /\ n = p.chunk_left /\ x = NoPartial
    <3>1. s.received = 0 /\ s.received + n = s.len
      BY SMTT(20), <1>4, <1>5, <1>13
    <3>2. x.kind = "none"
      BY Zenon, <1>13 DEF Partials, x
    <3> QED BY <3>1, <3>2, <1>1 DEF BodyOK
  <2>2. ~next.streams[c].active /\ next.current = NoCsid /\ next.chunk_left = 0
    <3>1. ~next.streams[c].active
      BY Zenon, <1>3, <1>13
    <3>2. /\ n = p.chunk_left /\ p.chunk_left \in Nat
          /\ next.current = IF p.chunk_left = n THEN NoCsid ELSE c
          /\ next.chunk_left = p.chunk_left - n
      BY Zenon, <2>1, <1>1, <1>3
    <3>3. next.current = NoCsid /\ next.chunk_left = 0
      BY <3>2
    <3> QED BY Zenon, <3>1, <3>3
  <2>3. Bodies(next, partials)
    <3>1. BodyOK(next.streams[c], x)
      BY Zenon, <2>1, <2>2, NoPartialFacts DEF BodyOK
    <3> QED BY Zenon, <3>1, <1>3 DEF Bodies, x
  <2>4. Resting(next, partials, buffered, reserved)
    BY Zenon, <2>2, <2>3, <1>3 DEF Resting
  <2> QED BY SMTT(20), <2>1, <2>4, <1>13, ReturnKeeps
\* Complete with what was kept.
<1>14. CASE /\ CompletesMessage(p, n) /\ c \in Partials
            /\ Return([parser |-> next, partials |-> [partials EXCEPT ![c] = NoPartial],
                       buffered |-> (buffered + n) - e.len,
                       reserved |-> full - e.reserved], s, e.len)
  <2>1. s.received + n = s.len
    BY SMTT(20), <1>5, <1>14
  <2>2. e.len = s.len /\ n = p.chunk_left
    BY SMTT(20), <2>1, <1>1, <1>4, <1>6
  <2>3. (buffered + n) - e.len = buffered - x.len /\ full - e.reserved = reserved - x.reserved
    BY <1>2, <1>4, <1>6, <1>7, <1>9
  <2>4. ~next.streams[c].active /\ next.current = NoCsid /\ next.chunk_left = 0
    <3>1. ~next.streams[c].active
      BY Zenon, <1>3, <1>14
    <3>2. next.current = NoCsid /\ next.chunk_left = 0
      BY SMTT(20), <2>2, <1>1, <1>3
    <3> QED BY Zenon, <3>1, <3>2
  <2> DEFINE qt == [partials EXCEPT ![c] = NoPartial]
  <2>5. qt[c] = NoPartial /\ \A d \in Csids \ {c} : qt[d] = partials[d]
    BY Zenon DEF Budget
  <2>6. Budget(qt, (buffered + n) - e.len, full - e.reserved)
    BY Zenon, <2>3, BudgetRemove DEF x
  <2> HIDE DEF qt
  <2>7. Bodies(next, qt)
    <3>1. BodyOK(next.streams[c], qt[c])
      BY SMTT(20), <2>4, <2>5, NoPartialFacts DEF BodyOK
    <3> QED BY SMTT(20), <3>1, <2>5, <1>3 DEF Bodies
  <2>8. Resting(next, qt, (buffered + n) - e.len, full - e.reserved)
    BY SMTT(20), <2>4, <2>6, <2>7, <1>3 DEF Resting
  <2>9. Return([parser |-> next, partials |-> qt, buffered |-> (buffered + n) - e.len,
                reserved |-> full - e.reserved], s, e.len)
    BY SMTT(20), <1>14 DEF qt
  <2> QED BY Zenon, <2>2, <2>8, <2>9, ReturnKeeps
\* Kept for more.
<1>15. CASE /\ Refused(p, n, owned) = "no" /\ ~CompletesMessage(p, n)
            /\ SegmentRefused(a, n, held) = "no"
            /\ parser' = next /\ partials' = [partials EXCEPT ![c] = e]
            /\ buffered' = buffered + n /\ reserved' = full /\ UNCHANGED <<last, error>>
  <2>1. n > 0 /\ s.received + n < s.len
    BY SMTT(20), <1>1, <1>5, <1>15
  <2>2. held <= MaximumBufferedBytes
        /\ (x.kind # "none" \/ Cardinality(Holding(partials)) < MaximumPartialMessages)
    BY Zenon, <1>10, <1>15 DEF Partials, x
  <2>3. a.kind = "segmented" => ~(a.segments >= MaximumFragmentsPerMessage)
                                /\ ~(held + n > MaximumBufferedBytes)
    BY SMTT(20), <2>1, <1>15 DEF SegmentRefused
  <2>4. /\ e.len <= e.reserved /\ e.segments <= MaximumFragmentsPerMessage
        /\ (reserved - x.reserved) + e.reserved <= MaximumBufferedBytes
    <3>1. CASE a.kind = "segmented"
      BY SMTT(20), <3>1, <2>1, <2>2, <2>3, <1>1, <1>2, <1>4, <1>6, <1>7, <1>9
    <3>2. CASE a.kind = "contiguous"
      BY SMTT(30), <3>2, <2>1, <2>2, <1>1, <1>2, <1>4, <1>6, <1>7, <1>9
    <3> QED BY SMTT(20), <3>1, <3>2, <1>7
  <2>5. Budget(partials', (buffered - x.len) + e.len, (reserved - x.reserved) + e.reserved)
    BY Zenon, <2>2, <2>4, <1>6, <1>15, BudgetChange DEF x
  <2>6. (buffered - x.len) + e.len = buffered'
    BY SMTT(20), <1>2, <1>4, <1>6, <1>15
  <2>7. Budget(partials', buffered', reserved')
    BY Zenon, <2>5, <2>6, <1>9, <1>15
  <2>8. partials'[c] = e /\ \A d \in Csids \ {c} : partials'[d] = partials[d]
    <3>1. partials \in [Csids -> PartialT] /\ partials' = [partials EXCEPT ![c] = e]
      BY Zenon, <1>15 DEF Budget
    <3> QED BY Zenon, <3>1
  <2>9. next.streams[c].active
    BY Zenon, <1>3, <1>15
  <2>10. BodyOK(next.streams[c], e)
    <3> DEFINE t == next.streams[c]
    <3>1. t.received = s.received + n /\ t.len = s.len /\ t.active
      BY SMTT(20), <2>9, <1>3
    <3> HIDE DEF t
    <3>2. /\ e.kind # "none" /\ e.len = t.received
          /\ e.kind = "contiguous" => e.reserved = t.len
      BY Zenon, <3>1, <1>4, <1>6
    <3>3. e.kind = "segmented" => e.reserved = e.len
      BY Zenon, <1>4, <1>6
    <3>4. t.received > 0 /\ t.received <= t.len
      BY SMTT(20), <3>1, <2>1, <1>1
    <3>5. BodyOK(t, e)
      BY Zenon, <3>1, <3>2, <3>3, <3>4 DEF BodyOK
    <3> QED BY Zenon, <3>5 DEF t
  <2>11. Bodies(next, partials')
    BY Zenon, <2>8, <2>10, <1>3 DEF Bodies
  <2>12. Place(next)
    <3>1. CASE p.chunk_left = n
      <4>1. next.current = NoCsid /\ next.chunk_left = 0
        BY <3>1, <1>1, <1>3
      <4> QED BY Zenon, <4>1 DEF Place
    <3>2. CASE p.chunk_left # n
      <4>1. next.current = c /\ next.chunk_left = p.chunk_left - n
        BY Zenon, <3>2, <1>3
      <4>2. next.chunk_left \in Nat /\ next.chunk_left > 0
        BY <3>2, <4>1, <1>1
      <4>3. next.streams[c].received + next.chunk_left <= next.streams[c].len
        BY SMTT(30), <4>1, <1>1, <1>3
      <4> QED BY SMTT(30), <4>1, <4>2, <4>3, <2>9, ParserFields DEF Place
    <3> QED BY SMTT(20), <3>1, <3>2
  <2> QED BY SMTT(20), <2>7, <2>11, <2>12, <1>3, <1>15 DEF DecInv
<1> QED BY Zenon, <1>8, <1>11, <1>12, <1>13, <1>14, <1>15

-----------------------------------------------------------------------------
(* The theorems.                                                           *)

\* A new decoder holds nothing.
LEMMA InitDecInv == Init => DecInv
<1> SUFFICES ASSUME Init PROVE DecInv
  BY Zenon
<1>1. Untracked \in StreamT /\ ~Untracked.active
  BY Zenon DEF Untracked, StreamT
<1>2. /\ parser \in ParserT /\ parser.current = NoCsid /\ parser.chunk_left = 0
      /\ \A c \in Csids : parser.streams[c] = Untracked
  BY Zenon, <1>1, ParserLimits DEF Init, NewParser, ParserT
<1>3. partials \in [Csids -> PartialT] /\ \A c \in Csids : partials[c] = NoPartial
  BY Zenon, NoPartialFacts DEF Init
<1>4. Budget(partials, buffered, reserved)
  <2>1. /\ \A c \in Csids : /\ partials[c].len = 0 /\ partials[c].reserved = 0
                              /\ partials[c].segments = 0 /\ partials[c].kind = "none"
        /\ buffered = 0 /\ reserved = 0
    BY Zenon, <1>3, NoPartialFacts DEF Init
  <2>2. /\ Total([c \in Csids |-> partials[c].len]) = 0
        /\ Total([c \in Csids |-> partials[c].reserved]) = 0
    BY <2>1 DEF Total, Csids
  <2>3. Cardinality(Holding(partials)) = 0
    <3>1. Holding(partials) = {}
      BY Zenon, <2>1 DEF Holding
    <3> QED BY Zenon, <3>1, FS_EmptySet
  <2> QED BY <1>3, <2>1, <2>2, <2>3, DecoderAssumption, ParserLimits DEF Budget
<1>5. Bodies(parser, partials)
  BY Zenon, <1>1, <1>2, <1>3, NoPartialFacts DEF Bodies, BodyOK
<1>6. last.len = last.body
  BY Zenon DEF Init, NoMessage
<1> QED BY Zenon, <1>2, <1>4, <1>5, <1>6 DEF DecInv, Place

\* A message without a body ends with its header; any other header opens a
\* chunk that has room for a byte.
LEMMA HeaderKeeps ==
  ASSUME DecInv, ChunkHeader
  PROVE  /\ DecInv'
         /\ last' # last => parser'.current = NoCsid /\ parser'.chunk_left = 0
<1>1. /\ error = "no" /\ parser \in ParserT /\ Budget(partials, buffered, reserved)
      /\ last.len = last.body /\ Bodies(parser, partials)
  BY Zenon DEF ChunkHeader, DecInv
<1>2. PICK h \in PeerHeaders, owned \in BOOLEAN :
        IF BeginChunkFails(parser, h)
        THEN Fail(parser, "chunk header") /\ UNCHANGED <<partials, buffered, reserved>>
        ELSE LET begun == begin_chunk(parser, h) IN
             IF begun.chunk_left = 0 THEN Fragment(begun, 0, owned)
             ELSE /\ parser' = begun
                  /\ UNCHANGED <<partials, buffered, reserved, last, error>>
  BY Zenon DEF ChunkHeader
<1>3. CASE BeginChunkFails(parser, h)
  <2>1. /\ parser' = parser /\ error' # "no" /\ last' = last /\ partials' = partials
        /\ buffered' = buffered /\ reserved' = reserved
    BY Zenon, <1>2, <1>3 DEF Fail
  <2> QED BY SMTT(20), <2>1, <1>1 DEF DecInv
<1>4. CASE ~BeginChunkFails(parser, h)
  <2> DEFINE begun == begin_chunk(parser, h)
             c == h.csid
  <2>1. /\ begun.chunk_left = 0 => Fragment(begun, 0, owned)
        /\ begun.chunk_left # 0 => /\ parser' = begun
                                   /\ UNCHANGED <<partials, buffered, reserved, last, error>>
    BY Zenon, <1>2, <1>4
  <2>2. /\ begun \in ParserT /\ begun.current = c /\ c \in Csids
        /\ Bodies(begun, partials)
        /\ begun.streams[c].active
        /\ begun.streams[c].received + begun.chunk_left <= begun.streams[c].len
        /\ begun.chunk_left = 0 => begun.streams[c].received = begun.streams[c].len
    BY SMTT(20), <1>1, <1>4, BeginFacts
  <2> HIDE DEF begun, c
  <2>3. begun.chunk_left \in Nat
    BY Zenon, <2>2, ParserFields
  <2>4. CASE begun.chunk_left = 0
    <3>1. PICK n \in Nat : n = 0
      BY Zenon
    <3>2. Fragment(begun, n, owned)
      BY Zenon, <2>1, <2>4, <3>1
    <3> QED BY SMTT(20), <1>1, <2>2, <2>3, <2>4, <3>1, <3>2, FragmentKeeps
  <2>5. CASE begun.chunk_left # 0
    <3>1. Place(begun)
      BY <2>2, <2>3, <2>5, ParserFields DEF Place
    <3> QED BY SMTT(20), <1>1, <2>1, <2>2, <2>5, <3>1 DEF DecInv
  <2> QED BY Zenon, <2>4, <2>5
<1> QED BY Zenon, <1>3, <1>4

\* A fragment of the current chunk.
LEMMA BodyKeeps ==
  ASSUME DecInv, ChunkBody
  PROVE  /\ DecInv'
         /\ last' # last => parser'.current = NoCsid /\ parser'.chunk_left = 0
<1> DEFINE c == parser.current
<1>1. /\ error = "no" /\ parser \in ParserT /\ Budget(partials, buffered, reserved)
      /\ last.len = last.body /\ Bodies(parser, partials) /\ Place(parser) /\ c # NoCsid
  BY Zenon DEF ChunkBody, DecInv
<1>2. PICK n \in 1 .. parser.chunk_left, owned \in BOOLEAN : Fragment(parser, n, owned)
  BY Zenon DEF ChunkBody
<1>3. c \in Csids /\ parser.chunk_left \in Nat
  BY Zenon, <1>1, ParserFields
<1>4. /\ parser.streams[c].active
      /\ parser.streams[c].received + parser.chunk_left <= parser.streams[c].len
  BY Zenon, <1>1 DEF Place
<1>5. n \in Nat /\ n <= parser.chunk_left /\ n # 0
  BY <1>3
<1> QED BY SMTT(20), <1>1, <1>2, <1>3, <1>4, <1>5, FragmentKeeps

\* Nothing changes.
LEMMA StutterKeeps ==
  ASSUME DecInv, UNCHANGED decoder
  PROVE  DecInv'
BY Zenon DEF DecInv, decoder

\* The inductive invariant of the decoder, whatever the peer sends and however
\* the fragments reach decode and decode_slice.
THEOREM DecInvHolds == Spec => []DecInv
<1>1. Init => DecInv
  BY Zenon, InitDecInv
<1>2. DecInv /\ [Next]_decoder => DecInv'
  BY Zenon, HeaderKeeps, BodyKeeps, StutterKeeps DEF Next
<1> QED BY <1>1, <1>2, PTL DEF Spec

\* The decoder's two counters are exactly what its partial messages hold: the
\* subtractions of decode_input and abort_chunk_stream never go below zero and
\* nothing leaks.
THEOREM AccountingAlwaysExact == Spec => []AccountingExact
<1>1. DecInv => AccountingExact
  <2> SUFFICES ASSUME DecInv PROVE AccountingExact
    BY Zenon
  <2>1. parser \in ParserT /\ Budget(partials, buffered, reserved)
    BY Zenon DEF DecInv
  <2>2. DecoderTypeOK
    BY Zenon, <2>1, ParserFields, BudgetCovers DEF DecoderTypeOK, Budget, PartialT
  <2> QED BY Zenon, <2>1, <2>2 DEF AccountingExact, Budget
<1> QED BY <1>1, DecInvHolds, PTL

\* Parser and decoder agree on which messages are unfinished and how much of
\* each has arrived.
THEOREM PartialsAlwaysMatch == Spec => []PartialsMatchParser
<1>1. DecInv => PartialsMatchParser
  BY SMTT(20) DEF DecInv, PartialsMatchParser, Bodies, BodyOK
<1> QED BY <1>1, DecInvHolds, PTL

\* decode returns only whole messages.
THEOREM MessagesAlwaysWhole == Spec => []ReturnedWhole
<1>1. DecInv => ReturnedWhole
  BY Zenon DEF DecInv, ReturnedWhole
<1> QED BY <1>1, DecInvHolds, PTL

\* The memory held for unfinished messages respects every DecoderLimits value.
THEOREM AlwaysWithinLimits == Spec => []WithinLimits
<1>1. DecInv => WithinLimits
  <2> SUFFICES ASSUME DecInv PROVE WithinLimits
    BY Zenon
  <2>1. Budget(partials, buffered, reserved)
    BY Zenon DEF DecInv
  <2>2. Partials = Holding(partials)
    BY Zenon DEF Partials, Holding
  <2> QED BY Zenon, <2>1, <2>2, BudgetCovers DEF WithinLimits, Budget
<1> QED BY <1>1, DecInvHolds, PTL

\* A message is returned, and a SetChunkSize or Abort applied, between chunks.
THEOREM AlwaysReturnsAtBoundary == Spec => ReturnsAtBoundary
<1>1. DecInv /\ [Next]_decoder =>
        [last' # last => parser'.current = NoCsid /\ parser'.chunk_left = 0]_decoder
  BY Zenon, HeaderKeeps, BodyKeeps DEF Next
<1> QED BY <1>1, DecInvHolds, PTL DEF Spec, ReturnsAtBoundary
=============================================================================
