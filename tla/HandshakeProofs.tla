-------------------------- MODULE HandshakeProofs --------------------------
(***************************************************************************)
(* The handshake at both ends, for packets of any size and any number of   *)
(* session bytes, however the transport cuts what is written: no byte is   *)
(* lost, and an end completes only with the other's answer to its P1.      *)
(***************************************************************************)
EXTENDS Handshake, SequenceTheorems, TLAPS

Bytes == [packet : {"P0", "bad", "P1", "unsigned_P1", "P2", "data"}, of : Roles, i : Nat]
StageSet == {"NeedToSendP0AndP1", "WaitingForPacket0", "WaitingForPacket1",
             "WaitingForPacket2", "Complete"}
Ends == [stage : StageSet, buffer : Seq(Bytes), response : Seq(Bytes),
         remaining : Seq(Bytes), error : BOOLEAN]

PacketOne(r) == Packet(IF style[r] = "original" THEN "unsigned_P1" ELSE "P1", r)
Greeting(r) == P0AndP1(r) \o Answer(r, PacketOne(Peer(r)))

\* What r has written, o, when it is at a stage.
Wrote(r, stage, o) ==
  /\ stage = "NeedToSendP0AndP1" => o = << >>
  /\ stage \in {"WaitingForPacket0", "WaitingForPacket1"} => o = P0AndP1(r)
  /\ stage = "WaitingForPacket2" => o = Greeting(r)
  /\ stage = "Complete" => /\ Len(o) >= 2 * PacketSize + 1
                           /\ SubSeq(o, 1, 2 * PacketSize + 1) = Greeting(r)

\* How much of what the other end writes is behind an end at a stage.
Taken(stage) ==
  CASE stage \in {"NeedToSendP0AndP1", "WaitingForPacket0"} -> 0
    [] stage = "WaitingForPacket1" -> 1
    [] stage = "WaitingForPacket2" -> PacketSize + 1
    [] stage = "Complete" -> 2 * PacketSize + 1

\* The bytes a follow the first k of o.
Ahead(o, k, a) == k <= Len(o) /\ a = SubSeq(o, k + 1, Len(o))

\* Nothing more can be done with the buffer.
Idle(stage, buffer) ==
  /\ stage \in {"WaitingForPacket0", "Complete"} => buffer = << >>
  /\ stage \in {"WaitingForPacket1", "WaitingForPacket2"} => Len(buffer) < PacketSize

\* The bytes r has received but not consumed are those of the other end's output
\* that follow what its stage has consumed, and the outputs are what the stages
\* say, up to an end that refused the other's version.
EndInv(r) ==
  /\ current_stage[r] = "NeedToSendP0AndP1" => input_buffer[r] = << >>
  /\ current_stage[r] # "Complete" => session[r] = << >>
  /\ closed[r] => /\ current_stage[r] = "WaitingForPacket0"
                  /\ output[r] \in {<< >>, P0AndP1(r)}
  /\ ~closed[r] =>
       /\ Wrote(r, current_stage[r], output[r])
       /\ Ahead(output[Peer(r)], Taken(current_stage[r]),
                (IF current_stage[r] = "Complete" THEN session[r] ELSE input_buffer[r])
                  \o wire[r])
       /\ Idle(current_stage[r], input_buffer[r])

HandshakeTypes ==
  /\ current_stage \in [Roles -> StageSet] /\ closed \in [Roles -> BOOLEAN]
  /\ style \in [Roles -> {"digest", "original", "other_version"}]
  /\ input_buffer \in [Roles -> Seq(Bytes)] /\ wire \in [Roles -> Seq(Bytes)]
  /\ output \in [Roles -> Seq(Bytes)] /\ session \in [Roles -> Seq(Bytes)]

HInv == HandshakeTypes /\ \A r \in Roles : EndInv(r)

-----------------------------------------------------------------------------
(* Sequences                                                               *)

\* Joining byte sequences is associative, and gives a byte sequence.
LEMMA JoinedTwice == \A s, t, u \in Seq(Bytes) : (s \o t) \o u = s \o (t \o u)
BY SMTT(30), ConcatAssociative

\* Two byte sequences join to one.
LEMMA Joined == \A s, t \in Seq(Bytes) : s \o t \in Seq(Bytes)
BY Zenon, ConcatProperties

\* A sequence is cut in two.
LEMMA Cut ==
  ASSUME NEW S, NEW s \in Seq(S), NEW n \in 0 .. Len(s)
  PROVE  /\ SubSeq(s, 1, n) \in Seq(S) /\ SubSeq(s, n + 1, Len(s)) \in Seq(S)
         /\ Len(SubSeq(s, 1, n)) = n /\ Len(SubSeq(s, n + 1, Len(s))) = Len(s) - n
         /\ SubSeq(s, 1, n) \o SubSeq(s, n + 1, Len(s)) = s
         /\ \A i \in 1 .. n : SubSeq(s, 1, n)[i] = s[i]
         /\ \A i \in 1 .. Len(s) - n : SubSeq(s, n + 1, Len(s))[i] = s[n + i]
<1>1. Len(s) \in Nat /\ n \in Nat /\ n <= Len(s) /\ \A i \in 1 .. Len(s) : s[i] \in S
  BY LenProperties
<1>2. /\ SubSeq(s, 1, n) \in Seq(S) /\ Len(SubSeq(s, 1, n)) = n
      /\ \A i \in 1 .. n : SubSeq(s, 1, n)[i] = s[i]
  BY <1>1
<1>3. /\ SubSeq(s, n + 1, Len(s)) \in Seq(S) /\ Len(SubSeq(s, n + 1, Len(s))) = Len(s) - n
      /\ \A i \in 1 .. Len(s) - n : SubSeq(s, n + 1, Len(s))[i] = s[n + i]
  BY <1>1
<1>4. SubSeq(s, 1, n) \o SubSeq(s, n + 1, Len(s)) = s
  <2>1. /\ 1 \in 1 .. Len(s) + 1 /\ n \in 1 - 1 .. Len(s) /\ Len(s) \in n .. Len(s)
    BY <1>1
  <2> QED BY Zenon, <2>1, ConcatAdjacentSubSeq, SubSeqFull
<1> QED BY Zenon, <1>2, <1>3, <1>4

\* What follows the first k bytes grows with the output.
LEMMA AheadGrows ==
  ASSUME NEW o \in Seq(Bytes), NEW x \in Seq(Bytes), NEW k \in Nat, NEW a \in Seq(Bytes),
         Ahead(o, k, a)
  PROVE  Ahead(o \o x, k, a \o x)
<1>1. /\ o \o x \in Seq(Bytes) /\ Len(o \o x) = Len(o) + Len(x)
      /\ Len(o) \in Nat /\ Len(x) \in Nat /\ k <= Len(o)
      /\ \A i \in 1 .. Len(o) + Len(x) :
           (o \o x)[i] = IF i <= Len(o) THEN o[i] ELSE x[i - Len(o)]
  BY Zenon, ConcatProperties, LenProperties DEF Ahead
<1>2. /\ Len(a) = Len(o) - k /\ \A i \in 1 .. Len(o) - k : a[i] = o[k + i]
  BY <1>1, Cut DEF Ahead
<1>3. /\ a \o x \in Seq(Bytes) /\ Len(a \o x) = Len(a) + Len(x)
      /\ \A i \in 1 .. Len(a) + Len(x) :
           (a \o x)[i] = IF i <= Len(a) THEN a[i] ELSE x[i - Len(a)]
  BY Zenon, ConcatProperties
<1> DEFINE t == SubSeq(o \o x, k + 1, Len(o \o x))
<1>4. /\ t \in Seq(Bytes) /\ Len(t) = Len(o \o x) - k
      /\ \A i \in 1 .. Len(o \o x) - k : t[i] = (o \o x)[k + i]
  BY SMTT(30), <1>1, Cut
<1> HIDE DEF t
<1>5. Len(t) = Len(a \o x)
  BY <1>1, <1>2, <1>3, <1>4
<1>6. ASSUME NEW i \in 1 .. Len(t) PROVE t[i] = (a \o x)[i]
  BY SMTT(30), <1>1, <1>2, <1>3, <1>4
<1>7. t = a \o x
  BY Zenon, <1>3, <1>4, <1>5, <1>6, SeqEqual
<1>8. k <= Len(o \o x)
  BY <1>1
<1> QED BY Zenon, <1>7, <1>8 DEF Ahead, t

\* The same where a part m of it is still on the wire.
LEMMA AheadOfWire ==
  ASSUME NEW o \in Seq(Bytes), NEW x \in Seq(Bytes), NEW k \in Nat,
         NEW w \in Seq(Bytes), NEW m \in Seq(Bytes), Ahead(o, k, w \o m)
  PROVE  Ahead(o \o x, k, w \o (m \o x))
<1>1. w \o m \in Seq(Bytes)
  BY Zenon, Joined
<1>2. Ahead(o \o x, k, (w \o m) \o x)
  BY Zenon, <1>1, AheadGrows
<1>3. (w \o m) \o x = w \o (m \o x)
  BY ZenonT(40), JoinedTwice
<1> QED BY Zenon, <1>2, <1>3

\* Taking n bytes from the front of what is ahead.
LEMMA AheadTakes ==
  ASSUME NEW o \in Seq(Bytes), NEW b \in Seq(Bytes), NEW rest \in Seq(Bytes), NEW k \in Nat,
         Ahead(o, k, b \o rest), NEW n \in 0 .. Len(b)
  PROVE  /\ Ahead(o, k + n, SubSeq(b, n + 1, Len(b)) \o rest)
         /\ \A i \in 1 .. n : b[i] = o[k + i]
<1>0. k <= Len(o) /\ b \o rest = SubSeq(o, k + 1, Len(o))
  BY Zenon DEF Ahead
<1>1. /\ Len(o) \in Nat /\ Len(b) \in Nat /\ Len(rest) \in Nat /\ k <= Len(o) /\ n \in Nat
      /\ n <= Len(b) /\ b \o rest \in Seq(Bytes) /\ Len(b \o rest) = Len(b) + Len(rest)
      /\ \A i \in 1 .. Len(b) + Len(rest) :
           (b \o rest)[i] = IF i <= Len(b) THEN b[i] ELSE rest[i - Len(b)]
  <2>1. Len(o) \in Nat /\ Len(b) \in Nat /\ Len(rest) \in Nat
    BY Zenon, LenProperties
  <2>2. n \in Nat /\ n <= Len(b)
    BY <2>1
  <2>3. /\ b \o rest \in Seq(Bytes) /\ Len(b \o rest) = Len(b) + Len(rest)
        /\ \A i \in 1 .. Len(b) + Len(rest) :
             (b \o rest)[i] = IF i <= Len(b) THEN b[i] ELSE rest[i - Len(b)]
    BY Zenon, ConcatProperties
  <2> QED BY Zenon, <1>0, <2>1, <2>2, <2>3
<1>2. /\ Len(b \o rest) = Len(o) - k
      /\ \A i \in 1 .. Len(o) - k : (b \o rest)[i] = o[k + i]
  BY <1>0, <1>1, Cut
<1> DEFINE c == SubSeq(b, n + 1, Len(b))
           t == SubSeq(o, (k + n) + 1, Len(o))
<1>3. c \in Seq(Bytes) /\ Len(c) = Len(b) - n /\ \A i \in 1 .. Len(b) - n : c[i] = b[n + i]
  BY <1>1, Cut
<1>4. k + n \in 0 .. Len(o)
  BY <1>1, <1>2
<1>5. /\ t \in Seq(Bytes) /\ Len(t) = Len(o) - (k + n)
      /\ \A i \in 1 .. Len(o) - (k + n) : t[i] = o[(k + n) + i]
  BY ZenonT(40), <1>4, Cut
<1> HIDE DEF c, t
<1>6. /\ c \o rest \in Seq(Bytes) /\ Len(c \o rest) = Len(c) + Len(rest)
      /\ \A i \in 1 .. Len(c) + Len(rest) :
           (c \o rest)[i] = IF i <= Len(c) THEN c[i] ELSE rest[i - Len(c)]
  BY Zenon, <1>3, ConcatProperties
<1>7. Len(t) = Len(c \o rest)
  BY <1>1, <1>2, <1>3, <1>5, <1>6
<1>8. ASSUME NEW i \in 1 .. Len(t) PROVE t[i] = (c \o rest)[i]
  <2>1. n + i \in 1 .. Len(o) - k /\ (k + n) + i = k + (n + i)
    BY <1>1, <1>5
  <2>2. t[i] = (b \o rest)[n + i]
    BY Zenon, <2>1, <1>2, <1>5
  <2>3. CASE i <= Len(c)
    BY SMTT(30), <2>1, <2>2, <2>3, <1>1, <1>2, <1>3, <1>6
  <2>4. CASE ~(i <= Len(c))
    <3>1. /\ i - Len(c) = (n + i) - Len(b) /\ ~(n + i <= Len(b))
          /\ n + i \in 1 .. Len(b) + Len(rest) /\ i \in 1 .. Len(c) + Len(rest)
      BY SMTT(30), <2>1, <2>4, <1>1, <1>2, <1>3, <1>5, <1>6, <1>7
    <3> QED BY Zenon, <3>1, <2>2, <2>4, <1>1, <1>6
  <2> QED BY Zenon, <2>3, <2>4
<1>9. t = c \o rest
  BY Zenon, <1>5, <1>6, <1>7, <1>8, SeqEqual
<1>10. \A i \in 1 .. n : b[i] = o[k + i]
  BY SMTT(30), <1>1, <1>2
<1>11. k + n <= Len(o)
  BY <1>1, <1>4
<1> QED BY Zenon, <1>9, <1>10, <1>11 DEF Ahead, c, t

-----------------------------------------------------------------------------
(* Packets                                                                 *)

\* Client and server are each other's peers.
LEMMA Roles2 == \A r \in Roles : Peer(r) \in Roles /\ Peer(r) # r /\ Peer(Peer(r)) = r
BY Zenon DEF Roles, Peer

\* A packet is PacketSize bytes.
LEMMA PacketIs ==
  ASSUME NEW p \in {"P0", "bad", "P1", "unsigned_P1", "P2", "data"}, NEW r \in Roles
  PROVE  Packet(p, r) \in Seq(Bytes) /\ Len(Packet(p, r)) = PacketSize
<1>1. PacketSize \in Nat
  BY Zenon, HandshakeAssumption
<1>2. ASSUME NEW i \in 1 .. PacketSize PROVE Byte(p, r, i) \in Bytes
  <2>1. i \in Nat
    BY <1>1
  <2> QED BY Zenon, <2>1 DEF Byte, Bytes
<1>3. Packet(p, r) \in [1 .. PacketSize -> Bytes]
  BY Zenon, <1>2 DEF Packet
<1> QED BY <1>1, <1>3

\* What an end opens with.
LEMMA Opening ==
  ASSUME HandshakeTypes, NEW r \in Roles
  PROVE  /\ PacketOne(r) \in Seq(Bytes) /\ Len(PacketOne(r)) = PacketSize
         /\ P0AndP1(r) \in Seq(Bytes) /\ Len(P0AndP1(r)) = PacketSize + 1
         /\ \A i \in 1 .. PacketSize : P0AndP1(r)[1 + i] = PacketOne(r)[i]
<1>1. PacketOne(r) \in Seq(Bytes) /\ Len(PacketOne(r)) = PacketSize /\ PacketSize \in Nat
  BY Zenon, PacketIs, HandshakeAssumption DEF PacketOne
<1> DEFINE b == Byte(IF style[r] = "other_version" THEN "bad" ELSE "P0", r, 1)
<1>2. b \in Bytes
  BY Zenon DEF Byte, Bytes
<1>3. P0AndP1(r) = <<b>> \o PacketOne(r)
  BY Zenon DEF P0AndP1, PacketOne
<1> HIDE DEF b
<1>4. <<b>> \in Seq(Bytes) /\ Len(<<b>>) = 1
  BY <1>2
<1>5. /\ P0AndP1(r) \in Seq(Bytes) /\ Len(P0AndP1(r)) = 1 + PacketSize
      /\ \A i \in 1 .. 1 + PacketSize :
           P0AndP1(r)[i] = IF i <= 1 THEN <<b>>[i] ELSE PacketOne(r)[i - 1]
  BY <1>1, <1>3, <1>4, ConcatProperties
<1>6. \A i \in 1 .. PacketSize : P0AndP1(r)[1 + i] = PacketOne(r)[i]
  BY <1>1, <1>5
<1> QED BY <1>1, <1>5, <1>6

\* The answer to a P1: to one that is not signed, that P1 itself.
LEMMA AnswerIs ==
  ASSUME HandshakeTypes, NEW r \in Roles
  PROVE  /\ Answer(r, PacketOne(Peer(r))) \in Seq(Bytes)
         /\ Len(Answer(r, PacketOne(Peer(r)))) = PacketSize
         /\ style[Peer(r)] = "original" =>
              Answer(r, PacketOne(Peer(r))) = Packet("unsigned_P1", Peer(r))
<1>1. Peer(r) \in Roles
  BY Zenon, Roles2
<1>2. /\ PacketOne(Peer(r)) \in Seq(Bytes) /\ Len(PacketOne(Peer(r))) = PacketSize
  BY Zenon, <1>1, Opening
<1>3. Packet("P2", r) \in Seq(Bytes) /\ Len(Packet("P2", r)) = PacketSize
  BY Zenon, PacketIs
<1>4. Packet("unsigned_P1", Peer(r)) # Packet("P1", Peer(r))
  <2>1. 1 \in 1 .. PacketSize
    BY HandshakeAssumption
  <2>2. /\ Packet("unsigned_P1", Peer(r))[1] = Byte("unsigned_P1", Peer(r), 1)
        /\ Packet("P1", Peer(r))[1] = Byte("P1", Peer(r), 1)
    BY Zenon, <2>1 DEF Packet
  <2>3. Byte("unsigned_P1", Peer(r), 1).packet # Byte("P1", Peer(r), 1).packet
    BY Zenon DEF Byte
  <2> QED BY Zenon, <2>2, <2>3
<1>5. style[Peer(r)] = "original" => PacketOne(Peer(r)) = Packet("unsigned_P1", Peer(r))
  BY Zenon DEF PacketOne
<1> QED BY Zenon, <1>2, <1>3, <1>4, <1>5 DEF Answer

\* All an end writes before its session does.
LEMMA GreetingIs ==
  ASSUME HandshakeTypes, NEW r \in Roles
  PROVE  /\ Greeting(r) \in Seq(Bytes) /\ Len(Greeting(r)) = 2 * PacketSize + 1
         /\ \A i \in 1 .. PacketSize + 1 : Greeting(r)[i] = P0AndP1(r)[i]
         /\ \A i \in 1 .. PacketSize :
              Greeting(r)[(PacketSize + 1) + i] = Answer(r, PacketOne(Peer(r)))[i]
<1> DEFINE a == P0AndP1(r)
           b == Answer(r, PacketOne(Peer(r)))
<1>1. /\ a \in Seq(Bytes) /\ Len(a) = PacketSize + 1
      /\ b \in Seq(Bytes) /\ Len(b) = PacketSize /\ PacketSize \in Nat
  BY Zenon, Opening, AnswerIs, HandshakeAssumption
<1>2. Greeting(r) = a \o b
  BY Zenon DEF Greeting
<1> HIDE DEF a, b
<1>3. /\ Greeting(r) \in Seq(Bytes) /\ Len(Greeting(r)) = Len(a) + Len(b)
      /\ \A i \in 1 .. Len(a) + Len(b) :
           Greeting(r)[i] = IF i <= Len(a) THEN a[i] ELSE b[i - Len(a)]
  <2>1. PICK x, y \in Seq(Bytes) : x = a /\ y = b
    BY Zenon, <1>1
  <2>2. PICK g : g = x \o y
    BY Zenon
  <2>3. /\ g \in Seq(Bytes) /\ Len(g) = Len(x) + Len(y)
        /\ \A i \in 1 .. Len(x) + Len(y) : g[i] = IF i <= Len(x) THEN x[i] ELSE y[i - Len(x)]
    BY <2>2, ConcatProperties
  <2>4. g = Greeting(r)
    BY Zenon, <1>2, <2>1, <2>2
  <2> QED BY Zenon, <2>1, <2>3, <2>4
<1>4. \A i \in 1 .. PacketSize + 1 : Greeting(r)[i] = a[i]
  BY <1>1, <1>3
<1>5. \A i \in 1 .. PacketSize : Greeting(r)[(PacketSize + 1) + i] = b[i]
  BY <1>1, <1>3
<1>6. Len(a) + Len(b) = 2 * PacketSize + 1
  BY <1>1
<1> QED BY Zenon, <1>3, <1>4, <1>5, <1>6 DEF a, b

\* An end that has written anything has written its P0 and P1 first.
LEMMA OpensFirst ==
  ASSUME HandshakeTypes, NEW r \in Roles, EndInv(r), output[r] # << >>
  PROVE  /\ Len(output[r]) >= PacketSize + 1
         /\ \A i \in 1 .. PacketSize + 1 : output[r][i] = P0AndP1(r)[i]
<1>1. /\ P0AndP1(r) \in Seq(Bytes) /\ Len(P0AndP1(r)) = PacketSize + 1
      /\ Len(Greeting(r)) = 2 * PacketSize + 1 /\ Greeting(r) \in Seq(Bytes)
      /\ \A i \in 1 .. PacketSize + 1 : Greeting(r)[i] = P0AndP1(r)[i]
      /\ PacketSize \in Nat /\ current_stage[r] \in StageSet /\ output[r] \in Seq(Bytes)
  BY Zenon, Opening, GreetingIs, HandshakeAssumption DEF HandshakeTypes
<1>2. \/ output[r] = P0AndP1(r) \/ output[r] = Greeting(r)
      \/ /\ Len(output[r]) >= 2 * PacketSize + 1
         /\ SubSeq(output[r], 1, 2 * PacketSize + 1) = Greeting(r)
  BY Zenon, <1>1 DEF EndInv, Wrote, StageSet
<1>3. CASE output[r] = P0AndP1(r)
  BY <1>1, <1>3
<1>4. CASE output[r] = Greeting(r)
  BY <1>1, <1>4
<1>5. CASE /\ Len(output[r]) >= 2 * PacketSize + 1
           /\ SubSeq(output[r], 1, 2 * PacketSize + 1) = Greeting(r)
  <2>1. 2 * PacketSize + 1 \in 0 .. Len(output[r]) /\ Len(output[r]) \in Nat
    BY <1>1, <1>5, LenProperties
  <2>2. \A i \in 1 .. 2 * PacketSize + 1 : Greeting(r)[i] = output[r][i]
    BY <2>1, <1>1, <1>5, Cut
  <2> QED BY <2>1, <2>2, <1>1, <1>5
<1> QED BY Zenon, <1>2, <1>3, <1>4, <1>5

-----------------------------------------------------------------------------
(* process_bytes                                                           *)

\* What holds of an end between two turns of the loop, with rest still on the wire.
TurnInv(r, e, rest) ==
  /\ e \in Ends
  /\ e.error => e.stage = "WaitingForPacket0"
  /\ e.stage \in {"NeedToSendP0AndP1", "WaitingForPacket0"} => output[r] \in {<< >>, P0AndP1(r)}
  /\ e.stage # "Complete" => e.remaining = << >>
  /\ e.stage = "Complete" => e.buffer = << >>
  /\ ~e.error =>
       /\ Wrote(r, e.stage, output[r] \o e.response)
       /\ Ahead(output[Peer(r)], Taken(e.stage),
                (IF e.stage = "Complete" THEN e.remaining ELSE e.buffer) \o rest)

\* The loop ends.
Done(e) == e.error \/ (e.stage # "NeedToSendP0AndP1" /\ Idle(e.stage, e.buffer))

\* The number of a stage.
Rank(stage) == CHOOSE i \in 1 .. 5 : Stages[i] = stage

\* In the first stage: P0 and P1 are written.
LEMMA TurnSends ==
  ASSUME HandshakeTypes, NEW r \in Roles, NEW e, NEW rest \in Seq(Bytes), TurnInv(r, e, rest),
         ~e.error, e.stage = "NeedToSendP0AndP1"
  PROVE  TurnInv(r, Turn(r, e), rest) /\ Turn(r, e).stage = "WaitingForPacket0"
<1>1. PICK f : f = Turn(r, e)
  BY Zenon
<1>2. e \in Ends /\ output[r] \in Seq(Bytes) /\ P0AndP1(r) \in Seq(Bytes)
  BY Zenon, Opening DEF TurnInv, HandshakeTypes
<1>3. /\ f.stage = "WaitingForPacket0" /\ f.buffer = e.buffer /\ f.remaining = e.remaining
      /\ f.response = e.response \o P0AndP1(r) /\ f.error = e.error /\ f \in Ends
  <2>1. f = [e EXCEPT !.stage = "WaitingForPacket0", !.response = @ \o P0AndP1(r)]
    BY ZenonT(40), <1>1 DEF Turn, generate_outbound_p0_and_p1
  <2>2. e.response \in Seq(Bytes) /\ e.response \o P0AndP1(r) \in Seq(Bytes)
    BY Zenon, <1>2, ConcatProperties DEF Ends
  <2>3. PICK w : w = e.response \o P0AndP1(r)
    BY Zenon
  <2>4. f = [e EXCEPT !.stage = "WaitingForPacket0", !.response = w]
    BY Zenon, <2>1, <2>3
  <2>5. w \in Seq(Bytes)
    BY Zenon, <2>2, <2>3
  <2> QED BY Zenon, <2>3, <2>4, <2>5, <1>2 DEF Ends, StageSet
<1>4. output[r] \o e.response = << >>
  BY Zenon DEF TurnInv, Wrote
<1>5. output[r] = << >> /\ e.response = << >>
  BY <1>2, <1>4, ConcatEqualIffEmpty DEF Ends
<1>6. output[r] \o f.response = P0AndP1(r)
  BY <1>2, <1>3, <1>5
<1>7. Wrote(r, f.stage, output[r] \o f.response)
  BY Zenon, <1>3, <1>6 DEF Wrote
<1>8. Ahead(output[Peer(r)], Taken(f.stage), f.buffer \o rest)
  <2>1. Taken(f.stage) = Taken(e.stage)
    BY Zenon, <1>3 DEF Taken
  <2> QED BY Zenon, <2>1, <1>3 DEF TurnInv
<1>9. TurnInv(r, f, rest)
  <2>1. f.remaining = << >> /\ f.stage # "Complete" /\ ~f.error /\ f \in Ends
    BY Zenon, <1>3 DEF TurnInv
  <2> QED BY Zenon, <2>1, <1>5, <1>7, <1>8 DEF TurnInv
<1> QED BY Zenon, <1>1, <1>3, <1>9

\* P0 is refused or taken.
LEMMA TurnTakesP0 ==
  ASSUME HandshakeTypes, NEW r \in Roles, NEW e, NEW rest \in Seq(Bytes), TurnInv(r, e, rest),
         ~e.error, e.stage = "WaitingForPacket0", e.buffer # << >>
  PROVE  /\ TurnInv(r, Turn(r, e), rest)
         /\ Turn(r, e).error \/ Turn(r, e).stage = "WaitingForPacket1"
<1>1. PICK f : f = Turn(r, e)
  BY Zenon
<1>2. e \in Ends /\ output[Peer(r)] \in Seq(Bytes) /\ e.buffer \in Seq(Bytes)
  BY Zenon, Roles2 DEF TurnInv, HandshakeTypes, Ends
<1>3. Tail(e.buffer) \in Seq(Bytes) /\ Tail(e.buffer) = SubSeq(e.buffer, 2, Len(e.buffer))
  BY Zenon, <1>2, HeadTailProperties, TailIsSubSeq
<1>4. /\ f.buffer = Tail(e.buffer) /\ f.remaining = e.remaining /\ f.response = e.response
      /\ f \in Ends
      /\ \/ f.error /\ f.stage = "WaitingForPacket0"
         \/ ~f.error /\ f.stage = "WaitingForPacket1"
  <2>1. \/ f = [e EXCEPT !.buffer = Tail(@), !.error = TRUE]
        \/ f = [e EXCEPT !.buffer = Tail(@), !.stage = "WaitingForPacket1"]
    <3>1. f = parse_p0(e)
      BY Zenon, <1>1 DEF Turn
    <3> QED BY Zenon, <3>1 DEF parse_p0
  <2> QED BY ZenonT(40), <2>1, <1>2, <1>3 DEF Ends, StageSet
<1>5. f.remaining = << >>
  BY Zenon, <1>4 DEF TurnInv
<1>6. CASE f.error /\ f.stage = "WaitingForPacket0"
  BY Zenon, <1>1, <1>4, <1>5, <1>6 DEF TurnInv
<1>7. CASE ~f.error /\ f.stage = "WaitingForPacket1"
  <2>1. Wrote(r, f.stage, output[r] \o f.response)
    BY Zenon, <1>4, <1>7 DEF TurnInv, Wrote
  <2>2. Ahead(output[Peer(r)], 0, e.buffer \o rest)
    BY Zenon DEF TurnInv, Taken
  <2>3. 1 \in 0 .. Len(e.buffer)
    BY <1>2, EmptySeq
  <2>4. Ahead(output[Peer(r)], 0 + 1, SubSeq(e.buffer, 1 + 1, Len(e.buffer)) \o rest)
    BY Zenon, <1>2, <2>2, <2>3, AheadTakes
  <2>5. Taken(f.stage) = 0 + 1 /\ 1 + 1 = 2
    BY <1>7 DEF Taken
  <2>6. Ahead(output[Peer(r)], Taken(f.stage), f.buffer \o rest)
    BY Zenon, <2>4, <2>5, <1>3, <1>4
  <2> QED BY Zenon, <2>1, <2>6, <1>1, <1>4, <1>5, <1>7 DEF TurnInv
<1> QED BY Zenon, <1>4, <1>6, <1>7

\* P1 is taken and answered: the packet in front is the one the other end wrote.
LEMMA TurnTakesP1 ==
  ASSUME HInv, NEW r \in Roles, NEW e, NEW rest \in Seq(Bytes), TurnInv(r, e, rest),
         ~e.error, e.stage = "WaitingForPacket1", ~(Len(e.buffer) < PacketSize)
  PROVE  TurnInv(r, Turn(r, e), rest) /\ Turn(r, e).stage = "WaitingForPacket2"
<1>1. PICK f : f = Turn(r, e)
  BY Zenon
<1>2. PICK q : q = Peer(r)
  BY Zenon
<1>3. /\ HandshakeTypes /\ q \in Roles /\ EndInv(q) /\ e \in Ends
      /\ output[r] \in Seq(Bytes) /\ output[q] \in Seq(Bytes)
      /\ e.buffer \in Seq(Bytes) /\ e.response \in Seq(Bytes)
  BY Zenon, <1>2, Roles2 DEF HInv, TurnInv, HandshakeTypes, Ends
<1>4. PacketSize \in Nat /\ PacketSize \in 0 .. Len(e.buffer) /\ Len(e.buffer) \in Nat
  BY <1>3, LenProperties, HandshakeAssumption
<1>5. Ahead(output[q], 1, e.buffer \o rest)
  BY Zenon, <1>2 DEF TurnInv, Taken
<1>6. /\ Ahead(output[q], 1 + PacketSize, DropPacket(e) \o rest)
      /\ \A i \in 1 .. PacketSize : e.buffer[i] = output[q][1 + i]
  <2>1. PICK k \in Nat : k = 1
    BY Zenon
  <2>2. Ahead(output[q], k, e.buffer \o rest)
    BY Zenon, <2>1, <1>5
  <2>3. PICK o \in Seq(Bytes), b \in Seq(Bytes) : o = output[q] /\ b = e.buffer
    BY Zenon, <1>3
  <2>4. PICK n \in 0 .. Len(b) : n = PacketSize
    BY Zenon, <2>3, <1>4
  <2>5. Ahead(o, k, b \o rest)
    BY Zenon, <2>2, <2>3
  <2>6. /\ Ahead(o, k + n, SubSeq(b, n + 1, Len(b)) \o rest)
        /\ \A i \in 1 .. n : b[i] = o[k + i]
    BY SMTT(30), AheadTakes, <2>5
  <2> QED BY Zenon, <2>1, <2>3, <2>4, <2>6 DEF DropPacket
<1>7. TakePacket(e) = PacketOne(q)
  <2>1. /\ TakePacket(e) \in Seq(Bytes) /\ Len(TakePacket(e)) = PacketSize
        /\ \A i \in 1 .. PacketSize : TakePacket(e)[i] = e.buffer[i]
    BY <1>3, <1>4, Cut DEF TakePacket
  <2>2. output[q] # << >>
    <3>1. 1 <= Len(output[q])
      BY Zenon, <1>5 DEF Ahead
    <3> QED BY <3>1
  <2>3. \A i \in 1 .. PacketSize + 1 : output[q][i] = P0AndP1(q)[i]
    BY Zenon, <2>2, <1>3, OpensFirst
  <2>4. /\ PacketOne(q) \in Seq(Bytes) /\ Len(PacketOne(q)) = PacketSize
        /\ \A i \in 1 .. PacketSize : P0AndP1(q)[1 + i] = PacketOne(q)[i]
    BY Zenon, <1>3, Opening
  <2>5. ASSUME NEW i \in 1 .. PacketSize PROVE TakePacket(e)[i] = PacketOne(q)[i]
    <3>1. 1 + i \in 1 .. PacketSize + 1
      BY <1>4
    <3> QED BY Zenon, <3>1, <2>1, <2>3, <2>4, <1>6
  <2> QED BY Zenon, <2>1, <2>4, <2>5, SeqEqual
<1>8. PICK a : a = Answer(r, PacketOne(q))
  BY Zenon
<1>9. a \in Seq(Bytes) /\ P0AndP1(r) \o a = Greeting(r) /\ DropPacket(e) \in Seq(Bytes)
  BY Zenon, <1>2, <1>3, <1>4, <1>8, AnswerIs, Cut DEF Greeting, DropPacket
<1>10. PICK w : w = e.response \o a
  BY Zenon
<1>11. w \in Seq(Bytes)
  BY Zenon, <1>3, <1>9, <1>10, ConcatProperties
<1>12. /\ f.stage = "WaitingForPacket2" /\ f.buffer = DropPacket(e) /\ f.remaining = e.remaining
       /\ f.response = w /\ f.error = e.error /\ f \in Ends
  <2>1. f = parse_p1(r, e)
    BY Zenon, <1>1 DEF Turn
  <2>2. f = [e EXCEPT !.buffer = DropPacket(e), !.stage = "WaitingForPacket2", !.response = w]
    BY Zenon, <2>1, <1>7, <1>8, <1>10 DEF parse_p1
  <2> QED BY Zenon, <2>2, <1>3, <1>9, <1>11 DEF Ends, StageSet
<1>13. output[r] \o w = Greeting(r)
  <2>1. output[r] \o e.response = P0AndP1(r)
    BY Zenon DEF TurnInv, Wrote
  <2>2. (output[r] \o e.response) \o a = output[r] \o (e.response \o a)
    <3>1. output[r] \in Seq(Bytes) /\ e.response \in Seq(Bytes) /\ a \in Seq(Bytes)
      BY Zenon, <1>3, <1>9
    <3> QED BY ZenonT(40), <3>1, JoinedTwice
  <2> QED BY Zenon, <2>1, <2>2, <1>9, <1>10
<1>14. Wrote(r, f.stage, output[r] \o f.response)
  BY Zenon, <1>12, <1>13 DEF Wrote
<1>15. Ahead(output[Peer(r)], Taken(f.stage), f.buffer \o rest)
  <2>1. Taken(f.stage) = PacketSize + 1 /\ PacketSize + 1 = 1 + PacketSize
    BY <1>4, <1>12 DEF Taken
  <2> QED BY Zenon, <2>1, <1>2, <1>6, <1>12
<1>16. f.remaining = << >> /\ f.stage # "Complete" /\ ~f.error
  BY Zenon, <1>12 DEF TurnInv
<1>17. f.stage \notin {"NeedToSendP0AndP1", "WaitingForPacket0"}
  BY Zenon, <1>12
<1>18. TurnInv(r, f, rest)
  BY Zenon, <1>12, <1>14, <1>15, <1>16, <1>17 DEF TurnInv
<1> QED BY Zenon, <1>1, <1>12, <1>18

\* P2 is taken, and what follows it goes to the session.
LEMMA TurnTakesP2 ==
  ASSUME HandshakeTypes, NEW r \in Roles, NEW e, NEW rest \in Seq(Bytes), TurnInv(r, e, rest),
         ~e.error, e.stage = "WaitingForPacket2", ~(Len(e.buffer) < PacketSize)
  PROVE  TurnInv(r, Turn(r, e), rest) /\ Turn(r, e).stage = "Complete"
<1>1. PICK f : f = Turn(r, e)
  BY Zenon
<1>2. /\ e \in Ends /\ output[Peer(r)] \in Seq(Bytes) /\ e.buffer \in Seq(Bytes)
  BY Zenon, Roles2 DEF TurnInv, HandshakeTypes, Ends
<1>3. PacketSize \in Nat /\ PacketSize \in 0 .. Len(e.buffer) /\ Len(e.buffer) \in Nat
  BY <1>2, LenProperties, HandshakeAssumption
<1>4. Ahead(output[Peer(r)], PacketSize + 1, e.buffer \o rest)
  BY Zenon DEF TurnInv, Taken
<1>5. Ahead(output[Peer(r)], (PacketSize + 1) + PacketSize, DropPacket(e) \o rest)
  <2>1. PacketSize + 1 \in Nat
    BY <1>3
  <2> QED BY ZenonT(30), <2>1, <1>2, <1>3, <1>4, AheadTakes DEF DropPacket
<1>6. PICK d : d = DropPacket(e)
  BY Zenon
<1>7. d \in Seq(Bytes)
  BY Zenon, <1>2, <1>3, <1>6, Cut DEF DropPacket
<1>8. /\ f.stage = "Complete" /\ f.buffer = << >> /\ f.remaining = d
      /\ f.response = e.response /\ f.error = e.error /\ f \in Ends
  <2>1. f = parse_p2(e)
    BY Zenon, <1>1 DEF Turn
  <2>2. f = [e EXCEPT !.buffer = << >>, !.remaining = d, !.stage = "Complete"]
    BY Zenon, <2>1, <1>6 DEF parse_p2
  <2>3. << >> \in Seq(Bytes) /\ "Complete" \in StageSet
    BY DEF StageSet
  <2> QED BY Zenon, <2>2, <2>3, <1>2, <1>7 DEF Ends
<1>9. Wrote(r, f.stage, output[r] \o f.response)
  <2>1. output[r] \o f.response = Greeting(r)
    BY Zenon, <1>8 DEF TurnInv, Wrote
  <2>2. /\ Greeting(r) \in Seq(Bytes) /\ Len(Greeting(r)) = 2 * PacketSize + 1
    BY Zenon, GreetingIs
  <2>3. SubSeq(Greeting(r), 1, 2 * PacketSize + 1) = Greeting(r)
    BY Zenon, <2>2, SubSeqFull
  <2>4. Len(Greeting(r)) >= 2 * PacketSize + 1
    BY <2>2, <1>3
  <2> QED BY Zenon, <2>1, <2>3, <2>4, <1>8 DEF Wrote
<1>10. Ahead(output[Peer(r)], Taken(f.stage), f.remaining \o rest)
  <2>1. Taken(f.stage) = 2 * PacketSize + 1 /\ 2 * PacketSize + 1 = (PacketSize + 1) + PacketSize
    BY <1>3, <1>8 DEF Taken
  <2> QED BY Zenon, <2>1, <1>5, <1>6, <1>8
<1>11. f.stage \notin {"NeedToSendP0AndP1", "WaitingForPacket0"} /\ ~f.error
  BY Zenon, <1>8
<1>12. TurnInv(r, f, rest)
  BY Zenon, <1>8, <1>9, <1>10, <1>11 DEF TurnInv
<1> QED BY Zenon, <1>1, <1>8, <1>12

\* The order of the states of a handshake.
LEMMA Ranks ==
  /\ Rank("NeedToSendP0AndP1") = 1 /\ Rank("WaitingForPacket0") = 2
  /\ Rank("WaitingForPacket1") = 3 /\ Rank("WaitingForPacket2") = 4 /\ Rank("Complete") = 5
  /\ 2 = 1 + 1 /\ 3 = 2 + 1 /\ 4 = 3 + 1 /\ 5 = 4 + 1
<1>1. /\ Stages[1] = "NeedToSendP0AndP1" /\ Stages[2] = "WaitingForPacket0"
      /\ Stages[3] = "WaitingForPacket1" /\ Stages[4] = "WaitingForPacket2"
      /\ Stages[5] = "Complete"
  BY Zenon DEF Stages
<1>2. \A i \in 1 .. 5 : i = 1 \/ i = 2 \/ i = 3 \/ i = 4 \/ i = 5
  OBVIOUS
<1> QED BY <1>1, <1>2 DEF Rank

\* A turn keeps what holds between turns, and is the last or moves to the next stage.
LEMMA TurnKeeps ==
  ASSUME HInv, NEW r \in Roles, NEW e, NEW rest \in Seq(Bytes), TurnInv(r, e, rest)
  PROVE  /\ TurnInv(r, Turn(r, e), rest)
         /\ Done(e) => Done(Turn(r, e))
         /\ Done(Turn(r, e)) \/ Rank(Turn(r, e).stage) = Rank(e.stage) + 1
<1>1. HandshakeTypes /\ e \in Ends /\ e.stage \in StageSet
  BY Zenon DEF HInv, TurnInv, Ends
<1>2. CASE Done(e)
  <2>1. Turn(r, e) = e
    <3>1. CASE e.error
      BY Zenon, <3>1 DEF Turn
    <3>2. CASE ~e.error /\ e.stage = "WaitingForPacket0" /\ e.buffer = << >>
      <4>1. Turn(r, e) = parse_p0(e)
        BY Zenon, <3>2 DEF Turn
      <4> QED BY Zenon, <4>1, <3>2 DEF parse_p0
    <3>3. CASE ~e.error /\ e.stage = "WaitingForPacket1" /\ Len(e.buffer) < PacketSize
      <4>1. Turn(r, e) = parse_p1(r, e)
        BY Zenon, <3>3 DEF Turn
      <4> QED BY Zenon, <4>1, <3>3 DEF parse_p1
    <3>4. CASE ~e.error /\ e.stage = "WaitingForPacket2" /\ Len(e.buffer) < PacketSize
      <4>1. Turn(r, e) = parse_p2(e)
        BY Zenon, <3>4 DEF Turn
      <4> QED BY Zenon, <4>1, <3>4 DEF parse_p2
    <3>5. CASE ~e.error /\ e.stage = "Complete"
      BY Zenon, <3>5 DEF Turn
    <3> QED BY Zenon, <1>1, <1>2, <3>1, <3>2, <3>3, <3>4, <3>5 DEF Done, Idle, StageSet
  <2> QED BY Zenon, <2>1, <1>2
<1>3. CASE ~e.error /\ e.stage = "NeedToSendP0AndP1"
  <2>1. ~Done(e)
    BY Zenon, <1>3 DEF Done, Idle
  <2> QED BY Zenon, <2>1, <1>1, <1>3, TurnSends, Ranks
<1>4. CASE ~e.error /\ e.stage = "WaitingForPacket0" /\ e.buffer # << >>
  <2>1. ~Done(e)
    BY Zenon, <1>4 DEF Done, Idle
  <2> QED BY Zenon, <2>1, <1>1, <1>4, TurnTakesP0, Ranks DEF Done
<1>5. CASE ~e.error /\ e.stage = "WaitingForPacket1" /\ ~(Len(e.buffer) < PacketSize)
  <2>1. ~Done(e)
    BY Zenon, <1>5 DEF Done, Idle
  <2> QED BY Zenon, <2>1, <1>1, <1>5, TurnTakesP1, Ranks
<1>6. CASE ~e.error /\ e.stage = "WaitingForPacket2" /\ ~(Len(e.buffer) < PacketSize)
  <2>1. ~Done(e)
    BY Zenon, <1>6 DEF Done, Idle
  <2> QED BY Zenon, <2>1, <1>1, <1>6, TurnTakesP2, Ranks
<1>7. CASE ~e.error /\ e.stage = "Complete"
  <2>1. Done(e)
    BY Zenon, <1>7 DEF Done, Idle, TurnInv
  <2> QED BY Zenon, <1>2, <2>1
<1> QED BY Zenon, <1>1, <1>2, <1>3, <1>4, <1>5, <1>6, <1>7 DEF Done, Idle, StageSet

\* process_bytes stops at an error or with nothing left to do.
LEMMA ProcessKeeps ==
  ASSUME HInv, NEW r \in Roles, ~closed[r], current_stage[r] # "Complete",
         NEW n \in 1 .. Len(wire[r])
  PROVE  LET e == process_bytes(r, SubSeq(wire[r], 1, n))
         IN  TurnInv(r, e, SubSeq(wire[r], n + 1, Len(wire[r]))) /\ Done(e)
<1> DEFINE data == SubSeq(wire[r], 1, n)
           rest == SubSeq(wire[r], n + 1, Len(wire[r]))
           e0 == [stage |-> current_stage[r], buffer |-> input_buffer[r] \o data,
                  response |-> << >>, remaining |-> << >>, error |-> FALSE]
<1>1. /\ HandshakeTypes /\ EndInv(r) /\ wire[r] \in Seq(Bytes) /\ input_buffer[r] \in Seq(Bytes)
      /\ output[r] \in Seq(Bytes) /\ current_stage[r] \in StageSet
  BY Zenon DEF HInv, HandshakeTypes
<1>2. data \in Seq(Bytes) /\ rest \in Seq(Bytes) /\ data \o rest = wire[r]
  <2>1. n \in 0 .. Len(wire[r])
    BY <1>1, LenProperties
  <2> QED BY Zenon, <2>1, <1>1, Cut
<1>3. PICK s \in Seq(Bytes) : s = input_buffer[r] \o data
  BY Zenon, <1>1, <1>2, ConcatProperties
<1>4. PICK e : e = e0
  BY Zenon
<1>5. /\ e.stage = current_stage[r] /\ e.buffer = s /\ e.response = << >>
      /\ e.remaining = << >> /\ ~e.error /\ e \in Ends
  <2>1. << >> \in Seq(Bytes)
    OBVIOUS
  <2> QED BY Zenon, <2>1, <1>1, <1>3, <1>4 DEF Ends
<1>6. s \o rest = input_buffer[r] \o wire[r]
  <2> HIDE DEF data, rest
  <2>1. (input_buffer[r] \o data) \o rest = input_buffer[r] \o (data \o rest)
    BY ZenonT(40), <1>1, <1>2, JoinedTwice
  <2> QED BY Zenon, <2>1, <1>2, <1>3
<1>7. output[r] \o << >> = output[r]
  BY Zenon, <1>1, ConcatEmptySeq
<1>8. TurnInv(r, e, rest)
  <2>1. Wrote(r, e.stage, output[r] \o e.response)
    BY Zenon, <1>1, <1>5, <1>7 DEF EndInv
  <2>2. Ahead(output[Peer(r)], Taken(e.stage), e.buffer \o rest)
    BY Zenon, <1>1, <1>5, <1>6 DEF EndInv
  <2>3. e.stage \in {"NeedToSendP0AndP1", "WaitingForPacket0"} => output[r] \in {<< >>, P0AndP1(r)}
    BY Zenon, <1>1, <1>5 DEF EndInv, Wrote
  <2> QED BY Zenon, <2>1, <2>2, <2>3, <1>5 DEF TurnInv
<1> HIDE DEF rest, e0, data
<1>9. PICK e1 : e1 = Turn(r, e)
  BY Zenon
<1>10. PICK e2 : e2 = Turn(r, e1)
  BY Zenon
<1>11. PICK e3 : e3 = Turn(r, e2)
  BY Zenon
<1>12. PICK e4 : e4 = Turn(r, e3)
  BY Zenon
<1>13. process_bytes(r, data) = e4
  BY Zenon, <1>4, <1>9, <1>10, <1>11, <1>12 DEF process_bytes, e0
<1>14. /\ TurnInv(r, e1, rest) /\ (Done(e) => Done(e1))
       /\ Done(e1) \/ Rank(e1.stage) = Rank(e.stage) + 1
  BY Zenon, <1>2, <1>8, <1>9, TurnKeeps
<1>15. /\ TurnInv(r, e2, rest) /\ (Done(e1) => Done(e2))
       /\ Done(e2) \/ Rank(e2.stage) = Rank(e1.stage) + 1
  BY Zenon, <1>2, <1>14, <1>10, TurnKeeps
<1>16. /\ TurnInv(r, e3, rest) /\ (Done(e2) => Done(e3))
       /\ Done(e3) \/ Rank(e3.stage) = Rank(e2.stage) + 1
  BY Zenon, <1>2, <1>15, <1>11, TurnKeeps
<1>17. /\ TurnInv(r, e4, rest) /\ (Done(e3) => Done(e4))
       /\ Done(e4) \/ Rank(e4.stage) = Rank(e3.stage) + 1
  BY Zenon, <1>2, <1>16, <1>12, TurnKeeps
<1>18. Done(e4)
  <2> SUFFICES ASSUME ~Done(e4) PROVE FALSE
    BY Zenon
  <2>1. /\ Rank(e1.stage) = Rank(e.stage) + 1 /\ Rank(e2.stage) = Rank(e1.stage) + 1
        /\ Rank(e3.stage) = Rank(e2.stage) + 1 /\ Rank(e4.stage) = Rank(e3.stage) + 1
    BY Zenon, <1>14, <1>15, <1>16, <1>17
  <2>2. \A x \in StageSet : Rank(x) \in 1 .. 5 /\ (x # "Complete" => Rank(x) < 5)
    BY Ranks DEF StageSet
  <2>3. e.stage \in StageSet /\ e4.stage \in StageSet
    BY Zenon, <1>8, <1>17 DEF TurnInv, Ends
  <2>4. e4.stage = "Complete"
    <3>1. PICK a \in 1 .. 5 : a = Rank(e.stage)
      BY Zenon, <2>2, <2>3
    <3>2. PICK b \in 1 .. 5 : b = Rank(e4.stage)
      BY Zenon, <2>2, <2>3
    <3>3. b = (((a + 1) + 1) + 1) + 1
      BY Zenon, <2>1, <3>1, <3>2
    <3>4. ~(b < 5)
      BY <3>3
    <3> QED BY Zenon, <3>2, <3>4, <2>2, <2>3
  <2> QED BY Zenon, <2>4, <1>17 DEF TurnInv, Done, Idle
<1> QED BY Zenon, <1>13, <1>17, <1>18 DEF data, rest

-----------------------------------------------------------------------------
(* The actions                                                             *)

\* What the invariant says of the style depends on these parts of the state only.
LEMMA StyleKept ==
  ASSUME style' = style
  PROVE  \A r : P0AndP1(r)' = P0AndP1(r) /\ Greeting(r)' = Greeting(r)
<1>1. \A r : P0AndP1(r)' = P0AndP1(r) /\ PacketOne(r)' = PacketOne(r)
  BY Zenon DEF P0AndP1, PacketOne
<1> QED BY Zenon, <1>1 DEF Greeting

\* The other end q of one that writes x: the bytes are ahead of it.
LEMMA OtherEnd ==
  ASSUME HInv, NEW r \in Roles, NEW q \in Roles, r = Peer(q), NEW x \in Seq(Bytes),
         style' = style, output'[r] = output[r] \o x, output'[q] = output[q],
         wire'[q] = wire[q] \o x, current_stage'[q] = current_stage[q],
         input_buffer'[q] = input_buffer[q], closed'[q] = closed[q], session'[q] = session[q]
  PROVE  EndInv(q)'
<1>1. /\ EndInv(q) /\ output[r] \in Seq(Bytes) /\ wire[q] \in Seq(Bytes)
      /\ session[q] \in Seq(Bytes) /\ input_buffer[q] \in Seq(Bytes)
      /\ current_stage[q] \in StageSet /\ PacketSize \in Nat
  BY Zenon, HandshakeAssumption DEF HInv, HandshakeTypes
<1>2. PICK w \in Seq(Bytes) :
        w = IF current_stage[q] = "Complete" THEN session[q] ELSE input_buffer[q]
  BY Zenon, <1>1
<1>3. ASSUME ~closed[q]
      PROVE  Ahead(output[r] \o x, Taken(current_stage[q]), w \o (wire[q] \o x))
  <2>1. Ahead(output[r], Taken(current_stage[q]), w \o wire[q])
    BY Zenon, <1>1, <1>2, <1>3 DEF EndInv
  <2>2. Taken(current_stage[q]) \in Nat
    BY <1>1 DEF Taken, StageSet
  <2> QED BY Zenon, <2>1, <2>2, <1>1, <1>2, AheadOfWire
<1>4. /\ P0AndP1(q)' = P0AndP1(q) /\ Greeting(q)' = Greeting(q)
  BY Zenon, StyleKept
<1>5. ~closed'[q] =>
        /\ Ahead(output'[Peer(q)], Taken(current_stage'[q]),
                 (IF current_stage'[q] = "Complete" THEN session'[q] ELSE input_buffer'[q])
                   \o wire'[q])
        /\ Idle(current_stage'[q], input_buffer'[q])
  BY Zenon, <1>1, <1>2, <1>3 DEF EndInv
<1>6. ~closed'[q] => Wrote(q, current_stage[q], output[q])'
  BY Zenon, <1>1, <1>4 DEF EndInv, Wrote
<1> QED BY Zenon, <1>1, <1>4, <1>5, <1>6 DEF EndInv, Ahead, Taken, Idle, Wrote

\* Both ends are what they should be when the one that acts and the other one are.
LEMMA BothEnds ==
  ASSUME HandshakeTypes', NEW r \in Roles, EndInv(r)', EndInv(Peer(r))'
  PROVE  HInv'
<1>1. \A q \in Roles : q = r \/ q = Peer(r)
  BY DEF Roles, Peer
<1> QED BY Zenon, <1>1 DEF HInv

\* The application starts the handshake.
LEMMA StartKeeps ==
  ASSUME HInv, NEW r \in Roles, Start(r)
  PROVE  HInv'
<1>1. PICK q : q = Peer(r)
  BY Zenon
<1>2. PICK x : x = P0AndP1(r)
  BY Zenon
<1>3. q \in Roles /\ q # r /\ r = Peer(q) /\ HandshakeTypes /\ EndInv(r) /\ x \in Seq(Bytes)
  BY Zenon, <1>1, <1>2, Roles2, Opening DEF HInv
<1>4. /\ output[r] \in Seq(Bytes) /\ wire[q] \in Seq(Bytes) /\ wire[r] \in Seq(Bytes)
      /\ output[r] \o x \in Seq(Bytes) /\ wire[q] \o x \in Seq(Bytes)
  BY Zenon, <1>3, Joined DEF HandshakeTypes
<1>5. /\ current_stage[r] = "NeedToSendP0AndP1"
      /\ current_stage' = [current_stage EXCEPT ![r] = "WaitingForPacket0"]
      /\ output' = [output EXCEPT ![r] = output[r] \o x]
      /\ wire' = [wire EXCEPT ![q] = wire[q] \o x]
      /\ input_buffer' = input_buffer /\ closed' = closed /\ style' = style /\ session' = session
  BY Zenon, <1>1, <1>2 DEF Start, Write
<1>6. HandshakeTypes'
  <2>1. "WaitingForPacket0" \in StageSet
    BY Zenon DEF StageSet
  <2> QED BY Zenon, <2>1, <1>3, <1>4, <1>5 DEF HandshakeTypes
<1>7. /\ output'[r] = output[r] \o x /\ output'[q] = output[q] /\ wire'[q] = wire[q] \o x
      /\ wire'[r] = wire[r]
      /\ current_stage'[q] = current_stage[q] /\ current_stage'[r] = "WaitingForPacket0"
  BY Zenon, <1>3, <1>5 DEF HandshakeTypes
<1>8. EndInv(q)'
  BY Zenon, <1>3, <1>5, <1>7, OtherEnd
<1>9. EndInv(r)'
  <2>1. ~closed[r] /\ session[r] = << >> /\ input_buffer[r] = << >> /\ output[r] = << >>
    BY Zenon, <1>3, <1>5 DEF EndInv, Wrote
  <2>2. << >> \o x = x
    BY Zenon, <1>3, ConcatEmptySeq
  <2>3. output'[r] = P0AndP1(r)'
    BY Zenon, <2>1, <2>2, <1>2, <1>5, <1>7, StyleKept
  <2>4. Wrote(r, current_stage[r], output[r])'
    BY Zenon, <2>3, <1>7 DEF Wrote
  <2>5. Ahead(output'[Peer(r)], Taken(current_stage'[r]), input_buffer'[r] \o wire'[r])
    <3>1. Taken(current_stage'[r]) = Taken(current_stage[r])
      BY Zenon, <1>5, <1>7 DEF Taken
    <3>2. current_stage[r] # "Complete"
      BY Zenon, <1>5
    <3>3. Ahead(output[Peer(r)], Taken(current_stage[r]), input_buffer[r] \o wire[r])
      BY Zenon, <2>1, <3>2, <1>3 DEF EndInv
    <3> QED BY Zenon, <3>1, <3>3, <1>1, <1>5, <1>7
  <2>6. Idle(current_stage'[r], input_buffer'[r])
    BY Zenon, <2>1, <1>5, <1>7 DEF Idle
  <2>7. current_stage'[r] # "Complete" /\ current_stage'[r] # "NeedToSendP0AndP1"
    BY Zenon, <1>7
  <2> QED BY Zenon, <2>1, <2>4, <2>5, <2>6, <2>7, <1>5 DEF EndInv, Ahead, Taken, Idle
<1> QED BY Zenon, <1>1, <1>6, <1>8, <1>9, BothEnds

\* Bytes arrive and are processed.
LEMMA ReceiveKeeps ==
  ASSUME HInv, NEW r \in Roles, Receive(r)
  PROVE  HInv'
<1>1. PICK q : q = Peer(r)
  BY Zenon
<1>2. PICK n \in 1 .. Len(wire[r]) : Process(r, n)
  BY Zenon DEF Receive
<1>3. PICK e : e = process_bytes(r, SubSeq(wire[r], 1, n))
  BY Zenon
<1>4. PICK rest : rest = SubSeq(wire[r], n + 1, Len(wire[r]))
  BY Zenon
<1>5. PICK x : x = IF e.error THEN << >> ELSE e.response
  BY Zenon
<1>6. /\ ~closed[r] /\ current_stage[r] # "Complete" /\ style' = style
      /\ current_stage' = [current_stage EXCEPT ![r] = e.stage]
      /\ input_buffer' = [input_buffer EXCEPT ![r] = e.buffer]
      /\ closed' = [closed EXCEPT ![r] = e.error]
      /\ session' = [session EXCEPT ![r] = session[r] \o e.remaining]
      /\ output' = [output EXCEPT ![r] = output[r] \o x]
      /\ wire' = [wire EXCEPT ![r] = rest, ![q] = @ \o x]
  BY ZenonT(30), <1>1, <1>2, <1>3, <1>4, <1>5 DEF Process
<1>7. TurnInv(r, e, rest) /\ Done(e)
  BY Zenon, <1>2, <1>3, <1>4, <1>6, ProcessKeeps
<1>8. q \in Roles /\ q # r /\ r = Peer(q) /\ HandshakeTypes /\ EndInv(r) /\ EndInv(q)
  BY Zenon, <1>1, Roles2 DEF HInv
<1>9. /\ e \in Ends /\ e.stage \in StageSet /\ e.buffer \in Seq(Bytes)
      /\ e.response \in Seq(Bytes) /\ e.remaining \in Seq(Bytes) /\ e.error \in BOOLEAN
  BY Zenon, <1>7 DEF TurnInv, Ends
<1>10. << >> \in Seq(Bytes) /\ rest \in Seq(Bytes) /\ wire[r] \in Seq(Bytes)
  <2>1. wire[r] \in Seq(Bytes)
    BY Zenon, <1>8 DEF HandshakeTypes
  <2>2. n \in 0 .. Len(wire[r])
    BY <2>1, <1>2, LenProperties
  <2> QED BY <2>1, <2>2, <1>4, Cut
<1>11. x \in Seq(Bytes)
  BY Zenon, <1>5, <1>9, <1>10
<1>12. /\ output[r] \o x \in Seq(Bytes) /\ wire[q] \o x \in Seq(Bytes)
       /\ session[r] \o e.remaining \in Seq(Bytes)
  BY Zenon, <1>8, <1>9, <1>11, Joined DEF HandshakeTypes
<1>13. /\ output'[r] = output[r] \o x /\ output'[q] = output[q]
       /\ wire'[q] = wire[q] \o x /\ wire'[r] = rest
       /\ current_stage'[q] = current_stage[q] /\ current_stage'[r] = e.stage
       /\ input_buffer'[q] = input_buffer[q] /\ input_buffer'[r] = e.buffer
       /\ closed'[q] = closed[q] /\ closed'[r] = e.error
       /\ session'[q] = session[q] /\ session'[r] = session[r] \o e.remaining
  <2>1. wire'[q] = wire[q] \o x /\ wire'[r] = rest
    BY Zenon, <1>6, <1>8 DEF HandshakeTypes
  <2> QED BY Zenon, <2>1, <1>6, <1>8 DEF HandshakeTypes
<1>14. HandshakeTypes'
  <2>1. wire' \in [Roles -> Seq(Bytes)]
    BY Zenon, <1>6, <1>8, <1>10, <1>12 DEF HandshakeTypes
  <2> QED BY Zenon, <2>1, <1>6, <1>8, <1>9, <1>12 DEF HandshakeTypes
<1>15. EndInv(q)'
  BY Zenon, <1>6, <1>8, <1>11, <1>13, OtherEnd
<1>16. session[r] = << >> /\ session'[r] = e.remaining
  <2>1. session[r] = << >>
    BY Zenon, <1>6, <1>8 DEF EndInv
  <2>2. << >> \o e.remaining = e.remaining
    BY Zenon, <1>9, ConcatEmptySeq
  <2> QED BY Zenon, <2>1, <2>2, <1>13
<1>17. P0AndP1(r)' = P0AndP1(r) /\ Greeting(r)' = Greeting(r)
  BY Zenon, <1>6, StyleKept
<1>18. CASE e.error
  <2>1. x = << >> /\ e.stage = "WaitingForPacket0" /\ output[r] \in {<< >>, P0AndP1(r)}
    BY Zenon, <1>5, <1>7, <1>18 DEF TurnInv
  <2>2. output[r] \o << >> = output[r]
    BY Zenon, <1>8, ConcatEmptySeq DEF HandshakeTypes
  <2>3. output'[r] \in {<< >>, P0AndP1(r)'}
    BY Zenon, <2>1, <2>2, <1>13, <1>17
  <2>4. e.stage # "Complete" /\ e.stage # "NeedToSendP0AndP1" /\ e.remaining = << >>
    BY Zenon, <2>1, <1>7 DEF TurnInv
  <2>5. EndInv(r)'
    BY Zenon, <2>1, <2>3, <2>4, <1>13, <1>16, <1>18 DEF EndInv
  <2> QED BY Zenon, <2>5, <1>1, <1>14, <1>15, BothEnds
<1>19. CASE ~e.error
  <2>1. x = e.response
    BY Zenon, <1>5, <1>19
  <2>2. /\ Wrote(r, e.stage, output[r] \o e.response)
        /\ Ahead(output[q], Taken(e.stage),
                 (IF e.stage = "Complete" THEN e.remaining ELSE e.buffer) \o rest)
        /\ e.stage # "NeedToSendP0AndP1" /\ Idle(e.stage, e.buffer)
        /\ e.stage # "Complete" => e.remaining = << >>
    BY Zenon, <1>1, <1>7, <1>19 DEF TurnInv, Done
  <2>3. Wrote(r, current_stage[r], output[r])'
    BY Zenon, <2>1, <2>2, <1>13, <1>17 DEF Wrote
  <2>4. /\ Ahead(output'[q], Taken(current_stage'[r]),
                 (IF current_stage'[r] = "Complete" THEN session'[r] ELSE input_buffer'[r])
                   \o wire'[r])
        /\ Idle(current_stage'[r], input_buffer'[r])
    BY Zenon, <2>2, <1>13, <1>16
  <2>5. EndInv(r)'
    BY Zenon, <2>2, <2>3, <2>4, <1>1, <1>13, <1>16, <1>19 DEF EndInv, Ahead, Taken, Idle
  <2> QED BY Zenon, <2>5, <1>1, <1>14, <1>15, BothEnds
<1> QED BY Zenon, <1>9, <1>18, <1>19

\* The session is given what has arrived.
LEMMA SessionReceivesKeeps ==
  ASSUME HInv, NEW r \in Roles, SessionReceives(r)
  PROVE  HInv'
<1>1. PICK q : q = Peer(r)
  BY Zenon
<1>2. q \in Roles /\ q # r /\ r = Peer(q) /\ HandshakeTypes /\ EndInv(r) /\ EndInv(q)
  BY Zenon, <1>1, Roles2 DEF HInv
<1>3. PICK s \in Seq(Bytes) : s = session[r] \o wire[r]
  BY Zenon, <1>2, Joined DEF HandshakeTypes
<1>4. /\ current_stage[r] = "Complete" /\ current_stage' = current_stage
      /\ session' = [session EXCEPT ![r] = s] /\ wire' = [wire EXCEPT ![r] = << >>]
      /\ input_buffer' = input_buffer /\ closed' = closed /\ style' = style /\ output' = output
  BY Zenon, <1>3 DEF SessionReceives
<1>5. << >> \in Seq(Bytes) /\ s \o << >> = s
  BY <1>3, ConcatEmptySeq
<1>6. HandshakeTypes'
  BY Zenon, <1>2, <1>3, <1>4, <1>5 DEF HandshakeTypes
<1>7. /\ session'[r] = s /\ session'[q] = session[q] /\ wire'[r] = << >> /\ wire'[q] = wire[q]
  BY Zenon, <1>2, <1>4 DEF HandshakeTypes
<1>8. wire[q] \o << >> = wire[q] /\ output[r] \o << >> = output[r]
  BY Zenon, <1>2, ConcatEmptySeq DEF HandshakeTypes
<1>9. EndInv(q)'
  BY Zenon, <1>2, <1>4, <1>5, <1>7, <1>8, OtherEnd
<1>10. ~closed[r]
  BY Zenon, <1>2, <1>4 DEF EndInv
<1>11. P0AndP1(r)' = P0AndP1(r) /\ Greeting(r)' = Greeting(r)
  BY Zenon, <1>4, StyleKept
<1>12. Wrote(r, current_stage[r], output[r])'
  BY Zenon, <1>2, <1>4, <1>10, <1>11 DEF EndInv, Wrote
<1>13. Ahead(output'[Peer(r)], Taken(current_stage'[r]), session'[r] \o wire'[r])
  BY Zenon, <1>2, <1>3, <1>4, <1>5, <1>7, <1>10 DEF EndInv
<1>14. EndInv(r)'
  <2>1. Idle(current_stage'[r], input_buffer'[r])
    BY Zenon, <1>2, <1>4, <1>10 DEF EndInv
  <2>2. current_stage'[r] = "Complete" /\ current_stage'[r] # "NeedToSendP0AndP1"
    BY Zenon, <1>4
  <2> QED BY Zenon, <2>1, <2>2, <1>4, <1>10, <1>12, <1>13 DEF EndInv, Ahead, Taken, Idle
<1> QED BY Zenon, <1>1, <1>2, <1>6, <1>9, <1>14, BothEnds

\* The session writes a byte.
LEMMA SessionSendsKeeps ==
  ASSUME HInv, NEW r \in Roles, SessionSends(r)
  PROVE  HInv'
<1>1. PICK q : q = Peer(r)
  BY Zenon
<1>2. q \in Roles /\ q # r /\ r = Peer(q) /\ HandshakeTypes /\ EndInv(r) /\ EndInv(q)
  BY Zenon, <1>1, Roles2 DEF HInv
<1>3. PICK x : x = <<Byte("data", r, Written(r) + 1)>>
  BY Zenon
<1>4. /\ current_stage[r] = "Complete" /\ current_stage' = current_stage
      /\ output' = [output EXCEPT ![r] = output[r] \o x]
      /\ wire' = [wire EXCEPT ![q] = wire[q] \o x]
      /\ input_buffer' = input_buffer /\ closed' = closed /\ style' = style /\ session' = session
  BY Zenon, <1>1, <1>3 DEF SessionSends, Write
<1>5. /\ ~closed[r] /\ Len(output[r]) >= 2 * PacketSize + 1 /\ PacketSize \in Nat
      /\ SubSeq(output[r], 1, 2 * PacketSize + 1) = Greeting(r) /\ Greeting(r) \in Seq(Bytes)
      /\ output[r] \in Seq(Bytes) /\ wire[q] \in Seq(Bytes) /\ Len(output[r]) \in Nat
  <2>1. ~closed[r]
    BY Zenon, <1>2, <1>4 DEF EndInv
  <2>2. Wrote(r, current_stage[r], output[r])
    BY Zenon, <2>1, <1>2 DEF EndInv
  <2>3. Greeting(r) \in Seq(Bytes) /\ output[r] \in Seq(Bytes) /\ wire[q] \in Seq(Bytes)
    BY Zenon, <1>2, GreetingIs DEF HandshakeTypes
  <2> QED BY <2>1, <2>2, <2>3, <1>4, HandshakeAssumption DEF Wrote
<1>6. x \in Seq(Bytes)
  <2>1. Written(r) + 1 \in Nat
    BY <1>5 DEF Written
  <2>2. Byte("data", r, Written(r) + 1) \in Bytes
    BY Zenon, <2>1 DEF Byte, Bytes
  <2> QED BY <2>2, <1>3
<1>7. output[r] \o x \in Seq(Bytes) /\ wire[q] \o x \in Seq(Bytes)
  BY Zenon, <1>5, <1>6, Joined
<1>8. HandshakeTypes'
  BY Zenon, <1>2, <1>4, <1>7 DEF HandshakeTypes
<1>9. /\ output'[r] = output[r] \o x /\ output'[q] = output[q]
      /\ wire'[q] = wire[q] \o x /\ wire'[r] = wire[r]
  BY Zenon, <1>2, <1>4 DEF HandshakeTypes
<1>10. EndInv(q)'
  BY Zenon, <1>2, <1>4, <1>6, <1>9, OtherEnd
<1>11. /\ Len(output[r] \o x) >= 2 * PacketSize + 1
       /\ SubSeq(output[r] \o x, 1, 2 * PacketSize + 1) = Greeting(r)
  <2>1. PICK o \in Seq(Bytes) : o = output[r]
    BY Zenon, <1>5
  <2>2. PICK k \in Nat : k = 2 * PacketSize + 1
    BY <1>5
  <2>3. Len(o \o x) = Len(o) + Len(x) /\ Len(x) \in Nat /\ Len(o) \in Nat
    BY Zenon, <2>1, <1>6, ConcatProperties, LenProperties
  <2>4. k <= Len(o) /\ 1 <= k
    BY <2>1, <2>2, <1>5
  <2>5. 1 \in 1 .. Len(o) /\ k \in 1 .. Len(o)
    BY <2>3, <2>4
  <2>6. SubSeq(o \o x, 1, k) = SubSeq(o, 1, k)
    BY Zenon, <2>1, <2>5, <1>6, SubSeqOfConcat1
  <2>7. Len(o \o x) >= k
    BY <2>3, <2>4
  <2> QED BY Zenon, <2>1, <2>2, <2>6, <2>7, <1>5
<1>12. Wrote(r, current_stage[r], output[r])'
  <2>1. Greeting(r)' = Greeting(r)
    BY Zenon, <1>4, StyleKept
  <2> QED BY Zenon, <2>1, <1>4, <1>9, <1>11 DEF Wrote
<1>13. Ahead(output'[Peer(r)], Taken(current_stage'[r]), session'[r] \o wire'[r])
  BY Zenon, <1>1, <1>2, <1>4, <1>5, <1>9 DEF EndInv
<1>14. EndInv(r)'
  <2>1. Idle(current_stage'[r], input_buffer'[r])
    BY Zenon, <1>2, <1>4, <1>5 DEF EndInv
  <2>2. current_stage'[r] = "Complete" /\ current_stage'[r] # "NeedToSendP0AndP1"
    BY Zenon, <1>4
  <2> QED BY Zenon, <2>1, <2>2, <1>4, <1>5, <1>12, <1>13 DEF EndInv, Ahead, Taken, Idle
<1> QED BY Zenon, <1>1, <1>2, <1>8, <1>10, <1>14, BothEnds

-----------------------------------------------------------------------------
(* The theorems                                                            *)

\* Nothing is written or received yet.
LEMMA InitHolds == Init => HInv
<1> SUFFICES ASSUME Init PROVE HInv
  BY Zenon
<1>1. << >> \in Seq(Bytes) /\ "NeedToSendP0AndP1" \in StageSet
  BY DEF StageSet
<1>2. style \in [Roles -> {"digest", "original", "other_version"}]
  BY DEF Init, Roles
<1>3. HandshakeTypes
  BY Zenon, <1>1, <1>2 DEF Init, HandshakeTypes
<1>4. ASSUME NEW r \in Roles PROVE EndInv(r)
  <2>1. /\ current_stage[r] = "NeedToSendP0AndP1" /\ input_buffer[r] = << >> /\ ~closed[r]
        /\ wire[r] = << >> /\ output[r] = << >> /\ session[r] = << >> /\ output[Peer(r)] = << >>
    BY Zenon, Roles2 DEF Init
  <2>2. Wrote(r, current_stage[r], output[r]) /\ Idle(current_stage[r], input_buffer[r])
    BY Zenon, <2>1 DEF Wrote, Idle
  <2>3. Ahead(<< >>, 0, << >> \o << >>)
    BY DEF Ahead
  <2>4. Taken(current_stage[r]) = 0 /\ current_stage[r] # "Complete"
    BY Zenon, <2>1 DEF Taken
  <2> QED BY Zenon, <2>1, <2>2, <2>3, <2>4 DEF EndInv
<1> QED BY Zenon, <1>3, <1>4 DEF HInv

\* Every step of either end keeps the invariant.
LEMMA NextHolds == HInv /\ [Next]_vars => HInv'
<1> SUFFICES ASSUME HInv, [Next]_vars PROVE HInv'
  BY Zenon
<1>1. CASE Next
  BY Zenon, <1>1, StartKeeps, ReceiveKeeps, SessionReceivesKeeps, SessionSendsKeeps DEF Next
<1>2. CASE UNCHANGED vars
  <2>1. /\ current_stage' = current_stage /\ input_buffer' = input_buffer /\ closed' = closed
        /\ style' = style /\ wire' = wire /\ output' = output /\ session' = session
    BY Zenon, <1>2 DEF vars
  <2>2. \A r : P0AndP1(r)' = P0AndP1(r) /\ Greeting(r)' = Greeting(r)
    BY Zenon, <2>1, StyleKept
  <2>3. ASSUME NEW r \in Roles PROVE EndInv(r)'
    <3>1. EndInv(r)
      BY Zenon DEF HInv
    <3> QED BY Zenon, <2>1, <2>2, <3>1 DEF EndInv, Wrote, Ahead, Taken, Idle
  <2>4. HandshakeTypes'
    BY Zenon, <2>1 DEF HInv, HandshakeTypes
  <2> QED BY Zenon, <2>3, <2>4 DEF HInv
<1> QED BY Zenon, <1>1, <1>2

\* HInv holds at all times.
LEMMA HandshakeInvariant == FairSpec => []HInv
<1> QED BY InitHolds, NextHolds, PTL DEF FairSpec

\* The invariant gives what NothingLost says.
LEMMA InvariantMeansNothingLost == HInv => NothingLost
<1> SUFFICES ASSUME HInv PROVE NothingLost
  BY Zenon
<1>1. HandshakeTypes /\ PacketSize \in Nat \ {0}
  BY Zenon, HandshakeAssumption DEF HInv
<1>2. HandshakeTypeOK
  <2>1. ASSUME NEW r \in Roles PROVE \E i \in DOMAIN Stages : current_stage[r] = Stages[i]
    <3>1. DOMAIN Stages = 1 .. 5
      BY DEF Stages
    <3>2. /\ Stages[1] = "NeedToSendP0AndP1" /\ Stages[2] = "WaitingForPacket0"
          /\ Stages[3] = "WaitingForPacket1" /\ Stages[4] = "WaitingForPacket2"
          /\ Stages[5] = "Complete"
      BY Zenon DEF Stages
    <3>3. current_stage[r] \in StageSet
      BY Zenon, <1>1 DEF HandshakeTypes
    <3> QED BY <3>1, <3>2, <3>3 DEF StageSet
  <2>2. ASSUME NEW r \in Roles, ~closed[r] PROVE Len(input_buffer[r]) < PacketSize
    <3>1. input_buffer[r] = << >> \/ Len(input_buffer[r]) < PacketSize
      <4>1. EndInv(r) /\ current_stage[r] \in StageSet
        BY Zenon, <1>1 DEF HInv, HandshakeTypes
      <4> QED BY Zenon, <4>1, <2>2 DEF EndInv, Idle, StageSet
    <3> QED BY <3>1, <1>1
  <2> QED BY Zenon, <2>1, <2>2, <1>1 DEF HandshakeTypeOK, HandshakeTypes
<1>3. ASSUME NEW r \in Roles, current_stage[r] = "Complete"
      PROVE  session[r] \o wire[r] = SessionBytes(Peer(r)) /\ input_buffer[r] = << >>
  <2>1. EndInv(r) /\ ~closed[r]
    BY Zenon, <1>3 DEF HInv, EndInv
  <2>2. /\ Ahead(output[Peer(r)], Taken(current_stage[r]), session[r] \o wire[r])
        /\ Idle(current_stage[r], input_buffer[r])
    BY Zenon, <2>1, <1>3 DEF EndInv
  <2>3. Taken(current_stage[r]) = 2 * PacketSize + 1
        /\ (2 * PacketSize + 1) + 1 = 2 * PacketSize + 2
    BY <1>1, <1>3 DEF Taken
  <2>4. session[r] \o wire[r] = SubSeq(output[Peer(r)], 2 * PacketSize + 2, Len(output[Peer(r)]))
    BY Zenon, <2>2, <2>3 DEF Ahead
  <2> QED BY Zenon, <2>2, <2>4, <1>3 DEF Idle, SessionBytes
<1>4. ASSUME NEW r \in Roles, current_stage[r] # "Complete" PROVE session[r] = << >>
  BY Zenon, <1>4 DEF HInv, EndInv
<1> QED BY Zenon, <1>2, <1>3, <1>4 DEF NothingLost

\* The invariant gives what CompletionIsMutual says.
LEMMA InvariantMeansMutual == HInv => CompletionIsMutual
<1> SUFFICES ASSUME HInv, NEW r \in Roles, current_stage[r] = "Complete"
             PROVE  /\ current_stage[Peer(r)] \in {"WaitingForPacket2", "Complete"}
                    /\ style[r] = "original" =>
                         SubSeq(output[Peer(r)], PacketSize + 2, 2 * PacketSize + 1) =
                           Packet("unsigned_P1", r)
  BY Zenon DEF CompletionIsMutual
<1>1. PICK q : q = Peer(r)
  BY Zenon
<1>2. /\ q \in Roles /\ r = Peer(q) /\ HandshakeTypes /\ EndInv(r) /\ EndInv(q)
      /\ PacketSize \in Nat \ {0} /\ current_stage[q] \in StageSet /\ output[q] \in Seq(Bytes)
  BY Zenon, <1>1, Roles2, HandshakeAssumption DEF HInv, HandshakeTypes
<1>3. Len(output[q]) >= 2 * PacketSize + 1 /\ Len(output[q]) \in Nat
  <2>1. ~closed[r]
    BY Zenon, <1>2 DEF EndInv
  <2>2. Taken(current_stage[r]) <= Len(output[q])
    BY Zenon, <2>1, <1>1, <1>2 DEF EndInv, Ahead
  <2> QED BY <2>2, <1>2 DEF Taken
<1>4. /\ P0AndP1(q) \in Seq(Bytes) /\ Len(P0AndP1(q)) = PacketSize + 1
      /\ Greeting(q) \in Seq(Bytes) /\ Len(Greeting(q)) = 2 * PacketSize + 1
  BY Zenon, <1>2, Opening, GreetingIs
<1>5. output[q] # << >> /\ output[q] # P0AndP1(q)
  BY <1>2, <1>3, <1>4
<1>6. ~closed[q] /\ current_stage[q] \in {"WaitingForPacket2", "Complete"}
  BY Zenon, <1>2, <1>5 DEF EndInv, Wrote, StageSet
<1>7. \A i \in 1 .. 2 * PacketSize + 1 : output[q][i] = Greeting(q)[i]
  <2>1. \/ output[q] = Greeting(q)
        \/ SubSeq(output[q], 1, 2 * PacketSize + 1) = Greeting(q)
    BY Zenon, <1>2, <1>6 DEF EndInv, Wrote
  <2>2. 2 * PacketSize + 1 \in 0 .. Len(output[q])
    BY <1>2, <1>3
  <2>3. \A i \in 1 .. 2 * PacketSize + 1 :
          SubSeq(output[q], 1, 2 * PacketSize + 1)[i] = output[q][i]
    BY Zenon, <2>2, <1>2, Cut
  <2> QED BY Zenon, <2>1, <2>3
<1>8. ASSUME style[r] = "original"
      PROVE  SubSeq(output[q], PacketSize + 2, 2 * PacketSize + 1) = Packet("unsigned_P1", r)
  <2>1. PICK a : a = Packet("unsigned_P1", r)
    BY Zenon
  <2>2. /\ a \in Seq(Bytes) /\ Len(a) = PacketSize
        /\ \A i \in 1 .. PacketSize : Greeting(q)[(PacketSize + 1) + i] = a[i]
    BY Zenon, <1>2, <1>8, <2>1, AnswerIs, GreetingIs
  <2>3. PICK t : t = SubSeq(output[q], PacketSize + 2, 2 * PacketSize + 1)
    BY Zenon
  <2>4. /\ t \in Seq(Bytes) /\ Len(t) = PacketSize
        /\ \A i \in 1 .. PacketSize : t[i] = output[q][(PacketSize + 1) + i]
    BY <1>2, <1>3, <2>3
  <2>5. ASSUME NEW i \in 1 .. PacketSize PROVE t[i] = a[i]
    <3>1. (PacketSize + 1) + i \in 1 .. 2 * PacketSize + 1
      BY <1>2
    <3> QED BY Zenon, <3>1, <2>2, <2>4, <1>7
  <2>6. t = a
    BY Zenon, <2>2, <2>4, <2>5, SeqEqual
  <2> QED BY Zenon, <2>1, <2>3, <2>6
<1> QED BY Zenon, <1>1, <1>6, <1>8

\* Each session is given exactly the bytes the other one wrote, for packets of any
\* size and however process_bytes is fed them; less than a packet stays buffered.
THEOREM HandshakeLosesNothing == FairSpec => []NothingLost
BY HandshakeInvariant, InvariantMeansNothingLost, PTL

\* An end completes only with the other's answer to its P1, which for one without a
\* digest is the P1 itself.
THEOREM HandshakeIsMutual == FairSpec => []CompletionIsMutual
BY HandshakeInvariant, InvariantMeansMutual, PTL
=============================================================================
