------------------------ MODULE ServerSessionProofs ------------------------
(***************************************************************************)
(* The server's tables agree, what it says is in order, and the end of     *)
(* every stream is reported, whatever the peer and the application do, for *)
(* any limits, any number of streams and any number of requests.           *)
(*                                                                         *)
(* For the tables only three kinds of steps matter.  A createStream adds   *)
(* one stream to both tables, a deleteStream takes one away and the        *)
(* requests about it with it, and every other step is quiet: it keeps the  *)
(* set of streams and at most adds a request about a known stream, or      *)
(* takes one out.                                                          *)
(*                                                                         *)
(* For what is said, a step answers a message, queues or returns packets   *)
(* of a call, answers a connect request with the preamble in front, or     *)
(* hands out what waits: four shapes, and each keeps the order of the      *)
(* outputs and their framing.                                              *)
(***************************************************************************)
EXTENDS ServerSession, StreamsProofs

\* Both tables count the same streams, their wire ids have been given out, and
\* what is dead is spent.
StreamsInv ==
  /\ TableOK(stream_handles)
  /\ DOMAIN active_streams = DOMAIN stream_handles.by_wire
  /\ IsFiniteSet(DOMAIN active_streams)
  /\ IsFiniteSet(Handles(stream_handles))
  /\ Cardinality(Handles(stream_handles)) = Cardinality(DOMAIN active_streams)
  /\ Cardinality(DOMAIN active_streams) <= MaxStreams
  /\ next_stream_id \in Nat
  /\ \A w \in DOMAIN active_streams : w < next_stream_id
  /\ dead \subseteq AllHandles
  /\ \A h \in dead : Spent(stream_handles, h)

RequestsInv == IsFiniteSet(DOMAIN outstanding) /\ RequestsConcernLiveStreams

IInv == StreamsInv /\ RequestsInv

-----------------------------------------------------------------------------
(* What the session says: its outputs and their order.                     *)

\* Outputs that neither belong to the preamble nor answer a connect request, and
\* are framed for AMF3 only if the peer has used it.
Plain(used) == {o \in Outputs : /\ o.what \in PlainKinds
                                /\ o.amf3 /\ o.what # "data" => used}

\* The two are the same output, serialised in different places.
Same(p, o) == p \in Outputs /\ p.what = o.what /\ p.msid = o.msid /\ p.amf3 = o.amf3

\* A set of outputs that does not depend on how they are serialised.
Closed(T) == T \subseteq Outputs /\ \A o \in T, p \in Outputs : Same(p, o) => p \in T

\* The sets of interest are closed.
LEMMA ClosedSets ==
  /\ Closed(Outputs)
  /\ \A used : Closed(Plain(used)) /\ Plain(used) \subseteq Outputs
BY ZenonT(40) DEF Closed, Same, Plain

\* A function on the first numbers is a sequence.
LEMMA FunctionIsSequence ==
  ASSUME NEW T, NEW k \in Nat, NEW f \in [1 .. k -> T]
  PROVE  f \in Seq(T) /\ Len(f) = k
OBVIOUS

\* The number of outputs ahead is one.
LEMMA UnsentNumber ==
  ASSUME NEW q \in Seq(Outputs), NEW c
  PROVE  Unsent(q, c) \in Nat
<1> DEFINE U == {i \in DOMAIN q : q[i].csid = c}
<1>1. IsFiniteSet(1 .. Len(q))
  BY FS_Interval
<1>2. U \subseteq 1 .. Len(q)
  OBVIOUS
<1>3. Cardinality(U) \in Nat
  BY Zenon, <1>1, <1>2, FS_Subset, FS_CardinalityType
<1> QED BY Zenon, <1>3 DEF Unsent

\* The serializer keeps outputs in a closed set, and keeps what they are.
LEMMA SerializedIn ==
  ASSUME NEW T, Closed(T), NEW outs \in Seq(T), NEW queue \in Seq(Outputs),
         NEW made, made = Serialized(outs, queue)
  PROVE  /\ made \in Seq(T) /\ Len(made) = Len(outs)
         /\ \A i \in 1 .. Len(outs) : Same(made[i], outs[i])
<1>0. T \subseteq Outputs
  BY Zenon DEF Closed
<1>1. /\ Len(outs) \in Nat /\ DOMAIN outs = 1 .. Len(outs)
      /\ \A i \in 1 .. Len(outs) : outs[i] \in T /\ outs[i] \in Outputs
  BY <1>0
<1>2. ASSUME NEW i \in 1 .. Len(outs)
      PROVE  made[i] \in T /\ Same(made[i], outs[i])
  <2> DEFINE o == outs[i]
             before == {j \in 1 .. i - 1 : outs[j].csid = o.csid}
             last == IF before = {} THEN previous[o.csid] ELSE outs[Max(before)].msid
             a == Unsent(queue, o.csid) + Cardinality(before)
  <2>1. made[i] = IF o.csid \notin DOMAIN previous THEN o
                  ELSE [o EXCEPT !.full = (@ \/ last # o.msid), !.ahead = a]
    BY <1>1, Zenon DEF Serialized
  <2>2. o \in T /\ o \in Outputs
    BY Zenon, <1>1
  <2>3. a \in Nat
    <3>1. IsFiniteSet(1 .. i - 1)
      BY FS_Interval
    <3>2. before \subseteq 1 .. i - 1
      BY Zenon
    <3>3. Cardinality(before) \in Nat
      BY Zenon, <3>1, <3>2, FS_Subset, FS_CardinalityType
    <3>4. Unsent(queue, o.csid) \in Nat
      BY Zenon, UnsentNumber
    <3> HIDE DEF before, o
    <3> QED BY <3>3, <3>4
  <2> HIDE DEF o, before, last, a
  <2>4. PICK f \in BOOLEAN : f = (o.full \/ last # o.msid)
    <3>1. CASE o.full \/ last # o.msid
      <4>1. TRUE \in BOOLEAN /\ TRUE = (o.full \/ last # o.msid)
        BY Zenon, <3>1
      <4> QED BY Zenon, <4>1
    <3>2. CASE ~(o.full \/ last # o.msid)
      <4>1. FALSE \in BOOLEAN /\ FALSE = (o.full \/ last # o.msid)
        BY Zenon, <3>2
      <4> QED BY Zenon, <4>1
    <3> QED BY Zenon, <3>1, <3>2
  <2>5. made[i] = o \/ made[i] = [o EXCEPT !.full = f, !.ahead = a]
    BY Zenon, <2>1, <2>4
  <2>6. Same(made[i], o)
    BY Zenon, <2>2, <2>3, <2>5 DEF Same, Outputs
  <2>7. made[i] \in T
    BY Zenon, <2>2, <2>6 DEF Closed, Same
  <2> QED BY Zenon, <2>6, <2>7 DEF o, Same
<1>3. DOMAIN made = 1 .. Len(outs)
  BY Zenon, <1>1 DEF Serialized
<1>4. made = [i \in 1 .. Len(outs) |-> made[i]]
  BY Zenon, <1>3 DEF Serialized
<1>5. made \in [1 .. Len(outs) -> T]
  BY Zenon, <1>2, <1>4
<1>6. made \in Seq(T) /\ Len(made) = Len(outs)
  BY <1>1, <1>5
<1> QED BY Zenon, <1>2, <1>6

\* Handing an output out keeps what waits in a closed set, and keeps what it is.
LEMMA AfterIn ==
  ASSUME NEW T, Closed(T), NEW queue \in Seq(T), NEW o \in Outputs,
         NEW left, left = After(o, queue)
  PROVE  /\ left \in Seq(T) /\ Len(left) = Len(queue)
         /\ \A i \in 1 .. Len(queue) : Same(left[i], queue[i])
<1>0. T \subseteq Outputs
  BY Zenon DEF Closed
<1>1. /\ Len(queue) \in Nat /\ DOMAIN queue = 1 .. Len(queue)
      /\ \A i \in 1 .. Len(queue) : queue[i] \in T /\ queue[i] \in Outputs
  BY <1>0
<1>2. ASSUME NEW i \in 1 .. Len(queue)
      PROVE  left[i] \in T /\ Same(left[i], queue[i])
  <2>1. left[i] = IF queue[i].csid = o.csid /\ queue[i].ahead > o.ahead
                  THEN [queue[i] EXCEPT !.ahead = @ - 1] ELSE queue[i]
    BY <1>1, Zenon DEF After
  <2>2. PICK x : x = queue[i]
    BY Zenon
  <2>3. x \in T /\ x \in Outputs
    BY Zenon, <1>1, <2>2
  <2>4. x.ahead \in Nat /\ o.ahead \in Nat
    BY Zenon, <2>3 DEF Outputs
  <2>5. left[i] = x \/ (x.ahead > o.ahead /\ left[i] = [x EXCEPT !.ahead = x.ahead - 1])
    BY Zenon, <2>1, <2>2
  <2>6. Same(left[i], x)
    <3>1. CASE left[i] = x
      BY Zenon, <2>3, <3>1 DEF Same
    <3>2. CASE x.ahead > o.ahead /\ left[i] = [x EXCEPT !.ahead = x.ahead - 1]
      <4>1. PICK n \in Nat : n = x.ahead - 1
        BY <2>4, <3>2
      <4>2. left[i] = [x EXCEPT !.ahead = n]
        BY Zenon, <3>2, <4>1
      <4> QED BY SMTT(20), <2>3, <4>2 DEF Same, Outputs
    <3> QED BY Zenon, <2>5, <3>1, <3>2
  <2>7. left[i] \in T
    BY Zenon, <2>3, <2>6 DEF Closed, Same
  <2> QED BY Zenon, <2>2, <2>6, <2>7
<1>3. DOMAIN left = 1 .. Len(queue) /\ left = [i \in 1 .. Len(queue) |-> left[i]]
  BY Zenon, <1>1 DEF After
<1>4. left \in [1 .. Len(queue) -> T]
  BY Zenon, <1>2, <1>3
<1>5. left \in Seq(T) /\ Len(left) = Len(queue)
  BY <1>1, <1>4
<1> QED BY Zenon, <1>2, <1>5

\* Saying nothing.
LEMMA NothingSaid ==
  NoOutput \in Outputs /\ NoOutput.what = "none" /\ ~NoOutput.amf3
<1>1. 0 \in WireIds
  BY ServerAssumption DEF WireIds
<1>2. NoOutput = [what |-> "none", csid |-> 0, msid |-> 0, full |-> FALSE, ahead |-> 0,
                  amf3 |-> FALSE]
  BY Zenon DEF NoOutput
<1>3. "none" \in PreambleKinds \cup Answers \cup PlainKinds
  BY Zenon DEF PlainKinds
<1>4. NoOutput \in Outputs
  BY <1>1, <1>2, <1>3 DEF Outputs
<1> QED BY Zenon, <1>2, <1>4

\* What every session may say at any time.
LEMMA PlainPacket ==
  ASSUME NEW used \in BOOLEAN, NEW what \in PlainKinds, NEW csid \in 0 .. 6,
         NEW stream \in WireIds, NEW a \in BOOLEAN, a /\ what # "data" => used
  PROVE  Packet(what, csid, stream, a) \in Plain(used)
<1>1. PICK z \in Outputs : z = NoOutput
  BY Zenon, NothingSaid
<1>2. PICK o : o = [z EXCEPT !.what = what, !.csid = csid, !.msid = stream, !.amf3 = a]
  BY Zenon
<1>3. o = Packet(what, csid, stream, a)
  BY Zenon, <1>1, <1>2 DEF Packet
<1>4. o \in Outputs /\ o.what = what /\ o.amf3 = a
  BY Zenon, <1>2 DEF Outputs
<1>5. o \in Plain(used)
  BY Zenon, <1>4 DEF Plain
<1> QED BY Zenon, <1>3, <1>5

\* Events and the packets on the chunk streams of controls, commands and data.
LEMMA PlainOutputs ==
  ASSUME NEW used \in BOOLEAN, NEW what \in PlainKinds,
         NEW stream \in WireIds, NEW b \in BOOLEAN, b => used
  PROVE  /\ Event(what, stream) \in Plain(used) /\ Control(what, stream) \in Plain(used)
         /\ CommandPacket(what, stream, b) \in Plain(used)
         /\ DataPacket(what, stream, b) \in Plain(used)
<1>0. PICK z \in Outputs : z = NoOutput /\ ~z.amf3
  BY Zenon, NothingSaid
<1>1. ASSUME NEW csid \in 0 .. 6, NEW a \in BOOLEAN, a => used
      PROVE  Packet(what, csid, stream, a) \in Plain(used)
  BY Zenon, <1>1, PlainPacket
<1>2. Event(what, stream) \in Plain(used)
  <2>1. PICK o : o = [z EXCEPT !.what = what, !.msid = stream]
    BY Zenon
  <2>2. o = Event(what, stream)
    BY Zenon, <1>0, <2>1 DEF Event
  <2>3. o \in Outputs /\ o.what = what /\ o.amf3 = z.amf3
    BY Zenon, <2>1 DEF Outputs
  <2>4. o \in Plain(used)
    BY Zenon, <1>0, <2>3 DEF Plain
  <2> QED BY Zenon, <2>2, <2>4
<1>3. 0 \in 0 .. 6 /\ 2 \in 0 .. 6 /\ 3 \in 0 .. 6 /\ 6 \in 0 .. 6
  OBVIOUS
<1>4. Packet(what, 2, stream, FALSE) \in Plain(used)
  BY Zenon, <1>1, <1>3
<1>5. Packet(what, 3, stream, b) \in Plain(used) /\ Packet(what, 6, stream, b) \in Plain(used)
  BY Zenon, <1>1, <1>3
<1>6. DataPacket(what, stream, b) = Packet(what, 6, stream, b)
      \/ DataPacket(what, stream, b) = Packet(what, 3, stream, b)
  BY Zenon DEF DataPacket
<1> QED BY Zenon, <1>2, <1>4, <1>5, <1>6 DEF Control, CommandPacket

\* Saying nothing, and acknowledging.
LEMMA PlainAlways ==
  ASSUME NEW used \in BOOLEAN
  PROVE  NoOutput \in Plain(used) /\ Control("acknowledgement", 0) \in Plain(used)
<1>1. 0 \in WireIds
  BY ServerAssumption DEF WireIds
<1>2. "none" \in PlainKinds /\ "acknowledgement" \in PlainKinds
  BY Zenon DEF PlainKinds
<1>4. Control("acknowledgement", 0) \in Plain(used)
  BY Zenon, <1>1, <1>2, PlainOutputs
<1>5. NoOutput \in Plain(used)
  BY Zenon, <1>2, NothingSaid DEF Plain
<1> QED BY Zenon, <1>4, <1>5

\* receive hands out and queues what its handler made, behind an acknowledgement.
LEMMA RespondSays ==
  ASSUME NEW used \in BOOLEAN, NEW outs \in Seq(Plain(used)), control \in Seq(Outputs),
         Respond(outs)
  PROVE  written' \in Plain(used) /\ pending' \in Seq(Plain(used))
<1> DEFINE T == Plain(used)
<1>1. Closed(T) /\ T \subseteq Outputs /\ NoOutput \in T /\ Control("acknowledgement", 0) \in T
  BY Zenon, ClosedSets, PlainAlways
<1> HIDE DEF T
<1>2. PICK all, made : /\ all \in Seq(T) /\ made = Serialized(all, control)
                       /\ made = << >> => written' = NoOutput /\ pending' = << >>
                       /\ made # << >> => /\ written' = Head(made)
                                          /\ pending' = After(Head(made), Tail(made))
  <2>1. PICK ack \in BOOLEAN :
          LET all  == IF ack THEN <<Control("acknowledgement", 0)>> \o outs ELSE outs
              made == Serialized(all, control)
          IN /\ written' = IF made = << >> THEN NoOutput ELSE Head(made)
             /\ pending' = IF made = << >> THEN << >> ELSE After(Head(made), Tail(made))
    BY Zenon DEF Respond
  <2>2. PICK ctl \in T : ctl = Control("acknowledgement", 0)
    BY Zenon, <1>1
  <2>3. <<ctl>> \o outs \in Seq(T) /\ outs \in Seq(T)
    BY DEF T
  <2>4. PICK all : all = IF ack THEN <<ctl>> \o outs ELSE outs
    BY Zenon
  <2>5. PICK made : made = Serialized(all, control)
    BY Zenon
  <2>6. all \in Seq(T)
    BY Zenon, <2>3, <2>4
  <2>7. /\ written' = IF made = << >> THEN NoOutput ELSE Head(made)
        /\ pending' = IF made = << >> THEN << >> ELSE After(Head(made), Tail(made))
    BY Zenon, <2>1, <2>2, <2>4, <2>5
  <2> QED BY Zenon, <2>5, <2>6, <2>7
<1>3. made \in Seq(T)
  BY Zenon, <1>1, <1>2, SerializedIn
<1>4. CASE made = << >>
  <2>1. << >> \in Seq(T)
    OBVIOUS
  <2> QED BY Zenon, <1>1, <1>2, <1>4, <2>1 DEF T
<1>5. CASE made # << >>
  <2>1. Head(made) \in T /\ Tail(made) \in Seq(T)
    BY <1>3, <1>5
  <2>2. Head(made) \in Outputs
    BY Zenon, <1>1, <2>1
  <2>3. After(Head(made), Tail(made)) \in Seq(T)
    BY Zenon, <1>1, <2>1, <2>2, AfterIn
  <2> HIDE DEF T
  <2>4. written' \in T /\ pending' \in Seq(T)
    BY Zenon, <1>2, <1>5, <2>1, <2>3
  <2> QED BY Zenon, <2>4 DEF T
<1> QED BY Zenon, <1>4, <1>5

\* A call of the application queues its packets behind everything else.
LEMMA EnqueueSays ==
  ASSUME NEW T, Closed(T), NEW held \in Seq(Outputs), NEW outs \in Seq(T),
         NEW order \in Seq(1 .. Len(outs)),
         pending \in Seq(Outputs), control \in Seq(Outputs), Enqueue(held, outs, order)
  PROVE  /\ written' = NoOutput
         /\ \E n \in Seq(T) : /\ pending' = pending \o held \o n /\ Len(n) = Len(order)
                              /\ \A i \in 1 .. Len(n) : Same(n[i], outs[order[i]])
<1>1. PICK made : made = Serialized(outs, pending \o control)
  BY Zenon
<1>2. pending \o control \in Seq(Outputs)
  OBVIOUS
<1>3. /\ made \in Seq(T) /\ Len(made) = Len(outs)
      /\ \A i \in 1 .. Len(outs) : Same(made[i], outs[i])
  BY Zenon, <1>1, <1>2, SerializedIn
<1>4. PICK n : n = [i \in DOMAIN order |-> made[order[i]]]
  BY Zenon
<1>5. Len(order) \in Nat /\ DOMAIN order = 1 .. Len(order)
      /\ \A i \in 1 .. Len(order) : order[i] \in 1 .. Len(outs)
  OBVIOUS
<1>6. n \in [1 .. Len(order) -> T]
  BY <1>3, <1>4, <1>5
<1>7. n \in Seq(T) /\ Len(n) = Len(order)
  BY Zenon, <1>5, <1>6, FunctionIsSequence
<1>8. \A i \in 1 .. Len(n) : Same(n[i], outs[order[i]])
  BY Zenon, <1>3, <1>4, <1>5, <1>7
<1>9. written' = NoOutput /\ pending' = pending \o held \o n
  BY Zenon, <1>1, <1>4 DEF Enqueue
<1> QED BY Zenon, <1>7, <1>8, <1>9

\* A call that returns its packet.
LEMMA ReturnSays ==
  ASSUME NEW T, Closed(T), NEW o \in T, pending \in Seq(Outputs), control \in Seq(Outputs),
         ReturnPacket(o)
  PROVE  written' \in T /\ pending' = pending
<1>1. PICK made : made = Serialized(<<o>>, pending \o control)
  BY Zenon
<1>2. pending \o control \in Seq(Outputs) /\ <<o>> \in Seq(T) /\ Len(<<o>>) = 1
  OBVIOUS
<1>3. made \in Seq(T) /\ Len(made) = 1
  BY Zenon, <1>1, <1>2, SerializedIn
<1>4. made[1] \in T
  <2>1. 1 \in 1 .. Len(made)
    BY <1>3
  <2> QED BY Zenon, <1>3, <2>1, ElementOfSeq
<1> QED BY Zenon, <1>1, <1>4 DEF ReturnPacket

\* In what waits, the preamble comes before every answer to a connect request, and
\* while the preamble is held back there is no such answer.
SaidInv ==
  /\ \A i \in DOMAIN control : control[i].what \in PreambleKinds /\ ~control[i].amf3
  /\ control # << >> => \A i \in DOMAIN pending : pending[i].what \notin Answers
  /\ \A i, j \in DOMAIN pending :
       pending[i].what \in Answers /\ pending[j].what \in PreambleKinds => j < i
  /\ ConnectAnswerAfterPreamble
  /\ Amf3OnlyIfUsed

\* The encodings the session remembers are AMF3 only if the peer has used it.
EncodingInv ==
  /\ response_encoding = "Amf3" => peer_amf3
  /\ \A r \in DOMAIN outstanding : outstanding[r].encoding = "Amf3" => peer_amf3

\* Every handle leads to a stream.
HandlesLead == \A h \in Handles(stream_handles) :
                 WireOf(stream_handles, h) \in DOMAIN active_streams
OutTypes == pending \in Seq(Outputs) /\ control \in Seq(Outputs) /\ written \in Outputs

\* The four ways in which a step says something: receive answers a message; a call
\* queues or returns packets; a connect request is answered; an output is handed out.
Replies == /\ written' \in Plain(peer_amf3') /\ pending' \in Seq(Plain(peer_amf3'))
           /\ control' = control
Queues == /\ written' \in Plain(peer_amf3') /\ control' = control
          /\ \E n \in Seq(Plain(peer_amf3')) : pending' = pending \o n
Connects == /\ written' = NoOutput /\ control' = << >>
            /\ \E a \in Outputs : /\ a.what \in Answers /\ (a.amf3 => peer_amf3')
                                  /\ pending' = (pending \o control) \o <<a>>
HandsOut == /\ pending # << >> /\ control' = control
            /\ written' = Head(pending)
            /\ pending' = After(Head(pending), Tail(pending))
Says == Replies \/ Queues \/ Connects \/ HandsOut

\* The three groups of outputs are apart.
LEMMA KindsApart ==
  /\ \A w \in PlainKinds : w \notin PreambleKinds /\ w \notin Answers
  /\ \A w \in PreambleKinds : w \notin Answers
<1>1. \A w \in PlainKinds : w \notin PreambleKinds /\ w \notin Answers
  BY Zenon DEF PlainKinds, PreambleKinds, Answers
<1>2. \A w \in PreambleKinds : w \notin Answers
  BY Zenon DEF PreambleKinds, Answers
<1> QED BY Zenon, <1>1, <1>2

\* What it means to be plain.
LEMMA PlainMeans ==
  ASSUME NEW used, NEW o \in Plain(used)
  PROVE  /\ o \in Outputs /\ o.what \notin PreambleKinds /\ o.what \notin Answers
         /\ o.amf3 /\ o.what # "data" => used
BY Zenon, KindsApart DEF Plain

\* One more element at the end.
LEMMA AppendedOne ==
  ASSUME NEW S, NEW q \in Seq(S), NEW a \in S
  PROVE  /\ q \o <<a>> \in Seq(S) /\ DOMAIN (q \o <<a>>) = 1 .. Len(q) + 1
         /\ \A i \in 1 .. Len(q) : (q \o <<a>>)[i] = q[i]
         /\ (q \o <<a>>)[Len(q) + 1] = a
OBVIOUS

\* Whatever is said, the order and the framing stay right.
LEMMA SaysPreserves ==
  ASSUME OutTypes, SaidInv, Says, peer_amf3 => peer_amf3'
  PROVE  OutTypes' /\ SaidInv'
<1>1. PICK k : k = peer_amf3'
  BY Zenon
<1>2. /\ pending \in Seq(Outputs) /\ control \in Seq(Outputs) /\ written \in Outputs
      /\ DOMAIN pending = 1 .. Len(pending) /\ Len(pending) \in Nat
      /\ DOMAIN control = 1 .. Len(control) /\ Len(control) \in Nat
  BY DEF OutTypes
<1>3. /\ \A i \in 1 .. Len(pending) : pending[i] \in Outputs
      /\ \A i \in 1 .. Len(control) : control[i] \in Outputs
  BY <1>2
<1>4. /\ \A i \in 1 .. Len(control) : control[i].what \in PreambleKinds /\ ~control[i].amf3
      /\ \A i \in 1 .. Len(pending) : pending[i].amf3 /\ pending[i].what # "data" => k
      /\ written.amf3 /\ written.what # "data" => k
  <2>1. \A o \in {written} \cup {pending[i] : i \in DOMAIN pending} :
          o.amf3 /\ o.what # "data" => k
    BY Zenon, <1>1 DEF SaidInv, Amf3OnlyIfUsed
  <2> QED BY Zenon, <1>2, <2>1 DEF SaidInv
<1>5. /\ control # << >> => \A i \in 1 .. Len(pending) : pending[i].what \notin Answers
      /\ \A i, j \in 1 .. Len(pending) :
           pending[i].what \in Answers /\ pending[j].what \in PreambleKinds => j < i
  BY Zenon, <1>2 DEF SaidInv
\* What is to be shown.
<1>6. SUFFICES /\ pending' \in Seq(Outputs) /\ control' \in Seq(Outputs) /\ written' \in Outputs
               /\ \A i \in DOMAIN control' : control'[i].what \in PreambleKinds /\ ~control'[i].amf3
               /\ control' # << >> => \A i \in DOMAIN pending' : pending'[i].what \notin Answers
               /\ \A i, j \in DOMAIN pending' :
                    pending'[i].what \in Answers /\ pending'[j].what \in PreambleKinds => j < i
               /\ written'.what \in Answers =>
                    /\ control' = << >>
                    /\ \A i \in DOMAIN pending' : pending'[i].what \notin PreambleKinds
               /\ \A i \in DOMAIN pending' : pending'[i].amf3 /\ pending'[i].what # "data" => k
               /\ written'.amf3 /\ written'.what # "data" => k
  <2> SUFFICES ASSUME NEW o \in {written'} \cup {pending'[i] : i \in DOMAIN pending'}
               PROVE  o.amf3 /\ o.what # "data" => k
    BY Zenon, <1>1, <1>6 DEF OutTypes, SaidInv, ConnectAnswerAfterPreamble, Amf3OnlyIfUsed
  <2> QED BY Zenon, <1>6
<1>7. CASE Replies
  <2>1. /\ written' \in Plain(k) /\ pending' \in Seq(Plain(k)) /\ control' = control
    BY Zenon, <1>1, <1>7 DEF Replies
  <2>2. \A i \in DOMAIN pending' : pending'[i] \in Plain(k)
    BY <2>1
  <2>3. pending' \in Seq(Outputs)
    BY Zenon, <2>1, SeqMonotonic, ClosedSets
  <2> QED BY Zenon, <1>2, <1>4, <2>1, <2>2, <2>3, PlainMeans
<1>8. CASE Queues
  <2>1. PICK n \in Seq(Plain(k)) :
          written' \in Plain(k) /\ control' = control /\ pending' = pending \o n
    BY Zenon, <1>1, <1>8 DEF Queues
  <2>2. n \in Seq(Outputs) /\ Len(n) \in Nat
    BY SeqMonotonic, ClosedSets
  <2>3. /\ pending' \in Seq(Outputs) /\ DOMAIN pending' = 1 .. Len(pending) + Len(n)
        /\ \A i \in 1 .. Len(pending) : pending'[i] = pending[i]
        /\ \A i \in 1 .. Len(pending) + Len(n) :
             i \notin 1 .. Len(pending) => pending'[i] = n[i - Len(pending)]
                                           /\ i - Len(pending) \in 1 .. Len(n)
    BY <1>2, <2>1, <2>2, ConcatProperties
  <2>4. \A i \in 1 .. Len(n) : n[i] \in Plain(k)
    OBVIOUS
  <2>5. \A i \in DOMAIN pending' : \/ i \in 1 .. Len(pending) /\ pending'[i] = pending[i]
                                   \/ pending'[i] \in Plain(k)
    BY Zenon, <2>3, <2>4
  <2>6. /\ written'.what \notin Answers /\ written' \in Outputs
        /\ written'.amf3 /\ written'.what # "data" => k
    <3>1. PICK w \in Plain(k) : w = written'
      BY Zenon, <2>1
    <3>2. /\ w.what \notin Answers /\ w \in Outputs
          /\ w.amf3 /\ w.what # "data" => k
      BY PlainMeans
    <3> QED BY Zenon, <3>1, <3>2
  <2> QED BY ZenonT(40), <1>2, <1>4, <1>5, <2>1, <2>3, <2>5, <2>6, PlainMeans
<1>9. CASE Connects
  <2>1. PICK a \in Outputs : /\ a.what \in Answers /\ (a.amf3 => k)
                             /\ pending' = (pending \o control) \o <<a>>
                             /\ written' = NoOutput /\ control' = << >>
    BY Zenon, <1>1, <1>9 DEF Connects
  <2>2. PICK q : q = pending \o control
    BY Zenon
  <2>3. /\ q \in Seq(Outputs) /\ Len(q) = Len(pending) + Len(control) /\ Len(q) \in Nat
        /\ \A i \in 1 .. Len(pending) : q[i] = pending[i]
        /\ \A i \in 1 .. Len(q) : i \notin 1 .. Len(pending) =>
             i - Len(pending) \in 1 .. Len(control) /\ q[i] = control[i - Len(pending)]
    BY <1>2, <2>2, ConcatProperties
  <2>4. /\ pending' \in Seq(Outputs) /\ DOMAIN pending' = 1 .. Len(q) + 1
        /\ \A i \in 1 .. Len(q) : pending'[i] = q[i]
        /\ pending'[Len(q) + 1] = a
    <3>1. pending' = q \o <<a>>
      BY Zenon, <2>1, <2>2
    <3>2. /\ q \o <<a>> \in Seq(Outputs) /\ DOMAIN (q \o <<a>>) = 1 .. Len(q) + 1
          /\ \A i \in 1 .. Len(q) : (q \o <<a>>)[i] = q[i]
          /\ (q \o <<a>>)[Len(q) + 1] = a
      <4>1. q \in Seq(Outputs) /\ a \in Outputs
        BY Zenon, <2>3
      <4> QED BY ZenonT(40), <4>1, AppendedOne
    <3>3. PICK z : z = q \o <<a>>
      BY Zenon
    <3> QED BY Zenon, <3>1, <3>2, <3>3
  \* Answers that waited come before the preamble only if there is none.
  <2>5. \A i \in 1 .. Len(q) : \/ /\ i \in 1 .. Len(pending) /\ pending'[i] = pending[i]
                                  /\ pending[i].amf3 /\ pending[i].what # "data" => k
                               \/ /\ control # << >> /\ ~pending'[i].amf3
                                  /\ pending'[i].what \in PreambleKinds
    <3> TAKE i \in 1 .. Len(q)
    <3>1. CASE i \in 1 .. Len(pending)
      BY Zenon, <1>4, <2>3, <2>4, <3>1
    <3>2. CASE i \notin 1 .. Len(pending)
      <4>1. i - Len(pending) \in 1 .. Len(control) /\ pending'[i] = control[i - Len(pending)]
        BY Zenon, <2>3, <2>4, <3>2
      <4>2. control # << >>
        BY <1>2, <4>1
      <4> QED BY Zenon, <1>4, <4>1, <4>2
    <3> QED BY Zenon, <3>1, <3>2
  <2>6. ASSUME NEW i \in DOMAIN pending', NEW j \in DOMAIN pending',
               pending'[i].what \in Answers, pending'[j].what \in PreambleKinds
        PROVE  j < i
    <3>1. j # Len(q) + 1
      <4>1. SUFFICES ASSUME j = Len(q) + 1 PROVE FALSE
        BY Zenon
      <4>2. pending'[j] = a
        BY Zenon, <2>4, <4>1
      <4>3. a.what \in PreambleKinds /\ a.what \in Answers
        BY Zenon, <2>1, <2>6, <4>2
      <4> QED BY Zenon, <4>3, KindsApart
    <3>2. j \in 1 .. Len(q)
      BY <2>3, <2>4, <3>1
    <3>3. CASE i = Len(q) + 1
      BY <2>3, <3>2, <3>3
    <3>4. CASE i # Len(q) + 1
      <4>1. i \in 1 .. Len(q)
        BY <2>3, <2>4, <3>4
      <4>2. i \in 1 .. Len(pending) /\ pending'[i] = pending[i]
        BY Zenon, <2>5, <2>6, <4>1, KindsApart
      <4>3. control = << >>
        BY Zenon, <1>5, <2>6, <4>2
      <4>4. j \in 1 .. Len(pending) /\ pending'[j] = pending[j]
        BY Zenon, <2>5, <3>2, <4>3
      <4> QED BY Zenon, <1>5, <2>6, <4>2, <4>4
    <3> QED BY Zenon, <3>3, <3>4
  <2>7. \A i \in DOMAIN pending' : pending'[i].amf3 /\ pending'[i].what # "data" => k
    <3> TAKE i \in DOMAIN pending'
    <3>1. i = Len(q) + 1 \/ i \in 1 .. Len(q)
      BY <2>3, <2>4
    <3>2. CASE i = Len(q) + 1
      <4>1. pending'[i] = a
        BY Zenon, <2>4, <3>2
      <4> QED BY Zenon, <2>1, <4>1
    <3>3. CASE i \in 1 .. Len(q)
      BY Zenon, <2>5, <3>3
    <3> QED BY Zenon, <3>1, <3>2, <3>3
  <2>8. /\ control' \in Seq(Outputs) /\ DOMAIN control' = {}
    BY <2>1
  <2>9. /\ written' \in Outputs /\ written'.what \notin Answers /\ ~written'.amf3
    <3>1. "none" \in PlainKinds
      BY Zenon DEF PlainKinds
    <3> QED BY Zenon, <2>1, <3>1, NothingSaid, KindsApart
  <2> QED BY Zenon, <2>1, <2>4, <2>6, <2>7, <2>8, <2>9
<1>10. CASE HandsOut
  <2>1. PICK h, t : /\ h = Head(pending) /\ t = Tail(pending) /\ pending # << >>
                    /\ control' = control /\ written' = h /\ pending' = After(h, t)
    BY Zenon, <1>10 DEF HandsOut
  <2>2. /\ h = pending[1] /\ h \in Outputs /\ t \in Seq(Outputs) /\ Len(t) = Len(pending) - 1
        /\ 1 \in 1 .. Len(pending) /\ Len(t) \in Nat
        /\ \A i \in 1 .. Len(t) : t[i] = pending[i + 1] /\ i + 1 \in 1 .. Len(pending)
    BY <1>2, <2>1
  <2>3. /\ pending' \in Seq(Outputs) /\ Len(pending') = Len(t)
        /\ \A i \in 1 .. Len(t) : Same(pending'[i], t[i])
    BY ZenonT(40), <2>1, <2>2, AfterIn, ClosedSets
  <2>4. DOMAIN pending' = 1 .. Len(t)
    BY <2>3
  <2>5. \A i \in 1 .. Len(t) : /\ i + 1 \in 1 .. Len(pending)
                               /\ pending'[i].what = pending[i + 1].what
                               /\ pending'[i].amf3 = pending[i + 1].amf3
    BY Zenon, <2>2, <2>3 DEF Same
  <2>6. \A i, j \in 1 .. Len(t) :
          pending'[i].what \in Answers /\ pending'[j].what \in PreambleKinds => j < i
    <3> TAKE i, j \in 1 .. Len(t)
    <3>1. i + 1 \in 1 .. Len(pending) /\ j + 1 \in 1 .. Len(pending)
      BY Zenon, <2>5
    <3>2. pending[i + 1].what \in Answers /\ pending[j + 1].what \in PreambleKinds
            => j + 1 < i + 1
      BY Zenon, <1>5, <3>1
    <3>3. j + 1 < i + 1 => j < i
      BY <2>2
    <3> QED BY Zenon, <2>5, <3>2, <3>3
  <2>7. h.what \in Answers => /\ control = << >>
                              /\ \A i \in 1 .. Len(t) : pending'[i].what \notin PreambleKinds
    <3> HAVE h.what \in Answers
    <3>1. control = << >>
      BY Zenon, <1>5, <2>2
    <3>2. ASSUME NEW i \in 1 .. Len(t), pending'[i].what \in PreambleKinds
          PROVE  FALSE
      <4>1. i + 1 \in 1 .. Len(pending) /\ pending[i + 1].what \in PreambleKinds
        BY Zenon, <2>5, <3>2
      <4>2. i + 1 < 1
        BY Zenon, <1>5, <2>2, <4>1
      <4> QED BY <2>2, <4>2
    <3> QED BY Zenon, <3>1, <3>2
  <2>8. control' # << >> => \A i \in 1 .. Len(t) : pending'[i].what \notin Answers
    BY Zenon, <1>5, <2>1, <2>5
  <2>9. \A i \in 1 .. Len(t) : pending'[i].amf3 /\ pending'[i].what # "data" => k
    BY Zenon, <1>4, <2>5
  <2>10. written'.amf3 /\ written'.what # "data" => k
    BY Zenon, <1>4, <2>1, <2>2
  <2>11. written' \in Outputs /\ control' \in Seq(Outputs)
         /\ \A i \in DOMAIN control' : control'[i].what \in PreambleKinds /\ ~control'[i].amf3
    BY Zenon, <1>2, <1>4, <2>1, <2>2
  <2>12. written'.what \in Answers =>
           control' = << >> /\ \A i \in 1 .. Len(t) : pending'[i].what \notin PreambleKinds
    BY Zenon, <2>1, <2>7
  <2> QED BY Zenon, <2>3, <2>4, <2>6, <2>8, <2>9, <2>10, <2>11, <2>12
<1> QED BY Zenon, <1>7, <1>8, <1>9, <1>10 DEF Says

\* What a step does to the encodings: AMF3 once the peer has used it.
Encodes == /\ peer_amf3' \in BOOLEAN /\ (peer_amf3 => peer_amf3')
           /\ response_encoding' \in {"Amf0", "Amf3"}
           /\ (response_encoding' = "Amf3" => peer_amf3')

\* Every step does so.
LEMMA StepEncodes ==
  ASSUME peer_amf3 \in BOOLEAN, response_encoding \in {"Amf0", "Amf3"}, EncodingInv,
         \A r \in DOMAIN outstanding : outstanding[r].encoding \in {"Amf0", "Amf3"},
         Next
  PROVE  Encodes
<1>1. UNCHANGED amf => Encodes
  BY DEF amf, Encodes, EncodingInv
<1>2. Command => Encodes
  <2> SUFFICES ASSUME Command PROVE Encodes
    BY Zenon
  <2>1. PICK encoding \in PeerEncodings :
          response_encoding' = encoding /\ peer_amf3' = (peer_amf3 \/ encoding = "Amf3")
    BY Zenon DEF Command
  <2>2. encoding \in {"Amf0", "Amf3"}
    BY Zenon, ServerAssumption
  <2>3. peer_amf3' \in BOOLEAN
    BY Zenon, <2>1
  <2>4. (peer_amf3 => peer_amf3') /\ (encoding = "Amf3" => peer_amf3')
    BY Zenon, <2>1
  <2> QED BY Zenon, <2>1, <2>2, <2>3, <2>4 DEF Encodes
<1>3. ASSUME NEW r, NEW kind, TakeRequest(r, kind), peer_amf3' = peer_amf3
      PROVE  Encodes
  BY Zenon, <1>3 DEF TakeRequest, Encodes, EncodingInv
<1>4. response_encoding' = server_initiated_encoding /\ peer_amf3' = peer_amf3 => Encodes
  <2>1. /\ server_initiated_encoding \in {"Amf0", "Amf3"}
        /\ server_initiated_encoding = "Amf3" => peer_amf3
    <3>1. CASE negotiated = "Amf3" /\ peer_amf3
      BY Zenon, <3>1 DEF server_initiated_encoding
    <3>2. CASE ~(negotiated = "Amf3" /\ peer_amf3)
      <4>1. server_initiated_encoding = "Amf0"
        BY Zenon, <3>2 DEF server_initiated_encoding
      <4> QED BY Zenon, <4>1
    <3> QED BY Zenon, <3>1, <3>2
  <2> QED BY <2>1 DEF Encodes
<1>5. data_event => Encodes
  <2> SUFFICES ASSUME data_event PROVE Encodes
    BY Zenon
  <2>1. PICK encoding \in PeerEncodings : peer_amf3' = (peer_amf3 \/ encoding = "Amf3")
    BY Zenon DEF data_event
  <2>2. peer_amf3' \in BOOLEAN
    BY Zenon, <2>1
  <2>3. peer_amf3 => peer_amf3'
    BY Zenon, <2>1
  <2> QED BY Zenon, <2>2, <2>3 DEF data_event, Encodes, EncodingInv
<1>6. Receive => Encodes
  BY Zenon, <1>1, <1>2, <1>5 DEF Receive, Drain, handle_command_connect,
     handle_command_close_stream, handle_command_create_stream, handle_command_delete_stream,
     handle_command_publish, handle_command_play, StreamRequest, UnhandledCommand, audio_event,
     handle_control, InvalidInput
<1>7. Decide => Encodes
  BY Zenon, <1>3 DEF Decide, accept_connection_request, accept_publish_request,
     accept_play_request, reject_request
<1>8. Send => Encodes
  BY Zenon, <1>1, <1>4 DEF Send, send_media, send_data, send_metadata, send_ping_request,
     complete_playback
<1> QED BY Zenon, <1>6, <1>7, <1>8 DEF Next

\* Single outputs that may always be said.
LEMMA Sayable ==
  ASSUME Encodes, NEW what \in PlainKinds, NEW stream \in WireIds
  PROVE  /\ <<Event(what, stream)>> \in Seq(Plain(peer_amf3'))
         /\ Control(what, stream) \in Plain(peer_amf3')
         /\ CommandPacket(what, stream, Amf3Response) \in Plain(peer_amf3')
         /\ DataPacket(what, stream, Amf3Response) \in Plain(peer_amf3')
<1>1. PICK k \in BOOLEAN : k = peer_amf3'
  BY Zenon DEF Encodes
<1>2. PICK b \in BOOLEAN : b = Amf3Response
  <2>1. CASE Amf3Response
    <3>1. TRUE \in BOOLEAN /\ TRUE = Amf3Response
      BY Zenon, <2>1
    <3> QED BY Zenon, <3>1
  <2>2. CASE ~Amf3Response
    <3>1. FALSE \in BOOLEAN /\ FALSE = Amf3Response
      BY Zenon, <2>2 DEF Amf3Response
    <3> QED BY Zenon, <3>1
  <2> QED BY Zenon, <2>1, <2>2
<1>3. b => k
  BY Zenon, <1>1, <1>2 DEF Amf3Response, Encodes
<1>4. /\ Event(what, stream) \in Plain(k) /\ Control(what, stream) \in Plain(k)
      /\ CommandPacket(what, stream, b) \in Plain(k)
      /\ DataPacket(what, stream, b) \in Plain(k)
  BY Zenon, <1>3, PlainOutputs
<1>5. PICK e \in Plain(k) : e = Event(what, stream)
  BY Zenon, <1>4
<1>6. <<e>> \in Seq(Plain(k))
  OBVIOUS
<1> QED BY Zenon, <1>1, <1>2, <1>4, <1>5, <1>6

\* receive answers.
LEMMA ReplySays ==
  ASSUME OutTypes, Encodes, control' = control, NEW outs \in Seq(Plain(peer_amf3')),
         Respond(outs)
  PROVE  Says
<1>1. PICK k \in BOOLEAN : k = peer_amf3'
  BY Zenon DEF Encodes
<1>2. written' \in Plain(k) /\ pending' \in Seq(Plain(k))
  BY Zenon, <1>1, RespondSays DEF OutTypes
<1> QED BY Zenon, <1>1, <1>2 DEF Says, Replies

\* receive fails, or has nothing to say.
LEMMA FailSays ==
  ASSUME OutTypes, Encodes, control' = control, Fail \/ Respond(<< >>)
  PROVE  Says
<1>1. PICK k \in BOOLEAN : k = peer_amf3'
  BY Zenon DEF Encodes
<1>2. NoOutput \in Plain(k) /\ << >> \in Seq(Plain(k))
  BY PlainAlways
<1>3. CASE Fail
  BY Zenon, <1>1, <1>2, <1>3 DEF Fail, Says, Replies
<1>4. CASE Respond(<< >>)
  BY Zenon, <1>1, <1>2, <1>4, ReplySays
<1> QED BY Zenon, <1>3, <1>4

\* The event that ends a stream is one of two, or there is none.
LEMMA FinishedIsPlain ==
  ASSUME Encodes, NEW stream \in WireIds
  PROVE  FinishedEvent(stream) \in Seq(Plain(peer_amf3'))
<1>1. /\ "publishFinished" \in PlainKinds /\ "playFinished" \in PlainKinds
  BY Zenon DEF PlainKinds
<1>2. /\ <<Event("publishFinished", stream)>> \in Seq(Plain(peer_amf3'))
      /\ <<Event("playFinished", stream)>> \in Seq(Plain(peer_amf3'))
  BY Zenon, <1>1, Sayable
<1>3. << >> \in Seq(Plain(peer_amf3'))
  OBVIOUS
<1>4. \/ FinishedEvent(stream) = <<Event("publishFinished", stream)>>
      \/ FinishedEvent(stream) = <<Event("playFinished", stream)>>
      \/ FinishedEvent(stream) = << >>
  BY Zenon DEF FinishedEvent
<1> QED BY Zenon, <1>2, <1>3, <1>4

\* A request is announced, or is one too many.
LEMMA RequestSays ==
  ASSUME OutTypes, Encodes, control' = control, NEW r, r.stream \in WireIds,
         NEW event \in PlainKinds, AddRequest(r, event)
  PROVE  Says
<1>1. <<Event(event, r.stream)>> \in Seq(Plain(peer_amf3'))
  BY Zenon, Sayable
<1>2. Fail \/ Respond(<<Event(event, r.stream)>>)
  BY Zenon DEF AddRequest
<1> QED BY Zenon, <1>1, <1>2, FailSays, ReplySays

\* Every message that is received is answered this way.
LEMMA ReceiveSays ==
  ASSUME OutTypes, Encodes, Receive
  PROVE  Says
<1>1. /\ "connectionRequested" \in PlainKinds /\ "publishRequested" \in PlainKinds
      /\ "playRequested" \in PlainKinds /\ "unhandledCommand" \in PlainKinds
      /\ "media" \in PlainKinds /\ "notice" \in PlainKinds /\ "pingResponse" \in PlainKinds
      /\ "createResult" \in PlainKinds /\ "requestError" \in PlainKinds
  BY Zenon DEF PlainKinds
<1>2. 0 \in WireIds
  BY ServerAssumption DEF WireIds
<1>3. ASSUME NEW o \in Plain(peer_amf3')
      PROVE  <<o>> \in Seq(Plain(peer_amf3'))
  OBVIOUS
<1>4. Drain => Says
  BY Zenon DEF Drain, Says, HandsOut
<1>5. handle_command_connect => Says
  <2> SUFFICES ASSUME handle_command_connect PROVE Says
    BY Zenon
  <2>1. control' = control
    BY Zenon DEF handle_command_connect
  <2>2. CASE Fail
    BY Zenon, <2>1, <2>2, FailSays
  <2>3. CASE ~Fail
    <3>1. PICK r : /\ r = [kind |-> "connect", stream |-> 0, encoding |-> response_encoding']
                   /\ AddRequest(r, "connectionRequested")
      BY Zenon, <2>3 DEF handle_command_connect
    <3>2. r.stream \in WireIds
      BY Zenon, <1>2, <3>1
    <3> QED BY Zenon, <1>1, <2>1, <3>1, <3>2, RequestSays
  <2> QED BY Zenon, <2>2, <2>3
<1>6. handle_command_close_stream => Says
  <2> SUFFICES ASSUME handle_command_close_stream PROVE Says
    BY Zenon
  <2>1. control' = control
    BY Zenon DEF handle_command_close_stream
  <2>2. PICK stream \in WireIds : Respond(FinishedEvent(stream)) \/ Respond(<< >>)
    BY Zenon DEF handle_command_close_stream
  <2> QED BY Zenon, <2>1, <2>2, FinishedIsPlain, ReplySays, FailSays
<1>7. handle_command_create_stream => Says
  <2> SUFFICES ASSUME handle_command_create_stream PROVE Says
    BY Zenon
  <2>1. control' = control
    BY Zenon DEF handle_command_create_stream
  <2>2. Fail \/ Respond(<<CommandPacket("createResult", 0, Amf3Response)>>)
    BY Zenon DEF handle_command_create_stream
  <2>3. <<CommandPacket("createResult", 0, Amf3Response)>> \in Seq(Plain(peer_amf3'))
    BY Zenon, <1>1, <1>2, <1>3, Sayable
  <2> QED BY Zenon, <2>1, <2>2, <2>3, ReplySays, FailSays
<1>8. handle_command_delete_stream => Says
  <2> SUFFICES ASSUME handle_command_delete_stream PROVE Says
    BY Zenon
  <2>1. control' = control
    BY Zenon DEF handle_command_delete_stream
  <2>2. PICK stream \in WireIds : Respond(FinishedEvent(stream)) \/ Respond(<< >>)
    BY Zenon DEF handle_command_delete_stream
  <2> QED BY Zenon, <2>1, <2>2, FinishedIsPlain, ReplySays, FailSays
<1>9. ASSUME NEW kind, NEW event \in PlainKinds, StreamRequest(kind, event)
      PROVE  Says
  <2>1. control' = control
    BY Zenon, <1>9 DEF StreamRequest
  <2>2. PICK stream \in WireIds :
          \/ AddRequest([kind |-> kind, stream |-> stream, encoding |-> response_encoding'], event)
          \/ Respond(<<CommandPacket("requestError", stream, Amf3Response)>>)
    BY Zenon, <1>9 DEF StreamRequest
  <2>3. <<CommandPacket("requestError", stream, Amf3Response)>> \in Seq(Plain(peer_amf3'))
    BY Zenon, <1>1, <1>3, Sayable
  <2>4. PICK r : r = [kind |-> kind, stream |-> stream, encoding |-> response_encoding']
    BY Zenon
  <2>5. r.stream \in WireIds
    BY Zenon, <2>4
  <2> QED BY Zenon, <2>1, <2>2, <2>3, <2>4, <2>5, RequestSays, ReplySays
<1>10. handle_command_publish \/ handle_command_play => Says
  BY Zenon, <1>1, <1>9 DEF handle_command_publish, handle_command_play
<1>11. UnhandledCommand => Says
  BY Zenon, <1>1, <1>2, Sayable, ReplySays DEF UnhandledCommand
<1>12. ASSUME control' = control, NEW stream \in WireIds,
              Respond(IF Published(stream) THEN <<Event("media", stream)>> ELSE << >>)
       PROVE  Says
  <2>1. Respond(<<Event("media", stream)>>) \/ Respond(<< >>)
    BY Zenon, <1>12
  <2> QED BY Zenon, <1>1, <1>12, <2>1, Sayable, ReplySays, FailSays
<1>13. audio_event \/ data_event => Says
  BY Zenon, <1>12 DEF audio_event, data_event
<1>14. handle_control => Says
  <2> SUFFICES ASSUME handle_control PROVE Says
    BY Zenon
  <2>1. control' = control
    BY Zenon DEF handle_control
  <2>2. \/ Respond(<<Control("pingResponse", 0)>>) \/ Respond(<<Event("notice", 0)>>)
        \/ Respond(<< >>)
    BY Zenon DEF handle_control
  <2>3. /\ <<Control("pingResponse", 0)>> \in Seq(Plain(peer_amf3'))
        /\ <<Event("notice", 0)>> \in Seq(Plain(peer_amf3'))
    BY Zenon, <1>1, <1>2, <1>3, Sayable
  <2> QED BY Zenon, <2>1, <2>2, <2>3, ReplySays, FailSays
<1>15. InvalidInput => Says
  BY Zenon, FailSays DEF InvalidInput
<1> QED BY Zenon, <1>4, <1>5, <1>6, <1>7, <1>8, <1>10, <1>11, <1>13, <1>14, <1>15 DEF Receive

\* A call queues plain packets.
LEMMA CallSays ==
  ASSUME OutTypes, Encodes, control' = control, NEW outs \in Seq(Plain(peer_amf3')),
         NEW order \in Seq(1 .. Len(outs)), Enqueue(<< >>, outs, order)
  PROVE  Says
<1>1. PICK k \in BOOLEAN : k = peer_amf3'
  BY Zenon DEF Encodes
<1>2. << >> \in Seq(Outputs) /\ pending \in Seq(Outputs) /\ control \in Seq(Outputs)
  BY DEF OutTypes
<1>3. Closed(Plain(k)) /\ NoOutput \in Plain(k)
  BY Zenon, ClosedSets, PlainAlways
<1>4. PICK n \in Seq(Plain(k)) : written' = NoOutput /\ pending' = pending \o << >> \o n
  BY ZenonT(40), <1>1, <1>2, <1>3, EnqueueSays
<1>5. pending \o << >> = pending
  BY Zenon, <1>2, ConcatEmptySeq
<1>6. pending' = pending \o n
  BY Zenon, <1>4, <1>5
<1> QED BY Zenon, <1>1, <1>3, <1>4, <1>6 DEF Says, Queues

\* A call that does not queue anything.
LEMMA SilentCall ==
  ASSUME OutTypes, Encodes, control' = control, pending' = pending,
         written' \in Plain(peer_amf3')
  PROVE  Says
<1>1. << >> \in Seq(Plain(peer_amf3'))
  OBVIOUS
<1>2. pending \o << >> = pending
  BY Zenon, ConcatEmptySeq DEF OutTypes
<1> QED BY Zenon, <1>1, <1>2 DEF Says, Queues

\* accept_connection_request and a refusal release the preamble, and answer.
LEMMA AnswerSays ==
  ASSUME OutTypes, Encodes, NEW what \in Answers, AnswerConnect(what)
  PROVE  Says
<1>1. PICK b \in BOOLEAN : b = Amf3Response /\ (b => peer_amf3')
  <2>1. CASE Amf3Response
    <3>1. TRUE \in BOOLEAN /\ TRUE = Amf3Response /\ (TRUE => peer_amf3')
      BY Zenon, <2>1 DEF Amf3Response, Encodes
    <3> QED BY Zenon, <3>1
  <2>2. CASE ~Amf3Response
    <3>1. FALSE \in BOOLEAN /\ FALSE = Amf3Response
      BY Zenon, <2>2 DEF Amf3Response
    <3> QED BY Zenon, <3>1
  <2> QED BY Zenon, <2>1, <2>2
<1>2. PICK o \in Outputs : o = CommandPacket(what, 0, b) /\ o.what = what /\ o.amf3 = b
  <2>1. PICK z \in Outputs : z = NoOutput
    BY Zenon, NothingSaid
  <2>2. PICK o : o = [z EXCEPT !.what = what, !.csid = 6, !.msid = 0, !.amf3 = b]
    BY Zenon
  <2>3. o = CommandPacket(what, 0, b)
    BY Zenon, <2>1, <2>2 DEF CommandPacket, Packet
  <2>4. 0 \in WireIds
    BY ServerAssumption DEF WireIds
  <2>5. what \in PreambleKinds \cup Answers \cup PlainKinds /\ 6 \in 0 .. 6
    OBVIOUS
  <2>6. o \in Outputs /\ o.what = what /\ o.amf3 = b
    BY Zenon, <2>2, <2>4, <2>5 DEF Outputs
  <2> QED BY Zenon, <2>3, <2>6
<1>3. /\ <<o>> \in Seq(Outputs) /\ Len(<<o>>) = 1 /\ <<o>>[1] = o
      /\ <<1>> \in Seq(1 .. 1) /\ Len(<<1>>) = 1 /\ <<1>>[1] = 1 /\ 1 \in 1 .. 1
  OBVIOUS
<1>4. /\ pending \in Seq(Outputs) /\ control \in Seq(Outputs) /\ Closed(Outputs)
  BY Zenon, ClosedSets DEF OutTypes
<1>5. Enqueue(control, <<o>>, <<1>>) /\ control' = << >>
  BY Zenon, <1>1, <1>2 DEF AnswerConnect
<1>6. PICK n \in Seq(Outputs) : /\ pending' = pending \o control \o n /\ Len(n) = 1
                                /\ written' = NoOutput /\ Same(n[1], o)
  <2>1. PICK outs, order : outs = <<o>> /\ order = <<1>>
    BY Zenon
  <2>2. /\ outs \in Seq(Outputs) /\ order \in Seq(1 .. Len(outs)) /\ Len(order) = 1
        /\ outs[order[1]] = o /\ Enqueue(control, outs, order)
    BY Zenon, <1>3, <1>5, <2>1
  <2>3. PICK n \in Seq(Outputs) : /\ pending' = pending \o control \o n /\ Len(n) = Len(order)
                                  /\ \A i \in 1 .. Len(n) : Same(n[i], outs[order[i]])
                                  /\ written' = NoOutput
    BY ZenonT(40), <1>4, <2>2, EnqueueSays
  <2> QED BY Zenon, <1>3, <2>2, <2>3
<1>7. PICK a \in Outputs : a = n[1]
  BY Zenon, <1>6 DEF Same
<1>8. n = <<a>>
  BY <1>6, <1>7
<1>9. a.what \in Answers /\ (a.amf3 => peer_amf3')
  BY Zenon, <1>1, <1>2, <1>6, <1>7 DEF Same
<1> QED BY Zenon, <1>5, <1>6, <1>8, <1>9 DEF Says, Connects

\* The decisions of the application.
LEMMA DecideSays ==
  ASSUME OutTypes, Encodes, \A r \in DOMAIN outstanding : outstanding[r].stream \in WireIds,
         Decide
  PROVE  Says
<1>1. /\ "streamBegin" \in PlainKinds /\ "publishStart" \in PlainKinds
      /\ "playStart" \in PlainKinds /\ "sampleAccess" \in PlainKinds
      /\ "dataStart" \in PlainKinds /\ "playReset" \in PlainKinds
      /\ "statusError" \in PlainKinds
  BY Zenon DEF PlainKinds
<1>2. NoOutput \in Plain(peer_amf3')
  <2>1. peer_amf3' \in BOOLEAN
    BY Zenon DEF Encodes
  <2> QED BY Zenon, <2>1, PlainAlways
<1>3. "connectResult" \in Answers /\ "connectError" \in Answers
  BY Zenon DEF Answers
<1>4. accept_connection_request => Says
  BY Zenon, <1>3, AnswerSays DEF accept_connection_request
<1>5. accept_publish_request => Says
  <2> SUFFICES ASSUME accept_publish_request PROVE Says
    BY Zenon
  <2>1. control' = control
    BY Zenon DEF accept_publish_request
  <2>2. PICK stream \in WireIds :
          \/ Enqueue(<< >>, <<Control("streamBegin", stream),
                              CommandPacket("publishStart", stream, Amf3Response)>>, <<1, 2>>)
          \/ written' = NoOutput /\ pending' = pending
    BY Zenon DEF accept_publish_request
  <2>3. PICK c \in Plain(peer_amf3'), d \in Plain(peer_amf3') :
          c = Control("streamBegin", stream) /\ d = CommandPacket("publishStart", stream, Amf3Response)
    BY Zenon, <1>1, Sayable
  <2>4. <<c, d>> \in Seq(Plain(peer_amf3')) /\ Len(<<c, d>>) = 2 /\ <<1, 2>> \in Seq(1 .. 2)
    OBVIOUS
  <2> QED BY Zenon, <1>2, <2>1, <2>2, <2>3, <2>4, CallSays, SilentCall
<1>6. accept_play_request => Says
  <2> SUFFICES ASSUME accept_play_request PROVE Says
    BY Zenon
  <2>1. control' = control
    BY Zenon DEF accept_play_request
  <2>2. PICK stream \in WireIds :
          \/ Enqueue(<< >>, <<Control("streamBegin", stream),
                              CommandPacket("playStart", stream, Amf3Response),
                              DataPacket("sampleAccess", stream, Amf3Response),
                              DataPacket("dataStart", stream, Amf3Response),
                              CommandPacket("playReset", stream, Amf3Response)>>,
                     <<5, 1, 2, 3, 4>>)
          \/ written' = NoOutput /\ pending' = pending
    BY Zenon DEF accept_play_request
  <2>3. PICK c \in Plain(peer_amf3'), d \in Plain(peer_amf3'), e \in Plain(peer_amf3'),
             f \in Plain(peer_amf3'), g \in Plain(peer_amf3') :
          /\ c = Control("streamBegin", stream)
          /\ d = CommandPacket("playStart", stream, Amf3Response)
          /\ e = DataPacket("sampleAccess", stream, Amf3Response)
          /\ f = DataPacket("dataStart", stream, Amf3Response)
          /\ g = CommandPacket("playReset", stream, Amf3Response)
    BY Zenon, <1>1, Sayable
  <2>4. /\ <<c, d, e, f, g>> \in Seq(Plain(peer_amf3')) /\ Len(<<c, d, e, f, g>>) = 5
        /\ <<5, 1, 2, 3, 4>> \in Seq(1 .. 5)
    OBVIOUS
  <2> QED BY Zenon, <1>2, <2>1, <2>2, <2>3, <2>4, CallSays, SilentCall
<1>7. reject_request => Says
  <2> SUFFICES ASSUME reject_request PROVE Says
    BY Zenon
  <2>1. PICK r \in DOMAIN outstanding :
          \/ AnswerConnect("connectError")
          \/ /\ Enqueue(<< >>, <<CommandPacket("statusError", outstanding[r].stream,
                                               Amf3Response)>>, <<1>>)
             /\ control' = control
    BY Zenon DEF reject_request
  <2>2. PICK c \in Plain(peer_amf3') :
          c = CommandPacket("statusError", outstanding[r].stream, Amf3Response)
    BY Zenon, <1>1, Sayable
  <2>3. <<c>> \in Seq(Plain(peer_amf3')) /\ Len(<<c>>) = 1 /\ <<1>> \in Seq(1 .. 1)
    OBVIOUS
  <2> QED BY Zenon, <1>3, <2>1, <2>2, <2>3, AnswerSays, CallSays
<1> QED BY Zenon, <1>4, <1>5, <1>6, <1>7 DEF Decide

\* A valid handle leads to a stream that exists, with a wire id of its own.
LEMMA HandleWire ==
  ASSUME IInv, HandlesLead, next_stream_id \in 1 .. StreamIdMax,
         NEW h \in AnyHandle, Valid(stream_handles, h)
  PROVE  /\ WireOf(stream_handles, h) \in DOMAIN active_streams
         /\ WireOf(stream_handles, h) \in WireIds
<1>1. TableOK(stream_handles) /\ dead \subseteq AllHandles
      /\ DOMAIN active_streams = DOMAIN stream_handles.by_wire
      /\ \A w \in DOMAIN active_streams : w < next_stream_id
  BY Zenon DEF IInv, StreamsInv
<1>2. h \in Handles(stream_handles)
  BY Zenon, <1>1, HandlesAreValid DEF AnyHandle
<1>3. WireOf(stream_handles, h) \in DOMAIN active_streams
  BY Zenon, <1>2 DEF HandlesLead
<1>4. DOMAIN active_streams \subseteq Nat
  BY Zenon, <1>1, IndexedHandles
<1>5. PICK w \in Nat : w = WireOf(stream_handles, h) /\ w < next_stream_id
  BY Zenon, <1>1, <1>3, <1>4
<1>6. w \in WireIds
  BY <1>5, ServerAssumption DEF WireIds
<1> QED BY Zenon, <1>3, <1>5, <1>6

\* What the application sends.
LEMMA SendSays ==
  ASSUME OutTypes, Encodes, IInv, HandlesLead, next_stream_id \in 1 .. StreamIdMax, Send
  PROVE  Says
<1>1. /\ "media" \in PlainKinds /\ "data" \in PlainKinds /\ "metadata" \in PlainKinds
      /\ "pingRequest" \in PlainKinds /\ "playComplete" \in PlainKinds
  BY Zenon DEF PlainKinds
<1>2. PICK k \in BOOLEAN : k = peer_amf3'
  BY Zenon DEF Encodes
<1>3. NoOutput \in Plain(k) /\ Closed(Plain(k))
  BY Zenon, PlainAlways, ClosedSets
<1>4. ASSUME NEW o \in Plain(k), ReturnPacket(o), control' = control
      PROVE  Says
  <2>1. written' \in Plain(k) /\ pending' = pending
    BY Zenon, <1>3, <1>4, ReturnSays DEF OutTypes
  <2> QED BY Zenon, <1>2, <1>4, <2>1, SilentCall
<1>5. send_media => Says
  <2> SUFFICES ASSUME send_media PROVE Says
    BY Zenon
  <2>1. PICK h \in AnyHandle, csid \in {4, 5} :
          /\ Valid(stream_handles, h)
          /\ written' = Packet("media", csid, WireOf(stream_handles, h), FALSE)
    BY Zenon DEF send_media, playback_id
  <2>2. csid \in 0 .. 6
    OBVIOUS
  <2>3. PICK w \in WireIds : w = WireOf(stream_handles, h)
    BY Zenon, <2>1, HandleWire
  <2>4. written' \in Plain(k)
    BY Zenon, <1>1, <2>1, <2>2, <2>3, PlainPacket
  <2>5. control' = control /\ pending' = pending
    BY Zenon DEF send_media
  <2> QED BY Zenon, <1>2, <2>4, <2>5, SilentCall
<1>6. send_data => Says
  <2> SUFFICES ASSUME send_data PROVE Says
    BY Zenon
  <2>1. PICK h \in AnyHandle, amf3 \in BOOLEAN :
          /\ Valid(stream_handles, h)
          /\ ReturnPacket(DataPacket("data", WireOf(stream_handles, h), amf3))
    BY Zenon DEF send_data, playback_id
  <2>2. PICK w \in WireIds : w = WireOf(stream_handles, h)
    BY Zenon, <2>1, HandleWire
  <2>3. 3 \in 0 .. 6 /\ 6 \in 0 .. 6
    OBVIOUS
  <2>4. Packet("data", 3, w, amf3) \in Plain(k) /\ Packet("data", 6, w, amf3) \in Plain(k)
    BY Zenon, <1>1, <2>3, PlainPacket
  <2>5. DataPacket("data", w, amf3) \in Plain(k)
    BY Zenon, <2>4 DEF DataPacket
  <2>6. control' = control
    BY Zenon DEF send_data
  <2> QED BY Zenon, <1>4, <2>1, <2>2, <2>5, <2>6
<1>7. send_metadata => Says
  <2> SUFFICES ASSUME send_metadata PROVE Says
    BY Zenon
  <2>1. PICK h \in AnyHandle :
          /\ Valid(stream_handles, h)
          /\ ReturnPacket(DataPacket("metadata", WireOf(stream_handles, h), Amf3Response))
    BY Zenon DEF send_metadata, playback_id
  <2>2. PICK w \in WireIds : w = WireOf(stream_handles, h)
    BY Zenon, <2>1, HandleWire
  <2>3. DataPacket("metadata", w, Amf3Response) \in Plain(k)
    BY Zenon, <1>1, <1>2, Sayable
  <2>4. control' = control
    BY Zenon DEF send_metadata
  <2> QED BY Zenon, <1>4, <2>1, <2>2, <2>3, <2>4
<1>8. send_ping_request => Says
  <2>1. 0 \in WireIds
    BY ServerAssumption DEF WireIds
  <2>2. Control("pingRequest", 0) \in Plain(k)
    BY Zenon, <1>1, <1>2, <2>1, Sayable
  <2> QED BY Zenon, <1>4, <2>2 DEF send_ping_request
<1>9. complete_playback => Says
  <2> SUFFICES ASSUME complete_playback PROVE Says
    BY Zenon
  <2>1. PICK h \in AnyHandle :
          /\ Valid(stream_handles, h)
          /\ \/ ReturnPacket(CommandPacket("playComplete", WireOf(stream_handles, h), Amf3Response))
             \/ written' = NoOutput /\ pending' = pending
    BY Zenon DEF complete_playback
  <2>2. PICK w \in WireIds : w = WireOf(stream_handles, h)
    BY Zenon, <2>1, HandleWire
  <2>3. CommandPacket("playComplete", w, Amf3Response) \in Plain(k)
    BY Zenon, <1>1, <1>2, Sayable
  <2>4. control' = control
    BY Zenon DEF complete_playback
  <2> QED BY Zenon, <1>2, <1>3, <1>4, <2>1, <2>2, <2>3, <2>4, SilentCall
<1> QED BY Zenon, <1>5, <1>6, <1>7, <1>8, <1>9 DEF Send

-----------------------------------------------------------------------------
(* The tables.                                                             *)

\* What a quiet step does to the requests.
Added == \E r : /\ r.kind # "connect" => r.stream \in DOMAIN stream_handles.by_wire
                /\ ~(Cardinality(DOMAIN outstanding) >= MaxPendingRequests)
                /\ outstanding' = Map(outstanding, next_request, r)
Taken == \E r : outstanding' = Restrict(outstanding, DOMAIN outstanding \ {r})
Quiet == /\ UNCHANGED <<stream_handles, next_stream_id, dead>>
         /\ DOMAIN active_streams' = DOMAIN active_streams
         /\ UNCHANGED outstanding \/ Added \/ Taken

\* A new request is about the stream it names.
LEMMA RequestAdded ==
  ASSUME NEW r, NEW event, AddRequest(r, event),
         r.kind # "connect" => r.stream \in DOMAIN stream_handles.by_wire
  PROVE  UNCHANGED outstanding \/ Added
BY Zenon DEF AddRequest, Added

\* The handlers of receive, but createStream and deleteStream, are quiet.
LEMMA ReceiveQuiet ==
  Receive => Quiet \/ handle_command_create_stream \/ handle_command_delete_stream
<1> USE DEF tables, requests
<1>1. Drain => Quiet
  BY Zenon DEF Drain, Quiet
<1>2. handle_command_connect => Quiet
  <2> SUFFICES ASSUME handle_command_connect PROVE Quiet
    BY Zenon
  <2>1. UNCHANGED outstanding \/ Added
    <3>1. CASE UNCHANGED outstanding
      BY Zenon, <3>1
    <3>2. CASE ~UNCHANGED outstanding
      <4>1. AddRequest([kind |-> "connect", stream |-> 0, encoding |-> response_encoding'],
                       "connectionRequested")
        BY Zenon, <3>2 DEF handle_command_connect
      <4> QED BY Zenon, <4>1, RequestAdded
    <3> QED BY Zenon, <3>1, <3>2
  <2> QED BY Zenon, <2>1 DEF handle_command_connect, Quiet
<1>3. handle_command_close_stream => Quiet
  BY Zenon DEF handle_command_close_stream, Quiet
<1>4. ASSUME NEW kind, NEW event, StreamRequest(kind, event)
      PROVE  Quiet
  <2>1. PICK stream \in WireIds :
          \/ /\ connected /\ Known(stream_handles, stream)
             /\ AddRequest([kind |-> kind, stream |-> stream, encoding |-> response_encoding'],
                           event)
          \/ UNCHANGED requests
    BY Zenon, <1>4 DEF StreamRequest
  <2>2. CASE UNCHANGED requests
    BY Zenon, <1>4, <2>2 DEF StreamRequest, Quiet
  <2>3. CASE ~UNCHANGED requests
    <3>1. UNCHANGED outstanding \/ Added
      BY Zenon, <2>1, <2>3, RequestAdded DEF Known
    <3> QED BY Zenon, <1>4, <3>1 DEF StreamRequest, Quiet
  <2> QED BY Zenon, <2>2, <2>3
<1>5. handle_command_publish \/ handle_command_play => Quiet
  BY Zenon, <1>4 DEF handle_command_publish, handle_command_play
<1>6. UnhandledCommand \/ audio_event \/ data_event \/ handle_control \/ InvalidInput => Quiet
  BY Zenon DEF UnhandledCommand, audio_event, data_event, handle_control, InvalidInput, Quiet
<1> QED BY Zenon, <1>1, <1>2, <1>3, <1>5, <1>6 DEF Receive

\* The application's decisions take a request out.
LEMMA DecideQuiet == Decide => Quiet
<1> USE DEF tables, requests
<1>1. ASSUME NEW r, NEW kind, TakeRequest(r, kind)
      PROVE  Taken
  BY Zenon, <1>1 DEF TakeRequest, Taken
<1>2. accept_connection_request => Quiet
  BY Zenon, <1>1 DEF accept_connection_request, Quiet
<1>3. accept_publish_request => Quiet
  BY Zenon, <1>1 DEF accept_publish_request, Quiet
<1>4. accept_play_request => Quiet
  BY Zenon, <1>1 DEF accept_play_request, Quiet
<1>5. reject_request => Quiet
  BY Zenon, <1>1 DEF reject_request, Quiet
<1> QED BY Zenon, <1>2, <1>3, <1>4, <1>5 DEF Decide

\* Sending changes no stream but the one it completes.
LEMMA SendQuiet == Send => Quiet
<1> USE DEF tables, requests, Quiet
<1>1. send_media \/ send_data \/ send_metadata \/ send_ping_request => Quiet
  BY Zenon DEF send_media, send_data, send_metadata, send_ping_request
<1>2. complete_playback => Quiet
  BY Zenon DEF complete_playback
<1> QED BY Zenon, <1>1, <1>2 DEF Send

\* A session starts without streams, requests and dead handles.
LEMMA InitEstablishes == Init => IInv
<1> SUFFICES ASSUME Init PROVE IInv
  BY Zenon
<1>1. DOMAIN << >> = {}
  OBVIOUS
<1>2. DOMAIN active_streams = {} /\ DOMAIN outstanding = {}
      /\ DOMAIN stream_handles.by_wire = {}
  BY Zenon, <1>1 DEF Init, NewStreams
<1>3. MaxStreams \in Nat /\ MaxPendingRequests \in Nat
  BY Zenon, ServerAssumption
<1>4. StreamsInv
  BY <1>2, <1>3, NewTableOK, FS_EmptySet DEF Init, StreamsInv
<1>5. RequestsInv
  BY <1>2, <1>3, FS_EmptySet DEF RequestsInv, RequestsConcernLiveStreams
<1> QED BY Zenon, <1>4, <1>5 DEF IInv

\* A quiet step.
LEMMA QuietPreserves == IInv /\ Quiet => IInv'
<1> SUFFICES ASSUME IInv, Quiet PROVE IInv'
  BY Zenon
<1>1. StreamsInv'
  BY Zenon DEF IInv, StreamsInv, Quiet
<1>2. RequestsInv'
  <2>1. CASE UNCHANGED outstanding
    BY Zenon, <2>1 DEF IInv, RequestsInv, RequestsConcernLiveStreams, Quiet
  <2>2. CASE Added
    <3>1. PICK r : /\ r.kind # "connect" => r.stream \in DOMAIN stream_handles.by_wire
                   /\ ~(Cardinality(DOMAIN outstanding) >= MaxPendingRequests)
                   /\ outstanding' = Map(outstanding, next_request, r)
      BY Zenon, <2>2 DEF Added
    <3>2. DOMAIN outstanding' = DOMAIN outstanding \cup {next_request}
      BY Zenon, <3>1 DEF Map
    <3>3. IsFiniteSet(DOMAIN outstanding) /\ Cardinality(DOMAIN outstanding) \in Nat
      BY Zenon, FS_CardinalityType DEF IInv, RequestsInv
    <3>4. /\ IsFiniteSet(DOMAIN outstanding')
          /\ Cardinality(DOMAIN outstanding') \in
               {Cardinality(DOMAIN outstanding), Cardinality(DOMAIN outstanding) + 1}
      BY <3>2, <3>3, FS_AddElement
    <3>5. Cardinality(DOMAIN outstanding') <= MaxPendingRequests
      BY <3>1, <3>3, <3>4, ServerAssumption
    <3>6. ASSUME NEW q \in DOMAIN outstanding', outstanding'[q].kind # "connect"
          PROVE  outstanding'[q].stream \in DOMAIN active_streams'
      <4>1. CASE q = next_request
        <5>1. outstanding'[q] = r
          BY Zenon, <3>1, <4>1 DEF Map
        <5> QED BY Zenon, <3>1, <3>6, <5>1 DEF IInv, StreamsInv, Quiet
      <4>2. CASE q # next_request
        <5>1. q \in DOMAIN outstanding /\ outstanding'[q] = outstanding[q]
          BY Zenon, <3>1, <3>2, <4>2 DEF Map
        <5> QED BY Zenon, <3>6, <5>1 DEF IInv, RequestsInv, RequestsConcernLiveStreams, Quiet
      <4> QED BY Zenon, <4>1, <4>2
    <3> QED BY Zenon, <3>4, <3>5, <3>6 DEF RequestsInv, RequestsConcernLiveStreams
  <2>3. CASE Taken
    <3>1. PICK r : outstanding' = Restrict(outstanding, DOMAIN outstanding \ {r})
      BY Zenon, <2>3 DEF Taken
    <3>2. /\ DOMAIN outstanding' = DOMAIN outstanding \ {r}
          /\ \A q \in DOMAIN outstanding' : outstanding'[q] = outstanding[q]
      BY Zenon, <3>1 DEF Restrict
    <3>3. IsFiniteSet(DOMAIN outstanding) /\ Cardinality(DOMAIN outstanding) \in Nat
      BY Zenon, FS_CardinalityType DEF IInv, RequestsInv
    <3>4. /\ IsFiniteSet(DOMAIN outstanding')
          /\ Cardinality(DOMAIN outstanding') \in
               {Cardinality(DOMAIN outstanding), Cardinality(DOMAIN outstanding) - 1}
      BY <3>2, <3>3, FS_RemoveElement
    <3>5. Cardinality(DOMAIN outstanding') <= MaxPendingRequests
      BY <3>3, <3>4, ServerAssumption DEF IInv, RequestsInv, RequestsConcernLiveStreams
    <3>6. \A q \in DOMAIN outstanding' :
            outstanding'[q].kind # "connect" => outstanding'[q].stream \in DOMAIN active_streams'
      BY Zenon, <3>2 DEF IInv, RequestsInv, RequestsConcernLiveStreams, Quiet
    <3> QED BY Zenon, <3>4, <3>5, <3>6 DEF RequestsInv, RequestsConcernLiveStreams
  <2> QED BY Zenon, <2>1, <2>2, <2>3 DEF Quiet
<1> QED BY Zenon, <1>1, <1>2 DEF IInv

\* createStream: a new wire id, and with it a new entry in both tables.
LEMMA CreatePreserves == IInv /\ handle_command_create_stream => IInv'
<1> SUFFICES ASSUME IInv, handle_command_create_stream PROVE IInv'
  BY Zenon
<1> USE DEF tables, requests
<1>1. CASE StreamsExhausted
  <2>1. Quiet
    BY Zenon, <1>1 DEF handle_command_create_stream, Quiet
  <2> QED BY Zenon, <2>1, QuietPreserves
<1>2. CASE ~StreamsExhausted
  <2>1. /\ next_stream_id' = next_stream_id + 1
        /\ active_streams' = Map(active_streams, next_stream_id, "Created")
        /\ stream_handles' = insert(stream_handles, NoState, next_stream_id)
        /\ dead' = dead /\ outstanding' = outstanding
        /\ ~(Cardinality(DOMAIN active_streams) >= MaxStreams)
    BY Zenon, <1>2 DEF handle_command_create_stream, StreamsExhausted
  <2>2. /\ TableOK(stream_handles) /\ NoWire \notin Nat /\ NoState \in States
        /\ next_stream_id \in (Nat \cup {NoWire}) \ DOMAIN stream_handles.by_wire
        /\ next_stream_id \in Nat /\ next_stream_id # NoWire
    <3>1. next_stream_id \in Nat /\ next_stream_id \notin DOMAIN active_streams
      BY DEF IInv, StreamsInv
    <3>2. NoWire \notin Nat
      BY Zenon, ServerAssumption
    <3>3. TableOK(stream_handles) /\ DOMAIN active_streams = DOMAIN stream_handles.by_wire
      BY Zenon DEF IInv, StreamsInv
    <3>4. NoState \in States
      BY Zenon DEF States
    <3> QED BY Zenon, <3>1, <3>2, <3>3, <3>4
  <2> DEFINE h == InsertedHandle(stream_handles)
  <2>3. /\ TableOK(stream_handles')
        /\ h \notin Handles(stream_handles)
        /\ Handles(stream_handles') = Handles(stream_handles) \cup {h}
        /\ DOMAIN stream_handles'.by_wire = DOMAIN stream_handles.by_wire \cup {next_stream_id}
        /\ \A g \in AllHandles : Spent(stream_handles, g) => Spent(stream_handles', g)
    <3> DEFINE u == insert(stream_handles, NoState, next_stream_id)
    <3>1. /\ TableOK(u)
          /\ h \notin Handles(stream_handles)
          /\ Handles(u) = Handles(stream_handles) \cup {h}
          /\ DOMAIN u.by_wire = DOMAIN stream_handles.by_wire \cup {next_stream_id}
          /\ \A g \in AllHandles : Spent(stream_handles, g) => Spent(u, g)
      <4>1. Inserted(stream_handles, u, h, NoState, next_stream_id)
        BY Zenon, <2>2, InsertAdds
      <4> HIDE DEF u, h
      <4> QED BY Zenon, <2>2, <4>1 DEF Inserted
    <3>2. u = stream_handles'
      BY Zenon, <2>1
    <3> HIDE DEF u, h
    <3> QED BY Zenon, <3>1, <3>2
  <2> HIDE DEF h
  <2>4. /\ DOMAIN active_streams' = DOMAIN active_streams \cup {next_stream_id}
        /\ next_stream_id \notin DOMAIN active_streams
    BY Zenon, <2>1, <2>2 DEF Map, IInv, StreamsInv
  <2>5. /\ IsFiniteSet(DOMAIN active_streams) /\ IsFiniteSet(Handles(stream_handles))
        /\ Cardinality(DOMAIN active_streams) \in Nat
    BY Zenon, FS_CardinalityType DEF IInv, StreamsInv
  <2>6. /\ IsFiniteSet(DOMAIN active_streams')
        /\ Cardinality(DOMAIN active_streams') = Cardinality(DOMAIN active_streams) + 1
    BY <2>4, <2>5, FS_AddElement
  <2>7. /\ IsFiniteSet(Handles(stream_handles'))
        /\ Cardinality(Handles(stream_handles')) = Cardinality(Handles(stream_handles)) + 1
    BY <2>3, <2>5, FS_AddElement
  <2>8. Cardinality(DOMAIN active_streams') <= MaxStreams
    BY <2>1, <2>5, <2>6, ServerAssumption
  <2>9. next_stream_id' \in Nat /\ \A w \in DOMAIN active_streams' : w < next_stream_id'
    <3>1. DOMAIN active_streams \subseteq Nat
      BY Zenon, <2>2, IndexedHandles DEF IInv, StreamsInv
    <3>2. \A w \in DOMAIN active_streams : w \in Nat /\ w < next_stream_id
      BY Zenon, <3>1 DEF IInv, StreamsInv
    <3> QED BY <2>1, <2>2, <2>4, <3>2
  <2>10. StreamsInv'
    <3>1. DOMAIN active_streams' = DOMAIN stream_handles'.by_wire
      BY Zenon, <2>3, <2>4 DEF IInv, StreamsInv
    <3>2. Cardinality(Handles(stream_handles')) = Cardinality(DOMAIN active_streams')
      BY Zenon, <2>6, <2>7 DEF IInv, StreamsInv
    <3>3. dead' \subseteq AllHandles /\ \A g \in dead' : Spent(stream_handles', g)
      BY Zenon, <2>1, <2>3 DEF IInv, StreamsInv
    <3> QED BY Zenon, <2>3, <2>6, <2>7, <2>8, <2>9, <3>1, <3>2, <3>3 DEF StreamsInv
  <2>11. RequestsInv'
    BY Zenon, <2>1, <2>4 DEF IInv, RequestsInv, RequestsConcernLiveStreams
  <2> QED BY Zenon, <2>10, <2>11 DEF IInv
<1> QED BY Zenon, <1>1, <1>2

\* deleteStream: the entry leaves both tables, its handle is spent, and the
\* requests about it go with it.
LEMMA DeletePreserves == IInv /\ handle_command_delete_stream => IInv'
<1> SUFFICES ASSUME IInv, handle_command_delete_stream PROVE IInv'
  BY Zenon
<1> USE DEF tables, requests
<1>1. PICK stream \in WireIds :
        IF connected /\ stream \in DOMAIN active_streams
        THEN /\ active_streams' = Restrict(active_streams, DOMAIN active_streams \ {stream})
             /\ outstanding' = RestrictValues(outstanding, LAMBDA r : ~ConcernsStream(r, stream))
             /\ IF Known(stream_handles, stream)
                THEN /\ stream_handles' = remove(stream_handles, find(stream_handles, stream))
                     /\ dead' = dead \cup {find(stream_handles, stream)}
                ELSE UNCHANGED <<stream_handles, dead>>
        ELSE UNCHANGED <<outstanding, active_streams, stream_handles, dead>>
  BY Zenon DEF handle_command_delete_stream
<1>2. next_stream_id' = next_stream_id
  BY Zenon DEF handle_command_delete_stream
<1>3. CASE ~(connected /\ stream \in DOMAIN active_streams)
  <2>1. Quiet
    BY Zenon, <1>1, <1>2, <1>3 DEF Quiet
  <2> QED BY Zenon, <2>1, QuietPreserves
<1>4. CASE connected /\ stream \in DOMAIN active_streams
  <2> DEFINE h == find(stream_handles, stream)
  <2>1. /\ TableOK(stream_handles) /\ NoWire \notin Nat
        /\ stream \in DOMAIN stream_handles.by_wire
    BY Zenon, <1>4, ServerAssumption DEF IInv, StreamsInv
  <2>2. /\ h \in AllHandles /\ h \in Handles(stream_handles)
        /\ Valid(stream_handles, h) /\ WireOf(stream_handles, h) = stream
    BY Zenon, <2>1, IndexedHandles
  <2>3. /\ active_streams' = Restrict(active_streams, DOMAIN active_streams \ {stream})
        /\ outstanding' = RestrictValues(outstanding, LAMBDA r : ~ConcernsStream(r, stream))
        /\ stream_handles' = remove(stream_handles, h) /\ dead' = dead \cup {h}
    BY Zenon, <1>1, <1>4, <2>1 DEF Known
  <2>4. /\ TableOK(stream_handles')
        /\ Handles(stream_handles') = Handles(stream_handles) \ {h}
        /\ DOMAIN stream_handles'.by_wire = DOMAIN stream_handles.by_wire \ {stream}
        /\ \A g \in AllHandles : Spent(stream_handles, g) => Spent(stream_handles', g)
        /\ Spent(stream_handles', h)
    BY ZenonT(40), <2>1, <2>2, <2>3, RemoveTakes
  <2> HIDE DEF h
  <2>5. DOMAIN active_streams' = DOMAIN active_streams \ {stream}
    BY Zenon, <2>3 DEF Restrict
  <2>6. /\ IsFiniteSet(DOMAIN active_streams) /\ IsFiniteSet(Handles(stream_handles))
        /\ Cardinality(DOMAIN active_streams) \in Nat
    BY Zenon, FS_CardinalityType DEF IInv, StreamsInv
  <2>7. /\ IsFiniteSet(DOMAIN active_streams')
        /\ Cardinality(DOMAIN active_streams') = Cardinality(DOMAIN active_streams) - 1
    BY <1>4, <2>5, <2>6, FS_RemoveElement
  <2>8. /\ IsFiniteSet(Handles(stream_handles'))
        /\ Cardinality(Handles(stream_handles')) = Cardinality(Handles(stream_handles)) - 1
    BY <2>2, <2>4, <2>6, FS_RemoveElement
  <2>9. StreamsInv'
    <3>1. DOMAIN active_streams' = DOMAIN stream_handles'.by_wire
      BY Zenon, <2>4, <2>5 DEF IInv, StreamsInv
    <3>2. Cardinality(Handles(stream_handles')) = Cardinality(DOMAIN active_streams')
      BY Zenon, <2>7, <2>8 DEF IInv, StreamsInv
    <3>3. Cardinality(DOMAIN active_streams') <= MaxStreams
      BY <2>6, <2>7, ServerAssumption DEF IInv, StreamsInv
    <3>4. dead' \subseteq AllHandles /\ \A g \in dead' : Spent(stream_handles', g)
      BY Zenon, <2>2, <2>3, <2>4 DEF IInv, StreamsInv
    <3>5. next_stream_id' \in Nat /\ \A w \in DOMAIN active_streams' : w < next_stream_id'
      BY Zenon, <1>2, <2>5 DEF IInv, StreamsInv
    <3> QED BY Zenon, <2>4, <2>7, <2>8, <3>1, <3>2, <3>3, <3>4, <3>5 DEF StreamsInv
  <2>10. RequestsInv'
    <3> DEFINE kept == {q \in DOMAIN outstanding : ~ConcernsStream(outstanding[q], stream)}
    <3>1. /\ DOMAIN outstanding' = kept
          /\ \A q \in kept : outstanding'[q] = outstanding[q]
      BY Zenon, <2>3 DEF RestrictValues, Restrict
    <3>2. kept \subseteq DOMAIN outstanding
      BY Zenon
    <3>3. /\ IsFiniteSet(DOMAIN outstanding)
          /\ Cardinality(DOMAIN outstanding) \in Nat
          /\ Cardinality(DOMAIN outstanding) <= MaxPendingRequests
      BY Zenon, FS_CardinalityType DEF IInv, RequestsInv, RequestsConcernLiveStreams
    <3>4. IsFiniteSet(kept) /\ Cardinality(kept) <= Cardinality(DOMAIN outstanding)
      BY Zenon, <3>2, <3>3, FS_Subset
    <3>5. Cardinality(kept) \in Nat
      BY Zenon, <3>4, FS_CardinalityType
    <3>6. Cardinality(kept) <= MaxPendingRequests
      BY <3>3, <3>4, <3>5, ServerAssumption
    <3>7. \A q \in kept : outstanding[q].kind # "connect" =>
                            outstanding[q].stream \in DOMAIN active_streams'
      BY Zenon, <2>5 DEF ConcernsStream, IInv, RequestsInv, RequestsConcernLiveStreams
    <3> HIDE DEF kept
    <3> QED BY Zenon, <3>1, <3>4, <3>6, <3>7 DEF RequestsInv, RequestsConcernLiveStreams
  <2> QED BY Zenon, <2>9, <2>10 DEF IInv
<1> QED BY Zenon, <1>3, <1>4

\* Every step keeps the invariant.
LEMMA NextPreserves == IInv /\ [Next]_server => IInv'
<1> SUFFICES ASSUME IInv, [Next]_server PROVE IInv'
  BY Zenon
<1>1. CASE Receive
  BY Zenon, <1>1, ReceiveQuiet, QuietPreserves, CreatePreserves, DeletePreserves
<1>2. CASE Decide
  BY Zenon, <1>2, DecideQuiet, QuietPreserves
<1>3. CASE Send
  BY Zenon, <1>3, SendQuiet, QuietPreserves
<1>4. CASE UNCHANGED server
  <2>1. Quiet
    BY Zenon, <1>4 DEF server, tables, requests, Quiet
  <2> QED BY Zenon, <2>1, QuietPreserves
<1> QED BY Zenon, <1>1, <1>2, <1>3, <1>4 DEF Next

\* What the invariant means.
LEMMA InvImplies ==
  IInv => TablesAgree /\ RequestsConcernLiveStreams /\ DeletedHandlesStayInvalid
<1> SUFFICES ASSUME IInv
             PROVE  TablesAgree /\ RequestsConcernLiveStreams /\ DeletedHandlesStayInvalid
  BY Zenon
<1>1. TablesAgree
  BY Zenon DEF IInv, StreamsInv, TablesAgree, TableOK
<1>2. RequestsConcernLiveStreams
  BY Zenon DEF IInv, RequestsInv
<1>3. DeletedHandlesStayInvalid
  BY Zenon DEF IInv, StreamsInv, DeletedHandlesStayInvalid, Spent, Valid
<1> QED BY Zenon, <1>1, <1>2, <1>3

\* The tables of streams and of requests fit together in every state of a server session.
THEOREM InvHolds == Spec => []IInv
BY InitEstablishes, NextPreserves, PTL DEF Spec

\* handle_command_create_stream and handle_command_delete_stream keep the two
\* tables of a server equal: active_streams and the handle table name the same
\* streams, of which there are never more than max_streams, in every session.
THEOREM TablesAlwaysAgree == Spec => []TablesAgree
BY InvHolds, InvImplies, PTL

\* A publish or play request that waits for a decision is about a stream that
\* still exists, and there are never more than max_pending_requests of them, so
\* accept_request cannot fail half way.
THEOREM RequestsStayAnswerable == Spec => []RequestsConcernLiveStreams
BY InvHolds, InvImplies, PTL

\* A handle of a deleted stream is refused for ever, however often its slot is
\* used again and also when the generations of a slot run out.
THEOREM DeletedHandlesNeverRevived == Spec => []DeletedHandlesStayInvalid
BY InvHolds, InvImplies, PTL

-----------------------------------------------------------------------------
(* The types, and the end of a stream.                                     *)

RequestRecords == [kind : {"connect", "publish", "play"}, stream : WireIds,
                   encoding : {"Amf0", "Amf3"}]

StreamStates == {"Created", "Publishing", "Playing", "Completed"}

\* The types of what is not said.
StateTypes ==
  /\ failed \in BOOLEAN /\ connected \in BOOLEAN
  /\ \A r \in DOMAIN outstanding : outstanding[r] \in RequestRecords
  /\ next_request \in 0 .. MaxRequests /\ next_stream_id \in 1 .. StreamIdMax
  /\ negotiated \in {"Amf0", "Amf3"} /\ response_encoding \in {"Amf0", "Amf3"}
  /\ peer_amf3 \in BOOLEAN
  /\ \A s \in DOMAIN active_streams : active_streams[s] \in StreamStates

SessionInv == IInv /\ OutTypes /\ StateTypes /\ SaidInv /\ EncodingInv /\ HandlesLead

\* What a step does to the requests: it adds one, takes some out, or neither.
RequestStep ==
  \/ outstanding' = outstanding
  \/ \E r \in RequestRecords : /\ outstanding' = Map(outstanding, next_request, r)
                               /\ r.encoding = response_encoding'
  \/ \E D \in SUBSET DOMAIN outstanding : outstanding' = Restrict(outstanding, D)

NumberStep == \/ next_request' = next_request
              \/ next_request < MaxRequests /\ next_request' = next_request + 1

\* What a step does to the streams: closeStream and deleteStream end one, a call of
\* the application moves one on, createStream adds one, or nothing happens.
Ends == \E s \in DOMAIN active_streams :
  /\ s \in WireIds
  /\ Respond(FinishedEvent(s))
  /\ \/ active_streams' = [active_streams EXCEPT ![s] = "Created"]
     \/ active_streams' = Restrict(active_streams, DOMAIN active_streams \ {s})
MovesOn == \E s \in DOMAIN active_streams, state \in {"Publishing", "Playing", "Completed"} :
             active_streams' = [active_streams EXCEPT ![s] = state]
Adds == active_streams' = Map(active_streams, next_stream_id, "Created")
StreamStep == active_streams' = active_streams \/ Ends \/ MovesOn \/ Adds

\* Every step.
LEMMA StreamSteps ==
  ASSUME IInv, HandlesLead, next_stream_id \in 1 .. StreamIdMax, Next
  PROVE  StreamStep
<1> USE DEF tables
<1>1. handle_command_close_stream => StreamStep
  BY Zenon DEF handle_command_close_stream, StreamStep, Ends
<1>2. handle_command_delete_stream => StreamStep
  BY Zenon DEF handle_command_delete_stream, StreamStep, Ends
<1>3. handle_command_create_stream => StreamStep
  BY Zenon DEF handle_command_create_stream, StreamStep, Adds
<1>4. UNCHANGED tables => StreamStep
  BY Zenon DEF StreamStep
<1>5. accept_publish_request => StreamStep
  BY Zenon DEF accept_publish_request, StreamStep, MovesOn
<1>6. accept_play_request => StreamStep
  BY Zenon DEF accept_play_request, StreamStep, MovesOn
<1>7. complete_playback => StreamStep
  <2> SUFFICES ASSUME complete_playback PROVE StreamStep
    BY Zenon
  <2>1. PICK h \in AnyHandle :
          /\ Valid(stream_handles, h)
          /\ \/ active_streams' =
                  [active_streams EXCEPT ![WireOf(stream_handles, h)] = "Completed"]
             \/ active_streams' = active_streams
    BY Zenon DEF complete_playback
  <2>2. WireOf(stream_handles, h) \in DOMAIN active_streams
    BY Zenon, <2>1, HandleWire
  <2> QED BY Zenon, <2>1, <2>2 DEF StreamStep, MovesOn
<1> HIDE DEF tables
<1>8. Receive => StreamStep
  BY Zenon, <1>1, <1>2, <1>3, <1>4 DEF Receive, Drain, handle_command_connect,
     handle_command_publish, handle_command_play, StreamRequest, UnhandledCommand, audio_event,
     data_event, handle_control, InvalidInput
<1>9. Decide => StreamStep
  BY Zenon, <1>4, <1>5, <1>6 DEF Decide, accept_connection_request, reject_request
<1>10. Send => StreamStep
  BY Zenon, <1>4, <1>7 DEF Send, send_media, send_data, send_metadata, send_ping_request
<1> QED BY Zenon, <1>8, <1>9, <1>10 DEF Next

\* Every step.
LEMMA RequestSteps ==
  ASSUME Encodes, Next
  PROVE  RequestStep /\ NumberStep
<1> USE DEF requests
<1>1. UNCHANGED requests => RequestStep /\ NumberStep
  BY Zenon DEF RequestStep, NumberStep
<1>2. ASSUME NEW kind \in {"connect", "publish", "play"}, NEW stream \in WireIds, NEW event,
             AddRequest([kind |-> kind, stream |-> stream, encoding |-> response_encoding'], event)
      PROVE  RequestStep /\ NumberStep
  <2>1. PICK r : r = [kind |-> kind, stream |-> stream, encoding |-> response_encoding']
    BY Zenon
  <2>2. r \in RequestRecords /\ r.encoding = response_encoding'
    BY Zenon, <2>1 DEF RequestRecords, Encodes
  <2>3. outstanding' = outstanding \/ outstanding' = Map(outstanding, next_request, r)
    BY Zenon, <1>2, <2>1 DEF AddRequest
  <2>4. NumberStep
    BY Zenon, <1>2 DEF AddRequest, NumberStep
  <2> QED BY Zenon, <2>2, <2>3, <2>4 DEF RequestStep
<1>3. ASSUME NEW r, NEW kind, TakeRequest(r, kind), next_request' = next_request
      PROVE  RequestStep /\ NumberStep
  <2>1. DOMAIN outstanding \ {r} \in SUBSET DOMAIN outstanding
    BY Zenon
  <2> QED BY Zenon, <1>3, <2>1 DEF TakeRequest, RequestStep, NumberStep
<1>4. handle_command_connect => RequestStep /\ NumberStep
  <2>1. 0 \in WireIds /\ "connect" \in {"connect", "publish", "play"}
    BY ServerAssumption DEF WireIds
  <2> HIDE DEF requests
  <2> QED BY Zenon, <1>1, <1>2, <2>1 DEF handle_command_connect, requests
<1>5. ASSUME NEW kind \in {"connect", "publish", "play"}, NEW event, StreamRequest(kind, event)
      PROVE  RequestStep /\ NumberStep
  <2> HIDE DEF requests
  <2> QED BY Zenon, <1>1, <1>2, <1>5 DEF StreamRequest
<1>6. handle_command_publish \/ handle_command_play => RequestStep /\ NumberStep
  <2>1. "publish" \in {"connect", "publish", "play"} /\ "play" \in {"connect", "publish", "play"}
    BY Zenon
  <2> QED BY Zenon, <1>5, <2>1 DEF handle_command_publish, handle_command_play
<1>7. handle_command_delete_stream => RequestStep /\ NumberStep
  <2> SUFFICES ASSUME handle_command_delete_stream PROVE RequestStep /\ NumberStep
    BY Zenon
  <2>1. PICK stream \in WireIds :
          \/ outstanding' = RestrictValues(outstanding, LAMBDA r : ~ConcernsStream(r, stream))
          \/ outstanding' = outstanding
    BY Zenon DEF handle_command_delete_stream
  <2>2. PICK D : D = {q \in DOMAIN outstanding : ~ConcernsStream(outstanding[q], stream)}
    BY Zenon
  <2>3. D \in SUBSET DOMAIN outstanding
    BY Zenon, <2>2
  <2>4. RestrictValues(outstanding, LAMBDA r : ~ConcernsStream(r, stream))
          = Restrict(outstanding, D)
    BY Zenon, <2>2 DEF RestrictValues
  <2>5. NumberStep
    BY Zenon DEF handle_command_delete_stream, NumberStep
  <2> QED BY Zenon, <2>1, <2>3, <2>4, <2>5 DEF RequestStep
<1>8. accept_publish_request \/ accept_play_request => RequestStep /\ NumberStep
  BY Zenon, <1>3 DEF accept_publish_request, accept_play_request
<1>9. accept_connection_request \/ reject_request => RequestStep /\ NumberStep
  BY Zenon, <1>3 DEF accept_connection_request, reject_request
<1> HIDE DEF requests
<1>10. Receive => RequestStep /\ NumberStep
  BY Zenon, <1>1, <1>4, <1>6, <1>7 DEF Receive, Drain, handle_command_close_stream,
     handle_command_create_stream, UnhandledCommand, audio_event, data_event, handle_control,
     InvalidInput
<1>11. Decide => RequestStep /\ NumberStep
  BY Zenon, <1>8, <1>9 DEF Decide
<1>12. Send => RequestStep /\ NumberStep
  BY Zenon, <1>1 DEF Send, send_media, send_data, send_metadata, send_ping_request,
     complete_playback
<1> QED BY Zenon, <1>10, <1>11, <1>12 DEF Next

\* What a step does to the flags and to the next wire id.
FlagStep ==
  /\ failed' = failed \/ failed' = TRUE
  /\ connected' = connected \/ connected' = TRUE
  /\ negotiated' \in {negotiated, "Amf0", "Amf3"}
  /\ \/ next_stream_id' = next_stream_id
     \/ next_stream_id # StreamIdMax /\ next_stream_id' = next_stream_id + 1

\* Every step.
LEMMA FlagSteps == Next => FlagStep
<1>1. ASSUME NEW r, NEW event, AddRequest(r, event)
      PROVE  failed' = failed \/ failed' = TRUE
  BY Zenon, <1>1 DEF AddRequest, Fail
<1>2. UNCHANGED <<connected, negotiated, next_stream_id>> /\ (failed' = failed \/ failed' = TRUE)
        => FlagStep
  BY Zenon DEF FlagStep
<1>3. UNCHANGED amf => UNCHANGED negotiated
  BY Zenon DEF amf
<1>4. UNCHANGED tables => UNCHANGED next_stream_id
  BY Zenon DEF tables
<1>5. handle_command_connect => FlagStep
  <2> SUFFICES ASSUME handle_command_connect PROVE FlagStep
    BY Zenon
  <2>1. connected' = connected /\ next_stream_id' = next_stream_id
    BY Zenon, <1>4 DEF handle_command_connect
  <2>2. failed' = failed \/ failed' = TRUE
    BY Zenon, <1>1 DEF handle_command_connect, Fail
  <2>3. negotiated' \in {negotiated, "Amf0", "Amf3"}
    <3>1. \A a, b : negotiate(a, b) \in {"Amf0", "Amf3"}
      BY Zenon DEF negotiate
    <3>2. \/ negotiated' = negotiated
          \/ \E requested : negotiated' = negotiate(requested, MaxObjectEncoding)
      BY Zenon DEF handle_command_connect
    <3> QED BY Zenon, <3>1, <3>2
  <2> QED BY Zenon, <2>1, <2>2, <2>3 DEF FlagStep
<1>6. handle_command_create_stream => FlagStep
  <2> SUFFICES ASSUME handle_command_create_stream PROVE FlagStep
    BY Zenon
  <2>1. connected' = connected /\ negotiated' = negotiated
    BY Zenon DEF handle_command_create_stream
  <2>2. failed' = failed \/ failed' = TRUE
    BY Zenon DEF handle_command_create_stream, Fail
  <2>3. \/ next_stream_id' = next_stream_id
        \/ next_stream_id # StreamIdMax /\ next_stream_id' = next_stream_id + 1
    BY Zenon, <1>4 DEF handle_command_create_stream, StreamsExhausted
  <2> QED BY Zenon, <2>1, <2>2, <2>3 DEF FlagStep
<1>7. handle_command_close_stream \/ handle_command_delete_stream => FlagStep
  BY Zenon, <1>2 DEF handle_command_close_stream, handle_command_delete_stream
<1>8. ASSUME NEW kind, NEW event, StreamRequest(kind, event)
      PROVE  FlagStep
  BY Zenon, <1>1, <1>2, <1>4, <1>8 DEF StreamRequest
<1>9. handle_command_publish \/ handle_command_play => FlagStep
  BY Zenon, <1>8 DEF handle_command_publish, handle_command_play
<1>10. Drain \/ UnhandledCommand \/ audio_event \/ data_event \/ handle_control \/ InvalidInput
         => FlagStep
  BY Zenon, <1>2, <1>3, <1>4 DEF Drain, UnhandledCommand, audio_event, data_event,
     handle_control, InvalidInput, Fail
<1>11. Receive => FlagStep
  BY Zenon, <1>5, <1>6, <1>7, <1>9, <1>10 DEF Receive
<1>12. accept_connection_request => FlagStep
  BY Zenon, <1>4 DEF accept_connection_request, FlagStep
<1>13. accept_publish_request \/ accept_play_request \/ reject_request => FlagStep
  BY Zenon, <1>2, <1>4 DEF accept_publish_request, accept_play_request, reject_request
<1>14. Send => FlagStep
  BY Zenon, <1>2, <1>3, <1>4 DEF Send, send_media, send_data, send_metadata, send_ping_request,
     complete_playback
<1> QED BY Zenon, <1>11, <1>12, <1>13, <1>14 DEF Next, Decide

\* A handle that is left still leads to its stream.
LEMMA HandlesLeadOn ==
  ASSUME IInv, HandlesLead, Quiet \/ handle_command_create_stream \/ handle_command_delete_stream
  PROVE  HandlesLead'
<1>0. /\ TableOK(stream_handles) /\ NoWire \notin Nat
      /\ DOMAIN active_streams = DOMAIN stream_handles.by_wire
      /\ next_stream_id \in Nat /\ next_stream_id \notin DOMAIN stream_handles.by_wire
  BY ServerAssumption DEF IInv, StreamsInv
<1>1. CASE Quiet
  BY Zenon, <1>1 DEF Quiet, HandlesLead
<1>2. CASE handle_command_create_stream /\ ~StreamsExhausted
  <2>1. /\ active_streams' = Map(active_streams, next_stream_id, "Created")
        /\ stream_handles' = insert(stream_handles, NoState, next_stream_id)
    BY Zenon, <1>2 DEF handle_command_create_stream
  <2>2. DOMAIN active_streams' = DOMAIN active_streams \cup {next_stream_id}
    BY Zenon, <2>1 DEF Map
  <2>3. NoState \in States /\ next_stream_id \in (Nat \cup {NoWire}) \ DOMAIN stream_handles.by_wire
    BY Zenon, <1>0 DEF States
  <2>4. PICK u, h : u = stream_handles' /\ h = InsertedHandle(stream_handles)
    BY Zenon
  <2>5. /\ Handles(u) = Handles(stream_handles) \cup {h}
        /\ h \notin Handles(stream_handles)
        /\ WireOf(u, h) = next_stream_id /\ OthersKept(stream_handles, u, h)
    <3>1. u = insert(stream_handles, NoState, next_stream_id)
      BY Zenon, <2>1, <2>4
    <3> DEFINE v == insert(stream_handles, NoState, next_stream_id)
               g == InsertedHandle(stream_handles)
    <3>2. /\ Handles(v) = Handles(stream_handles) \cup {g}
          /\ g \notin Handles(stream_handles)
          /\ WireOf(v, g) = next_stream_id /\ OthersKept(stream_handles, v, g)
      <4>1. Inserted(stream_handles, v, g, NoState, next_stream_id)
        BY Zenon, <1>0, <2>3, InsertAdds
      <4> HIDE DEF v, g
      <4> QED BY Zenon, <4>1 DEF Inserted
    <3>3. v = u /\ g = h
      BY Zenon, <2>4, <3>1
    <3> HIDE DEF v, g
    <3> QED BY Zenon, <3>2, <3>3
  <2>6. \A g \in Handles(u) : WireOf(u, g) \in DOMAIN active_streams'
    <3> TAKE g \in Handles(u)
    <3>1. CASE g = h
      BY Zenon, <2>2, <2>5, <3>1
    <3>2. CASE g # h
      BY Zenon, <2>2, <2>5, <3>2 DEF OthersKept, HandlesLead
    <3> QED BY Zenon, <3>1, <3>2
  <2> QED BY Zenon, <2>4, <2>6 DEF HandlesLead
<1>3. CASE handle_command_create_stream /\ StreamsExhausted
  BY Zenon, <1>3 DEF handle_command_create_stream, HandlesLead, tables
<1>4. CASE handle_command_delete_stream
  <2>1. PICK stream \in WireIds :
          IF connected /\ stream \in DOMAIN active_streams
          THEN /\ active_streams' = Restrict(active_streams, DOMAIN active_streams \ {stream})
               /\ IF Known(stream_handles, stream)
                  THEN stream_handles' = remove(stream_handles, find(stream_handles, stream))
                  ELSE UNCHANGED <<stream_handles, dead>>
          ELSE UNCHANGED <<outstanding, active_streams, stream_handles, dead>>
    BY Zenon, <1>4 DEF handle_command_delete_stream
  <2>2. CASE ~(connected /\ stream \in DOMAIN active_streams)
    BY Zenon, <2>1, <2>2 DEF HandlesLead
  <2>3. CASE connected /\ stream \in DOMAIN active_streams
    <3>1. PICK u, h : u = stream_handles' /\ h = find(stream_handles, stream)
      BY Zenon
    <3>2. /\ h \in AllHandles /\ Valid(stream_handles, h)
      BY Zenon, <1>0, <2>3, <3>1, IndexedHandles
    <3>3. /\ u = remove(stream_handles, h)
          /\ DOMAIN active_streams' = DOMAIN active_streams \ {stream}
      <4>1. Known(stream_handles, stream)
        BY Zenon, <1>0, <2>3 DEF Known
      <4>2. active_streams' = Restrict(active_streams, DOMAIN active_streams \ {stream})
        BY Zenon, <2>1, <2>3
      <4>3. DOMAIN active_streams' = DOMAIN active_streams \ {stream}
        BY Zenon, <4>2 DEF Restrict
      <4> QED BY Zenon, <2>1, <2>3, <3>1, <4>1, <4>3
    <3>4. Handles(u) = Handles(stream_handles) \ {h} /\ OthersKept(stream_handles, u, h)
      BY Zenon, <1>0, <3>2, <3>3, RemoveTakes
    <3>5. ASSUME NEW g \in Handles(u)
          PROVE  WireOf(u, g) \in DOMAIN active_streams'
      <4>1. g \in Handles(stream_handles) /\ g # h /\ WireOf(u, g) = WireOf(stream_handles, g)
        BY Zenon, <3>4 DEF OthersKept
      <4>2. WireOf(stream_handles, g) \in DOMAIN active_streams
        BY Zenon, <4>1 DEF HandlesLead
      <4>3. WireOf(stream_handles, g) # NoWire
        <5>1. DOMAIN active_streams \subseteq Nat
          BY Zenon, <1>0, IndexedHandles
        <5> QED BY Zenon, <1>0, <4>2, <5>1
      <4>4. find(stream_handles, WireOf(stream_handles, g)) = g
        BY Zenon, <1>0, <4>1, <4>3 DEF TableOK, IndexConsistent
      <4>5. WireOf(stream_handles, g) # stream
        BY Zenon, <3>1, <4>1, <4>4
      <4> QED BY Zenon, <3>3, <4>1, <4>2, <4>5
    <3> QED BY Zenon, <3>1, <3>5 DEF HandlesLead
  <2> QED BY Zenon, <2>2, <2>3
<1> QED BY Zenon, <1>1, <1>2, <1>3, <1>4

\* The types of what is not said are kept.
LEMMA StateTypesKept ==
  ASSUME StateTypes, EncodingInv, Encodes, FlagStep, RequestStep, NumberStep, StreamStep
  PROVE  StateTypes' /\ EncodingInv'
<1>1. failed' \in BOOLEAN /\ connected' \in BOOLEAN
  BY Zenon DEF StateTypes, FlagStep
<1>2. negotiated' \in {"Amf0", "Amf3"}
  BY Zenon DEF StateTypes, FlagStep
<1>3. next_stream_id' \in 1 .. StreamIdMax
  BY ServerAssumption DEF StateTypes, FlagStep
<1>4. next_request' \in 0 .. MaxRequests
  BY ServerAssumption DEF StateTypes, NumberStep
<1>5. /\ peer_amf3' \in BOOLEAN /\ response_encoding' \in {"Amf0", "Amf3"}
      /\ response_encoding' = "Amf3" => peer_amf3'
  BY Zenon DEF Encodes
<1>6. ASSUME NEW q \in DOMAIN outstanding'
      PROVE  outstanding'[q] \in RequestRecords /\ (outstanding'[q].encoding = "Amf3" => peer_amf3')
  <2>1. ASSUME q \in DOMAIN outstanding, outstanding'[q] = outstanding[q]
        PROVE  outstanding'[q] \in RequestRecords
               /\ (outstanding'[q].encoding = "Amf3" => peer_amf3')
    BY Zenon, <2>1 DEF StateTypes, EncodingInv, Encodes
  <2>2. CASE outstanding' = outstanding
    BY Zenon, <2>1, <2>2
  <2>3. CASE \E r \in RequestRecords : /\ outstanding' = Map(outstanding, next_request, r)
                                       /\ r.encoding = response_encoding'
    <3>1. PICK r \in RequestRecords : /\ outstanding' = Map(outstanding, next_request, r)
                                      /\ r.encoding = response_encoding'
      BY Zenon, <2>3
    <3>2. outstanding'[q] = r \/ (q \in DOMAIN outstanding /\ outstanding'[q] = outstanding[q])
      BY Zenon, <3>1 DEF Map
    <3> QED BY Zenon, <1>5, <2>1, <3>1, <3>2
  <2>4. CASE \E D \in SUBSET DOMAIN outstanding : outstanding' = Restrict(outstanding, D)
    <3>1. q \in DOMAIN outstanding /\ outstanding'[q] = outstanding[q]
      BY Zenon, <2>4 DEF Restrict
    <3> QED BY Zenon, <2>1, <3>1
  <2> QED BY Zenon, <2>2, <2>3, <2>4 DEF RequestStep
<1>7. ASSUME NEW s \in DOMAIN active_streams'
      PROVE  active_streams'[s] \in StreamStates
  <2>1. \A t \in DOMAIN active_streams : active_streams[t] \in StreamStates
    BY Zenon DEF StateTypes
  <2>2. CASE Ends
    BY Zenon, <2>1, <2>2 DEF Ends, Restrict, StreamStates
  <2>3. CASE MovesOn
    BY Zenon, <2>1, <2>3 DEF MovesOn, StreamStates
  <2>4. CASE Adds
    BY Zenon, <2>1, <2>4 DEF Adds, Map, StreamStates
  <2>5. CASE active_streams' = active_streams
    BY Zenon, <2>1, <2>5
  <2> QED BY Zenon, <2>2, <2>3, <2>4, <2>5 DEF StreamStep
<1> QED BY Zenon, <1>1, <1>2, <1>3, <1>4, <1>5, <1>6, <1>7 DEF StateTypes, EncodingInv

\* The preamble, as new holds it back.
LEMMA PreambleIs ==
  /\ Preamble \in Seq(Outputs)
  /\ \A i \in DOMAIN Preamble : Preamble[i].what \in PreambleKinds /\ ~Preamble[i].amf3
<1> DEFINE P == {o \in Outputs : o.what \in PreambleKinds /\ ~o.amf3}
<1>1. ASSUME NEW what \in PreambleKinds, NEW csid \in {2, 6}
      PROVE  Packet(what, csid, 0, FALSE) \in P
  <2>1. PICK z \in Outputs : z = NoOutput
    BY Zenon, NothingSaid
  <2>2. PICK o : o = [z EXCEPT !.what = what, !.csid = csid, !.msid = 0, !.amf3 = FALSE]
    BY Zenon
  <2>3. o = Packet(what, csid, 0, FALSE)
    BY Zenon, <2>1, <2>2 DEF Packet
  <2>4. 0 \in WireIds /\ csid \in 0 .. 6 /\ what \in PreambleKinds \cup Answers \cup PlainKinds
    BY ServerAssumption DEF WireIds
  <2>5. o \in Outputs /\ o.what = what /\ ~o.amf3
    BY Zenon, <2>2, <2>4 DEF Outputs
  <2> QED BY Zenon, <2>3, <2>5
<1>2. /\ "setChunkSize" \in PreambleKinds /\ "windowAck" \in PreambleKinds
      /\ "preambleBegin" \in PreambleKinds /\ "peerBandwidth" \in PreambleKinds
      /\ "onBWDone" \in PreambleKinds /\ 2 \in {2, 6} /\ 6 \in {2, 6}
  BY Zenon DEF PreambleKinds
<1>3. PICK a \in P, b \in P, c \in P, d \in P, e \in P :
        /\ a = Control("setChunkSize", 0) /\ b = Control("windowAck", 0)
        /\ c = Control("preambleBegin", 0) /\ d = Control("peerBandwidth", 0)
        /\ e = CommandPacket("onBWDone", 0, FALSE)
  BY Zenon, <1>1, <1>2 DEF Control, CommandPacket
<1>4. PICK outs : outs = IF SendOnBwDone THEN Append(<<a, b, c, d>>, e) ELSE <<a, b, c, d>>
  BY Zenon
<1>5. Preamble = [i \in DOMAIN outs |-> [outs[i] EXCEPT !.full = TRUE,
                                                       !.ahead = IF i <= 4 THEN i - 1 ELSE 0]]
  BY Zenon, <1>3, <1>4 DEF Preamble
<1>6. \A o \in P : o \in Outputs /\ o.what \in PreambleKinds /\ ~o.amf3
  BY Zenon
<1> HIDE DEF P
<1>7. outs \in Seq(P)
  <2>1. <<a, b, c, d>> \in Seq(P)
    OBVIOUS
  <2>2. Append(<<a, b, c, d>>, e) \in Seq(P)
    BY <2>1
  <2> QED BY Zenon, <1>4, <2>1, <2>2
<1>8. Len(outs) \in Nat /\ DOMAIN outs = 1 .. Len(outs) /\ \A i \in 1 .. Len(outs) : outs[i] \in P
  BY <1>7
<1>9. ASSUME NEW i \in 1 .. Len(outs)
      PROVE  Preamble[i] \in Outputs /\ Preamble[i].what \in PreambleKinds /\ ~Preamble[i].amf3
  <2>1. PICK n : n = IF i <= 4 THEN i - 1 ELSE 0
    BY Zenon
  <2>2. n \in Nat
    BY <1>8, <2>1
  <2>3. PICK o \in Outputs : o = outs[i] /\ o.what \in PreambleKinds /\ ~o.amf3
    BY Zenon, <1>6, <1>8
  <2>4. Preamble[i] = [o EXCEPT !.full = TRUE, !.ahead = n]
    BY Zenon, <1>5, <1>8, <2>1, <2>3
  <2>5. Same(Preamble[i], o)
    BY Zenon, <2>2, <2>4 DEF Same, Outputs
  <2> QED BY Zenon, <2>3, <2>5 DEF Same
<1>10. DOMAIN Preamble = 1 .. Len(outs)
  BY Zenon, <1>5, <1>8
<1>11. Preamble \in [1 .. Len(outs) -> Outputs]
  <2>1. Preamble = [i \in 1 .. Len(outs) |-> Preamble[i]]
    BY Zenon, <1>5, <1>8
  <2> HIDE DEF Preamble
  <2> QED BY Zenon, <1>9, <2>1
<1> QED BY Zenon, <1>8, <1>9, <1>10, <1>11, FunctionIsSequence

\* A session starts silent, with the preamble held back.
LEMMA SessionStarts == Init => SessionInv
<1> SUFFICES ASSUME Init PROVE SessionInv
  BY Zenon
<1>1. IInv
  BY Zenon, InitEstablishes
<1>2. DOMAIN << >> = {} /\ \A S : << >> \in Seq(S)
  OBVIOUS
<1>3. /\ DOMAIN pending = {} /\ DOMAIN outstanding = {} /\ DOMAIN active_streams = {}
      /\ pending \in Seq(Outputs)
  BY Zenon, <1>2 DEF Init
<1>4. /\ written \in Outputs /\ written.what = "none" /\ ~written.amf3
  BY Zenon, NothingSaid DEF Init
<1>5. OutTypes
  BY Zenon, <1>3, <1>4, PreambleIs DEF Init, OutTypes
<1>6. StateTypes
  <2>1. 0 \in 0 .. MaxRequests /\ 1 \in 1 .. StreamIdMax
    BY ServerAssumption
  <2>2. FALSE \in BOOLEAN /\ "Amf0" \in {"Amf0", "Amf3"}
    BY Zenon
  <2> QED BY Zenon, <1>3, <2>1, <2>2 DEF Init, StateTypes
<1>7. SaidInv
  <2>1. written.what \notin Answers
    BY Zenon, <1>4 DEF Answers
  <2>2. \A i \in DOMAIN control : control[i].what \in PreambleKinds /\ ~control[i].amf3
    BY Zenon, PreambleIs DEF Init
  <2> QED BY Zenon, <1>3, <1>4, <2>1, <2>2 DEF SaidInv, ConnectAnswerAfterPreamble, Amf3OnlyIfUsed
<1>8. EncodingInv
  BY Zenon, <1>3 DEF Init, EncodingInv
<1>9. HandlesLead
  BY Zenon, NewTableOK DEF Init, HandlesLead
<1> QED BY Zenon, <1>1, <1>5, <1>6, <1>7, <1>8, <1>9 DEF SessionInv

\* What holds of every step of a session.
LEMMA SessionStep ==
  ASSUME SessionInv, Next
  PROVE  Encodes /\ Says /\ StreamStep
<1>1. Encodes
  <2>1. \A r \in DOMAIN outstanding : outstanding[r].encoding \in {"Amf0", "Amf3"}
    BY Zenon DEF SessionInv, StateTypes, RequestRecords
  <2> QED BY Zenon, <2>1, StepEncodes DEF SessionInv, StateTypes
<1>2. Says
  <2>1. \A r \in DOMAIN outstanding : outstanding[r].stream \in WireIds
    BY Zenon DEF SessionInv, StateTypes, RequestRecords
  <2>2. OutTypes /\ IInv /\ HandlesLead /\ next_stream_id \in 1 .. StreamIdMax
    BY Zenon DEF SessionInv, StateTypes
  <2> QED BY Zenon, <1>1, <2>1, <2>2, ReceiveSays, DecideSays, SendSays DEF Next
<1>3. StreamStep
  BY Zenon, StreamSteps DEF SessionInv, StateTypes
<1> QED BY Zenon, <1>1, <1>2, <1>3

\* Every step keeps the invariant.
LEMMA SessionKept == SessionInv /\ [Next]_server => SessionInv'
<1> SUFFICES ASSUME SessionInv, [Next]_server PROVE SessionInv'
  BY Zenon
<1>1. IInv'
  BY Zenon, NextPreserves DEF SessionInv
<1>2. CASE UNCHANGED server
  BY SMTT(20), <1>1, <1>2 DEF server, requests, amf, tables, SessionInv, OutTypes, StateTypes, SaidInv,
     ConnectAnswerAfterPreamble, Amf3OnlyIfUsed, EncodingInv, HandlesLead
<1>3. CASE Next
  <2>1. Encodes /\ Says /\ StreamStep
    BY Zenon, <1>3, SessionStep
  <2>2. OutTypes' /\ SaidInv'
    BY Zenon, <2>1, SaysPreserves DEF SessionInv, Encodes
  <2>3. StateTypes' /\ EncodingInv'
    BY Zenon, <1>3, <2>1, RequestSteps, FlagSteps, StateTypesKept DEF SessionInv
  <2>4. Quiet \/ handle_command_create_stream \/ handle_command_delete_stream
    BY Zenon, <1>3, ReceiveQuiet, DecideQuiet, SendQuiet DEF Next
  <2>5. HandlesLead'
    BY Zenon, <2>4, HandlesLeadOn DEF SessionInv
  <2> QED BY Zenon, <1>1, <2>2, <2>3, <2>5 DEF SessionInv
<1> QED BY Zenon, <1>2, <1>3

\* The invariant of a session holds in every state.
THEOREM SessionInvHolds == Spec => []SessionInv
BY SessionStarts, SessionKept, PTL DEF Spec

\* A session stays within its types: every output is of a known kind and about a wire
\* id that can exist, and the wire ids never reach their limit.
THEOREM TypesHold == Spec => []ServerTypeOK
<1>1. SessionInv => ServerTypeOK
  BY Zenon DEF SessionInv, OutTypes, StateTypes, ServerTypeOK, RequestRecords, StreamStates
<1> QED BY <1>1, SessionInvHolds, PTL

\* accept_request and reject_request release the preamble that new held back before the
\* answer to a connect request, in whatever order several such requests are decided and
\* however the outputs are drained in between.
THEOREM PreambleAlwaysFirst == Spec => []ConnectAnswerAfterPreamble
<1>1. SessionInv => ConnectAnswerAfterPreamble
  BY Zenon DEF SessionInv, SaidInv
<1> QED BY <1>1, SessionInvHolds, PTL

\* Nothing but the data of the application is framed for AMF3 unless the peer has used
\* AMF3 itself, whatever was negotiated and however late a request is decided.
THEOREM Amf3NeverUnprompted == Spec => []Amf3OnlyIfUsed
<1>1. SessionInv => Amf3OnlyIfUsed
  BY Zenon DEF SessionInv, SaidInv
<1> QED BY <1>1, SessionInvHolds, PTL

-----------------------------------------------------------------------------
\* The end of a stream is told once: alone, or behind an acknowledgement.
LEMMA FinishedOnce ==
  ASSUME control \in Seq(Outputs), NEW s \in WireIds,
         NEW what \in {"publishFinished", "playFinished"}, Respond(<<Event(what, s)>>)
  PROVE  Cardinality({i \in {0} \cup DOMAIN pending' :
                        Said(i)'.msid = s /\ Said(i)'.what = what}) = 1
<1> DEFINE R == {i \in {0} \cup DOMAIN pending' :
                   Said(i)'.msid = s /\ Said(i)'.what = what}
<1>1. SUFFICES \E x : R = {x}
  BY Zenon, FS_Singleton
<1>2. PICK e \in Outputs : e = Event(what, s) /\ e.what = what /\ e.msid = s
  <2>1. PICK z \in Outputs : z = NoOutput
    BY Zenon, NothingSaid
  <2>2. PICK e : e = [z EXCEPT !.what = what, !.msid = s]
    BY Zenon
  <2>3. e = Event(what, s)
    BY Zenon, <2>1, <2>2 DEF Event
  <2>4. what \in PreambleKinds \cup Answers \cup PlainKinds
    BY Zenon DEF PlainKinds
  <2>5. e \in Outputs /\ e.what = what /\ e.msid = s
    BY Zenon, <2>2, <2>4 DEF Outputs
  <2> QED BY Zenon, <2>3, <2>5
<1>3. PICK a \in Outputs : a = Control("acknowledgement", 0) /\ a.what = "acknowledgement"
  <2>1. PICK z \in Outputs : z = NoOutput
    BY Zenon, NothingSaid
  <2>2. PICK a : a = [z EXCEPT !.what = "acknowledgement", !.csid = 2, !.msid = 0, !.amf3 = FALSE]
    BY Zenon
  <2>3. a = Control("acknowledgement", 0)
    BY Zenon, <2>1, <2>2 DEF Control, Packet
  <2>4. "acknowledgement" \in PreambleKinds \cup Answers \cup PlainKinds
    BY Zenon DEF PlainKinds
  <2>5. 0 \in WireIds /\ 2 \in 0 .. 6
    BY ServerAssumption DEF WireIds
  <2>6. a \in Outputs /\ a.what = "acknowledgement"
    BY Zenon, <2>2, <2>4, <2>5 DEF Outputs
  <2> QED BY Zenon, <2>3, <2>6
<1>4. what # "acknowledgement"
  BY Zenon
<1>5. PICK all, made : /\ all = <<a>> \o <<e>> \/ all = <<e>>
                       /\ made = Serialized(all, control)
                       /\ written' = IF made = << >> THEN NoOutput ELSE Head(made)
                       /\ pending' = IF made = << >> THEN << >> ELSE After(Head(made), Tail(made))
  <2>1. PICK ack \in BOOLEAN :
          LET all  == IF ack THEN <<Control("acknowledgement", 0)>> \o <<Event(what, s)>>
                      ELSE <<Event(what, s)>>
              made == Serialized(all, control)
          IN /\ written' = IF made = << >> THEN NoOutput ELSE Head(made)
             /\ pending' = IF made = << >> THEN << >> ELSE After(Head(made), Tail(made))
    BY Zenon DEF Respond
  <2>2. PICK all : all = IF ack THEN <<a>> \o <<e>> ELSE <<e>>
    BY Zenon
  <2>3. PICK made : made = Serialized(all, control)
    BY Zenon
  <2>4. /\ written' = IF made = << >> THEN NoOutput ELSE Head(made)
        /\ pending' = IF made = << >> THEN << >> ELSE After(Head(made), Tail(made))
    BY Zenon, <1>2, <1>3, <2>1, <2>2, <2>3
  <2>5. all = <<a>> \o <<e>> \/ all = <<e>>
    BY Zenon, <2>2
  <2> QED BY Zenon, <2>3, <2>4, <2>5
<1>6. ASSUME all \in Seq(Outputs), all # << >>
      PROVE  /\ made \in Seq(Outputs) /\ Len(made) = Len(all) /\ made # << >>
             /\ \A i \in 1 .. Len(all) : Same(made[i], all[i])
             /\ written' = made[1]
             /\ pending' \in Seq(Outputs) /\ Len(pending') = Len(all) - 1
             /\ \A i \in 1 .. Len(all) - 1 : Same(pending'[i], made[i + 1])
  <2>1. /\ made \in Seq(Outputs) /\ Len(made) = Len(all)
        /\ \A i \in 1 .. Len(all) : Same(made[i], all[i])
    BY Zenon, <1>5, <1>6, SerializedIn, ClosedSets
  <2>2. made # << >> /\ Len(all) \in Nat \ {0}
    BY <1>6, <2>1
  <2>3. PICK h, t : h = Head(made) /\ t = Tail(made) /\ written' = h /\ pending' = After(h, t)
    BY Zenon, <1>5, <2>2
  <2>4. /\ h = made[1] /\ h \in Outputs /\ t \in Seq(Outputs) /\ Len(t) = Len(all) - 1
        /\ \A i \in 1 .. Len(all) - 1 : t[i] = made[i + 1]
    BY <2>1, <2>2, <2>3
  <2>5. /\ pending' \in Seq(Outputs) /\ Len(pending') = Len(t)
        /\ \A i \in 1 .. Len(t) : Same(pending'[i], t[i])
    <3>1. Closed(Outputs) /\ t \in Seq(Outputs) /\ h \in Outputs
      BY Zenon, <2>4, ClosedSets
    <3>2. PICK left : left = After(h, t)
      BY Zenon
    <3>3. /\ left \in Seq(Outputs) /\ Len(left) = Len(t)
          /\ \A i \in 1 .. Len(t) : Same(left[i], t[i])
      BY Zenon, <3>1, <3>2, AfterIn
    <3> QED BY Zenon, <2>3, <3>2, <3>3
  <2>6. \A i \in 1 .. Len(all) - 1 : Same(pending'[i], made[i + 1])
    BY Zenon, <2>4, <2>5
  <2> QED BY Zenon, <2>1, <2>2, <2>3, <2>4, <2>5, <2>6
<1>7. CASE all = <<e>>
  <2>1. all \in Seq(Outputs) /\ all # << >> /\ Len(all) = 1 /\ all[1] = e /\ 1 \in 1 .. 1
    BY <1>7
  <2>2. written'.what = what /\ written'.msid = s
    BY ZenonT(40), <1>2, <1>6, <2>1 DEF Same
  <2>3. DOMAIN pending' = {}
    BY <1>6, <2>1
  <2>4. R = {0}
    BY Zenon, <2>2, <2>3 DEF Said
  <2> QED BY Zenon, <2>4
<1>8. CASE all = <<a>> \o <<e>>
  <2>1. /\ all \in Seq(Outputs) /\ all # << >> /\ Len(all) = 2 /\ all[1] = a /\ all[2] = e
        /\ 1 \in 1 .. 2 /\ 2 \in 1 .. 2 /\ 1 \in 1 .. 2 - 1 /\ 1 + 1 = 2
    BY <1>8
  <2>2. written'.what # what
    BY ZenonT(40), <1>3, <1>4, <1>6, <2>1 DEF Same
  <2>3. DOMAIN pending' = {1}
    BY <1>6, <2>1
  <2>4. Same(pending'[1], made[2]) /\ Same(made[2], e)
    BY Zenon, <1>6, <2>1
  <2>5. pending'[1].what = what /\ pending'[1].msid = s
    BY Zenon, <1>2, <2>4 DEF Same
  <2>6. R = {1}
    <3>1. 1 # 0
      OBVIOUS
    <3> QED BY Zenon, <2>2, <2>3, <2>5, <3>1 DEF Said
  <2> QED BY Zenon, <2>6
<1> QED BY Zenon, <1>5, <1>7, <1>8

\* closeStream and deleteStream report the end of the stream they end, exactly once, and
\* no other step ends a stream that is being published or played.
THEOREM EndsAlwaysReported == Spec => EndsWithEvent
<1> DEFINE Told(s) ==
      Cardinality({i \in {0} \cup DOMAIN pending' :
        /\ Said(i)'.msid = s
        /\ Said(i)'.what = IF active_streams[s] = "Publishing" THEN "publishFinished"
                                                               ELSE "playFinished"}) = 1
<1>1. ASSUME SessionInv, [Next]_server, NEW s \in DOMAIN active_streams,
             active_streams[s] \in {"Publishing", "Playing"},
             s \notin DOMAIN active_streams' \/ active_streams'[s] = "Created"
      PROVE  Told(s)
  <2>1. active_streams' # active_streams
    BY Zenon, <1>1
  <2>2. Next
    BY Zenon, <1>1, <2>1 DEF server, tables
  <2>3. StreamStep
    BY Zenon, <1>1, <2>2, SessionStep
  <2>4. ~MovesOn
    BY Zenon, <1>1 DEF MovesOn
  <2>5. ~Adds
    <3>1. next_stream_id \notin DOMAIN active_streams
      BY <1>1 DEF SessionInv, IInv, StreamsInv
    <3> QED BY Zenon, <1>1, <3>1 DEF Adds, Map
  <2>6. PICK t \in DOMAIN active_streams :
          /\ t \in WireIds /\ Respond(FinishedEvent(t))
          /\ \/ active_streams' = [active_streams EXCEPT ![t] = "Created"]
             \/ active_streams' = Restrict(active_streams, DOMAIN active_streams \ {t})
    BY Zenon, <2>1, <2>3, <2>4, <2>5 DEF StreamStep, Ends
  <2>7. s = t
    BY Zenon, <1>1, <2>6 DEF Restrict
  <2>8. control \in Seq(Outputs)
    BY Zenon, <1>1 DEF SessionInv, OutTypes
  <2>9. CASE active_streams[s] = "Publishing"
    <3>1. FinishedEvent(s) = <<Event("publishFinished", s)>>
      BY Zenon, <2>9 DEF FinishedEvent
    <3>2. "publishFinished" \in {"publishFinished", "playFinished"}
      BY Zenon
    <3>3. Cardinality({i \in {0} \cup DOMAIN pending' :
                         Said(i)'.msid = s /\ Said(i)'.what = "publishFinished"}) = 1
      BY Zenon, <2>6, <2>7, <2>8, <3>1, <3>2, FinishedOnce
    <3> QED BY Zenon, <2>9, <3>3
  <2>10. CASE active_streams[s] = "Playing"
    <3>1. active_streams[s] # "Publishing"
      BY Zenon, <2>10
    <3>2. FinishedEvent(s) = <<Event("playFinished", s)>>
      BY Zenon, <2>10, <3>1 DEF FinishedEvent
    <3>3. "playFinished" \in {"publishFinished", "playFinished"}
      BY Zenon
    <3>4. Cardinality({i \in {0} \cup DOMAIN pending' :
                         Said(i)'.msid = s /\ Said(i)'.what = "playFinished"}) = 1
      BY Zenon, <2>6, <2>7, <2>8, <3>2, <3>3, FinishedOnce
    <3> QED BY Zenon, <3>1, <3>4
  <2> QED BY Zenon, <1>1, <2>9, <2>10
<1>2. SessionInv /\ [Next]_server =>
        [\A s \in DOMAIN active_streams :
           /\ active_streams[s] \in {"Publishing", "Playing"}
           /\ s \notin DOMAIN active_streams' \/ active_streams'[s] = "Created"
           => Told(s)]_server
  BY Zenon, <1>1
<1> QED BY <1>2, SessionInvHolds, PTL DEF Spec, EndsWithEvent
=============================================================================
