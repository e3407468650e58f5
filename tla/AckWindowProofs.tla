-------------------------- MODULE AckWindowProofs --------------------------
(***************************************************************************)
(* Acknowledgements are cumulative totals, in order, and a window of bytes *)
(* never stays unacknowledged: for every word size, every window and every *)
(* way the bytes arrive.                                                   *)
(***************************************************************************)
EXTENDS AckWindow, TLAPS

Words == 0 .. Word - 1

\* How far a total is ahead of what the peer has seen acknowledged.
Ahead(x) == Since(x, seen)

-----------------------------------------------------------------------------
(* The inductive invariant.                                                *)

AckTypes ==
  /\ bytes_received \in Words /\ bytes_received_since_last_ack \in Words
  /\ acked \in Words /\ sent \in Words /\ seen \in Words
  /\ peer_window_ack_size \in Windows \cup {NoWindow}
  /\ more \in BOOLEAN /\ failed \in BOOLEAN
  /\ replies \in Seq(Words)
  /\ pending = << >> \/ pending = <<acked>>
  /\ wire \in Seq([left : Nat \ {0}, window : Windows \cup {NotAnnounced}])

\* m tells how far the peer was ahead after each message on the wire.
Marks(m) ==
  /\ m \in [0 .. Len(wire) -> 0 .. MaxAhead]
  /\ m[0] = Ahead(bytes_received)
  /\ m[Len(wire)] = Ahead(sent)
  /\ \A i \in 1 .. Len(wire) : m[i] = m[i - 1] + wire[i].left
  /\ \A i, j \in 0 .. Len(wire) : i <= j => m[i] <= m[j]

\* On the circle of words, from seen: the replies on their way, the last
\* acknowledgement, the bytes received, the messages on the wire, the bytes sent.
Circle ==
  /\ \A i \in DOMAIN replies : /\ Ahead(replies[i]) <= Ahead(acked)
                               /\ \A j \in 1 .. i : Ahead(replies[j]) <= Ahead(replies[i])
  /\ Ahead(acked) <= Ahead(bytes_received)
  /\ Ahead(bytes_received) <= Ahead(sent)
  /\ Ahead(sent) <= MaxAhead
  /\ \E m \in [0 .. Len(wire) -> 0 .. MaxAhead] : Marks(m)

\* The counter covers the bytes since the last acknowledgement, which it exceeds
\* by the remainder it keeps; it is below the window in force, but for a window
\* that a message has just announced.
Counter ==
  /\ Ahead(bytes_received) - Ahead(acked) <= bytes_received_since_last_ack
  /\ \E w \in Windows \cup {SelfWindow} : bytes_received_since_last_ack < w
  /\ pending # << >> => more
  /\ ~failed /\ ~more => bytes_received_since_last_ack < effective_ack_size

AckInv == AckTypes /\ Circle /\ Counter

-----------------------------------------------------------------------------
(* Arithmetic on words.                                                    *)

\* The bounds leave room for every window on the circle of words.
LEMMA WordFacts ==
  /\ Word \in Nat \ {0} /\ MaxAhead \in Nat /\ MaxAhead < Word
  /\ \A w \in Windows \cup {SelfWindow} : w \in Nat /\ w + MaxAhead < Word
BY AckAssumption

\* The distance between two words.
LEMMA SinceValue ==
  ASSUME NEW a \in Words, NEW b \in Words
  PROVE  /\ Since(a, b) \in Words
         /\ a >= b => Since(a, b) = a - b
         /\ a < b => Since(a, b) = (a - b) + Word
<1>1. Word \in Nat \ {0} /\ a \in Int /\ b \in Int /\ a - b < Word /\ -Word <= a - b
  BY WordFacts DEF Words
<1>2. PICK x \in Int : x = a - b
  BY <1>1
<1>3. CASE x >= 0
  <2>1. x % Word = x
    BY <1>1, <1>2, <1>3
  <2> QED BY <2>1, <1>1, <1>2, <1>3 DEF Since, Words
<1>4. CASE x < 0
  <2>1. x % Word = x + Word
    BY <1>1, <1>2, <1>4
  <2> QED BY <2>1, <1>1, <1>2, <1>4 DEF Since, Words
<1> QED BY <1>3, <1>4

\* A total that grows by less than what is left of the circle gets as much
\* further away.
LEMMA SinceAdd ==
  ASSUME NEW a \in Words, NEW b \in Words, NEW n \in Nat, Since(a, b) + n < Word
  PROVE  (a + n) % Word \in Words /\ Since((a + n) % Word, b) = Since(a, b) + n
<1>1. Word \in Nat \ {0} /\ a \in Nat /\ b \in Nat /\ a < Word /\ b < Word
  BY WordFacts DEF Words
<1>2. /\ Since(a, b) \in Nat
      /\ a >= b => Since(a, b) = a - b
      /\ a < b => Since(a, b) = (a - b) + Word
  BY SinceValue DEF Words
<1>3. PICK x \in Nat : x = a + n
  BY <1>1
<1>4. CASE x < Word
  <2>1. x % Word = x /\ x \in Words
    BY <1>1, <1>3, <1>4 DEF Words
  <2>2. /\ x >= b => Since(x, b) = x - b
        /\ x < b => Since(x, b) = (x - b) + Word
    BY Zenon, <2>1, SinceValue
  <2>3. Since(x, b) = Since(a, b) + n
    BY <2>2, <1>1, <1>2, <1>3
  <2> QED BY Zenon, <2>1, <2>3, <1>3
<1>5. CASE x >= Word
  <2>1. x < 2 * Word
    BY <1>1, <1>2, <1>3
  <2>2. x % Word = x - Word
    BY <2>1, <1>1, <1>5
  <2>3. PICK y \in Words : y = x - Word
    BY <2>1, <1>1, <1>5 DEF Words
  <2>4. /\ y >= b => Since(y, b) = y - b
        /\ y < b => Since(y, b) = (y - b) + Word
    BY Zenon, SinceValue
  <2>5. Since(y, b) = Since(a, b) + n
    BY <2>3, <2>4, <1>1, <1>2, <1>3, <1>5
  <2> QED BY Zenon, <2>2, <2>3, <2>5, <1>3
<1> QED BY <1>3, <1>4, <1>5, <1>1

\* Distances from a later point of the circle.
LEMMA SinceShift ==
  ASSUME NEW a \in Words, NEW b \in Words, NEW c \in Words, Since(c, b) <= Since(a, b)
  PROVE  Since(a, c) = Since(a, b) - Since(c, b)
<1>1. Word \in Nat \ {0} /\ a \in Nat /\ b \in Nat /\ c \in Nat
      /\ a < Word /\ b < Word /\ c < Word
  BY WordFacts DEF Words
<1>2. /\ a >= b => Since(a, b) = a - b
      /\ a < b => Since(a, b) = (a - b) + Word
      /\ c >= b => Since(c, b) = c - b
      /\ c < b => Since(c, b) = (c - b) + Word
      /\ a >= c => Since(a, c) = a - c
      /\ a < c => Since(a, c) = (a - c) + Word
  BY Zenon, SinceValue
<1> QED BY <1>1, <1>2

-----------------------------------------------------------------------------
(* Bytes are counted.                                                      *)

\* The window in force is one that was announced, or the default.
LEMMA EffectiveWindow ==
  ASSUME AckTypes
  PROVE  effective_ack_size \in Windows \cup {SelfWindow} /\ effective_ack_size > 0
BY AckAssumption DEF AckTypes, effective_ack_size, NoWindow

\* The distances are words.
LEMMA Distances ==
  ASSUME AckTypes
  PROVE  /\ Ahead(bytes_received) \in Words /\ Ahead(acked) \in Words /\ Ahead(sent) \in Words
         /\ \A i \in DOMAIN replies : replies[i] \in Words /\ Ahead(replies[i]) \in Words
<1>1. \A i \in DOMAIN replies : replies[i] \in Words
  BY DEF AckTypes
<1> QED BY Zenon, <1>1, SinceValue DEF AckTypes, Ahead

\* n bytes move the total by n.  An acknowledgement carries the new total and
\* leaves less than a window on the counter.
LEMMA CountFacts ==
  ASSUME AckTypes, Counter, NEW n \in Nat, Ahead(bytes_received) + n <= MaxAhead,
         Ahead(acked) <= Ahead(bytes_received), CountBytes(n)
  PROVE  /\ bytes_received' \in Words /\ acked' \in Words
         /\ bytes_received_since_last_ack' \in Words
         /\ Ahead(bytes_received') = Ahead(bytes_received) + n
         /\ acked' = acked \/ acked' = bytes_received'
         /\ Ahead(bytes_received') - Ahead(acked') <= bytes_received_since_last_ack'
         /\ bytes_received_since_last_ack' < effective_ack_size
         /\ Acknowledgement(n) = << >> \/ Acknowledgement(n) = <<acked'>>
<1> DEFINE eff == effective_ack_size
           c == bytes_received_since_last_ack
           c1 == bytes_received_since_last_ack'
<1>1. /\ eff \in Windows \cup {SelfWindow} /\ eff > 0 /\ eff \in Nat /\ eff < Word
      /\ Word \in Nat \ {0} /\ MaxAhead \in Nat /\ MaxAhead < Word
  BY EffectiveWindow, WordFacts
<1>2. /\ bytes_received \in Words /\ acked \in Words /\ seen \in Words /\ c \in Nat
      /\ Ahead(bytes_received) \in Nat /\ Ahead(acked) \in Nat
      /\ Ahead(bytes_received) - Ahead(acked) <= c
  BY Distances DEF AckTypes, Words, Counter
<1>3. /\ bytes_received' \in Words
      /\ Ahead(bytes_received') = Ahead(bytes_received) + n
  <2>1. Since(bytes_received, seen) + n < Word
    BY <1>1, <1>2 DEF Ahead
  <2> QED BY ZenonT(40), <2>1, <1>2, SinceAdd DEF CountBytes, Total, Ahead
<1>4. PICK w \in Windows \cup {SelfWindow} : c < w
  BY Zenon DEF Counter
<1>5. SinceAck(n) = c + n /\ c + n \in Nat /\ c + n < Word
  <2>1. w \in Nat /\ w + MaxAhead < Word
    BY Zenon, WordFacts
  <2>2. c + n \in Nat /\ c + n < Word
    BY <2>1, <1>1, <1>2, <1>4
  <2>3. PICK x \in Nat : x = c + n
    BY Zenon, <2>2
  <2>4. x % Word = x
    BY <2>2, <2>3, <1>1
  <2> QED BY Zenon, <2>2, <2>3, <2>4 DEF SinceAck
<1>6. CASE AckDue(n)
  <2>1. /\ c1 = SinceAck(n) % eff /\ acked' = bytes_received'
        /\ Acknowledgement(n) = <<acked'>>
    BY Zenon, <1>6 DEF CountBytes, Acknowledgement
  <2>2. c1 \in Nat /\ c1 < eff
    BY <2>1, <1>1, <1>5
  <2>3. Ahead(bytes_received') - Ahead(acked') = 0
    BY <2>1, <1>2, <1>3
  <2> QED BY <2>1, <2>2, <2>3, <1>1, <1>3 DEF Words
<1>7. CASE ~AckDue(n)
  <2>1. c1 = c + n /\ acked' = acked /\ Acknowledgement(n) = << >>
    BY Zenon, <1>5, <1>7 DEF CountBytes, Acknowledgement
  <2>2. c1 < eff
    BY <2>1, <1>1, <1>5, <1>7 DEF AckDue
  <2>3. c1 \in Words
    BY <2>1, <1>1, <1>5 DEF Words
  <2>4. Ahead(bytes_received') - Ahead(acked') <= c1
    BY <2>1, <1>2, <1>3
  <2> QED BY Zenon, <2>1, <2>2, <2>3, <2>4, <1>2, <1>3
<1> QED BY Zenon, <1>6, <1>7

-----------------------------------------------------------------------------
(* The actions.                                                            *)

\* The order on the circle without the messages on the wire.
Ordered ==
  /\ \A i \in DOMAIN replies : /\ Ahead(replies[i]) <= Ahead(acked)
                               /\ \A j \in 1 .. i : Ahead(replies[j]) <= Ahead(replies[i])
  /\ Ahead(acked) <= Ahead(bytes_received)
  /\ Ahead(bytes_received) <= Ahead(sent)
  /\ Ahead(sent) <= MaxAhead

\* The messages on the wire are well typed; the first ends before the bytes sent.
LEMMA WireFacts ==
  ASSUME AckInv
  PROVE  /\ Len(wire) \in Nat /\ DOMAIN wire = 1 .. Len(wire)
         /\ \A i \in 1 .. Len(wire) : /\ wire[i].left \in Nat \ {0}
                                      /\ wire[i].window \in Windows \cup {NotAnnounced}
                                      /\ wire[i] = [left |-> wire[i].left,
                                                    window |-> wire[i].window]
         /\ wire # << >> => /\ 1 \in 1 .. Len(wire) /\ Head(wire) = wire[1]
                            /\ Ahead(bytes_received) + wire[1].left <= Ahead(sent)
<1>1. wire \in Seq([left : Nat \ {0}, window : Windows \cup {NotAnnounced}])
  BY Zenon DEF AckInv, AckTypes
<1>2. /\ Len(wire) \in Nat /\ DOMAIN wire = 1 .. Len(wire)
      /\ \A i \in 1 .. Len(wire) :
           wire[i] \in [left : Nat \ {0}, window : Windows \cup {NotAnnounced}]
  <2> DEFINE R == [left : Nat \ {0}, window : Windows \cup {NotAnnounced}]
  <2>1. wire \in Seq(R)
    BY Zenon, <1>1
  <2> HIDE DEF R
  <2>2. /\ Len(wire) \in Nat /\ DOMAIN wire = 1 .. Len(wire)
        /\ \A i \in 1 .. Len(wire) : wire[i] \in R
    BY <2>1
  <2> QED BY Zenon, <2>2 DEF R
<1>3. PICK m \in [0 .. Len(wire) -> 0 .. MaxAhead] : Marks(m)
  BY Zenon DEF AckInv, Circle
<1>4. ASSUME wire # << >>
      PROVE  /\ 1 \in 1 .. Len(wire) /\ Head(wire) = wire[1]
             /\ Ahead(bytes_received) + wire[1].left <= Ahead(sent)
  <2>1. 1 \in 1 .. Len(wire) /\ Head(wire) = wire[1]
    BY <1>1, <1>4
  <2>2. m[1] = m[1 - 1] + wire[1].left /\ m[1] <= m[Len(wire)]
    BY <2>1, <1>2, <1>3 DEF Marks
  <2> QED BY <2>1, <2>2, <1>3 DEF Marks
<1> QED BY Zenon, <1>2, <1>4

\* Bytes that were sent move the receiver on.
LEMMA CountOrders ==
  ASSUME AckInv, NEW n \in Nat, Ahead(bytes_received) + n <= Ahead(sent), CountBytes(n),
         replies' = replies, sent' = sent, seen' = seen
  PROVE  /\ bytes_received' \in Words /\ acked' \in Words
         /\ bytes_received_since_last_ack' \in Words
         /\ Ahead(bytes_received)' = Ahead(bytes_received) + n /\ Ahead(sent)' = Ahead(sent)
         /\ Ordered'
         /\ (Ahead(bytes_received) - Ahead(acked) <= bytes_received_since_last_ack)'
         /\ \E w \in Windows \cup {SelfWindow} : bytes_received_since_last_ack' < w
         /\ bytes_received_since_last_ack' < effective_ack_size
         /\ Acknowledgement(n) = << >> \/ Acknowledgement(n) = <<acked'>>
<1>1. /\ Ahead(bytes_received) \in Nat /\ Ahead(acked) \in Nat /\ Ahead(sent) \in Nat
      /\ \A i \in DOMAIN replies : Ahead(replies[i]) \in Nat
      /\ MaxAhead \in Nat
  BY Distances, WordFacts DEF AckInv, Words
<1>2. Ordered /\ AckTypes /\ Counter
  BY Zenon DEF AckInv, Circle, Ordered
<1>3. Ahead(bytes_received) + n <= MaxAhead /\ Ahead(acked) <= Ahead(bytes_received)
  BY <1>1, <1>2 DEF Ordered
<1>4. /\ bytes_received' \in Words /\ acked' \in Words
      /\ bytes_received_since_last_ack' \in Words
      /\ Ahead(bytes_received') = Ahead(bytes_received) + n
      /\ acked' = acked \/ acked' = bytes_received'
      /\ Ahead(bytes_received') - Ahead(acked') <= bytes_received_since_last_ack'
      /\ bytes_received_since_last_ack' < effective_ack_size
      /\ Acknowledgement(n) = << >> \/ Acknowledgement(n) = <<acked'>>
  BY Zenon, <1>2, <1>3, CountFacts
<1>5. /\ Ahead(bytes_received)' = Ahead(bytes_received') /\ Ahead(acked)' = Ahead(acked')
      /\ Ahead(sent)' = Ahead(sent)
      /\ \A i \in DOMAIN replies : Ahead(replies[i])' = Ahead(replies[i])
  BY Zenon DEF Ahead
<1>6. Ahead(acked) <= Ahead(acked') /\ Ahead(acked') <= Ahead(bytes_received')
      /\ Ahead(acked') \in Nat
  BY <1>1, <1>3, <1>4
<1>7. Ordered'
  <2>1. \A i \in DOMAIN replies : Ahead(replies[i]) <= Ahead(acked')
    BY <1>1, <1>2, <1>6 DEF Ordered
  <2>2. \A i \in DOMAIN replies : \A j \in 1 .. i : Ahead(replies[j]) <= Ahead(replies[i])
    BY Zenon, <1>2 DEF Ordered
  <2>3. \A i \in DOMAIN replies : \A j \in 1 .. i : j \in DOMAIN replies
    BY <1>2 DEF AckTypes
  <2> QED BY Zenon, <2>1, <2>2, <2>3, <1>2, <1>4, <1>5, <1>6 DEF Ordered
<1> QED BY Zenon, <1>2, <1>4, <1>5, <1>7, EffectiveWindow

\* Part of a message is counted and taken off the wire.
LEMMA PartKeeps ==
  ASSUME AckInv, ReceivePart
  PROVE  AckInv'
<1> DEFINE L == Len(wire)
<1>1. PICK n \in 1 .. Head(wire).left - 1 :
        /\ CountBytes(n)
        /\ pending' = Acknowledgement(n)
        /\ wire' = [wire EXCEPT ![1].left = @ - n]
  BY ZenonT(30) DEF ReceivePart
<1>2. /\ wire # << >> /\ more' = (pending' # << >>) /\ failed' = failed /\ failed = FALSE
      /\ peer_window_ack_size' = peer_window_ack_size
      /\ replies' = replies /\ sent' = sent /\ seen' = seen /\ window' = window
  BY Zenon DEF ReceivePart, peer, AckInv, AckTypes
<1>3. /\ L \in Nat /\ DOMAIN wire = 1 .. L
      /\ \A i \in 1 .. L : /\ wire[i].left \in Nat \ {0}
                           /\ wire[i].window \in Windows \cup {NotAnnounced}
                           /\ wire[i] = [left |-> wire[i].left, window |-> wire[i].window]
      /\ 1 \in 1 .. L /\ Head(wire) = wire[1]
      /\ Ahead(bytes_received) + wire[1].left <= Ahead(sent)
  BY Zenon, <1>2, WireFacts
<1>4. n \in Nat \ {0} /\ n < wire[1].left /\ wire[1].left - n \in Nat \ {0}
  BY <1>3
<1>5. Ahead(bytes_received) \in Nat /\ Ahead(sent) \in Nat
  BY Distances DEF AckInv, Words
<1>6. Ahead(bytes_received) + n <= Ahead(sent)
  BY <1>3, <1>4, <1>5
<1>7. /\ bytes_received' \in Words /\ acked' \in Words
      /\ bytes_received_since_last_ack' \in Words
      /\ Ahead(bytes_received)' = Ahead(bytes_received) + n /\ Ahead(sent)' = Ahead(sent)
      /\ Ordered'
      /\ (Ahead(bytes_received) - Ahead(acked) <= bytes_received_since_last_ack)'
      /\ \E w \in Windows \cup {SelfWindow} : bytes_received_since_last_ack' < w
      /\ bytes_received_since_last_ack' < effective_ack_size
      /\ Acknowledgement(n) = << >> \/ Acknowledgement(n) = <<acked'>>
  BY Zenon, <1>1, <1>2, <1>4, <1>6, CountOrders
<1>8. /\ wire' = [wire EXCEPT ![1] = [left |-> wire[1].left - n, window |-> wire[1].window]]
      /\ wire' \in Seq([left : Nat \ {0}, window : Windows \cup {NotAnnounced}])
      /\ Len(wire') = L
      /\ wire'[1].left = wire[1].left - n /\ \A i \in 2 .. L : wire'[i] = wire[i]
  <2> DEFINE R == [left : Nat \ {0}, window : Windows \cup {NotAnnounced}]
             x == [left |-> wire[1].left - n, window |-> wire[1].window]
  <2>1. wire \in Seq(R)
    BY Zenon DEF AckInv, AckTypes
  <2>2. x \in R /\ x.left = wire[1].left - n
    BY Zenon, <1>3, <1>4
  <2>3. wire' = [wire EXCEPT ![1] = x]
    <3>1. [wire[1] EXCEPT !.left = @ - n] = x
      BY <1>3
    <3>2. wire' = [wire EXCEPT ![1] = [wire[1] EXCEPT !.left = @ - n]]
      BY Zenon, <1>1
    <3> QED BY ZenonT(30), <3>1, <3>2
  <2> HIDE DEF R, x
  <2>4. wire' \in Seq(R) /\ Len(wire') = L /\ wire'[1] = x /\ \A i \in 2 .. L : wire'[i] = wire[i]
    BY <2>1, <2>2, <2>3, <1>3
  <2> QED BY Zenon, <2>2, <2>3, <2>4 DEF R, x
<1>9. \E m \in [0 .. Len(wire') -> 0 .. MaxAhead] : Marks(m)'
  <2>1. PICK m \in [0 .. L -> 0 .. MaxAhead] : Marks(m)
    BY Zenon DEF AckInv, Circle
  <2> DEFINE k == [m EXCEPT ![0] = m[0] + n]
  <2>2. /\ m[0] = Ahead(bytes_received) /\ m[L] = Ahead(sent)
        /\ \A i \in 1 .. L : m[i] = m[i - 1] + wire[i].left
        /\ \A i, j \in 0 .. L : i <= j => m[i] <= m[j]
    BY Zenon, <2>1 DEF Marks
  <2>3. k[0] = m[0] + n /\ \A i \in 1 .. L : k[i] = m[i]
    BY <1>3
  <2>4. k \in [0 .. L -> 0 .. MaxAhead]
    <3>1. m[L] \in 0 .. MaxAhead
      BY <1>3
    <3>2. m[0] + n \in 0 .. MaxAhead
      BY <3>1, <2>2, <1>4, <1>5, <1>6, WordFacts
    <3> QED BY Zenon, <3>2, <1>3
  <2> HIDE DEF k
  <2>5. m[1] = m[0] + wire[1].left /\ k[1] = k[0] + wire'[1].left
    <3>1. m[1] = m[1 - 1] + wire[1].left /\ 1 - 1 = 0
      BY <2>2, <1>3
    <3>2. m[0] \in Nat /\ wire'[1].left = wire[1].left - n /\ k[1] = m[1] /\ k[0] = m[0] + n
      BY ZenonT(30), <2>2, <2>3, <1>3, <1>5, <1>8
    <3> QED BY <3>1, <3>2, <1>3, <1>4
  <2>6. \A i \in 1 .. L : k[i] = k[i - 1] + wire'[i].left
    <3>1. \A i \in 2 .. L : k[i] = m[i] /\ k[i - 1] = m[i - 1] /\ wire'[i] = wire[i]
      <4>1. \A i \in 2 .. L : i \in 1 .. L /\ i - 1 \in 1 .. L
        BY <1>3
      <4> QED BY Zenon, <4>1, <2>3, <1>8
    <3>2. \A i \in 2 .. L : k[i] = k[i - 1] + wire'[i].left
      <4> TAKE i \in 2 .. L
      <4>1. i \in 1 .. L /\ k[i] = m[i] /\ k[i - 1] = m[i - 1] /\ wire'[i] = wire[i]
        BY <3>1, <1>3
      <4>2. m[i] = m[i - 1] + wire[i].left
        BY Zenon, <4>1, <2>2
      <4> QED BY Zenon, <4>1, <4>2
    <3>3. k[1] = k[1 - 1] + wire'[1].left
      BY <2>5
    <3>4. \A i \in 1 .. L : i = 1 \/ i \in 2 .. L
      BY <1>3
    <3> QED BY Zenon, <3>2, <3>3, <3>4
  <2>7. \A i, j \in 0 .. L : i <= j => k[i] <= k[j]
    <3>1. \A i \in 0 .. L : m[i] \in Nat
      BY WordFacts
    <3>2. \A j \in 1 .. L : k[0] <= k[j]
      <4>1. \A j \in 1 .. L : m[1] <= m[j]
        BY <2>2, <1>3
      <4>2. k[0] <= m[1]
        BY <2>3, <2>5, <3>1, <1>3, <1>4
      <4> QED BY <4>1, <4>2, <2>3, <2>4, <3>1, <1>3, WordFacts
    <3>3. k[0] \in Nat /\ \A i, j \in 1 .. L : i <= j => k[i] <= k[j]
      BY <2>2, <2>3, <2>4, <3>1, <1>3, WordFacts
    <3>4. ASSUME NEW i \in 0 .. L, NEW j \in 0 .. L, i <= j PROVE k[i] <= k[j]
      <4>1. \/ i = 0 /\ j = 0
            \/ i = 0 /\ j \in 1 .. L
            \/ i \in 1 .. L /\ j \in 1 .. L
        BY SMTT(20), <3>4, <1>3
      <4>2. k[0] <= k[0]
        BY <3>3
      <4> QED BY Zenon, <4>1, <4>2, <3>2, <3>3, <3>4
    <3> QED BY Zenon, <3>4
  <2>8. k[L] = Ahead(sent)'
    <3>1. L \in 1 .. L
      BY <1>3
    <3> QED BY Zenon, <3>1, <2>2, <2>3, <1>7
  <2>9. Marks(k)'
    BY Zenon, <2>2, <2>3, <2>4, <2>6, <2>7, <2>8, <1>7, <1>8 DEF Marks
  <2> QED BY Zenon, <2>4, <2>9, <1>8
<1>10. AckTypes'
  <2>1. pending' = << >> \/ pending' = <<acked'>>
    BY Zenon, <1>1, <1>7
  <2>2. more' \in BOOLEAN
    BY Zenon, <1>2
  <2> QED BY Zenon, <2>1, <2>2, <1>2, <1>7, <1>8 DEF AckInv, AckTypes
<1>11. Circle'
  BY Zenon, <1>7, <1>9 DEF Circle, Ordered
<1>12. Counter'
  <2>1. effective_ack_size' = effective_ack_size
    BY Zenon, <1>2 DEF effective_ack_size
  <2> QED BY ZenonT(30), <2>1, <1>2, <1>7 DEF Counter
<1> QED BY Zenon, <1>10, <1>11, <1>12 DEF AckInv

\* The rest of a message is counted and the message applied.
LEMMA MessageKeeps ==
  ASSUME AckInv, ReceiveMessage
  PROVE  AckInv'
<1> DEFINE L == Len(wire)
           n == wire[1].left
<1>1. /\ wire # << >> /\ more' = TRUE /\ CountBytes(Head(wire).left)
      /\ ApplyWindow(Head(wire).window) /\ wire' = Tail(wire)
      /\ pending' = IF failed' THEN << >> ELSE Acknowledgement(Head(wire).left)
      /\ replies' = replies /\ sent' = sent /\ seen' = seen /\ window' = window
  BY Zenon DEF ReceiveMessage, peer
<1>2. /\ L \in Nat /\ DOMAIN wire = 1 .. L
      /\ \A i \in 1 .. L : /\ wire[i].left \in Nat \ {0}
                           /\ wire[i].window \in Windows \cup {NotAnnounced}
      /\ 1 \in 1 .. L /\ Head(wire) = wire[1]
      /\ Ahead(bytes_received) + n <= Ahead(sent) /\ n \in Nat
  BY Zenon, <1>1, WireFacts
<1>3. CountBytes(n) /\ (pending' = << >> \/ pending' = Acknowledgement(n))
  BY Zenon, <1>1, <1>2
<1>4. /\ bytes_received' \in Words /\ acked' \in Words
      /\ bytes_received_since_last_ack' \in Words
      /\ Ahead(bytes_received)' = Ahead(bytes_received) + n /\ Ahead(sent)' = Ahead(sent)
      /\ Ordered'
      /\ (Ahead(bytes_received) - Ahead(acked) <= bytes_received_since_last_ack)'
      /\ \E w \in Windows \cup {SelfWindow} : bytes_received_since_last_ack' < w
      /\ Acknowledgement(n) = << >> \/ Acknowledgement(n) = <<acked'>>
  BY Zenon, <1>1, <1>2, <1>3, CountOrders
<1>5. /\ peer_window_ack_size' \in Windows \cup {NoWindow} /\ failed' \in BOOLEAN
  <2>1. peer_window_ack_size \in Windows \cup {NoWindow}
    BY Zenon DEF AckInv, AckTypes
  <2>2. wire[1].window \in Windows \/ ~(wire[1].window > 0)
    BY <1>2 DEF NotAnnounced
  <2> QED BY Zenon, <2>1, <2>2, <1>1, <1>2 DEF ApplyWindow
<1>6. /\ wire' \in Seq([left : Nat \ {0}, window : Windows \cup {NotAnnounced}])
      /\ Len(wire') = L - 1 /\ \A i \in 1 .. L - 1 : wire'[i] = wire[i + 1]
  <2> DEFINE R == [left : Nat \ {0}, window : Windows \cup {NotAnnounced}]
  <2>1. wire \in Seq(R)
    BY Zenon DEF AckInv, AckTypes
  <2> HIDE DEF R
  <2>2. wire' \in Seq(R) /\ Len(wire') = L - 1 /\ \A i \in 1 .. L - 1 : wire'[i] = wire[i + 1]
    BY <2>1, <1>1
  <2> QED BY Zenon, <2>2, <1>2 DEF R
<1>a. PICK M \in Nat : L = M + 1
  <2>1. L - 1 \in Nat /\ L = (L - 1) + 1
    BY <1>2
  <2> QED BY ZenonT(30), <2>1
<1>b. Len(wire') = M /\ \A i \in 1 .. M : wire'[i] = wire[i + 1]
  <2>1. L - 1 = M
    BY <1>a
  <2> QED BY Zenon, <1>6, <2>1
<1>7. \E m \in [0 .. M -> 0 .. MaxAhead] : Marks(m)'
  <2>1. PICK m \in [0 .. L -> 0 .. MaxAhead] : Marks(m)
    BY Zenon DEF AckInv, Circle
  <2> DEFINE k == [i \in 0 .. M |-> m[i + 1]]
  <2>2. /\ m[0] = Ahead(bytes_received) /\ m[L] = Ahead(sent)
        /\ \A i \in 1 .. L : m[i] = m[i - 1] + wire[i].left
        /\ \A i, j \in 0 .. L : i <= j => m[i] <= m[j]
    BY Zenon, <2>1 DEF Marks
  <2>3. k \in [0 .. M -> 0 .. MaxAhead] /\ \A i \in 0 .. M : k[i] = m[i + 1]
    BY <1>2, <1>a, <1>b
  <2> HIDE DEF k
  <2>4. k[0] = Ahead(bytes_received)'
    <3>1. m[1] = m[1 - 1] + n /\ 1 - 1 = 0 /\ 0 \in 0 .. M
      BY <2>2, <1>2, <1>a, <1>b
    <3> QED BY <3>1, <2>2, <2>3, <1>4
  <2>5. k[M] = Ahead(sent)'
    <3>1. M \in 0 .. M /\ M + 1 = L
      BY <1>2, <1>a, <1>b
    <3> QED BY Zenon, <3>1, <2>2, <2>3, <1>4
  <2>6. \A i \in 1 .. M : k[i] = k[i - 1] + wire'[i].left
    <3>1. \A i \in 1 .. M : /\ i + 1 \in 1 .. L /\ i \in 0 .. M /\ i - 1 \in 0 .. M
                                /\ (i - 1) + 1 = i /\ (i + 1) - 1 = i
      BY <1>2, <1>a, <1>b
    <3> TAKE i \in 1 .. M
    <3>2. m[i + 1] = m[(i + 1) - 1] + wire[i + 1].left
      BY Zenon, <3>1, <2>2
    <3> QED BY SMTT(30), <3>1, <3>2, <2>3, <1>a, <1>b
  <2>7. \A i, j \in 0 .. M : i <= j => k[i] <= k[j]
    BY <2>2, <2>3, <1>2, <1>a, <1>b
  <2>8. Marks(k)'
    BY Zenon, <2>3, <2>4, <2>5, <2>6, <2>7, <1>a, <1>b DEF Marks
  <2> QED BY Zenon, <2>3, <2>8
<1>8. AckTypes'
  <2>1. pending' = << >> \/ pending' = <<acked'>>
    BY Zenon, <1>3, <1>4
  <2> QED BY Zenon, <2>1, <1>1, <1>4, <1>5, <1>6 DEF AckInv, AckTypes
<1>9. Circle'
  BY Zenon, <1>4, <1>7, <1>b DEF Circle, Ordered
<1>10. Counter'
  BY Zenon, <1>1, <1>4 DEF Counter
<1> QED BY Zenon, <1>8, <1>9, <1>10 DEF AckInv

\* An empty turn of the loop acknowledges what a shrunk window made due.
LEMMA NothingKeeps ==
  ASSUME AckInv, ReceiveNothing
  PROVE  AckInv'
<1>1. /\ CountBytes(0) /\ pending' = Acknowledgement(0) /\ more' = (pending' # << >>)
      /\ peer_window_ack_size' = peer_window_ack_size /\ failed' = failed /\ wire' = wire
      /\ replies' = replies /\ sent' = sent /\ seen' = seen /\ window' = window
  BY Zenon DEF ReceiveNothing, peer
<1>2. PICK n \in Nat : n = 0
  BY Zenon
<1>3. CountBytes(n) /\ pending' = Acknowledgement(n)
  BY Zenon, <1>1, <1>2
<1>4. Ahead(bytes_received) \in Nat /\ Ahead(sent) \in Nat /\ Ahead(bytes_received) <= Ahead(sent)
  BY Distances DEF AckInv, Words, Circle
<1>5. /\ bytes_received' \in Words /\ acked' \in Words
      /\ bytes_received_since_last_ack' \in Words
      /\ Ahead(bytes_received)' = Ahead(bytes_received) + n /\ Ahead(sent)' = Ahead(sent)
      /\ Ordered'
      /\ (Ahead(bytes_received) - Ahead(acked) <= bytes_received_since_last_ack)'
      /\ \E w \in Windows \cup {SelfWindow} : bytes_received_since_last_ack' < w
      /\ bytes_received_since_last_ack' < effective_ack_size
      /\ Acknowledgement(n) = << >> \/ Acknowledgement(n) = <<acked'>>
  BY <1>1, <1>2, <1>3, <1>4, CountOrders
<1>6. Ahead(bytes_received)' = Ahead(bytes_received)
  BY <1>2, <1>4, <1>5
<1>7. \E m \in [0 .. Len(wire') -> 0 .. MaxAhead] : Marks(m)'
  BY Zenon, <1>1, <1>5, <1>6 DEF AckInv, Circle, Marks
<1>8. AckTypes'
  <2>1. pending' = << >> \/ pending' = <<acked'>>
    BY Zenon, <1>3, <1>5
  <2>2. more' \in BOOLEAN
    BY Zenon, <1>1
  <2> QED BY Zenon, <2>1, <2>2, <1>1, <1>5 DEF AckInv, AckTypes
<1>9. Circle'
  BY Zenon, <1>5, <1>7 DEF Circle, Ordered
<1>10. Counter'
  <2>1. effective_ack_size' = effective_ack_size
    BY Zenon, <1>1 DEF effective_ack_size
  <2> QED BY ZenonT(30), <2>1, <1>1, <1>5 DEF Counter
<1> QED BY Zenon, <1>8, <1>9, <1>10 DEF AckInv

\* An acknowledgement goes out behind the earlier ones.
LEMMA DrainKeeps ==
  ASSUME AckInv, Drain
  PROVE  AckInv'
<1>1. /\ pending # << >> /\ replies' = Append(replies, Head(pending)) /\ pending' = Tail(pending)
      /\ UNCHANGED <<bytes_received, bytes_received_since_last_ack, peer_window_ack_size,
                     more, failed, acked, wire, sent, seen, window>>
  BY Zenon DEF Drain, peer
<1>2. /\ pending = <<acked>> /\ acked \in Words /\ replies \in Seq(Words)
      /\ Ordered /\ AckTypes /\ Counter
  BY Zenon, <1>1 DEF AckInv, AckTypes, Circle, Ordered
<1>3. replies' = Append(replies, acked) /\ pending' = << >>
  BY <1>1, <1>2
<1> DEFINE n == Len(replies)
<1>4. /\ n \in Nat /\ DOMAIN replies = 1 .. n /\ DOMAIN replies' = 1 .. n + 1
      /\ replies' \in Seq(Words) /\ replies'[n + 1] = acked
      /\ \A i \in 1 .. n : replies'[i] = replies[i]
  BY <1>2, <1>3
<1>5. /\ Ahead(acked) \in Nat /\ \A i \in 1 .. n : Ahead(replies[i]) \in Nat
  BY SMTT(30), <1>2, <1>4, Distances DEF Words
<1>6. /\ Ahead(bytes_received)' = Ahead(bytes_received) /\ Ahead(acked)' = Ahead(acked)
      /\ Ahead(sent)' = Ahead(sent)
      /\ \A i \in 1 .. n : Ahead(replies[i])' = Ahead(replies[i])
      /\ \A x \in Words : Since(x, seen') = Ahead(x)
  BY Zenon, <1>1, <1>4 DEF Ahead
<1>7. Ordered'
  <2>1. \A i \in 1 .. n + 1 : /\ Ahead(replies'[i]) <= Ahead(acked)
                              /\ \A j \in 1 .. i : Ahead(replies'[j]) <= Ahead(replies'[i])
    <3>1. \A i \in 1 .. n : /\ Ahead(replies'[i]) <= Ahead(acked)
                            /\ \A j \in 1 .. i : Ahead(replies'[j]) <= Ahead(replies'[i])
      <4> TAKE i \in 1 .. n
      <4>1. \A j \in 1 .. i : j \in 1 .. n
        BY <1>4
      <4>2. /\ Ahead(replies[i]) <= Ahead(acked)
            /\ \A j \in 1 .. i : Ahead(replies[j]) <= Ahead(replies[i])
        BY Zenon, <1>2, <1>4 DEF Ordered
      <4> QED BY Zenon, <4>1, <4>2, <1>4
    <3>2. /\ Ahead(replies'[n + 1]) <= Ahead(acked)
          /\ \A j \in 1 .. n + 1 : Ahead(replies'[j]) <= Ahead(replies'[n + 1])
      <4>1. \A j \in 1 .. n + 1 : j \in 1 .. n \/ j = n + 1
        BY <1>4
      <4> QED BY <4>1, <3>1, <1>4, <1>5
    <3>3. \A i \in 1 .. n + 1 : i \in 1 .. n \/ i = n + 1
      BY <1>4
    <3> QED BY Zenon, <3>1, <3>2, <3>3
  <2>2. \A i \in 1 .. n + 1 : Ahead(replies'[i]) = Since(replies'[i], seen')
    BY Zenon, <1>1 DEF Ahead
  <2> QED BY Zenon, <2>1, <2>2, <1>1, <1>2, <1>4, <1>6 DEF Ordered, Ahead
<1>8. \E m \in [0 .. Len(wire') -> 0 .. MaxAhead] : Marks(m)'
  BY ZenonT(30), <1>1, <1>6 DEF AckInv, Circle, Marks
<1>9. AckTypes'
  BY Zenon, <1>1, <1>2, <1>3, <1>4 DEF AckTypes
<1>10. Circle'
  BY Zenon, <1>7, <1>8 DEF Circle, Ordered
<1>11. Counter'
  <2>1. effective_ack_size' = effective_ack_size
    BY Zenon, <1>1 DEF effective_ack_size
  <2> QED BY Zenon, <2>1, <1>1, <1>2, <1>3, <1>6 DEF Counter
<1> QED BY Zenon, <1>9, <1>10, <1>11 DEF AckInv

\* The peer sends no further ahead than the bound.
LEMMA SendKeeps ==
  ASSUME AckInv, PeerSend
  PROVE  AckInv'
<1> DEFINE L == Len(wire)
<1>1. PICK n \in 1 .. MaxMessage, w \in Windows \cup {NotAnnounced} :
        /\ Unacknowledged + n <= MaxAhead
        /\ wire' = Append(wire, [left |-> n, window |-> w])
        /\ sent' = (sent + n) % Word
  BY Zenon DEF PeerSend
<1>2. UNCHANGED <<bytes_received, bytes_received_since_last_ack, peer_window_ack_size,
                  pending, more, failed, acked, replies, seen>>
  BY Zenon DEF PeerSend, receiver
<1>3. n \in Nat \ {0} /\ Ahead(sent) + n <= MaxAhead /\ MaxAhead \in Nat /\ MaxAhead < Word
  BY <1>1, WordFacts, AckAssumption DEF Unacknowledged, Ahead
<1>4. /\ AckTypes /\ Ordered /\ Counter /\ Ahead(sent) \in Nat /\ Ahead(bytes_received) \in Nat
      /\ sent \in Words /\ seen \in Words
  BY Distances DEF AckInv, Circle, Ordered, Words, AckTypes
<1>5. sent' \in Words /\ Ahead(sent)' = Ahead(sent) + n
  <2>1. Since(sent, seen) + n < Word /\ n \in Nat
    BY <1>3, <1>4, WordFacts DEF Ahead
  <2>2. (sent + n) % Word \in Words /\ Since((sent + n) % Word, seen) = Since(sent, seen) + n
    BY Zenon, <2>1, <1>4, SinceAdd
  <2> QED BY Zenon, <2>2, <1>1, <1>2 DEF Ahead
<1>6. /\ Ahead(bytes_received)' = Ahead(bytes_received) /\ Ahead(acked)' = Ahead(acked)
      /\ \A i \in DOMAIN replies : Ahead(replies[i])' = Ahead(replies[i])
  BY Zenon, <1>2 DEF Ahead
<1>7. Ordered'
  <2>1. /\ \A i \in DOMAIN replies : \A j \in 1 .. i : j \in DOMAIN replies
    BY <1>4 DEF AckTypes
  <2>2. \A i \in DOMAIN replies : /\ Ahead(replies[i]) <= Ahead(acked)
                                  /\ \A j \in 1 .. i : Ahead(replies[j]) <= Ahead(replies[i])
    BY Zenon, <1>4 DEF Ordered
  <2>3. Ahead(bytes_received) <= Ahead(sent) + n /\ Ahead(acked) <= Ahead(bytes_received)
    BY <1>3, <1>4 DEF Ordered
  <2> QED BY Zenon, <2>1, <2>2, <2>3, <1>2, <1>3, <1>5, <1>6 DEF Ordered
<1>8. /\ wire' \in Seq([left : Nat \ {0}, window : Windows \cup {NotAnnounced}])
      /\ L \in Nat /\ Len(wire') = L + 1 /\ wire'[L + 1].left = n
      /\ \A i \in 1 .. L : wire'[i] = wire[i]
  <2> DEFINE R == [left : Nat \ {0}, window : Windows \cup {NotAnnounced}]
             x == [left |-> n, window |-> w]
  <2>1. wire \in Seq(R) /\ x \in R /\ x.left = n /\ wire' = Append(wire, x)
    BY Zenon, <1>1, <1>3, <1>4 DEF AckTypes
  <2> HIDE DEF R, x
  <2>2. /\ wire' \in Seq(R) /\ L \in Nat /\ Len(wire') = L + 1 /\ wire'[L + 1] = x
        /\ \A i \in 1 .. L : wire'[i] = wire[i]
    BY <2>1
  <2> QED BY Zenon, <2>1, <2>2 DEF R
<1>9. \E m \in [0 .. Len(wire') -> 0 .. MaxAhead] : Marks(m)'
  <2>1. PICK m \in [0 .. L -> 0 .. MaxAhead] : Marks(m)
    BY Zenon DEF AckInv, Circle
  <2>2. /\ m[0] = Ahead(bytes_received) /\ m[L] = Ahead(sent)
        /\ \A i \in 1 .. L : m[i] = m[i - 1] + wire[i].left
        /\ \A i, j \in 0 .. L : i <= j => m[i] <= m[j]
    BY Zenon, <2>1 DEF Marks
  <2>a. \A i \in 0 .. L : m[i] \in Nat
    BY <1>3
  <2>3. PICK M \in Nat, s \in 0 .. MaxAhead : M = L /\ s = m[L] + n
    BY <2>2, <1>3, <1>4, <1>8
  <2> DEFINE k == [i \in 0 .. M + 1 |-> IF i = M + 1 THEN s ELSE m[i]]
  <2>4. /\ k \in [0 .. M + 1 -> 0 .. MaxAhead] /\ k[M + 1] = s /\ \A i \in 0 .. M : k[i] = m[i]
    BY <2>3
  <2> HIDE DEF k
  <2>5. \A i \in 1 .. M + 1 : k[i] = k[i - 1] + wire'[i].left
    <3> TAKE i \in 1 .. M + 1
    <3>1. CASE i = M + 1
      BY SMTT(30), <3>1, <2>3, <2>4, <1>8
    <3>2. CASE i \in 1 .. M
      <4>1. i \in 0 .. M /\ i - 1 \in 0 .. M /\ i \in 1 .. L
        BY <3>2, <2>3
      <4>2. m[i] = m[i - 1] + wire[i].left
        BY Zenon, <4>1, <2>2
      <4> QED BY ZenonT(30), <4>1, <4>2, <2>4, <1>8
    <3> QED BY <3>1, <3>2
  <2>6. \A i, j \in 0 .. M + 1 : i <= j => k[i] <= k[j]
    <3>1. \A i \in 0 .. M : m[i] <= s
      BY SMTT(30), <2>2, <2>3, <2>a, <1>3
    <3>2. s <= s
      BY <2>3, <1>3
    <3> TAKE i, j \in 0 .. M + 1
    <3> HAVE i <= j
    <3>3. CASE j = M + 1 /\ i # M + 1
      BY <3>1, <3>3, <2>4
    <3>4. CASE j = M + 1 /\ i = M + 1
      BY Zenon, <3>2, <3>4, <2>4
    <3>5. CASE j # M + 1
      <4>1. i \in 0 .. L /\ j \in 0 .. L
        BY <3>5, <2>3
      <4> QED BY Zenon, <4>1, <2>2, <2>3, <2>4
    <3> QED BY Zenon, <3>3, <3>4, <3>5
  <2>7. k[0] = Ahead(bytes_received)' /\ k[M + 1] = Ahead(sent)'
    BY <2>2, <2>3, <2>4, <1>5, <1>6
  <2>8. Marks(k)'
    BY Zenon, <2>3, <2>4, <2>5, <2>6, <2>7, <1>8 DEF Marks
  <2> QED BY Zenon, <2>3, <2>4, <2>8, <1>8
<1>10. AckTypes'
  BY Zenon, <1>2, <1>4, <1>5, <1>8 DEF AckTypes
<1>11. Circle'
  BY Zenon, <1>7, <1>9 DEF Circle, Ordered
<1>12. Counter'
  <2>1. effective_ack_size' = effective_ack_size
    BY Zenon, <1>2 DEF effective_ack_size
  <2> QED BY Zenon, <2>1, <1>2, <1>4, <1>6 DEF Counter
<1> QED BY Zenon, <1>10, <1>11, <1>12 DEF AckInv

\* The peer sees the oldest acknowledgement; everything else is that much less
\* ahead.
LEMMA SeenKeeps ==
  ASSUME AckInv, PeerSeesAck
  PROVE  AckInv'
<1> DEFINE r == replies[1]
           L == Len(wire)
           n == Len(replies)
<1>1. /\ replies # << >> /\ seen' = Head(replies) /\ replies' = Tail(replies)
      /\ UNCHANGED <<bytes_received, bytes_received_since_last_ack, peer_window_ack_size,
                     pending, more, failed, acked, wire, sent, window>>
  BY Zenon DEF PeerSeesAck, receiver
<1>2. AckTypes /\ Ordered /\ Counter /\ seen \in Words
  BY Zenon DEF AckInv, Circle, Ordered, AckTypes
<1>3. /\ n \in Nat /\ DOMAIN replies = 1 .. n /\ 1 \in 1 .. n /\ seen' = r /\ r \in Words
      /\ replies' \in Seq(Words) /\ DOMAIN replies' = 1 .. n - 1
      /\ \A i \in 1 .. n - 1 : replies'[i] = replies[i + 1]
  <2>1. replies \in Seq(Words)
    BY Zenon, <1>2 DEF AckTypes
  <2> QED BY <2>1, <1>1
<1>4. /\ Ahead(bytes_received) \in Nat /\ Ahead(acked) \in Nat /\ Ahead(sent) \in Nat
      /\ \A i \in 1 .. n : replies[i] \in Words /\ Ahead(replies[i]) \in Nat
      /\ bytes_received \in Words /\ acked \in Words /\ sent \in Words
  <2>1. \A x \in Words : x \in Nat
    BY WordFacts DEF Words
  <2>2. \A i \in 1 .. n : replies[i] \in Words /\ Ahead(replies[i]) \in Words
    BY Zenon, <1>2, <1>3, Distances
  <2> QED BY Zenon, <2>1, <2>2, <1>2, Distances DEF AckTypes
<1> DEFINE s == Ahead(r)
<1>5. s \in Nat /\ s <= Ahead(acked) /\ \A i \in 1 .. n : s <= Ahead(replies[i])
  <2>1. s \in Nat /\ s <= Ahead(acked)
    BY Zenon, <1>2, <1>3, <1>4 DEF Ordered
  <2>2. \A i \in 1 .. n : 1 \in 1 .. i
    BY <1>3
  <2>3. \A i \in 1 .. n : \A j \in 1 .. i : Ahead(replies[j]) <= Ahead(replies[i])
    BY Zenon, <1>2, <1>3 DEF Ordered
  <2> QED BY Zenon, <2>1, <2>2, <2>3
<1>6. s <= Ahead(bytes_received) /\ s <= Ahead(sent)
  BY <1>2, <1>4, <1>5 DEF Ordered
<1>7. \A x \in Words : s <= Ahead(x) => Since(x, seen') = Ahead(x) - s
  BY Zenon, <1>2, <1>3, SinceShift DEF Ahead
<1>8. /\ Ahead(bytes_received)' = Ahead(bytes_received) - s /\ Ahead(acked)' = Ahead(acked) - s
      /\ Ahead(sent)' = Ahead(sent) - s
  <2>1. /\ Ahead(bytes_received)' = Since(bytes_received, seen')
        /\ Ahead(acked)' = Since(acked, seen') /\ Ahead(sent)' = Since(sent, seen')
    BY Zenon, <1>1 DEF Ahead
  <2> QED BY Zenon, <2>1, <1>4, <1>5, <1>6, <1>7
<1>9. \A i \in 1 .. n - 1 : /\ i + 1 \in 1 .. n
                            /\ Since(replies'[i], seen') = Ahead(replies[i + 1]) - s
  BY <1>3, <1>4, <1>5, <1>7
<1> HIDE DEF s
<1>10. Ordered'
  <2>1. \A i \in 1 .. n - 1 : Since(replies'[i], seen') <= Ahead(acked) - s
    <3> TAKE i \in 1 .. n - 1
    <3>1. Ahead(replies[i + 1]) <= Ahead(acked)
      BY Zenon, <1>2, <1>3, <1>9 DEF Ordered
    <3> QED BY <3>1, <1>4, <1>5, <1>9
  <2>2. \A i \in 1 .. n - 1 : \A j \in 1 .. i :
          Since(replies'[j], seen') <= Since(replies'[i], seen')
    <3> TAKE i \in 1 .. n - 1
    <3> TAKE j \in 1 .. i
    <3>1. j \in 1 .. n - 1 /\ j + 1 \in 1 .. i + 1
      BY <1>3
    <3>2. Ahead(replies[j + 1]) <= Ahead(replies[i + 1])
      BY Zenon, <3>1, <1>2, <1>3, <1>9 DEF Ordered
    <3> QED BY <3>1, <3>2, <1>4, <1>5, <1>9
  <2>3. /\ Ahead(acked) - s <= Ahead(bytes_received) - s
        /\ Ahead(bytes_received) - s <= Ahead(sent) - s /\ Ahead(sent) - s <= MaxAhead
    BY <1>2, <1>4, <1>5, WordFacts DEF Ordered
  <2>4. \A i \in 1 .. n - 1 : /\ Since(replies'[i], seen') <= Ahead(acked)'
                              /\ \A j \in 1 .. i : Since(replies'[j], seen') <= Since(replies'[i], seen')
    BY Zenon, <2>1, <2>2, <1>8
  <2>5. (\A i \in DOMAIN replies : /\ Ahead(replies[i]) <= Ahead(acked)
                                   /\ \A j \in 1 .. i : Ahead(replies[j]) <= Ahead(replies[i]))'
    BY Zenon, <2>4, <1>3 DEF Ahead
  <2> QED BY Zenon, <2>3, <2>5, <1>8 DEF Ordered
<1>11. \E m \in [0 .. Len(wire') -> 0 .. MaxAhead] : Marks(m)'
  <2>1. PICK m \in [0 .. L -> 0 .. MaxAhead] : Marks(m)
    BY Zenon DEF AckInv, Circle
  <2>2. /\ m[0] = Ahead(bytes_received) /\ m[L] = Ahead(sent)
        /\ \A i \in 1 .. L : m[i] = m[i - 1] + wire[i].left
        /\ \A i, j \in 0 .. L : i <= j => m[i] <= m[j]
    BY Zenon, <2>1 DEF Marks
  <2>3. PICK M \in Nat, z \in Nat : M = L /\ z = s
    BY ZenonT(30), <1>5, WireFacts
  <2>4. \A i \in 0 .. M : m[i] \in Nat /\ z <= m[i] /\ m[i] <= MaxAhead
    <3>1. 0 \in 0 .. L /\ \A i \in 0 .. L : 0 <= i
      BY <2>3
    <3>2. \A i \in 0 .. L : m[i] \in Nat /\ m[i] <= MaxAhead
      BY WordFacts
    <3>3. \A i \in 0 .. L : m[0] <= m[i]
      BY Zenon, <3>1, <2>2
    <3> QED BY <3>1, <3>2, <3>3, <2>2, <2>3, <1>6
  <2> DEFINE k == [i \in 0 .. M |-> m[i] - z]
  <2>5. k \in [0 .. M -> 0 .. MaxAhead] /\ \A i \in 0 .. M : k[i] = m[i] - z
    BY <2>3, <2>4, WordFacts
  <2> HIDE DEF k
  <2>6. \A i \in 1 .. M : k[i] = k[i - 1] + wire[i].left
    <3> TAKE i \in 1 .. M
    <3>1. i \in 0 .. M /\ i - 1 \in 0 .. M /\ i \in 1 .. L
      BY <2>3
    <3>2. m[i] = m[i - 1] + wire[i].left /\ wire[i].left \in Nat
      BY Zenon, <3>1, <2>2, WireFacts
    <3>3. m[i] \in Nat /\ m[i - 1] \in Nat /\ k[i] = m[i] - z /\ k[i - 1] = m[i - 1] - z
      BY Zenon, <3>1, <2>4, <2>5
    <3> QED BY <3>2, <3>3, <2>3
  <2>7. \A i, j \in 0 .. M : i <= j => k[i] <= k[j]
    <3> TAKE i, j \in 0 .. M
    <3> HAVE i <= j
    <3>1. m[i] <= m[j]
      BY Zenon, <2>2, <2>3
    <3> QED BY <3>1, <2>3, <2>4, <2>5
  <2>8. k[0] = Ahead(bytes_received)' /\ k[M] = Ahead(sent)'
    BY <2>2, <2>3, <2>5, <1>8
  <2>9. Marks(k)'
    BY Zenon, <2>3, <2>5, <2>6, <2>7, <2>8, <1>1 DEF Marks
  <2> QED BY Zenon, <2>3, <2>5, <2>9, <1>1
<1>12. AckTypes'
  BY Zenon, <1>1, <1>2, <1>3 DEF AckTypes
<1>13. Circle'
  BY Zenon, <1>10, <1>11 DEF Circle, Ordered
<1>14. Counter'
  <2>1. effective_ack_size' = effective_ack_size
    BY Zenon, <1>1 DEF effective_ack_size
  <2>2. Ahead(bytes_received)' - Ahead(acked)' = Ahead(bytes_received) - Ahead(acked)
    BY <1>4, <1>5, <1>8
  <2> QED BY Zenon, <2>1, <2>2, <1>1, <1>2 DEF Counter
<1> QED BY Zenon, <1>12, <1>13, <1>14 DEF AckInv

-----------------------------------------------------------------------------
(* The theorems.                                                           *)

\* Nothing has been sent, received or acknowledged.
LEMMA InitAckInv == Init => AckInv
<1> SUFFICES ASSUME Init PROVE AckInv
  BY Zenon
<1>1. 0 \in Words /\ MaxAhead \in Nat /\ Word \in Nat \ {0}
  BY WordFacts DEF Words
<1>2. Since(0, 0) = 0
  BY <1>1, SinceValue
<1>3. /\ Ahead(bytes_received) = 0 /\ Ahead(acked) = 0 /\ Ahead(sent) = 0
      /\ wire = << >> /\ replies = << >> /\ pending = << >> /\ Len(wire) = 0
  BY Zenon, <1>2 DEF Init, Ahead
<1>4. AckTypes
  <2>1. more \in BOOLEAN /\ failed \in BOOLEAN
    BY Zenon DEF Init
  <2>2. replies \in Seq(Words)
    BY <1>3
  <2>3. wire \in Seq([left : Nat \ {0}, window : Windows \cup {NotAnnounced}])
    BY <1>3
  <2> QED BY Zenon, <1>1, <1>3, <2>1, <2>2, <2>3 DEF Init, AckTypes
<1>5. \E m \in [0 .. Len(wire) -> 0 .. MaxAhead] : Marks(m)
  <2> DEFINE m == [i \in 0 .. 0 |-> 0]
  <2>1. m \in [0 .. 0 -> 0 .. MaxAhead] /\ m[0] = 0 /\ \A i \in 0 .. 0 : i = 0
    BY <1>1
  <2> HIDE DEF m
  <2>2. Marks(m)
    BY <2>1, <1>3 DEF Marks
  <2> QED BY Zenon, <2>1, <2>2, <1>3
<1>6. Circle
  BY <1>1, <1>3, <1>5 DEF Circle
<1>7. Counter
  BY <1>3, AckAssumption DEF Counter, Init, effective_ack_size
<1> QED BY Zenon, <1>4, <1>6, <1>7 DEF AckInv

\* Nothing changes.
LEMMA StutterAckInv ==
  ASSUME AckInv, UNCHANGED vars
  PROVE  AckInv'
<1>1. UNCHANGED <<bytes_received, bytes_received_since_last_ack, peer_window_ack_size,
                  pending, more, failed, acked, wire, replies, sent, seen, window>>
  BY Zenon DEF vars, receiver, peer
<1> QED BY ZenonT(30), <1>1 DEF AckInv, AckTypes, Circle, Marks, Counter, Ahead, effective_ack_size

\* The inductive invariant of the acknowledgements, with any word size, windows
\* and messages that leave room for a window on the circle of words.
THEOREM AckInvHolds == Spec => []AckInv
<1>1. Init => AckInv
  BY Zenon, InitAckInv
<1>2. AckInv /\ [Next]_vars => AckInv'
  BY Zenon, PartKeeps, MessageKeeps, NothingKeeps, DrainKeeps, SendKeeps, SeenKeeps,
     StutterAckInv DEF Next
<1> QED BY <1>1, <1>2, PTL DEF Spec

\* Once receive_inner has come to rest, less than a window of what it decoded is
\* unacknowledged.
THEOREM WindowsAlwaysAcknowledged == Spec => []AcknowledgedEachWindow
<1>1. AckInv => AcknowledgedEachWindow
  <2> SUFFICES ASSUME AckInv, ~failed, ~more
               PROVE  Since(bytes_received, acked) < effective_ack_size
    BY Zenon DEF AcknowledgedEachWindow
  <2>1. /\ bytes_received \in Words /\ acked \in Words /\ seen \in Words
        /\ bytes_received_since_last_ack \in Nat
    BY DEF AckInv, AckTypes, Words
  <2>2. /\ Ahead(acked) <= Ahead(bytes_received)
        /\ Ahead(bytes_received) \in Nat /\ Ahead(acked) \in Nat
    BY Distances DEF AckInv, Circle, Words
  <2>3. Since(bytes_received, acked) = Ahead(bytes_received) - Ahead(acked)
    BY Zenon, <2>1, <2>2, SinceShift DEF Ahead
  <2>4. /\ Ahead(bytes_received) - Ahead(acked) <= bytes_received_since_last_ack
        /\ bytes_received_since_last_ack < effective_ack_size
    BY Zenon DEF AckInv, Counter
  <2>5. effective_ack_size \in Nat
    BY Zenon, EffectiveWindow, WordFacts DEF AckInv
  <2> QED BY <2>1, <2>2, <2>3, <2>4, <2>5
<1> QED BY <1>1, AckInvHolds, PTL

\* The acknowledgements on their way are totals of bytes that were sent, none of
\* them behind an earlier one, also where the 32-bit total wraps.
THEOREM AcksAlwaysTotals == Spec => []AcksAreTotals
<1>1. AckInv => AcksAreTotals
  <2> SUFFICES ASSUME AckInv PROVE AcksAreTotals
    BY Zenon
  <2>1. AckTypeOK
    <3>1. Len(pending) <= 1
      <4>1. CASE pending = << >>
        BY <4>1
      <4>2. CASE pending = <<acked>>
        BY <4>2
      <4> QED BY Zenon, <4>1, <4>2 DEF AckInv, AckTypes
    <3> QED BY Zenon, <3>1 DEF AckInv, AckTypes, AckTypeOK, Words
  <2>2. ASSUME NEW i \in DOMAIN replies
        PROVE  /\ Since(replies[i], seen) <= Unacknowledged
               /\ \A j \in 1 .. i : Since(replies[j], seen) <= Since(replies[i], seen)
    <3>1. /\ Ahead(replies[i]) <= Ahead(acked) /\ Ahead(acked) <= Ahead(bytes_received)
          /\ Ahead(bytes_received) <= Ahead(sent)
          /\ \A j \in 1 .. i : Ahead(replies[j]) <= Ahead(replies[i])
      BY Zenon DEF AckInv, Circle
    <3>2. /\ Ahead(replies[i]) \in Nat /\ Ahead(acked) \in Nat
          /\ Ahead(bytes_received) \in Nat /\ Ahead(sent) \in Nat
      <4>1. \A x \in Words : x \in Nat
        BY WordFacts DEF Words
      <4> QED BY Zenon, <4>1, Distances DEF AckInv
    <3>3. Ahead(replies[i]) <= Ahead(sent)
      BY <3>1, <3>2
    <3> QED BY Zenon, <3>1, <3>3 DEF Ahead, Unacknowledged
  <2> QED BY Zenon, <2>1, <2>2 DEF AcksAreTotals
<1> QED BY <1>1, AckInvHolds, PTL
=============================================================================
