----------------------------- MODULE AckWindow -----------------------------
(***************************************************************************)
(* The acknowledgements of a session (the same code in ClientSession and   *)
(* ServerSession): bytes are counted as they are decoded, and each time a  *)
(* window of them has arrived the running total is sent to the peer.       *)
(*                                                                         *)
(* The peer is a sender that stops once it has a full window of its own    *)
(* without an acknowledgement, as RTMP allows.  It may announce another    *)
(* window at any time.  Totals are kept modulo Word (2^32).                *)
(***************************************************************************)
EXTENDS Integers, Sequences

CONSTANTS Word,
          SelfWindow,   \* config.window_ack_size, used until the peer announces one
          Windows,      \* windows the peer announces; 0 is refused
          MaxMessage,   \* bytes of a message on the wire
          MaxAhead,     \* bound on the bytes the peer has unacknowledged
          MaxInFlight   \* bound on the messages on the wire

ASSUME AckAssumption ==
  /\ Word \in Nat /\ MaxMessage \in Nat \ {0} /\ MaxInFlight \in Nat \ {0}
  /\ SelfWindow \in Nat \ {0} /\ Windows \subseteq Nat /\ MaxAhead \in Nat
  /\ \A w \in Windows \cup {SelfWindow} : w + MaxAhead < Word
  /\ SelfWindow <= MaxAhead

VARIABLES
  bytes_received,     \* modulo Word: only the low 32 bits are ever sent
  bytes_received_since_last_ack,
  peer_window_ack_size,
  pending,            \* acknowledgements not handed out
  more,               \* the last receive may have left something to do
  failed,
  acked,              \* the last total put into an acknowledgement
  wire,               \* messages on their way: bytes left and the window they announce
  replies,            \* acknowledgements on their way
  sent,               \* the peer: its total, what it saw acknowledged, its window
  seen,
  window

receiver == <<bytes_received, bytes_received_since_last_ack, peer_window_ack_size,
              pending, more, failed, acked>>
peer == <<sent, seen, window>>
vars == <<receiver, wire, replies, peer>>

NoWindow == 0
NotAnnounced == -1

Since(a, b) == (a - b) % Word

-----------------------------------------------------------------------------
(* The session.                                                            *)

effective_ack_size ==
  IF peer_window_ack_size = NoWindow THEN SelfWindow ELSE peer_window_ack_size

\* One turn of the loop in receive_inner up to the acknowledgement: consumed
\* bytes were decoded.
Total(consumed) == (bytes_received + consumed) % Word
SinceAck(consumed) == (bytes_received_since_last_ack + consumed) % Word
\* A defect: a full window is not enough.
AckDueLate(consumed) == SinceAck(consumed) > effective_ack_size

AckDue(consumed) == SinceAck(consumed) >= effective_ack_size

CountBytes(consumed) ==
  /\ bytes_received' = Total(consumed)
  /\ bytes_received_since_last_ack' = IF AckDue(consumed)
                                      THEN SinceAck(consumed) % effective_ack_size
                                      ELSE SinceAck(consumed)
  /\ acked' = IF AckDue(consumed) THEN Total(consumed) ELSE acked

\* A defect: the bytes since the last acknowledgement instead of the total.
AcknowledgementOfWindow(consumed) ==
  IF AckDue(consumed) THEN <<SinceAck(consumed)>> ELSE << >>

Acknowledgement(consumed) == IF AckDue(consumed) THEN <<Total(consumed)>> ELSE << >>

\* handle_window_acknowledgement, for the message that ends with these bytes.
ApplyWindow(size) ==
  /\ peer_window_ack_size' = IF size > 0 THEN size ELSE peer_window_ack_size
  /\ failed' = (size = 0)

\* Part of a message: decode wants more input.
ReceivePart ==
  /\ ~failed /\ pending = << >> /\ wire # << >>
  /\ \E n \in 1 .. Head(wire).left - 1 :
       /\ CountBytes(n)
       /\ pending' = Acknowledgement(n)
       /\ wire' = [wire EXCEPT ![1].left = @ - n]
  /\ more' = (pending' # << >>)
  /\ UNCHANGED <<peer_window_ack_size, failed, replies, peer>>

\* The rest of a message, which is then processed; a failure drops its
\* acknowledgement.
ReceiveMessage ==
  /\ ~failed /\ pending = << >> /\ wire # << >>
  /\ CountBytes(Head(wire).left)
  /\ ApplyWindow(Head(wire).window)
  /\ pending' = IF failed' THEN << >> ELSE Acknowledgement(Head(wire).left)
  /\ wire' = Tail(wire)
  /\ more' = TRUE
  /\ UNCHANGED <<replies, peer>>

\* The loop, or the next call, finds no input left.
ReceiveNothing ==
  /\ ~failed /\ pending = << >> /\ more
  /\ CountBytes(0)
  /\ pending' = Acknowledgement(0)
  /\ more' = (pending' # << >>)
  /\ UNCHANGED <<peer_window_ack_size, failed, wire, replies, peer>>

Drain ==
  /\ ~failed /\ pending # << >>
  /\ replies' = Append(replies, Head(pending))
  /\ pending' = Tail(pending)
  /\ UNCHANGED <<bytes_received, bytes_received_since_last_ack, peer_window_ack_size,
                 more, failed, acked, wire, peer>>

-----------------------------------------------------------------------------
(* The peer.                                                               *)

Unacknowledged == Since(sent, seen)

\* A sender without a window of its own only has the bound of the model.
Limit == IF window = NoWindow THEN MaxAhead ELSE window

Blocked == Unacknowledged >= Limit

PeerSend ==
  /\ ~Blocked
  /\ Len(wire) < MaxInFlight
  /\ \E n \in 1 .. MaxMessage, w \in Windows \cup {NotAnnounced} :
       /\ Unacknowledged + n <= MaxAhead
       /\ wire' = Append(wire, [left |-> n, window |-> w])
       /\ sent' = (sent + n) % Word
       /\ window' = IF w > 0 THEN w ELSE window
  /\ UNCHANGED <<receiver, replies, seen>>

PeerSeesAck ==
  /\ replies # << >>
  /\ seen' = Head(replies)
  /\ replies' = Tail(replies)
  /\ UNCHANGED <<receiver, wire, sent, window>>

-----------------------------------------------------------------------------
Init ==
  /\ bytes_received = 0 /\ bytes_received_since_last_ack = 0
  /\ peer_window_ack_size = NoWindow
  /\ pending = << >> /\ more = FALSE /\ failed = FALSE /\ acked = 0
  /\ wire = << >> /\ replies = << >>
  /\ sent = 0 /\ seen = 0 /\ window = NoWindow

Next == \/ ReceivePart \/ ReceiveMessage \/ ReceiveNothing \/ Drain
        \/ PeerSend \/ PeerSeesAck

Spec == Init /\ [][Next]_vars

\* The application reads until nothing is left, and the transport delivers.
FairSpec == /\ Spec
            /\ WF_vars(ReceiveMessage) /\ WF_vars(ReceiveNothing)
            /\ WF_vars(Drain) /\ WF_vars(PeerSeesAck)

-----------------------------------------------------------------------------
\* The counters are words, and at most one acknowledgement waits to be drained.
AckTypeOK ==
  /\ {bytes_received, bytes_received_since_last_ack, acked, sent, seen} \subseteq 0 .. Word - 1
  /\ peer_window_ack_size \in Windows \cup {NoWindow}
  /\ Len(pending) <= 1 /\ more \in BOOLEAN /\ failed \in BOOLEAN

\* When receive has nothing left to do, less than a window is unacknowledged:
\* also after the peer has shrunk its window below what had arrived, and although
\* the counter keeps a remainder when the total does not.
AcknowledgedEachWindow ==
  ~failed /\ ~more /\ pending = << >> =>
    Since(bytes_received, acked) < effective_ack_size

\* An acknowledgement acknowledges something sent, and never less than the one
\* before it: it is the cumulative total, a word, also where that wraps.
AcksAreTotals ==
  /\ AckTypeOK
  /\ \A i \in DOMAIN replies :
       /\ Since(replies[i], seen) <= Unacknowledged
       /\ \A j \in 1 .. i : Since(replies[j], seen) <= Since(replies[i], seen)

\* A sender that waits for a window to be acknowledged is not left waiting.
SenderNeverStuck == []<>(~Blocked \/ failed)
=============================================================================
