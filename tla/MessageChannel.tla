--------------------------- MODULE MessageChannel ---------------------------
(***************************************************************************)
(* What an RTMP connection promises in one direction: an ordered channel   *)
(* that delivers every message once, except that a message sent with       *)
(* DropPolicy::Allowed may vanish before it is delivered.                  *)
(***************************************************************************)
EXTENDS Naturals, Sequences

CONSTANT Entries  \* what can be sent: [msg, droppable]

VARIABLES sent,  \* every entry handed to the channel
          lost,  \* positions of the entries that were dropped
          last,  \* position of the last entry delivered, or 0
          out    \* the messages delivered

channel == <<sent, lost, last, out>>

Init == sent = << >> /\ lost = {} /\ last = 0 /\ out = << >>

Send == /\ \E e \in Entries : sent' = Append(sent, e)
        /\ UNCHANGED <<lost, last, out>>

Lose == /\ \E i \in last + 1 .. Len(sent) : /\ sent[i].droppable
                                            /\ lost' = lost \cup {i}
        /\ UNCHANGED <<sent, last, out>>

Deliver == /\ \E i \in (last + 1 .. Len(sent)) \ lost :
                /\ last + 1 .. i - 1 \subseteq lost
                /\ last' = i
                /\ out' = Append(out, sent[i].msg)
           /\ UNCHANGED <<sent, lost>>

Next == Send \/ Lose \/ Deliver

\* Order, fidelity and no duplication, without the promise of a delivery.
Safety == Init /\ [][Next]_channel

Spec == Safety /\ WF_channel(Deliver)
=============================================================================
