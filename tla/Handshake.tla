----------------------------- MODULE Handshake -----------------------------
(***************************************************************************)
(* handshake::Handshake at both ends of a connection.                      *)
(*                                                                         *)
(* Each end sends P0, P1 and, in answer to the other's P1, P2, and then    *)
(* the bytes of its session.  The transport delivers what was written in   *)
(* pieces of any size.  P1 is signed by this implementation; a peer of the *)
(* original specification, the same machine otherwise, sends it unsigned.  *)
(* A byte is a record of the packet it belongs to; signatures themselves   *)
(* are not modelled.                                                       *)
(***************************************************************************)
EXTENDS Naturals, Sequences

CONSTANTS PacketSize,   \* RTMP_PACKET_SIZE
          MaxData       \* bound on the session bytes each end writes

ASSUME HandshakeAssumption == PacketSize \in Nat \ {0} /\ MaxData \in Nat

Roles == {"Client", "Server"}
Peer(r) == IF r = "Client" THEN "Server" ELSE "Client"

VARIABLES
  current_stage, input_buffer,  \* per role
  closed,      \* per role: process_bytes failed and the application gave up
  style,       \* per role: what its P0 and P1 are
  wire,        \* per role: bytes on their way to it
  output,      \* per role: all it has written
  session      \* per role: bytes its session was given

vars == <<current_stage, input_buffer, closed, style, wire, output, session>>

Stages == <<"NeedToSendP0AndP1", "WaitingForPacket0", "WaitingForPacket1",
            "WaitingForPacket2", "Complete">>

Byte(packet, of, i) == [packet |-> packet, of |-> of, i |-> i]
Packet(packet, of) == [i \in 1 .. PacketSize |-> Byte(packet, of, i)]

-----------------------------------------------------------------------------
(* One end e = [stage, buffer, response, remaining, error] of role r inside *)
(* process_bytes.                                                          *)

\* Version 3, unless this is a peer of another version; then P1.
P0AndP1(r) ==
  <<Byte(IF style[r] = "other_version" THEN "bad" ELSE "P0", r, 1)>> \o
  Packet(IF style[r] = "original" THEN "unsigned_P1" ELSE "P1", r)

generate_outbound_p0_and_p1(r, e) ==
  [e EXCEPT !.stage = "WaitingForPacket0", !.response = @ \o P0AndP1(r)]

\* The byte is consumed also when it is refused.
parse_p0(e) ==
  IF e.buffer = << >> THEN e
  ELSE IF Head(e.buffer).packet # "P0"
  THEN [e EXCEPT !.buffer = Tail(@), !.error = TRUE]
  ELSE [e EXCEPT !.buffer = Tail(@), !.stage = "WaitingForPacket1"]

TakePacket(e) == SubSeq(e.buffer, 1, PacketSize)
DropPacket(e) == SubSeq(e.buffer, PacketSize + 1, Len(e.buffer))

\* A defect: an unsigned P1 is answered like a signed one.
AnswerSigned(r, p1) == Packet("P2", r)

\* A P1 without a digest is returned as it came.
Answer(r, p1) == IF p1 = Packet("P1", Peer(r)) THEN Packet("P2", r) ELSE p1

\* A defect: a packet alone in the buffer is not taken.
parse_p1Late(r, e) ==
  IF Len(e.buffer) <= PacketSize THEN e
  ELSE [e EXCEPT !.buffer = DropPacket(e), !.stage = "WaitingForPacket2",
                 !.response = @ \o Answer(r, TakePacket(e))]

parse_p1(r, e) ==
  IF Len(e.buffer) < PacketSize THEN e
  ELSE [e EXCEPT !.buffer = DropPacket(e), !.stage = "WaitingForPacket2",
                 !.response = @ \o Answer(r, TakePacket(e))]

\* A defect: what follows the last packet is dropped.
parse_p2Dropping(e) ==
  IF Len(e.buffer) < PacketSize THEN e
  ELSE [e EXCEPT !.buffer = << >>, !.stage = "Complete"]

\* Any P2 is accepted; what follows it goes to the session.
parse_p2(e) ==
  IF Len(e.buffer) < PacketSize THEN e
  ELSE [e EXCEPT !.buffer = << >>, !.remaining = DropPacket(e), !.stage = "Complete"]

\* One turn of the loop, which ends at an error, at completion or when the
\* stage does not change.
Turn(r, e) ==
  IF e.error THEN e
  ELSE CASE e.stage = "NeedToSendP0AndP1" -> generate_outbound_p0_and_p1(r, e)
         [] e.stage = "WaitingForPacket0" -> parse_p0(e)
         [] e.stage = "WaitingForPacket1" -> parse_p1(r, e)
         [] e.stage = "WaitingForPacket2" -> parse_p2(e)
         [] e.stage = "Complete" -> e

\* Every turn but the last moves to the next of the five stages.
process_bytes(r, data) ==
  LET e0 == [stage |-> current_stage[r], buffer |-> input_buffer[r] \o data,
             response |-> << >>, remaining |-> << >>, error |-> FALSE]
      e1 == Turn(r, e0)
      e2 == Turn(r, e1)
      e3 == Turn(r, e2)
  IN  Turn(r, e3)

-----------------------------------------------------------------------------
Write(r, bytes) == /\ output' = [output EXCEPT ![r] = @ \o bytes]
                   /\ wire' = [wire EXCEPT ![Peer(r)] = @ \o bytes]

\* The application starts the handshake: the client has to, the server may.
Start(r) ==
  /\ current_stage[r] = "NeedToSendP0AndP1"
  /\ current_stage' = [current_stage EXCEPT ![r] = "WaitingForPacket0"]
  /\ Write(r, P0AndP1(r))
  /\ UNCHANGED <<input_buffer, closed, style, session>>

\* n bytes arrive and are processed; the response is written, the remaining
\* bytes go to the session.  After an error the application closes, and the
\* response of that call is lost.
Process(r, n) ==
  /\ ~closed[r]
  /\ current_stage[r] # "Complete"
  /\ \E e \in {process_bytes(r, SubSeq(wire[r], 1, n))} :
       LET written == IF e.error THEN << >> ELSE e.response
           rest == SubSeq(wire[r], n + 1, Len(wire[r]))
       IN  /\ current_stage' = [current_stage EXCEPT ![r] = e.stage]
           /\ input_buffer' = [input_buffer EXCEPT ![r] = e.buffer]
           /\ closed' = [closed EXCEPT ![r] = e.error]
           /\ session' = [session EXCEPT ![r] = @ \o e.remaining]
           /\ output' = [output EXCEPT ![r] = @ \o written]
           /\ wire' = [wire EXCEPT ![r] = rest, ![Peer(r)] = @ \o written]
  /\ UNCHANGED style

\* The server is not called before something has arrived.
Receive(r) == \E n \in 1 .. Len(wire[r]) : Process(r, n)

\* Once the handshake is complete, bytes go to the session and come from it.
SessionReceives(r) ==
  /\ current_stage[r] = "Complete"
  /\ wire[r] # << >>
  /\ session' = [session EXCEPT ![r] = @ \o wire[r]]
  /\ wire' = [wire EXCEPT ![r] = << >>]
  /\ UNCHANGED <<current_stage, input_buffer, closed, style, output>>

Written(r) == Len(output[r]) - 2 * PacketSize - 1

SessionSends(r) ==
  /\ current_stage[r] = "Complete"
  /\ Written(r) < MaxData
  /\ Write(r, <<Byte("data", r, Written(r) + 1)>>)
  /\ UNCHANGED <<current_stage, input_buffer, closed, style, session>>

-----------------------------------------------------------------------------
Init ==
  /\ current_stage = [r \in Roles |-> "NeedToSendP0AndP1"]
  /\ input_buffer = [r \in Roles |-> << >>]
  /\ closed = [r \in Roles |-> FALSE]
  /\ style \in {[Client |-> c, Server |-> s] :
                  c, s \in {"digest", "original", "other_version"}}
  /\ \E r \in Roles : style[r] = "digest"
  /\ wire = [r \in Roles |-> << >>]
  /\ output = [r \in Roles |-> << >>]
  /\ session = [r \in Roles |-> << >>]

Next == \E r \in Roles : Start(r) \/ Receive(r) \/ SessionReceives(r) \/ SessionSends(r)

\* The client starts, and applications read what has arrived.
Fairness == WF_vars(Start("Client")) /\ \A r \in Roles : WF_vars(Receive(r))

FairSpec == Init /\ [][Next]_vars /\ Fairness

-----------------------------------------------------------------------------
\* A stage is one of the code's, and less than a packet stays buffered.
HandshakeTypeOK ==
  /\ \A r \in Roles : \E i \in DOMAIN Stages : current_stage[r] = Stages[i]
  /\ \A r \in Roles : ~closed[r] => Len(input_buffer[r]) < PacketSize
  /\ closed \in [Roles -> BOOLEAN]

\* What follows the handshake on the wire.
SessionBytes(r) == SubSeq(output[r], 2 * PacketSize + 2, Len(output[r]))

\* Each session is given exactly what the other one wrote: nothing of it stays
\* in the handshake's buffer or is taken for a packet, however it was cut.
NothingLost ==
  /\ HandshakeTypeOK
  /\ \A r \in Roles :
       IF current_stage[r] = "Complete"
       THEN session[r] \o wire[r] = SessionBytes(Peer(r)) /\ input_buffer[r] = << >>
       ELSE session[r] = << >>

\* An end completes only after the other has answered its P1; if that was
\* unsigned, with an exact copy of it.
CompletionIsMutual ==
  \A r \in Roles :
    current_stage[r] = "Complete" =>
      /\ current_stage[Peer(r)] \in {"WaitingForPacket2", "Complete"}
      /\ style[r] = "original" =>
           SubSeq(output[Peer(r)], PacketSize + 2, 2 * PacketSize + 1) =
             Packet("unsigned_P1", r)

\* Both ends complete, unless one refuses the version of the other.
HandshakeCompletes ==
  (\A r \in Roles : style[r] # "other_version")
     => <>(\A r \in Roles : current_stage[r] = "Complete")
=============================================================================
