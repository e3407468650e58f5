--------------------------- MODULE ClientSession ---------------------------
(***************************************************************************)
(* sessions::ClientSession: the client's end of one RTMP connection.       *)
(*                                                                         *)
(* The application connects, creates streams for play or publish, deletes  *)
(* them and sends on them.  The peer answers transactions in any order,    *)
(* late, twice or with numbers that were never used, and reports statuses  *)
(* on any wire stream.  An output is a packet or an event; "stream" is the *)
(* handle an event names, and "wire" the wire stream a packet is about.    *)
(*                                                                         *)
(* Outputs leave in the order they are made, so the serializer is left     *)
(* out.  negotiated_encoding and peer_uses_amf3_framing decide nothing in  *)
(* this session and are left out too.                                      *)
(***************************************************************************)
EXTENDS Streams

CONSTANTS MaxStreams, MaxPendingRequests,  \* SessionLimits
          WireIds,          \* stream ids the peer assigns
          MaxTransactions   \* bound on the number of transactions

ASSUME ClientAssumption ==
  /\ MaxStreams \in Nat /\ MaxPendingRequests \in Nat /\ MaxTransactions \in Nat
  /\ WireIds \subseteq Nat \ {0} /\ NoWire \notin Nat

VARIABLES
  current_state,  \* Disconnected, Connecting, Connected or Failed
  pending,        \* outputs not handed out yet
  transactions,   \* transaction id -> [kind, stream, purpose]
  next_transaction,
  streams,        \* the handle table
  written,        \* what the last call handed out, or NoOutput
  dead,           \* handles of deleted streams
  owed            \* wire streams the peer made that no deleteStream was made for

client == <<current_state, pending, transactions, next_transaction, streams, written,
            dead, owed>>
kept == <<current_state, transactions, next_transaction, streams, dead>>

failed == current_state = "Failed"

-----------------------------------------------------------------------------
NoHandle == [slot |-> 0, generation |-> 0]

Event(what, h) == [what |-> what, packet |-> FALSE, stream |-> h, wire |-> NoWire]
Packet(what, wire) == [what |-> what, packet |-> TRUE, stream |-> NoHandle, wire |-> wire]

NoOutput == Event("none", NoHandle)

\* The peer made the wire streams in made and is told to delete those in outs.
Account(made, outs) ==
  owed' = (owed \cup made) \ {outs[i].wire : i \in {j \in DOMAIN outs :
                                                      outs[j].what = "deleteStream"}}

\* receive hands out the first output and queues the rest; a message that
\* completes an acknowledgement window has its acknowledgement in front.
RespondAfter(made, outs) ==
  \E ack \in BOOLEAN :
    LET all == IF ack THEN <<Packet("acknowledgement", NoWire)>> \o outs ELSE outs
    IN /\ written' = IF all = << >> THEN NoOutput ELSE Head(all)
       /\ pending' = IF all = << >> THEN << >> ELSE Tail(all)
       /\ Account(made, outs)

Respond(outs) == RespondAfter({}, outs)

Enqueue(outs) ==
  /\ pending' = pending \o outs
  /\ written' = NoOutput
  /\ Account({}, outs)

Drain ==
  /\ ~failed
  /\ pending # << >>
  /\ written' = Head(pending)
  /\ pending' = Tail(pending)
  /\ UNCHANGED <<owed, kept>>

CanReceive == ~failed /\ pending = << >>

Fail == /\ current_state' = "Failed"
        /\ pending' = << >>
        /\ written' = NoOutput
        /\ UNCHANGED owed

Forget(t) == transactions' = Restrict(transactions, DOMAIN transactions \ {t})

\* The handle h and its wire id are gone.
Delete(h) == streams' = remove(streams, h) /\ dead' = dead \cup {h}

-----------------------------------------------------------------------------
(* The peer's commands.                                                    *)

AnyTransaction == 0 .. MaxTransactions

UnknownTransaction ==
  /\ CanReceive
  /\ \E t \in AnyTransaction : t \notin DOMAIN transactions
  /\ Respond(<<Event("unknownTransaction", NoHandle)>>)
  /\ UNCHANGED kept

\* _error: a refused connection may be tried again; a refused creation ends its
\* stream, unless the application has deleted it already.
handle_failed_result ==
  /\ CanReceive
  /\ \E t \in DOMAIN transactions :
       LET x == transactions[t] IN
       /\ Forget(t)
       /\ \/ /\ x.kind = "connect"
             /\ current_state' = "Disconnected"
             /\ Respond(<<Event("connectionRejected", NoHandle)>>)
             /\ UNCHANGED <<streams, dead>>
          \/ /\ x.kind = "create"
             /\ IF Valid(streams, x.stream)
                THEN Delete(x.stream) /\ Respond(<<Event("requestRejected", x.stream)>>)
                ELSE Respond(<< >>) /\ UNCHANGED <<streams, dead>>
             /\ UNCHANGED current_state
  /\ UNCHANGED next_transaction

connect_accepted ==
  /\ CanReceive
  /\ \E t \in DOMAIN transactions : transactions[t].kind = "connect" /\ Forget(t)
  /\ current_state' = "Connected"
  /\ Respond(<<Packet("windowAck", NoWire), Event("connectionAccepted", NoHandle),
               Packet("setChunkSize", NoWire)>>)
  /\ UNCHANGED <<next_transaction, streams, dead>>

Starting(purpose) == IF purpose = "play" THEN "StartingPlayback" ELSE "StartingPublish"

StartPackets(purpose, wire) ==
  IF purpose = "play" THEN <<Packet("setBufferLength", wire), Packet("play", wire)>>
                      ELSE <<Packet("publish", wire)>>

\* The result of createStream.  A wire id that is in use ends the session; the
\* stream of a creation that was cancelled is deleted at once.
stream_created ==
  /\ CanReceive
  /\ \E t \in DOMAIN transactions, wire \in WireIds :
       LET x == transactions[t] IN
       /\ x.kind = "create"
       /\ Forget(t)
       /\ \/ /\ Known(streams, wire)
             /\ Fail /\ UNCHANGED streams
          \/ /\ ~Known(streams, wire) /\ ~Valid(streams, x.stream)
             /\ RespondAfter({wire}, <<Packet("deleteStream", wire)>>)
             /\ UNCHANGED <<current_state, streams>>
          \/ /\ ~Known(streams, wire) /\ Valid(streams, x.stream)
             /\ streams' = set_state(bind(streams, x.stream, wire), x.stream,
                                     Starting(x.purpose))
             /\ RespondAfter({wire}, StartPackets(x.purpose, wire))
             /\ UNCHANGED current_state
  /\ UNCHANGED <<next_transaction, dead>>

\* A result without a usable stream number ends the session.
stream_number_missing ==
  /\ CanReceive
  /\ \E t \in DOMAIN transactions : transactions[t].kind = "create" /\ Forget(t)
  /\ Fail
  /\ UNCHANGED <<next_transaction, streams, dead>>

\* onStatus: a status code as the session tells them apart, and its level.
StatusCodes == {"Play.Start", "Publish.Start", "Play.Refused", "Publish.Refused",
                "Play.End", "Publish.End", "Other"}

Accepts(state, code) == \/ state = "StartingPlayback" /\ code = "Play.Start"
                        \/ state = "StartingPublish" /\ code = "Publish.Start"

Finishes(state, code) ==
  \/ state \in {"StartingPlayback", "Playing"} /\ code = "Play.End"
  \/ state \in {"StartingPublish", "Publishing"} /\ code = "Publish.End"

\* While a stream starts, a refusal or any other error ends it.
Refuses(state, code, error) ==
  /\ state \in {"StartingPlayback", "StartingPublish"}
  /\ ~Accepts(state, code) /\ ~Finishes(state, code)
  /\ \/ error
     \/ code = (IF state = "StartingPlayback" THEN "Play.Refused" ELSE "Publish.Refused")

handle_on_status_command ==
  /\ CanReceive
  /\ \E wire \in WireIds, code \in StatusCodes, error \in BOOLEAN :
       IF ~Known(streams, wire)
       THEN Respond(<<Event("status", NoHandle)>>) /\ UNCHANGED <<streams, dead>>
       ELSE LET h == find(streams, wire)
                state == StateOf(streams, h)
            IN \/ /\ Accepts(state, code)
                  /\ streams' = set_state(streams, h, IF state = "StartingPlayback"
                                                      THEN "Playing" ELSE "Publishing")
                  /\ Respond(<<Event("requestAccepted", h)>>)
                  /\ UNCHANGED dead
               \/ /\ Finishes(state, code) \/ Refuses(state, code, error)
                  /\ Delete(h)
                  /\ Respond(<<Packet("deleteStream", wire),
                               Event(IF Finishes(state, code) THEN "finished"
                                                              ELSE "requestRejected", h)>>)
               \/ /\ ~Accepts(state, code) /\ ~Finishes(state, code)
                  /\ ~Refuses(state, code, error)
                  /\ Respond(<<Event("status", h)>>)
                  /\ UNCHANGED <<streams, dead>>
  /\ UNCHANGED <<current_state, transactions, next_transaction>>

\* Audio and video belong to playback, data to any stream the peer made.
media_event ==
  /\ CanReceive
  /\ \E wire \in WireIds, data \in BOOLEAN :
       /\ Known(streams, wire)
       /\ data \/ StateOf(streams, find(streams, wire)) \in {"StartingPlayback", "Playing"}
       /\ Respond(<<Event("media", find(streams, wire))>>)
  /\ UNCHANGED kept

\* Pings are answered; acknowledgements, ping responses, other commands and
\* messages of unknown type become events; the rest, and media that belongs to
\* no stream, says nothing.
handle_control ==
  /\ CanReceive
  /\ \E outs \in {<<Packet("pingResponse", NoWire)>>, <<Event("notice", NoHandle)>>, << >>} :
       Respond(outs)
  /\ UNCHANGED kept

\* Chunks or messages that cannot be decoded, a status without a code, a refused
\* chunk size or window.
InvalidInput ==
  /\ CanReceive
  /\ Fail
  /\ UNCHANGED <<transactions, next_transaction, streams, dead>>

-----------------------------------------------------------------------------
(* The application.                                                        *)

NewTransaction(x) ==
  /\ next_transaction <= MaxTransactions
  /\ transactions' = Map(transactions, next_transaction, x)
  /\ next_transaction' = next_transaction + 1

check_requests == Cardinality(DOMAIN transactions) < MaxPendingRequests

connect ==
  /\ current_state = "Disconnected"
  /\ check_requests
  /\ NewTransaction([kind |-> "connect", stream |-> NoHandle, purpose |-> "none"])
  /\ current_state' = "Connecting"
  /\ Enqueue(<<Packet("connect", NoWire)>>)
  /\ UNCHANGED <<streams, dead>>

create_stream(purpose) ==
  /\ current_state = "Connected"
  /\ Cardinality(Handles(streams)) < MaxStreams
  /\ check_requests
  /\ NewTransaction([kind |-> "create", stream |-> InsertedHandle(streams),
                     purpose |-> purpose])
  /\ streams' = insert(streams, "Creating", NoWire)
  /\ Enqueue(<<Packet("createStream", NoWire)>>)
  /\ UNCHANGED <<current_state, dead>>

play == create_stream("play")
publish == create_stream("publish")

AnyHandle == Handles(streams) \cup dead

\* A defect: a stream that has not started is not deleted on the wire.
DeletePacketsIfRunning(h) ==
  IF StateOf(streams, h) \in {"Playing", "Publishing"}
  THEN <<Packet("deleteStream", WireOf(streams, h))>> ELSE << >>

\* A stream the peer has not made yet is only forgotten.
DeletePackets(h) == IF WireOf(streams, h) = NoWire THEN << >>
                    ELSE <<Packet("deleteStream", WireOf(streams, h))>>

delete_stream ==
  /\ ~failed
  /\ \E h \in AnyHandle :
       /\ Valid(streams, h)
       /\ Delete(h)
       /\ Enqueue(DeletePackets(h))
  /\ UNCHANGED <<current_state, transactions, next_transaction>>

ensure_output_drained == ~failed /\ pending = << >>

\* Sending needs a publishing stream and an empty queue; the packet is returned.
publishing_id(h) == Valid(streams, h) /\ StateOf(streams, h) = "Publishing"

ReturnPacket(o) == written' = o /\ UNCHANGED <<pending, owed, kept>>

\* send_audio, send_video and send_data.
send_media ==
  /\ ensure_output_drained
  /\ \E h \in AnyHandle : publishing_id(h) /\ ReturnPacket(Packet("media", WireOf(streams, h)))

send_metadata ==
  /\ ensure_output_drained
  /\ \E h \in AnyHandle : publishing_id(h) /\ ReturnPacket(Packet("metadata", WireOf(streams, h)))

send_ping_request == ensure_output_drained /\ ReturnPacket(Packet("pingRequest", NoWire))

-----------------------------------------------------------------------------
Init ==
  /\ current_state = "Disconnected"
  /\ pending = << >>
  /\ transactions = << >>
  /\ next_transaction = 1
  /\ streams = NewStreams
  /\ written = NoOutput
  /\ dead = {}
  /\ owed = {}

Receive == \/ Drain \/ UnknownTransaction \/ handle_failed_result \/ connect_accepted
           \/ stream_created \/ stream_number_missing \/ handle_on_status_command
           \/ media_event \/ handle_control \/ InvalidInput

Next == \/ Receive \/ connect \/ play \/ publish \/ delete_stream
        \/ send_media \/ send_metadata \/ send_ping_request

Spec == Init /\ [][Next]_client

-----------------------------------------------------------------------------
\* The states, transactions and outputs the code can hold.
ClientTypeOK ==
  /\ current_state \in {"Disconnected", "Connecting", "Connected", "Failed"}
  /\ \A i \in DOMAIN pending : pending[i].packet \in BOOLEAN
  /\ next_transaction \in 1 .. MaxTransactions + 1
  /\ \A t \in DOMAIN transactions : /\ t \in 1 .. next_transaction - 1
                                    /\ transactions[t].kind \in {"connect", "create"}
  /\ \A h \in Handles(streams) :
       StateOf(streams, h) \in {"Creating", "StartingPlayback", "Playing",
                                "StartingPublish", "Publishing"}
  /\ owed \subseteq WireIds

\* A stream has a wire id exactly when it is no longer Creating, and the index by
\* wire id is exact: expect("publishing stream has a wire ID") and the unwraps in
\* the status handler cannot fail.
StreamsConsistent ==
  /\ ClientTypeOK
  /\ IndexConsistent(streams)
  /\ \A h \in Handles(streams) :
       WireOf(streams, h) = NoWire <=> StateOf(streams, h) = "Creating"
  /\ Cardinality(Handles(streams)) <= MaxStreams

\* A stream being created waits for exactly one answer, and a transaction that
\* outlived its stream never names another one, even in the same slot.  The
\* session is Connecting exactly while one connect transaction is unanswered,
\* whatever answers are repeated or invented.
CreationsHaveTransactions ==
  LET Creations(h) == {t \in DOMAIN transactions :
                         transactions[t].kind = "create" /\ transactions[t].stream = h}
  IN  /\ ~failed => \A h \in Handles(streams) :
           Cardinality(Creations(h)) = IF StateOf(streams, h) = "Creating" THEN 1 ELSE 0
      /\ \A t \in DOMAIN transactions :
           transactions[t].kind = "create" =>
             Valid(streams, transactions[t].stream) \/ transactions[t].stream \in dead
      /\ ~failed => Cardinality({t \in DOMAIN transactions : transactions[t].kind = "connect"}) =
                      IF current_state = "Connecting" THEN 1 ELSE 0

\* docs/zero-copy.md: "Reused storage slots and wire IDs do not revive deleted
\* handles."
ClientHandlesStayInvalid == \A h \in dead : ~Valid(streams, h)

\* Every stream the peer made is either in use or was deleted on the wire:
\* cancelled creations, refused and finished streams leave none behind.
NoStreamLeaked == ~failed => owed = DOMAIN streams.by_wire

\* Nothing new is reported about a stream after its deletion.
SilentAfterDeletion ==
  [][~(pending # << >>) =>
       \A o \in {written'} \cup {pending'[i] : i \in DOMAIN pending'} :
         o.stream # NoHandle => o.stream \notin dead]_client
=============================================================================
