--------------------------- MODULE ServerSession ---------------------------
(***************************************************************************)
(* sessions::ServerSession: the server's end of one RTMP connection.       *)
(*                                                                         *)
(* The peer's messages arrive through receive, one at a time and only when *)
(* every earlier output has been handed out.  The application accepts and  *)
(* rejects requests, sends on playback streams and completes them, in any  *)
(* order and at any time the code allows.                                  *)
(*                                                                         *)
(* An output is an event (csid 0) or a packet.  For a packet, "ahead" is   *)
(* the number of packets serialised before it on its chunk stream and not  *)
(* handed out yet, and "full" says whether its header stands alone or was  *)
(* compressed against the previous one on that chunk stream.  Chunk        *)
(* streams 4 and 5 carry only media packets, which are handed out as they  *)
(* are made; their headers are the subject of ChunkWire.                   *)
(*                                                                         *)
(* Application names, stream keys, publish modes and payloads do not       *)
(* matter here.  That a message completes an acknowledgement window is a   *)
(* free choice; AckWindow counts the bytes.                                *)
(***************************************************************************)
EXTENDS Streams, FiniteSetsExt

CONSTANTS MaxStreams, MaxPendingRequests,  \* SessionLimits
          StreamIdMax,         \* u32::MAX: the last wire stream id
          MaxObjectEncoding,   \* "Amf0" or "Amf3", from the configuration
          SendOnBwDone,        \* send_on_bw_done_message_on_start
          PeerEncodings,       \* the framings the peer uses and asks for
          MaxRequests          \* bound on the number of requests

ASSUME ServerAssumption ==
  /\ MaxStreams \in Nat /\ MaxPendingRequests \in Nat /\ StreamIdMax \in Nat \ {0}
  /\ MaxObjectEncoding \in {"Amf0", "Amf3"} /\ SendOnBwDone \in BOOLEAN
  /\ PeerEncodings \subseteq {"Amf0", "Amf3"}
  /\ MaxRequests \in Nat /\ NoWire \notin Nat

VARIABLES
  failed, connected,
  pending,           \* outputs not handed out yet
  control,           \* pending_connection_control
  outstanding,       \* request number -> [kind, stream, encoding]
  next_request,
  negotiated, peer_amf3, response_encoding,
  active_streams,    \* wire id -> stream state
  stream_handles,
  next_stream_id,
  previous,          \* serializer: message stream of the last header per chunk stream
  written,           \* what the last call handed out, or NoOutput
  dead               \* handles of deleted streams

amf  == <<negotiated, peer_amf3, response_encoding>>
tables == <<active_streams, stream_handles, next_stream_id, dead>>
requests == <<outstanding, next_request>>
server == <<failed, connected, pending, control, requests, amf, tables, previous, written>>

-----------------------------------------------------------------------------
(* Outputs and the serializer.                                             *)

NoOutput == [what |-> "none", csid |-> 0, msid |-> 0, full |-> FALSE, ahead |-> 0,
             amf3 |-> FALSE]

Event(what, stream) == [NoOutput EXCEPT !.what = what, !.msid = stream]

Packet(what, csid, stream, amf3) ==
  [NoOutput EXCEPT !.what = what, !.csid = csid, !.msid = stream, !.amf3 = amf3]

\* Protocol control and user control messages, on chunk stream 2.
Control(what, stream) == Packet(what, 2, stream, FALSE)

\* Commands, type 17 or 20, and data, type 15 or 18.
CommandPacket(what, stream, amf3) == Packet(what, 6, stream, amf3)
DataPacket(what, stream, amf3) == Packet(what, IF amf3 THEN 6 ELSE 3, stream, amf3)

Unsent(queue, csid) == Cardinality({i \in DOMAIN queue : queue[i].csid = csid})

\* The outputs outs as the serializer makes them, after what waits in queue.
Serialized(outs, queue) ==
  [i \in DOMAIN outs |->
    LET o == outs[i]
        before == {j \in 1 .. i - 1 : outs[j].csid = o.csid}
        last == IF before = {} THEN previous[o.csid] ELSE outs[Max(before)].msid
    IN IF o.csid \notin DOMAIN previous THEN o
       ELSE [o EXCEPT !.full = (@ \/ last # o.msid),
                      !.ahead = Unsent(queue, o.csid) + Cardinality(before)]]

\* The serializer's state after it made them.
PreviousAfter(outs) ==
  [c \in DOMAIN previous |->
    LET made == {i \in DOMAIN outs : outs[i].csid = c} IN
    IF made = {} THEN previous[c] ELSE outs[Max(made)].msid]

\* What is left in queue once o has been handed out.
After(o, queue) ==
  [i \in DOMAIN queue |->
    IF queue[i].csid = o.csid /\ queue[i].ahead > o.ahead
    THEN [queue[i] EXCEPT !.ahead = @ - 1] ELSE queue[i]]

\* Preamble serialised by new, with forced full headers.
Preamble ==
  LET first == <<Control("setChunkSize", 0), Control("windowAck", 0),
                 Control("preambleBegin", 0), Control("peerBandwidth", 0)>>
      outs  == IF SendOnBwDone THEN Append(first, CommandPacket("onBWDone", 0, FALSE))
               ELSE first
  IN [i \in DOMAIN outs |-> [outs[i] EXCEPT !.full = TRUE,
                                            !.ahead = IF i <= 4 THEN i - 1 ELSE 0]]

PreambleKinds == {"setChunkSize", "windowAck", "preambleBegin", "peerBandwidth", "onBWDone"}

\* receive hands out the first of outs and queues the rest; a message that
\* completes a window has its acknowledgement in front.
Respond(outs) ==
  \E ack \in BOOLEAN :
    LET all  == IF ack THEN <<Control("acknowledgement", 0)>> \o outs ELSE outs
        made == Serialized(all, control)
    IN /\ previous' = PreviousAfter(all)
       /\ written' = IF made = << >> THEN NoOutput ELSE Head(made)
       /\ pending' = IF made = << >> THEN << >> ELSE After(Head(made), Tail(made))

\* A call of the application that queues the packets outs, in the order of
\* serialisation, permuted as the code returns them, behind what it held back.
Enqueue(held, outs, order) ==
  LET made == Serialized(outs, pending \o control) IN
  /\ previous' = PreviousAfter(outs)
  /\ pending' = pending \o held \o [i \in DOMAIN order |-> made[order[i]]]
  /\ written' = NoOutput

\* A call that returns its packet.
ReturnPacket(o) == /\ previous' = PreviousAfter(<<o>>)
                   /\ written' = Serialized(<<o>>, pending \o control)[1]
                   /\ UNCHANGED pending

-----------------------------------------------------------------------------
(* receive                                                                 *)

\* Hand out a queued output.
Drain ==
  /\ ~failed
  /\ pending # << >>
  /\ written' = Head(pending)
  /\ pending' = After(Head(pending), Tail(pending))
  /\ UNCHANGED <<failed, connected, control, requests, amf, tables, previous>>

CanReceive == ~failed /\ pending = << >>

\* An error is terminal, and nothing more is handed out.
Fail == /\ failed' = TRUE
        /\ pending' = << >>
        /\ written' = NoOutput
        /\ UNCHANGED previous

\* An AMF0 or AMF3 command message.
Command == /\ CanReceive
           /\ \E encoding \in PeerEncodings :
                /\ response_encoding' = encoding
                /\ peer_amf3' = (peer_amf3 \/ encoding = "Amf3")

\* encode_response, for the response being made in this step.
Amf3Response == negotiated = "Amf3" /\ response_encoding' = "Amf3"

\* Every request takes a number, also the one that exceeds the limit.
AddRequest(r, event) ==
  /\ next_request < MaxRequests
  /\ next_request' = next_request + 1
  /\ IF Cardinality(DOMAIN outstanding) >= MaxPendingRequests
     THEN Fail /\ UNCHANGED outstanding
     ELSE /\ outstanding' = Map(outstanding, next_request, r)
          /\ Respond(<<Event(event, r.stream)>>)
          /\ UNCHANGED failed

negotiate(a, b) == IF a = "Amf3" /\ b = "Amf3" THEN "Amf3" ELSE "Amf0"

handle_command_connect ==
  /\ Command
  /\ \/ Fail /\ UNCHANGED <<requests, negotiated>>   \* no application name
     \/ \E requested \in PeerEncodings :
          /\ negotiated' = negotiate(requested, MaxObjectEncoding)
          /\ AddRequest([kind |-> "connect", stream |-> 0, encoding |-> response_encoding'],
                        "connectionRequested")
  /\ UNCHANGED <<connected, control, tables>>

\* A defect: the end of a playback is not reported.
FinishedEventPublishOnly(stream) ==
  IF active_streams[stream] = "Publishing" THEN <<Event("publishFinished", stream)>>
  ELSE << >>

\* The event that ends a running stream.
FinishedEvent(stream) ==
  CASE active_streams[stream] = "Publishing" -> <<Event("publishFinished", stream)>>
    [] active_streams[stream] = "Playing"    -> <<Event("playFinished", stream)>>
    [] OTHER -> << >>

\* 0 is the control stream, never created, and StreamIdMax is never reached.
WireIds == 0 .. StreamIdMax - 1

\* The commands on stream ids are ignored until the connection is accepted.
handle_command_close_stream ==
  /\ Command
  /\ \E stream \in WireIds :
       IF connected /\ stream \in DOMAIN active_streams
       THEN /\ Respond(FinishedEvent(stream))
            /\ active_streams' = [active_streams EXCEPT ![stream] = "Created"]
       ELSE Respond(<< >>) /\ UNCHANGED active_streams
  /\ UNCHANGED <<failed, connected, control, requests, negotiated, stream_handles,
                 next_stream_id, dead>>

\* A defect: wire ids run over.
StreamsExhaustedByCount == Cardinality(DOMAIN active_streams) >= MaxStreams

StreamsExhausted == \/ Cardinality(DOMAIN active_streams) >= MaxStreams
                    \/ next_stream_id = StreamIdMax

\* Not restricted to connected sessions.
handle_command_create_stream ==
  /\ Command
  /\ IF StreamsExhausted
     THEN Fail /\ UNCHANGED tables
     ELSE /\ next_stream_id' = next_stream_id + 1
          /\ active_streams' = Map(active_streams, next_stream_id, "Created")
          /\ stream_handles' = insert(stream_handles, NoState, next_stream_id)
          /\ Respond(<<CommandPacket("createResult", 0, Amf3Response)>>)
          /\ UNCHANGED <<failed, dead>>
  /\ UNCHANGED <<connected, control, requests, negotiated>>

\* A defect: the play requests of a deleted stream stay.
ConcernsStreamPublishOnly(r, stream) == r.kind = "publish" /\ r.stream = stream

ConcernsStream(r, stream) == r.kind # "connect" /\ r.stream = stream

handle_command_delete_stream ==
  /\ Command
  /\ \E stream \in WireIds :
       IF connected /\ stream \in DOMAIN active_streams
       THEN /\ active_streams' = Restrict(active_streams, DOMAIN active_streams \ {stream})
            /\ outstanding' = RestrictValues(outstanding, LAMBDA r : ~ConcernsStream(r, stream))
            /\ Respond(FinishedEvent(stream))
            /\ IF Known(stream_handles, stream)
               THEN /\ stream_handles' = remove(stream_handles, find(stream_handles, stream))
                    /\ dead' = dead \cup {find(stream_handles, stream)}
               ELSE UNCHANGED <<stream_handles, dead>>
       ELSE Respond(<< >>) /\ UNCHANGED <<outstanding, active_streams, stream_handles, dead>>
  /\ UNCHANGED <<failed, connected, control, next_request, negotiated, next_stream_id>>

\* publish and play: unusable arguments, an unaccepted connection and an
\* unknown stream are answered with an error; anything else is a request.
StreamRequest(kind, event) ==
  /\ Command
  /\ \E stream \in WireIds :
       \/ /\ connected /\ Known(stream_handles, stream)
          /\ AddRequest([kind |-> kind, stream |-> stream, encoding |-> response_encoding'],
                        event)
       \/ /\ Respond(<<CommandPacket("requestError", stream, Amf3Response)>>)
          /\ UNCHANGED <<failed, requests>>
  /\ UNCHANGED <<connected, control, negotiated, tables>>

handle_command_publish == StreamRequest("publish", "publishRequested")

handle_command_play == StreamRequest("play", "playRequested")

UnhandledCommand ==
  /\ Command
  /\ Respond(<<Event("unhandledCommand", 0)>>)
  /\ UNCHANGED <<failed, connected, control, requests, negotiated, tables>>

\* Audio, video and data are events only for streams being published.
Published(stream) == /\ connected
                     /\ stream \in DOMAIN active_streams
                     /\ active_streams[stream] = "Publishing"

audio_event ==
  /\ CanReceive
  /\ \E stream \in WireIds :
       Respond(IF Published(stream) THEN <<Event("media", stream)>> ELSE << >>)
  /\ UNCHANGED <<failed, connected, control, requests, amf, tables>>

data_event ==
  /\ CanReceive
  /\ \E stream \in WireIds, encoding \in PeerEncodings :
       /\ peer_amf3' = (peer_amf3 \/ encoding = "Amf3")
       /\ Respond(IF Published(stream) THEN <<Event("media", stream)>> ELSE << >>)
  /\ UNCHANGED <<failed, connected, control, requests, negotiated, response_encoding, tables>>

\* A ping is answered; a ping response, an acknowledgement or a message of an
\* unknown type becomes an event; the other control messages say nothing here.
handle_control ==
  /\ CanReceive
  /\ \E outs \in {<<Control("pingResponse", 0)>>, <<Event("notice", 0)>>, << >>} :
       Respond(outs)
  /\ UNCHANGED <<failed, connected, control, requests, amf, tables>>

\* Chunks or a message that cannot be decoded, a chunk size or a window that
\* is refused.
InvalidInput ==
  /\ CanReceive
  /\ Fail
  /\ UNCHANGED <<connected, control, requests, amf, tables>>

-----------------------------------------------------------------------------
(* The application's decisions.                                            *)

\* The application learns a request's number from its event.  Only the event of
\* the newest request can still be queued.
Announced(r) == r = next_request - 1 =>
  \A i \in DOMAIN pending :
    pending[i].what \notin {"connectionRequested", "publishRequested", "playRequested"}

\* The request is taken out before anything else is done; its encoding is the
\* one of the response.
TakeRequest(r, kind) ==
  /\ ~failed
  /\ r \in DOMAIN outstanding /\ Announced(r)
  /\ outstanding[r].kind = kind
  /\ outstanding' = Restrict(outstanding, DOMAIN outstanding \ {r})
  /\ response_encoding' = outstanding[r].encoding

\* A defect: the preamble is left behind.
AnswerConnectAlone(what) ==
  /\ Enqueue(<< >>, <<CommandPacket(what, 0, Amf3Response)>>, <<1>>)
  /\ UNCHANGED control

\* The answer to a connect request follows the preamble.
AnswerConnect(what) ==
  /\ Enqueue(control, <<CommandPacket(what, 0, Amf3Response)>>, <<1>>)
  /\ control' = << >>

accept_connection_request ==
  /\ \E r \in DOMAIN outstanding : TakeRequest(r, "connect")
  /\ connected' = TRUE
  /\ AnswerConnect("connectResult")
  /\ UNCHANGED <<failed, next_request, negotiated, peer_amf3, tables>>

accept_publish_request ==
  /\ \E r \in DOMAIN outstanding :
       LET stream == outstanding[r].stream IN
       /\ TakeRequest(r, "publish")
       /\ IF stream \in DOMAIN active_streams
          THEN /\ active_streams' = [active_streams EXCEPT ![stream] = "Publishing"]
               /\ Enqueue(<< >>, <<Control("streamBegin", stream),
                                   CommandPacket("publishStart", stream, Amf3Response)>>,
                          <<1, 2>>)
          ELSE written' = NoOutput /\ UNCHANGED <<active_streams, pending, previous>>
  /\ UNCHANGED <<failed, connected, control, next_request, negotiated, peer_amf3,
                 stream_handles, next_stream_id, dead>>

\* The reset status is serialised last and queued first.
accept_play_request ==
  /\ \E r \in DOMAIN outstanding :
       LET stream == outstanding[r].stream IN
       /\ TakeRequest(r, "play")
       /\ IF stream \in DOMAIN active_streams
          THEN /\ active_streams' = [active_streams EXCEPT ![stream] = "Playing"]
               /\ Enqueue(<< >>, <<Control("streamBegin", stream),
                                   CommandPacket("playStart", stream, Amf3Response),
                                   DataPacket("sampleAccess", stream, Amf3Response),
                                   DataPacket("dataStart", stream, Amf3Response),
                                   CommandPacket("playReset", stream, Amf3Response)>>,
                          <<5, 1, 2, 3, 4>>)
          ELSE written' = NoOutput /\ UNCHANGED <<active_streams, pending, previous>>
  /\ UNCHANGED <<failed, connected, control, next_request, negotiated, peer_amf3,
                 stream_handles, next_stream_id, dead>>

\* A refused connect is answered behind the preamble, like an accepted one.
reject_request ==
  /\ \E r \in DOMAIN outstanding, kind \in {"connect", "publish", "play"} :
       /\ TakeRequest(r, kind)
       /\ IF kind = "connect"
          THEN AnswerConnect("connectError")
          ELSE /\ Enqueue(<< >>, <<CommandPacket("statusError", outstanding[r].stream,
                                                 Amf3Response)>>, <<1>>)
               /\ UNCHANGED control
  /\ UNCHANGED <<failed, connected, next_request, negotiated, peer_amf3, tables>>

-----------------------------------------------------------------------------
(* Sending.                                                                *)

ensure_output_drained == ~failed /\ pending = << >> /\ connected

\* The stream of a handle the application holds, if the table knows it.
stream_state(h) == active_streams[WireOf(stream_handles, h)]

playback_id(h) == /\ Valid(stream_handles, h)
                  /\ stream_state(h) = "Playing"

\* A defect: what the peer has used does not matter.
NegotiatedEncoding == negotiated

server_initiated_encoding == IF negotiated = "Amf3" /\ peer_amf3 THEN "Amf3" ELSE "Amf0"

AnyHandle == Handles(stream_handles) \cup dead

\* send_audio and send_video: chunk streams 5 and 4.
send_media ==
  /\ ensure_output_drained
  /\ \E h \in AnyHandle, csid \in {4, 5} :
       /\ playback_id(h)
       /\ written' = Packet("media", csid, WireOf(stream_handles, h), FALSE)
  /\ UNCHANGED <<failed, connected, pending, control, requests, amf, tables, previous>>

\* The application chooses the type of its data.
send_data ==
  /\ ensure_output_drained
  /\ \E h \in AnyHandle, amf3 \in BOOLEAN :
       /\ playback_id(h)
       /\ ReturnPacket(DataPacket("data", WireOf(stream_handles, h), amf3))
  /\ UNCHANGED <<failed, connected, control, requests, amf, tables>>

send_metadata ==
  /\ ensure_output_drained
  /\ \E h \in AnyHandle :
       /\ playback_id(h)
       /\ response_encoding' = server_initiated_encoding
       /\ ReturnPacket(DataPacket("metadata", WireOf(stream_handles, h), Amf3Response))
  /\ UNCHANGED <<failed, connected, control, requests, negotiated, peer_amf3, tables>>

send_ping_request ==
  /\ ensure_output_drained
  /\ ReturnPacket(Control("pingRequest", 0))
  /\ UNCHANGED <<failed, connected, control, requests, amf, tables>>

complete_playback ==
  /\ ensure_output_drained
  /\ \E h \in AnyHandle :
       LET stream == WireOf(stream_handles, h) IN
       /\ Valid(stream_handles, h)
       /\ response_encoding' = server_initiated_encoding
       /\ IF stream_state(h) = "Playing"
          THEN /\ active_streams' = [active_streams EXCEPT ![stream] = "Completed"]
               /\ ReturnPacket(CommandPacket("playComplete", stream, Amf3Response))
          ELSE written' = NoOutput /\ UNCHANGED <<active_streams, pending, previous>>
  /\ UNCHANGED <<failed, connected, control, requests, negotiated, peer_amf3,
                 stream_handles, next_stream_id, dead>>

-----------------------------------------------------------------------------
Init ==
  /\ failed = FALSE /\ connected = FALSE
  /\ pending = << >>
  /\ control = Preamble
  /\ outstanding = << >> /\ next_request = 0
  /\ negotiated = "Amf0" /\ peer_amf3 = FALSE /\ response_encoding = "Amf0"
  /\ active_streams = << >> /\ stream_handles = NewStreams /\ next_stream_id = 1
  /\ previous = [c \in {2, 3, 6} |->
                   IF c = 2 \/ (c = 6 /\ SendOnBwDone) THEN 0 ELSE NoWire]
  /\ written = NoOutput
  /\ dead = {}

Receive == \/ Drain
           \/ handle_command_connect \/ handle_command_close_stream
           \/ handle_command_create_stream \/ handle_command_delete_stream
           \/ handle_command_publish \/ handle_command_play
           \/ UnhandledCommand \/ audio_event \/ data_event
           \/ handle_control \/ InvalidInput

Decide == \/ accept_connection_request \/ accept_publish_request
          \/ accept_play_request \/ reject_request

Send == \/ send_media \/ send_data \/ send_metadata
        \/ send_ping_request \/ complete_playback

Next == Receive \/ Decide \/ Send

Spec == Init /\ [][Next]_server

-----------------------------------------------------------------------------
Answers == {"connectResult", "connectError"}

\* What is said outside the preamble and the answers to a connect request.
PlainKinds ==
  {"none", "connectionRequested", "publishRequested", "playRequested",
   "publishFinished", "playFinished", "unhandledCommand", "media", "notice",
   "acknowledgement", "pingRequest", "pingResponse", "streamBegin",
   "createResult", "requestError", "statusError", "publishStart", "playStart", "playReset",
   "playComplete", "sampleAccess", "dataStart", "data", "metadata"}

Outputs == [what : PreambleKinds \cup Answers \cup PlainKinds, csid : 0 .. 6,
            msid : WireIds, full : BOOLEAN, ahead : Nat, amf3 : BOOLEAN]

ServerTypeOK ==
  /\ failed \in BOOLEAN /\ connected \in BOOLEAN
  /\ pending \in Seq(Outputs) /\ control \in Seq(Outputs) /\ written \in Outputs
  /\ \A r \in DOMAIN outstanding :
       outstanding[r] \in [kind : {"connect", "publish", "play"}, stream : WireIds,
                           encoding : {"Amf0", "Amf3"}]
  /\ next_request \in 0 .. MaxRequests /\ next_stream_id \in 1 .. StreamIdMax
  /\ negotiated \in {"Amf0", "Amf3"} /\ response_encoding \in {"Amf0", "Amf3"}
  /\ peer_amf3 \in BOOLEAN
  /\ \A s \in DOMAIN active_streams :
       active_streams[s] \in {"Created", "Publishing", "Playing", "Completed"}

\* The two tables that describe a stream, active_streams and the handle table,
\* name the same streams: no expect("known stream") can fail, no stream is left
\* without a handle, and no handle leads to a stream that is gone.
TablesAgree ==
  /\ IndexConsistent(stream_handles)
  /\ DOMAIN active_streams = DOMAIN stream_handles.by_wire
  /\ Cardinality(Handles(stream_handles)) <= MaxStreams

\* Every publish or play request still waiting for a decision is about a live
\* stream, so accepting it cannot fail half way with the request already gone.
RequestsConcernLiveStreams ==
  /\ \A r \in DOMAIN outstanding :
       outstanding[r].kind # "connect" => outstanding[r].stream \in DOMAIN active_streams
  /\ Cardinality(DOMAIN outstanding) <= MaxPendingRequests

\* docs/zero-copy.md: "Reused storage slots and wire IDs do not revive deleted
\* handles."
DeletedHandlesStayInvalid == \A h \in dead : ~Valid(stream_handles, h)

\* The answer to a connect request never overtakes the preamble, however many
\* connect requests are waiting and in whatever order they are decided.
ConnectAnswerAfterPreamble ==
  written.what \in Answers =>
    /\ control = << >>
    /\ \A i \in DOMAIN pending : pending[i].what \notin PreambleKinds

\* AMF3 framing only reaches a peer that has used it itself: "pushing type 15 at
\* it unprompted is a needless compatibility risk".
Amf3OnlyIfUsed ==
  \A o \in {written} \cup {pending[i] : i \in DOMAIN pending} :
    o.amf3 /\ o.what # "data" => peer_amf3

\* What a call returned, and behind it what it left to be handed out.
Said(i) == IF i = 0 THEN written ELSE pending[i]

\* A running stream that is closed or deleted is reported as finished, once and
\* to the application that was told it runs.
EndsWithEvent ==
  [][\A s \in DOMAIN active_streams :
       /\ active_streams[s] \in {"Publishing", "Playing"}
       /\ s \notin DOMAIN active_streams' \/ active_streams'[s] = "Created"
       => Cardinality({i \in {0} \cup DOMAIN pending' :
            /\ Said(i)'.msid = s
            /\ Said(i)'.what = IF active_streams[s] = "Publishing" THEN "publishFinished"
                                                                   ELSE "playFinished"}) = 1]_server

\* docs/zero-copy.md: "Send packets in production order."  The outputs that one
\* decision queues are in the order of their serialisation on each chunk stream.
DecisionInProductionOrder ==
  [][Len(pending') > Len(pending) =>
       \A i, j \in Len(pending) + 1 .. Len(pending') :
         i < j /\ pending'[i].csid = pending'[j].csid /\ pending'[i].csid # 0
           => pending'[i].ahead < pending'[j].ahead]_server

\* server/mod.rs:683: a packet must not reuse "the preamble's chunk stream as a
\* continuation the peer never saw and cannot decode".
HeadersRestOnSentOnes == written.csid \notin {0, 4, 5} => written.full \/ written.ahead = 0
=============================================================================
