---------------------------- MODULE MediaBodies ----------------------------
(***************************************************************************)
(* The way of a media body: the peer's muxer writes a tag (external; its   *)
(* layout is the one flv.rs reads), the body arrives in segments, perhaps  *)
(* cut short, and the application has it parsed, classified and reduced to *)
(* elementary events.                                                      *)
(***************************************************************************)
EXTENDS Media

CONSTANTS
  TagHeaders,     \* tags a peer begins: see NewTag
  ModExs,         \* extensions: [type, len]
  TracksOf(_),    \* the tracks it may put in a tag: [cc, id, cts, data]
  MaxModEx, MaxTracks

VARIABLES
  tag,        \* the tag the peer writes
  body,       \* what arrived, in segments
  complete,   \* nothing was lost at the end
  media,      \* for each validation mode the ValidatedMedia, or a rejection
  mediaStage
mediaVars == <<tag, body, complete, media, mediaStage>>

\* multi: the multitrack type, or -1.  A legacy tag has code # 0.
NewTag(kind, frame, code, packet_type, multi) ==
  [kind |-> kind, frame |-> frame, code |-> code, packet_type |-> packet_type,
   multi |-> multi, modex |-> <<>>, tracks |-> <<>>]

IsLegacy(t) == t.code # 0
IsCommand(t) ==
  /\ t.kind = "video" /\ t.frame = VIDEO_FRAME_COMMAND
  /\ IF IsLegacy(t) THEN t.code # VIDEO_CODEC_AVC ELSE t.packet_type # VIDEO_PACKET_METADATA
Packets(t) == IF t.kind = "audio" THEN AudioPackets ELSE VideoPackets

-----------------------------------------------------------------------------
(* The peer's muxer.                                                       *)

U16(n) == <<n \div 2^8, n % 2^8>>
U24(n) == <<(n % 2^24) \div 2^16>> \o U16(n % 2^16)

ModExBytes(x, next) ==
  (IF x.len < ModExEscape THEN <<x.len - 1>> ELSE <<ModExEscape - 1>> \o U16(x.len - 1))
  \o [i \in 1 .. x.len |-> 0] \o <<16 * x.type + next>>

TrackBytes(t, track) ==
  LET offset == /\ t.kind = "video" /\ CarriesOffset(track.cc)
                /\ Named(VideoPackets, t.packet_type) = "CodedFrames"
      payload == (IF offset THEN U24(track.cts) ELSE <<>>) \o track.data
  IN IF t.multi = -1 THEN track.cc \o payload
     ELSE (IF t.multi = 2 THEN track.cc ELSE <<>>) \o <<track.id>>
          \o (IF t.multi = 0 THEN <<>> ELSE U24(Len(payload))) \o payload

EnhancedBytes(t) ==
  LET last == IF t.multi = -1 THEN t.packet_type ELSE PACKET_MULTITRACK(t.kind)
      types == [i \in DOMAIN t.modex |-> PACKET_MODEX] \o <<last>>
      first == IF t.kind = "audio" THEN 16 * SOUND_FORMAT_EX_HEADER ELSE 128 + 16 * t.frame
  IN <<first + types[1]>>
     \o FlattenSeq([i \in DOMAIN t.modex |-> ModExBytes(t.modex[i], types[i + 1])])
     \o (IF IsCommand(t) THEN <<1>>
         ELSE (IF t.multi = -1 THEN <<>>
               ELSE <<16 * t.multi + t.packet_type>>
                    \o (IF t.multi = 2 THEN <<>> ELSE t.tracks[1].cc))
              \o FlattenSeq([i \in DOMAIN t.tracks |-> TrackBytes(t, t.tracks[i])]))

LegacyBytes(t) ==
  LET data == t.tracks[1].data
  IN IF t.kind = "audio"
     THEN <<16 * t.code>> \o (IF t.code = SOUND_FORMAT_AAC THEN <<t.packet_type>> ELSE <<>>) \o data
     ELSE <<16 * t.frame + t.code>>
          \o (IF IsCommand(t) THEN <<1>>
              ELSE IF t.code = VIDEO_CODEC_AVC
                THEN <<t.packet_type>> \o U24(t.tracks[1].cts) \o data
              ELSE data)

mux(t) == IF IsLegacy(t) THEN LegacyBytes(t) ELSE EnhancedBytes(t)

\* The segments of a body that is cut at some positions.
RECURSIVE CutAt(_, _, _)
CutAt(bytes, cuts, from) ==
  LET ends == {n \in cuts \cup {Len(bytes)} : n > from}
      to == CHOOSE n \in ends : \A m \in ends : n <= m
  IN IF from = Len(bytes) THEN <<>>
     ELSE <<SubSeq(bytes, from + 1, to)>> \o CutAt(bytes, cuts, to)

-----------------------------------------------------------------------------

Modes == {"Strict", "Passthrough"}
NoTag == NewTag("audio", 0, 1, 0, -1)
MediaInit ==
  /\ tag = NoTag /\ body = <<>> /\ complete = TRUE
  /\ media = [mode \in Modes |-> Opaque] /\ mediaStage = "idle"

BeginTag(t) ==
  /\ tag' = t /\ mediaStage' = "writing"
  /\ UNCHANGED <<body, complete, media>>
AddModEx(x) ==
  /\ ~IsLegacy(tag) /\ tag.tracks = <<>>
  /\ Len(tag.modex) < MaxModEx
  /\ tag' = [tag EXCEPT !.modex = Append(@, x)]
  /\ UNCHANGED <<body, complete, media, mediaStage>>
\* Tracks of one codec share its four letters.
AddTrack(t) ==
  /\ ~IsCommand(tag)
  /\ Len(tag.tracks) < (IF IsLegacy(tag) \/ tag.multi < 1 THEN 1 ELSE MaxTracks)
  /\ tag.multi \in {1, 3} /\ tag.tracks # <<>> => t.cc = tag.tracks[1].cc
  /\ tag' = [tag EXCEPT !.tracks = Append(@, t)]
  /\ UNCHANGED <<body, complete, media, mediaStage>>

Ready == IsCommand(tag) \/ tag.tracks # <<>>
Cuts == IF Ready THEN {{n} : n \in DOMAIN mux(tag)} \cup {DOMAIN mux(tag)} ELSE {}
\* The body arrives in one piece, in two, or byte by byte.
Arrive(cuts) ==
  /\ Ready
  /\ body' = CutAt(mux(tag), cuts, 0)
  /\ mediaStage' = "arrived"
  /\ UNCHANGED <<tag, complete, media>>
Lose(n) ==
  /\ mediaStage = "arrived" /\ complete /\ Len(body) = 1 /\ n < Len(body[1])
  /\ body' = CutAt(SubSeq(body[1], 1, n), {}, 0)
  /\ complete' = FALSE
  /\ UNCHANGED <<tag, media, mediaStage>>
Inspect ==
  /\ mediaStage = "arrived"
  /\ \E m \in {[mode \in Modes |-> parse_media(tag.kind, body, mode)]} : media' = m
  /\ mediaStage' = "inspected"
  /\ UNCHANGED <<tag, body, complete>>

MediaNext ==
  \/ mediaStage = "idle" /\ \E t \in TagHeaders : BeginTag(t)
  \/ mediaStage = "writing" /\ \E x \in ModExs : AddModEx(x)
  \/ mediaStage = "writing" /\ \E t \in TracksOf(tag) : AddTrack(t)
  \/ mediaStage = "writing" /\ \E cuts \in Cuts : Arrive(cuts)
  \/ \E n \in 0 .. SegmentsLen(body) : Lose(n)
  \/ Inspect

-----------------------------------------------------------------------------
(* Properties.                                                             *)

\* The tag as the parser should report it.
AvcPacketOf(t) == Named(AvcPackets, t.packet_type)
LegacyPacketOf(t) ==
  IF t.kind = "audio"
  THEN IF t.code # SOUND_FORMAT_AAC THEN "Other"
       ELSE Named((0 :> "AacSequenceHeader") @@ (1 :> "AacRaw"), t.packet_type)
  ELSE IF t.code = VIDEO_CODEC_AVC THEN AvcPacketOf(t) ELSE "Other"
PacketOf(t) == IF IsLegacy(t) THEN LegacyPacketOf(t) ELSE Named(Packets(t), t.packet_type)

\* An unknown legacy packet reports its offset unsigned.
CarriedOffset(t, track) ==
  IF t.kind = "audio" THEN 0
  ELSE CASE PacketOf(t) = "Nalu" -> track.cts
         [] PacketOf(t) = "CodedFrames" /\ CarriesOffset(track.cc) -> track.cts
         [] PacketOf(t) = "Unknown" /\ IsLegacy(t) -> track.cts % 2^24
         [] OTHER -> 0
\* The parser's track says nothing of the channel map.
Carried(t, track) ==
  [packet |-> PacketOf(t), id |-> IF t.multi = -1 THEN NoTrack ELSE track.id,
   cc |-> IF IsLegacy(t) THEN <<>> ELSE track.cc,
   cts |-> CarriedOffset(t, track),
   data |-> IF PacketOf(t) = "MultichannelConfig" THEN <<track.data[2]>> ELSE track.data]
Read(track) ==
  [packet |-> IF track.packet = "AacUnknown" THEN "Unknown" ELSE track.packet,
   id |-> track.id, cc |-> track.cc, cts |-> track.cts, data |-> track.data]

\* What no parser should accept, and what only passthrough lets by.
Malformed(t) ==
  \/ \E i \in DOMAIN t.modex : t.modex[i].type = 0 /\ t.modex[i].len < NanoOffset
  \/ t.multi # -1 /\ t.packet_type = PACKET_MULTITRACK(t.kind)
  \/ \E i \in DOMAIN t.tracks :
       /\ PacketOf(t) \in {"SequenceStart", "SequenceHeader"} /\ t.kind = "video"
       /\ ~ValidRecord(IF IsLegacy(t) THEN avc1 ELSE t.tracks[i].cc, <<t.tracks[i].data>>)
Unsupported(t) ==
  /\ ~IsLegacy(t)
  /\ \/ \E i \in DOMAIN t.modex : t.modex[i].type # 0
     \/ t.multi = 3 /\ ~IsCommand(t)
     \/ ~IsCommand(t) /\ PacketOf(t) = "Unknown"
     \/ \E i \in DOMAIN t.tracks : t.tracks[i].cc \notin DOMAIN Codecs(t.kind)

Inspected == mediaStage = "inspected"
Found == media["Strict"]
\* Removing the framing gives back what was framed, however the body was cut
\* into segments: a complete body is parsed exactly if it is well formed and
\* known in every part, and its tracks, offsets, payloads and frame type are
\* those the peer wrote, in their order, none swallowed by its neighbour.  In
\* passthrough mode only the bodies that strict mode rejects stay opaque.
FramingRemoved ==
  Inspected /\ complete =>
    /\ media["Passthrough"] = IF Found = Rejected THEN Opaque ELSE Found
    /\ Found.is = "Parsed" <=> ~Malformed(tag) /\ ~Unsupported(tag)
    /\ Found.is = "Parsed" =>
         /\ Found.tag.frame = tag.frame
         /\ IF IsCommand(tag) THEN Found.tag.content \in {"VideoCommand", "Legacy"}
            ELSE /\ Len(Found.tag.tracks) = Len(tag.tracks)
                 /\ \A i \in DOMAIN tag.tracks :
                      Read(Found.tag.tracks[i]) = Carried(tag, tag.tracks[i])

\* A body cut short is rejected, or read as a beginning of the whole one: its
\* first tracks, the last of them shortened only if it has no size of its own.
LossNotInvented ==
  Inspected /\ ~complete /\ Found.is = "Parsed" /\ ~IsCommand(tag) =>
    LET got == Found.tag.tracks
        sized == tag.multi > 0
    IN /\ Len(got) <= Len(tag.tracks)
       /\ \A i \in DOMAIN got :
            LET sent == Carried(tag, tag.tracks[i])
            IN /\ [Read(got[i]) EXCEPT !.data = <<>>] = [sent EXCEPT !.data = <<>>]
               /\ IF sized THEN got[i].data = sent.data ELSE IsPrefix(got[i].data, sent.data)

Events == elementary_events(Found, body)
SomeEvent(what) == \E i \in DOMAIN Events : Events[i].event = what
\* The facts a relay acts on agree with the units a decoder gets from the same
\* body.  Coded means there is a sample, or a legacy codec without elementary
\* form; configuration means there is one, or an MPEG-2 TS one, which has none;
\* a keyframe is a sample marked as one, and a sample of a keyframe makes the
\* message a keyframe unless the server generated it (frame type 4, which
\* classification does not count).
ClassificationAgrees ==
  Inspected =>
    LET c == classification(Found)
    IN /\ c.coded <=> \/ SomeEvent("Sample")
                      \/ SomeEvent("UnsupportedCodec") /\ Found.tag.content = "Legacy"
       /\ c.configuration <=> SomeEvent("Configuration") \/ SomeEvent("Mpeg2TsSequenceStart")
       /\ c.keyframe => \E i \in DOMAIN Events : \/ Events[i].keyframe
                                                 \/ Events[i].event = "UnsupportedCodec"
       /\ \A i \in DOMAIN Events :
            /\ tag.kind = "video" /\ Events[i].keyframe =>
                 c.keyframe \/ tag.frame = VIDEO_FRAME_GENERATED_KEY
            /\ IsUnit(Events[i]) /\ complete => Events[i].data = tag.tracks[i].data
=============================================================================
