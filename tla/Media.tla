------------------------------- MODULE Media -------------------------------
(***************************************************************************)
(* Media bodies: the tag parser (flv.rs), its validation and               *)
(* classification (media.rs) and the reduction to elementary events        *)
(* (elementary.rs).  A body is a sequence of non-empty segments, as        *)
(* payload.rs yields them; a cursor walks over them.                       *)
(*                                                                         *)
(* A cursor keeps the first error; v is what the last operation returned.  *)
(* Audio and video share an operator where the code has the same function  *)
(* twice.                                                                  *)
(***************************************************************************)
EXTENDS Integers, Sequences, SequencesExt

CONSTANTS
  AvcRecord, HevcRecord, Av1Record,   \* the shortest records (7, 23 and 4 bytes)
  ModExEscape,                        \* the size that announces a longer one (256)
  NanoOffset                          \* the bytes of the known extension (3)

NoError == "Ok"
NoTrack == -1
NoFourCc == <<0, 0, 0, 0>>

SOUND_FORMAT_EX_HEADER == 9
SOUND_FORMAT_AAC == 10
VIDEO_CODEC_AVC == 7
VIDEO_FRAME_KEY == 1
VIDEO_FRAME_GENERATED_KEY == 4
VIDEO_FRAME_COMMAND == 5
VIDEO_PACKET_METADATA == 4
PACKET_MODEX == 7
PACKET_MULTITRACK(kind) == IF kind = "audio" THEN 5 ELSE 6
Contents == <<"OneTrack", "ManyTracks", "ManyTracksManyCodecs">>

\* What each packet type is called; the others are unknown.
AudioPackets == (0 :> "SequenceStart") @@ (1 :> "CodedFrames") @@ (2 :> "SequenceEnd")
                @@ (4 :> "MultichannelConfig")
VideoPackets == (0 :> "SequenceStart") @@ (1 :> "CodedFrames") @@ (2 :> "SequenceEnd")
                @@ (3 :> "CodedFramesX") @@ (4 :> "Metadata") @@ (5 :> "Mpeg2TsSequenceStart")
Named(types, n) == IF n \in DOMAIN types THEN types[n] ELSE "Unknown"

\* The known codecs and their four letters.
avc1 == <<97, 118, 99, 49>>
hvc1 == <<104, 118, 99, 49>>
vvc1 == <<118, 118, 99, 49>>
av01 == <<97, 118, 48, 49>>
AudioCodecs ==
  (<<109, 112, 52, 97>> :> "Aac") @@ (<<79, 112, 117, 115>> :> "Opus")
  @@ (<<102, 76, 97, 67>> :> "Flac") @@ (<<97, 99, 45, 51>> :> "Ac3")
  @@ (<<101, 99, 45, 51>> :> "Eac3") @@ (<<46, 109, 112, 51>> :> "Mp3")
VideoCodecs ==
  (avc1 :> "Avc") @@ (hvc1 :> "Hevc") @@ (av01 :> "Av1") @@ (vvc1 :> "Vvc")
  @@ (<<118, 112, 48, 56>> :> "Vp8") @@ (<<118, 112, 48, 57>> :> "Vp9")
Codecs(kind) == IF kind = "audio" THEN AudioCodecs ELSE VideoCodecs
CarriesOffset(cc) == cc \in {avc1, hvc1, vvc1}

-----------------------------------------------------------------------------
(* Segments and the cursor.                                                *)

SegmentsLen(segs) == FoldLeft(LAMBDA n, s : n + Len(s), 0, segs)
Flat(segs) == FlattenSeq(segs)

\* media_slice: bytes from .. to - 1, without empty segments.
media_slice(segs, from, to) ==
  FoldLeft(LAMBDA acc, s :
             LET lo == IF from > acc.at THEN from - acc.at ELSE 0
                 hi == IF to - acc.at < Len(s) THEN to - acc.at ELSE Len(s)
             IN [at |-> acc.at + Len(s),
                 out |-> IF lo < hi THEN Append(acc.out, SubSeq(s, lo + 1, hi)) ELSE acc.out],
           [at |-> 0, out |-> <<>>], segs).out

NewCursor(raw) == [err |-> NoError, raw |-> raw, pos |-> 0, v |-> 0]
Failed(c) == c.err # NoError
FlvError(c, why) == IF Failed(c) THEN c ELSE [c EXCEPT !.err = why, !.v = 0]
Yield(c, v) == IF Failed(c) THEN c ELSE [c EXCEPT !.v = v]

remaining(c) == SegmentsLen(c.raw) - c.pos
commit(c) == [c EXCEPT !.raw = media_slice(c.raw, c.pos, SegmentsLen(c.raw)), !.pos = 0]

next_byte(c) == [c EXCEPT !.v = c.raw[1][c.pos + 1], !.pos = @ + 1]
\* A segment is left behind when the next byte is wanted, not before.
read_u8(c) ==
  IF Failed(c) THEN c
  ELSE IF remaining(c) = 0 THEN FlvError(c, "truncated")
  ELSE next_byte(IF c.pos = Len(c.raw[1]) THEN commit(c) ELSE c)

\* n bytes, one after the other.
collect(c, byte) == Yield(byte, Append(c.v, byte.v))
read_bytes(c, n) ==
  FoldLeft(LAMBDA r, i : collect(r, read_u8(r)), Yield(c, <<>>), [i \in 1 .. n |-> i])
big_endian(r) == Yield(r, FoldLeft(LAMBDA n, b : 2^8 * n + b, 0, r.v))
read_u16(c) == big_endian(read_bytes(c, 2))
read_u24(c) == big_endian(read_bytes(c, 3))
sign_extend_cts(v) == IF v < 2^23 THEN v ELSE v - 2^24
signed(r) == Yield(r, sign_extend_cts(r.v))
read_i24(c) == signed(read_u24(c))
read_fourcc(c) == read_bytes(c, 4)

taken(c, len) == [c EXCEPT !.raw = media_slice(c.raw, len, SegmentsLen(c.raw)),
                           !.v = media_slice(c.raw, 0, len)]
\* A defect: a slice longer than the body ends with it.
takeClamped(c, len) ==
  IF Failed(c) THEN c
  ELSE taken(commit(c), IF len > remaining(c) THEN remaining(c) ELSE len)
take(c, len) ==
  IF Failed(c) THEN c
  ELSE IF remaining(c) < len THEN FlvError(c, "truncated")
  ELSE taken(commit(c), len)
take_rest(c) == IF Failed(c) THEN c ELSE taken(commit(c), remaining(c))

-----------------------------------------------------------------------------
(* The parser (flv.rs).                                                    *)

\* ParsedAudio, ParsedVideo: what a tag was found to hold, one track when it is
\* not multitrack; a track's packet is named as its variant.
Track(cc, id, packet, ptype, cts, data) ==
  [cc |-> cc, id |-> id, packet |-> packet, ptype |-> ptype, cts |-> cts, data |-> Flat(data)]
ParsedTag(kind, frame, code, content, unknown_modex, tracks) ==
  [kind |-> kind, frame |-> frame, code |-> code, content |-> content,
   unknown_modex |-> unknown_modex, tracks |-> tracks]

\* One extension: its size, its data, then its type and the next packet type.
\* Yields <<unknown, next packet type>>.
plus_one(r) == Yield(r, r.v + 1)
modex_size(short) == plus_one(IF short.v + 1 = ModExEscape THEN read_u16(short) ELSE short)
modex_data(size) == take(size, size.v)
modex_type(data, next) ==
  IF Failed(next) THEN next
  ELSE IF next.v \div 16 # 0 THEN Yield(next, <<TRUE, next.v % 16>>)
  ELSE IF SegmentsLen(data.v) < NanoOffset THEN FlvError(next, "modExData")
  ELSE Yield(next, <<FALSE, next.v % 16>>)
after_data(data) == modex_type(data, read_u8(data))
read_modex(c) == after_data(modex_data(modex_size(read_u8(c))))

\* The packet type at the end of a chain of extensions; r is the chain so far.
also(r, unknown) == Yield(r, <<unknown \/ r.v[1], r.v[2]>>)
RECURSIVE resolve_modex(_)
resolve_modex(r) ==
  IF Failed(r) \/ r.v[2] # PACKET_MODEX THEN r
  ELSE resolve_modex(also(read_modex(r), r.v[1]))

EnhancedHeader(packet_type, unknown_modex, content, four_cc) ==
  [packet_type |-> packet_type, unknown_modex |-> unknown_modex,
   content |-> content, four_cc |-> four_cc]

\* The byte that follows the multitrack packet type.
multitrack_content(byte, kind, unknown) ==
  LET type == byte.v \div 16
      packet_type == byte.v % 16
      cc == IF type = 2 THEN Yield(byte, NoFourCc) ELSE read_fourcc(byte)
  IN IF Failed(byte) THEN byte
     ELSE IF packet_type = PACKET_MULTITRACK(kind) THEN FlvError(byte, "nested multitracks")
     ELSE Yield(cc, EnhancedHeader(packet_type, unknown,
                                   IF type < 3 THEN Contents[type + 1] ELSE "Unknown", cc.v))
multitrack_header(c, kind, unknown) == multitrack_content(read_u8(c), kind, unknown)

\* enhanced_audio_header, enhanced_video_header; frame is 0 for audio.  What
\* follows the chain of extensions depends on the packet type it ends with.
plain_header(c, chain) ==
  Yield(c, EnhancedHeader(chain.v[2], chain.v[1], "NoMultitrack", c.v))
header_after(chain, kind, frame) ==
  IF Failed(chain) THEN chain
  ELSE IF kind = "video" /\ chain.v[2] # VIDEO_PACKET_METADATA /\ frame = VIDEO_FRAME_COMMAND
    THEN Yield(read_u8(chain), EnhancedHeader(chain.v[2], chain.v[1], "VideoCommand", NoFourCc))
  ELSE IF chain.v[2] = PACKET_MULTITRACK(kind) THEN multitrack_header(chain, kind, chain.v[1])
  ELSE plain_header(read_fourcc(chain), chain)
enhanced_header(c, kind, frame, initial) ==
  header_after(resolve_modex(Yield(c, <<FALSE, initial>>)), kind, frame)

\* The size of a packet, or NoSize: it takes what remains.
NoSize == -1
sized_payload(c, size) == IF size = NoSize THEN take_rest(c) ELSE take(c, size)
packet_size(c, sized) == IF sized THEN read_u24(c) ELSE Yield(c, NoSize)

\* A packet's payload becomes its track.
track_of(payload, cc, id, packet, packet_type, cts) ==
  IF Failed(payload) THEN payload
  ELSE Yield(payload, Track(cc, id, packet, packet_type, cts, payload.v))

\* The channel order, the number of channels and their map.
channel_map(count, order) ==
  IF order = 2 THEN take(count, count.v) ELSE IF order = 1 THEN take(count, 4) ELSE count
channels(count, order, cc, id, packet_type) ==
  IF Failed(count) THEN count
  ELSE Yield(channel_map(count, order),
             Track(cc, id, "MultichannelConfig", packet_type, 0, << <<count.v>> >>))
multichannel(order, cc, id, packet_type) ==
  channels(read_u8(order), order.v, cc, id, packet_type)

\* Yields the track.  The size s is read also for packets that do not use it.
audio_content(s, packet_type, cc, id) ==
  LET packet == Named(AudioPackets, packet_type)
  IN IF Failed(s) THEN s
     ELSE IF packet = "MultichannelConfig" THEN multichannel(read_u8(s), cc, id, packet_type)
     ELSE IF packet = "SequenceEnd" THEN Yield(s, Track(cc, id, packet, packet_type, 0, <<>>))
     ELSE track_of(sized_payload(s, s.v), cc, id, packet, packet_type, 0)
audio_packet(c, packet_type, cc, id, sized) ==
  audio_content(packet_size(c, sized), packet_type, cc, id)

\* validate_avc_decoder_config and its siblings.
ValidRecord(cc, data) ==
  LET atLeast(n) == SegmentsLen(data) >= n
  IN CASE cc = avc1 -> atLeast(AvcRecord) /\ data[1][1] = 1
       [] cc = hvc1 -> atLeast(HevcRecord) /\ data[1][1] = 1
       [] cc = av01 -> atLeast(Av1Record) /\ data[1][1] >= 128
       [] OTHER -> TRUE

\* A defect: the offset is not counted in the size.
coded_sizeWhole(size) == size
\* A coded frame of a codec with composition offsets: what the size leaves.
coded_size(size) == IF size = NoSize THEN NoSize ELSE size - 3

\* The configuration record that starts a sequence is validated.
checked_record(payload, cc) ==
  IF ~Failed(payload) /\ ~ValidRecord(cc, payload.v)
  THEN FlvError(payload, "configuration record") ELSE payload
\* A frame with its offset in front; size is that of both.
offset_frame(cts, size, cc, id, packet_type) ==
  IF Failed(cts) THEN cts
  ELSE IF size \in 0 .. 2 THEN FlvError(cts, "coded frame size")
  ELSE track_of(sized_payload(cts, coded_size(size)), cc, id, "CodedFrames", packet_type, cts.v)
video_content(s, packet_type, cc, id) ==
  LET packet == Named(VideoPackets, packet_type)
  IN IF Failed(s) THEN s
     ELSE IF packet = "SequenceEnd" THEN Yield(s, Track(cc, id, packet, packet_type, 0, <<>>))
     ELSE IF packet = "CodedFrames" /\ CarriesOffset(cc)
       THEN offset_frame(read_i24(s), s.v, cc, id, packet_type)
     ELSE IF packet = "SequenceStart"
       THEN track_of(checked_record(sized_payload(s, s.v), cc), cc, id, packet, packet_type, 0)
     ELSE track_of(sized_payload(s, s.v), cc, id, packet, packet_type, 0)
video_packet(c, packet_type, cc, id, sized) ==
  video_content(packet_size(c, sized), packet_type, cc, id)
media_packet(c, kind, packet_type, cc, id, sized) ==
  IF kind = "audio" THEN audio_packet(c, packet_type, cc, id, sized)
  ELSE video_packet(c, packet_type, cc, id, sized)

\* The tracks of a multitrack body, up to its end; the only one has no size.
\* r yields the tracks so far.
track_codec(c, header) ==
  IF header.content = "ManyTracksManyCodecs" THEN read_fourcc(c) ELSE Yield(c, header.four_cc)
numbered(id, cc, kind, header) ==
  IF Failed(id) THEN id
  ELSE media_packet(id, kind, header.packet_type, cc, id.v, header.content # "OneTrack")
read_track(cc, kind, header) == numbered(read_u8(cc), cc.v, kind, header)
another(track, tracks) == Yield(track, Append(tracks, track.v))
RECURSIVE read_tracks(_, _, _, _)
read_tracks(r, kind, header, first) ==
  IF Failed(r) \/ (~first /\ (header.content = "OneTrack" \/ remaining(r) = 0)) THEN r
  ELSE read_tracks(another(read_track(track_codec(r, header), kind, header), r.v),
                   kind, header, FALSE)

\* enhanced_audio_body, enhanced_video_body: yields the tracks.
only(track) == Yield(track, <<track.v>>)
enhanced_body(c, kind, header) ==
  IF header.content = "VideoCommand" THEN Yield(c, <<>>)
  ELSE IF header.content = "NoMultitrack"
    THEN only(media_packet(c, kind, header.packet_type, header.four_cc, NoTrack, FALSE))
  ELSE read_tracks(Yield(c, <<>>), kind, header, TRUE)
tag_of(body, kind, frame, code, header) ==
  IF Failed(body) THEN body
  ELSE Yield(body, ParsedTag(kind, frame, code, header.content, header.unknown_modex, body.v))
tag_after(header, kind, frame, code) ==
  IF Failed(header) THEN header
  ELSE tag_of(enhanced_body(header, kind, header.v), kind, frame, code, header.v)
enhanced_tag(c, kind, frame, code, initial) ==
  tag_after(enhanced_header(c, kind, frame, initial), kind, frame, code)

Legacy(c, kind, frame, code, packet, ptype, cts, data) ==
  Yield(c, ParsedTag(kind, frame, code, "Legacy", FALSE,
                     <<Track(<<>>, NoTrack, packet, ptype, cts, data)>>))

\* ParsedAudio::demux.  Rate, size and channels of the legacy header are left out.
AacPackets == (0 :> "AacSequenceHeader") @@ (1 :> "AacRaw")
AacPacket(type) == IF type \in DOMAIN AacPackets THEN AacPackets[type] ELSE "AacUnknown"
legacy_audio(data, format, packet, ptype) ==
  IF Failed(data) THEN data ELSE Legacy(data, "audio", 0, format, packet, ptype, 0, data.v)
aac_audio(type) == legacy_audio(take_rest(type), SOUND_FORMAT_AAC, AacPacket(type.v), type.v)
audio_tag(first) ==
  LET format == first.v \div 16
  IN IF Failed(first) THEN first
     ELSE IF format = SOUND_FORMAT_EX_HEADER
       THEN enhanced_tag(first, "audio", 0, format, first.v % 16)
     ELSE IF format = SOUND_FORMAT_AAC THEN aac_audio(read_u8(first))
     ELSE legacy_audio(take_rest(first), format, "Other", 0)
demux_audio(raw) == audio_tag(read_u8(NewCursor(raw)))

\* The packets of a legacy AVC tag.
AvcPackets == (0 :> "SequenceHeader") @@ (1 :> "Nalu") @@ (2 :> "EndOfSequence")
avc_data(data, frame, type, cts) ==
  LET packet == Named(AvcPackets, type)
  IN IF Failed(data) THEN data
     ELSE IF packet = "SequenceHeader" /\ ~ValidRecord(avc1, data.v)
       THEN FlvError(data, "configuration record")
     ELSE Legacy(data, "video", frame, VIDEO_CODEC_AVC, packet, type,
                 CASE packet = "Nalu" -> sign_extend_cts(cts)
                   [] packet = "Unknown" -> cts
                   [] OTHER -> 0, data.v)
avc_offset(cts, frame, type) == avc_data(take_rest(cts), frame, type, cts.v)
avc_type(type, frame) == avc_offset(read_u24(type), frame, type.v)
legacy_avc(c, frame) == avc_type(read_u8(c), frame)

\* ParsedVideo::demux
legacy_video(data, frame, code) == Legacy(data, "video", frame, code, "Other", 0, 0, data.v)
video_tag(first) ==
  LET frame == (first.v \div 16) % 8
      code == first.v % 16
  IN IF Failed(first) THEN first
     ELSE IF first.v >= 128 THEN enhanced_tag(first, "video", frame, 0, code)
     ELSE IF code = VIDEO_CODEC_AVC THEN legacy_avc(first, frame)
     ELSE IF frame = VIDEO_FRAME_COMMAND
       THEN Legacy(read_u8(first), "video", frame, code, "VideoCommand", 0, 0, <<>>)
     ELSE legacy_video(take_rest(first), frame, code)
demux_video(raw) == video_tag(read_u8(NewCursor(raw)))

-----------------------------------------------------------------------------
(* Validation and classification (media.rs).                               *)

\* validate_audio_unknowns, validate_video_unknowns
UnknownParts(tag) ==
  IF tag.content = "Legacy" THEN FALSE
  ELSE \/ tag.unknown_modex
       \/ tag.content = "Unknown"
       \/ \E i \in DOMAIN tag.tracks :
            \/ tag.tracks[i].cc \notin DOMAIN Codecs(tag.kind)
            \/ tag.tracks[i].packet = "Unknown"

\* parse_audio, parse_video and finish_*: an error in strict mode is an opaque
\* body in passthrough mode.
Rejected == [is |-> "Rejected"]
Opaque == [is |-> "Opaque"]
finished(r, mode) ==
  IF ~Failed(r) /\ ~UnknownParts(r.v) THEN [is |-> "Parsed", tag |-> r.v]
  ELSE IF mode = "Passthrough" THEN Opaque ELSE Rejected
parse_media(kind, raw, mode) ==
  finished(IF kind = "audio" THEN demux_audio(raw) ELSE demux_video(raw), mode)

\* A defect: frames without an offset are not counted as coded.
CodedPacketsWithoutX == {"CodedFrames", "AacRaw", "Nalu", "Other"}
CodedPackets == {"CodedFrames", "CodedFramesX", "AacRaw", "Nalu", "Other"}
ConfigurationPackets ==
  {"SequenceStart", "Mpeg2TsSequenceStart", "AacSequenceHeader", "SequenceHeader"}

\* classification, with classify_enhanced_audio and classify_enhanced_video.
classification(media) ==
  IF media.is # "Parsed" THEN [coded |-> FALSE, configuration |-> FALSE, keyframe |-> FALSE]
  ELSE LET some(packets) == \E i \in DOMAIN media.tag.tracks :
                              media.tag.tracks[i].packet \in packets
       IN [coded |-> some(CodedPackets), configuration |-> some(ConfigurationPackets),
           keyframe |-> some(CodedPackets) /\ media.tag.frame = VIDEO_FRAME_KEY]

-----------------------------------------------------------------------------
(* Elementary events (elementary.rs), for contiguous bodies.               *)

Event(what, codec, track, keyframe, cts, data) ==
  [event |-> what, codec |-> codec, track |-> track, keyframe |-> keyframe,
   cts |-> cts, data |-> data]
skipped(reason, track) == Event(reason, "", track, FALSE, 0, <<>>)

IsUnit(e) == e.event \in {"Configuration", "Sample"}

\* slice_after: legacy payloads are cut from the body again.
LegacyHeaderBytes(packet) ==
  CASE packet \in {"AacSequenceHeader", "AacRaw"} -> 2
    [] packet \in {"SequenceHeader", "Nalu"} -> 5
    [] OTHER -> 1

\* visit_elementary_events of a legacy tag.
legacy_event(tag, raw) ==
  LET t == tag.tracks[1]
      data == SubSeq(Flat(raw), LegacyHeaderBytes(t.packet) + 1, SegmentsLen(raw))
      codec == IF tag.kind = "audio" THEN "Aac" ELSE "Avc"
      keyframe == tag.kind = "audio" \/ tag.frame \in {VIDEO_FRAME_KEY, VIDEO_FRAME_GENERATED_KEY}
  IN CASE t.packet \in {"AacSequenceHeader", "SequenceHeader"} ->
            Event("Configuration", codec, NoTrack, FALSE, 0, data)
       [] t.packet \in {"AacRaw", "Nalu"} ->
            Event("Sample", codec, NoTrack, keyframe, t.cts, data)
       [] t.packet = "Other" /\ tag.kind = "audio" /\ tag.code \in {2, 14} ->
            Event("Sample", "Mp3", NoTrack, TRUE, 0, data)
       [] t.packet = "Other" /\ ~(tag.kind = "audio" /\ tag.code \in {2, 14}) ->
            skipped("UnsupportedCodec", NoTrack)
       [] t.packet = "EndOfSequence" -> Event("SequenceEnd", codec, NoTrack, FALSE, 0, <<>>)
       [] t.packet = "VideoCommand" -> skipped("VideoCommand", NoTrack)
       [] t.packet \in {"AacUnknown", "Unknown"} -> skipped("UnknownPacketType", NoTrack)

\* audio_packet and video_packet of elementary.rs.
packet_event(tag, t) ==
  LET codecs == Codecs(tag.kind)
      keyframe == tag.kind = "audio" \/ tag.frame \in {VIDEO_FRAME_KEY, VIDEO_FRAME_GENERATED_KEY}
  IN CASE t.cc \notin DOMAIN codecs -> skipped("UnsupportedCodec", t.id)
       [] t.cc \in DOMAIN codecs /\ t.packet = "SequenceStart" ->
            Event("Configuration", codecs[t.cc], t.id, FALSE, 0, t.data)
       [] t.cc \in DOMAIN codecs /\ t.packet \in {"CodedFrames", "CodedFramesX"} ->
            Event("Sample", codecs[t.cc], t.id, keyframe, t.cts, t.data)
       [] t.cc \in DOMAIN codecs /\ t.packet = "SequenceEnd" ->
            Event("SequenceEnd", codecs[t.cc], t.id, FALSE, 0, <<>>)
       [] OTHER -> skipped(t.packet, t.id)

\* Events in the order of the tracks; none for an opaque body, which is an error.
elementary_events(media, raw) ==
  IF media.is # "Parsed" THEN <<>>
  ELSE IF media.tag.content = "Legacy" THEN <<legacy_event(media.tag, raw)>>
  ELSE IF media.tag.content = "VideoCommand" THEN <<skipped("VideoCommand", NoTrack)>>
  ELSE [i \in DOMAIN media.tag.tracks |-> packet_event(media.tag, media.tag.tracks[i])]
=============================================================================
