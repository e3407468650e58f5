------------------------------ MODULE Messages ------------------------------
(***************************************************************************)
(* RTMP messages and their bodies: raw_message.rs and messages/types, the  *)
(* script data of sessions/data.rs and the track maps of metadata.rs.      *)
(*                                                                         *)
(* A body is a sequence of cells, as in AmfGraph; a u32 is two cells of 16 *)
(* bits.  The AMF codecs are used with the limits of the code.  Numbers    *)
(* are in halves, so that an odd one has a fraction, and NaN stands for    *)
(* every number that is not finite.                                        *)
(***************************************************************************)
EXTENDS Integers, Sequences, SequencesExt

CONSTANTS
  ByteSize,    \* values of a byte of a codec id (256)
  Graphic,     \* the bytes that is_ascii_graphic accepts
  FourCcs      \* AUDIO_FOURCCS and VIDEO_FOURCCS: track kind -> four bytes each

Amf == INSTANCE Amf0 WITH
  NodeSize <- 1, PairSize <- 1, MAX_DEPTH <- 64, MAX_COLLECTION_LEN <- 100000,
  MAX_REFERENCES <- 100000, MAX_STRING_LEN <- 4 * 1024 * 1024,
  MAX_BYTEARRAY_LEN <- 10 * 1024 * 1024, NestedClasses <- {}, StatusClasses <- {},
  BeanNames <- <<>>, AMF0_MAX_STRING_LEN <- 65535, U16_MAX <- 65535
TreeLimits == Amf!Budget(100000, 16 * 1024 * 1024, 64)

Ok == ""
Text(s) == Amf!Leaf("string", s)
Number(n) == Amf!Leaf("num", <<n>>)
Map(op(_), vs) == FoldLeft(LAMBDA done, v : Append(done, op(v)), <<>>, vs)

\* amf0::deserialize and amf3::deserialize: a document, expanded at once.
expanded(doc) ==
  IF doc.err # Ok THEN [err |-> doc.err, roots |-> <<>>]
  ELSE Amf!expand_with_embedded(doc.roots, doc.objects, doc.embedded, TreeLimits)
amf0_deserialize(cells) == expanded(Amf!Amf0DeserializeDocument(cells))
amf3_deserialize(cells) == expanded(Amf!deserialize_document(cells))
Converted(read, op(_)) == [read EXCEPT !.roots = Map(op, @)]
amf0_serialize(vs) == Amf!Amf0EncodeDocument(vs, <<>>, <<>>)
amf3_serialize(vs) == Amf!encode_document(vs, <<>>)

-----------------------------------------------------------------------------
(* RtmpMessage.  One record for every variant: word is the u32 of a        *)
(* control message or the stream of an event, code a limit type, an event  *)
(* or an unknown type id; values holds the command object and what follows *)
(* it, or the data.                                                        *)

Message(is) ==
  [is |-> is, word |-> <<>>, length |-> <<>>, time |-> <<>>, code |-> 0, name |-> <<>>, txn |-> 0,
   values |-> <<>>, format |-> "", data |-> <<>>]

TypeIds ==
  [SetChunkSize |-> 1, Abort |-> 2, Acknowledgement |-> 3, UserControl |-> 4,
   WindowAcknowledgement |-> 5, SetPeerBandwidth |-> 6, AudioData |-> 8, VideoData |-> 9,
   Amf3Data |-> 15, Amf3SharedObject |-> 16, Amf3Command |-> 17, Amf0Data |-> 18,
   Amf0SharedObject |-> 19, Amf0Command |-> 20]
get_message_type_id(m) == IF m.is = "Unknown" THEN m.code ELSE TypeIds[m.is]
Opaques == {"AudioData", "VideoData", "Amf0SharedObject", "Amf3SharedObject", "Unknown"}
Words == {"SetChunkSize", "Abort", "Acknowledgement", "WindowAcknowledgement"}

Encoded(cells) == [err |-> Ok, buf |-> cells]
Refused(why) == [err |-> why, buf |-> <<>>]
Decoded(m) == [err |-> Ok, msg |-> m]
Undecodable(why) == [err |-> why, msg |-> Message("Unknown")]

\* Control messages: a u32 is read from the front, what follows is ignored.
Zero == <<0, 0>>
OrZero(u32) == IF u32 = <<>> THEN Zero ELSE u32
ExceedsMaxSize(u32) == u32[1] >= 2^15
TimeEvents == {6, 7}
LengthEvents == {3}
StreamEvents == {0, 1, 2, 4, 31, 32}

serialize_word(m) ==
  IF m.is = "SetChunkSize" /\ ExceedsMaxSize(m.word) THEN Refused("InvalidChunkSize")
  ELSE Encoded(m.word)
deserialize_word(is, cells) ==
  IF Len(cells) < 2 THEN Undecodable("Io")
  ELSE IF is = "SetChunkSize" /\ ExceedsMaxSize(cells) THEN Undecodable("InvalidMessageFormat")
  ELSE Decoded([Message(is) EXCEPT !.word = SubSeq(cells, 1, 2)])

serialize_peer_bandwidth(m) == Encoded(m.word \o <<m.code>>)
deserialize_peer_bandwidth(cells) ==
  IF Len(cells) < 3 THEN Undecodable("Io")
  ELSE IF cells[3] \notin 0 .. 2 THEN Undecodable("InvalidMessageFormat")
  ELSE Decoded([Message("SetPeerBandwidth") EXCEPT !.word = SubSeq(cells, 1, 2), !.code = cells[3]])

\* A release build writes zero for a missing field, a debug build asserts.
serialize_event(m) ==
  Encoded(<<m.code>>
          \o (IF m.code \in TimeEvents THEN OrZero(m.time) ELSE OrZero(m.word))
          \o (IF m.code \in LengthEvents THEN OrZero(m.length) ELSE <<>>))
deserialize_event(cells) ==
  LET code == cells[1]
      event == [Message("UserControl") EXCEPT !.code = code]
  IN IF cells = <<>> THEN Undecodable("Io")
     ELSE IF code \notin TimeEvents \cup LengthEvents \cup StreamEvents
       THEN Undecodable("InvalidMessageFormat")
     ELSE IF Len(cells) < (IF code \in LengthEvents THEN 5 ELSE 3) THEN Undecodable("Io")
     ELSE Decoded(IF code \in TimeEvents THEN [event EXCEPT !.time = SubSeq(cells, 2, 3)]
                  ELSE [event EXCEPT !.word = SubSeq(cells, 2, 3),
                          !.length = IF code \in LengthEvents THEN SubSeq(cells, 4, 5) ELSE <<>>])

-----------------------------------------------------------------------------
(* Commands and data.                                                      *)

FORMAT_SELECTOR == [Amf0 |-> 0, Amf3 |-> 3]
selected(body, format) ==
  IF body.err # Ok THEN Refused(body.err) ELSE Encoded(<<FORMAT_SELECTOR[format]>> \o body.buf)
encode_body(values, format) ==
  selected(IF format = "Amf0" THEN amf0_serialize(Map(Amf!to_amf0, values))
           ELSE amf3_serialize(values), format)

Body(values, format) == [err |-> values.err, roots |-> values.roots, format |-> format]
\* A defect: AMF0 values are passed on as they are.
decode_bodyUnconverted(cells) ==
  IF cells = <<>> THEN Body([err |-> "InvalidMessageFormat", roots |-> <<>>], "")
  ELSE IF Head(cells) = 0 THEN Body(amf0_deserialize(Tail(cells)), "Amf0")
  ELSE IF Head(cells) = 3 THEN Body(amf3_deserialize(Tail(cells)), "Amf3")
  ELSE Body([err |-> "BadFormatSelector", roots |-> <<>>], "")
decode_body(cells) ==
  IF cells = <<>> THEN Body([err |-> "InvalidMessageFormat", roots |-> <<>>], "")
  ELSE IF Head(cells) = 0
    THEN Body(Converted(amf0_deserialize(Tail(cells)), Amf!to_amf3), "Amf0")
  ELSE IF Head(cells) = 3 THEN Body(amf3_deserialize(Tail(cells)), "Amf3")
  ELSE Body([err |-> "BadFormatSelector", roots |-> <<>>], "")

\* The name, the transaction and the rest of a command's values.  (AMF0 has one
\* error, InvalidMessageFormat, for the last three.)
Command(is, body, numeric) ==
  LET vs == body.roots
  IN IF body.err # Ok THEN Undecodable(body.err)
     ELSE IF Len(vs) < 3 THEN Undecodable("TooFewValues")
     ELSE IF vs[1].t # "string" THEN Undecodable("BadCommandName")
     ELSE IF vs[2].t \notin numeric THEN Undecodable("BadTransactionId")
     ELSE Decoded([Message(is) EXCEPT !.name = vs[1].x, !.txn = Amf!get_double(vs[2]),
                     !.values = SubSeq(vs, 3, Len(vs)), !.format = body.format])

amf0_command_serialize(m) == amf0_serialize(<<Text(m.name), Number(m.txn)>> \o m.values)
\* Some peers put each value behind the AMF3 escape.
opened(v) == IF v.t = "avm" THEN Amf!to_amf0(v.kids[1]) ELSE v
amf0_command_deserialize(cells) ==
  Command("Amf0Command", Body(Converted(amf0_deserialize(cells), opened), ""),
          {"num"})
amf3_command_serialize(m) ==
  encode_body(<<Text(m.name), Amf!number_to_amf3(m.txn)>> \o m.values, m.format)
amf3_command_deserialize(cells) ==
  Command("Amf3Command", decode_body(cells), {"int", "double"})

Data(is, body) ==
  IF body.err # Ok THEN Undecodable(body.err)
  ELSE Decoded([Message(is) EXCEPT !.values = body.roots, !.format = body.format])
amf0_data_deserialize(cells) == Data("Amf0Data", Body(amf0_deserialize(cells), ""))
amf3_data_deserialize(cells) == Data("Amf3Data", decode_body(cells))
\* Type 18 is AMF0, or bare AMF3 if it is no AMF0.
FirstDecoded(low, bare) == IF low.err = Ok \/ bare.err # Ok THEN low ELSE bare
deserialize_data_tolerant(cells) ==
  FirstDecoded(amf0_data_deserialize(cells),
               Data("Amf3Data", Body(amf3_deserialize(cells), "Amf3")))

from_rtmp_message(m) ==
  CASE m.is \in Opaques -> Encoded(m.data)
    [] m.is \in Words -> serialize_word(m)
    [] m.is = "SetPeerBandwidth" -> serialize_peer_bandwidth(m)
    [] m.is = "UserControl" -> serialize_event(m)
    [] m.is = "Amf0Command" -> amf0_command_serialize(m)
    [] m.is = "Amf3Command" -> amf3_command_serialize(m)
    [] m.is = "Amf0Data" -> amf0_serialize(m.values)
    [] m.is = "Amf3Data" -> encode_body(m.values, m.format)

to_rtmp_message(type, cells) ==
  IF ~\E is \in DOMAIN TypeIds : TypeIds[is] = type
  THEN Decoded([Message("Unknown") EXCEPT !.code = type, !.data = cells])
  ELSE LET is == CHOOSE is \in DOMAIN TypeIds : TypeIds[is] = type
       IN CASE is \in Opaques -> Decoded([Message(is) EXCEPT !.data = cells])
            [] is \in Words -> deserialize_word(is, cells)
            [] is = "SetPeerBandwidth" -> deserialize_peer_bandwidth(cells)
            [] is = "UserControl" -> deserialize_event(cells)
            [] is = "Amf0Command" -> amf0_command_deserialize(cells)
            [] is = "Amf3Command" -> amf3_command_deserialize(cells)
            [] is = "Amf0Data" -> deserialize_data_tolerant(cells)
            [] is = "Amf3Data" -> amf3_data_deserialize(cells)

-----------------------------------------------------------------------------
(* Script data.  The two names keep their lengths, because the first cells *)
(* of a body decide how it is read.                                        *)

onMetaData == <<111, 110, 77, 101, 116, 97, 68, 97, 116, 97>>
setDataFrame == <<64, 115, 101, 116, 68, 97, 116, 97, 70, 114, 97, 109, 101>>

settled(v) == Amf!to_amf0(Amf!to_amf3(v))
script_values(type, cells) ==
  IF type = TypeIds.Amf0Data
  THEN FirstDecoded(amf0_deserialize(cells), Converted(amf3_deserialize(cells), Amf!to_amf0))
  ELSE IF cells = <<>> THEN [err |-> "InvalidMessageFormat", roots |-> <<>>]
  ELSE IF Head(cells) = 0 THEN Converted(amf0_deserialize(Tail(cells)), settled)
  ELSE IF Head(cells) = 3 THEN Converted(amf3_deserialize(Tail(cells)), Amf!to_amf0)
  ELSE [err |-> "BadFormatSelector", roots |-> <<>>]

NoMetadata(why) == [err |-> why, is |-> FALSE, keys |-> <<>>, kids |-> <<>>]
\* DataMessage::metadata: the properties behind the name, if there are any.
properties(read, vs) ==
  LET at == IF vs # <<>> /\ vs[1] = Text(setDataFrame) THEN 2 ELSE 1
  IN IF read.err # Ok THEN NoMetadata(read.err)
     ELSE IF Len(vs) <= at \/ vs[at] # Text(onMetaData) THEN NoMetadata(Ok)
     ELSE IF vs[at + 1].t # "object" THEN NoMetadata(Ok)
     ELSE [err |-> Ok, is |-> TRUE, keys |-> vs[at + 1].keys, kids |-> vs[at + 1].kids]
with_values(read) == properties(read, read.roots)
metadata(type, cells) == with_values(script_values(type, cells))

-----------------------------------------------------------------------------
(* Track maps.  Names of properties are short cells of their own.          *)

MapName == [audio |-> <<1>>, video |-> <<2>>]      \* audioTrackIdInfoMap, ...
CodecName == [audio |-> <<3>>, video |-> <<4>>]    \* audiocodecid, ...

HasKey(keys, name) == \E i \in DOMAIN keys : keys[i] = name
ValueOf(keys, kids, name) == kids[CHOOSE i \in DOMAIN keys : keys[i] = name]

\* parse::<u32>: digits, perhaps after a plus.
NotANumber == -1
parse_u32(text) ==
  LET digits == IF Len(text) > 1 /\ text[1] = 43 THEN Tail(text) ELSE text
  IN IF digits = <<>> \/ \E i \in DOMAIN digits : digits[i] \notin 48 .. 57 THEN NotANumber
     ELSE FoldLeft(LAMBDA n, d : 10 * n + d - 48, 0, digits)

to_be_bytes(id) == [i \in 1 .. 4 |-> (id \div ByteSize^(4 - i)) % ByteSize]
\* A defect: only the order of the specification is looked up.
canonical_fourccAsWritten(bytes, kind) == IF bytes \in FourCcs[kind] THEN bytes ELSE <<>>
\* Some muxers write the four bytes backwards.
canonical_fourcc(bytes, kind) ==
  IF bytes \in FourCcs[kind] THEN bytes
  ELSE IF Reverse(bytes) \in FourCcs[kind] THEN Reverse(bytes) ELSE <<>>

Codec(err, is, v) == [err |-> err, is |-> is, v |-> v]
known_codec(known) ==
  IF known = <<>> THEN Codec("UnknownFourCc", "", <<>>) ELSE Codec(Ok, "FourCc", known)
codec_of(bytes, value, kind) ==
  IF ~\A i \in 1 .. 4 : bytes[i] \in Graphic THEN Codec(Ok, "Legacy", value.x)
  ELSE known_codec(canonical_fourcc(bytes, kind))
parse_codec(value, kind) ==
  LET n == value.x[1]
  IN IF value.t # "num" THEN Codec("NotNumeric", "", <<>>)
     ELSE IF n = Amf!NaN \/ n % 2 # 0 \/ n \div 2 \notin 0 .. (ByteSize^4 - 1)
       THEN Codec("InvalidCodec", "", <<>>)
     ELSE codec_of(to_be_bytes(n \div 2), value, kind)

TrackEntry(err, id, codec) == [err |-> err, id |-> id, codec |-> codec]
declared_codec(value, kind) ==
  IF HasKey(value.keys, CodecName[kind])
  THEN parse_codec(ValueOf(value.keys, value.kids, CodecName[kind]), kind)
  ELSE Codec(Ok, "None", <<>>)
with_codec(id, codec) ==
  IF codec.err # Ok THEN TrackEntry(codec.err, 0, <<>>)
  ELSE TrackEntry(Ok, id, <<codec.is, codec.v>>)
with_id(id, value, kind) ==
  IF id = NotANumber THEN TrackEntry("NonNumericId", 0, <<>>)
  ELSE IF id = 0 THEN TrackEntry("DefaultTrack", 0, <<>>)
  ELSE IF value.t # "object" THEN TrackEntry("NotAnObject", 0, <<>>)
  ELSE with_codec(id, declared_codec(value, kind))
parse_track(key, value, kind) == with_id(parse_u32(key), value, kind)

TrackMap(err, tracks) == [err |-> err, tracks |-> tracks]
\* The first faulty entry fails the map; of two entries for one id the later
\* stays.
with_entry(map, entry) ==
  IF map.err # Ok THEN map
  ELSE IF entry.err # Ok THEN TrackMap(entry.err, <<>>)
  ELSE TrackMap(Ok, (entry.id :> entry.codec) @@ map.tracks)
read_track_map(value, kind) ==
  IF value.t # "object" THEN TrackMap("NotAnObject", <<>>)
  ELSE FoldLeft(LAMBDA map, i : with_entry(map, parse_track(value.keys[i], value.kids[i], kind)),
                TrackMap(Ok, <<>>), [i \in DOMAIN value.keys |-> i])
parse_track_map(md, kind) ==
  IF HasKey(md.keys, MapName[kind]) THEN read_track_map(ValueOf(md.keys, md.kids, MapName[kind]), kind)
  ELSE TrackMap(Ok, <<>>)

NoTracks == [audio |-> <<>>, video |-> <<>>]
NoParse(why) == [err |-> why, tracks |-> NoTracks]
both_maps(audio, video) ==
  IF audio.err # Ok THEN NoParse(audio.err)
  ELSE IF video.err # Ok THEN NoParse(video.err)
  ELSE [err |-> Ok, tracks |-> [audio |-> audio.tracks, video |-> video.tracks]]
\* ValidatedMetadata::parse, in strict mode.
parse_metadata(md) ==
  IF md.err # Ok THEN NoParse(md.err)
  ELSE IF ~md.is THEN NoParse("NoProperties")
  ELSE both_maps(parse_track_map(md, "audio"), parse_track_map(md, "video"))
=============================================================================
