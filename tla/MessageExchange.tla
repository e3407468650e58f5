-------------------------- MODULE MessageExchange --------------------------
(***************************************************************************)
(* A message on its way: this side encodes one of its messages, or a peer  *)
(* writes metadata in one of the framings seen in the wild; the receiver   *)
(* decodes the body, and reads metadata and its track maps if it is script *)
(* data.                                                                   *)
(***************************************************************************)
EXTENDS Messages

CONSTANTS
  OwnMessages,     \* messages this side encodes
  Declarations,    \* tracks a peer declares: [kind, key, how, value], see TrackValue
  MaxDeclared      \* how many of them

VARIABLES
  sent,        \* the message encoded here
  script,      \* the metadata a peer wrote: [prefix, framing, declared]
  raw,         \* the body on the wire: [type, err, buf]
  got,         \* what to_rtmp_message returned
  found,       \* what metadata() and its validation returned: [md, parsed]
  msgStage
msgVars == <<sent, script, raw, got, found, msgStage>>

Framings == {"Amf0", "BareAmf3", "Selector0", "Selector3"}
NoScript == [prefix |-> FALSE, framing |-> "", declared |-> <<>>]
NothingFound == [md |-> NoMetadata(Ok), parsed |-> [err |-> Ok, tracks |-> NoTracks]]

MsgInit ==
  /\ sent = Message("Unknown") /\ script = NoScript
  /\ raw = [type |-> 0, err |-> Ok, buf |-> <<>>]
  /\ got = Undecodable(Ok) /\ found = NothingFound /\ msgStage = "idle"

Encode(m) ==
  /\ sent' = m
  /\ \E r \in {from_rtmp_message(m)} :
       /\ raw' = [type |-> get_message_type_id(m), err |-> r.err, buf |-> r.buf]
       /\ msgStage' = IF r.err = Ok THEN "encoded" ELSE "refused"
  /\ UNCHANGED <<script, got, found>>

-----------------------------------------------------------------------------
(* The peer's metadata.                                                    *)

Dynamic(keys, kids) ==
  [Amf!Leaf("object", <<>>) EXCEPT !.a = <<0, 1>>, !.keys = keys, !.kids = kids]
\* A declared track: an object with a codec id, or without one, or no object.
TrackValue(d) ==
  CASE d.how = "codec" -> Dynamic(<<CodecName[d.kind]>>, <<d.value>>)
    [] d.how = "none"  -> Dynamic(<<>>, <<>>)
    [] d.how = "bare"  -> d.value
DeclaredOf(kind) == SelectSeq(script.declared, LAMBDA d : d.kind = kind)
MapValue(kind) ==
  LET ds == DeclaredOf(kind)
  IN Dynamic([i \in DOMAIN ds |-> ds[i].key], [i \in DOMAIN ds |-> TrackValue(ds[i])])
MetaValue ==
  LET kinds == SelectSeq(<<"audio", "video">>, LAMBDA k : DeclaredOf(k) # <<>>)
  IN Dynamic([i \in DOMAIN kinds |-> MapName[kinds[i]]], [i \in DOMAIN kinds |-> MapValue(kinds[i])])
ScriptValues ==
  (IF script.prefix THEN <<Text(setDataFrame)>> ELSE <<>>) \o <<Text(onMetaData), MetaValue>>

BeginScript(prefix, framing) ==
  /\ msgStage = "idle"
  /\ script' = [NoScript EXCEPT !.prefix = prefix, !.framing = framing]
  /\ msgStage' = "writing"
  /\ UNCHANGED <<sent, raw, got, found>>
\* A key is declared once: an object holds a name once.
Declare(d) ==
  /\ Len(script.declared) < MaxDeclared
  /\ ~\E i \in DOMAIN script.declared :
        script.declared[i].kind = d.kind /\ script.declared[i].key = d.key
  /\ script' = [script EXCEPT !.declared = Append(@, d)]
  /\ UNCHANGED <<sent, raw, got, found, msgStage>>
WriteScript ==
  /\ msgStage = "writing"
  /\ \E r \in {CASE script.framing = "Amf0" -> amf0_serialize(Map(Amf!to_amf0, ScriptValues))
                 [] script.framing = "BareAmf3" -> amf3_serialize(ScriptValues)
                 [] script.framing = "Selector0" -> encode_body(ScriptValues, "Amf0")
                 [] script.framing = "Selector3" -> encode_body(ScriptValues, "Amf3")} :
       raw' = [type |-> IF script.framing \in {"Amf0", "BareAmf3"} THEN TypeIds.Amf0Data
                        ELSE TypeIds.Amf3Data,
               err |-> r.err, buf |-> r.buf]
  /\ msgStage' = "encoded"
  /\ UNCHANGED <<sent, script, got, found>>

Decode ==
  /\ msgStage = "encoded"
  /\ \E g \in {to_rtmp_message(raw.type, raw.buf)} : got' = g
  /\ found' \in {IF raw.type \in {TypeIds.Amf0Data, TypeIds.Amf3Data}
                 THEN [md |-> md, parsed |-> parse_metadata(md)] ELSE NothingFound :
                   md \in {metadata(raw.type, raw.buf)}}
  /\ msgStage' = "decoded"
  /\ UNCHANGED <<sent, script, raw>>

MsgNext ==
  \/ msgStage = "idle" /\ \E m \in OwnMessages : Encode(m)
  \/ \E prefix \in BOOLEAN, framing \in Framings : BeginScript(prefix, framing)
  \/ msgStage = "writing" /\ \E d \in Declarations : Declare(d)
  \/ WriteScript
  \/ Decode

-----------------------------------------------------------------------------
(* Properties.                                                             *)

IsScript == script.framing # ""
\* What the receiver sees of a value: AMF0 framing settles a number that is
\* integral, a date, an array with names; type 20 opens the escape.
Seen(m, v) ==
  CASE m.is = "Amf0Command" /\ v.t = "avm" -> Amf!to_amf0(v.kids[1])
    [] m.is \in {"Amf3Command", "Amf3Data"} /\ m.format = "Amf0" -> Amf!to_amf3(Amf!to_amf0(v))
    [] OTHER -> v
Escaped(m) == m.is = "Amf0Command" /\ \E i \in DOMAIN m.values : m.values[i].t = "avm"

\* A message arrives as the one that was sent, whatever encoding frames it:
\* same variant, fields, name and transaction, the selector included, and each
\* value as that framing settles it.  A relay that encodes it again writes the
\* same bytes, unless type 20 carried escaped values.  The only message that
\* cannot be sent is a chunk size of 2^31 or more.
MessageSurvives ==
  /\ msgStage = "refused" => sent.is = "SetChunkSize" /\ ExceedsMaxSize(sent.word)
  /\ msgStage = "decoded" /\ ~IsScript =>
       /\ got = Decoded([sent EXCEPT !.values = [i \in DOMAIN @ |-> Seen(sent, @[i])]])
       /\ ~Escaped(sent) => from_rtmp_message(got.msg).buf = raw.buf

\* A declaration as the peer meant it.
CodecBytes(d) == to_be_bytes(Amf!get_double(d.value) \div 2)
LettersOf(d) == {c \in FourCcs[d.kind] : CodecBytes(d) \in {c, Reverse(c)}}
NumericCodec(d) ==
  /\ d.value.t \in {"int", "double"}
  /\ Amf!get_double(d.value) # Amf!NaN /\ Amf!get_double(d.value) % 2 = 0
LegacyCodec(d) == ~Range(CodecBytes(d)) \subseteq Graphic
Faulty(d) ==
  \/ parse_u32(d.key) \in {NotANumber, 0}
  \/ d.how = "bare"
  \/ d.how = "codec" /\ ~NumericCodec(d)
  \/ d.how = "codec" /\ NumericCodec(d) /\ ~LegacyCodec(d) /\ LettersOf(d) = {}
MeantCodec(d) ==
  IF d.how = "none" THEN <<"None", <<>>>>
  ELSE IF LegacyCodec(d) THEN <<"Legacy", <<Amf!get_double(d.value)>>>>
  ELSE <<"FourCc", CHOOSE c \in LettersOf(d) : TRUE>>
Meant(kind) ==
  LET ds == DeclaredOf(kind)
      ids == {parse_u32(ds[i].key) : i \in DOMAIN ds}
      last(id) == CHOOSE i \in DOMAIN ds :
                    /\ parse_u32(ds[i].key) = id
                    /\ \A j \in DOMAIN ds : parse_u32(ds[j].key) = id => j <= i
  IN [id \in ids |-> MeantCodec(ds[last(id)])]

\* Metadata is found whatever framing the peer chose, bare AMF3 under the AMF0
\* type included: its properties are the ones the peer wrote, and the message
\* decodes to script data of as many values.  Its track maps are taken whole or
\* not at all: one faulty entry rejects them, and otherwise every declared id
\* has the codec the peer meant, in either byte order of the four letters.
MetadataRecovered ==
  msgStage = "decoded" /\ IsScript =>
    LET low == Amf!to_amf0(MetaValue)
        faulty == \E i \in DOMAIN script.declared : Faulty(script.declared[i])
    IN /\ found.md = [err |-> Ok, is |-> TRUE, keys |-> low.keys, kids |-> low.kids]
       /\ got.err = Ok /\ Len(got.msg.values) = Len(ScriptValues)
       /\ got.msg.is = IF script.framing = "Amf0" THEN "Amf0Data" ELSE "Amf3Data"
       /\ found.parsed.err = Ok <=> ~faulty
       /\ ~faulty => \A kind \in {"audio", "video"} : found.parsed.tracks[kind] = Meant(kind)
=============================================================================
