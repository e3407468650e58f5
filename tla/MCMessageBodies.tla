--------------------------- MODULE MCMessageBodies ---------------------------
(* Small bodies of each kind.  Documents: two objects that may refer to    *)
(* themselves, to each other and to an id that does not exist.             *)
EXTENDS MessageBodies

A == <<97>>
B == <<98>>
C == <<99>>
Long == <<97, 98, 99>>
Class == <<67>>
Proxy == <<80>>
Status == <<83>>
MCNested == {Proxy}
MCStatus == {Status}
MCBean == << <<1>>, <<2>>, <<3>>, <<4>>, <<5>> >>

Node(t, x, a, keys, kids) == [t |-> t, x |-> x, a |-> a, keys |-> keys, kids |-> kids]
Refs == {Reference(0), Reference(1), Reference(2)}

Bean == Node("object", <<>>, <<0, 1>>, MCBean,
             <<Leaf("double", <<3>>), Text(A), Text(<<>>), Text(B), Text(A)>>)

MCShapes3 ==
  UNION {{Node("array", <<>>, <<>>, <<A>>, <<Text(A), r>>),
          Node("object", <<>>, <<0, 1>>, <<B>>, <<r>>)} : r \in Refs}
  \cup {Node("object", Class, <<1, 0>>, <<A>>, <<r>>) : r \in {Reference(0), Reference(1)}}
  \cup {Node("object", Class, <<2, 1>>, <<A, B, C>>, <<Text(A), Text(C), Leaf("true", <<>>)>>),
        Node("ext", Proxy, <<>>, <<>>, <<Reference(0)>>),
        Node("ext", Status, <<>>, <<>>, <<Bean>>),
        Node("ext", Class, <<>>, <<>>, <<Text(A)>>),
        Node("dict", <<>>, <<1>>, <<>>, <<Text(A), Reference(1)>>),
        Node("vobj", Class, <<0>>, <<>>, <<Reference(0), Reference(0)>>),
        Node("array", <<>>, <<>>, <<>>, <<Node("array", <<>>, <<>>, <<>>, <<Leaf("double", <<7>>)>>)>>),
        Node("vint", <<-1, 5>>, <<1>>, <<>>, <<>>),
        Leaf("bytes", <<7, 0>>), Leaf("date", <<8>>)}
MCRoots3 == {Reference(0), Reference(1), Leaf("int", <<-3>>), Leaf("int", <<20000>>),
             Leaf("int", <<2^28>>),
             Leaf("xml", Long), Node("object", Class, <<1, 0>>, <<A>>, <<Leaf("int", <<300>>)>>)}

MCShapes0 ==
  UNION {{Node("sarray", <<>>, <<>>, <<>>, <<Text(A), r>>),
          Node("object", <<>>, <<>>, <<A, B>>, <<r, Leaf("null", <<>>)>>)} : r \in Refs}
  \cup {Node("typed", Class, <<>>, <<A>>, <<r>>) : r \in {Reference(0), Reference(1)}}
  \cup {Node("object", <<>>, <<>>, <<Long>>, <<Leaf("false", <<>>)>>),
        Node("sarray", <<>>, <<>>, <<>>,
             <<Node("sarray", <<>>, <<>>, <<>>, <<Leaf("undefined", <<>>)>>)>>),
        Leaf("date", <<9, -60>>)}
MCRoots0 == {Reference(0), Reference(1), Text(Long), Leaf("num", <<8>>),
             Leaf("num", <<7>>), Leaf("num", <<NaN>>),
             Node("sarray", <<>>, <<>>, <<>>, <<Node("sarray", <<>>, <<>>, <<>>, <<>>)>>),
             Leaf("xml", B),
             Node("avm", <<>>, <<>>, <<>>, <<Leaf("bytes", <<1>>)>>)}

\* Embedded AMF3 documents whose root shares or contains itself.
MCEmbeddable ==
  {[roots |-> <<Reference(0)>>, objects |-> <<Node("array", <<>>, <<>>, <<>>, <<Reference(0)>>)>>],
   [roots |-> <<Node("dict", <<>>, <<0>>, <<>>, <<Reference(0), Reference(0)>>)>>,
    objects |-> <<Node("vobj", <<>>, <<0>>, <<>>, <<Text(A)>>)>>]}
MCLimits == Budget(5, 20, 2)

-----------------------------------------------------------------------------
(* Media: every packet type, multitrack layout and legacy codec family,    *)
(* with known and unknown codecs and records that are valid and not.       *)

Opus == <<79, 112, 117, 115>>
Vp8 == <<118, 112, 48, 56>>
Other == <<88, 88, 88, 88>>
Tr(cc, id, cts, data) == [cc |-> cc, id |-> id, cts |-> cts, data |-> data]
MCTagHeaders ==
  {NewTag("audio", 0, c[1], c[2], -1) : c \in {<<10, 0>>, <<10, 1>>, <<10, 3>>, <<2, 0>>, <<3, 0>>}}
  \cup {NewTag("video", f, 7, p, -1) : f \in {2, 4}, p \in {0, 1, 2, 3}}
  \cup {NewTag("video", 5, 2, 0, -1), NewTag("video", 1, 2, 0, -1), NewTag("video", 5, 7, 1, -1)}
  \cup {NewTag("audio", 0, 0, p, m) : p \in {0, 1, 2, 4, 6}, m \in -1 .. 2}
  \cup {NewTag("video", f, 0, p, m) : f \in {1}, p \in {0, 1, 2, 3, 4, 5, 8}, m \in -1 .. 2}
  \cup {NewTag("video", 4, 0, p, m) : p \in {1, 3}, m \in {-1, 1}}
  \cup {NewTag("audio", 0, 0, 5, 0), NewTag("audio", 0, 0, 1, 3), NewTag("video", 1, 0, 1, 3),
         NewTag("video", 2, 0, 6, 1), NewTag("video", 5, 0, 0, -1),
         NewTag("video", 5, 0, 4, -1)}
MCModExs == {[type |-> 0, len |-> 2], [type |-> 1, len |-> 1],
             [type |-> 0, len |-> 4]}
MCTracksOf(t) ==
  LET p == PacketOf(t)
      plain == IF t.kind = "audio" THEN {Tr(Opus, 1, 0, <<5, 6>>), Tr(Other, 2, 0, <<>>)}
               ELSE {Tr(avc1, 1, -1, <<1, 6>>), Tr(avc1, 2, 2^23 - 1, <<>>), Tr(Other, 3, 0, <<8>>)}
  IN CASE p = "MultichannelConfig" ->
            {Tr(Opus, 1, 0, <<0, 2>>), Tr(Opus, 2, 0, <<1, 2, 0, 0, 0, 3>>), Tr(Opus, 3, 0, <<2, 1, 9>>)}
       [] p \in {"SequenceEnd", "EndOfSequence"} -> {Tr(Opus, 1, 0, <<>>), Tr(avc1, 2, 0, <<>>)}
       [] t.kind = "video" /\ p \in {"SequenceStart", "SequenceHeader"} ->
            {Tr(avc1, 1, 0, <<1, 0>>), Tr(hvc1, 2, 0, <<1, 0, 0>>), Tr(av01, 3, 0, <<129, 0>>),
             Tr(avc1, 4, 0, <<1>>), Tr(hvc1, 5, 0, <<2, 0, 0>>), Tr(Vp8, 6, 0, <<>>)}
       [] OTHER -> plain

-----------------------------------------------------------------------------
(* Messages: the protocol's own, commands and data in both encodings, and  *)
(* tracks that a peer declares.  Codec ids have four digits of base eight. *)

Object3(keys, kids) == Node("object", <<>>, <<0, 1>>, keys, kids)
Avm(v) == Node("avm", <<>>, <<>>, <<>>, <<v>>)
Values3 ==
  {Leaf("null", <<>>), Leaf("int", <<3>>), Leaf("double", <<7>>), Leaf("double", <<6>>), Text(A),
   Leaf("bytes", <<1, 2>>), Leaf("date", <<5>>), Leaf("xml", A),
   Object3(<<A>>, <<Leaf("double", <<4>>)>>),
   Node("array", <<>>, <<>>, <<A>>, <<Leaf("true", <<>>), Leaf("null", <<>>)>>),
   Node("array", <<>>, <<>>, <<>>, <<Leaf("bytes", <<1>>), Text(A)>>)}
Values0 ==
  {Leaf("null", <<>>), Number(7), Number(6), Text(A), Leaf("date", <<5, -60>>),
   Node("object", <<>>, <<>>, <<A>>, <<Number(4)>>),
   Node("typed", Class, <<>>, <<A>>, <<Leaf("undefined", <<>>)>>),
   Avm(Leaf("bytes", <<1>>)), Avm(Leaf("int", <<9>>)), Avm(Object3(<<A>>, <<Leaf("int", <<4>>)>>))}
U32s == {<<0, 0>>, <<0, 128>>, <<32767, 65535>>, <<32768, 0>>, <<65535, 65535>>}
Transactions == {0, 4, 5}
Formats == {"Amf0", "Amf3"}
MCOwnMessages ==
  {[Message(is) EXCEPT !.word = w] : is \in Words, w \in U32s}
  \cup {[Message("SetPeerBandwidth") EXCEPT !.word = w, !.code = c] : w \in U32s, c \in 0 .. 2}
  \cup {[Message("UserControl") EXCEPT !.code = c, !.word = w] : w \in U32s, c \in StreamEvents}
  \cup {[Message("UserControl") EXCEPT !.code = c, !.time = w] : w \in U32s, c \in TimeEvents}
  \cup {[Message("UserControl") EXCEPT !.code = c, !.word = v, !.length = w] :
          v \in U32s, w \in U32s, c \in LengthEvents}
  \cup {[Message(is) EXCEPT !.data = <<1, 2>>] : is \in Opaques \ {"Unknown"}}
  \cup {[Message("Unknown") EXCEPT !.code = 22, !.data = <<1>>]}
  \cup {[Message("Amf0Command") EXCEPT !.name = A, !.txn = t, !.values = <<u, v>>] :
          t \in Transactions, u \in Values0, v \in Values0}
  \cup {[Message("Amf3Command") EXCEPT !.name = A, !.txn = t, !.values = <<v>>, !.format = f] :
          t \in Transactions, v \in Values3, f \in Formats}
  \cup {[Message("Amf0Data") EXCEPT !.values = <<u, v>>] : u \in Values0, v \in Values0}
  \cup {[Message("Amf3Data") EXCEPT !.values = <<u, v>>, !.format = f] :
          u \in Values3, v \in Values3, f \in Formats}

MCFourCcs == [audio |-> {<<5, 6, 7, 4>>}, video |-> {<<4, 4, 5, 5>>, <<7, 5, 6, 6>>}]
IdOfBytes(b) == ((b[1] * 8 + b[2]) * 8 + b[3]) * 8 + b[4]
Declaration(k, key, how, v) == [kind |-> k, key |-> key, how |-> how, value |-> v]
TrackCodecs ==
  {Leaf("int", <<IdOfBytes(<<5, 6, 7, 4>>)>>), Leaf("int", <<IdOfBytes(<<4, 7, 6, 5>>)>>),
   Leaf("double", <<2 * IdOfBytes(<<5, 5, 4, 4>>)>>), Leaf("int", <<10>>), Leaf("double", <<7>>),
   Leaf("double", <<NaN>>), Text(A)}
\* The keys are 1, +1, 0, 2, x and 3.
MCDeclarations ==
  UNION {{Declaration(k, key, "codec", v) : key \in {<<49>>, <<43, 49>>}, v \in TrackCodecs}
         \cup {Declaration(k, key, "none", Leaf("null", <<>>)) :
                 key \in {<<48>>, <<50>>, <<120>>}}
         \cup {Declaration(k, <<51>>, "bare", Text(A))} : k \in {"audio", "video"}}
=============================================================================
