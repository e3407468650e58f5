---------------------------- MODULE AmfDocuments ----------------------------
(***************************************************************************)
(* The life of an AMF document: an application builds it (insert, get_mut, *)
(* roots_mut, embed_amf3), serialises it, the bytes arrive whole or cut    *)
(* short, the peer decodes them, expands what it got into trees and        *)
(* converts these to the other encoding, to send them on.                  *)
(***************************************************************************)
EXTENDS Amf0, FiniteSets

CONSTANTS
  Shapes3, Shapes0,     \* complex values an application puts in an arena
  Roots3, Roots0,       \* values it adds as roots
  Embeddable,           \* AMF3 documents it embeds: [roots, objects]
  MaxObjects, MaxRoots, MaxEmbedded, MaxConversions,
  MaxCutObjects,        \* objects of a document whose bytes may be cut short
  Limits,               \* the TreeLimits of to_tree
  Deep                  \* how deep two graphs are compared

VARIABLES
  encoding,     \* "Amf0" or "Amf3"
  roots, objects, embedded,   \* the document
  conversions,  \* how often its values were converted
  wire,         \* what serialize returned: [err, buf]
  whole,        \* the bytes were not cut short
  decoded,      \* what the peer's decoder returned
  stage
vars == <<encoding, roots, objects, embedded, conversions, wire, whole, decoded, stage>>

NoDocument == [err |-> None, roots |-> <<>>, objects |-> <<>>, embedded |-> <<>>, rest |-> <<>>]
NoWire == [err |-> None, buf |-> <<>>]

SerializeDocument(enc, rs, os, es) ==
  IF enc = "Amf3" THEN encode_document(rs, os) ELSE Amf0EncodeDocument(rs, os, es)
DeserializeDocument(enc, cells) ==
  IF enc = "Amf3" THEN deserialize_document(cells) ELSE Amf0DeserializeDocument(cells)
to_tree(rs, os, es) == expand_with_embedded(rs, os, es, Limits)

Init ==
  /\ encoding \in {"Amf0", "Amf3"}
  /\ roots = <<>> /\ objects = <<>> /\ embedded = <<>> /\ conversions = 0
  /\ wire = NoWire /\ whole = TRUE /\ decoded = NoDocument /\ stage = "building"

Shapes == IF encoding = "Amf3" THEN Shapes3 ELSE Shapes0

\* The application builds documents of its own, not the converted ones.
Building == stage = "building" /\ conversions = 0
UnchangedExceptDocument == UNCHANGED <<encoding, conversions, wire, whole, decoded, stage>>

insert(v) ==
  /\ Building /\ roots = <<>> /\ Len(objects) < MaxObjects
  /\ objects' = Append(objects, v)
  /\ UNCHANGED <<roots, embedded>> /\ UnchangedExceptDocument

\* get_mut: how cycles are built.
Edit(id, v) ==
  /\ Building /\ roots = <<>> /\ Known(objects, id)
  /\ objects' = [objects EXCEPT ![id + 1] = v]
  /\ UNCHANGED <<roots, embedded>> /\ UnchangedExceptDocument

AddRoot(v) ==
  /\ Building /\ Len(roots) < MaxRoots
  /\ roots' = Append(roots, v)
  /\ UNCHANGED <<objects, embedded>> /\ UnchangedExceptDocument

\* embed_amf3: the arena of the imported document is appended, its ids moved,
\* and its only root, behind the escape, becomes a root here.
embed_amf3(doc) ==
  /\ Building /\ encoding = "Amf0"
  /\ Len(roots) < MaxRoots /\ Len(embedded) + Len(doc.objects) <= MaxEmbedded
  /\ Len(doc.roots) = 1
  /\ LET base == Len(embedded)
         moved == [i \in DOMAIN doc.objects |-> relocate(doc.objects[i], base)]
     IN /\ embedded' = embedded \o moved
        /\ roots' = Append(roots, [Leaf("avm", <<>>) EXCEPT
                                     !.kids = <<relocate(doc.roots[1], base)>>])
  /\ UNCHANGED objects /\ UnchangedExceptDocument

serialize ==
  /\ stage = "building" /\ roots # <<>>
  /\ \E w \in {SerializeDocument(encoding, roots, objects, embedded)} :
       /\ wire' = w
       /\ stage' = IF w.err = None THEN "encoded" ELSE "refused"
  /\ UNCHANGED <<encoding, roots, objects, embedded, conversions, whole, decoded>>

\* Only a part of the bytes arrives.
Truncate(n) ==
  /\ stage = "encoded" /\ whole /\ n < Len(wire.buf) /\ Len(objects) <= MaxCutObjects
  /\ wire' = [wire EXCEPT !.buf = SubSeq(@, 1, n)]
  /\ whole' = FALSE
  /\ UNCHANGED <<encoding, roots, objects, embedded, conversions, decoded, stage>>

deserialize ==
  /\ stage = "encoded"
  /\ \E d \in {DeserializeDocument(encoding, wire.buf)} : decoded' = d
  /\ stage' = "arrived"
  /\ UNCHANGED <<encoding, roots, objects, embedded, conversions, wire, whole>>

\* The peer expands what it decoded and converts it, to send it on.
convert ==
  /\ stage = "arrived" /\ whole /\ decoded.err = None /\ conversions < MaxConversions
  /\ \E t \in {to_tree(decoded.roots, decoded.objects, decoded.embedded)} :
       /\ t.err = None
       /\ roots' = [i \in DOMAIN t.roots |->
                      IF encoding = "Amf3" THEN to_amf0(t.roots[i]) ELSE to_amf3(t.roots[i])]
  /\ encoding' = IF encoding = "Amf3" THEN "Amf0" ELSE "Amf3"
  /\ objects' = <<>> /\ embedded' = <<>> /\ conversions' = conversions + 1
  /\ wire' = NoWire /\ decoded' = NoDocument /\ stage' = "building"
  /\ UNCHANGED whole

Next ==
  \/ \E v \in Shapes : insert(v)
  \/ \E id \in 0 .. (MaxObjects - 1), v \in Shapes : Edit(id, v)
  \/ \E v \in (IF encoding = "Amf3" THEN Roots3 ELSE Roots0) : AddRoot(v)
  \/ \E doc \in Embeddable : embed_amf3(doc)
  \/ serialize
  \/ \E n \in 0 .. (Len(wire.buf) - 1) : Truncate(n)
  \/ deserialize
  \/ convert

Spec == Init /\ [][Next]_vars

-----------------------------------------------------------------------------
(* Properties.                                                             *)

\* An integer of more than 29 bits travels as a double.
RECURSIVE Widened(_)
Widened(v) ==
  IF v.t = "int" /\ v.x[1] \notin MIN_AMF3_INTEGER .. MAX_AMF3_INTEGER
  THEN Leaf("double", <<2 * v.x[1]>>)
  ELSE [v EXCEPT !.kids = [i \in DOMAIN v.kids |-> Widened(v.kids[i])]]

Graph(rs, os, es) == [i \in DOMAIN rs |-> Widened(Unfold(rs[i], os, es, Deep))]
Sent == Graph(roots, objects, embedded)
Received == Graph(decoded.roots, decoded.objects, decoded.embedded)

\* The texts of a value that go through the AMF3 string table.
RECURSIVE Texts(_)
Texts(v) ==
  ((IF v.t \in {"string", "object", "ext", "vobj"} THEN {v.x} ELSE {})
   \cup {v.keys[i] : i \in DOMAIN v.keys}
   \cup UNION {Texts(v.kids[i]) : i \in DOMAIN v.kids}) \ {<<>>}

\* The decoder's table limits, which the encoder does not share: it stops
\* remembering strings where the decoder gives up, and does not count roots or,
\* in AMF0, objects.
OverDecoderLimits ==
  LET seen == UNION {Texts(Sent[i]) : i \in DOMAIN Sent}
      nodes == FoldSeq(LAMBDA v, n : n + Weight(v)[1], 0, Sent)
  IN \/ Len(roots) > MAX_COLLECTION_LEN
     \/ Cardinality(seen) > MAX_REFERENCES
     \/ encoding = "Amf0" /\ nodes > MAX_COLLECTION_LEN

\* Sharing, cycles and order survive the wire.  What a serialiser accepts, the
\* peer's deserialize_document accepts unless it is over the decoder's limits;
\* the decoded document unfolds to the graph that was sent (an integer too wide
\* for AMF3 as a double), and serialises to the very same bytes again, so that
\* every index still means the same entry of the string, object and trait tables
\* (an AMF0 document of more objects than a 16-bit index reaches may be refused).
SurvivesTheWire ==
  stage = "arrived" /\ whole =>
    /\ decoded.err # None => OverDecoderLimits
    /\ decoded.err = None =>
         /\ Received = Sent
         /\ \/ SerializeDocument(encoding, decoded.roots, decoded.objects, decoded.embedded) = wire
            \/ encoding = "Amf0" /\ Len(decoded.objects) > U16_MAX + 1

\* A payload cut short is never mistaken for a different one: it is refused, or
\* cut exactly between two roots and read as the first ones.
TruncationYieldsPrefix ==
  stage = "arrived" /\ ~whole /\ decoded.err = None =>
    /\ Len(decoded.roots) < Len(roots)
    /\ Received = SubSeq(Sent, 1, Len(decoded.roots))

\* What the roots reach in each arena, and whether some of it contains itself
\* or does not exist.
Reachable == Reach(UNION {Mentions(roots[i]) : i \in DOMAIN roots}, objects)
EmbeddedReachable ==
  Reach(UNION {Mentions(roots[i].kids[1]) : i \in {j \in DOMAIN roots : roots[j].t = "avm"}},
        embedded)
Cyclic(ids, arena) ==
  \E id \in ids : Known(arena, id) /\ id \in Reach(Mentions(Get(arena, id)), arena)
Dangling(ids, arena) == \E id \in ids : ~Known(arena, id)

\* to_tree copies sharing and refuses cycles.  A tree it returns has no
\* reference left and unfolds to the same values; it reports a cycle only where
\* a reachable object contains itself, and returns nothing for such a document
\* or for one with a dangling id; it reports the limit only when the expanded
\* roots really are deeper or larger than the budget.
TreeIsUnfolding ==
  stage = "building" /\ conversions = 0 /\ roots # <<>> =>
    LET tree == to_tree(roots, objects, embedded)
        weight == FoldSeq(LAMBDA v, w : <<w[1] + Weight(v)[1], w[2] + Weight(v)[2]>>,
                          <<0, 0>>, Graph(roots, objects, embedded))
        cyclic == Cyclic(Reachable, objects) \/ Cyclic(EmbeddedReachable, embedded)
        dangling == Dangling(Reachable, objects)
    IN /\ tree.err = None => /\ Graph(tree.roots, <<>>, <<>>) = Sent
                             /\ \A i \in DOMAIN tree.roots : Mentions(tree.roots[i]) = {}
                             /\ ~cyclic /\ ~dangling
                             /\ weight[1] <= Limits.nodes /\ weight[2] <= Limits.bytes
       /\ tree.err = "Cycle" => cyclic
       /\ tree.err = "InvalidReference" => dangling
       /\ tree.err = "Limit" => \/ cyclic \/ dangling
                                \/ weight[1] > Limits.nodes \/ weight[2] > Limits.bytes
                                \/ \E i \in DOMAIN roots :
                                     Unfold(roots[i], objects, embedded, Limits.depth + 1)
                                       # Unfold(roots[i], objects, embedded, Deep)

\* Converting back and forth settles: what to_amf0 makes of a value is what it
\* makes of that value after a trip through to_amf3, so a relay between peers of
\* different encodings changes a value at most once (a date's time zone, an
\* integral double, an opened escape).
ConversionSettles ==
  conversions > 0 /\ stage = "building" =>
    \A i \in DOMAIN roots :
      LET low == IF encoding = "Amf0" THEN roots[i] ELSE to_amf0(roots[i])
      IN to_amf0(to_amf3(low)) = low
=============================================================================
