-------------------------------- MODULE Amf0 --------------------------------
(***************************************************************************)
(* The AMF0 codec (amf/amf0.rs) and the conversions between the two value  *)
(* models.  Only objects, typed objects and strict arrays take a place in  *)
(* the reference table.  The variant "avm" carries one AMF3 value behind   *)
(* an escape; it refers to an arena of its own, and each escape starts     *)
(* with empty AMF3 tables.                                                 *)
(*                                                                         *)
(* "date" has x = <<milliseconds, time zone>>; "typed" has x = class name. *)
(***************************************************************************)
EXTENDS Amf3

CONSTANTS
  AMF0_MAX_STRING_LEN,   \* the longest text with a 16-bit length
  U16_MAX                \* the largest index of a reference

is_complex(v) == v.t \in {"object", "sarray", "typed"}

\* Members by name: a name that is already there keeps its place.
InsertMember(keys, kids, name, v) ==
  IF InTable(keys, name)
  THEN <<keys, [kids EXCEPT ![IndexIn(keys, name) + 1] = v]>>
  ELSE <<Append(keys, name), Append(kids, v)>>

-----------------------------------------------------------------------------
(* The encoder.                                                            *)

EncodeContext0(objects, embedded) ==
  [err |-> None, buf |-> <<>>, objects |-> objects, embedded |-> embedded,
   refs |-> {}, next |-> 0]

\* The long form is for values only; names and classes have none.
serialize_string(e, s) ==
  Emit(e, (IF Len(s) > AMF0_MAX_STRING_LEN THEN <<12>> ELSE <<2>>) \o <<Len(s)>> \o s)
write_name(e, s) ==
  IF Len(s) > AMF0_MAX_STRING_LEN THEN EFail(e, "NormalStringTooLong")
  ELSE Emit(e, <<Len(s)>> \o s)

RECURSIVE serialize_value(_, _, _), serialize_all(_, _, _), serialize_members(_, _, _, _)
serialize_all(e, vs, depth) ==
  IF vs = <<>> THEN e
  ELSE serialize_all(serialize_value(e, Head(vs), depth), Tail(vs), depth)
serialize_members(e, names, vs, depth) ==
  IF names = <<>> THEN Emit(e, <<0, 9>>)
  ELSE serialize_members(serialize_value(write_name(e, Head(names)), Head(vs), depth),
                         Tail(names), Tail(vs), depth)

\* serialize_object_body
ObjectBody(e, v, depth) ==
  IF Len(v.keys) > MAX_COLLECTION_LEN THEN EFail(e, "CollectionTooLarge")
  ELSE serialize_members(e, v.keys, v.kids, depth + 1)

\* The AMF3 value behind the escape, with tables of its own.
escaped(e, doc) ==
  IF doc.err # None THEN EFail(e, "EmbeddedAmf3") ELSE Emit(e, <<17>> \o doc.buf)
serialize_avmplus(e, inner) == escaped(e, encode_document(<<inner>>, e.embedded))

serialize_inline(e, v, depth) ==
  CASE v.t = "num" -> Emit(e, <<0>> \o v.x)
    [] v.t = "false" -> Emit(e, <<1, 0>>)
    [] v.t = "true" -> Emit(e, <<1, 1>>)
    [] v.t = "string" -> serialize_string(e, v.x)
    [] v.t = "null" -> Emit(e, <<5>>)
    [] v.t = "undefined" -> Emit(e, <<6>>)
    [] v.t = "object" -> ObjectBody(Emit(e, <<3>>), v, depth)
    [] v.t = "typed" -> ObjectBody(write_name(Emit(e, <<16>>), v.x), v, depth)
    [] v.t = "sarray" ->
         IF Len(v.kids) > MAX_COLLECTION_LEN THEN EFail(e, "CollectionTooLarge")
         ELSE serialize_all(Emit(e, <<10, Len(v.kids)>>), v.kids, depth + 1)
    [] v.t = "date" -> Emit(e, <<11, v.x[1], v.x[2] % U16_SIZE>>)
    [] v.t = "xml" -> Emit(e, <<15, Len(v.x)>> \o v.x)
    [] v.t = "avm" -> serialize_avmplus(e, v.kids[1])

serialize_reference(e, id, depth) ==
  IF ~Known(e.objects, id) THEN EFail(e, "InvalidReference")
  ELSE LET target == Get(e.objects, id)
       IN IF ~is_complex(target) THEN EFail(e, "InvalidReference")
          ELSE IF \E r \in e.refs : r[1] = id
            THEN Emit(e, <<7, (CHOOSE r \in e.refs : r[1] = id)[2]>>)
          ELSE IF e.next > U16_MAX THEN EFail(e, "CollectionTooLarge")
          ELSE serialize_value([e EXCEPT !.refs = @ \cup {<<id, e.next>>}], target, depth)

serialize_value(e, v, depth) ==
  IF e.err # None THEN e
  ELSE IF depth > MAX_DEPTH THEN EFail(e, "DepthLimit")
  ELSE IF IsRef(v) THEN serialize_reference(e, IdOf(v), depth)
  ELSE serialize_inline([e EXCEPT !.next = IF is_complex(v) THEN @ + 1 ELSE @], v, depth)

Amf0EncodeDocument(roots, objects, embedded) ==
  finished_document(serialize_all(EncodeContext0(objects, embedded), roots, 0))

-----------------------------------------------------------------------------
(* The decoder.                                                            *)

DecodeContext0(cells) ==
  [err |-> None, in |-> cells, objects |-> <<>>, embedded |-> <<>>, v |-> <<>>]

\* What read_next_value returns at the end of the input or of an object.
NoValue == Leaf("none", <<>>)

\* A defect: a length the input cannot satisfy is clamped.
parse_textClamped(d, t) ==
  Then(read_cell(d), LAMBDA len :
    Then(read_exact(len, IF len.v > Len(len.in) THEN Len(len.in) ELSE len.v),
         LAMBDA text : Return(text, Leaf(t, text.v))))
\* A length, then that many bytes; t is the variant it becomes.
parse_text(d, t) ==
  Then(read_cell(d), LAMBDA len :
    Then(read_exact(len, len.v), LAMBDA text : Return(text, Leaf(t, text.v))))
parse_number(d) == Then(read_cell(d), LAMBDA n : Return(n, Leaf("num", <<n.v>>)))
parse_bool(d) ==
  Then(read_cell(d), LAMBDA b : Return(b, Leaf(IF b.v = 1 THEN "true" ELSE "false", <<>>)))
signed_16(n) == IF n >= U16_SIZE \div 2 THEN n - U16_SIZE ELSE n
parse_date(d) ==
  Then(read_exact(d, 2), LAMBDA r : Return(r, Leaf("date", <<r.v[1], signed_16(r.v[2])>>)))

\* One AMF3 value; its arena is appended to the document's, its ids moved.
imported(d, doc, base) ==
  IF doc.err # None THEN DFail(d, "EmbeddedAmf3")
  ELSE IF base + Len(doc.objects) > MAX_COLLECTION_LEN THEN DFail(d, "CollectionTooLarge")
  ELSE [d EXCEPT !.in = doc.rest,
                 !.embedded = @ \o [i \in DOMAIN doc.objects |-> relocate(doc.objects[i], base)],
                 !.v = [Leaf("avm", <<>>) EXCEPT !.kids = <<relocate(doc.roots[1], base)>>]]
parse_avmplus(d) == imported(d, deserialize_document_single(d.in), Len(d.embedded))

RECURSIVE read_next_value(_, _), parse_items(_, _, _, _), parse_properties(_, _, _, _)
parse_items(d, n, depth, acc) ==
  IF n = 0 THEN Return(d, acc)
  ELSE Then(read_next_value(d, depth), LAMBDA r :
         IF r.v = NoValue THEN DFail(r, "UnexpectedEof")
         ELSE parse_items(r, n - 1, depth, Append(acc, r.v)))
\* parse_object and parse_object_property: names and values up to the end marker.
end_of_object(end, keys, kids) ==
  Then(end, LAMBDA e : IF e.v # 9 THEN DFail(e, "UnexpectedEmptyObjectPropertyName")
                       ELSE Return(e, <<keys, kids>>))
parse_more(item, depth, members) == parse_properties(item, depth, members[1], members[2])
parse_properties(d, depth, keys, kids) ==
  Then(read_cell(d), LAMBDA len :
    IF len.v = 0 THEN end_of_object(read_cell(len), keys, kids)
    ELSE Then(read_exact(len, len.v), LAMBDA name :
      Then(read_next_value(name, depth + 1), LAMBDA item :
        IF item.v = NoValue THEN DFail(item, "UnexpectedEof")
        ELSE IF Len(keys) + 1 > MAX_COLLECTION_LEN THEN DFail(item, "CollectionTooLarge")
        ELSE parse_more(item, depth, InsertMember(keys, kids, name.v, item.v)))))

parse_object(d, t, class_name, depth) ==
  Then(parse_properties(d, depth, <<>>, <<>>), LAMBDA r :
    Return(r, [Leaf(t, class_name) EXCEPT !.keys = r.v[1], !.kids = r.v[2]]))
read_count(d) ==
  Then(read_cell(d), LAMBDA count : AtMost(MAX_COLLECTION_LEN, count.v, count, "CollectionTooLarge"))
parse_ecma_array(d, depth) ==
  Then(read_count(d), LAMBDA count : parse_object(count, "object", <<>>, depth))
parse_strict_array(d, depth) ==
  Then(read_count(d), LAMBDA count :
    Then(parse_items(count, count.v, depth + 1, <<>>), LAMBDA items :
      Return(items, [Leaf("sarray", <<>>) EXCEPT !.kids = items.v])))
parse_typed_object(d, depth) ==
  Then(parse_text(d, "string"), LAMBDA class : parse_object(class, "typed", class.v.x, depth))

\* The markers whose value gets a slot of the table before it is read.
Referenceable(marker) == marker \in {3, 8, 10, 16}

parse_marked(d, marker, depth) ==
  CASE marker = 0 -> parse_number(d)
    [] marker = 1 -> parse_bool(d)
    [] marker \in {2, 12} -> parse_text(d, "string")
    [] marker = 3 -> parse_object(d, "object", <<>>, depth)
    [] marker = 5 -> Return(d, Leaf("null", <<>>))
    [] marker = 6 -> Return(d, Leaf("undefined", <<>>))
    [] marker = 8 -> parse_ecma_array(d, depth)
    [] marker = 10 -> parse_strict_array(d, depth)
    [] marker = 11 -> parse_date(d)
    [] marker = 15 -> parse_text(d, "xml")
    [] marker = 16 -> parse_typed_object(d, depth)
    [] marker = 17 -> parse_avmplus(d)
    [] OTHER -> DFail(d, "UnknownMarker")

parse_reference(d) ==
  Then(read_cell(d), LAMBDA index :
    IF index.v >= Len(d.objects) THEN DFail(index, "BadReference")
    ELSE Return(index, Reference(index.v)))
reserve_slot(d) ==
  IF Len(d.objects) + 1 > MAX_COLLECTION_LEN THEN DFail(d, "CollectionTooLarge")
  ELSE [d EXCEPT !.objects = Append(@, Leaf("null", <<>>))]
store_at(r, slot, referenceable) == IF referenceable THEN finish_object(r, slot, r.v) ELSE r
parse_value(d, marker, depth) ==
  IF Bad(d) THEN d
  ELSE IF marker = 9 THEN Return(d, NoValue)
  ELSE IF marker = 7 THEN parse_reference(d)
  ELSE store_at(parse_marked(IF Referenceable(marker) THEN reserve_slot(d) ELSE d, marker, depth),
                Len(d.objects), Referenceable(marker))
marked_value(d, depth) == parse_value(d, d.v, depth)
read_next_value(d, depth) ==
  IF Bad(d) THEN d
  ELSE IF depth > MAX_DEPTH THEN DFail(d, "DepthLimit")
  ELSE IF d.in = <<>> THEN Return(d, NoValue)
  ELSE marked_value(read_cell(d), depth)

RECURSIVE read_roots0(_, _), read_more0(_, _)
read_more0(r, roots) ==
  IF Bad(r) THEN DocumentOf(r, <<>>)
  ELSE IF r.v = NoValue THEN [DocumentOf(r, roots) EXCEPT !.embedded = r.embedded]
  ELSE IF Len(roots) + 1 > MAX_COLLECTION_LEN
    THEN DocumentOf(DFail(r, "CollectionTooLarge"), <<>>)
  ELSE read_roots0(r, Append(roots, r.v))
read_roots0(d, roots) == read_more0(read_next_value(d, 0), roots)
Amf0DeserializeDocument(cells) == read_roots0(DecodeContext0(cells), <<>>)

-----------------------------------------------------------------------------
(* Conversions between the value models.                                   *)

\* Decimal digits of an index, as text.
Digits(i) == <<48 + i>>

\* Amf3Value::to_amf0.  Arrays with names become objects, the dense part under
\* its indices; what AMF0 cannot express goes behind the escape.
RECURSIVE to_amf0(_)
to_amf0(v) ==
  LET kid(i) == to_amf0(v.kids[i])
      n == Len(v.keys)
      dense == Len(v.kids) - n
      names == [i \in 1 .. dense |-> Digits(i - 1)] \o v.keys
      order == [i \in 1 .. dense |-> n + i] \o [i \in 1 .. n |-> i]
      members(ks, is) == FoldLeft(LAMBDA acc, i : InsertMember(acc[1], acc[2], ks[i], kid(is[i])),
                                  << <<>>, <<>> >>, [i \in DOMAIN ks |-> i])
      object(t, ms) == [Leaf(t, v.x) EXCEPT !.keys = ms[1], !.kids = ms[2]]
  IN CASE v.t = "int" -> Leaf("num", <<2 * v.x[1]>>)
       [] v.t = "double" -> Leaf("num", v.x)
       [] v.t \in {"xmldoc", "xml"} -> Leaf("xml", v.x)
       [] v.t = "date" -> Leaf("date", <<v.x[1], 0>>)
       [] v.t = "array" ->
            IF n = 0 THEN [Leaf("sarray", <<>>) EXCEPT !.kids = [i \in DOMAIN v.kids |-> kid(i)]]
            ELSE object("object", members(names, order))
       [] v.t = "object" ->
            object(IF v.x = <<>> THEN "object" ELSE "typed",
                   members(v.keys, [i \in DOMAIN v.keys |-> i]))
       [] v.t = "ext" -> kid(1)
       [] v.t \in {"bytes", "vint", "vuint", "vdouble", "vobj", "dict"} ->
            [Leaf("avm", <<>>) EXCEPT !.kids = <<v>>]
       [] OTHER -> v

\* A defect: the fraction is not looked at.
number_to_amf3Truncating(n) ==
  IF n # NaN /\ n \div 2 \in MIN_AMF3_INTEGER .. MAX_AMF3_INTEGER
  THEN Leaf("int", <<n \div 2>>) ELSE Leaf("double", <<n>>)
\* A number without fraction in the range of AMF3 integers becomes one.
number_to_amf3(n) ==
  IF n # NaN /\ n % 2 = 0 /\ n \div 2 \in MIN_AMF3_INTEGER .. MAX_AMF3_INTEGER
  THEN Leaf("int", <<n \div 2>>) ELSE Leaf("double", <<n>>)

\* Amf0Value::to_amf3.  The time zone of a date is lost; the escape is opened.
RECURSIVE to_amf3(_)
to_amf3(v) ==
  LET kids == [i \in DOMAIN v.kids |-> to_amf3(v.kids[i])]
  IN CASE v.t = "num" -> number_to_amf3(v.x[1])
       [] v.t \in {"object", "typed"} ->
            [Leaf("object", v.x) EXCEPT !.a = <<0, 1>>, !.keys = v.keys, !.kids = kids]
       [] v.t = "sarray" -> [Leaf("array", <<>>) EXCEPT !.kids = kids]
       [] v.t = "date" -> Leaf("date", <<v.x[1]>>)
       [] v.t = "xml" -> Leaf("xmldoc", v.x)
       [] v.t = "avm" -> v.kids[1]
       [] OTHER -> v
=============================================================================
