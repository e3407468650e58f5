-------------------------------- MODULE Amf3 --------------------------------
(***************************************************************************)
(* The AMF3 codec (amf/amf3.rs).  Encoder and decoder each keep three      *)
(* tables (strings, objects, traits); an index on the wire means the same  *)
(* value only as long as both sides added the same entries in the same     *)
(* order.  Text is a sequence of bytes; a double is counted in halves, so  *)
(* an odd number has a fraction.                                           *)
(*                                                                         *)
(* Variants and attributes: "object" has x = class name (empty: none) and  *)
(* a = <<number of sealed members, 1 if dynamic>>; "array" lists its       *)
(* associative part first, as on the wire; the vectors and "dict" have     *)
(* a = <<flag>>; "dict" lists key, value, key, value.                      *)
(***************************************************************************)
EXTENDS AmfGraph

CONSTANTS
  MAX_DEPTH, MAX_COLLECTION_LEN, MAX_REFERENCES, MAX_STRING_LEN, MAX_BYTEARRAY_LEN,
  NestedClasses,   \* classes of EXTERNALIZABLE_REGISTRY with the NestedAmf3 layout
  StatusClasses,   \* ... and with the StatusBean layout
  BeanNames        \* clientid, code, description, details, level

MAX_AMF3_INTEGER == 2^28 - 1
MIN_AMF3_INTEGER == -(2^28)
NaN == 2^30 + 1
U16_SIZE == 65536

Marker == [undefined |-> 0, null |-> 1, false |-> 2, true |-> 3, int |-> 4, double |-> 5,
           string |-> 6, xmldoc |-> 7, date |-> 8, array |-> 9, object |-> 10, ext |-> 10,
           xml |-> 11, bytes |-> 12, vint |-> 13, vuint |-> 14, vdouble |-> 15,
           vobj |-> 16, dict |-> 17]

\* object_marker(..).is_some(): the values that take a place in the object table.
IsObject(v) == v.t \in DOMAIN Marker /\ Marker[v.t] >= Marker["xmldoc"]

ByteOf(b) == IF b THEN 1 ELSE 0

\* 29 bits, most significant first, 7 to a byte with a continuation bit; the
\* fourth byte carries 8.
Septet(v, shift) == (v \div 2^shift) % 2^7
More(digit) == digit + 128
write_u29(value) ==
  LET v == value % 2^29
  IN IF v < 2^7 THEN <<v>>
     ELSE IF v < 2^14 THEN <<More(Septet(v, 7)), Septet(v, 0)>>
     ELSE IF v < 2^21 THEN <<More(Septet(v, 14)), More(Septet(v, 7)), Septet(v, 0)>>
     ELSE <<More(Septet(v, 22)), More(Septet(v, 15)), More(Septet(v, 8)), v % 2^8>>

-----------------------------------------------------------------------------
(* The encoder.  refs holds pairs of an id of the document and its index   *)
(* in the peer's table; next is that table's length.                       *)

EncodeContext(objects) ==
  [err |-> None, buf |-> <<>>, objects |-> objects, refs |-> {}, next |-> 0,
   strings |-> <<>>, traits |-> <<>>]

EFail(e, why) == IF e.err # None THEN e ELSE [e EXCEPT !.err = why]
Emit(e, cells) == IF e.err # None THEN e ELSE [e EXCEPT !.buf = @ \o cells]

\* The place of an entry in a table, from zero.
IndexIn(table, item) == CHOOSE i \in 0 .. (Len(table) - 1) : table[i + 1] = item
InTable(table, item) == \E i \in DOMAIN table : table[i] = item

\* A full table of the encoder stops growing.
intern_string(e, s) ==
  IF e.err # None \/ Len(e.strings) >= MAX_REFERENCES THEN e
  ELSE [e EXCEPT !.strings = Append(@, s)]
intern_trait(e, info) ==
  IF e.err # None \/ Len(e.traits) >= MAX_REFERENCES THEN e
  ELSE [e EXCEPT !.traits = Append(@, info)]

write_string_data(e, s) ==
  IF e.err # None THEN e
  ELSE IF Len(s) > MAX_STRING_LEN THEN EFail(e, "StringTooLong")
  ELSE IF s = <<>> THEN Emit(e, write_u29(1))
  ELSE IF InTable(e.strings, s) THEN Emit(e, write_u29(2 * IndexIn(e.strings, s)))
  ELSE intern_string(Emit(e, write_u29(2 * Len(s) + 1) \o s), s)

RECURSIVE write_names(_, _)
write_names(e, names) ==
  IF names = <<>> THEN e ELSE write_names(write_string_data(e, Head(names)), Tail(names))

write_blob(e, bytes, max) ==
  IF Len(bytes) > max THEN EFail(e, "TooLong")
  ELSE Emit(e, write_u29(2 * Len(bytes) + 1) \o bytes)

TraitInfo(class_name, sealed_names, dynamic, externalizable) ==
  [class_name |-> class_name, sealed_names |-> sealed_names,
   dynamic |-> dynamic, externalizable |-> externalizable]

\* The traits of an object: a reference, or inline and then remembered.
write_traits(e, info, header) ==
  IF InTable(e.traits, info) THEN Emit(e, write_u29(4 * IndexIn(e.traits, info) + 1))
  ELSE intern_trait(write_names(Emit(e, write_u29(header)),
                                <<info.class_name>> \o info.sealed_names), info)

\* write_externalizable_header
ExternalHeader(e, class_name) ==
  write_traits(Emit(e, <<Marker["object"]>>), TraitInfo(class_name, <<>>, FALSE, TRUE), 7)

\* A string of a Java bean: a length of 16 bits, outside the string table.
write_java_utf(e, s) ==
  IF Len(s) >= U16_SIZE THEN EFail(e, "StringTooLong") ELSE Emit(e, <<Len(s)>> \o s)

\* get_double: either numeric variant.
get_double(v) == IF v.t = "int" THEN 2 * v.x[1] ELSE v.x[1]

\* StatusBean::from_members finds the five members by name, in any order.
IsBean(v) ==
  /\ v.t = "object" /\ v.a = <<0, 1>> /\ Len(v.keys) = 5
  /\ \A i \in DOMAIN BeanNames : \E j \in DOMAIN v.keys :
       /\ v.keys[j] = BeanNames[i]
       /\ \A k \in 1 .. (j - 1) : v.keys[k] # BeanNames[i]
       /\ v.kids[j].t \in (IF i = 1 THEN {"int", "double"} ELSE {"string"})
BeanMember(v, i) ==
  v.kids[CHOOSE j \in DOMAIN v.keys :
           v.keys[j] = BeanNames[i] /\ \A k \in 1 .. (j - 1) : v.keys[k] # BeanNames[i]]

write_status_bean(e, class_name, v) ==
  IF ~IsBean(v) THEN EFail(e, "ExternalizableUnsupported")
  ELSE LET head == Emit(ExternalHeader(e, class_name), <<get_double(BeanMember(v, 1))>>)
       IN FoldLeft(LAMBDA acc, i : write_java_utf(acc, BeanMember(v, i).x), head, <<2, 3, 4, 5>>)

RECURSIVE write_value(_, _, _), write_values(_, _, _), write_pairs(_, _, _, _)
write_values(e, vs, depth) ==
  IF vs = <<>> THEN e
  ELSE write_values(write_value(e, Head(vs), depth), Tail(vs), depth)
\* Named members, and the empty name that ends them.
write_pairs(e, names, vs, depth) ==
  IF names = <<>> THEN write_string_data(e, <<>>)
  ELSE write_pairs(write_value(write_string_data(e, Head(names)), Head(vs), depth),
                   Tail(names), Tail(vs), depth)

write_dynamic(e, v, n, depth) ==
  IF v.a[2] = 0 THEN e
  ELSE write_pairs(e, SubSeq(v.keys, n + 1, Len(v.keys)), SubSeq(v.kids, n + 1, Len(v.kids)), depth)
write_object(e, v, depth) ==
  LET n == v.a[1]
      info == TraitInfo(v.x, SubSeq(v.keys, 1, n), v.a[2] = 1, FALSE)
  IN IF n > MAX_COLLECTION_LEN \/ Len(v.keys) - n > MAX_COLLECTION_LEN
     THEN EFail(e, "CollectionTooLarge")
     ELSE write_dynamic(write_values(write_traits(Emit(e, <<Marker["object"]>>), info,
                                                  16 * n + 8 * v.a[2] + 3),
                                     SubSeq(v.kids, 1, n), depth + 1),
                        v, n, depth + 1)

\* Every variant but the reference, once it has its place in the object table.
write_inline(e, v, depth) ==
  LET m == Emit(e, <<Marker[v.t]>>)
      length(n) == write_u29(2 * n + 1)
  IN CASE v.t \in {"undefined", "null", "false", "true"} -> m
       [] v.t = "int" ->
            IF v.x[1] \in MIN_AMF3_INTEGER .. MAX_AMF3_INTEGER THEN Emit(m, write_u29(v.x[1]))
            ELSE Emit(e, <<Marker["double"], 2 * v.x[1]>>)
       [] v.t = "double" -> Emit(m, v.x)
       [] v.t = "string" -> write_string_data(m, v.x)
       [] v.t \in {"xmldoc", "xml"} -> write_blob(m, v.x, MAX_STRING_LEN)
       [] v.t = "bytes" -> write_blob(m, v.x, MAX_BYTEARRAY_LEN)
       [] v.t = "date" -> Emit(m, <<1>> \o v.x)
       [] v.t = "array" ->
            LET n == Len(v.keys)
            IN IF Len(v.kids) > MAX_COLLECTION_LEN THEN EFail(e, "CollectionTooLarge")
               ELSE write_values(write_pairs(Emit(m, length(Len(v.kids) - n)), v.keys,
                                             SubSeq(v.kids, 1, n), depth + 1),
                                 SubSeq(v.kids, n + 1, Len(v.kids)), depth + 1)
       [] v.t \in {"vint", "vuint", "vdouble"} ->
            IF Len(v.x) > MAX_COLLECTION_LEN THEN EFail(e, "CollectionTooLarge")
            ELSE Emit(m, length(Len(v.x)) \o v.a \o v.x)
       [] v.t = "vobj" ->
            IF Len(v.kids) > MAX_COLLECTION_LEN THEN EFail(e, "CollectionTooLarge")
            ELSE write_values(write_string_data(Emit(m, length(Len(v.kids)) \o v.a), v.x),
                              v.kids, depth + 1)
       [] v.t = "dict" ->
            IF Len(v.kids) \div 2 > MAX_COLLECTION_LEN THEN EFail(e, "CollectionTooLarge")
            ELSE write_values(Emit(m, length(Len(v.kids) \div 2) \o v.a), v.kids, depth + 1)
       [] v.t = "object" -> write_object(e, v, depth)
       [] v.t = "ext" /\ v.x \in NestedClasses ->
            write_value(ExternalHeader(e, v.x), v.kids[1], depth + 1)
       [] v.t = "ext" /\ v.x \in StatusClasses -> write_status_bean(e, v.x, v.kids[1])
       [] v.t = "ext" /\ v.x \notin NestedClasses \cup StatusClasses ->
            EFail(e, "ExternalizableUnsupported")

\* A defect: the index is taken after the object's members.
write_referenceLate(e, id, depth) ==
  IF ~Known(e.objects, id) THEN EFail(e, "InvalidReference")
  ELSE LET target == Get(e.objects, id)
           w == write_value(e, target, depth)
       IN IF ~IsObject(target) THEN EFail(e, "InvalidReference")
          ELSE IF \E r \in e.refs : r[1] = id
            THEN Emit(e, <<Marker[target.t]>>
                         \o write_u29(2 * (CHOOSE r \in e.refs : r[1] = id)[2]))
          ELSE [w EXCEPT !.refs = @ \cup {<<id, w.next - 1>>}]
\* A reference writes its object the first time and an index after that; the
\* index is fixed before the object's own members are written.
write_reference(e, id, depth) ==
  IF ~Known(e.objects, id) THEN EFail(e, "InvalidReference")
  ELSE LET target == Get(e.objects, id)
       IN IF ~IsObject(target) THEN EFail(e, "InvalidReference")
          ELSE IF \E r \in e.refs : r[1] = id
            THEN Emit(e, <<Marker[target.t]>>
                         \o write_u29(2 * (CHOOSE r \in e.refs : r[1] = id)[2]))
          ELSE write_value([e EXCEPT !.refs = @ \cup {<<id, e.next>>}], target, depth)

write_value(e, v, depth) ==
  IF e.err # None THEN e
  ELSE IF depth > MAX_DEPTH THEN EFail(e, "DepthLimit")
  ELSE IF IsRef(v) THEN write_reference(e, IdOf(v), depth)
  ELSE IF IsObject(v) /\ e.next >= MAX_REFERENCES THEN EFail(e, "CollectionTooLarge")
  ELSE write_inline([e EXCEPT !.next = IF IsObject(v) THEN @ + 1 ELSE @], v, depth)

\* encode_document: what was written before an error is cut off again.
finished_document(e) == [err |-> e.err, buf |-> IF e.err # None THEN <<>> ELSE e.buf]
encode_document(roots, objects) ==
  finished_document(write_values(EncodeContext(objects), roots, 0))

-----------------------------------------------------------------------------
(* The decoder.  v is what the last read returned.                         *)

DecodeContext(cells) ==
  [err |-> None, in |-> cells, strings |-> <<>>, objects |-> <<>>, traits |-> <<>>, v |-> <<>>]

Bad(d) == d.err # None
DFail(d, why) == IF Bad(d) THEN d ELSE [d EXCEPT !.err = why]
Return(d, v) == IF Bad(d) THEN d ELSE [d EXCEPT !.v = v]
\* The ? operator: what follows a read that succeeded.
Then(d, next(_)) == IF Bad(d) THEN d ELSE next(d)

\* n cells: a field of fixed width is one, text is as long as its prefix says.
\* A length the input cannot satisfy is refused before anything is read.
read_exact(d, n) ==
  IF Bad(d) THEN d
  ELSE IF n > Len(d.in) THEN DFail(d, "UnexpectedEof")
  ELSE [d EXCEPT !.v = SubSeq(d.in, 1, n), !.in = SubSeq(d.in, n + 1, Len(d.in))]
read_cell(d) == Then(read_exact(d, 1), LAMBDA r : Return(r, r.v[1]))

\* Seven bits of each byte, and all eight of the fourth.
u29_bytes(in) ==
  LET more(i) == i <= Len(in) /\ in[i] >= 128
  IN IF ~more(1) THEN 1 ELSE IF ~more(2) THEN 2 ELSE IF ~more(3) THEN 3 ELSE 4
u29(bytes) ==
  FoldLeft(LAMBDA n, i : IF i = 4 THEN n * 2^8 + bytes[i] ELSE n * 2^7 + (bytes[i] % 2^7),
           0, [i \in DOMAIN bytes |-> i])
read_u29(d) == Then(read_exact(d, u29_bytes(d.in)), LAMBDA r : Return(r, u29(r.v)))

u29_to_integer(raw) == IF raw >= 2^28 THEN raw - 2^29 ELSE raw

\* A full table of the decoder is an error.
push_string(d, s) ==
  IF Bad(d) THEN d
  ELSE IF Len(d.strings) >= MAX_REFERENCES THEN DFail(d, "TooManyReferences")
  ELSE [d EXCEPT !.strings = Append(@, s)]
push_trait(d, info) ==
  IF Bad(d) THEN d
  ELSE IF Len(d.traits) >= MAX_REFERENCES THEN DFail(d, "TooManyReferences")
  ELSE [d EXCEPT !.traits = Append(@, info)]
\* The slot an object takes before its members are read.
push_object(d) ==
  IF Bad(d) THEN d
  ELSE IF Len(d.objects) >= MAX_REFERENCES THEN DFail(d, "TooManyReferences")
  ELSE [d EXCEPT !.objects = Append(@, Leaf("null", <<>>))]
finish_object(d, slot, v) ==
  IF Bad(d) THEN d
  ELSE [d EXCEPT !.objects = [@ EXCEPT ![slot + 1] = v], !.v = Reference(slot)]
store_object(d, v) == finish_object(push_object(d), Len(d.objects), v)
resolve_object(d, index) ==
  IF index < Len(d.objects) THEN Return(d, Reference(index)) ELSE DFail(d, "BadObjectReference")

string_at(u, len) ==
  IF u.v % 2 = 0
  THEN IF len < Len(u.strings) THEN Return(u, u.strings[len + 1])
       ELSE DFail(u, "BadStringReference")
  ELSE IF len > MAX_STRING_LEN THEN DFail(u, "StringTooLong")
  ELSE IF len = 0 THEN Return(u, <<>>)
  ELSE Then(read_exact(u, len), LAMBDA text : push_string(text, text.v))
read_string_content(d) == Then(read_u29(d), LAMBDA u : string_at(u, u.v \div 2))

\* The header of an object: an earlier one, or a length that inline goes by.
read_header(d, inline(_, _)) ==
  Then(read_u29(d), LAMBDA u : IF u.v % 2 = 0 THEN resolve_object(u, u.v \div 2)
                               ELSE inline(u, u.v \div 2))
AtMost(max, n, d, why) == IF n > max THEN DFail(d, why) ELSE d

\* read_xml_doc, read_xml, read_byte_array, read_date: values without members.
read_blob(d, t, max) ==
  read_header(d, LAMBDA u, n :
    Then(read_exact(AtMost(max, n, u, "TooLong"), n),
         LAMBDA bytes : store_object(bytes, Leaf(t, bytes.v))))
read_date(d) ==
  read_header(d, LAMBDA u, n :
    Then(read_cell(u), LAMBDA millis : store_object(millis, Leaf("date", <<millis.v>>))))
\* read_vector_int, read_vector_uint, read_vector_double
read_numbers(d, t) ==
  read_header(d, LAMBDA u, n :
    Then(read_cell(AtMost(MAX_COLLECTION_LEN, n, u, "CollectionTooLarge")), LAMBDA flag :
      Then(read_exact(push_object(flag), n), LAMBDA items :
        finish_object(items, Len(d.objects),
                      [Leaf(t, items.v) EXCEPT !.a = <<ByteOf(flag.v # 0)>>]))))

RECURSIVE read_value(_, _), read_items(_, _, _, _), read_members(_, _, _, _, _), read_names(_, _, _)
\* n values, after those in acc.
read_items(d, n, depth, acc) ==
  IF n = 0 THEN Return(d, acc)
  ELSE Then(read_value(d, depth), LAMBDA r : read_items(r, n - 1, depth, Append(acc, r.v)))
\* Names and values up to the empty name; dense counts against the same limit.
read_members(d, depth, dense, names, acc) ==
  Then(read_string_content(d), LAMBDA key :
    IF key.v = <<>> THEN Return(key, <<names, acc>>)
    ELSE IF Len(names) >= MAX_COLLECTION_LEN THEN DFail(key, "CollectionTooLarge")
    ELSE Then(read_value(key, depth), LAMBDA item :
           IF Len(names) + 1 + dense > MAX_COLLECTION_LEN THEN DFail(item, "CollectionTooLarge")
           ELSE read_members(item, depth, dense, Append(names, key.v), Append(acc, item.v))))
read_names(d, n, acc) ==
  IF n = 0 THEN Return(d, acc)
  ELSE Then(read_string_content(d), LAMBDA r : read_names(r, n - 1, Append(acc, r.v)))

\* A collection of n entries, if n is within the limit.
read_collection(d, inline(_, _)) ==
  read_header(d, LAMBDA u, n : Then(AtMost(MAX_COLLECTION_LEN, n, u, "CollectionTooLarge"),
                                    LAMBDA ok : inline(ok, n)))
read_array(d, depth) ==
  read_collection(d, LAMBDA u, n :
    Then(read_members(push_object(u), depth + 1, n, <<>>, <<>>), LAMBDA assoc :
      Then(read_items(assoc, n, depth + 1, <<>>), LAMBDA dense :
        finish_object(dense, Len(d.objects),
          [Leaf("array", <<>>) EXCEPT !.keys = assoc.v[1], !.kids = assoc.v[2] \o dense.v]))))

\* read_vector_object and read_dictionary: a flag, then values.
finish_flagged(d, slot, t, x, flag) ==
  finish_object(d, slot, [Leaf(t, x) EXCEPT !.a = <<ByteOf(flag # 0)>>, !.kids = d.v])
read_vector_object(d, depth) ==
  read_collection(d, LAMBDA u, n :
    Then(read_cell(u), LAMBDA flag : Then(read_string_content(flag), LAMBDA name :
      Then(read_items(push_object(name), n, depth + 1, <<>>), LAMBDA items :
        finish_flagged(items, Len(d.objects), "vobj", name.v, flag.v)))))
read_dictionary(d, depth) ==
  read_collection(d, LAMBDA u, n :
    Then(read_cell(u), LAMBDA flag :
      Then(read_items(push_object(flag), 2 * n, depth + 1, <<>>), LAMBDA items :
        finish_flagged(items, Len(d.objects), "dict", <<>>, flag.v))))
\* The trait half of read_object: a reference to earlier traits, or new ones.
read_new_traits(d, sealed_count, dynamic, ext) ==
  IF sealed_count > MAX_COLLECTION_LEN THEN DFail(d, "CollectionTooLarge")
  ELSE Then(read_string_content(d), LAMBDA class :
         Then(read_names(class, sealed_count, <<>>), LAMBDA names :
           LET info == TraitInfo(class.v, names.v, dynamic, ext)
           IN Return(push_trait(names, info), info)))
read_traits(d, header) ==
  LET index == header \div 4
      ext == index % 2 = 1
  IN IF (header \div 2) % 2 = 1
     THEN read_new_traits(d, IF ext THEN 0 ELSE header \div 16, (header \div 8) % 2 = 1, ext)
     ELSE IF index < Len(d.traits) THEN Return(d, d.traits[index + 1])
     ELSE DFail(d, "BadTraitReference")

read_java_utf(d) == Then(read_cell(d), LAMBDA len : read_exact(len, len.v))
RECURSIVE read_java_strings(_, _, _)
read_java_strings(d, n, acc) ==
  IF n = 0 THEN Return(d, acc)
  ELSE Then(read_java_utf(d), LAMBDA r :
         read_java_strings(r, n - 1, Append(acc, Leaf("string", r.v))))
\* read_status_bean: a number and four strings.
read_status_bean(d) ==
  Then(read_cell(d), LAMBDA client_id :
    read_java_strings(client_id, 4, <<Leaf("double", <<client_id.v>>)>>))

\* The layouts of the registry: one nested value, or the status bean, whose
\* properties become a dynamic object.  A bean that cannot be read is reported
\* as an unsupported class.
wrapped(class_name, v) == [Leaf("ext", class_name) EXCEPT !.kids = <<v>>]
finish_bean(d, bean, class_name) ==
  IF Bad(bean) THEN DFail(d, "ExternalizableUnsupported")
  ELSE finish_object(bean, Len(d.objects),
         wrapped(class_name, [Leaf("object", <<>>) EXCEPT
                                !.a = <<0, 1>>, !.keys = BeanNames, !.kids = bean.v]))
read_externalizable(d, class_name, depth) ==
  CASE class_name \in NestedClasses ->
         Then(read_value(push_object(d), depth + 1), LAMBDA inner :
           finish_object(inner, Len(d.objects), wrapped(class_name, inner.v)))
    [] class_name \in StatusClasses ->
         Then(push_object(d), LAMBDA slot : finish_bean(d, read_status_bean(slot), class_name))
    [] OTHER -> DFail(d, "ExternalizableUnsupported")

\* read_object: the traits, the sealed members, then the dynamic ones; slot is
\* the place the object took before its members.
object_of(dynamic, slot, info, sealed) ==
  finish_object(dynamic, slot,
    [Leaf("object", info.class_name) EXCEPT
       !.a = <<Len(info.sealed_names), ByteOf(info.dynamic)>>,
       !.keys = info.sealed_names \o dynamic.v[1], !.kids = sealed \o dynamic.v[2]])
read_dynamic(d, info, depth) ==
  IF info.dynamic THEN read_members(d, depth, 0, <<>>, <<>>) ELSE Return(d, << <<>>, <<>> >>)
read_new_object(d, slot, info, depth) ==
  IF info.externalizable THEN read_externalizable(d, info.class_name, depth)
  ELSE Then(read_items(push_object(d), Len(info.sealed_names), depth + 1, <<>>), LAMBDA sealed :
         Then(read_dynamic(sealed, info, depth + 1), LAMBDA dynamic :
           object_of(dynamic, slot, info, sealed.v)))
read_object(d, depth) ==
  Then(read_u29(d), LAMBDA u :
    IF u.v % 2 = 0 THEN resolve_object(u, u.v \div 2)
    ELSE Then(read_traits(u, u.v), LAMBDA traits :
           read_new_object(traits, Len(d.objects), traits.v, depth)))

read_value_with_marker(d, marker, depth) ==
  CASE marker = 0 -> Return(d, Leaf("undefined", <<>>))
    [] marker = 1 -> Return(d, Leaf("null", <<>>))
    [] marker = 2 -> Return(d, Leaf("false", <<>>))
    [] marker = 3 -> Return(d, Leaf("true", <<>>))
    [] marker = 4 -> Then(read_u29(d), LAMBDA u : Return(u, Leaf("int", <<u29_to_integer(u.v)>>)))
    [] marker = 5 -> Then(read_cell(d), LAMBDA n : Return(n, Leaf("double", <<n.v>>)))
    [] marker = 6 -> Then(read_string_content(d), LAMBDA s : Return(s, Leaf("string", s.v)))
    [] marker = 7 -> read_blob(d, "xmldoc", MAX_STRING_LEN)
    [] marker = 8 -> read_date(d)
    [] marker = 9 -> read_array(d, depth)
    [] marker = 10 -> read_object(d, depth)
    [] marker = 11 -> read_blob(d, "xml", MAX_STRING_LEN)
    [] marker = 12 -> read_blob(d, "bytes", MAX_BYTEARRAY_LEN)
    [] marker = 13 -> read_numbers(d, "vint")
    [] marker = 14 -> read_numbers(d, "vuint")
    [] marker = 15 -> read_numbers(d, "vdouble")
    [] marker = 16 -> read_vector_object(d, depth)
    [] marker = 17 -> read_dictionary(d, depth)
    [] OTHER -> DFail(d, "UnknownMarker")

marked_value3(d, depth) == IF Bad(d) THEN d ELSE read_value_with_marker(d, d.v, depth)
read_value(d, depth) ==
  IF Bad(d) THEN d
  ELSE IF depth > MAX_DEPTH THEN DFail(d, "DepthLimit")
  ELSE marked_value3(read_cell(d), depth)

\* A document, or the error that stopped it.
DocumentOf(d, roots) ==
  [err |-> d.err, roots |-> roots, objects |-> IF Bad(d) THEN <<>> ELSE d.objects,
   embedded |-> <<>>, rest |-> d.in]

\* Values up to the end of the input.
RECURSIVE read_roots(_, _), read_more(_, _)
read_more(r, roots) ==
  IF Bad(r) THEN DocumentOf(r, <<>>)
  ELSE IF Len(roots) >= MAX_COLLECTION_LEN
    THEN DocumentOf(DFail(r, "CollectionTooLarge"), <<>>)
  ELSE read_roots(r, Append(roots, r.v))
read_roots(d, roots) ==
  IF d.in = <<>> THEN DocumentOf(d, roots) ELSE read_more(read_value(d, 0), roots)
deserialize_document(cells) == read_roots(DecodeContext(cells), <<>>)

\* Exactly one value; the rest of the input is left to the caller.
single_root(r) == DocumentOf(r, IF Bad(r) THEN <<>> ELSE <<r.v>>)
deserialize_document_single(cells) == single_root(read_value(DecodeContext(cells), 0))

\* relocate: the ids of an imported arena move up by base.
RECURSIVE relocate(_, _)
relocate(v, base) ==
  IF IsRef(v) THEN Reference(IdOf(v) + base)
  ELSE [v EXCEPT !.kids = [i \in DOMAIN v.kids |-> relocate(v.kids[i], base)]]
=============================================================================
