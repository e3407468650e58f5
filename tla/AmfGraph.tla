------------------------------ MODULE AmfGraph ------------------------------
(***************************************************************************)
(* AMF documents: an arena of complex values that refer to one another by  *)
(* number (amf/graph.rs), and its expansion into owned trees under a       *)
(* budget.                                                                 *)
(*                                                                         *)
(* A value of either encoding is one record.  t is the variant, x its text *)
(* or number (a sequence of cells), a its small attributes, keys the names *)
(* of its members and kids the values inside it, in wire order.  A wire is *)
(* a sequence of cells: a byte is a cell, and so is every field of fixed   *)
(* width (u16, u32, f64).                                                  *)
(***************************************************************************)
EXTENDS Integers, Sequences, SequencesExt

CONSTANTS
  NodeSize,      \* size_of a value, in the unit of maximum_bytes
  PairSize       \* size_of a name and a value

None == ""

\* A value without members, and a reference to object id of the document.
Leaf(t, x) == [t |-> t, x |-> x, a |-> <<>>, keys |-> <<>>, kids |-> <<>>]
Reference(id) == Leaf("ref", <<id>>)

IsRef(v) == v.t = "ref"
IdOf(v) == v.x[1]

\* Document::get: object ids count from zero.
Known(objects, id) == id < Len(objects)
Get(objects, id) == objects[id + 1]

\* The order in which children() visits: an array's dense part comes first.
children(v) ==
  CASE v.t = "avm"   -> <<>>
    [] v.t = "array" -> LET n == Len(v.keys)
                        IN SubSeq(v.kids, n + 1, Len(v.kids)) \o SubSeq(v.kids, 1, n)
    [] OTHER         -> v.kids

\* The total length of a sequence of names.
TextLength[names \in Seq(Seq(Int))] ==
  IF names = <<>> THEN 0 ELSE Len(Head(names)) + TextLength[Tail(names)]

\* What a value owns besides itself: its text, its names and its element slots.
heap_bytes(v) ==
  CASE v.t \in {"string", "xml", "xmldoc", "bytes"} -> Len(v.x)
    [] v.t \in {"vint", "vuint"} -> 4 * Len(v.x)
    [] v.t = "vdouble" -> 8 * Len(v.x)
    [] v.t \in {"object", "typed"} ->
         Len(v.x) + Len(v.keys) * PairSize + TextLength[v.keys]
    [] v.t = "array" ->
         Len(v.keys) * PairSize + TextLength[v.keys] + (Len(v.kids) - Len(v.keys)) * NodeSize
    [] v.t \in {"sarray", "avm"} -> Len(v.kids) * NodeSize
    [] v.t \in {"ext", "vobj", "dict"} -> Len(v.x) + Len(v.kids) * NodeSize
    [] OTHER -> 0

-----------------------------------------------------------------------------
(* Expansion.  A budget is what is left of the TreeLimits, and the error   *)
(* that stopped the walk.                                                  *)

Budget(nodes, bytes, depth) ==
  [err |-> None, nodes |-> nodes, bytes |-> bytes, depth |-> depth]

\* The walk over a value that must succeed before anything is copied: the
\* references on the path are remembered, shared objects count each time.
RECURSIVE validate(_, _, _, _, _, _), validate_all(_, _, _, _, _, _)
validate(b, v, objects, embedded, path, depth) ==
  IF b.err # None THEN b
  ELSE IF depth > b.depth THEN [b EXCEPT !.err = "Limit"]
  ELSE IF IsRef(v)
    THEN IF IdOf(v) \in path THEN [b EXCEPT !.err = "Cycle"]
         ELSE IF ~Known(objects, IdOf(v)) THEN [b EXCEPT !.err = "InvalidReference"]
         ELSE IF IsRef(Get(objects, IdOf(v))) THEN [b EXCEPT !.err = "InvalidReference"]
         ELSE validate(b, Get(objects, IdOf(v)), objects, embedded,
                       path \cup {IdOf(v)}, depth)
  ELSE IF b.nodes = 0 \/ b.bytes < heap_bytes(v) THEN [b EXCEPT !.err = "Limit"]
  ELSE LET paid == [b EXCEPT !.nodes = @ - 1, !.bytes = @ - heap_bytes(v)]
           \* check_embedded: the AMF3 value behind the escape has its own arena
           inner == IF v.t = "avm"
                    THEN validate(paid, v.kids[1], embedded, <<>>, {}, depth + 1)
                    ELSE paid
       IN validate_all(inner, children(v), objects, embedded, path, depth + 1)
validate_all(b, vs, objects, embedded, path, depth) ==
  IF vs = <<>> THEN b
  ELSE validate_all(validate(b, Head(vs), objects, embedded, path, depth),
                    Tail(vs), objects, embedded, path, depth)

\* Replaces references by copies of what they name.  It has no guard of its
\* own against cycles: validate is what makes it terminate.
RECURSIVE install(_, _, _)
install(v, objects, embedded) ==
  LET w == IF IsRef(v) THEN Get(objects, IdOf(v)) ELSE v
  IN [w EXCEPT !.kids = [i \in DOMAIN w.kids |->
        IF w.t = "avm" THEN install(w.kids[i], embedded, <<>>)
        ELSE install(w.kids[i], objects, embedded)]]

\* A defect: a budget for each root.
expand_per_root(roots, objects, embedded, limits) ==
  LET bs == {validate(limits, roots[i], objects, embedded, {}, 0) : i \in DOMAIN roots}
      failed == {b \in bs : b.err # None}
  IN IF failed # {} THEN [err |-> (CHOOSE b \in failed : TRUE).err, roots |-> <<>>]
     ELSE [err |-> None,
           roots |-> [i \in DOMAIN roots |-> install(roots[i], objects, embedded)]]
\* to_tree: every root is validated against one budget before any is copied.
expand_with_embedded(roots, objects, embedded, limits) ==
  LET b == validate_all(limits, roots, objects, embedded, {}, 0)
  IN IF b.err # None THEN [err |-> b.err, roots |-> <<>>]
     ELSE [err |-> None,
           roots |-> [i \in DOMAIN roots |-> install(roots[i], objects, embedded)]]

-----------------------------------------------------------------------------
(* What expansion means, without a walk that remembers its path.           *)

\* The ids a value mentions, in its own arena.
RECURSIVE Mentions(_)
Mentions(v) ==
  IF IsRef(v) THEN {IdOf(v)}
  ELSE UNION {Mentions(children(v)[i]) : i \in DOMAIN children(v)}

\* The ids reachable from a set of ids.
RECURSIVE Reach(_, _)
Reach(ids, objects) ==
  LET next == ids \cup UNION {Mentions(Get(objects, i)) : i \in {j \in ids : Known(objects, j)}}
  IN IF next = ids THEN ids ELSE Reach(next, objects)

\* A value down to depth k, with what lies deeper cut away.  Two values with
\* the same unfolding cannot be told apart by a reader that goes no deeper.
RECURSIVE Unfold(_, _, _, _)
Unfold(v, objects, embedded, k) ==
  CASE IsRef(v) /\ ~(Known(objects, IdOf(v)) /\ ~IsRef(Get(objects, IdOf(v)))) -> Leaf("dangling", <<>>)
    [] IsRef(v) -> Unfold(Get(objects, IdOf(v)), objects, embedded, k)
    [] k = 0 -> Leaf("cut", <<>>)
    [] OTHER -> [v EXCEPT !.kids = [i \in DOMAIN v.kids |->
                   IF v.t = "avm" THEN Unfold(v.kids[i], embedded, <<>>, k - 1)
                   ELSE Unfold(v.kids[i], objects, embedded, k - 1)]]

\* The nodes and the bytes of a tree.
RECURSIVE Weight(_)
Weight(v) ==
  LET parts == [i \in DOMAIN v.kids |-> Weight(v.kids[i])]
      all == FoldSeq(LAMBDA p, q : <<p[1] + q[1], p[2] + q[2]>>, <<0, 0>>, parts)
  IN <<1 + all[1], heap_bytes(v) + all[2]>>
=============================================================================
