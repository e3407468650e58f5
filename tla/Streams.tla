------------------------------ MODULE Streams ------------------------------
(***************************************************************************)
(* sessions/streams.rs: the generational handle table of one session, as   *)
(* operators on the table [slots, by_wire].  A handle is [slot,            *)
(* generation]; the session identity it also carries only separates the    *)
(* tables of different sessions and is left out.                           *)
(***************************************************************************)
EXTENDS Naturals, Sequences, FiniteSets, Functions

CONSTANTS GenerationMax,  \* u32::MAX: a slot at this generation is retired
          NoWire          \* an entry whose wire stream id is not known yet

ASSUME GenerationAssumption == GenerationMax \in Nat \ {0}

NoState == "none"

EmptySlot == [generation |-> 0, live |-> FALSE, wire |-> NoWire, state |-> NoState]

NewStreams == [slots |-> << >>, by_wire |-> << >>]

\* A defect: a reused slot is taken for the stream that was there before.
ValidAnyGeneration(t, h) == h.slot \in DOMAIN t.slots /\ t.slots[h.slot].live

\* Both get and get_mut: the entry of a handle exists.
Valid(t, h) == /\ h.slot \in DOMAIN t.slots
               /\ t.slots[h.slot].generation = h.generation
               /\ t.slots[h.slot].live

WireOf(t, h) == t.slots[h.slot].wire

StateOf(t, h) == t.slots[h.slot].state

\* iter: the handles of all entries.
Handles(t) == {[slot |-> i, generation |-> t.slots[i].generation] :
                 i \in {j \in DOMAIN t.slots : t.slots[j].live}}

Known(t, wire) == wire \in DOMAIN t.by_wire

find(t, wire) == t.by_wire[wire]

Map(f, x, y) == [z \in DOMAIN f \cup {x} |-> IF z = x THEN y ELSE f[z]]

Reusable(t) == {i \in DOMAIN t.slots : /\ ~t.slots[i].live
                                       /\ t.slots[i].generation < GenerationMax}

\* The first free slot that is not retired, or a new one.
FreeSlot(t) == IF Reusable(t) = {} THEN Len(t.slots) + 1
               ELSE CHOOSE i \in Reusable(t) : \A j \in Reusable(t) : i <= j

\* A defect: a reused slot keeps its generation.
InsertedHandleSameGeneration(t) ==
  LET i == FreeSlot(t) IN
  [slot |-> i, generation |-> IF i \in DOMAIN t.slots THEN t.slots[i].generation ELSE 1]

\* The handle that insert returns.
InsertedHandle(t) ==
  LET i == FreeSlot(t) IN
  [slot |-> i,
   generation |-> 1 + (IF i \in DOMAIN t.slots THEN t.slots[i].generation ELSE 0)]

insert(t, state, wire) ==
  LET h == InsertedHandle(t) IN
  [slots |-> Map(t.slots, h.slot, [generation |-> h.generation, live |-> TRUE,
                                   wire |-> wire, state |-> state]),
   by_wire |-> IF wire = NoWire THEN t.by_wire ELSE Map(t.by_wire, wire, h)]

\* A defect: the wire id of a removed entry is still found.
removeKeepingWire(t, h) ==
  [slots |-> [t.slots EXCEPT ![h.slot].live = FALSE, ![h.slot].wire = NoWire,
                             ![h.slot].state = NoState],
   by_wire |-> t.by_wire]

\* For a valid handle; the table is left alone otherwise.
remove(t, h) ==
  LET wire == WireOf(t, h) IN
  [slots |-> [t.slots EXCEPT ![h.slot].live = FALSE, ![h.slot].wire = NoWire,
                             ![h.slot].state = NoState],
   by_wire |-> IF wire = NoWire THEN t.by_wire
               ELSE Restrict(t.by_wire, DOMAIN t.by_wire \ {wire})]

\* A defect: a stream that gets its wire id is not found by it.
bindWithoutIndex(t, h, wire) == [t EXCEPT !.slots[h.slot].wire = wire]

bind(t, h, wire) == [slots |-> [t.slots EXCEPT ![h.slot].wire = wire],
                     by_wire |-> Map(t.by_wire, wire, h)]

set_state(t, h, state) == [t EXCEPT !.slots[h.slot].state = state]

-----------------------------------------------------------------------------
(* What a table must satisfy.                                              *)

\* find returns a live handle whose entry has that wire id, and every entry
\* with a wire id is found by it.
IndexConsistent(t) ==
  /\ \A w \in DOMAIN t.by_wire : /\ Valid(t, t.by_wire[w])
                                 /\ WireOf(t, t.by_wire[w]) = w
  /\ \A h \in Handles(t) : WireOf(t, h) # NoWire => /\ Known(t, WireOf(t, h))
                                                    /\ find(t, WireOf(t, h)) = h
=============================================================================
