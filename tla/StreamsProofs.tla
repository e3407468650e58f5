--------------------------- MODULE StreamsProofs ---------------------------
(***************************************************************************)
(* Facts about the handle table, for any number of slots, generations and  *)
(* wire ids: each operation keeps the index the inverse of the entries,    *)
(* changes exactly the handle it is about, and revives none.               *)
(***************************************************************************)
EXTENDS Streams, FiniteSetTheorems, SequenceTheorems, WellFoundedInduction, TLAPS

AllHandles == [slot : Nat \ {0}, generation : Nat]
\* The states of a client's streams; a server keeps no state in its table.
States == {NoState, "Creating", "StartingPlayback", "Playing", "StartingPublish", "Publishing"}
Entries == [generation : Nat, live : BOOLEAN, wire : Nat \cup {NoWire}, state : States]
Indexes == UNION {[W -> AllHandles] : W \in SUBSET Nat}

\* A table that is well formed.
TableOK(t) == /\ t \in [slots : Seq(Entries), by_wire : Indexes]
              /\ IndexConsistent(t)

\* The handle's slot has moved past its generation, or is at it and empty.
Spent(t, h) == /\ h.slot \in DOMAIN t.slots
               /\ h.generation <= t.slots[h.slot].generation
               /\ h.generation = t.slots[h.slot].generation => ~t.slots[h.slot].live

\* A non-empty set of numbers has a least one.
LEMMA LeastNumber ==
  ASSUME NEW T \in SUBSET Nat, T # {}
  PROVE  \E x \in T : \A y \in T : x <= y
<1> DEFINE R == {ss \in Nat \X Nat : ss[1] < ss[2]}
<1>1. IsWellFoundedOn(R, Nat)
  BY Zenon, NatLessThanWellFounded DEF OpToRel
<1>2. \A x, y \in Nat : <<y, x>> \in R <=> y < x
  BY Zenon
<1> HIDE DEF R
<1>3. PICK x \in T : \A y \in T : ~(<<y, x>> \in R)
  BY ZenonT(30), <1>1, WFMin
<1>4. ASSUME NEW y \in T PROVE x <= y
  <2>1. x \in Nat /\ y \in Nat /\ ~(y < x)
    BY ZenonT(30), <1>2, <1>3
  <2> QED BY <2>1
<1> QED BY Zenon, <1>4

\* insert takes an empty slot that is not retired, or a new one.
LEMMA FreeSlotIsFree ==
  ASSUME NEW t, TableOK(t)
  PROVE  \/ FreeSlot(t) \in Reusable(t)
         \/ FreeSlot(t) = Len(t.slots) + 1
<1>1. CASE Reusable(t) = {}
  BY Zenon, <1>1 DEF FreeSlot
<1>2. CASE Reusable(t) # {}
  <2>1. DOMAIN t.slots \subseteq Nat
    BY DEF TableOK
  <2>2. Reusable(t) \in SUBSET Nat
    BY Zenon, <2>1 DEF Reusable
  <2>3. \E i \in Reusable(t) : \A j \in Reusable(t) : i <= j
    BY Zenon, <1>2, <2>2, LeastNumber
  <2> QED BY Zenon, <1>2, <2>3 DEF FreeSlot
<1> QED BY Zenon, <1>1, <1>2

\* The handles of a table are those that are valid.
LEMMA HandlesAreValid ==
  ASSUME NEW t, TableOK(t)
  PROVE  /\ Handles(t) \subseteq AllHandles
         /\ \A h \in AllHandles : h \in Handles(t) <=> Valid(t, h)
<1>1. /\ DOMAIN t.slots \subseteq Nat \ {0}
      /\ \A i \in DOMAIN t.slots : t.slots[i] \in Entries
  BY DEF TableOK
<1>2. Handles(t) \subseteq AllHandles
  BY <1>1 DEF Handles, AllHandles, Entries
<1>3. ASSUME NEW h \in AllHandles PROVE h \in Handles(t) <=> Valid(t, h)
  BY <1>1 DEF Handles, Valid, AllHandles
<1> QED BY Zenon, <1>2, <1>3

\* The index leads to handles of live entries and knows only wire ids.
LEMMA IndexedHandles ==
  ASSUME NEW t, TableOK(t)
  PROVE  /\ DOMAIN t.by_wire \subseteq Nat
         /\ \A w \in DOMAIN t.by_wire : /\ find(t, w) \in AllHandles
                                        /\ find(t, w) \in Handles(t)
                                        /\ Valid(t, find(t, w))
                                        /\ WireOf(t, find(t, w)) = w
<1>1. PICK W \in SUBSET Nat : t.by_wire \in [W -> AllHandles]
  BY Zenon DEF TableOK, Indexes
<1>2. ASSUME NEW w \in DOMAIN t.by_wire
      PROVE  /\ find(t, w) \in AllHandles /\ Valid(t, find(t, w))
             /\ WireOf(t, find(t, w)) = w
  BY ZenonT(30), <1>1 DEF find, TableOK, IndexConsistent
<1> QED BY ZenonT(30), <1>1, <1>2, HandlesAreValid

\* A table that has just been made is well formed and empty.
LEMMA NewTableOK == TableOK(NewStreams) /\ Handles(NewStreams) = {}
<1>1. NewStreams.slots = << >> /\ NewStreams.by_wire = << >>
  BY Zenon DEF NewStreams
<1>2. << >> \in Seq(Entries) /\ DOMAIN << >> = {}
  OBVIOUS
<1>3. << >> \in [{} -> AllHandles]
  OBVIOUS
<1>4. << >> \in Indexes
  BY Zenon, <1>3 DEF Indexes
<1>5. Handles(NewStreams) = {}
  BY Zenon, <1>1, <1>2 DEF Handles
<1>6. IndexConsistent(NewStreams)
  BY Zenon, <1>1, <1>2, <1>5 DEF IndexConsistent
<1> QED BY Zenon, <1>2, <1>4, <1>5, <1>6 DEF TableOK, NewStreams

\* What an operation on the entry of h, which leaves the table u, may do to the
\* other handles: nothing.
OthersKept(t, u, h) ==
  \A g \in Handles(t) \ {h} : /\ g \in Handles(u)
                              /\ WireOf(u, g) = WireOf(t, g)
                              /\ StateOf(u, g) = StateOf(t, g)

\* u is t with the handle h added, for a stream with this state and wire id.
Inserted(t, u, h, state, wire) ==
  /\ TableOK(u)
  /\ h \in AllHandles /\ h \notin Handles(t)
  /\ Handles(u) = Handles(t) \cup {h}
  /\ WireOf(u, h) = wire /\ StateOf(u, h) = state
  /\ OthersKept(t, u, h)
  /\ wire = NoWire => DOMAIN u.by_wire = DOMAIN t.by_wire
  /\ wire # NoWire => DOMAIN u.by_wire = DOMAIN t.by_wire \cup {wire}
  /\ \A g \in AllHandles : Spent(t, g) => Spent(u, g)
  /\ ~Spent(t, h)

\* insert adds one handle, which was never valid before, and finds it by its
\* wire id; handles that were spent stay so.
LEMMA InsertAdds ==
  ASSUME NEW t, TableOK(t), NoWire \notin Nat, NEW state \in States,
         NEW wire \in (Nat \cup {NoWire}) \ DOMAIN t.by_wire
  PROVE  Inserted(t, insert(t, state, wire), InsertedHandle(t), state, wire)
<1>1. PICK u : u = insert(t, state, wire)
  BY Zenon
<1>2. PICK h : h = InsertedHandle(t)
  BY Zenon
<1>3. PICK e : e = [generation |-> h.generation, live |-> TRUE, wire |-> wire, state |-> state]
  BY ZenonT(30)
<1>4. /\ t.slots \in Seq(Entries)
      /\ \A i \in DOMAIN t.slots : i \in Nat \ {0} /\ t.slots[i] \in Entries
  BY DEF TableOK
<1>5. /\ h.slot \in Nat \ {0} /\ h.generation \in Nat \ {0} /\ h \in AllHandles
      /\ h.slot \in DOMAIN t.slots => /\ ~t.slots[h.slot].live
                                      /\ t.slots[h.slot].generation < h.generation
      /\ h.slot \in 1 .. Len(t.slots) + 1
  BY <1>2, <1>4, FreeSlotIsFree DEF InsertedHandle, Reusable, Entries, AllHandles
<1>6. e \in Entries /\ e.live /\ e.wire = wire /\ e.state = state /\ e.generation = h.generation
  BY Zenon, <1>3, <1>5 DEF Entries
<1>7. /\ u = [slots |-> u.slots, by_wire |-> u.by_wire]
      /\ u.slots = [z \in DOMAIN t.slots \cup {h.slot} |-> IF z = h.slot THEN e ELSE t.slots[z]]
      /\ u.by_wire = IF wire = NoWire THEN t.by_wire
                     ELSE [w \in DOMAIN t.by_wire \cup {wire} |->
                             IF w = wire THEN h ELSE t.by_wire[w]]
  BY Zenon, <1>1, <1>2, <1>3 DEF insert, Map
<1>8. u.slots \in Seq(Entries)
  <2>1. PICK n \in Nat : n = IF h.slot \in DOMAIN t.slots THEN Len(t.slots)
                            ELSE Len(t.slots) + 1
    BY <1>4
  <2>2. DOMAIN t.slots \cup {h.slot} = 1 .. n
    BY <1>4, <1>5, <2>1
  <2>3. u.slots \in [1 .. n -> Entries]
    BY <1>4, <1>6, <1>7, <2>2
  <2> QED BY Zenon, <2>3, SeqDef
<1>9. /\ DOMAIN u.slots = DOMAIN t.slots \cup {h.slot}
      /\ u.slots[h.slot] = e
      /\ \A i \in DOMAIN t.slots \ {h.slot} : u.slots[i] = t.slots[i]
  BY Zenon, <1>7
<1>10. u.by_wire \in Indexes
  <2>1. PICK W \in SUBSET Nat : t.by_wire \in [W -> AllHandles]
    BY Zenon DEF TableOK, Indexes
  <2>2. CASE wire = NoWire
    BY Zenon, <1>7, <2>1, <2>2 DEF Indexes
  <2>3. CASE wire # NoWire
    <3>1. u.by_wire \in [W \cup {wire} -> AllHandles] /\ W \cup {wire} \in SUBSET Nat
      BY <1>5, <1>7, <2>1, <2>3
    <3> QED BY Zenon, <3>1 DEF Indexes
  <2> QED BY Zenon, <2>2, <2>3
<1>11. /\ Handles(u) = Handles(t) \cup {h} /\ h \notin Handles(t)
       /\ \A g \in Handles(t) : g.slot \in DOMAIN t.slots \ {h.slot}
  <2>1. h = [slot |-> h.slot, generation |-> h.generation]
    BY Zenon, <1>5 DEF AllHandles
  <2>2. \A i \in DOMAIN t.slots : t.slots[i].live => i # h.slot
    BY Zenon, <1>5
  <2>3. {j \in DOMAIN u.slots : u.slots[j].live} = {j \in DOMAIN t.slots : t.slots[j].live} \cup {h.slot}
    BY Zenon, <1>6, <1>9, <2>2
  <2>4. \A g \in Handles(t) : g.slot \in DOMAIN t.slots \ {h.slot}
    BY <2>2 DEF Handles
  <2> QED BY <1>6, <1>9, <2>1, <2>2, <2>3, <2>4 DEF Handles
<1>12. OthersKept(t, u, h) /\ WireOf(u, h) = wire /\ StateOf(u, h) = state
  BY Zenon, <1>6, <1>9, <1>11 DEF OthersKept, WireOf, StateOf
<1>13. DOMAIN u.by_wire = IF wire = NoWire THEN DOMAIN t.by_wire
                          ELSE DOMAIN t.by_wire \cup {wire}
  BY Zenon, <1>7
<1>14. IndexConsistent(u)
  <2>1. ASSUME NEW w \in DOMAIN u.by_wire
        PROVE  Valid(u, u.by_wire[w]) /\ WireOf(u, u.by_wire[w]) = w
    <3>1. CASE w \in DOMAIN t.by_wire
      <4>1. u.by_wire[w] = t.by_wire[w]
        BY <1>7, <3>1
      <4>2. Valid(t, t.by_wire[w]) /\ WireOf(t, t.by_wire[w]) = w
        BY Zenon, <3>1 DEF TableOK, IndexConsistent
      <4> QED BY SMTT(30), <1>5, <1>9, <4>1, <4>2 DEF Valid, WireOf
    <3>2. CASE w \notin DOMAIN t.by_wire
      <4>1. w = wire /\ u.by_wire[w] = h
        BY <1>7, <1>13, <3>2
      <4> QED BY Zenon, <1>5, <1>6, <1>9, <4>1 DEF Valid, WireOf
    <3> QED BY Zenon, <3>1, <3>2
  <2>2. ASSUME NEW g \in Handles(u), WireOf(u, g) # NoWire
        PROVE  Known(u, WireOf(u, g)) /\ find(u, WireOf(u, g)) = g
    <3>1. CASE g = h
      BY <1>7, <1>12, <2>2, <3>1 DEF Known, find
    <3>2. CASE g # h
      <4>1. g \in Handles(t) /\ WireOf(u, g) = WireOf(t, g)
        BY Zenon, <1>11, <1>12, <3>2 DEF OthersKept
      <4>2. WireOf(t, g) \in DOMAIN t.by_wire /\ t.by_wire[WireOf(t, g)] = g
        BY Zenon, <2>2, <4>1 DEF TableOK, IndexConsistent, Known, find
      <4> QED BY <1>7, <4>1, <4>2 DEF Known, find
    <3> QED BY Zenon, <3>1, <3>2
  <2> QED BY Zenon, <2>1, <2>2 DEF IndexConsistent
<1>15. TableOK(u)
  BY Zenon, <1>7, <1>8, <1>10, <1>14 DEF TableOK
<1>16. ASSUME NEW g \in AllHandles, Spent(t, g)
       PROVE  Spent(u, g)
  <2>1. CASE g.slot = h.slot
    BY SMTT(30), <1>4, <1>5, <1>6, <1>9, <1>16, <2>1 DEF Spent, AllHandles, Entries
  <2>2. CASE g.slot # h.slot
    BY Zenon, <1>9, <1>16, <2>2 DEF Spent
  <2> QED BY Zenon, <2>1, <2>2
<1>17. ~Spent(t, h)
  BY <1>4, <1>5 DEF Spent, Entries
<1>18. Inserted(t, u, h, state, wire)
  BY Zenon, <1>5, <1>11, <1>12, <1>13, <1>15, <1>16, <1>17 DEF Inserted
<1> QED BY Zenon, <1>1, <1>2, <1>18

\* The entry of a valid handle is replaced by another of the same generation.
LEMMA EntryReplaced ==
  ASSUME NEW t, NEW u, TableOK(t), NEW h \in AllHandles, Valid(t, h),
         NEW e \in Entries, e.generation = h.generation,
         u.slots = [t.slots EXCEPT ![h.slot] = e]
  PROVE  /\ u.slots \in Seq(Entries)
         /\ Handles(u) = IF e.live THEN Handles(t) ELSE Handles(t) \ {h}
         /\ OthersKept(t, u, h)
         /\ WireOf(u, h) = e.wire /\ StateOf(u, h) = e.state
         /\ \A g \in AllHandles : Valid(t, g) /\ g # h => Valid(u, g) /\ WireOf(u, g) = WireOf(t, g)
         /\ \A g \in AllHandles : Spent(t, g) => Spent(u, g)
         /\ ~e.live => Spent(u, h)
<1>1. /\ t.slots \in Seq(Entries) /\ h.slot \in DOMAIN t.slots
      /\ t.slots[h.slot].generation = h.generation /\ t.slots[h.slot].live
      /\ \A i \in DOMAIN t.slots : i \in Nat \ {0} /\ t.slots[i] \in Entries
  BY DEF TableOK, Valid
<1>2. /\ u.slots \in Seq(Entries) /\ DOMAIN u.slots = DOMAIN t.slots
      /\ u.slots[h.slot] = e
      /\ \A i \in DOMAIN t.slots \ {h.slot} : u.slots[i] = t.slots[i]
  BY <1>1
<1>3. h = [slot |-> h.slot, generation |-> h.generation]
  BY Zenon DEF AllHandles
<1>4. \A g \in AllHandles : Valid(t, g) /\ g # h => g.slot # h.slot
  BY <1>1 DEF Valid, AllHandles
<1>5. \A g \in AllHandles : Valid(t, g) /\ g # h => /\ Valid(u, g)
                                                   /\ WireOf(u, g) = WireOf(t, g)
                                                   /\ StateOf(u, g) = StateOf(t, g)
  BY Zenon, <1>2, <1>4 DEF Valid, WireOf, StateOf
<1>6. \A g \in AllHandles : g \in Handles(u) <=> Valid(u, g)
  BY <1>2 DEF Handles, Valid, AllHandles
<1>7. Handles(u) \subseteq AllHandles
  BY <1>1, <1>2 DEF Handles, AllHandles, Entries
<1>8. OthersKept(t, u, h)
  BY Zenon, <1>5, <1>6, HandlesAreValid DEF OthersKept
<1>9. \A g \in AllHandles : Valid(u, g) /\ g # h => Valid(t, g)
  <2> TAKE g \in AllHandles
  <2> HAVE Valid(u, g) /\ g # h
  <2>1. CASE g.slot = h.slot
    BY <1>2, <1>3, <2>1 DEF Valid, AllHandles
  <2>2. CASE g.slot # h.slot
    BY Zenon, <1>2, <2>2 DEF Valid
  <2> QED BY Zenon, <2>1, <2>2
<1>10. Valid(u, h) <=> e.live
  BY Zenon, <1>1, <1>2 DEF Valid
<1>11. Handles(u) = IF e.live THEN Handles(t) ELSE Handles(t) \ {h}
  BY Zenon, <1>5, <1>6, <1>7, <1>9, <1>10, HandlesAreValid
<1>12. ASSUME NEW g \in AllHandles, Spent(t, g)
       PROVE  Spent(u, g)
  <2>1. CASE g.slot = h.slot
    BY Zenon, <1>1, <1>2, <1>12, <2>1 DEF Spent, AllHandles
  <2>2. CASE g.slot # h.slot
    BY Zenon, <1>2, <1>12, <2>2 DEF Spent
  <2> QED BY Zenon, <2>1, <2>2
<1>13. ~e.live => Spent(u, h)
  BY <1>1, <1>2 DEF Spent, AllHandles
<1>14. WireOf(u, h) = e.wire /\ StateOf(u, h) = e.state
  BY Zenon, <1>2 DEF WireOf, StateOf
<1> QED BY Zenon, <1>2, <1>5, <1>8, <1>11, <1>12, <1>13, <1>14

\* remove takes away one handle, for ever, and its wire id.
LEMMA RemoveTakes ==
  ASSUME NEW t, TableOK(t), NoWire \notin Nat, NEW h \in AllHandles, Valid(t, h)
  PROVE  LET u == remove(t, h)
         IN  /\ TableOK(u)
             /\ Handles(u) = Handles(t) \ {h}
             /\ OthersKept(t, u, h)
             /\ DOMAIN u.by_wire = DOMAIN t.by_wire \ {WireOf(t, h)}
             /\ \A g \in AllHandles : Spent(t, g) => Spent(u, g)
             /\ Spent(u, h)
<1>1. PICK u : u = remove(t, h)
  BY Zenon
<1>2. PICK e : e = [t.slots[h.slot] EXCEPT !.live = FALSE, !.wire = NoWire, !.state = NoState]
  BY Zenon
<1>3. /\ h.slot \in DOMAIN t.slots /\ t.slots[h.slot] \in Entries
      /\ t.slots[h.slot].generation = h.generation
      /\ t.slots \in Seq(Entries)
  BY DEF TableOK, Valid
<1>4. e \in Entries /\ e.generation = h.generation /\ e.live = FALSE
  <2>1. NoWire \in Nat \cup {NoWire} /\ NoState \in States /\ FALSE \in BOOLEAN
    BY Zenon DEF States
  <2>2. PICK s \in Entries : s = t.slots[h.slot] /\ s.generation = h.generation
    BY Zenon, <1>3
  <2> QED BY ZenonT(30), <1>2, <2>1, <2>2 DEF Entries
<1>5. /\ u = [slots |-> u.slots, by_wire |-> u.by_wire]
      /\ u.slots = [t.slots EXCEPT ![h.slot] = e]
      /\ u.by_wire = IF WireOf(t, h) = NoWire THEN t.by_wire
                     ELSE [w \in DOMAIN t.by_wire \ {WireOf(t, h)} |-> t.by_wire[w]]
  <2>1. [t.slots EXCEPT ![h.slot].live = FALSE, ![h.slot].wire = NoWire,
                        ![h.slot].state = NoState]
          = [t.slots EXCEPT ![h.slot] = e]
    BY Zenon, <1>2, <1>3
  <2> QED BY Zenon, <1>1, <2>1 DEF remove, Restrict
<1>6. /\ u.slots \in Seq(Entries)
      /\ Handles(u) = Handles(t) \ {h}
      /\ OthersKept(t, u, h)
      /\ \A g \in AllHandles : Valid(t, g) /\ g # h => Valid(u, g) /\ WireOf(u, g) = WireOf(t, g)
      /\ \A g \in AllHandles : Spent(t, g) => Spent(u, g)
      /\ Spent(u, h)
  <2>1. /\ Handles(u) = IF e.live THEN Handles(t) ELSE Handles(t) \ {h}
        /\ ~e.live => Spent(u, h)
    BY <1>4, <1>5, EntryReplaced
  <2>2. Handles(u) = Handles(t) \ {h} /\ Spent(u, h)
    BY Zenon, <1>4, <2>1
  <2>3. OthersKept(t, u, h)
    BY Zenon, <1>4, <1>5, EntryReplaced
  <2>6. u.slots \in Seq(Entries)
    BY <1>3, <1>4, <1>5
  <2>4. \A g \in AllHandles : Valid(t, g) /\ g # h => Valid(u, g) /\ WireOf(u, g) = WireOf(t, g)
    BY <1>4, <1>5, EntryReplaced
  <2>5. \A g \in AllHandles : Spent(t, g) => Spent(u, g)
    BY <1>4, <1>5, EntryReplaced
  <2> QED BY Zenon, <2>2, <2>3, <2>4, <2>5, <2>6
<1>7. h \in Handles(t)
  BY Zenon, HandlesAreValid
<1>8. PICK W \in SUBSET Nat : t.by_wire \in [W -> AllHandles]
  BY Zenon DEF TableOK, Indexes
<1>9. /\ DOMAIN u.by_wire = DOMAIN t.by_wire \ {WireOf(t, h)}
      /\ \A w \in DOMAIN u.by_wire : u.by_wire[w] = t.by_wire[w]
  BY Zenon, <1>5, <1>8
<1>10. u.by_wire \in [W \ {WireOf(t, h)} -> AllHandles]
  BY Zenon, <1>5, <1>8
<1>11. u.by_wire \in Indexes
  BY Zenon, <1>10 DEF Indexes
<1>12. ASSUME NEW w \in DOMAIN u.by_wire
       PROVE  Valid(u, u.by_wire[w]) /\ WireOf(u, u.by_wire[w]) = w
  <2>1. /\ w \in DOMAIN t.by_wire /\ w # WireOf(t, h) /\ u.by_wire[w] = t.by_wire[w]
        /\ t.by_wire[w] \in AllHandles
        /\ Valid(t, t.by_wire[w]) /\ WireOf(t, t.by_wire[w]) = w
    BY Zenon, <1>9, IndexedHandles DEF find
  <2>2. t.by_wire[w] # h
    BY Zenon, <2>1
  <2> QED BY Zenon, <1>6, <2>1, <2>2
<1>13. ASSUME NEW g \in Handles(u), WireOf(u, g) # NoWire
       PROVE  Known(u, WireOf(u, g)) /\ find(u, WireOf(u, g)) = g
  <2>1. g \in Handles(t) /\ g # h /\ WireOf(u, g) = WireOf(t, g)
    BY Zenon, <1>6 DEF OthersKept
  <2>2. WireOf(t, g) \in DOMAIN t.by_wire /\ t.by_wire[WireOf(t, g)] = g
    BY Zenon, <1>13, <2>1 DEF TableOK, IndexConsistent, Known, find
  <2>3. WireOf(t, g) # WireOf(t, h)
    <3> SUFFICES ASSUME WireOf(t, g) = WireOf(t, h) PROVE FALSE
      BY Zenon
    <3>1. t.by_wire[WireOf(t, h)] = h
      BY Zenon, <1>7, <1>13, <2>1 DEF TableOK, IndexConsistent, find
    <3> QED BY Zenon, <2>1, <2>2, <3>1
  <2> QED BY Zenon, <1>9, <2>1, <2>2, <2>3 DEF Known, find
<1>14. TableOK(u)
  BY ZenonT(30), <1>5, <1>6, <1>11, <1>12, <1>13 DEF TableOK, IndexConsistent
<1> QED BY Zenon, <1>1, <1>6, <1>9, <1>14

\* bind gives the entry of h its wire id and finds it by that.
LEMMA BindIndexes ==
  ASSUME NEW t, TableOK(t), NoWire \notin Nat, NEW h \in AllHandles, Valid(t, h),
         WireOf(t, h) = NoWire, NEW wire \in Nat \ DOMAIN t.by_wire
  PROVE  LET u == bind(t, h, wire)
         IN  /\ TableOK(u)
             /\ Handles(u) = Handles(t)
             /\ OthersKept(t, u, h)
             /\ WireOf(u, h) = wire /\ Valid(u, h)
             /\ DOMAIN u.by_wire = DOMAIN t.by_wire \cup {wire}
             /\ \A g \in AllHandles : Spent(t, g) => Spent(u, g)
<1>1. PICK u : u = bind(t, h, wire)
  BY Zenon
<1>2. PICK e : e = [t.slots[h.slot] EXCEPT !.wire = wire]
  BY ZenonT(30)
<1>3. /\ h.slot \in DOMAIN t.slots /\ t.slots[h.slot] \in Entries
      /\ t.slots[h.slot].generation = h.generation /\ t.slots[h.slot].live
      /\ t.slots \in Seq(Entries)
  BY DEF TableOK, Valid
<1>4. e \in Entries /\ e.generation = h.generation /\ e.live /\ e.wire = wire
  <2>1. PICK s \in Entries : s = t.slots[h.slot] /\ s.generation = h.generation /\ s.live
    BY Zenon, <1>3
  <2> QED BY Zenon, <1>2, <2>1 DEF Entries
<1>5. /\ u = [slots |-> u.slots, by_wire |-> u.by_wire]
      /\ u.slots = [t.slots EXCEPT ![h.slot] = e]
      /\ u.by_wire = [w \in DOMAIN t.by_wire \cup {wire} |-> IF w = wire THEN h ELSE t.by_wire[w]]
  <2>1. [t.slots EXCEPT ![h.slot].wire = wire] = [t.slots EXCEPT ![h.slot] = e]
    BY Zenon, <1>2, <1>3
  <2> QED BY Zenon, <1>1, <2>1 DEF bind, Map
<1>6. Handles(u) = Handles(t)
  <2>1. Handles(u) = IF e.live THEN Handles(t) ELSE Handles(t) \ {h}
    BY Zenon, <1>4, <1>5, EntryReplaced
  <2> QED BY Zenon, <1>4, <2>1
<1>7. OthersKept(t, u, h) /\ WireOf(u, h) = wire
  BY <1>4, <1>5, EntryReplaced
<1>8. /\ \A g \in AllHandles : Valid(t, g) /\ g # h => Valid(u, g) /\ WireOf(u, g) = WireOf(t, g)
      /\ \A g \in AllHandles : Spent(t, g) => Spent(u, g)
  BY <1>4, <1>5, EntryReplaced
<1>9. u.slots \in Seq(Entries) /\ Valid(u, h)
  BY <1>3, <1>4, <1>5 DEF Valid
<1>10. PICK W \in SUBSET Nat : t.by_wire \in [W -> AllHandles]
  BY Zenon DEF TableOK, Indexes
<1>11. u.by_wire \in [W \cup {wire} -> AllHandles] /\ W \cup {wire} \in SUBSET Nat
  BY <1>5, <1>10
<1>12. u.by_wire \in Indexes
  BY Zenon, <1>11 DEF Indexes
<1>13. ASSUME NEW w \in DOMAIN u.by_wire
       PROVE  Valid(u, u.by_wire[w]) /\ WireOf(u, u.by_wire[w]) = w
  <2>1. CASE w = wire
    BY Zenon, <1>5, <1>7, <1>9, <2>1
  <2>2. CASE w # wire
    <3>1. /\ w \in DOMAIN t.by_wire /\ u.by_wire[w] = t.by_wire[w]
          /\ t.by_wire[w] \in AllHandles
          /\ Valid(t, t.by_wire[w]) /\ WireOf(t, t.by_wire[w]) = w
      BY Zenon, <1>5, <2>2, IndexedHandles DEF find
    <3>2. t.by_wire[w] # h
      BY ZenonT(30), <1>10, <3>1
    <3> QED BY Zenon, <1>8, <3>1, <3>2
  <2> QED BY Zenon, <2>1, <2>2
<1>14. ASSUME NEW g \in Handles(u), WireOf(u, g) # NoWire
       PROVE  Known(u, WireOf(u, g)) /\ find(u, WireOf(u, g)) = g
  <2>1. CASE g = h
    BY Zenon, <1>5, <1>7, <2>1 DEF Known, find
  <2>2. CASE g # h
    <3>1. g \in Handles(t) /\ WireOf(u, g) = WireOf(t, g)
      BY Zenon, <1>6, <1>7, <2>2 DEF OthersKept
    <3>2. WireOf(t, g) \in DOMAIN t.by_wire /\ t.by_wire[WireOf(t, g)] = g
      BY Zenon, <1>14, <3>1 DEF TableOK, IndexConsistent, Known, find
    <3> QED BY Zenon, <1>5, <3>1, <3>2 DEF Known, find
  <2> QED BY Zenon, <2>1, <2>2
<1>15. TableOK(u)
  BY ZenonT(30), <1>5, <1>9, <1>12, <1>13, <1>14 DEF TableOK, IndexConsistent
<1>16. DOMAIN u.by_wire = DOMAIN t.by_wire \cup {wire}
  BY Zenon, <1>5
<1> QED BY Zenon, <1>1, <1>6, <1>7, <1>8, <1>9, <1>15, <1>16

\* set_state changes the state of one entry and nothing else.
LEMMA SetStateKeeps ==
  ASSUME NEW t, TableOK(t), NEW h \in AllHandles, Valid(t, h), NEW state \in States
  PROVE  LET u == set_state(t, h, state)
         IN  /\ TableOK(u)
             /\ Handles(u) = Handles(t)
             /\ OthersKept(t, u, h)
             /\ WireOf(u, h) = WireOf(t, h) /\ StateOf(u, h) = state
             /\ u.by_wire = t.by_wire
             /\ \A g \in AllHandles : Spent(t, g) => Spent(u, g)
<1>1. PICK u : u = set_state(t, h, state)
  BY Zenon
<1>2. PICK e : e = [t.slots[h.slot] EXCEPT !.state = state]
  BY ZenonT(30)
<1>3. /\ h.slot \in DOMAIN t.slots /\ t.slots[h.slot] \in Entries
      /\ t.slots[h.slot].generation = h.generation /\ t.slots[h.slot].live
      /\ t.slots \in Seq(Entries)
      /\ t \in [slots : Seq(Entries), by_wire : Indexes]
  BY DEF TableOK, Valid
<1>4. /\ e \in Entries /\ e.generation = h.generation /\ e.live
      /\ e.wire = WireOf(t, h) /\ e.state = state
  <2>1. PICK s \in Entries : /\ s = t.slots[h.slot] /\ s.generation = h.generation /\ s.live
                             /\ s.wire = WireOf(t, h)
    BY Zenon, <1>3 DEF WireOf
  <2> QED BY Zenon, <1>2, <2>1 DEF Entries
<1>5. /\ u = [slots |-> u.slots, by_wire |-> u.by_wire]
      /\ u.slots = [t.slots EXCEPT ![h.slot] = e]
      /\ u.by_wire = t.by_wire
  <2>1. [t.slots EXCEPT ![h.slot].state = state] = [t.slots EXCEPT ![h.slot] = e]
    BY Zenon, <1>2, <1>3
  <2>2. u = [slots |-> [t.slots EXCEPT ![h.slot].state = state], by_wire |-> t.by_wire]
    BY ZenonT(30), <1>1, <1>3 DEF set_state
  <2> QED BY Zenon, <2>1, <2>2
<1>6. Handles(u) = Handles(t)
  <2>1. Handles(u) = IF e.live THEN Handles(t) ELSE Handles(t) \ {h}
    BY Zenon, <1>4, <1>5, EntryReplaced
  <2> QED BY Zenon, <1>4, <2>1
<1>7. OthersKept(t, u, h) /\ WireOf(u, h) = WireOf(t, h) /\ StateOf(u, h) = state
  BY <1>4, <1>5, EntryReplaced
<1>8. /\ \A g \in AllHandles : Valid(t, g) /\ g # h => Valid(u, g) /\ WireOf(u, g) = WireOf(t, g)
      /\ \A g \in AllHandles : Spent(t, g) => Spent(u, g)
  BY <1>4, <1>5, EntryReplaced
<1>9. u.slots \in Seq(Entries) /\ Valid(u, h)
  BY <1>3, <1>4, <1>5 DEF Valid
<1>10. ASSUME NEW w \in DOMAIN u.by_wire
       PROVE  Valid(u, u.by_wire[w]) /\ WireOf(u, u.by_wire[w]) = w
  <2>1. /\ w \in DOMAIN t.by_wire /\ u.by_wire[w] = t.by_wire[w]
        /\ t.by_wire[w] \in AllHandles
        /\ Valid(t, t.by_wire[w]) /\ WireOf(t, t.by_wire[w]) = w
    BY Zenon, <1>5, IndexedHandles DEF find
  <2> QED BY Zenon, <1>7, <1>8, <1>9, <2>1
<1>11. ASSUME NEW g \in Handles(u), WireOf(u, g) # NoWire
       PROVE  Known(u, WireOf(u, g)) /\ find(u, WireOf(u, g)) = g
  <2>1. g \in Handles(t) /\ WireOf(u, g) = WireOf(t, g)
    BY Zenon, <1>6, <1>7 DEF OthersKept
  <2> QED BY Zenon, <1>5, <1>11, <2>1 DEF TableOK, IndexConsistent, Known, find
<1>12. TableOK(u)
  BY Zenon, <1>3, <1>5, <1>9, <1>10, <1>11 DEF TableOK, IndexConsistent
<1> QED BY Zenon, <1>1, <1>5, <1>6, <1>7, <1>8, <1>12
=============================================================================
