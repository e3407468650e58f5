------------------------ MODULE ClientSessionProofs ------------------------
(***************************************************************************)
(* The client keeps account of its streams, in whatever order, how often   *)
(* and how late the peer answers, for any limits and any wire ids.         *)
(*                                                                         *)
(* The invariant ties four things together: the handle table, the          *)
(* transactions that wait for an answer, the handles that are dead, and    *)
(* the wire streams that are owed a deleteStream.  That a refused creation *)
(* leaves no wire stream behind follows only because its stream is still   *)
(* Creating, and that follows only because no other answer can have been   *)
(* taken for it.                                                           *)
(***************************************************************************)
EXTENDS ClientSession, StreamsProofs

LiveStates == {"Creating", "StartingPlayback", "Playing", "StartingPublish", "Publishing"}

\* The transactions that create h, and those that connect.
CreationsOf(h) == {t \in DOMAIN transactions :
                     transactions[t].kind = "create" /\ transactions[t].stream = h}
Connects == {t \in DOMAIN transactions : transactions[t].kind = "connect"}

TableInv ==
  /\ TableOK(streams)
  /\ IsFiniteSet(Handles(streams)) /\ Cardinality(Handles(streams)) <= MaxStreams
  /\ \A h \in Handles(streams) :
       /\ StateOf(streams, h) \in LiveStates
       /\ WireOf(streams, h) = NoWire <=> StateOf(streams, h) = "Creating"
  /\ dead \subseteq AllHandles
  /\ \A h \in dead : Spent(streams, h)

TransactionsInv ==
  /\ next_transaction \in 1 .. MaxTransactions + 1
  /\ \A t \in DOMAIN transactions :
       /\ t \in 1 .. next_transaction - 1
       /\ transactions[t].kind \in {"connect", "create"}
       /\ transactions[t].kind = "create" => transactions[t].stream \in Handles(streams) \cup dead

AnswersInv ==
  ~failed => /\ \A h \in Handles(streams) :
                  /\ StateOf(streams, h) = "Creating" => \E t : CreationsOf(h) = {t}
                  /\ StateOf(streams, h) # "Creating" => CreationsOf(h) = {}
             /\ current_state = "Connecting" => \E t : Connects = {t}
             /\ current_state # "Connecting" => Connects = {}
             /\ owed = DOMAIN streams.by_wire

\* A queue of outputs.
Queue(q) == \E P : q \in Seq(P) /\ \A o \in P : o.packet \in BOOLEAN

OutputInv ==
  /\ current_state \in {"Disconnected", "Connecting", "Connected", "Failed"}
  /\ Queue(pending)
  /\ owed \subseteq WireIds

CInv == TableInv /\ TransactionsInv /\ AnswersInv /\ OutputInv

-----------------------------------------------------------------------------
(* Outputs.                                                                *)

IsOutput(o) == o.packet \in BOOLEAN

\* What the constructors of outputs make.
LEMMA OutputsAreTyped ==
  /\ \A what, h : IsOutput(Event(what, h)) /\ Event(what, h).what = what
  /\ \A what, wire : /\ IsOutput(Packet(what, wire)) /\ Packet(what, wire).what = what
                     /\ Packet(what, wire).wire = wire
BY Zenon DEF IsOutput, Event, Packet

\* A sequence of outputs is a queue.
LEMMA QueueOf ==
  ASSUME NEW P, NEW q \in Seq(P), \A o \in P : IsOutput(o)
  PROVE  Queue(q)
BY Zenon DEF Queue, IsOutput

\* The queues that the handlers make.
LEMMA ShortQueues ==
  /\ Queue(<< >>)
  /\ \A a : IsOutput(a) => Queue(<<a>>)
  /\ \A a, b : IsOutput(a) /\ IsOutput(b) => Queue(<<a, b>>)
  /\ \A a, b, c : IsOutput(a) /\ IsOutput(b) /\ IsOutput(c) => Queue(<<a, b, c>>)
<1>1. Queue(<< >>)
  <2>1. PICK P : P = {}
    BY Zenon
  <2>2. << >> \in Seq(P) /\ \A o \in P : IsOutput(o)
    BY <2>1
  <2> QED BY Zenon, <2>2, QueueOf
<1>2. ASSUME NEW a, IsOutput(a) PROVE Queue(<<a>>)
  <2>1. PICK P : P = {a}
    BY Zenon
  <2>2. <<a>> \in Seq(P) /\ \A o \in P : IsOutput(o)
    BY <1>2, <2>1
  <2> QED BY Zenon, <2>2, QueueOf
<1>3. ASSUME NEW a, NEW b, IsOutput(a), IsOutput(b) PROVE Queue(<<a, b>>)
  <2>1. PICK P : P = {a, b}
    BY Zenon
  <2>2. <<a, b>> \in Seq(P) /\ \A o \in P : IsOutput(o)
    BY <1>3, <2>1
  <2> QED BY Zenon, <2>2, QueueOf
<1>4. ASSUME NEW a, NEW b, NEW c, IsOutput(a), IsOutput(b), IsOutput(c)
      PROVE  Queue(<<a, b, c>>)
  <2>1. PICK P : P = {a, b, c}
    BY Zenon
  <2>2. <<a, b, c>> \in Seq(P) /\ \A o \in P : IsOutput(o)
    BY <1>4, <2>1
  <2> QED BY Zenon, <2>2, QueueOf
<1> QED BY Zenon, <1>1, <1>2, <1>3, <1>4

\* Taking the first output and adding at the end leave a queue.
LEMMA QueueOperations ==
  ASSUME NEW q, Queue(q)
  PROVE  /\ q # << >> => Queue(Tail(q))
         /\ \A r : Queue(r) => Queue(q \o r)
<1>1. PICK P : q \in Seq(P) /\ \A o \in P : o.packet \in BOOLEAN
  BY Zenon DEF Queue
<1>2. ASSUME q # << >> PROVE Queue(Tail(q))
  <2>1. Tail(q) \in Seq(P)
    BY <1>1, <1>2
  <2> QED BY Zenon, <1>1, <2>1 DEF Queue
<1>3. ASSUME NEW r, Queue(r) PROVE Queue(q \o r)
  <2>1. PICK R : r \in Seq(R) /\ \A o \in R : o.packet \in BOOLEAN
    BY Zenon, <1>3 DEF Queue
  <2>2. q \in Seq(P \cup R) /\ r \in Seq(P \cup R)
    BY <1>1, <2>1
  <2>3. q \o r \in Seq(P \cup R)
    BY <2>2
  <2> QED BY ZenonT(40), <1>1, <2>1, <2>3 DEF Queue
<1> QED BY Zenon, <1>2, <1>3

\* Account for at most three outputs: what is deleted is no longer owed.
Deleted(outs) == {outs[i].wire : i \in {j \in DOMAIN outs : outs[j].what = "deleteStream"}}

\* The wire ids that the short queues ask the server to delete.
LEMMA DeletedWires ==
  /\ Deleted(<< >>) = {}
  /\ \A a : a.what # "deleteStream" => Deleted(<<a>>) = {}
  /\ \A a : a.what = "deleteStream" => Deleted(<<a>>) = {a.wire}
  /\ \A a, b : b.what # "deleteStream" => Deleted(<<a, b>>) = Deleted(<<a>>)
  /\ \A a, b, c : a.what # "deleteStream" /\ b.what # "deleteStream" /\ c.what # "deleteStream" =>
                    Deleted(<<a, b, c>>) = {}
<1>1. Deleted(<< >>) = {}
  BY DEF Deleted
<1>2. ASSUME NEW a
      PROVE  /\ a.what # "deleteStream" => Deleted(<<a>>) = {}
             /\ a.what = "deleteStream" => Deleted(<<a>>) = {a.wire}
  BY DEF Deleted
<1>3. ASSUME NEW a, NEW b, b.what # "deleteStream" PROVE Deleted(<<a, b>>) = Deleted(<<a>>)
  BY <1>3 DEF Deleted
<1>4. ASSUME NEW a, NEW b, NEW c, a.what # "deleteStream", b.what # "deleteStream",
             c.what # "deleteStream"
      PROVE  Deleted(<<a, b, c>>) = {}
  BY <1>4 DEF Deleted
<1> QED BY Zenon, <1>1, <1>2, <1>3, <1>4

\* What receive queues, and which wire ids are then still owed a deletion.
LEMMA Responses ==
  ASSUME NEW made, NEW outs, Queue(outs), RespondAfter(made, outs)
  PROVE  Queue(pending') /\ owed' = (owed \cup made) \ Deleted(outs)
<1>1. PICK ack \in BOOLEAN :
        LET all == IF ack THEN <<Packet("acknowledgement", NoWire)>> \o outs ELSE outs
        IN /\ pending' = IF all = << >> THEN << >> ELSE Tail(all)
           /\ Account(made, outs)
  BY Zenon DEF RespondAfter
<1>2. PICK all : /\ all = IF ack THEN <<Packet("acknowledgement", NoWire)>> \o outs ELSE outs
                 /\ pending' = IF all = << >> THEN << >> ELSE Tail(all)
  BY Zenon, <1>1
<1>3. Queue(<<Packet("acknowledgement", NoWire)>>)
  BY Zenon, OutputsAreTyped, ShortQueues
<1>4. Queue(all)
  BY Zenon, <1>2, <1>3, QueueOperations
<1>5. Queue(pending')
  BY Zenon, <1>2, <1>4, ShortQueues, QueueOperations
<1> QED BY Zenon, <1>1, <1>5 DEF Account, Deleted

\* The same for a call of the application.
LEMMA Enqueued ==
  ASSUME NEW outs, Queue(outs), Queue(pending), Enqueue(outs)
  PROVE  Queue(pending') /\ owed' = owed \ Deleted(outs)
BY Zenon, QueueOperations DEF Enqueue, Account, Deleted

-----------------------------------------------------------------------------
(* Steps that leave the table alone.                                       *)

\* A transaction that is answered or dropped is no longer waiting.
LEMMA Forgotten ==
  ASSUME NEW t, Forget(t)
  PROVE  /\ DOMAIN transactions' = DOMAIN transactions \ {t}
         /\ \A u \in DOMAIN transactions' : transactions'[u] = transactions[u]
         /\ \A h : CreationsOf(h)' = CreationsOf(h) \ {t}
         /\ Connects' = Connects \ {t}
<1>1. /\ DOMAIN transactions' = DOMAIN transactions \ {t}
      /\ \A u \in DOMAIN transactions' : transactions'[u] = transactions[u]
  BY Zenon DEF Forget, Restrict
<1> QED BY Zenon, <1>1 DEF CreationsOf, Connects

\* The step says nothing that matters.
Calm == UNCHANGED <<kept, owed>> /\ Queue(pending')

\* A calm step: handles, transactions and owed deletions stay as they are.
LEMMA CalmPreserves == CInv /\ Calm => CInv'
<1> SUFFICES ASSUME CInv, Calm PROVE CInv'
  BY Zenon
<1>1. UNCHANGED <<current_state, transactions, next_transaction, streams, dead, owed>>
  BY Zenon DEF Calm, kept
<1>2. TableInv' /\ TransactionsInv'
  BY Zenon, <1>1 DEF CInv, TableInv, TransactionsInv
<1>3. AnswersInv'
  <2>1. Connects' = Connects /\ \A h : CreationsOf(h)' = CreationsOf(h)
    BY Zenon, <1>1 DEF CreationsOf, Connects
  <2> QED BY Zenon, <1>1, <2>1 DEF CInv, AnswersInv, failed
<1>4. OutputInv'
  BY Zenon, <1>1 DEF CInv, OutputInv, Calm
<1> QED BY Zenon, <1>2, <1>3, <1>4 DEF CInv

\* A session that fails keeps its streams, and is held to no answer.
LEMMA FailPreserves ==
  ASSUME CInv, Fail, UNCHANGED <<next_transaction, streams, dead>>,
         UNCHANGED transactions \/ \E t : Forget(t)
  PROVE  CInv'
<1>1. TableInv'
  BY Zenon DEF CInv, TableInv
<1>2. TransactionsInv'
  <2>1. CASE UNCHANGED transactions
    BY Zenon, <2>1 DEF CInv, TransactionsInv
  <2>2. CASE \E t : Forget(t)
    BY Zenon, <2>2, Forgotten DEF CInv, TransactionsInv
  <2> QED BY Zenon, <2>1, <2>2
<1>3. AnswersInv'
  BY Zenon DEF AnswersInv, Fail, failed
<1>4. OutputInv'
  BY Zenon, ShortQueues DEF CInv, OutputInv, Fail
<1> QED BY Zenon, <1>1, <1>2, <1>3, <1>4 DEF CInv

\* connect is answered.
LEMMA ConnectAnswered ==
  ASSUME CInv, ~failed, NEW t \in DOMAIN transactions, transactions[t].kind = "connect",
         Forget(t), current_state' \in {"Disconnected", "Connected"},
         UNCHANGED <<next_transaction, streams, dead, owed>>, Queue(pending')
  PROVE  CInv'
<1>1. TableInv'
  BY Zenon DEF CInv, TableInv
<1>2. TransactionsInv'
  BY Zenon, Forgotten DEF CInv, TransactionsInv
<1>3. ASSUME NEW h PROVE CreationsOf(h)' = CreationsOf(h)
  <2>1. t \notin CreationsOf(h)
    BY Zenon DEF CreationsOf
  <2>2. CreationsOf(h)' = CreationsOf(h) \ {t}
    BY Zenon, Forgotten
  <2> QED BY Zenon, <2>1, <2>2
<1>4. Connects' = {}
  <2>1. t \in Connects
    BY Zenon DEF Connects
  <2>2. Connects = {t}
    BY Zenon, <2>1 DEF CInv, AnswersInv
  <2> QED BY Zenon, <2>2, Forgotten
<1>5. AnswersInv'
  BY Zenon, <1>3, <1>4 DEF CInv, AnswersInv
<1>6. OutputInv'
  BY Zenon DEF CInv, OutputInv
<1> QED BY Zenon, <1>1, <1>2, <1>5, <1>6 DEF CInv

\* A creation that was cancelled is answered.
LEMMA CancelledAnswered ==
  ASSUME CInv, ~failed, NEW t \in DOMAIN transactions, transactions[t].kind = "create",
         ~Valid(streams, transactions[t].stream),
         Forget(t), UNCHANGED <<current_state, next_transaction, streams, dead, owed>>,
         Queue(pending')
  PROVE  CInv'
<1>1. TableInv'
  BY Zenon DEF CInv, TableInv
<1>2. TransactionsInv'
  BY Zenon, Forgotten DEF CInv, TransactionsInv
<1>3. ASSUME NEW h \in Handles(streams) PROVE CreationsOf(h)' = CreationsOf(h)
  <2>1. Valid(streams, h)
    BY Zenon, HandlesAreValid DEF CInv, TableInv
  <2>2. t \notin CreationsOf(h)
    BY Zenon, <2>1 DEF CreationsOf
  <2>3. CreationsOf(h)' = CreationsOf(h) \ {t}
    BY Zenon, Forgotten
  <2> QED BY Zenon, <2>2, <2>3
<1>4. Connects' = Connects
  <2>1. t \notin Connects
    BY Zenon DEF Connects
  <2> QED BY ZenonT(40), <2>1, Forgotten
<1>5. AnswersInv'
  BY Zenon, <1>3, <1>4 DEF CInv, AnswersInv, failed
<1>6. OutputInv'
  BY Zenon DEF CInv, OutputInv
<1> QED BY Zenon, <1>1, <1>2, <1>5, <1>6 DEF CInv

-----------------------------------------------------------------------------
(* Steps that change the table.                                            *)

\* A stream ends: by its own deletion, by a status or because its creation was
\* refused, in which case the answer is forgotten too.
LEMMA DeletePreserves ==
  ASSUME CInv, ~failed, NEW h \in Handles(streams), Delete(h),
         UNCHANGED transactions \/ \E t \in CreationsOf(h) : Forget(t),
         UNCHANGED <<current_state, next_transaction>>,
         owed' = owed \ {WireOf(streams, h)}, Queue(pending')
  PROVE  CInv'
<1>1. TableOK(streams) /\ NoWire \notin Nat /\ h \in AllHandles /\ Valid(streams, h)
  BY Zenon, HandlesAreValid, ClientAssumption DEF CInv, TableInv
<1>2. /\ TableOK(streams')
      /\ Handles(streams') = Handles(streams) \ {h}
      /\ OthersKept(streams, streams', h)
      /\ DOMAIN streams'.by_wire = DOMAIN streams.by_wire \ {WireOf(streams, h)}
      /\ \A g \in AllHandles : Spent(streams, g) => Spent(streams', g)
      /\ Spent(streams', h)
  BY Zenon, <1>1, RemoveTakes DEF Delete
<1>3. dead' = dead \cup {h}
  BY Zenon DEF Delete
<1>4. TableInv'
  <2>1. IsFiniteSet(Handles(streams')) /\ Cardinality(Handles(streams')) <= MaxStreams
    <3>1. /\ IsFiniteSet(Handles(streams)) /\ Cardinality(Handles(streams)) \in Nat
          /\ Cardinality(Handles(streams)) <= MaxStreams
      BY Zenon, FS_CardinalityType DEF CInv, TableInv
    <3>2. /\ IsFiniteSet(Handles(streams'))
          /\ Cardinality(Handles(streams')) = Cardinality(Handles(streams)) - 1
      BY <1>2, <3>1, FS_RemoveElement
    <3> QED BY <3>1, <3>2, ClientAssumption
  <2>2. \A g \in Handles(streams') :
          /\ StateOf(streams', g) \in LiveStates
          /\ WireOf(streams', g) = NoWire <=> StateOf(streams', g) = "Creating"
    BY Zenon, <1>2 DEF CInv, TableInv, OthersKept
  <2>3. dead' \subseteq AllHandles /\ \A g \in dead' : Spent(streams', g)
    BY Zenon, <1>1, <1>2, <1>3 DEF CInv, TableInv
  <2> QED BY Zenon, <1>2, <2>1, <2>2, <2>3 DEF TableInv
<1>5. /\ DOMAIN transactions' \subseteq DOMAIN transactions
      /\ \A u \in DOMAIN transactions' : transactions'[u] = transactions[u]
  BY Zenon, Forgotten
<1>6. TransactionsInv'
  BY Zenon, <1>2, <1>3, <1>5 DEF CInv, TransactionsInv
<1>7. ASSUME NEW g \in Handles(streams) \ {h} PROVE CreationsOf(g)' = CreationsOf(g)
  <2>1. CASE UNCHANGED transactions
    BY Zenon, <2>1 DEF CreationsOf
  <2>2. CASE \E t \in CreationsOf(h) : Forget(t)
    <3>1. PICK t \in CreationsOf(h) : Forget(t)
      BY Zenon, <2>2
    <3>2. t \notin CreationsOf(g)
      BY Zenon, <3>1 DEF CreationsOf
    <3>3. CreationsOf(g)' = CreationsOf(g) \ {t}
      BY Zenon, <3>1, Forgotten
    <3> QED BY Zenon, <3>2, <3>3
  <2> QED BY Zenon, <2>1, <2>2
<1>8. Connects' = Connects
  <2>1. CASE UNCHANGED transactions
    BY Zenon, <2>1 DEF Connects
  <2>2. CASE \E t \in CreationsOf(h) : Forget(t)
    <3>1. PICK t \in CreationsOf(h) : Forget(t)
      BY Zenon, <2>2
    <3>2. t \notin Connects
      BY Zenon, <3>1 DEF CreationsOf, Connects
    <3>3. Connects' = Connects \ {t}
      BY Zenon, <3>1, Forgotten
    <3> QED BY Zenon, <3>2, <3>3
  <2> QED BY Zenon, <2>1, <2>2
<1>9. AnswersInv'
  <2>1. owed' = DOMAIN streams'.by_wire
    BY Zenon, <1>2 DEF CInv, AnswersInv
  <2>2. ASSUME NEW g \in Handles(streams')
        PROVE  /\ StateOf(streams', g) = "Creating" => \E t : CreationsOf(g)' = {t}
               /\ StateOf(streams', g) # "Creating" => CreationsOf(g)' = {}
    <3>1. /\ g \in Handles(streams) \ {h} /\ StateOf(streams', g) = StateOf(streams, g)
      BY Zenon, <1>2 DEF OthersKept
    <3>2. CreationsOf(g)' = CreationsOf(g)
      BY Zenon, <1>7, <3>1
    <3> QED BY Zenon, <3>1, <3>2 DEF CInv, AnswersInv
  <2> QED BY Zenon, <1>8, <2>1, <2>2 DEF CInv, AnswersInv
<1>10. OutputInv'
  BY Zenon DEF CInv, OutputInv
<1> QED BY Zenon, <1>4, <1>6, <1>9, <1>10 DEF CInv

\* The peer made the stream of a creation that was not cancelled.
LEMMA StreamBound ==
  ASSUME CInv, ~failed, NEW t \in DOMAIN transactions, transactions[t].kind = "create",
         NEW h, h = transactions[t].stream, Valid(streams, h),
         NEW wire \in WireIds, ~Known(streams, wire),
         NEW state \in {"StartingPlayback", "StartingPublish"},
         streams' = set_state(bind(streams, h, wire), h, state),
         Forget(t), UNCHANGED <<current_state, next_transaction, dead>>,
         owed' = owed \cup {wire}, Queue(pending')
  PROVE  CInv'
<1>1. TableOK(streams) /\ NoWire \notin Nat /\ wire \in Nat \ DOMAIN streams.by_wire
  BY Zenon, ClientAssumption DEF CInv, TableInv, Known
<1>2. h \in AllHandles /\ h \in Handles(streams)
  <2>1. h \in Handles(streams) \cup dead
    BY Zenon DEF CInv, TransactionsInv
  <2>2. h \in AllHandles
    BY Zenon, <1>1, <2>1, HandlesAreValid DEF CInv, TableInv
  <2> QED BY Zenon, <1>1, <2>2, HandlesAreValid
<1>3. t \in CreationsOf(h)
  BY Zenon DEF CreationsOf
<1>4. StateOf(streams, h) = "Creating" /\ CreationsOf(h) = {t}
  BY Zenon, <1>2, <1>3 DEF CInv, AnswersInv
<1>5. WireOf(streams, h) = NoWire
  BY Zenon, <1>2, <1>4 DEF CInv, TableInv
<1>6. PICK b : b = bind(streams, h, wire)
  BY Zenon
<1>7. /\ TableOK(b) /\ Handles(b) = Handles(streams) /\ OthersKept(streams, b, h)
      /\ WireOf(b, h) = wire /\ Valid(b, h)
      /\ DOMAIN b.by_wire = DOMAIN streams.by_wire \cup {wire}
      /\ \A g \in AllHandles : Spent(streams, g) => Spent(b, g)
  BY <1>1, <1>2, <1>5, <1>6, BindIndexes
<1>8. state \in States
  BY Zenon DEF States
<1>9. streams' = set_state(b, h, state)
  BY Zenon, <1>6
<1>10. /\ TableOK(streams') /\ Handles(streams') = Handles(b) /\ OthersKept(b, streams', h)
       /\ WireOf(streams', h) = WireOf(b, h) /\ StateOf(streams', h) = state
       /\ streams'.by_wire = b.by_wire
       /\ \A g \in AllHandles : Spent(b, g) => Spent(streams', g)
  BY <1>2, <1>7, <1>8, <1>9, SetStateKeeps
<1>11. ASSUME NEW g \in Handles(streams) \ {h}
       PROVE  StateOf(streams', g) = StateOf(streams, g) /\ WireOf(streams', g) = WireOf(streams, g)
  BY ZenonT(40), <1>7, <1>10 DEF OthersKept
<1>12. WireOf(streams', h) # NoWire /\ StateOf(streams', h) \in LiveStates \ {"Creating"}
  BY Zenon, <1>1, <1>7, <1>10 DEF LiveStates
<1>13. TableInv'
  <2>1. \A g \in Handles(streams') :
          /\ StateOf(streams', g) \in LiveStates
          /\ WireOf(streams', g) = NoWire <=> StateOf(streams', g) = "Creating"
    BY SMTT(20), <1>7, <1>10, <1>11, <1>12 DEF CInv, TableInv
  <2>2. dead' \subseteq AllHandles /\ \A g \in dead' : Spent(streams', g)
    BY Zenon, <1>7, <1>10 DEF CInv, TableInv
  <2> QED BY SMTT(20), <1>7, <1>10, <2>1, <2>2 DEF CInv, TableInv
<1>14. TransactionsInv'
  BY Zenon, <1>7, <1>10, Forgotten DEF CInv, TransactionsInv
<1>15. AnswersInv'
  <2>1. owed' = DOMAIN streams'.by_wire
    BY SMTT(20), <1>7, <1>10 DEF CInv, AnswersInv
  <2>2. Connects' = Connects
    <3>1. t \notin Connects
      BY Zenon DEF Connects
    <3> QED BY ZenonT(40), <3>1, Forgotten
  <2>3. ASSUME NEW g \in Handles(streams')
        PROVE  /\ StateOf(streams', g) = "Creating" => \E u : CreationsOf(g)' = {u}
               /\ StateOf(streams', g) # "Creating" => CreationsOf(g)' = {}
    <3>1. CreationsOf(g)' = CreationsOf(g) \ {t}
      BY Zenon, Forgotten
    <3>2. CASE g = h
      BY Zenon, <1>4, <1>12, <3>1, <3>2
    <3>3. CASE g # h
      <4>1. t \notin CreationsOf(g)
        BY Zenon, <3>3 DEF CreationsOf
      <4>2. CreationsOf(g)' = CreationsOf(g)
        BY Zenon, <3>1, <4>1
      <4>3. g \in Handles(streams) /\ StateOf(streams', g) = StateOf(streams, g)
        BY Zenon, <1>7, <1>10, <1>11, <3>3
      <4> QED BY Zenon, <4>2, <4>3 DEF CInv, AnswersInv
    <3> QED BY Zenon, <3>2, <3>3
  <2> QED BY Zenon, <2>1, <2>2, <2>3 DEF CInv, AnswersInv
<1>16. OutputInv'
  BY Zenon DEF CInv, OutputInv
<1> QED BY Zenon, <1>13, <1>14, <1>15, <1>16 DEF CInv

\* A status starts a stream.
LEMMA StreamStarted ==
  ASSUME CInv, NEW h \in Handles(streams), StateOf(streams, h) # "Creating",
         NEW state \in {"Playing", "Publishing"},
         streams' = set_state(streams, h, state),
         UNCHANGED <<current_state, transactions, next_transaction, dead, owed>>,
         Queue(pending')
  PROVE  CInv'
<1>1. TableOK(streams) /\ h \in AllHandles /\ Valid(streams, h)
  BY Zenon, HandlesAreValid DEF CInv, TableInv
<1>2. state \in States /\ state \in LiveStates \ {"Creating"}
  BY Zenon DEF States, LiveStates
<1>3. /\ TableOK(streams') /\ Handles(streams') = Handles(streams)
      /\ OthersKept(streams, streams', h)
      /\ WireOf(streams', h) = WireOf(streams, h) /\ StateOf(streams', h) = state
      /\ streams'.by_wire = streams.by_wire
      /\ \A g \in AllHandles : Spent(streams, g) => Spent(streams', g)
  BY ZenonT(40), <1>1, <1>2, SetStateKeeps
<1>4. ASSUME NEW g \in Handles(streams)
      PROVE  /\ WireOf(streams', g) = WireOf(streams, g)
             /\ StateOf(streams', g) \in LiveStates
             /\ StateOf(streams', g) = "Creating" <=> StateOf(streams, g) = "Creating"
  BY Zenon, <1>2, <1>3 DEF CInv, TableInv, OthersKept
<1>5. TableInv'
  BY Zenon, <1>3, <1>4 DEF CInv, TableInv
<1>6. TransactionsInv'
  BY Zenon, <1>3 DEF CInv, TransactionsInv
<1>7. AnswersInv'
  <2>1. Connects' = Connects /\ \A g : CreationsOf(g)' = CreationsOf(g)
    BY Zenon DEF CreationsOf, Connects
  <2> QED BY Zenon, <1>3, <1>4, <2>1 DEF CInv, AnswersInv, failed
<1>8. OutputInv'
  BY Zenon DEF CInv, OutputInv
<1> QED BY Zenon, <1>5, <1>6, <1>7, <1>8 DEF CInv

\* A transaction is opened with a number that was not used before.
LEMMA Opened ==
  ASSUME TransactionsInv, NEW x, NewTransaction(x)
  PROVE  /\ next_transaction' \in 1 .. MaxTransactions + 1
         /\ next_transaction \notin DOMAIN transactions
         /\ DOMAIN transactions' = DOMAIN transactions \cup {next_transaction}
         /\ transactions'[next_transaction] = x
         /\ \A t \in DOMAIN transactions : transactions'[t] = transactions[t]
         /\ \A t \in DOMAIN transactions' : t \in 1 .. next_transaction' - 1
<1>1. /\ next_transaction \in Nat \ {0} /\ next_transaction <= MaxTransactions
      /\ MaxTransactions \in Nat
      /\ \A t \in DOMAIN transactions : t \in 1 .. next_transaction - 1
  BY ClientAssumption DEF TransactionsInv, NewTransaction
<1>2. next_transaction \notin DOMAIN transactions
  BY <1>1
<1>3. /\ DOMAIN transactions' = DOMAIN transactions \cup {next_transaction}
      /\ transactions'[next_transaction] = x
      /\ \A t \in DOMAIN transactions : transactions'[t] = transactions[t]
      /\ next_transaction' = next_transaction + 1
  BY Zenon, <1>2 DEF NewTransaction, Map
<1>4. \A t \in DOMAIN transactions' : t \in 1 .. next_transaction' - 1
  BY <1>1, <1>3
<1> QED BY <1>1, <1>2, <1>3, <1>4

\* connect: the one transaction that answers it is added.
LEMMA ConnectPreserves == CInv /\ connect => CInv'
<1> SUFFICES ASSUME CInv, connect PROVE CInv'
  BY Zenon
<1>1. PICK x : x = [kind |-> "connect", stream |-> NoHandle, purpose |-> "none"]
  BY Zenon
<1>2. /\ x.kind = "connect" /\ NewTransaction(x)
      /\ current_state = "Disconnected" /\ current_state' = "Connecting"
      /\ streams' = streams /\ dead' = dead
      /\ Enqueue(<<Packet("connect", NoWire)>>)
  BY Zenon, <1>1 DEF connect
<1>3. TransactionsInv
  BY Zenon DEF CInv
<1>4. Queue(pending') /\ owed' = owed
  <2>1. /\ Queue(<<Packet("connect", NoWire)>>)
        /\ Deleted(<<Packet("connect", NoWire)>>) = {}
    BY OutputsAreTyped, ShortQueues, DeletedWires
  <2>2. Queue(pending)
    BY Zenon DEF CInv, OutputInv
  <2>3. Queue(pending') /\ owed' = owed \ Deleted(<<Packet("connect", NoWire)>>)
    BY Zenon, <1>2, <2>1, <2>2, Enqueued
  <2> QED BY Zenon, <2>1, <2>3
<1>5. TableInv'
  BY Zenon, <1>2 DEF CInv, TableInv
<1>6. TransactionsInv'
  BY Zenon, <1>2, <1>3, Opened DEF TransactionsInv
<1>7. AnswersInv'
  <2>1. \A g : CreationsOf(g)' = CreationsOf(g)
    BY Zenon, <1>2, <1>3, Opened DEF CreationsOf
  <2>2. Connects' = Connects \cup {next_transaction}
    BY Zenon, <1>2, <1>3, Opened DEF Connects
  <2>3. Connects = {}
    BY Zenon, <1>2 DEF CInv, AnswersInv, failed
  <2>4. Connects' = {next_transaction}
    BY Zenon, <2>2, <2>3
  <2> QED BY Zenon, <1>2, <1>4, <2>1, <2>4 DEF CInv, AnswersInv, failed
<1>8. OutputInv'
  BY Zenon, <1>2, <1>4 DEF CInv, OutputInv
<1> QED BY Zenon, <1>5, <1>6, <1>7, <1>8 DEF CInv

\* play and publish: the handle is new, so no transaction that is still open can
\* be taken for the one that creates it.
LEMMA CreatePreserves ==
  ASSUME CInv, NEW purpose, create_stream(purpose)
  PROVE  CInv'
<1>1. PICK h : h = InsertedHandle(streams)
  BY Zenon
<1>2. PICK x : x = [kind |-> "create", stream |-> h, purpose |-> purpose]
  BY Zenon
<1>3. /\ x.kind = "create" /\ x.stream = h /\ NewTransaction(x)
      /\ current_state = "Connected" /\ current_state' = current_state
      /\ Cardinality(Handles(streams)) < MaxStreams
      /\ streams' = insert(streams, "Creating", NoWire) /\ dead' = dead
      /\ Enqueue(<<Packet("createStream", NoWire)>>)
  BY Zenon, <1>1, <1>2 DEF create_stream
<1>4. /\ TransactionsInv /\ TableOK(streams) /\ NoWire \notin Nat /\ "Creating" \in States
      /\ NoWire \in (Nat \cup {NoWire}) \ DOMAIN streams.by_wire
  <2>1. TransactionsInv /\ TableOK(streams) /\ NoWire \notin Nat
    BY Zenon, ClientAssumption DEF CInv, TableInv
  <2>2. DOMAIN streams.by_wire \subseteq Nat
    BY Zenon, <2>1, IndexedHandles
  <2> QED BY Zenon, <2>1, <2>2 DEF States
<1>5. /\ TableOK(streams')
      /\ h \in AllHandles /\ h \notin Handles(streams)
      /\ Handles(streams') = Handles(streams) \cup {h}
      /\ WireOf(streams', h) = NoWire /\ StateOf(streams', h) = "Creating"
      /\ OthersKept(streams, streams', h)
      /\ DOMAIN streams'.by_wire = DOMAIN streams.by_wire
      /\ \A g \in AllHandles : Spent(streams, g) => Spent(streams', g)
      /\ ~Spent(streams, h)
  <2>1. PICK state, wire : state = "Creating" /\ wire = NoWire
    BY Zenon
  <2>2. PICK u : u = insert(streams, state, wire)
    BY Zenon
  <2>3. state \in States /\ wire \in (Nat \cup {NoWire}) \ DOMAIN streams.by_wire
    BY Zenon, <1>4, <2>1
  <2>4. /\ TableOK(u)
        /\ h \in AllHandles /\ h \notin Handles(streams)
        /\ Handles(u) = Handles(streams) \cup {h}
        /\ WireOf(u, h) = wire /\ StateOf(u, h) = state
        /\ OthersKept(streams, u, h)
        /\ wire = NoWire => DOMAIN u.by_wire = DOMAIN streams.by_wire
        /\ \A g \in AllHandles : Spent(streams, g) => Spent(u, g)
        /\ ~Spent(streams, h)
    <3>1. Inserted(streams, u, h, state, wire)
      BY Zenon, <1>1, <1>4, <2>2, <2>3, InsertAdds
    <3> QED BY Zenon, <3>1 DEF Inserted
  <2>5. u = streams'
    BY Zenon, <1>3, <2>1, <2>2
  <2> QED BY Zenon, <2>1, <2>4, <2>5
<1>6. Queue(pending') /\ owed' = owed
  <2>1. /\ Queue(<<Packet("createStream", NoWire)>>)
        /\ Deleted(<<Packet("createStream", NoWire)>>) = {}
    BY OutputsAreTyped, ShortQueues, DeletedWires
  <2>2. Queue(pending)
    BY Zenon DEF CInv, OutputInv
  <2>3. Queue(pending') /\ owed' = owed \ Deleted(<<Packet("createStream", NoWire)>>)
    BY Zenon, <1>3, <2>1, <2>2, Enqueued
  <2> QED BY Zenon, <2>1, <2>3
<1>7. TableInv'
  <2>1. IsFiniteSet(Handles(streams')) /\ Cardinality(Handles(streams')) <= MaxStreams
    <3>1. IsFiniteSet(Handles(streams)) /\ Cardinality(Handles(streams)) \in Nat
      BY Zenon, FS_CardinalityType DEF CInv, TableInv
    <3>2. /\ IsFiniteSet(Handles(streams'))
          /\ Cardinality(Handles(streams')) = Cardinality(Handles(streams)) + 1
      BY <1>5, <3>1, FS_AddElement
    <3> QED BY <1>3, <3>1, <3>2, ClientAssumption
  <2>2. ASSUME NEW g \in Handles(streams')
        PROVE  /\ StateOf(streams', g) \in LiveStates
               /\ WireOf(streams', g) = NoWire <=> StateOf(streams', g) = "Creating"
    <3>1. CASE g = h
      BY Zenon, <1>5, <3>1 DEF LiveStates
    <3>2. CASE g # h
      BY Zenon, <1>5, <3>2 DEF CInv, TableInv, OthersKept
    <3> QED BY Zenon, <3>1, <3>2
  <2>3. dead' \subseteq AllHandles /\ \A g \in dead' : Spent(streams', g)
    BY Zenon, <1>3, <1>5 DEF CInv, TableInv
  <2> QED BY Zenon, <1>5, <2>1, <2>2, <2>3 DEF TableInv
<1>8. TransactionsInv'
  <2>1. ASSUME NEW t \in DOMAIN transactions'
        PROVE  /\ transactions'[t].kind \in {"connect", "create"}
               /\ transactions'[t].kind = "create" =>
                    transactions'[t].stream \in Handles(streams') \cup dead'
    <3>1. CASE t = next_transaction
      BY Zenon, <1>3, <1>4, <1>5, <3>1, Opened
    <3>2. CASE t # next_transaction
      <4>1. t \in DOMAIN transactions /\ transactions'[t] = transactions[t]
        BY Zenon, <1>3, <1>4, <3>2, Opened
      <4> QED BY Zenon, <1>3, <1>4, <1>5, <4>1 DEF TransactionsInv
    <3> QED BY Zenon, <3>1, <3>2
  <2> QED BY Zenon, <1>3, <1>4, <2>1, Opened DEF TransactionsInv
<1>9. AnswersInv'
  <2>1. Connects' = Connects
    BY Zenon, <1>3, <1>4, Opened DEF Connects
  <2>2. CreationsOf(h) = {}
    <3>1. h \notin dead
      BY Zenon, <1>5 DEF CInv, TableInv
    <3> QED BY Zenon, <1>4, <1>5, <3>1 DEF CreationsOf, TransactionsInv
  <2>3. CreationsOf(h)' = {next_transaction}
    <3>1. CreationsOf(h)' = CreationsOf(h) \cup {next_transaction}
      BY Zenon, <1>3, <1>4, Opened DEF CreationsOf
    <3> QED BY Zenon, <2>2, <3>1
  <2>4. ASSUME NEW g, g # h PROVE CreationsOf(g)' = CreationsOf(g)
    BY Zenon, <1>3, <1>4, <2>4, Opened DEF CreationsOf
  <2>5. ASSUME NEW g \in Handles(streams')
        PROVE  /\ StateOf(streams', g) = "Creating" => \E t : CreationsOf(g)' = {t}
               /\ StateOf(streams', g) # "Creating" => CreationsOf(g)' = {}
    <3>1. CASE g = h
      BY Zenon, <1>5, <2>3, <3>1
    <3>2. CASE g # h
      <4>1. g \in Handles(streams) /\ StateOf(streams', g) = StateOf(streams, g)
        BY Zenon, <1>5, <3>2 DEF OthersKept
      <4>2. CreationsOf(g)' = CreationsOf(g)
        BY Zenon, <2>4, <3>2
      <4> QED BY Zenon, <1>3, <4>1, <4>2 DEF CInv, AnswersInv, failed
    <3> QED BY Zenon, <3>1, <3>2
  <2> QED BY Zenon, <1>3, <1>5, <1>6, <2>1, <2>5 DEF CInv, AnswersInv, failed
<1>10. OutputInv'
  BY Zenon, <1>3, <1>6 DEF CInv, OutputInv
<1> QED BY Zenon, <1>7, <1>8, <1>9, <1>10 DEF CInv

-----------------------------------------------------------------------------
(* Every action.                                                           *)

\* A response that deletes nothing leaves what is owed.
LEMMA QuietResponse ==
  ASSUME NEW outs, Queue(outs), Deleted(outs) = {}, Respond(outs)
  PROVE  Queue(pending') /\ owed' = owed
<1>1. Queue(pending') /\ owed' = (owed \cup {}) \ Deleted(outs)
  BY Zenon, Responses DEF Respond
<1> QED BY Zenon, <1>1

\* The responses that delete nothing.
LEMMA QuietOutputs ==
  /\ Queue(<< >>) /\ Deleted(<< >>) = {}
  /\ \A what, h : what # "deleteStream" =>
       Queue(<<Event(what, h)>>) /\ Deleted(<<Event(what, h)>>) = {}
  /\ \A what, wire : what # "deleteStream" =>
       Queue(<<Packet(what, wire)>>) /\ Deleted(<<Packet(what, wire)>>) = {}
<1>1. ASSUME NEW what, NEW h, what # "deleteStream"
      PROVE  Queue(<<Event(what, h)>>) /\ Deleted(<<Event(what, h)>>) = {}
  <2>1. PICK o : o = Event(what, h) /\ IsOutput(o) /\ o.what = what
    BY Zenon, OutputsAreTyped
  <2> QED BY Zenon, <1>1, <2>1, ShortQueues, DeletedWires
<1>2. ASSUME NEW what, NEW wire, what # "deleteStream"
      PROVE  Queue(<<Packet(what, wire)>>) /\ Deleted(<<Packet(what, wire)>>) = {}
  <2>1. PICK o : o = Packet(what, wire) /\ IsOutput(o) /\ o.what = what
    BY Zenon, OutputsAreTyped
  <2> QED BY Zenon, <1>2, <2>1, ShortQueues, DeletedWires
<1> QED BY Zenon, <1>1, <1>2, ShortQueues, DeletedWires

\* An output is handed out.
LEMMA DrainPreserves == CInv /\ Drain => CInv'
<1> SUFFICES ASSUME CInv, Drain PROVE CInv'
  BY Zenon
<1>1. Queue(pending')
  BY Zenon, QueueOperations DEF Drain, CInv, OutputInv
<1>2. Calm
  BY Zenon, <1>1 DEF Drain, Calm
<1> QED BY Zenon, <1>2, CalmPreserves

\* Messages that only lead to an event or an answer.
LEMMA NoticesPreserve == CInv /\ (UnknownTransaction \/ media_event \/ handle_control) => CInv'
<1>1. UnknownTransaction => Calm
  <2> SUFFICES ASSUME UnknownTransaction PROVE Calm
    BY Zenon
  <2>1. Queue(pending') /\ owed' = owed
    BY Zenon, QuietOutputs, QuietResponse DEF UnknownTransaction
  <2> QED BY Zenon, <2>1 DEF UnknownTransaction, Calm
<1>2. media_event => Calm
  <2> SUFFICES ASSUME media_event PROVE Calm
    BY Zenon
  <2>1. PICK wire : Respond(<<Event("media", find(streams, wire))>>)
    BY Zenon DEF media_event
  <2>2. Queue(pending') /\ owed' = owed
    BY Zenon, <2>1, QuietOutputs, QuietResponse
  <2> QED BY Zenon, <2>2 DEF media_event, Calm
<1>3. handle_control => Calm
  <2> SUFFICES ASSUME handle_control PROVE Calm
    BY Zenon
  <2>1. PICK outs \in {<<Packet("pingResponse", NoWire)>>, <<Event("notice", NoHandle)>>, << >>} :
          Respond(outs)
    BY Zenon DEF handle_control
  <2>2. Queue(outs) /\ Deleted(outs) = {}
    BY Zenon, QuietOutputs
  <2>3. Queue(pending') /\ owed' = owed
    BY Zenon, <2>1, <2>2, QuietResponse
  <2> QED BY Zenon, <2>3 DEF handle_control, Calm
<1> QED BY Zenon, <1>1, <1>2, <1>3, CalmPreserves

\* Media, metadata and pings.
LEMMA SendPreserves == CInv /\ (send_media \/ send_metadata \/ send_ping_request) => CInv'
<1>1. CInv /\ (send_media \/ send_metadata \/ send_ping_request) => Calm
  BY Zenon DEF send_media, send_metadata, send_ping_request, ReturnPacket, Calm, CInv, OutputInv
<1> QED BY Zenon, <1>1, CalmPreserves

\* _error: the connection or the creation it answers is given up.
LEMMA FailedResultPreserves == CInv /\ handle_failed_result => CInv'
<1> SUFFICES ASSUME CInv, handle_failed_result PROVE CInv'
  BY Zenon
<1>1. PICK t \in DOMAIN transactions :
        /\ Forget(t)
        /\ \/ /\ transactions[t].kind = "connect"
              /\ current_state' = "Disconnected"
              /\ Respond(<<Event("connectionRejected", NoHandle)>>)
              /\ UNCHANGED <<streams, dead>>
           \/ /\ transactions[t].kind = "create"
              /\ IF Valid(streams, transactions[t].stream)
                 THEN /\ Delete(transactions[t].stream)
                      /\ Respond(<<Event("requestRejected", transactions[t].stream)>>)
                 ELSE Respond(<< >>) /\ UNCHANGED <<streams, dead>>
              /\ UNCHANGED current_state
  BY Zenon DEF handle_failed_result
<1>2. ~failed /\ next_transaction' = next_transaction
  BY Zenon DEF handle_failed_result, CanReceive
<1>3. Queue(pending') /\ owed' = owed
  BY Zenon, <1>1, QuietOutputs, QuietResponse
<1>4. CASE transactions[t].kind = "connect"
  BY SMTT(20), <1>1, <1>2, <1>3, <1>4, ConnectAnswered
<1>5. CASE transactions[t].kind = "create" /\ ~Valid(streams, transactions[t].stream)
  BY Zenon, <1>1, <1>2, <1>3, <1>5, CancelledAnswered
<1>6. CASE transactions[t].kind = "create" /\ Valid(streams, transactions[t].stream)
  <2>1. PICK h : h = transactions[t].stream
    BY Zenon
  <2>2. h \in Handles(streams) /\ NoWire \notin Nat /\ TableOK(streams)
    <3>1. TableOK(streams) /\ h \in Handles(streams) \cup dead /\ NoWire \notin Nat
      BY Zenon, <1>6, <2>1, ClientAssumption DEF CInv, TableInv, TransactionsInv
    <3>2. h \in AllHandles
      BY Zenon, <3>1, HandlesAreValid DEF CInv, TableInv
    <3> QED BY Zenon, <1>6, <2>1, <3>1, <3>2, HandlesAreValid
  <2>3. t \in CreationsOf(h)
    BY Zenon, <1>6, <2>1 DEF CreationsOf
  <2>4. WireOf(streams, h) = NoWire
    BY Zenon, <1>2, <2>2, <2>3 DEF CInv, AnswersInv, TableInv
  <2>5. owed' = owed \ {WireOf(streams, h)}
    <3>1. owed \subseteq Nat
      BY Zenon, <1>2, <2>2, IndexedHandles DEF CInv, AnswersInv
    <3> QED BY Zenon, <1>3, <2>2, <2>4, <3>1
  <2>6. Delete(h) /\ current_state' = current_state
    BY SMTT(20), <1>1, <1>6, <2>1
  <2> QED BY SMTT(20), <1>1, <1>2, <1>3, <2>2, <2>3, <2>5, <2>6, DeletePreserves
<1> QED BY Zenon, <1>1, <1>4, <1>5, <1>6

\* _result of connect.
LEMMA ConnectAcceptedPreserves == CInv /\ connect_accepted => CInv'
<1> SUFFICES ASSUME CInv, connect_accepted PROVE CInv'
  BY Zenon
<1> DEFINE outs == <<Packet("windowAck", NoWire), Event("connectionAccepted", NoHandle),
                     Packet("setChunkSize", NoWire)>>
<1>1. Queue(outs) /\ Deleted(outs) = {}
  BY OutputsAreTyped, ShortQueues, DeletedWires
<1>2. Respond(outs)
  BY Zenon DEF connect_accepted
<1> HIDE DEF outs
<1>3. Queue(pending') /\ owed' = owed
  BY Zenon, <1>1, <1>2, QuietResponse
<1>4. PICK t \in DOMAIN transactions : transactions[t].kind = "connect" /\ Forget(t)
  BY Zenon DEF connect_accepted
<1>5. /\ ~failed /\ current_state' \in {"Disconnected", "Connected"}
      /\ UNCHANGED <<next_transaction, streams, dead>>
  BY Zenon DEF connect_accepted, CanReceive
<1> QED BY SMTT(20), <1>3, <1>4, <1>5, ConnectAnswered

\* _result of createStream: the stream gets its wire id, or a stream that was deleted
\* meanwhile is deleted on the server too.
LEMMA StreamCreatedPreserves == CInv /\ stream_created => CInv'
<1> SUFFICES ASSUME CInv, stream_created PROVE CInv'
  BY Zenon
<1>1. PICK t \in DOMAIN transactions, wire \in WireIds :
        /\ transactions[t].kind = "create"
        /\ Forget(t)
        /\ \/ /\ Known(streams, wire)
              /\ Fail /\ UNCHANGED streams
           \/ /\ ~Known(streams, wire) /\ ~Valid(streams, transactions[t].stream)
              /\ RespondAfter({wire}, <<Packet("deleteStream", wire)>>)
              /\ UNCHANGED <<current_state, streams>>
           \/ /\ ~Known(streams, wire) /\ Valid(streams, transactions[t].stream)
              /\ streams' = set_state(bind(streams, transactions[t].stream, wire),
                                      transactions[t].stream, Starting(transactions[t].purpose))
              /\ RespondAfter({wire}, StartPackets(transactions[t].purpose, wire))
              /\ UNCHANGED current_state
  BY ZenonT(60) DEF stream_created
<1>2. ~failed /\ UNCHANGED <<next_transaction, dead>>
  BY Zenon DEF stream_created, CanReceive
<1>3. CASE Fail /\ UNCHANGED streams
  BY Zenon, <1>1, <1>2, <1>3, FailPreserves
<1>4. CASE /\ ~Known(streams, wire) /\ ~Valid(streams, transactions[t].stream)
           /\ RespondAfter({wire}, <<Packet("deleteStream", wire)>>)
           /\ UNCHANGED <<current_state, streams>>
  <2>1. /\ Queue(<<Packet("deleteStream", wire)>>)
        /\ Deleted(<<Packet("deleteStream", wire)>>) = {wire}
    <3>1. PICK o : /\ o = Packet("deleteStream", wire) /\ IsOutput(o)
                   /\ o.what = "deleteStream" /\ o.wire = wire
      BY OutputsAreTyped
    <3> QED BY Zenon, <3>1, ShortQueues, DeletedWires
  <2>2. Queue(pending') /\ owed' = (owed \cup {wire}) \ {wire}
    BY Zenon, <1>4, <2>1, Responses
  <2>3. wire \notin owed
    BY Zenon, <1>2, <1>4 DEF CInv, AnswersInv, Known
  <2>4. owed' = owed
    BY Zenon, <2>2, <2>3
  <2> QED BY Zenon, <1>1, <1>2, <1>4, <2>2, <2>4, CancelledAnswered
<1>5. CASE /\ ~Known(streams, wire) /\ Valid(streams, transactions[t].stream)
           /\ streams' = set_state(bind(streams, transactions[t].stream, wire),
                                   transactions[t].stream, Starting(transactions[t].purpose))
           /\ RespondAfter({wire}, StartPackets(transactions[t].purpose, wire))
           /\ UNCHANGED current_state
  <2>1. PICK outs : outs = StartPackets(transactions[t].purpose, wire)
    BY Zenon
  <2>2. Queue(outs) /\ Deleted(outs) = {}
    <3>1. CASE transactions[t].purpose = "play"
      <4>1. outs = <<Packet("setBufferLength", wire), Packet("play", wire)>>
        BY Zenon, <2>1, <3>1 DEF StartPackets
      <4>2. /\ Queue(<<Packet("setBufferLength", wire), Packet("play", wire)>>)
            /\ Deleted(<<Packet("setBufferLength", wire), Packet("play", wire)>>) = {}
        <5>1. PICK a, b : /\ a = Packet("setBufferLength", wire) /\ b = Packet("play", wire)
                          /\ IsOutput(a) /\ IsOutput(b)
                          /\ a.what = "setBufferLength" /\ b.what = "play"
          BY OutputsAreTyped
        <5>2. Queue(<<a, b>>) /\ Deleted(<<a, b>>) = {}
          BY Zenon, <5>1, ShortQueues, DeletedWires
        <5> QED BY Zenon, <5>1, <5>2
      <4> QED BY Zenon, <4>1, <4>2
    <3>2. CASE transactions[t].purpose # "play"
      <4>1. outs = <<Packet("publish", wire)>>
        BY Zenon, <2>1, <3>2 DEF StartPackets
      <4> QED BY Zenon, <4>1, QuietOutputs
    <3> QED BY Zenon, <3>1, <3>2
  <2>3. Queue(pending') /\ owed' = (owed \cup {wire}) \ Deleted(outs)
    BY Zenon, <1>5, <2>1, <2>2, Responses
  <2>4. owed' = owed \cup {wire}
    BY Zenon, <2>2, <2>3
  <2>5. Starting(transactions[t].purpose) \in {"StartingPlayback", "StartingPublish"}
    BY Zenon DEF Starting
  <2> QED BY Zenon, <1>1, <1>2, <1>5, <2>3, <2>4, <2>5, StreamBound
<1> QED BY SMTT(20), <1>1, <1>3, <1>4, <1>5

\* The errors of receive, which are terminal.
LEMMA FailuresPreserve == CInv /\ (stream_number_missing \/ InvalidInput) => CInv'
<1>1. ASSUME CInv, stream_number_missing PROVE CInv'
  <2>1. \E t : Forget(t)
    BY Zenon, <1>1 DEF stream_number_missing
  <2> QED BY Zenon, <1>1, <2>1, FailPreserves DEF stream_number_missing
<1>2. ASSUME CInv, InvalidInput PROVE CInv'
  BY Zenon, <1>2, FailPreserves DEF InvalidInput
<1> QED BY Zenon, <1>1, <1>2

\* onStatus moves a stream on, or ends it.
LEMMA StatusPreserves == CInv /\ handle_on_status_command => CInv'
<1> SUFFICES ASSUME CInv, handle_on_status_command PROVE CInv'
  BY Zenon
<1>1. PICK wire \in WireIds, code \in StatusCodes, error \in BOOLEAN :
        \/ Respond(<<Event("status", NoHandle)>>) /\ UNCHANGED <<streams, dead>>
        \/ /\ Known(streams, wire)
           /\ \/ /\ Accepts(StateOf(streams, find(streams, wire)), code)
                 /\ streams' = set_state(streams, find(streams, wire),
                                 IF StateOf(streams, find(streams, wire)) = "StartingPlayback"
                                 THEN "Playing" ELSE "Publishing")
                 /\ Respond(<<Event("requestAccepted", find(streams, wire))>>)
                 /\ UNCHANGED dead
              \/ /\ Delete(find(streams, wire))
                 /\ \E what \in {"finished", "requestRejected"} :
                      Respond(<<Packet("deleteStream", wire), Event(what, find(streams, wire))>>)
              \/ /\ Respond(<<Event("status", find(streams, wire))>>)
                 /\ UNCHANGED <<streams, dead>>
  BY ZenonT(40) DEF handle_on_status_command
<1>2. ~failed /\ UNCHANGED <<current_state, transactions, next_transaction>>
  BY Zenon DEF handle_on_status_command, CanReceive
<1>3. ASSUME NEW h, Respond(<<Event("status", h)>>), UNCHANGED <<streams, dead>>
      PROVE  CInv'
  <2>1. Queue(pending') /\ owed' = owed
    BY Zenon, <1>3, QuietOutputs, QuietResponse
  <2> QED BY Zenon, <1>2, <1>3, <2>1, CalmPreserves DEF Calm, kept
<1>4. ASSUME Known(streams, wire)
      PROVE  /\ find(streams, wire) \in Handles(streams)
             /\ WireOf(streams, find(streams, wire)) = wire
  BY Zenon, <1>4, IndexedHandles DEF CInv, TableInv, Known
<1>5. ASSUME Known(streams, wire), Accepts(StateOf(streams, find(streams, wire)), code),
             streams' = set_state(streams, find(streams, wire),
                          IF StateOf(streams, find(streams, wire)) = "StartingPlayback"
                          THEN "Playing" ELSE "Publishing"),
             Respond(<<Event("requestAccepted", find(streams, wire))>>), UNCHANGED dead
      PROVE  CInv'
  <2>1. Queue(pending') /\ owed' = owed
    BY Zenon, <1>5, QuietOutputs, QuietResponse
  <2>2. PICK h : h = find(streams, wire)
    BY Zenon
  <2>3. PICK state \in {"Playing", "Publishing"} : streams' = set_state(streams, h, state)
    BY Zenon, <1>5, <2>2
  <2>4. StateOf(streams, h) # "Creating" /\ h \in Handles(streams)
    BY Zenon, <1>4, <1>5, <2>2 DEF Accepts
  <2> QED BY Zenon, <1>2, <1>5, <2>1, <2>3, <2>4, StreamStarted
<1>6. ASSUME Known(streams, wire), Delete(find(streams, wire)),
             NEW what \in {"finished", "requestRejected"},
             Respond(<<Packet("deleteStream", wire), Event(what, find(streams, wire))>>)
      PROVE  CInv'
  <2>1. PICK h : h = find(streams, wire)
    BY Zenon
  <2>2. PICK a, b : /\ a = Packet("deleteStream", wire) /\ b = Event(what, h)
                    /\ IsOutput(a) /\ IsOutput(b)
                    /\ a.what = "deleteStream" /\ b.what = what /\ a.wire = wire
    BY OutputsAreTyped
  <2>3. Queue(<<a, b>>) /\ Deleted(<<a, b>>) = {wire}
    BY Zenon, <2>2, ShortQueues, DeletedWires
  <2>4. RespondAfter({}, <<a, b>>)
    BY Zenon, <1>6, <2>1, <2>2 DEF Respond
  <2>5. Queue(pending') /\ owed' = (owed \cup {}) \ Deleted(<<a, b>>)
    BY Zenon, <2>3, <2>4, Responses
  <2>6. h \in Handles(streams) /\ owed' = owed \ {WireOf(streams, h)} /\ Delete(h)
    BY Zenon, <1>4, <1>6, <2>1, <2>3, <2>5
  <2> QED BY Zenon, <1>2, <2>5, <2>6, DeletePreserves
<1> QED BY Zenon, <1>1, <1>3, <1>5, <1>6

\* delete_stream: the handle is spent, and the server is told if it knows the stream.
LEMMA DeleteStreamPreserves == CInv /\ delete_stream => CInv'
<1> SUFFICES ASSUME CInv, delete_stream PROVE CInv'
  BY Zenon
<1>1. PICK h \in AnyHandle : Valid(streams, h) /\ Delete(h) /\ Enqueue(DeletePackets(h))
  BY Zenon DEF delete_stream
<1>2. ~failed /\ UNCHANGED <<current_state, transactions, next_transaction>>
  BY Zenon DEF delete_stream
<1>3. TableOK(streams) /\ NoWire \notin Nat /\ h \in Handles(streams)
  <2>1. TableOK(streams) /\ NoWire \notin Nat
    BY Zenon, ClientAssumption DEF CInv, TableInv
  <2>2. h \in AllHandles
    BY Zenon, <1>1, <2>1, HandlesAreValid DEF CInv, TableInv, AnyHandle
  <2> QED BY Zenon, <1>1, <2>1, <2>2, HandlesAreValid
<1>4. PICK outs : outs = DeletePackets(h)
  BY Zenon
<1>5. Queue(outs) /\ owed \ Deleted(outs) = owed \ {WireOf(streams, h)}
  <2>1. CASE WireOf(streams, h) = NoWire
    <3>1. outs = << >>
      BY Zenon, <1>4, <2>1 DEF DeletePackets
    <3>2. owed \subseteq Nat
      BY Zenon, <1>2, <1>3, IndexedHandles DEF CInv, AnswersInv
    <3> QED BY Zenon, <1>3, <2>1, <3>1, <3>2, ShortQueues, DeletedWires
  <2>2. CASE WireOf(streams, h) # NoWire
    <3>1. PICK o : /\ o = Packet("deleteStream", WireOf(streams, h)) /\ IsOutput(o)
                   /\ o.what = "deleteStream" /\ o.wire = WireOf(streams, h)
      BY OutputsAreTyped
    <3>2. outs = <<o>>
      BY Zenon, <1>4, <2>2, <3>1 DEF DeletePackets
    <3>3. Deleted(<<o>>) = {o.wire}
      BY Zenon, <3>1, DeletedWires
    <3> QED BY Zenon, <3>1, <3>2, <3>3, ShortQueues
  <2> QED BY Zenon, <2>1, <2>2
<1>6. Queue(pending') /\ owed' = owed \ Deleted(outs)
  BY Zenon, <1>1, <1>4, <1>5, Enqueued DEF CInv, OutputInv
<1>7. owed' = owed \ {WireOf(streams, h)}
  BY Zenon, <1>5, <1>6
<1> QED BY Zenon, <1>1, <1>2, <1>3, <1>6, <1>7, DeletePreserves

\* A session starts without streams and transactions.
LEMMA InitEstablishes == Init => CInv
<1> SUFFICES ASSUME Init PROVE CInv
  BY Zenon
<1>1. DOMAIN << >> = {}
  OBVIOUS
<1>2. /\ TableOK(streams) /\ Handles(streams) = {} /\ DOMAIN streams.by_wire = {}
      /\ DOMAIN transactions = {}
  BY Zenon, <1>1, NewTableOK DEF Init, NewStreams
<1>3. MaxStreams \in Nat /\ MaxTransactions \in Nat
  BY Zenon, ClientAssumption
<1>4. TableInv
  BY <1>2, <1>3, FS_EmptySet DEF Init, TableInv
<1>5. TransactionsInv
  BY <1>2, <1>3 DEF Init, TransactionsInv
<1>6. AnswersInv
  BY Zenon, <1>2 DEF Init, AnswersInv, Connects
<1>7. OutputInv
  BY Zenon, ShortQueues DEF Init, OutputInv
<1> QED BY Zenon, <1>4, <1>5, <1>6, <1>7 DEF CInv

\* Every step keeps the invariant.
LEMMA NextPreserves == CInv /\ [Next]_client => CInv'
<1> SUFFICES ASSUME CInv, [Next]_client PROVE CInv'
  BY Zenon
<1>1. CASE Receive
  BY Zenon, <1>1, DrainPreserves, NoticesPreserve, FailedResultPreserves, ConnectAcceptedPreserves,
     StreamCreatedPreserves, FailuresPreserve, StatusPreserves DEF Receive
<1>2. CASE connect \/ play \/ publish
  BY Zenon, <1>2, ConnectPreserves, CreatePreserves DEF play, publish
<1>3. CASE delete_stream \/ send_media \/ send_metadata \/ send_ping_request
  BY Zenon, <1>3, DeleteStreamPreserves, SendPreserves
<1>4. CASE UNCHANGED client
  <2>1. Calm
    BY Zenon, <1>4 DEF client, kept, Calm, CInv, OutputInv
  <2> QED BY Zenon, <2>1, CalmPreserves
<1> QED BY Zenon, <1>1, <1>2, <1>3, <1>4 DEF Next

-----------------------------------------------------------------------------
(* What the invariant means.                                               *)

\* What the invariant says of the table.
LEMMA ConsistentStreams == CInv => StreamsConsistent
<1> SUFFICES ASSUME CInv PROVE StreamsConsistent
  BY Zenon
<1>1. \A i \in DOMAIN pending : pending[i].packet \in BOOLEAN
  <2>1. PICK P : pending \in Seq(P) /\ \A o \in P : o.packet \in BOOLEAN
    BY Zenon DEF CInv, OutputInv, Queue
  <2>2. \A i \in DOMAIN pending : pending[i] \in P
    BY <2>1
  <2> QED BY Zenon, <2>1, <2>2
<1>2. ClientTypeOK
  BY Zenon, <1>1 DEF CInv, TableInv, TransactionsInv, OutputInv, ClientTypeOK, LiveStates
<1> QED BY Zenon, <1>2 DEF CInv, TableInv, TableOK, StreamsConsistent

\* What the invariant says of the transactions.
LEMMA AnsweredOnce == CInv => CreationsHaveTransactions
<1> SUFFICES ASSUME CInv PROVE CreationsHaveTransactions
  BY Zenon
<1>1. Cardinality({}) = 0 /\ \A t : Cardinality({t}) = 1
  BY Zenon, FS_EmptySet, FS_Singleton
<1>2. ASSUME ~failed, NEW h \in Handles(streams)
      PROVE  Cardinality(CreationsOf(h)) = IF StateOf(streams, h) = "Creating" THEN 1 ELSE 0
  BY Zenon, <1>1, <1>2 DEF CInv, AnswersInv
<1>3. ASSUME ~failed
      PROVE  Cardinality(Connects) = IF current_state = "Connecting" THEN 1 ELSE 0
  BY Zenon, <1>1, <1>3 DEF CInv, AnswersInv
<1>4. ASSUME NEW t \in DOMAIN transactions, transactions[t].kind = "create"
      PROVE  Valid(streams, transactions[t].stream) \/ transactions[t].stream \in dead
  BY SMTT(20), <1>4, HandlesAreValid DEF CInv, TableInv, TransactionsInv
<1> QED BY Zenon, <1>2, <1>3, <1>4 DEF CreationsHaveTransactions, CreationsOf, Connects

\* What the invariant says of deleted handles.
LEMMA DeadHandles == CInv => ClientHandlesStayInvalid
BY SMTT(20) DEF CInv, TableInv, ClientHandlesStayInvalid, Spent, Valid

\* What the invariant says of the streams of the server.
LEMMA AllAccounted == CInv => NoStreamLeaked
BY Zenon DEF CInv, AnswersInv, NoStreamLeaked

\* The table of streams, the transactions that wait for an answer, and the streams the
\* server holds for this client fit together in every state of a client session.
THEOREM ClientInvHolds == Spec => []CInv
BY InitEstablishes, NextPreserves, PTL DEF Spec

\* The handle table of a client is exact: a stream has a wire id exactly when it
\* is no longer Creating, and the index finds it, so the expects in publishing_id
\* and in the status handler cannot fail.
THEOREM ClientStreamsConsistent == Spec => []StreamsConsistent
BY ClientInvHolds, ConsistentStreams, PTL

\* Each stream that is being created waits for exactly one answer, and an answer
\* that is late or repeated is never taken for another stream.
THEOREM ClientCreationsAnswered == Spec => []CreationsHaveTransactions
BY ClientInvHolds, AnsweredOnce, PTL

\* A handle of a deleted stream is refused for ever.
THEOREM ClientHandlesNeverRevived == Spec => []ClientHandlesStayInvalid
BY ClientInvHolds, DeadHandles, PTL

\* Whatever the peer has made for this client is in use or was deleted on the
\* wire, also when an answer arrives after its stream was cancelled.
THEOREM ClientLeaksNoStream == Spec => []NoStreamLeaked
BY ClientInvHolds, AllAccounted, PTL

-----------------------------------------------------------------------------
(* Silence about deleted streams.                                          *)

\* The output is not about a stream that was deleted before this step.
Current(o) == o.stream # NoHandle => o.stream \notin dead
CurrentOutputs(q) == \E P : q \in Seq(P) /\ \A o \in P : Current(o)
SaysNothingOld == \A o \in {written'} \cup {pending'[i] : i \in DOMAIN pending'} : Current(o)

\* Packets, events of the session and events of live streams are current.
LEMMA CurrentOnes ==
  ASSUME CInv
  PROVE  /\ Current(NoOutput)
         /\ \A what, wire : Current(Packet(what, wire))
         /\ \A what : Current(Event(what, NoHandle))
         /\ \A what : \A h \in Handles(streams) : Current(Event(what, h))
<1>1. \A h \in Handles(streams) : h \notin dead
  <2>1. \A h \in Handles(streams) : Valid(streams, h)
    BY Zenon, HandlesAreValid DEF CInv, TableInv
  <2> QED BY SMTT(20), <2>1 DEF CInv, TableInv, Spent, Valid
<1> QED BY Zenon, <1>1 DEF Current, Packet, Event, NoOutput

\* The sequences of them that the handlers make.
LEMMA CurrentTuples ==
  /\ CurrentOutputs(<< >>)
  /\ \A a : Current(a) => CurrentOutputs(<<a>>)
  /\ \A a, b : Current(a) /\ Current(b) => CurrentOutputs(<<a, b>>)
  /\ \A a, b, c : Current(a) /\ Current(b) /\ Current(c) => CurrentOutputs(<<a, b, c>>)
<1>1. ASSUME NEW P, NEW q \in Seq(P), \A o \in P : Current(o) PROVE CurrentOutputs(q)
  BY Zenon, <1>1 DEF CurrentOutputs
<1>2. CurrentOutputs(<< >>)
  <2>1. PICK P : P = {}
    BY Zenon
  <2>2. << >> \in Seq(P) /\ \A o \in P : Current(o)
    BY <2>1
  <2> QED BY Zenon, <1>1, <2>2
<1>3. ASSUME NEW a, Current(a) PROVE CurrentOutputs(<<a>>)
  <2>1. PICK P : P = {a}
    BY Zenon
  <2>2. <<a>> \in Seq(P) /\ \A o \in P : Current(o)
    BY <1>3, <2>1
  <2> QED BY Zenon, <1>1, <2>2
<1>4. ASSUME NEW a, NEW b, Current(a), Current(b) PROVE CurrentOutputs(<<a, b>>)
  <2>1. PICK P : P = {a, b}
    BY Zenon
  <2>2. <<a, b>> \in Seq(P) /\ \A o \in P : Current(o)
    BY <1>4, <2>1
  <2> QED BY Zenon, <1>1, <2>2
<1>5. ASSUME NEW a, NEW b, NEW c, Current(a), Current(b), Current(c)
      PROVE  CurrentOutputs(<<a, b, c>>)
  <2>1. PICK P : P = {a, b, c}
    BY Zenon
  <2>2. <<a, b, c>> \in Seq(P) /\ \A o \in P : Current(o)
    BY <1>5, <2>1
  <2> QED BY Zenon, <1>1, <2>2
<1> QED BY Zenon, <1>2, <1>3, <1>4, <1>5

\* A step that hands out and queues current outputs says nothing old.
LEMMA QueuedOnes ==
  ASSUME Current(written'), CurrentOutputs(pending')
  PROVE  SaysNothingOld
<1>1. PICK P : pending' \in Seq(P) /\ \A o \in P : Current(o)
  BY Zenon DEF CurrentOutputs
<1>2. \A i \in DOMAIN pending' : pending'[i] \in P
  BY <1>1
<1> QED BY Zenon, <1>1, <1>2 DEF SaysNothingOld

\* What receive says is current if its handler made current outputs.
LEMMA CurrentResponses ==
  ASSUME CInv, NEW made, NEW outs, CurrentOutputs(outs), RespondAfter(made, outs)
  PROVE  SaysNothingOld
<1>1. PICK ack \in BOOLEAN :
        LET all == IF ack THEN <<Packet("acknowledgement", NoWire)>> \o outs ELSE outs
        IN /\ written' = IF all = << >> THEN NoOutput ELSE Head(all)
           /\ pending' = IF all = << >> THEN << >> ELSE Tail(all)
  BY Zenon DEF RespondAfter
<1>2. PICK all : /\ all = IF ack THEN <<Packet("acknowledgement", NoWire)>> \o outs ELSE outs
                 /\ written' = IF all = << >> THEN NoOutput ELSE Head(all)
                 /\ pending' = IF all = << >> THEN << >> ELSE Tail(all)
  BY Zenon, <1>1
<1>3. PICK P : outs \in Seq(P) /\ \A o \in P : Current(o)
  BY Zenon DEF CurrentOutputs
<1>4. PICK a : a = Packet("acknowledgement", NoWire) /\ Current(a)
  BY Zenon, CurrentOnes
<1>5. PICK R : R = P \cup {a}
  BY Zenon
<1>6. all \in Seq(R) /\ \A o \in R : Current(o)
  <2>1. outs \in Seq(R) /\ <<a>> \in Seq(R)
    BY <1>3, <1>5
  <2>2. <<a>> \o outs \in Seq(R)
    BY <2>1
  <2> QED BY Zenon, <1>2, <1>3, <1>4, <1>5, <2>1, <2>2
<1>7. CASE all = << >>
  BY Zenon, <1>2, <1>7, CurrentOnes, CurrentTuples, QueuedOnes
<1>8. CASE all # << >>
  <2>1. Head(all) \in R /\ Tail(all) \in Seq(R)
    BY <1>6, <1>8
  <2>2. Current(written') /\ CurrentOutputs(pending')
    BY Zenon, <1>2, <1>6, <1>8, <2>1 DEF CurrentOutputs
  <2> QED BY Zenon, <2>2, QueuedOnes
<1> QED BY Zenon, <1>7, <1>8

\* The same for a call of the application.
LEMMA CurrentQueues ==
  ASSUME CInv, pending = << >>, NEW outs, CurrentOutputs(outs), Enqueue(outs)
  PROVE  SaysNothingOld
<1>1. PICK P : outs \in Seq(P) /\ \A o \in P : Current(o)
  BY Zenon DEF CurrentOutputs
<1>2. pending' = outs /\ written' = NoOutput
  BY <1>1 DEF Enqueue
<1> QED BY Zenon, <1>2, CurrentOnes, QueuedOnes

\* Every step that makes outputs makes current ones.
LEMMA StepSaysNothingOld == CInv /\ Next /\ pending = << >> => SaysNothingOld
<1> SUFFICES ASSUME CInv, Next, pending = << >> PROVE SaysNothingOld
  BY Zenon
<1>1. ASSUME NEW o, Current(o), Respond(<<o>>) PROVE SaysNothingOld
  BY Zenon, <1>1, CurrentTuples, CurrentResponses DEF Respond
<1>2. ASSUME Respond(<< >>) PROVE SaysNothingOld
  BY Zenon, <1>2, CurrentTuples, CurrentResponses DEF Respond
<1>3. ASSUME written' = NoOutput, pending' = << >> PROVE SaysNothingOld
  BY Zenon, <1>3, CurrentOnes, CurrentTuples, QueuedOnes
<1>4. ASSUME NEW wire, Known(streams, wire) PROVE find(streams, wire) \in Handles(streams)
  BY SMTT(20), <1>4, IndexedHandles DEF CInv, TableInv, Known
<1>5. CASE UnknownTransaction
  BY Zenon, <1>1, <1>5, CurrentOnes DEF UnknownTransaction
<1>6. CASE handle_failed_result
  <2>1. PICK t \in DOMAIN transactions :
          \/ Respond(<<Event("connectionRejected", NoHandle)>>)
          \/ Respond(<< >>)
          \/ /\ transactions[t].kind = "create" /\ Valid(streams, transactions[t].stream)
             /\ Respond(<<Event("requestRejected", transactions[t].stream)>>)
    BY SMTT(20), <1>6 DEF handle_failed_result
  <2>2. ASSUME transactions[t].kind = "create", Valid(streams, transactions[t].stream)
        PROVE  transactions[t].stream \in Handles(streams)
    <3>1. transactions[t].stream \in AllHandles
      BY SMTT(20), <2>2, HandlesAreValid DEF CInv, TableInv, TransactionsInv
    <3> QED BY SMTT(20), <2>2, <3>1, HandlesAreValid DEF CInv, TableInv
  <2> QED BY SMTT(20), <1>1, <1>2, <2>1, <2>2, CurrentOnes
<1>7. CASE connect_accepted
  <2>1. PICK a, b, c : /\ Respond(<<a, b, c>>)
                       /\ Current(a) /\ Current(b) /\ Current(c)
    BY Zenon, <1>7, CurrentOnes DEF connect_accepted
  <2> QED BY Zenon, <2>1, CurrentTuples, CurrentResponses DEF Respond
<1>8. CASE stream_created
  <2>1. PICK wire, purpose :
          \/ Fail
          \/ RespondAfter({wire}, <<Packet("deleteStream", wire)>>)
          \/ RespondAfter({wire}, StartPackets(purpose, wire))
    BY Zenon, <1>8 DEF stream_created
  <2>2. CurrentOutputs(<<Packet("deleteStream", wire)>>)
    BY Zenon, CurrentOnes, CurrentTuples
  <2>3. CurrentOutputs(StartPackets(purpose, wire))
    BY Zenon, CurrentOnes, CurrentTuples DEF StartPackets
  <2>4. CASE Fail
    BY Zenon, <1>3, <2>4 DEF Fail
  <2> QED BY Zenon, <2>1, <2>2, <2>3, <2>4, CurrentResponses
<1>9. CASE stream_number_missing \/ InvalidInput
  BY Zenon, <1>3, <1>9 DEF stream_number_missing, InvalidInput, Fail
<1>10. CASE handle_on_status_command
  <2>1. PICK wire, what :
          \/ Respond(<<Event("status", NoHandle)>>)
          \/ /\ Known(streams, wire)
             /\ \/ Respond(<<Event(what, find(streams, wire))>>)
                \/ Respond(<<Packet("deleteStream", wire), Event(what, find(streams, wire))>>)
    BY Zenon, <1>10 DEF handle_on_status_command
  <2>2. CASE Respond(<<Event("status", NoHandle)>>)
    BY Zenon, <1>1, <2>2, CurrentOnes
  <2>3. CASE Known(streams, wire) /\ Respond(<<Event(what, find(streams, wire))>>)
    BY Zenon, <1>1, <1>4, <2>3, CurrentOnes
  <2>4. CASE /\ Known(streams, wire)
             /\ Respond(<<Packet("deleteStream", wire), Event(what, find(streams, wire))>>)
    <3>1. PICK a, b : Respond(<<a, b>>) /\ Current(a) /\ Current(b)
      BY Zenon, <1>4, <2>4, CurrentOnes
    <3> QED BY Zenon, <3>1, CurrentTuples, CurrentResponses DEF Respond
  <2> QED BY Zenon, <2>1, <2>2, <2>3, <2>4
<1>11. CASE media_event
  BY Zenon, <1>1, <1>4, <1>11, CurrentOnes DEF media_event
<1>12. CASE handle_control
  BY Zenon, <1>1, <1>2, <1>12, CurrentOnes DEF handle_control
<1>13. CASE connect \/ play \/ publish
  <2>1. PICK o : Enqueue(<<o>>) /\ Current(o)
    BY Zenon, <1>13, CurrentOnes DEF connect, play, publish, create_stream
  <2> QED BY Zenon, <2>1, CurrentTuples, CurrentQueues
<1>14. CASE delete_stream
  <2>1. PICK h : Enqueue(DeletePackets(h))
    BY Zenon, <1>14 DEF delete_stream
  <2>2. CurrentOutputs(DeletePackets(h))
    BY Zenon, CurrentOnes, CurrentTuples DEF DeletePackets
  <2> QED BY Zenon, <2>1, <2>2, CurrentQueues
<1>15. CASE send_media \/ send_metadata \/ send_ping_request
  <2>1. PICK o : ReturnPacket(o) /\ Current(o)
    BY Zenon, <1>15, CurrentOnes DEF send_media, send_metadata, send_ping_request
  <2>2. written' = o /\ pending' = << >>
    BY Zenon, <2>1 DEF ReturnPacket
  <2> QED BY Zenon, <2>1, <2>2, CurrentTuples, QueuedOnes
<1>16. ~Drain
  BY Zenon DEF Drain
<1> QED BY Zenon, <1>5, <1>6, <1>7, <1>8, <1>9, <1>10, <1>11, <1>12, <1>13, <1>14, <1>15, <1>16
        DEF Next, Receive

\* Once a stream is deleted, no call that finds the queue empty reports anything
\* about it: what the application hears of a handle precedes its deletion.
THEOREM ClientSilentAfterDeletion == Spec => SilentAfterDeletion
<1>1. CInv /\ [Next]_client =>
        [~(pending # << >>) =>
           \A o \in {written'} \cup {pending'[i] : i \in DOMAIN pending'} :
             o.stream # NoHandle => o.stream \notin dead]_client
  BY Zenon, StepSaysNothingOld DEF SaysNothingOld, Current
<1> QED BY <1>1, ClientInvHolds, PTL DEF Spec, SilentAfterDeletion
=============================================================================
