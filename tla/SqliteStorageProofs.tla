------------------------ MODULE SqliteStorageProofs ------------------------
(***************************************************************************)
(* Theorems about SqliteStorage, for any number of connections, events,    *)
(* ids and sessions and every batch size.                                  *)
(***************************************************************************)
EXTENDS SqliteStorage, TLAPS

(***************************************************************************)
(* The table is a queue                                                    *)
(***************************************************************************)
\* Ids are unique, and every row's event has been added.
QueueInv ==
  /\ rows \subseteq Row /\ added \in Seq(Event)
  /\ \A r, q \in rows : r.id = q.id => r = q
  /\ \A r \in rows : \E i \in DOMAIN added : added[i] = r.event
  /\ IdsFollowInsertion

\* An insertion adds the row at the end: its id is beyond those in use.
LEMMA QueueInsert ==
  ASSUME QueueInv, NEW e \in Event, Insert(e)
  PROVE  QueueInv'
<1> PICK id \in RowId : IsNextId(rows, id) /\ rows' = rows \cup {[id |-> id, event |-> e]}
  BY DEF Insert
<1> DEFINE row == [id |-> id, event |-> e]
<1>1. row \in Row /\ row.id = id /\ row.event = e
  BY DEF Row
<1>2. id \in Int /\ \A r \in rows : r.id \in Int /\ r.id < id
  <2>1. RowId \subseteq Int
    BY StorageAssumption DEF StorageAssumption
  <2>2. \A r \in rows : r.id \in RowId
    BY DEF QueueInv, Row
  <2>3. \A r \in rows : r.id < id
    BY DEF IsNextId
  <2> QED BY <2>1, <2>2, <2>3
<1>3. added \in Seq(Event) /\ added' = Append(added, e)
  BY DEF Insert, QueueInv
<1>4. /\ added' \in Seq(Event)
      /\ \A i \in DOMAIN added : i \in DOMAIN added' /\ added'[i] = added[i] /\ i < Len(added) + 1
      /\ Len(added) + 1 \in DOMAIN added' /\ added'[Len(added) + 1] = e
  BY <1>3
<1>5. rows' = rows \cup {row}
  OBVIOUS
<1> HIDE DEF row
<1>6. rows' \subseteq Row /\ \A r, q \in rows' : r.id = q.id => r = q
  BY <1>1, <1>2, <1>5 DEF QueueInv
<1>7. \A r \in rows' : \E i \in DOMAIN added' : added'[i] = r.event
  BY <1>1, <1>4, <1>5 DEF QueueInv
<1>8. ASSUME NEW r \in rows', NEW q \in rows', r.id < q.id
      PROVE  \E i, j \in DOMAIN added' : i < j /\ added'[i] = r.event /\ added'[j] = q.event
  <2>1. r \in rows
    <3>1. r # row
      BY <1>1, <1>2, <1>5, <1>8
    <3> QED BY <1>5, <3>1
  <2>2. CASE q \in rows
    <3> PICK i \in DOMAIN added, j \in DOMAIN added :
               i < j /\ added[i] = r.event /\ added[j] = q.event
      BY <1>8, <2>1, <2>2 DEF QueueInv, IdsFollowInsertion
    <3> QED BY <1>4
  <2>3. CASE q = row
    <3> PICK i \in DOMAIN added : added[i] = r.event
      BY <2>1 DEF QueueInv
    <3> QED BY <1>1, <1>4, <2>3
  <2> QED BY <1>5, <2>2, <2>3
<1> QED BY <1>4, <1>6, <1>7, <1>8 DEF QueueInv, IdsFollowInsertion

\* Every other step leaves some of the rows.
LEMMA QueueShrinks ==
  ASSUME QueueInv, rows' \subseteq rows, added' = added
  PROVE  QueueInv'
BY DEF QueueInv, IdsFollowInsertion

LEMMA QueueStep == QueueInv /\ [Next]_vars => QueueInv'
<1> SUFFICES ASSUME QueueInv, [Next]_vars PROVE QueueInv'
  OBVIOUS
<1>1. ASSUME NEW c \in Conn, NEW e \in Event, AddEvent(c, e)
      PROVE  QueueInv'
  BY <1>1, QueueInsert, QueueShrinks DEF AddEvent
<1>2. ASSUME NEW c \in Conn, NEW ids, DeleteEventRowsWithIds(c, ids)
      PROVE  QueueInv'
  BY <1>2, QueueShrinks DEF DeleteEventRowsWithIds, WithoutIds
<1>3. ASSUME NEW c \in Conn, DeleteAllEventRows(c)
      PROVE  QueueInv'
  BY <1>3, QueueShrinks DEF DeleteAllEventRows
<1>4. ASSUME NEW c \in Conn,
             \/ Open(c) \/ Close(c) \/ GetEventRowsBatch(c)
             \/ \E s \in Session : SetSession(c, s)
             \/ DeleteSession(c)
      PROVE  QueueInv'
  BY <1>4, QueueShrinks DEF Open, Close, GetEventRowsBatch, SetSession, DeleteSession
<1>5. CASE Fault \/ Crash \/ UNCHANGED vars
  BY <1>5, QueueShrinks DEF Fault, Crash, vars
<1> QED BY <1>1, <1>2, <1>3, <1>4, <1>5 DEF Next

\* ORDER BY id takes the oldest events, although ids come back.
THEOREM IdsOrderEvents == Spec => []IdsFollowInsertion
<1>1. Init => QueueInv
  BY DEF Init, QueueInv, IdsFollowInsertion
<1>2. QueueInv => IdsFollowInsertion
  BY DEF QueueInv
<1> QED BY <1>1, <1>2, QueueStep, PTL DEF Spec

(***************************************************************************)
(* What is dropped                                                         *)
(***************************************************************************)
\* A statement that was not reset belongs to an object whose insert has failed.
DropInv ==
  /\ add_stmt \in [Conn -> {"ready", "stepped"}]
  /\ \A c \in open : add_stmt[c] = "stepped" => c \in failed
  /\ DropsOnlyAfterFailure

LEMMA DropAdd ==
  ASSUME DropInv, NEW c \in Conn, NEW e \in Event, AddEvent(c, e)
  PROVE  DropInv'
<1>1. CASE add_stmt[c] = "ready" /\ ~fault
  BY <1>1 DEF AddEvent, DropInv, DropsOnlyAfterFailure
<1>2. CASE ~(add_stmt[c] = "ready" /\ ~fault)
  <2>1. Drop(c, e) /\ add_stmt' = [add_stmt EXCEPT ![c] = "stepped"] /\ open' = open /\ c \in open
    BY <1>2 DEF AddEvent
  <2>2. fault \/ c \in failed
    BY <1>2, <2>1 DEF DropInv
  <2>3. \A d \in dropped' : d \in dropped \/ (d.fault = fault /\ d.failed = (c \in failed))
    BY <2>1 DEF Drop
  <2>4. DropsOnlyAfterFailure'
    BY <2>2, <2>3, Zenon DEF DropInv, DropsOnlyAfterFailure
  <2> QED BY <2>1, <2>4 DEF DropInv, Drop
<1> QED BY <1>1, <1>2

LEMMA DropStep == DropInv /\ [Next]_vars => DropInv'
<1> SUFFICES ASSUME DropInv, [Next]_vars PROVE DropInv'
  OBVIOUS
<1> USE DEF DropInv, DropsOnlyAfterFailure
<1>1. ASSUME NEW c \in Conn, NEW e \in Event, AddEvent(c, e)
      PROVE  DropInv'
  BY <1>1, DropAdd
<1>2. ASSUME NEW c \in Conn, Open(c)
      PROVE  DropInv'
  <2>1. /\ open' = open \cup {c} /\ failed' = failed \ {c} /\ dropped' = dropped
        /\ add_stmt' = [add_stmt EXCEPT ![c] = "ready"]
    BY <1>2 DEF Open
  <2>2. add_stmt' \in [Conn -> {"ready", "stepped"}]
    BY <2>1
  <2>3. ASSUME NEW d \in open', add_stmt'[d] = "stepped"
        PROVE  d \in failed'
    <3>1. d # c
      BY <2>1, <2>3
    <3> QED BY <2>1, <2>3, <3>1
  <2> QED BY <2>1, <2>2, <2>3, Zenon
<1>3. ASSUME NEW c \in Conn,
             \/ Close(c)
             \/ GetEventRowsBatch(c)
             \/ \E ids \in SUBSET IdsIn(held[c]) : DeleteEventRowsWithIds(c, ids)
             \/ DeleteAllEventRows(c)
             \/ \E s \in Session : SetSession(c, s)
             \/ DeleteSession(c)
      PROVE  DropInv'
  BY <1>3 DEF Close, GetEventRowsBatch, DeleteEventRowsWithIds, DeleteAllEventRows,
              SetSession, DeleteSession
<1>4. CASE Fault \/ Crash \/ UNCHANGED vars
  BY <1>4 DEF Fault, Crash, vars
<1> QED BY <1>1, <1>2, <1>3, <1>4 DEF Next

\* An event is dropped only while the database cannot be written, or by an
\* object one of whose inserts has failed.
THEOREM DropsAreExplained == Spec => []DropsOnlyAfterFailure
<1>1. Init => DropInv
  BY DEF Init, DropInv, DropsOnlyAfterFailure
<1>2. DropInv => DropsOnlyAfterFailure
  BY DEF DropInv
<1> QED BY <1>1, <1>2, DropStep, PTL DEF Spec

(***************************************************************************)
(* What is deleted                                                         *)
(***************************************************************************)
\* What a caller holds is in the table, unless another call has deleted some
\* of it.
HeldInv ==
  /\ held \in [Conn -> SUBSET Row]
  /\ \A c \in Conn : c \notin overtaken => held[c] \subseteq rows

\* A deletion overtakes whoever holds what it deletes.
LEMMA HeldDelete ==
  ASSUME HeldInv, rows' \subseteq rows, NEW C \in SUBSET Conn,
         held' = [c \in Conn |-> IF c \in C THEN {} ELSE held[c]],
         overtaken' = (overtaken \cup Overtaken) \ C
  PROVE  HeldInv'
<1>1. held' \in [Conn -> SUBSET Row]
  BY DEF HeldInv
<1>2. ASSUME NEW c \in Conn, c \notin overtaken'
      PROVE  held'[c] \subseteq rows'
  <2>1. CASE c \in C
    BY <2>1
  <2>2. CASE c \notin C
    <3>1. held'[c] = held[c] /\ c \notin overtaken /\ c \notin Overtaken
      BY <1>2, <2>2
    <3>2. held[c] \cap (rows \ rows') = {} /\ held[c] \subseteq rows
      BY <3>1 DEF Overtaken, HeldInv
    <3> QED BY <3>1, <3>2
  <2> QED BY <2>1, <2>2
<1> QED BY <1>1, <1>2 DEF HeldInv

LEMMA HeldStep == QueueInv /\ HeldInv /\ [Next]_vars => HeldInv'
<1> SUFFICES ASSUME QueueInv, HeldInv, [Next]_vars PROVE HeldInv'
  OBVIOUS
<1>1. ASSUME NEW c \in Conn, NEW e \in Event, AddEvent(c, e)
      PROVE  HeldInv'
  BY <1>1 DEF AddEvent, Insert, HeldInv
<1>2. ASSUME NEW c \in Conn, NEW ids, DeleteEventRowsWithIds(c, ids)
      PROVE  HeldInv'
  <2>1. rows' \subseteq rows /\ overtaken' = (overtaken \cup Overtaken) \ {c}
    BY <1>2 DEF DeleteEventRowsWithIds, WithoutIds
  <2>2. held' = [d \in Conn |-> IF d \in {c} THEN {} ELSE held[d]]
    BY <1>2 DEF DeleteEventRowsWithIds, HeldInv
  <2> QED BY <2>1, <2>2, HeldDelete
<1>3. ASSUME NEW c \in Conn, DeleteAllEventRows(c)
      PROVE  HeldInv'
  <2>1. rows' \subseteq rows /\ overtaken' = (overtaken \cup Overtaken) \ {}
    BY <1>3 DEF DeleteAllEventRows
  <2>2. held' = [d \in Conn |-> IF d \in {} THEN {} ELSE held[d]]
    BY <1>3 DEF DeleteAllEventRows, HeldInv
  <2> QED BY <2>1, <2>2, HeldDelete
<1>4. ASSUME NEW c \in Conn, GetEventRowsBatch(c)
      PROVE  HeldInv'
  BY <1>4 DEF GetEventRowsBatch, FirstRows, QueueInv, HeldInv
<1>5. ASSUME NEW c \in Conn,
             Open(c) \/ Close(c) \/ (\E s \in Session : SetSession(c, s)) \/ DeleteSession(c)
      PROVE  HeldInv'
  BY <1>5 DEF Open, Close, SetSession, DeleteSession, HeldInv
<1>6. CASE Fault \/ Crash \/ UNCHANGED vars
  BY <1>6 DEF Fault, Crash, vars, HeldInv
<1> QED BY <1>1, <1>2, <1>3, <1>4, <1>5, <1>6 DEF Next

\* A deletion by ids removes rows the caller has read, and none that was given
\* one of their ids since, for any number of objects on the file, unless
\* another call has deleted a row the caller holds.
THEOREM DeletionsAreOfRowsRead == Spec => DeletesWhatWasRead
<1>1. Init => QueueInv /\ HeldInv
  BY DEF Init, QueueInv, IdsFollowInsertion, HeldInv
<1>2. QueueInv /\ HeldInv /\ [Next]_vars =>
        [\A c \in Conn \ overtaken : \A ids \in SUBSET IdsIn(held[c]) :
           DeleteEventRowsWithIds(c, ids) => rows \ rows' \subseteq held[c]]_vars
  <2> SUFFICES ASSUME QueueInv, HeldInv, NEW c \in Conn \ overtaken,
                      NEW ids \in SUBSET IdsIn(held[c]),
                      DeleteEventRowsWithIds(c, ids), NEW r \in rows \ rows'
               PROVE  r \in held[c]
    OBVIOUS
  <2>1. r.id \in ids
    BY DEF DeleteEventRowsWithIds, WithoutIds
  <2>2. PICK q \in held[c] : q.id = r.id
    BY <2>1 DEF IdsIn
  <2> QED BY <2>2 DEF QueueInv, HeldInv
<1> QED BY <1>1, <1>2, QueueStep, HeldStep, PTL DEF Spec, DeletesWhatWasRead
=============================================================================
