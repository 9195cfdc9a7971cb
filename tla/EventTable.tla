---------------------------- MODULE EventTable -----------------------------
(***************************************************************************)
(* The SQLite table "events" (storage/sqlite_storage.cpp) as a set of rows *)
(* [id, event].  The id column is INTEGER PRIMARY KEY without              *)
(* AUTOINCREMENT: SQLite gives a new row the largest id in use plus one,   *)
(* so the id of a deleted row can be given out again.                      *)
(***************************************************************************)
EXTENDS Integers, FiniteSets

EventsIn(rows) == {r.event : r \in rows}
IdsIn(rows)    == {r.id : r \in rows}

\* id is the id SQLite gives the next row inserted.
IsNextId(rows, id) ==
  /\ \A r \in rows : r.id < id
  /\ id = 1 \/ \E r \in rows : r.id = id - 1

\* SELECT * FROM events ORDER BY id ASC LIMIT n
FirstRows(rows, n) ==
  {r \in rows : Cardinality({q \in rows : q.id < r.id}) < n}

\* Faulty variant of WithoutIds: ids off by one.
WithoutNextIds(rows, ids) == {r \in rows : r.id - 1 \notin ids}

\* DELETE FROM events WHERE id in (ids)
WithoutIds(rows, ids) == {r \in rows : r.id \notin ids}
=============================================================================
