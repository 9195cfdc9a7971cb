--------------------------- MODULE SqliteStorage ---------------------------
(***************************************************************************)
(* storage/sqlite_storage.cpp: SqliteStorage objects, each with its own    *)
(* connection to one database file, that keep the event queue and the      *)
(* current session.  m_db_access makes every method one action.  Errors    *)
(* are logged and not reported, so a caller cannot tell them from success. *)
(*                                                                         *)
(* A caller of the store is an emitter: it deletes ids of the rows it has  *)
(* read last (held).  fault says that the database cannot be written just  *)
(* now (another connection has the lock, the disk is full) and that a      *)
(* SELECT may break off.                                                   *)
(***************************************************************************)
EXTENDS EventTable, Sequences

CONSTANTS Conn,       \* the SqliteStorage objects
          Event,      \* the payloads, told apart by their event id
          RowId,      \* the ids of the events table
          Session,    \* the session documents
          BatchSize   \* the number_to_get of the emitters

CONSTANT NoSession    \* the sessions table is empty

ASSUME StorageAssumption ==
  /\ RowId \subseteq Nat \ {0}
  /\ BatchSize \in Nat
  /\ NoSession \notin Session

VARIABLES rows,       \* the events table
          session,    \* the sessions table: its row with id 1
          open,       \* the objects that are constructed
          add_stmt,   \* m_add_stmt: "ready", or "stepped" and not reset
          held,       \* the rows each caller read last and has not deleted from
          fault,
          added,      \* history: the events stored, in their order
          overtaken,  \* history: the callers that hold a row which another
                      \* call has deleted since they read it
          failed,     \* history: the objects that have seen a failed insert
          dropped     \* history: the events not stored, and whether the
                      \* database had a fault and the object a failed insert

vars == <<rows, session, open, add_stmt, held, fault, added, overtaken, failed, dropped>>

Row == [id : RowId, event : Event]

Init ==
  /\ rows = {} /\ session = NoSession
  /\ open = {}
  /\ add_stmt = [c \in Conn |-> "ready"]
  /\ held = [c \in Conn |-> {}]
  /\ fault = FALSE
  /\ added = <<>>
  /\ overtaken = {}
  /\ failed = {} /\ dropped = {}

\* The constructor.  Once the tables are there it writes nothing, so a fault
\* need not stop it; one that throws changes nothing.
Open(c) ==
  /\ c \notin open
  /\ open' = open \cup {c}
  /\ add_stmt' = [add_stmt EXCEPT ![c] = "ready"]
  /\ failed' = failed \ {c}
  /\ UNCHANGED <<rows, session, held, fault, added, overtaken, dropped>>

\* The destructor.
Close(c) ==
  /\ c \in open
  /\ open' = open \ {c}
  /\ held' = [held EXCEPT ![c] = {}]
  /\ overtaken' = overtaken \ {c}
  /\ UNCHANGED <<rows, session, add_stmt, fault, added, failed, dropped>>

\* Faulty variant of Insert: the lowest free id is given out.
InsertInGap(e) ==
  /\ \E id \in RowId :
       /\ id \notin IdsIn(rows)
       /\ \A i \in RowId : i < id => i \in IdsIn(rows)
       /\ rows' = rows \cup {[id |-> id, event |-> e]}
  /\ added' = Append(added, e)

Insert(e) ==
  /\ \E id \in RowId : IsNextId(rows, id) /\ rows' = rows \cup {[id |-> id, event |-> e]}
  /\ added' = Append(added, e)

New(e) == /\ \A i \in DOMAIN added : added[i] # e
          /\ \A d \in dropped : d.event # e

Drop(c, e) ==
  /\ dropped' = dropped \cup {[event |-> e, fault |-> fault, failed |-> c \in failed]}
  /\ failed' = failed \cup {c}

\* Faulty variant of AddEvent: the statement is never reset.
AddWithoutReset(c, e) ==
  /\ c \in open
  /\ New(e)
  /\ add_stmt' = [add_stmt EXCEPT ![c] = "stepped"]
  /\ IF add_stmt[c] = "ready" /\ ~fault
     THEN Insert(e) /\ UNCHANGED <<failed, dropped>>
     ELSE Drop(c, e) /\ UNCHANGED <<rows, added>>
  /\ UNCHANGED <<session, open, held, fault, overtaken>>

\* add_event.  sqlite3_bind_text refuses a statement that has been stepped and
\* not reset, and a failed sqlite3_step returns before sqlite3_reset.
AddEvent(c, e) ==
  /\ c \in open
  /\ New(e)
  /\ IF add_stmt[c] = "ready" /\ ~fault
     THEN Insert(e) /\ UNCHANGED <<add_stmt, failed, dropped>>
     ELSE /\ Drop(c, e)
          /\ add_stmt' = [add_stmt EXCEPT ![c] = "stepped"]
          /\ UNCHANGED <<rows, added>>
  /\ UNCHANGED <<session, open, held, fault, overtaken>>

\* get_event_rows_batch: the first rows by id; a SELECT that breaks off
\* leaves those it had got to.
GetEventRowsBatch(c) ==
  /\ c \in open
  /\ \E n \in (IF fault THEN 0..BatchSize ELSE {BatchSize}) :
       held' = [held EXCEPT ![c] = FirstRows(rows, n)]
  /\ overtaken' = overtaken \ {c}
  /\ UNCHANGED <<rows, session, open, add_stmt, fault, added, failed, dropped>>

\* The callers who hold a row that this step deletes.
Overtaken == {c \in Conn : held[c] \cap (rows \ rows') # {}}

\* delete_event_rows_with_ids, with some of the ids the caller has read.
DeleteEventRowsWithIds(c, ids) ==
  /\ c \in open
  /\ rows' = IF fault THEN rows ELSE WithoutIds(rows, ids)
  /\ held' = [held EXCEPT ![c] = {}]
  /\ overtaken' = (overtaken \cup Overtaken) \ {c}
  /\ UNCHANGED <<session, open, add_stmt, fault, added, failed, dropped>>

\* delete_all_event_rows, whoever holds rows.
DeleteAllEventRows(c) ==
  /\ c \in open
  /\ rows' = IF fault THEN rows ELSE {}
  /\ overtaken' = overtaken \cup Overtaken
  /\ UNCHANGED <<session, open, add_stmt, held, fault, added, failed, dropped>>

\* set_session: INSERT OR REPLACE of the row with id 1.
SetSession(c, s) ==
  /\ c \in open
  /\ session' = IF fault THEN session ELSE s
  /\ UNCHANGED <<rows, open, add_stmt, held, fault, added, overtaken, failed, dropped>>

DeleteSession(c) ==
  /\ c \in open
  /\ session' = IF fault THEN session ELSE NoSession
  /\ UNCHANGED <<rows, open, add_stmt, held, fault, added, overtaken, failed, dropped>>

\* The lock is taken or released, the disk fills up or is cleared.
Fault ==
  /\ fault' = ~fault
  /\ UNCHANGED <<rows, session, open, add_stmt, held, added, overtaken, failed, dropped>>

\* The process dies: every statement that committed is in the file.
Crash ==
  /\ open' = {}
  /\ held' = [c \in Conn |-> {}]
  /\ overtaken' = {}
  /\ UNCHANGED <<rows, session, add_stmt, fault, added, failed, dropped>>

Next ==
  \/ \E c \in Conn :
       \/ Open(c) \/ Close(c)
       \/ \E e \in Event : AddEvent(c, e)
       \/ GetEventRowsBatch(c)
       \/ \E ids \in SUBSET IdsIn(held[c]) : DeleteEventRowsWithIds(c, ids)
       \/ DeleteAllEventRows(c)
       \/ \E s \in Session : SetSession(c, s)
       \/ DeleteSession(c)
  \/ Fault
  \/ Crash

Spec == Init /\ [][Next]_vars

(***************************************************************************)
(* Properties                                                              *)
(***************************************************************************)
\* The table is a queue: ids follow the order in which the events were added,
\* although the ids of deleted rows come back, so ORDER BY id takes the oldest.
IdsFollowInsertion ==
  \A r, q \in rows : r.id < q.id =>
    \E i, j \in DOMAIN added : i < j /\ added[i] = r.event /\ added[j] = q.event

\* add_event drops an event only while the database cannot be written, or on
\* an object whose insert has failed before.
DropsOnlyAfterFailure == \A d \in dropped : d.fault \/ d.failed

\* "Events are ... removed when they are successfuly emitted or when emitting
\* fails without any scheduled retries" (docs/05-emitters.md): what an
\* emitter's delete removes are rows it has read, although events are added
\* between the two and ids come back.  The exception is a caller one of whose
\* rows another call has deleted meanwhile: its id may name another event now.
DeletesWhatWasRead ==
  [][\A c \in Conn \ overtaken : \A ids \in SUBSET IdsIn(held[c]) :
       DeleteEventRowsWithIds(c, ids) => rows \ rows' \subseteq held[c]]_vars
=============================================================================
