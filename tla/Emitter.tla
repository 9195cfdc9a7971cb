------------------------------ MODULE Emitter ------------------------------
(***************************************************************************)
(* The emitter (emitter/emitter.cpp): the application threads that call    *)
(* start, stop, add, flush and the setters, the daemon thread that drains  *)
(* the event store in batches, the request threads, the detached callback  *)
(* threads, and the event store that outlives the process.                 *)
(*                                                                         *)
(* Locks.  A section under m_run_check is one action, since nothing it     *)
(* reads or writes is used without that lock except the two atomic flags.  *)
(* m_db_select is held by the daemon exactly while dpc = "block", and      *)
(* m_flush_fin by t exactly while pc[t] = "flush_block": the step from     *)
(* having tested a condition to waiting for it, which is where a wake-up   *)
(* can be missed.  The threads waiting on m_check_db and m_check_fin are   *)
(* the daemon in "wait" and the threads in "flush_wait"; notify_all moves  *)
(* them on, and a notify_all that finds nobody there has no effect.        *)
(***************************************************************************)
EXTENDS HttpClient, EventTable, SendPlan

CONSTANTS Thread,          \* the application's threads
          Ops,             \* Ops[t]: the operations thread t calls
          Event,           \* the events to track
          RowId,           \* the ids of the events table
          TooLarge,        \* events that exceed the byte limit by themselves
          Method,          \* "GET" or "POST"
          BatchSize,       \* m_batch_size
          HasFlushTimeout, \* m_flush_timeout_ms > 0
          CallbackStatus,  \* m_callback_emit_status at construction, as a set
          CustomRetry,     \* m_custom_retry_for_status_codes at construction
          MaxStarts,       \* bound: the daemon is started at most this often
          StorageFaults,   \* whether SQLite calls may fail
          CanCrash         \* whether the process may die and be run again

Operations == {"start", "stop", "add", "flush", "configure"}
Statuses   == {"SUCCESS", "FAILED_WILL_RETRY", "FAILED_WONT_RETRY"}
CustomRetries == UNION {[D -> BOOLEAN] : D \in SUBSET (StatusCode \cap 300..599)}

ASSUME EmitterAssumption ==
  /\ Ops \in [Thread -> SUBSET Operations]
  /\ RowId \subseteq Nat \ {0}
  /\ TooLarge \subseteq Event
  /\ Method \in {"GET", "POST"}
  /\ BatchSize \in Nat
  /\ HasFlushTimeout \in BOOLEAN
  /\ CallbackStatus \subseteq Statuses
  /\ CustomRetry \in CustomRetries
  /\ MaxStarts \in Nat
  /\ StorageFaults \in BOOLEAN
  /\ CanCrash \in BOOLEAN

VARIABLES
  starts,             \* how often the daemon was started in this process
  pc,                 \* pc[t]: where thread t is
  m_running, m_stop_requested, m_flush_done,
  m_callback,         \* the emit statuses the callback is called for
  m_custom_retry,
  dpc,                \* where the daemon is; "none": no thread to join
  batch,              \* event_rows
  request_futures,    \* requests not answered yet
  results,            \* requests answered
  delete_row_ids, failed_will_retry_row_ids,
  sleep_for,          \* which of its two waits the daemon is in
  callbacks,          \* detached callback threads that have not run yet
  rows,               \* the events table
  stored, accepted, refused, \* history: see EventQueue
  settled             \* history: events this process has classified as done

flags   == <<m_running, m_stop_requested, m_flush_done>>
config  == <<m_callback, m_custom_retry>>
daemon  == <<dpc, batch, request_futures, results, delete_row_ids,
             failed_will_retry_row_ids, sleep_for>>
history == <<stored, accepted, refused, settled>>
vars    == <<starts, pc, flags, config, daemon, callbacks, rows, history>>

Row      == [id : RowId, event : Event]
Request  == [rows : SUBSET Row, is_oversize : BOOLEAN]
Queued   == EventsIn(rows)

FlushPcs == {"flush_reset", "flush_notify", "flush_pred", "flush_block", "flush_wait"}
StopPcs  == {"stop_handshake", "stop_notify", "stop_join", "stop_fin"}
ThreadPcs == {"idle", "add_notify", "stop", "terminated"} \cup FlushPcs \cup StopPcs
DaemonPcs == {"none", "read", "send", "gather", "delete", "sleep", "block", "wait",
              "signal", "notify", "loop", "exited", "terminated"}

\* t has cleared m_running and not yet joined the daemon.
Stopping(t) == pc[t] \in {"stop_handshake", "stop_notify", "stop_join"}

\* std::terminate has been called: no thread of the process runs any more.
Terminated == dpc = "terminated"

(***************************************************************************)
(* do_send: which requests a batch is sent as                              *)
(***************************************************************************)
LargeRows(b) == {r \in b : r.event \in TooLarge}

SendPlans(b) ==
  IF Method = "GET" THEN {GetPlan(b, LargeRows(b))}
  ELSE {PostPlan(b, LargeRows(b), heads) : heads \in SUBSET b}

(***************************************************************************)
(* The emitter as its constructor leaves it, on an empty database          *)
(***************************************************************************)
Init ==
  /\ starts = 0
  /\ pc = [t \in Thread |-> "idle"]
  /\ m_running = FALSE /\ m_stop_requested = FALSE /\ m_flush_done = FALSE
  /\ m_callback = CallbackStatus
  /\ m_custom_retry = CustomRetry
  /\ dpc = "none"
  /\ batch = {} /\ request_futures = {} /\ results = {}
  /\ delete_row_ids = {} /\ failed_will_retry_row_ids = {}
  /\ sleep_for = "idle"
  /\ callbacks = {}
  /\ rows = {}
  /\ stored = {} /\ accepted = {} /\ refused = {} /\ settled = {}

(***************************************************************************)
(* Waking up                                                               *)
(***************************************************************************)
\* m_check_db.notify_all(): the daemon, if it waits, goes on to is_running().
NotifyDb == dpc' = IF dpc = "wait" THEN "loop" ELSE dpc

\* m_check_fin.notify_all(): the waiting flush() calls test their condition
\* again; q is the pc function to update.
NotifyFin(q) == [t \in Thread |-> IF q[t] = "flush_wait" THEN "flush_pred" ELSE q[t]]

Goto(t, l) == pc' = [pc EXCEPT ![t] = l]
At(t, l)   == pc[t] = l
Calls(t, op) == pc[t] = "idle" /\ op \in Ops[t]

(***************************************************************************)
(* start()                                                                 *)
(***************************************************************************)
\* Assigning a new thread to m_daemon_thread while the old one has not been
\* joined calls std::terminate.
Start(t) ==
  /\ Calls(t, "start")
  /\ starts < MaxStarts
  /\ ~m_running
  /\ starts' = starts + 1
  /\ m_stop_requested' = FALSE
  /\ m_flush_done' = FALSE
  /\ m_running' = TRUE
  /\ IF dpc = "none"
     THEN dpc' = "read" /\ UNCHANGED <<pc, callbacks>>
     ELSE /\ dpc' = "terminated"
          /\ pc' = [u \in Thread |-> "terminated"]
          /\ callbacks' = {}
  /\ UNCHANGED <<config, batch, request_futures, results, delete_row_ids,
                 failed_will_retry_row_ids, sleep_for, rows, history>>

(***************************************************************************)
(* stop(), called by itself or as the last line of flush()                 *)
(***************************************************************************)
\* Faulty variant: stop() leaves the daemon to exit by itself.
StopWithoutJoin(t) ==
  /\ m_running
  /\ m_running' = FALSE
  /\ m_stop_requested' = TRUE
  /\ Goto(t, "idle")
  /\ UNCHANGED <<starts, m_flush_done, config, daemon, callbacks, rows, history>>

StopBegin(t) ==
  /\ IF m_running
     THEN /\ m_running' = FALSE
          /\ m_stop_requested' = TRUE
          /\ Goto(t, "stop_handshake")
     ELSE /\ Goto(t, "idle")
          /\ UNCHANGED <<m_running, m_stop_requested>>
  /\ UNCHANGED <<starts, m_flush_done, config, daemon, callbacks, rows, history>>

Stop(t)      == Calls(t, "stop") /\ StopBegin(t)
FlushStop(t) == At(t, "stop") /\ StopBegin(t)

\* Faulty variant: stop() does not take m_db_select before it notifies.
StopWithoutHandshake(t) ==
  /\ At(t, "stop_handshake")
  /\ Goto(t, "stop_notify")
  /\ UNCHANGED <<starts, flags, config, daemon, callbacks, rows, history>>

\* { unique_lock<mutex> db_locker(this->m_db_select); }
StopHandshake(t) ==
  /\ At(t, "stop_handshake")
  /\ dpc # "block"
  /\ Goto(t, "stop_notify")
  /\ UNCHANGED <<starts, flags, config, daemon, callbacks, rows, history>>

StopNotify(t) ==
  /\ At(t, "stop_notify")
  /\ NotifyDb
  /\ Goto(t, "stop_join")
  /\ UNCHANGED <<starts, flags, config, batch, request_futures, results,
                 delete_row_ids, failed_will_retry_row_ids, sleep_for,
                 callbacks, rows, history>>

StopJoin(t) ==
  /\ At(t, "stop_join")
  /\ dpc = "exited"
  /\ dpc' = "none"
  /\ Goto(t, "stop_fin")
  /\ UNCHANGED <<starts, flags, config, batch, request_futures, results,
                 delete_row_ids, failed_will_retry_row_ids, sleep_for,
                 callbacks, rows, history>>

StopFin(t) ==
  /\ At(t, "stop_fin")
  /\ pc' = NotifyFin([pc EXCEPT ![t] = "idle"])
  /\ UNCHANGED <<starts, flags, config, daemon, callbacks, rows, history>>

(***************************************************************************)
(* add(): the tracker's track() ends here.  A failed insert is only        *)
(* logged; SqliteStorage models when it fails.                             *)
(***************************************************************************)
\* Faulty variant of Insert: the oldest event makes room for the new one.
InsertEvicting(e) ==
  /\ \E id \in RowId : /\ IsNextId(rows, id)
                      /\ rows' = (rows \ FirstRows(rows, 1)) \cup {[id |-> id, event |-> e]}
  /\ stored' = stored \cup {e}

Insert(e) ==
  /\ \E id \in RowId : IsNextId(rows, id) /\ rows' = rows \cup {[id |-> id, event |-> e]}
  /\ stored' = stored \cup {e}

AddStore(t, e) ==
  /\ Calls(t, "add")
  /\ e \notin stored
  /\ Insert(e) \/ (StorageFaults /\ UNCHANGED <<rows, stored>>)
  /\ Goto(t, "add_notify")
  /\ UNCHANGED <<starts, flags, config, daemon, callbacks,
                 accepted, refused, settled>>

AddNotify(t) ==
  /\ At(t, "add_notify")
  /\ NotifyDb
  /\ Goto(t, "idle")
  /\ UNCHANGED <<starts, flags, config, batch, request_futures, results,
                 delete_row_ids, failed_will_retry_row_ids, sleep_for,
                 callbacks, rows, history>>

(***************************************************************************)
(* flush()                                                                 *)
(***************************************************************************)
FlushBegin(t) ==
  /\ Calls(t, "flush")
  /\ m_running
  /\ Goto(t, "flush_reset")
  /\ UNCHANGED <<starts, flags, config, daemon, callbacks, rows, history>>

FlushReset(t) ==
  /\ At(t, "flush_reset")
  /\ m_flush_done' = FALSE
  /\ Goto(t, "flush_notify")
  /\ UNCHANGED <<starts, m_running, m_stop_requested, config, daemon,
                 callbacks, rows, history>>

FlushNotify(t) ==
  /\ At(t, "flush_notify")
  /\ NotifyDb
  /\ Goto(t, "flush_pred")
  /\ UNCHANGED <<starts, flags, config, batch, request_futures, results,
                 delete_row_ids, failed_will_retry_row_ids, sleep_for,
                 callbacks, rows, history>>

\* Take m_flush_fin (on the first pass, or on being woken) and test.
FlushPred(t) ==
  /\ At(t, "flush_pred")
  /\ \A u \in Thread : ~At(u, "flush_block")
  /\ Goto(t, IF m_flush_done \/ m_stop_requested THEN "stop" ELSE "flush_block")
  /\ UNCHANGED <<starts, flags, config, daemon, callbacks, rows, history>>

FlushBlock(t) ==
  /\ At(t, "flush_block")
  /\ Goto(t, "flush_wait")
  /\ UNCHANGED <<starts, flags, config, daemon, callbacks, rows, history>>

\* Faulty variant: an expired wait is begun again.
FlushTimeoutRetests(t) ==
  /\ At(t, "flush_wait")
  /\ HasFlushTimeout
  /\ Goto(t, "flush_pred")
  /\ UNCHANGED <<starts, flags, config, daemon, callbacks, rows, history>>

\* wait_for returns at the deadline whatever the predicate says.
FlushTimeout(t) ==
  /\ At(t, "flush_wait")
  /\ HasFlushTimeout
  /\ Goto(t, "stop")
  /\ UNCHANGED <<starts, flags, config, daemon, callbacks, rows, history>>

\* condition_variable::wait may return with nobody having notified.  (For the
\* daemon this is DaemonTimeout: its waits have no predicate to go back to.)
FlushSpuriousWakeup(t) ==
  /\ At(t, "flush_wait")
  /\ Goto(t, "flush_pred")
  /\ UNCHANGED <<starts, flags, config, daemon, callbacks, rows, history>>

(***************************************************************************)
(* set_request_callback() and set_custom_retry_for_status_code(); both     *)
(* throw while the emitter runs.  map::insert does not overwrite.          *)
(***************************************************************************)
SetRequestCallback(t, statuses) ==
  /\ Calls(t, "configure")
  /\ ~m_running
  /\ m_callback' = statuses
  /\ UNCHANGED <<starts, pc, flags, m_custom_retry, daemon, callbacks, rows, history>>

SetCustomRetry(t, code, retry) ==
  /\ Calls(t, "configure")
  /\ ~m_running
  /\ code >= 300
  /\ m_custom_retry' = [c \in DOMAIN m_custom_retry \cup {code} |->
                          IF c \in DOMAIN m_custom_retry THEN m_custom_retry[c] ELSE retry]
  /\ UNCHANGED <<starts, pc, flags, m_callback, daemon, callbacks, rows, history>>

(***************************************************************************)
(* run(): the daemon thread                                                *)
(***************************************************************************)
\* get_event_rows_batch; a query that fails leaves the rows it had got to.
DaemonRead ==
  /\ dpc = "read"
  /\ \E n \in (IF StorageFaults THEN 0..BatchSize ELSE {BatchSize}) :
       batch' = FirstRows(rows, n)
  /\ dpc' = IF batch' = {} THEN "signal" ELSE "send"
  /\ UNCHANGED <<starts, pc, flags, config, request_futures, results,
                 delete_row_ids, failed_will_retry_row_ids, sleep_for,
                 callbacks, rows, history>>

DaemonSend ==
  /\ dpc = "send"
  /\ request_futures' \in SendPlans(batch)
  /\ dpc' = "gather"
  /\ UNCHANGED <<starts, pc, flags, config, batch, results, delete_row_ids,
                 failed_will_retry_row_ids, sleep_for, callbacks, rows,
                 history>>

\* A request thread: the exchange takes place and its future becomes ready.
Answer(req, x) ==
  /\ dpc = "gather"
  /\ req \in request_futures
  /\ x \in Exchanges(req.is_oversize)
  /\ request_futures' = request_futures \ {req}
  /\ results' = results \cup {[rows |-> req.rows, exchange |-> x]}
  /\ accepted' = IF x.received THEN accepted \cup EventsIn(req.rows) ELSE accepted
  /\ UNCHANGED <<starts, pc, flags, config, dpc, batch, delete_row_ids,
                 failed_will_retry_row_ids, sleep_for, callbacks, rows,
                 stored, refused, settled>>

SuccessRows   == RowsOf({r \in results : IsSuccess(r.exchange.result)})
WillRetryRows == RowsOf({r \in results : ShouldRetry(r.exchange.result, m_custom_retry)})
WontRetryRows == RowsOf({r \in results : GivesUp(r.exchange.result, m_custom_retry)})

\* Given up for a reason: the collector said no, or the event is too large.
RefusedRows ==
  RowsOf({r \in results : /\ GivesUp(r.exchange.result, m_custom_retry)
                          /\ r.exchange.answered \/ r.exchange.result.is_oversize})

\* Faulty variant of Reports: two of the three lists are swapped.
ReportsSwapped ==
  {c \in {[status |-> "SUCCESS", events |-> EventsIn(WillRetryRows)],
          [status |-> "FAILED_WILL_RETRY", events |-> EventsIn(SuccessRows)],
          [status |-> "FAILED_WONT_RETRY", events |-> EventsIn(WontRetryRows)]} :
     c.status \in m_callback /\ c.events # {}}

\* trigger_callbacks: at most one detached thread for each status.
Reports ==
  {c \in {[status |-> "SUCCESS", events |-> EventsIn(SuccessRows)],
          [status |-> "FAILED_WILL_RETRY", events |-> EventsIn(WillRetryRows)],
          [status |-> "FAILED_WONT_RETRY", events |-> EventsIn(WontRetryRows)]} :
     c.status \in m_callback /\ c.events # {}}

\* All futures are in: classify the results and start the callbacks.
DaemonGather ==
  /\ dpc = "gather"
  /\ request_futures = {}
  /\ delete_row_ids' = IdsIn(SuccessRows \cup WontRetryRows)
  /\ failed_will_retry_row_ids' = IdsIn(WillRetryRows)
  /\ callbacks' = callbacks \cup Reports
  /\ refused' = refused \cup EventsIn(RefusedRows)
  /\ settled' = settled \cup EventsIn(SuccessRows \cup WontRetryRows)
  /\ results' = {}
  /\ dpc' = "delete"
  /\ UNCHANGED <<starts, pc, flags, config, batch, request_futures, sleep_for,
                 rows, stored, accepted>>

\* delete_event_rows_with_ids, whose failure is only logged.  A delay of more
\* than nothing follows if anything is to be retried (RetryDelay has the count
\* of failures and the length).
DaemonDelete ==
  /\ dpc = "delete"
  /\ \/ rows' = WithoutIds(rows, delete_row_ids)
     \/ StorageFaults /\ UNCHANGED rows
  /\ IF failed_will_retry_row_ids # {}
     THEN dpc' = "sleep" /\ sleep_for' = "retry"
     ELSE dpc' = "loop" /\ UNCHANGED sleep_for
  /\ batch' = {} /\ delete_row_ids' = {} /\ failed_will_retry_row_ids' = {}
  /\ UNCHANGED <<starts, pc, flags, config, request_futures, results,
                 callbacks, history>>

\* Take m_db_select and test m_stop_requested.
DaemonSleep ==
  /\ dpc = "sleep"
  /\ dpc' = IF m_stop_requested THEN "loop" ELSE "block"
  /\ UNCHANGED <<starts, pc, flags, config, batch, request_futures, results,
                 delete_row_ids, failed_will_retry_row_ids, sleep_for,
                 callbacks, rows, history>>

DaemonBlock ==
  /\ dpc = "block"
  /\ dpc' = "wait"
  /\ UNCHANGED <<starts, pc, flags, config, batch, request_futures, results,
                 delete_row_ids, failed_will_retry_row_ids, sleep_for,
                 callbacks, rows, history>>

\* The retry delay or the five seconds have passed (or the wait ended early).
DaemonTimeout ==
  /\ dpc = "wait"
  /\ dpc' = "loop"
  /\ UNCHANGED <<starts, pc, flags, config, batch, request_futures, results,
                 delete_row_ids, failed_will_retry_row_ids, sleep_for,
                 callbacks, rows, history>>

\* The batch was empty: tell flush().
DaemonSignal ==
  /\ dpc = "signal"
  /\ m_flush_done' = TRUE
  /\ dpc' = "notify"
  /\ UNCHANGED <<starts, pc, m_running, m_stop_requested, config, batch,
                 request_futures, results, delete_row_ids, failed_will_retry_row_ids,
                 sleep_for, callbacks, rows, history>>

DaemonNotify ==
  /\ dpc = "notify"
  /\ pc' = NotifyFin(pc)
  /\ dpc' = "sleep" /\ sleep_for' = "idle"
  /\ UNCHANGED <<starts, flags, config, batch, request_futures, results,
                 delete_row_ids, failed_will_retry_row_ids, callbacks,
                 rows, history>>

\* Faulty variant: the daemon does not look at m_running again.
LoopForever ==
  /\ dpc = "loop"
  /\ dpc' = "read"
  /\ UNCHANGED <<starts, pc, flags, config, batch, request_futures, results,
                 delete_row_ids, failed_will_retry_row_ids, sleep_for,
                 callbacks, rows, history>>

\* while (is_running())
DaemonLoop ==
  /\ dpc = "loop"
  /\ dpc' = IF m_running THEN "read" ELSE "exited"
  /\ UNCHANGED <<starts, pc, flags, config, batch, request_futures, results,
                 delete_row_ids, failed_will_retry_row_ids, sleep_for,
                 callbacks, rows, history>>

\* A detached callback thread is scheduled, at last, and runs the callback.
RunCallback(c) ==
  /\ callbacks' = callbacks \ {c}
  /\ UNCHANGED <<starts, pc, flags, config, daemon, rows, history>>

(***************************************************************************)
(* The process dies at any point and is run again on the same database     *)
(***************************************************************************)
Crash ==
  /\ CanCrash
  /\ starts' = 0
  /\ pc' = [t \in Thread |-> "idle"]
  /\ m_running' = FALSE /\ m_stop_requested' = FALSE /\ m_flush_done' = FALSE
  /\ m_callback' = CallbackStatus
  /\ m_custom_retry' = CustomRetry
  /\ dpc' = "none"
  /\ batch' = {} /\ request_futures' = {} /\ results' = {}
  /\ delete_row_ids' = {} /\ failed_will_retry_row_ids' = {}
  /\ sleep_for' = "idle"
  /\ callbacks' = {}
  /\ settled' = {}
  /\ UNCHANGED <<rows, stored, accepted, refused>>

(***************************************************************************)
(* The specification                                                       *)
(***************************************************************************)
\* The steps a thread takes by itself once it is inside an operation.
ThreadStep(t) ==
  \/ FlushStop(t)
  \/ StopHandshake(t) \/ StopNotify(t) \/ StopJoin(t) \/ StopFin(t)
  \/ AddNotify(t)
  \/ FlushReset(t) \/ FlushNotify(t) \/ FlushPred(t) \/ FlushBlock(t)
  \/ FlushTimeout(t) \/ FlushSpuriousWakeup(t)

ThreadCall(t) ==
  \/ Start(t)
  \/ Stop(t)
  \/ \E e \in Event : AddStore(t, e)
  \/ FlushBegin(t)
  \/ \E statuses \in SUBSET Statuses : SetRequestCallback(t, statuses)
  \/ \E code \in StatusCode, retry \in BOOLEAN : SetCustomRetry(t, code, retry)

DaemonStep ==
  \/ DaemonRead \/ DaemonSend \/ DaemonGather \/ DaemonDelete
  \/ DaemonSleep \/ DaemonBlock \/ DaemonTimeout
  \/ DaemonSignal \/ DaemonNotify \/ DaemonLoop

RequestAnswered == \E req \in request_futures :
                     \E x \in Exchanges(req.is_oversize) : Answer(req, x)

\* Nothing is under way; the program goes on without calling the emitter.
Quiescent == /\ Terminated \/ (dpc = "none" /\ \A t \in Thread : At(t, "idle"))
             /\ UNCHANGED vars

Next ==
  \/ \E t \in Thread : ThreadCall(t) \/ ThreadStep(t)
  \/ DaemonStep
  \/ RequestAnswered
  \/ \E c \in callbacks : RunCallback(c)
  \/ Crash
  \/ Quiescent

Spec == Init /\ [][Next]_vars

(***************************************************************************)
(* Fairness.  A thread inside an operation and the daemon are scheduled;   *)
(* every request ends; a mutex is not refused for ever to a thread that    *)
(* keeps finding it free; wait_for has an absolute deadline, so waking up  *)
(* again and again does not postpone it.  Calls are never forced.          *)
(***************************************************************************)
Fairness ==
  /\ \A t \in Thread :
       /\ WF_vars(ThreadStep(t) /\ ~FlushSpuriousWakeup(t))
       /\ SF_vars(FlushPred(t))
       /\ SF_vars(FlushTimeout(t))
       /\ SF_vars(StopHandshake(t))
  /\ WF_vars(DaemonStep)
  /\ WF_vars(RequestAnswered)

LiveSpec == Spec /\ Fairness

\* The collector does not answer every attempt at an event with a failure
\* that is to be retried.
Finally(req) ==
  \E x \in AnsweredExchanges(req.is_oversize) :
    ~ShouldRetry(x.result, m_custom_retry) /\ Answer(req, x)

CollectorRecovers == SF_vars(\E req \in request_futures : Finally(req))

(***************************************************************************)
(* Properties                                                              *)
(***************************************************************************)
\* Every variable keeps its type (emitter.hpp, the members of Emitter).
TypeOK ==
  /\ starts \in 0..MaxStarts
  /\ pc \in [Thread -> ThreadPcs]
  /\ m_running \in BOOLEAN /\ m_stop_requested \in BOOLEAN /\ m_flush_done \in BOOLEAN
  /\ m_callback \subseteq Statuses
  /\ m_custom_retry \in CustomRetries
  /\ dpc \in DaemonPcs
  /\ batch \subseteq Row
  /\ request_futures \subseteq Request
  /\ \A r \in results : /\ r.rows \subseteq Row
                        /\ \E o \in BOOLEAN : r.exchange \in Exchanges(o)
  /\ delete_row_ids \subseteq RowId
  /\ failed_will_retry_row_ids \subseteq RowId
  /\ sleep_for \in {"idle", "retry"}
  /\ \A c \in callbacks : c.status \in Statuses /\ c.events \subseteq Event
  /\ rows \subseteq Row
  /\ stored \subseteq Event /\ accepted \subseteq Event
  /\ refused \subseteq Event /\ settled \subseteq Event

\* No event is lost: one that add() stored is in the event store until the
\* collector has taken it or there was a reason to give it up, through stops,
\* failed deletions and crashes ("Undelivered events remain in SQLite for the
\* next session").
NoLoss == stored \subseteq Queued \cup accepted \cup refused

\* The rows of the batch in flight stay in the table under their ids until
\* run() deletes them itself, so the ids it deletes are those it sent, even
\* though SQLite gives out the ids of deleted rows again.
BatchStillStored == batch \subseteq rows

\* The handshake of stop(): once it has notified m_check_db the daemon is not
\* waiting there, nor about to, so join() never sits out a whole retry delay.
StopNeverJoinsSleeper ==
  \A t \in Thread : At(t, "stop_join") => dpc \notin {"block", "wait"}

\* Assigning to m_daemon_thread while the old daemon has not been joined ends
\* the program.  start() does so only while another thread is between clearing
\* m_running in stop() and its join(): never after a stop() has returned, nor
\* while the emitter runs, whichever threads start, stop and flush.
TerminatesOnlyDuringStop ==
  [][~Terminated /\ Terminated' => \E t \in Thread : Stopping(t)]_vars

\* start() never replaces a daemon thread that has not been joined.
StartNeverTerminates == ~Terminated

\* run() divides the batch: when the requests, however do_send grouped the
\* rows, have been classified, every row of the batch is either to be deleted
\* or to be sent again, and none is both.
BatchIsDivided ==
  dpc = "delete" =>
    /\ delete_row_ids \cup failed_will_retry_row_ids = IdsIn(batch)
    /\ delete_row_ids \cap failed_will_retry_row_ids = {}

\* Once run() has classified an event as sent, or as not to be retried, this
\* process never sends it again: the rows are gone before the next batch is
\* read.
NoResendOfSettled == EventsIn(RowsOf(request_futures)) \cap settled = {}

\* A callback that reports SUCCESS reports events the collector has, and one
\* that reports FAILED_WONT_RETRY events there was a reason to drop, however
\* late the detached thread runs.
CallbackTruthful ==
  \A c \in callbacks :
    /\ c.status = "SUCCESS" => c.events \subseteq accepted
    /\ c.status = "FAILED_WONT_RETRY" => c.events \subseteq refused

\* The emitter and its event store implement the at-least-once queue.
Queue == INSTANCE EventQueue WITH queued <- Queued
QueueSpec == Queue!Spec

\* With a timeout, a flush() that found the emitter running returns, whatever
\* the collector answers, the other threads do and notifications it misses.
FlushReturns == \A t \in Thread : At(t, "flush_reset") ~> (At(t, "idle") \/ Terminated)

\* "Unblock flush() if it is waiting on m_check_fin (e.g. stop() called
\* externally)" (emitter.cpp:133): once a stop is requested no flush() goes on
\* waiting.
StopUnblocksFlush ==
  \A t \in Thread :
    (pc[t] \in {"flush_block", "flush_wait"} /\ m_stop_requested)
      ~> pc[t] \notin {"flush_block", "flush_wait"}

\* A stop() that found the emitter running returns, so the daemon leaves
\* whatever it is doing and exits.
StopReturns == \A t \in Thread : At(t, "stop_handshake") ~> (At(t, "idle") \/ Terminated)

\* While the emitter keeps running, an event in the store gets its turn and is
\* removed, whatever failed before it, if the collector recovers.
EventuallyDrained ==
  CollectorRecovers =>
    \A e \in Event : (e \in Queued /\ m_running) ~> (e \notin Queued \/ ~m_running)
=============================================================================
