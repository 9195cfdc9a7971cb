# TLA+ models of the Snowplow C++ tracker

TLA+ specifications of the tracker: what `track` makes of an event, session
tracking, delivery, the tracker registry and configuration. TLC configurations
check them on small instances, and TLAPS proofs establish most of their
properties for all instances. Paths below are relative to `src/include/snowplow/`.

    tlc -workers 2 -config emitter_core.cfg MCEmitter    # or any other run of section 3
    tlapm EmitterProofs.tla                              # or any other *Proofs.tla

## 1. The system

`Tracker::track` turns an event into a payload, asks `ClientSession` for the
session context and hands the payload to `Emitter::add`, which inserts it in the
`EventStore`. A daemon thread of the emitter reads the oldest rows, sends them
to the collector by the `HttpClient` in one or several requests, deletes what
was delivered or is given up, and sleeps.

| Component | State | Operations | Meets the others through |
|---|---|---|---|
| Emitter (`emitter/emitter.cpp`) | `m_running`, `m_stop_requested`, `m_flush_done`, the daemon thread, two condition variables with their mutexes, callback, custom retry rules | `start`, `stop`, `add`, `flush`, two setters, the loop `run` | called by application threads; calls store and client; detached callback threads |
| POST batching (`do_send`) | local | split a batch under the byte limit | a step of the daemon |
| Results (`http/http_request_result.cpp`) | none | success, retry, give up | decides which rows are deleted |
| HTTP clients (`http/http_client_*.cpp`) | none | GET, POST | one `std::async` thread for each request |
| Retry delay (`emitter/retry_delay.cpp`) | failure count | count, reset, delay | the daemon's sleep |
| SQLite storage (`storage/sqlite_storage.cpp`) | tables `events` and `sessions`, a prepared insert statement | add, read, delete events; set, get, delete session | shared by emitter and session; outlives the process |
| Client session (`client_session.cpp`) | current session, event index, app state, time of last check | `update_and_get_session_context`, `start_new_session`, `set_is_background` | called by every tracking thread; the session store |
| Tracker (`tracker.cpp`) | the Subject, flags, references to the above | `track`, `set_subject`, `flush`, start and stop with its life | composition |
| Subject (`subject.cpp`) | a map of attributes | setters | shared by the application with trackers and events |
| Events and payload (`events/`, `payload/`) | one event, one payload | `get_payload`, `add`, `add_map`, `add_json` | built in `track`, stored as text, read back by `do_send` |
| Registry (`snowplow.cpp`) | trackers by namespace, the default tracker | create, register, get, remove, set default | may drop the last reference to a tracker, whose destructor joins the daemon |
| Configuration (`configuration/`) | stores, paths, the HTTP client, protocol and host | constructors, setters, getters that open or move | `create_tracker` changes the ones it is given |
| URL parsing (`cracked_url.cpp`) | one URL | regular expressions | the emitter's constructor, every client |
| Encodings (`detail/base64`, `detail/utils`) | the desktop context's pointer | base64, URL encoding, query strings | `track` and `do_send` |

What makes each correct, and what makes that hard:

- **Emitter.** An event that was stored is sent at least once or given up for a
  reason, and is not sent again once that is decided. `stop` and `flush` return,
  promptly in the case of `stop`. Hard because application threads, the
  daemon, request threads and callback threads interleave; two condition
  variables are notified without the mutex held or without a predicate; ids of
  rows are used after other threads have inserted; and the process may die
  between the collector's answer and the deletion.
- **Batching.** Every row is in exactly one request, and no body is longer than the
  byte limit and one byte more, which is what the code's estimate keeps. Hard at the
  limit, by its running sums.
- **Results and clients.** Only what the collector took, or refused, leaves the
  queue. Hard where there was no answer: each client reports it differently.
- **Storage.** Ids order the queue although SQLite reuses them; failures drop as
  little as possible. Hard because errors are not reported to the caller.
- **Session.** Contexts of a session agree, indexes have neither gaps nor
  duplicates, sessions form a chain across restarts. Hard because the session
  is saved after the lock was released and the flag is set without it.
- **Tracking.** What the collector decodes is what was tracked, and a call of
  `track` stores its event, throws, or returns after the store has logged that the
  insertion failed. Hard because four places are read at different times while
  others change them, because encodings meet arbitrary bytes, and because a failure
  late in `track` comes after the session has counted.
- **Registry.** A namespace names one tracker until it is removed, the default
  tracker is registered, a tracker lives exactly as long as somebody refers to it.
  Hard because destroying a tracker joins a thread, sometimes with the registry
  locked, and because a constructed tracker may be refused.
- **Configuration.** A tracker uses the stores, client and collector it was
  configured with. Hard because configurations are used again after
  `create_tracker` has changed them, and because URLs are taken apart by
  regular expressions.

## 2. Modules

| Module | Models | Used by |
|---|---|---|
| `HttpRequestResult` | classification of an outcome | `HttpClient` |
| `HttpClient` | the outcomes each of the three clients can produce | `Emitter` |
| `EventTable` | the `events` table: next id, oldest rows, deletion | `Emitter`, `SqliteStorage` |
| `SendPlan` | the requests a batch is sent as | `Emitter`, `PostBatching` |
| `EventQueue` | abstract: a persistent queue with at-least-once delivery | refined by `Emitter` |
| `Emitter` | the emitter with its threads, composed with client, store and plan | `MCEmitter`, `MCFlush`, `EmitterProofs` |
| `PostBatching` | the loop of `do_send`, one payload at a time | `DaemonRound` |
| `RetryDelay` | the length of the delay | `DaemonRound` |
| `DaemonRound` | the two composed: send, classify, sleep, round after round | its own run, `DaemonRoundProofs` |
| `SqliteStorage` | storage objects, the insert statement, write faults | its own run, `SqliteStorageProofs` |
| `ClientSession` | `Tracker::track` with its session: threads, clock, failures, restarts | `Tracking`, `MCSession`, `ClientSessionProofs` |
| `Codec` | base64, URL encoding, query strings, and how a collector decodes them | `Payload` |
| `Payload` | payloads, the kinds of events, what they throw for | `Tracking` |
| `Tracking` | `track` step by step, with `ClientSession`, Subjects, the stored rows and the requests made of them | `MCTracking`, `TrackingProofs` |
| `CollectorUrl` | collector URLs, from configuration to request | `Configuration` |
| `Configuration` | configuration objects and every form of `create_tracker` | `MCConfiguration` |
| `Snowplow` | the registry, references to trackers, destructors | `MCSnowplow`, `SnowplowProofs` |
| `MCEmitter`, `MCFlush`, `MCSession`, `MCTracking`, `MCConfiguration`, `MCSnowplow` | instances; `MCFlush` adds what was queued when `flush` was called | |
| `EmitterProofs`, `SnowplowProofs`, `ClientSessionProofs`, `DaemonRoundProofs`, `SqliteStorageProofs`, `ConfigurationProofs`, `TrackingProofs` | theorems | |
| `NatRecursion` | lemmas: induction over the natural numbers, recursive functions, joined sequences | `DaemonRoundProofs`, `ConfigurationProofs`, `TrackingProofs` |

Operators headed "Faulty variant" are versions of the definition they stand
next to with a plausible bug in it. No specification uses them: they are there
to try that each property is able to fail.

### Emitter

The application threads have a program counter `pc[t]`, the daemon has `dpc`.

*Steps.* A section under `m_run_check` (all of `start`, the test and the two
assignments of `stop`, the test of `flush`, `is_running`) is one action: what it
touches is used under no other lock, the two atomic flags excepted, and nothing
in it waits. `stop` releases that lock before anything else, so the rest of it,
and of `flush`, is one action for each access to shared state: `StopHandshake`
(the empty section on `m_db_select`), `StopNotify`, `StopJoin`, `StopFin`;
`FlushReset`, `FlushNotify`, `FlushPred`, `FlushBlock`. `FlushPred` reads
`m_flush_done` and `m_stop_requested` in one action: while the thread tests them
others only set them, so if both reads find false they were false together
at the first of them, and if one finds true it is true at the last. What is set
between the test and the wait is what `FlushBlock` leaves room for.

*Waiting.* A thread holds the mutex of its condition variable in "block", and
has given it up in "wait". Between the two a notification without the mutex is
lost; that is how a missed wake-up comes about. The daemon's waits have no
predicate, so a spurious wake-up is `DaemonTimeout`; those of `flush` have one
(`FlushSpuriousWakeup`).

*Sending.* `DaemonSend` chooses the requests, `Answer` is a request thread,
`DaemonGather` collects all of them. For POST where groups end depends on
payload sizes; `SendPlans` has every division into consecutive groups and
`PostBatching` shows (`PlanIsSendPlan`) that the loop ends with one of those.

*Environment.* `Exchanges` are the outcomes of a request: any status of
`StatusCode`, failures before and after the request reached the collector, in
the terms of the client that is built. With `StorageFaults` inserts, queries and
deletions may fail; `SqliteStorage` tells when. `Crash` ends the process at any
step and runs it again on the same file.

*Start and stop.* `Stopping(t)` is the time between the assignment to `m_running`
in `stop` and the end of its `join`. A `start` of another thread in that time
assigns to a joinable `std::thread` and the program terminates (`Terminated`, in
which no action is enabled but the death and restart of the process).

*History.* `stored`, `accepted` and `refused` are the abstract queue's;
`settled` are the events the process has classified for good.

### A round of the daemon

`PostBatching` has the loop's variables and, beside them, the body each list
would be serialised to (`body_size`), so that the estimate the code compares
with the limit and the size that is sent are two different numbers.
`RetryDelay` has the count uncapped as in the code; a seed is a number of
thousandths. `DaemonRound` puts the count's changes and the sleep after the loop,
as `run` does, so that `DelaysGrow` can compare two rounds.

### Storage

`SqliteStorage` makes each method an action (`m_db_access`), and has a `fault`
that comes and goes: the database locked by another process, a full disk.
`delete_all_event_rows` may come at any time, between the reading and the deleting
of another caller or of the same one. *History.* `overtaken` has the callers that
hold a row another call has deleted since they read it.

### Session

`ClientSession` splits `update_and_get_session_context` where the lock is
released and where `m_is_new_session` is written without it; a UUID is the next
number. `SaveSession` comes after the lock, and `SaveFails` is the error that
`set_session` logs. `Add` and `Discard` are the rest of `track`: between the
context and the insertion other threads may come, the event may not be stored, and
the process may end (`Restart`). *History.* `floor` is the number of UUIDs at the last
`start_new_session`; `last_call` is when a call last looked whether the session is
over, and `overrun` that a pause before a `set_is_background` was beyond the timeout,
so that what ought to end a session (`Paused`) is told without the time and the flag
the code decides by; `secured` is the last session that was saved while no other thread
was about to save an older one; `forked` that the process ended while an event was
stored in a session the store did not have.

### Tracking

A step of `track` ends where it has read what others change: `Track` (the
event's own pairs), `TestSubject` and `AddSubject` (which read the pointer one
after the other), `AddEventSubject`, then the actions of `ClientSession`,
`TestDesktopContext` and `MakeDesktopContext`, and `AddEvent`, `AddEventThrows` or
`AddEventFails`. The last is the insertion that `add_event` only logs: it may fail
at any time, for the statement was not reset after an earlier failure (`add_stmt`)
or for the database, and the event is in `lost`. Meanwhile `SetAttribute` and
`SetSubject` change the Subjects; where `set_subject(nullptr)` comes between the
test and the use, the behaviour is undefined, and `UseNullSubject` ends the process
(`alive`).

A text is a sequence of bytes and a key is one number above them; `Utf8` is what
`json::dump` accepts, characters of one to four bytes without overlong forms or
surrogates; of a JSON document only what tells two apart is kept. `log` is every row
ever stored, as which of them are deleted is the emitter's matter. `Request` makes a
GET or a POST request of rows, and the properties look at `Received`, what a collector
decodes by RFC 3986, so that the encodings are compared with a reference and not
with themselves.

### Configuration

One thread makes and changes the three configurations and calls `create_tracker`,
so a call is one step; what it works out is which stores, client and URL a
tracker ends up with. `get_store` opens a database for a path, `OnePath` is the
branch in which the two configurations get one storage, `client_moved` is
`move_http_client`, which happens whether or not the rest throws. `asked` is what
the application last gave to each configuration, which no call of `create_tracker`
changes; that one has displaced a session store is `asked.displaced`. `CollectorUrl`
has URLs as tokens, which is what the regular expressions tell apart.

### Registry

`Snowplow` keeps for each thread the trackers it has references to (`held`),
the one that `create_tracker` has constructed and not yet returned (`created`),
and the trackers whose destructors it is running (`dying`). Every place where a
`shared_ptr` is given up ends in `Release`, which puts the trackers without any
other reference in `dying`; `pc[t] = "erase"` says that this happens with
`m_tracker_get` held, in `remove_tracker` and `set_default_tracker`. A tracker's
emitter is here only its being started or stopped (`running`): that `stop` returns
is `StopReturns` of `Emitter`.

## 3. Runs

| Run | Question | States |
|---|---|---|
| `emitter_core` | two threads track, flush and stop, three events of which one is over the limit, POST batches of two: is every batch divided, is anything lost, resent, joined asleep? does it implement the queue? | 714 000 |
| `emitter_crash` | GET with batches of mixed outcomes, the process dies anywhere, storage calls fail: is anything lost, are ids stale, do callbacks tell the truth? | 658 000 |
| `emitter_config` | two threads start and stop, one of them tracks and reconfigures: when does `start` meet a daemon that was not joined? | 339 000 |
| `emitter_live` | one thread starts and flushes with a timeout, the other tracks and stops: does every `stop` and every `flush` return, is the store emptied? | 27 000 |
| `daemon_round` | the plan, the size of bodies, needless splits; jitter, cap and growth of the delay over rounds | 87 000 |
| `sqlite_storage` | two objects on one file: order of ids, dropped events, deletions | 40 000 |
| `session` | two threads, timeouts, a clock that is set back, failing saves, a restart: do contexts agree, do indexes and sessions chain, does a session end in time, does what was saved stay? | 335 000 |
| `tracking` | events complete or not, awkward bytes, two trackers, Subjects that change and go, insertions that fail: is what the collector decodes what was tracked, and is what is missing thrown or logged? | 210 000 |
| `configuration` | two calls of `create_tracker` and two changes before, between and after them: stores, client, URL | 417 000 |
| `registry` | two threads, three trackers, two of one namespace: does a reference ever dangle, is anything kept or running without one, does every call return? | 20 000 |
| `flush_returns_early` | refuted: see section 5 | |
| `flush_misses_stop` | refuted: see section 5 | |

*Bounds, and why they are enough.*

- Emitter: two threads, as every race is between the daemon and one other
  thread or between two callers; the daemon itself is the third. Two or three
  events with batches of two: a batch with mixed outcomes, one that leaves a row
  behind, and a row inserted while another is in flight. `RowId` has as many ids as
  there are events; since the next id is one more than the largest in use, it
  never needs more. `MaxStarts` is 1, or 3 in `emitter_config`, where a thread may
  start what another is stopping, and start it once more. How long the delay is
  does not matter to the emitter, as a wait may end at any time; the count of failures
  is in `daemon_round`. Callback threads with the same status and events
  are one element of a set: no property counts them. An event is tracked once, as an
  event id is fresh.
- `daemon_round`: `PayloadSize` has sizes small, at the limit alone, one over it,
  and such that two or three together meet or pass it by one; four rows are
  a full body, one more and a large one anywhere. `Seed` has both sides of each
  rounding boundary, `MaxRetries` goes past the cap of 10.
- `session`: `MaxTime` 2 and timeouts 0 and 1 give pauses below, at and above
  each timeout, and a clock that goes back. Three events are one more than there
  are threads, for a session that goes on while two others are being begun or saved.
  One restart, as what a process finds is only what the one before left.
- `tracking`: the texts have all lengths modulo three and hold what each
  encoding treats specially (`%`, `=`, `&`, `+`, `/`, braces), characters of one
  to four bytes, a character cut short and a surrogate. A tracker with all that is
  conditional but the desktop context, and one with only that. A complete
  self-describing event is not in the run: it is its JSON, as the JSON that the timing
  and screen view events make of themselves. Two threads, two events and one change
  between any two steps, of a Subject, of the pointer to it or of the clock; the
  timeouts are 0, so that time which passes ends a session, and `session` has the
  other timeouts and more changes of the clock.
- `configuration`: two databases, one store, one client, two namespaces, two
  changes and two calls: enough for a configuration that is used, changed and used
  again. The URLs with a collector have a port, a path with a port's look, a
  slash at the end, a scheme in capitals.
- `registry`: a third tracker of the same namespace, or a third namespace, would
  only repeat what two do; two threads suffice for one to hold the lock or a
  reference while the other acts.

Symmetry is used for events, threads or objects that differ in nothing, only in
safety runs.

*Fairness* (`Fairness`, `CollectorRecovers`). A thread inside an operation, the
daemon and the requests make progress (weak fairness: they are threads, and
requests have timeouts). Strong fairness where a mutex or a deadline comes and
goes: taking `m_tracker_get` in a call of the registry, testing the predicate of
`flush` and the handshake of `stop` (a mutex is not refused for ever to one that
keeps finding it free), and the timeout of `flush`, whose deadline is absolute,
so that spurious wake-ups do not move it. No call is ever forced on the
application. `FlushReturns` needs no more than that, as the call has a timeout;
without one it is false (section 5). `EventuallyDrained` has the hypothesis
`CollectorRecovers`: of requests that are made again and again some one ends
otherwise than in a retry. Without it it is false, as a collector that is down for
ever drains nothing.

## 4. Proofs

Seven modules prove, for every value of the constants that satisfies the
assumptions (any number of threads, events, operations, rows, sizes, limits,
timeouts, restarts, configurations, calls, trackers and namespaces):

| Theorem | Says |
|---|---|
| `EmitterProofs` | |
| `TypeCorrect` | `[]TypeOK` |
| `BatchStaysStored` | rows in flight stay in the table under their ids |
| `ImplementsQueue` | the emitter implements `EventQueue` |
| `NothingLost` | `[]NoLoss` |
| `CallbacksAreTruthful` | `[]CallbackTruthful`, however late a callback runs |
| `SettledIsNotResent` | `[]NoResendOfSettled`, if deletions do not fail |
| `BatchesAreDivided` | `[]BatchIsDivided` |
| `StopWakesDaemon` | `[]StopNeverJoinsSleeper` |
| `StartTerminatesOnlyDuringStop` | `TerminatesOnlyDuringStop`, whichever threads start, stop and flush |
| `OneControllerNeverTerminates` | `[]StartNeverTerminates`, when one thread alone starts, stops and flushes |
| `DaemonRoundProofs` | |
| `BodiesStayNearLimit` | `[]BodyNearLimit` |
| `LoopMakesAPlan` | `[]PlanIsSendPlan`: the loop ends with a plan the emitter model assumes |
| `SplitsAreNeeded` | `[]NoNeedlessSplit` |
| `DelayIsDocumented` | `[]WithinJitter` |
| `DelaysGrowProved` | `DelaysGrow` |
| `SqliteStorageProofs` | |
| `IdsOrderEvents` | `[]IdsFollowInsertion` |
| `DropsAreExplained` | `[]DropsOnlyAfterFailure` |
| `DeletionsAreOfRowsRead` | `DeletesWhatWasRead`, for any number of objects on the file |
| `ClientSessionProofs` | |
| `TypeCorrect` | `[]TypeOK`, with one thread at a time in `update_session` |
| `ContextsAgree` | `[]SessionsConsistent` |
| `IndexesHaveNoGap` | `[]NoEventIndexSkipped` |
| `NewSessionIsHonoured` | `[]NewSessionHonoured` |
| `SessionsEnd` | `[]NoStaleSession` |
| `SessionsAreChained` | `[]SessionsFormChain` |
| `SavedSessionsStay` | `[]SavedIsNotForgotten` |
| `ConfigurationProofs` | |
| `ClientsAreAsSet` | `[]ClientSetIsUsed` |
| `StoresAreAsConfigured` | `[]StoresAsConfigured` |
| `CollectorUrlsAreKept` | `[]CollectorUrlKept`, when the collectors' hosts have a dot |
| `TrackingProofs` | |
| `TrackerUsesSession` | `Tracking` implements `ClientSession`, whose theorems therefore hold of it |
| `TrackingOrderKept` | `[]CallOrderKept` |
| `TrackStoresThrowsOrLogs` | `[]StoredThrewOrLogged` |
| `TrackedIsSent` | `[]SentAsTracked` |
| `Base64Decodes` | `base64_decode` undoes `base64_encode`, for every sequence of bytes |
| `QueryReceived` | a query string, split and decoded, gives the payload it was made of |
| `SnowplowProofs` | |
| `TypeCorrect` | `[]TypeOK`: one thread at a time destroys trackers with the registry locked |
| `ReferencesAreSafe` | `[]ReferencedIsAlive`: no reference dangles |
| `DaemonsAreOwned` | `[]DaemonsBelongToTrackers`: no daemon without its tracker, no tracker destroyed twice |
| `DefaultStaysRegistered` | `[]DefaultIsRegistered` |
| `NamespacesAreStable` | `NamespaceKeepsTracker` |

*Delivery.* `BatchStillStored` and `NoLoss` are not inductive. `DeliveryInv`
adds that ids are unique; that requests, results and ids to delete exist only at
the daemon's places where they are used; that requests and answers are about
rows of the batch; that what was received is accepted; and that a row whose id
is to be deleted is accepted or refused. The last is what makes a
deletion by id a `Remove` of the queue, and it holds because rows of the batch
stay in the table, so the ids in `delete_row_ids` cannot have been given to others.
`BatchStaysStored`, `ImplementsQueue`, `NothingLost` and the next two assume
`Client # "curl"`: lemma `ResultsAreHonest` (a result that reads as success was
received, one given up was answered or too large) is false of libcurl, see
section 5.

*Callbacks and sending twice.* What `DaemonGather` reports is true when it starts
the callbacks (`ReportsTrue`), and `accepted` and `refused` only grow.
`ResendInv` adds that an event has one row at most and that a settled event which is
still in the table is about to be deleted, while nothing is in flight. That fails
when a deletion fails, hence the hypothesis `~StorageFaults`: the event is
then sent again.

*Stopping.* `HandshakeInv` follows the thread in `stop` and the daemon: from
`StopBegin` on `m_stop_requested` holds, so after the handshake the daemon,
which tests it with the mutex held, does not block again; a daemon that waits is
woken by `StopNotify`.

*Dividing a batch.* `BatchInv`: while requests are under way, the rows of those
that wait and of those that have ended make up the batch and no row is in two of
them, for any plan `do_send` may choose. As a result is either given up, retried or
a success, the two sets of ids divide the batch, libcurl's results included.

*Start and stop.* `JoinInv`: whenever the emitter does not run and there is a daemon
to join, some thread is `Stopping`. That is what a `start` finds when it passes its
test. With a single controller the thread would have to be the one that starts, so
there is none (`ControlInv`).

*Batching.* `SizeInv` relates the three running numbers: the body is
`total_byte_size`, the envelope and `payloads_size - 1` commas. For the plan,
`SendPlan` states what is reached by a set of heads (the rows a request begins
with) and the loop goes row by row; `LoopInv` bridges them by splitting the groups
that the heads so far make of the rows so far into the closed ones, which have been
sent, and the open one, which is what is collected. A turn then either lets a row
join the open group (`RowJoins`) or makes it a head, which closes it (`RowBegins`).
`HeadInv`: what is collected comes after all that was sent, and its first row would
have taken the request before it over the limit.

*Delay.* `get()` computes a power of the capped count; the documentation describes
a delay that is doubled from one failure to the next. The two are equal by
induction (`InductiveSet` of `NatRecursion`, on the set of counts for which they
are), and by induction the power grows with the count. What depends on the
numbers in the code is one assumption, `DefaultsAssumption`: the largest delay with
its jitter is within two minutes, and the factor outgrows the jitter. TLC
evaluates it for the defaults of `retry_delay.hpp:36`.

*Storage.* `QueueInv` (ids unique, every row's event has been added) makes an
insertion an append, as the new id is beyond all in use. `DropInv`: a statement
that was not reset belongs to an object whose insert has failed. `HeldInv`: what a
caller holds is in the table unless the caller is `overtaken`, so that an id it
deletes cannot have been given to another row.

*Session.* Five invariants of one component, each no larger than its property
needs. `NewSessionInv`: a session that goes on is newer than `floor`, and so is
one that a thread is about to begin. `StaleInv`: the time the code compares with is that
of the last call, and a pause that was too long keeps `m_is_new_session` set until
the next session begins, although `set_is_background` resets the time and the
timeout. `SaveInv`: whatever a thread is about to save is newer than the session
that is `secured`. `SessionInv` is over `All`, the contexts that were counted whatever
became of their events, because a gap in the stored ones is filled by one that was
discarded. `ChainInv` is over `Known`, the sessions of stored events and those
that are still `Live` (in use by a thread, current, or in the store): the user's
current session is the last of them, so that the next one is numbered and linked
after it; a restart goes back to the stored session, which is the last
unless the chain has `forked`.

*Configuration.* `ClientInv`: the network configuration has the client that was set
until it is taken, which `asked.spent` records. `StoreInv`: the emitter's and the
session's configuration are each as given or have a storage for the path given
(`Follows`), and where both were given one path they have the same storage, unless
the session's was given after the emitter's had one. A session store that was
displaced was given beside a path, and the configuration has a storage for that path
from then on; what was asked for then differs from anything the emitter can be
given, so the two cases do not meet. Nothing is needed of what the
operators on URLs return; `UrlInv` is about that. The URL a network configuration
holds is `UrlOf` a collector given to it, whose tokens the lemmas follow
through `CrackedUrl`: the first dot is in the host (`DotInHost`), so the host ends
at the first colon or slash after it (`HostEndsAt`), the port is what follows
(`PortIsFound`), and the path begins where it does in the collector's URL
(`UrlIsKept`). Searches for the first token of a kind are searches for the least number
of a set (`LeastNat`). The hypothesis `HasDottedHost` is what section 5 shows to be
needed; by `DottedCollectors` of `MCConfiguration` the run's collectors have it.

*Tracking.* `TrackingStep` is a step of the living process; `StepOfNext` is all that
is needed of the one in which it dies. By `TrackerUsesSession` each step of
`Tracking` is a step of `ClientSession` or leaves it alone, so that the session's
invariants hold.
`TrackingInv` adds `CallInv` (two calls under way are never about one event),
`LogInv` (a payload keeps the `eid` it began with whatever is added to it, as no
Subject, context or field has that key, and the store has those of the calls that
returned and are not `Unstored`, thrown or lost, once each and in the calls' order),
`SplitInv` (none is both), `InSessionInv` (where a call is in
`track` and where in the session) and `OrderInv`: the contexts the session has counted
are in the order of the calls from the moment they are counted, long before
`tracked` has them. `TrackingAssumption` says of the constants what the types of the
code say, as that a Subject has only the keys of its setters.

*What is sent.* Three facts make `SentAsTracked`. First, encodings. `base64_decode`
undoes `base64_encode` byte by byte (`Base64Decodes`): a byte and the character it
is made from belong to groups with the same number, three bytes make four numbers below
64 of which two make a byte again (`SextetsIs`), and decoding stops at the padding
and not before, as no character of the alphabet is padding (`FoundIs`). A query
string is `FlattenSeq` of its pairs and a value `FlattenSeq` of its bytes'
encodings; `Joins` (of `NatRecursion`) says where each piece is in the whole, and
that pieces found at those places are the whole. As no value has a bare ampersand or
percent sign, fields begin and end where pairs do (`BeginsAreKeys`, `FieldEnds`), and
an escape's two digits are read with it (`DecodedIsText`). Second, `Carries`: a
payload is exactly the pairs of a set that are not empty. Each call of `add` carries its
pair (`AddOne`), one of `add_json` its document either way, and adding a Subject what
it has under keys not yet taken, so a row carries what the event, the Subjects and
the contexts have (`RowCarries`). Third, an invariant: `PayloadInv` says what the
payload of a call is at each step, as a function of what the call has read
(`begun`), and `RowInv` that each row is made of those and of the context that the
session gave the event, which stay what they are however `subjects`, `now` and the
session go on.

*References.* `ReferencedIsAlive` and `DaemonsBelongToTrackers` are inductive
only together (`Ownership`) and with `CallState`, which ties `created` and
`dying` to `pc`: a thread that destroys trackers has no other call under way, so
`Release` never overwrites a destructor still to be run. Two lemmas carry the
steps: one that gives up references destroys only what nobody refers to
(`ReleaseSafe`), every other refers only to what was referred to or is new
(`ReferenceSafe`).

*Only model-checked.* Liveness (`StopReturns`, `FlushReturns`,
`EventuallyDrained`, `Destroyed`, `CallsReturn`): out of reach of the prover, as is
`ENABLED`. All other properties of the passing runs are proved.

## 5. What the runs show

Two comments of the code are refuted by runs.

- `flush_returns_early`: the daemon reads the store, finds it empty, and is then
  overtaken by `add` and by `flush`'s reset of `m_flush_done`; its late
  `m_flush_done = true` (`emitter.cpp:221`) ends that flush, against the comment at
  `emitter.cpp:150`. The event stays in the store for the next run: `NoLoss` holds.
- `flush_misses_stop`: a `flush` without a timeout tests its predicate, and before it
  begins to wait a `stop` of another thread sets `m_stop_requested`, joins the daemon
  and notifies `m_check_fin`, all without `m_flush_fin`. Nobody is left to notify
  again, and the `flush` waits until a spurious wake-up, if there is one, against
  the comment at `emitter.cpp:133`, "Unblock flush() if it is waiting on m_check_fin
  (e.g. stop() called externally)". With a timeout it returns: `FlushReturns`.

Met while modelling, and not kept as runs (the models have the behaviour; the
properties checked are those that hold regardless):

- `status_code` of `http_client_curl.cpp` is not assigned when
  `curl_easy_perform` fails, and the result has no internal error. `BrokenResults`
  has any value of `StackValue` there; with a value below 300 the event is
  deleted although the collector never had it. The runs and the theorems about
  delivery therefore take the Windows and Apple clients.
- `cracked_url.cpp:28` takes everything up to the first dot for the beginning of
  the host. For `http://localhost:9090`, the collector of
  `src/examples/README.md:67`, the first dot is in the path of the POST endpoint, so
  requests go to `http://localhost:9090/tp2`; with GET, whose path has no dot, the
  URL is refused. `CollectorUrlKept` holds for hosts with a dot.
- `stop` clears `m_running` before it joins. A `start` of another thread in
  between assigns to a joinable `std::thread`, which terminates the program: the
  run `emitter_config` reaches it, and `TerminatesOnlyDuringStop` says that it
  happens there and nowhere else. The setters then pass their check too while the
  daemon still uses what they set.
- `add` and `flush` end the retry delay early: one condition variable, no
  predicate.
- A `FAILED_WILL_RETRY` callback may run after the retry has succeeded.
- A POST body may be one byte over the limit (`BodyNearLimit` states the bound
  that is kept).
- After one failed insert a `SqliteStorage` object stores nothing any more: the
  statement is not reset (`DropsOnlyAfterFailure` states what is kept).
  `track` returns the id of an event that was not stored; `StoredThrewOrLogged`
  counts it as `lost`.
- Two storage objects on one file delete each other's rows, as ids are reused. With
  one object the same follows from `delete_all_event_rows` between the reading of a
  batch and its deletion: the ids may by then be those of new rows.
  `DeletesWhatWasRead` says that a deletion goes wrong only for a caller of whose
  rows another call has deleted some.
- `client_session.hpp:90` says "Each update is persisted in the SQLite database". It
  is not where saving fails, as `set_session` only logs an error, nor where two
  threads that begin sessions save them in the opposite order, as the lock has been
  released: the store then keeps the older one. `SavedIsNotForgotten` says what is kept:
  a session that was saved while no older one was about to be is never lost. An event
  that is stored in a session the store does not have, before the process ends, has
  `forked` the chain: two sessions of one user with the same `sessionIndex`.
- `set_subject(nullptr)` of another thread between the test of `m_subject`
  (`tracker.cpp:87`) and its use dereferences a null pointer; even with a Subject,
  the assignment to the `shared_ptr` is a data race with the read.
- `SNOWPLOW_SESSION_DEFAULT_TIMEOUT` is `30 * 1000 * 1000` milliseconds, 8 hours
  and 20 minutes; its comment says 30 minutes (`constants.hpp:107`). The session's
  properties hold for all timeouts, so no run is about this one.
- An event whose `track` throws late (text that is not UTF-8 in a context or in the
  Subject) has been counted by the session: its `eventIndex` stays used, and a session
  it began has a `firstEventId` that is never stored. `StoredThrewOrLogged` states
  what is kept.
- Calls of `track` that overlap may be stored in another order than the session
  counts them in; `CallOrderKept` is about those that do not.
- The map of a `Subject` is copied by `track` while setters may write it, and the
  static pointer to the desktop context is tested and set by all threads: data
  races. The models take each as read or written in one piece; several threads may
  then make the context, of which the last stays.
- `url_encode` passes a `char`, which may be negative, to `isalnum`. `HighAlnum` is
  what a library holds to be alphanumeric there; it is sent as it is, which
  decodes to the same byte. The run has it empty, as in the "C" locale.
- `create_tracker` with an emitter and a session configuration of one path silently
  replaces a session store the application has set with `set_session_store`
  (`snowplow.cpp:61`; the setter "Defines the database to use for session
  storage", `configuration/session_configuration.hpp:85`), for this tracker and for
  later ones made with the same configuration. `set_session_store` takes a null
  pointer; the configuration then opens its path, and after a constructor with a
  store the empty one, which is a temporary database. A session configuration
  made anew after a tracker was created with that path gets a connection of its
  own. `StoresAsConfigured` names these cases (`displaced`, `apart`).
- An emitter that is refused (its URL, or its namespace by the registry) has taken
  the HTTP client with it: `ClientSetIsUsed`.
- Custom retry rules are copied with `insert`, so of two rules for one code the
  first stays.
- Reading the session at the start is not told from an empty table when it
  fails: the next session is then of a new user.
- `set_default_tracker` takes a tracker whose namespace another one has: the
  default is then a tracker that `get_tracker` does not return.
- `remove_tracker` of a tracker that was never registered removes the one that is
  registered under the same namespace, and returns true.

## 6. Not modelled

- The bundled SQLite and JSON headers are third-party code, modelled from their
  use; so are libcurl, WinHTTP and NSURLSession (`HttpClient`), UUIDs, the clock and
  what the operating system says of the device.
- Settings that are only copied from a configuration to where they are used
  (sizes, timeouts, the callback, the platform, the cookie file) are constants of
  the models that use them. `main` programs, build files and performance tests have
  no state of the system.
- Exhaustion of threads or memory, and the width of row ids (`std::stoi` of an
  id beyond `int` needs 2^31 rows).
- Of the storage, statements that error paths leave unfinalised: the connection's
  handle is leaked and no caller sees another state. An error when the session is
  read at the start.
- Formatting: numbers and dates as text, the layout of JSON. The static buffer of
  `std::gmtime`, which two sessions may fill at once, only concerns such a text.
- `Tracking` and `Emitter` are not composed: they meet in the table of events, where
  a row is a payload to one and an event to the other. What `Tracking` shows for
  every group of rows sent together, `Emitter` shows to be what is sent, once or more.
  `AddEventFails` may fail at any time; when it does is `SqliteStorage`'s.

## 7. Plan

Done: all components modelled and checked, and all safety and action properties
proved. What is left:

1. A refinement of `Tracking` and `Emitter` to one queue of events in the order of
   their calls.
