--------------------------- MODULE ClientSession ---------------------------
(***************************************************************************)
(* client_session.cpp, and track() of tracker.cpp which calls it:          *)
(* application threads that track events through one ClientSession, and    *)
(* the session store that outlives the process.                            *)
(* update_and_get_session_context tests under m_safe_get whether the       *)
(* session is over, and if so updates it under the lock and saves it to    *)
(* the store outside the lock.  start_new_session() sets its flag without  *)
(* the lock, so it may come between the test and the update.               *)
(*                                                                         *)
(* UUIDs are successive numbers, 0 stands for the empty string.            *)
(***************************************************************************)
EXTENDS Integers, FiniteSets

CONSTANTS Thread,             \* the application's threads
          Event,              \* event ids; each is tracked at most once
          MaxTime,            \* bound: the clock shows 0..MaxTime
          ForegroundTimeout, BackgroundTimeout,
          MaxRestarts,        \* bound: how often the process is run again
          NoEvent

ASSUME SessionAssumption ==
  /\ MaxTime \in Nat
  /\ ForegroundTimeout \in Nat
  /\ BackgroundTimeout \in Nat
  /\ MaxRestarts \in Nat
  /\ NoEvent \notin Event

VARIABLES
  m_user_id, m_current_session_id, m_session_index, m_event_index,
  m_session_context_data,
  m_is_new_session, m_is_background, m_last_session_check_at,
  store,       \* the session store
  now,         \* the clock; it may be set back
  restarts,    \* how often the process was run again
  uuids,       \* how many UUIDs have been given out
  pc,          \* pc[t]: "idle", or the step thread t takes next
  context,     \* the context thread t is preparing
  tracked,     \* the contexts of the events in the event store or sent
  discarded,   \* the contexts of events that were counted and not stored
  floor,       \* history: uuids, when a new session was last asked for
  last_call,   \* history: when a call last looked whether the session is over
  overrun,     \* history: since the session began, a pause was too long
  secured,     \* history: the last session saved with no older one about to be
  forked       \* history: the process died after an event of a session was
               \* stored that the session store did not know of

identity == <<m_user_id, m_current_session_id, m_session_index, m_event_index,
              m_session_context_data>>
events  == <<tracked, discarded>>
history == <<floor, last_call, overrun, secured, forked>>
vars == <<identity, m_is_new_session, m_is_background, m_last_session_check_at,
          store, now, restarts, uuids, pc, context, events, history>>

Session == [user : Nat, id : Nat, index : Nat, previous : Nat,
            first : Event \cup {NoEvent}]

\* What the store returns when it is empty, and the context data before the
\* first update.
NoSession == [user |-> 0, id |-> 0, index |-> 0, previous |-> 0, first |-> NoEvent]

\* A context for event e in session s.  asked and stale are history: floor
\* when the event was tracked, and whether a pause should have ended s by then.
Context(s, e, event_index, asked, stale) ==
  [session |-> s, event |-> e, event_index |-> event_index,
   asked |-> asked, stale |-> stale]
Contexts == [session : Session, event : Event \cup {NoEvent}, event_index : Nat,
             asked : Nat, stale : BOOLEAN]
NoContext == Context(NoSession, NoEvent, 0, 0, FALSE)

\* The constructor on an empty store; one whose content cannot be read is
\* emptied by it.
Init ==
  /\ store = NoSession
  /\ restarts = 0
  /\ uuids = 1 /\ m_user_id = 1
  /\ m_current_session_id = 0 /\ m_session_index = 0 /\ m_event_index = 0
  /\ m_session_context_data = NoSession
  /\ m_is_new_session = TRUE /\ m_is_background = FALSE
  /\ now = 0 /\ m_last_session_check_at = 0
  /\ pc = [t \in Thread |-> "idle"]
  /\ context = [t \in Thread |-> NoContext]
  /\ tracked = {} /\ discarded = {}
  /\ floor = 1 /\ last_call = 0 /\ overrun = FALSE /\ secured = 0 /\ forked = FALSE

Timeout == IF m_is_background THEN BackgroundTimeout ELSE ForegroundTimeout

\* should_update_session, and the part of it that looks at the clock.
TimedOut == now < m_last_session_check_at \/ now - m_last_session_check_at > Timeout
ShouldUpdateWhenAsked == m_is_new_session   \* a faulty variant
ShouldUpdateSession == m_is_new_session \/ TimedOut

\* The pause since the last call is beyond the timeout of the state the app has
\* been in, or the clock was set back: what ends a session, told from history.
Paused ==
  \/ now < last_call
  \/ now > last_call + (IF m_is_background THEN BackgroundTimeout ELSE ForegroundTimeout)

\* m_safe_get is free.
Unlocked == \A t \in Thread : pc[t] # "update"

New(e) == /\ \A c \in tracked \cup discarded : c.event # e
          /\ \A t \in Thread : context[t].event # e

\* The contexts of calls of track() under way that the session has counted.
Counted == {context[t] : t \in {u \in Thread : pc[u] \in {"save", "add"}}}

(***************************************************************************)
(* update_and_get_session_context                                          *)
(***************************************************************************)
\* The session goes on, and e gets this eventIndex.
Continue(t, e, event_index) ==
  /\ pc[t] = "idle" /\ New(e) /\ Unlocked
  /\ ~ShouldUpdateSession
  /\ m_last_session_check_at' = now
  /\ m_event_index' = event_index
  /\ context' = [context EXCEPT ![t] =
                   Context(m_session_context_data, e, event_index, floor, overrun \/ Paused)]
  /\ last_call' = now
  /\ pc' = [pc EXCEPT ![t] = "add"]
  /\ UNCHANGED <<m_user_id, m_current_session_id, m_session_index,
                 m_session_context_data, m_is_new_session, m_is_background, store, now,
                 restarts, uuids, events, floor, overrun, secured, forked>>

\* Faulty variants of TrackInSession: events are not counted; counted twice.
TrackUncounted(t, e) == Continue(t, e, m_event_index)
TrackSkipping(t, e)  == Continue(t, e, m_event_index + 2)

TrackInSession(t, e) == Continue(t, e, m_event_index + 1)

\* Faulty variant of TrackInNewSession: it does not take m_safe_get.
TrackUnlocked(t, e) ==
  /\ pc[t] = "idle" /\ New(e)
  /\ ShouldUpdateSession
  /\ pc' = [pc EXCEPT ![t] = "update"]
  /\ context' = [context EXCEPT ![t] = Context(NoSession, e, 0, floor, FALSE)]
  /\ UNCHANGED <<identity, m_is_new_session, m_is_background, m_last_session_check_at,
                 store, now, restarts, uuids, events, history>>

\* The session is over: the lock is kept.
TrackInNewSession(t, e) == Unlocked /\ TrackUnlocked(t, e)

\* The session that update_session begins with event e, and the faulty variant
\* that forgets the session before it.
UpdatedWithoutPrevious(e) ==
  [user |-> m_user_id, id |-> uuids + 1, index |-> m_session_index + 1,
   previous |-> uuids + 1, first |-> e]
Updated(e) ==
  [user |-> m_user_id, id |-> uuids + 1, index |-> m_session_index + 1,
   previous |-> m_current_session_id, first |-> e]

\* update_session and the rest of the critical section.
UpdateSession(t) ==
  LET e == context[t].event IN
  /\ pc[t] = "update"
  /\ m_is_new_session' = FALSE
  /\ m_session_context_data' = Updated(e)
  /\ m_current_session_id' = uuids + 1
  /\ uuids' = uuids + 1
  /\ m_session_index' = m_session_index + 1
  /\ m_event_index' = 1
  /\ m_last_session_check_at' = now
  /\ last_call' = now
  /\ overrun' = FALSE
  /\ context' = [context EXCEPT ![t] = Context(Updated(e), e, 1, @.asked, FALSE)]
  /\ pc' = [pc EXCEPT ![t] = "save"]
  /\ UNCHANGED <<m_user_id, m_is_background, store, now, restarts, events,
                 floor, secured, forked>>

\* History: once t has saved its session, no other thread is about to replace it
\* by an older one.
SecuredBy(t) ==
  IF \A u \in Thread \ {t} :
       pc[u] = "save" => context[u].session.id > context[t].session.id
  THEN context[t].session.id ELSE secured

\* Faulty variant of SaveSession: the flag is cleared again once the session is
\* saved.
SaveAndClear(t) ==
  /\ pc[t] = "save"
  /\ store' = context[t].session
  /\ m_is_new_session' = FALSE
  /\ secured' = SecuredBy(t)
  /\ pc' = [pc EXCEPT ![t] = "add"]
  /\ UNCHANGED <<identity, m_is_background, m_last_session_check_at,
                 now, restarts, uuids, context, events, floor, last_call, overrun, forked>>

\* set_session, after the lock has been released.
SaveSession(t) ==
  /\ pc[t] = "save"
  /\ store' = context[t].session
  /\ secured' = SecuredBy(t)
  /\ pc' = [pc EXCEPT ![t] = "add"]
  /\ UNCHANGED <<identity, m_is_new_session, m_is_background, m_last_session_check_at,
                 now, restarts, uuids, context, events, floor, last_call, overrun, forked>>

\* Faulty variant of SaveFails: the old session is deleted before the new one is
\* inserted, in place of one INSERT OR REPLACE.
SaveFailsHalfway(t) ==
  /\ pc[t] = "save"
  /\ store' = NoSession
  /\ pc' = [pc EXCEPT ![t] = "add"]
  /\ UNCHANGED <<identity, m_is_new_session, m_is_background, m_last_session_check_at,
                 now, restarts, uuids, context, events, history>>

\* SQLite reports an error; set_session logs it and returns.
SaveFails(t) ==
  /\ pc[t] = "save"
  /\ pc' = [pc EXCEPT ![t] = "add"]
  /\ UNCHANGED <<identity, m_is_new_session, m_is_background, m_last_session_check_at,
                 store, now, restarts, uuids, context, events, history>>

\* The rest of Tracker::track(): the context goes into the payload, and the
\* emitter stores the event.
Add(t) ==
  /\ pc[t] = "add"
  /\ tracked' = tracked \cup {context[t]}
  /\ context' = [context EXCEPT ![t] = NoContext]
  /\ pc' = [pc EXCEPT ![t] = "idle"]
  /\ UNCHANGED <<identity, m_is_new_session, m_is_background, m_last_session_check_at,
                 store, now, restarts, uuids, discarded, history>>

\* Or it throws, as json::dump() does for text that is not UTF-8, or the event
\* store only logs that it could not insert the row: the event is not stored,
\* and what the session has counted stays counted.
Discard(t) ==
  /\ pc[t] = "add"
  /\ discarded' = discarded \cup {context[t]}
  /\ context' = [context EXCEPT ![t] = NoContext]
  /\ pc' = [pc EXCEPT ![t] = "idle"]
  /\ UNCHANGED <<identity, m_is_new_session, m_is_background, m_last_session_check_at,
                 store, now, restarts, uuids, tracked, history>>

(***************************************************************************)
(* start_new_session and set_is_background                                 *)
(***************************************************************************)
StartNewSession(t) ==
  /\ pc[t] = "idle"
  /\ m_is_new_session' = TRUE
  /\ floor' = uuids
  /\ UNCHANGED <<identity, m_is_background, m_last_session_check_at, store, now,
                 restarts, uuids, pc, context, events, last_call, overrun, secured,
                 forked>>

SetIsBackground(t, is_background) ==
  /\ pc[t] = "idle" /\ Unlocked
  /\ m_is_new_session' = ShouldUpdateSession
  /\ m_last_session_check_at' = now
  /\ m_is_background' = is_background
  /\ last_call' = now
  /\ overrun' = (overrun \/ Paused)
  /\ UNCHANGED <<identity, store, now, restarts, uuids, pc, context, events, floor,
                 secured, forked>>

(***************************************************************************)
(* The environment                                                         *)
(***************************************************************************)
Clock(time) ==
  /\ now' = time
  /\ UNCHANGED <<identity, m_is_new_session, m_is_background, m_last_session_check_at,
                 store, restarts, uuids, pc, context, events, history>>

\* The process ends, at any point, and is run again on the same store.
Restart ==
  /\ restarts < MaxRestarts
  /\ restarts' = restarts + 1
  /\ IF store = NoSession
     THEN m_user_id' = uuids + 1 /\ uuids' = uuids + 1
     ELSE m_user_id' = store.user /\ UNCHANGED uuids
  /\ m_current_session_id' = store.id /\ m_session_index' = store.index
  /\ m_event_index' = 0 /\ m_session_context_data' = NoSession
  /\ m_is_new_session' = TRUE /\ m_is_background' = FALSE
  /\ m_last_session_check_at' = now
  /\ pc' = [t \in Thread |-> "idle"]
  /\ context' = [t \in Thread |-> NoContext]
  /\ floor' = uuids' /\ last_call' = now /\ overrun' = FALSE
  /\ forked' = (forked \/ \E c \in tracked : c.session.user = m_user_id
                                           /\ c.session.id > store.id)
  /\ discarded' = discarded \cup Counted
  /\ UNCHANGED <<store, now, tracked, secured>>

Next ==
  \/ \E t \in Thread :
       \/ \E e \in Event : TrackInSession(t, e) \/ TrackInNewSession(t, e)
       \/ UpdateSession(t) \/ SaveSession(t) \/ SaveFails(t)
       \/ Add(t) \/ Discard(t)
       \/ StartNewSession(t)
       \/ \E is_background \in BOOLEAN : SetIsBackground(t, is_background)
  \/ \E time \in 0..MaxTime : Clock(time)
  \/ Restart

Spec == Init /\ [][Next]_vars

(***************************************************************************)
(* Properties                                                              *)
(***************************************************************************)
\* Every variable keeps its type, and one thread at a time is between
\* should_update_session and the end of update_session.
TypeOK ==
  /\ m_user_id \in Nat /\ m_current_session_id \in Nat
  /\ m_session_index \in Nat /\ m_event_index \in Nat
  /\ m_session_context_data \in Session
  /\ m_is_new_session \in BOOLEAN /\ m_is_background \in BOOLEAN
  /\ now \in 0..MaxTime /\ m_last_session_check_at \in 0..MaxTime
  /\ store \in Session
  /\ restarts \in 0..MaxRestarts
  /\ uuids \in Nat
  /\ pc \in [Thread -> {"idle", "update", "save", "add"}]
  /\ \A t, u \in Thread : pc[t] = "update" /\ pc[u] = "update" => t = u
  /\ context \in [Thread -> Contexts]
  /\ tracked \subseteq Contexts /\ discarded \subseteq Contexts
  /\ floor \in Nat /\ last_call \in 0..MaxTime /\ secured \in Nat
  /\ overrun \in BOOLEAN /\ forked \in BOOLEAN

\* The contexts of one session agree on it, no two events have the same
\* eventIndex, and firstEventId is the event with eventIndex 1.
SessionsConsistent ==
  /\ \A c \in tracked : c.event_index = 1 <=> c.event = c.session.first
  /\ \A c, d \in tracked : c.session.id = d.session.id =>
       /\ c.session = d.session
       /\ c.event_index = d.event_index => c = d

\* The eventIndexes of a session have no gap but for the calls of track() that,
\* after the session had counted their event, threw, could not store it, or were
\* cut short by the end of the process.
NoEventIndexSkipped ==
  LET contexts == tracked \cup discarded \cup Counted
  IN  \A c \in contexts : c.event_index > 1 =>
        \E d \in contexts : /\ d.session.id = c.session.id
                            /\ d.event_index = c.event_index - 1

\* sessionIndex numbers a user's sessions, and previousSessionId is the session
\* with the number before, through restarts; unless the process died when an
\* event had been stored whose session was not saved, by another thread or
\* because of an error.
SessionsFormChain ==
  ~forked =>
    \A c, d \in tracked : c.session.user = d.session.user =>
      /\ c.session.index = d.session.index <=> c.session.id = d.session.id
      /\ d.session.index = c.session.index + 1 => d.session.previous = c.session.id

\* start_new_session(): an event tracked after the call belongs to a session
\* that began after the call, whichever threads are updating the session.
NewSessionHonoured == \A c \in tracked : c.session.id > c.asked

\* No event continues a session when the pause before its own track(), or one
\* before a set_is_background() since the session began, was beyond the timeout
\* for the state the app was in meanwhile, or the clock was set back in it.
NoStaleSession == \A c \in tracked : ~c.stale

\* A session that was saved, when no other thread was about to save an older one,
\* is never forgotten or replaced by an older one: whatever saves fail, overlap
\* or are cut short by the end of the process after it.
SavedIsNotForgotten == store.id >= secured
=============================================================================
