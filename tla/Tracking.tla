------------------------------ MODULE Tracking ------------------------------
(***************************************************************************)
(* Tracker::track() (tracker.cpp) from the event to the request: threads   *)
(* that track events through one tracker, with its ClientSession, while    *)
(* the Subjects are changed, and what the daemon makes of the stored       *)
(* events (do_send of emitter.cpp).                                        *)
(*                                                                         *)
(* A step of track() ends where it has read what other threads change: the *)
(* tracker's Subject, the event's, the session, the desktop context.  Its  *)
(* critical sections are the actions of ClientSession.  That a Subject is  *)
(* a std::map which must not be read while it is written is left to the    *)
(* application; the static pointer to the desktop context is written once  *)
(* or by several threads, and seen only when its object is complete.  The  *)
(* tracker's Subject is read twice, and another thread may take it away in *)
(* between: the second read then ends the process.                         *)
(***************************************************************************)
EXTENDS ClientSession, Payload

CONSTANTS EventData,    \* what events are made of
          Trackers,     \* the configurations of a tracker
          Subjects,     \* the Subject objects of the application, with what
                        \* they hold at first
          Attribute,    \* the keys of a Subject that are set
          Value,        \* the texts they are set to
          MaxChanges    \* bound: how often Subjects and the clock are changed

\* The keys that the setters of Subject write.
SubjectKey == {Key.uid, Key.res, Key.vp, Key.cd, Key.tz, Key.lang, Key.ua, Key.ip}

\* Event ids are texts of one byte; a tracker and an event may have a Subject.
ASSUME TrackingAssumption ==
  /\ Event \subseteq 0..127
  /\ MaxChanges \in Nat
  /\ Trackers \subseteq [subject : SUBSET DOMAIN Subjects, method : {"GET", "POST"},
                         use_base64 : BOOLEAN, desktop_context : BOOLEAN,
                         client_session : BOOLEAN]
  /\ \A ev \in EventData : ev.subject \subseteq DOMAIN Subjects /\ IsEvent(ev)
  /\ Attribute \subseteq SubjectKey
  /\ \A v \in Value : v \in Text
  /\ \A s \in DOMAIN Subjects :
       /\ DOMAIN Subjects[s] \subseteq SubjectKey
       /\ Subjects[s] \in [DOMAIN Subjects[s] -> Text \ {<< >>}]

VARIABLES
  tracker,    \* m_subject, m_use_base64, m_desktop_context, whether there is
              \* a m_client_session, and the emitter's m_method
  subjects,   \* m_payload of each Subject
  desktop,    \* Utils::m_desktop_context has been set
  step,       \* step[t]: how far thread t is in track()
  call,       \* call[t]: the event it tracks and the payload so far
  log,        \* the events table, with the rows that were deleted
  changes,    \* how often Subjects and the clock were changed
  threw,      \* events whose track() threw
  lost,       \* events the store could not insert and logged
  add_stmt,   \* the store's insert statement: "ready", or "stepped" and not reset
  begun       \* history: of each call of track() that got past get_payload
              \* what it has read, and which had returned before it
VARIABLE alive   \* the process is: no Subject was read that is not there

store_vars == <<log, lost, add_stmt>>
trackingVars == <<tracker, subjects, desktop, step, call, store_vars, changes, threw, begun>>

NoCall == [event |-> NoEvent, payload |-> NoPairs]

\* The time in a payload.
Time(time) == Number(time)

TrackingInit ==
  /\ Init
  /\ tracker \in Trackers
  /\ subjects = Subjects
  /\ desktop = FALSE
  /\ step = [t \in Thread |-> "idle"]
  /\ call = [t \in Thread |-> NoCall]
  /\ log = << >>
  /\ changes = 0
  /\ threw = {} /\ begun = NoPairs
  /\ lost = {} /\ add_stmt = "ready"
  /\ alive = TRUE

Fresh(e) == /\ e \notin DOMAIN begun \cup threw
            /\ \A f \in Event : f < e => f \in DOMAIN begun \cup threw

\* Calls of track() that have returned or thrown.
Returned == {e \in DOMAIN begun : \A t \in Thread : call[t].event # e}

\* The pairs that every event of a tracker gets.
StandardPairs == Pair(Key.tv, << 99 >>) ++ Pair(Key.p, << 115 >>) ++ Pair(Key.aid, << >>)
                 ++ Pair(Key.tna, << 110 >>)

(***************************************************************************)
(* track()                                                                 *)
(***************************************************************************)
\* get_payload throws; nothing else has happened.
TrackThrows(t, e, ev) ==
  /\ step[t] = "idle" /\ Fresh(e)
  /\ Throws(ev)
  /\ threw' = threw \cup {e}
  /\ UNCHANGED <<vars, tracker, subjects, desktop, step, call, store_vars, changes, begun>>

Track(t, e, ev) ==
  /\ step[t] = "idle" /\ Fresh(e)
  /\ ~Throws(ev)
  /\ step' = [step EXCEPT ![t] = "subject"]
  /\ call' = [call EXCEPT ![t] =
       [event |-> e,
        payload |-> add_map(get_payload(ev, << e >>, Time(now), tracker.use_base64),
                            StandardPairs)]]
  /\ begun' = Pair(e, [data |-> ev, at |-> now, shared |-> NoPairs, own |-> NoPairs,
                       after |-> Returned]) ++ begun
  /\ UNCHANGED <<vars, tracker, subjects, desktop, store_vars, changes, threw>>

\* Whether the tracker has a Subject, and then its pairs; the pointer is read
\* again for them.
TestSubject(t) ==
  /\ step[t] = "subject"
  /\ step' = [step EXCEPT ![t] = IF tracker.subject = {} THEN "event_subject"
                                                         ELSE "use_subject"]
  /\ UNCHANGED <<vars, tracker, subjects, desktop, call, store_vars, changes, threw, begun>>

AddSubject(t) ==
  LET shared == subjects[CHOOSE s \in tracker.subject : TRUE]
  IN  /\ step[t] = "use_subject" /\ tracker.subject # {}
      /\ step' = [step EXCEPT ![t] = "event_subject"]
      /\ call' = [call EXCEPT ![t].payload = add_map(@, shared)]
      /\ begun' = [begun EXCEPT ![call[t].event].shared = shared]
      /\ UNCHANGED <<vars, tracker, subjects, desktop, store_vars, changes, threw>>

\* get_map() of a null pointer: the behaviour is undefined, and the process dies.
UseNullSubject(t) ==
  /\ alive /\ alive' = FALSE
  /\ step[t] = "use_subject" /\ tracker.subject = {}
  /\ UNCHANGED <<vars, trackingVars>>

\* What the event's own Subject adds to payload p; the faulty variant adds
\* what the event does not have yet.
WithoutOverriding(p, own) == p ++ own
WithEventSubject(p, own)  == add_map(p, own)

AddEventSubject(t) ==
  LET ev  == begun[call[t].event].data
      own == IF ev.subject = {} THEN NoPairs ELSE subjects[CHOOSE s \in ev.subject : TRUE]
  IN  /\ step[t] = "event_subject"
      /\ step' = [step EXCEPT ![t] = "session"]
      /\ call' = [call EXCEPT ![t].payload = WithEventSubject(@, own)]
      /\ begun' = [begun EXCEPT ![call[t].event].own = own]
      /\ UNCHANGED <<vars, tracker, subjects, desktop, store_vars, changes, threw>>

\* update_and_get_session_context.
GetSessionContext(t) ==
  /\ step[t] = "session" /\ tracker.client_session
  /\ \/ TrackInSession(t, call[t].event) \/ TrackInNewSession(t, call[t].event)
     \/ UpdateSession(t) \/ SaveSession(t) \/ SaveFails(t)
  /\ UNCHANGED trackingVars

\* get_desktop_context makes the context where it finds none, without a lock.
TestDesktopContext(t) ==
  /\ step[t] = "session"
  /\ tracker.client_session => pc[t] = "add"
  /\ step' = [step EXCEPT ![t] =
                IF tracker.desktop_context /\ ~desktop THEN "desktop" ELSE "add"]
  /\ UNCHANGED <<vars, tracker, subjects, desktop, call, store_vars, changes, threw, begun>>

MakeDesktopContext(t) ==
  /\ step[t] = "desktop"
  /\ desktop' = TRUE
  /\ step' = [step EXCEPT ![t] = "add"]
  /\ UNCHANGED <<vars, tracker, subjects, call, store_vars, changes, threw, begun>>

DesktopJson == SelfDescribingJson(Schema.desktop_context, << 100 >>)

EventId(e) == IF e = NoEvent THEN << >> ELSE << e >>
SessionJson(c) ==
  SelfDescribingJson(Schema.client_session,
    Members(<< Number(c.session.user), Number(c.session.id), Number(c.session.index),
               Number(c.session.previous), EventId(c.session.first),
               Number(c.event_index) >>))

\* The final context of an event.
AllContexts(ev, sessions) ==
  ev.context \o sessions \o IF tracker.desktop_context THEN << DesktopJson >> ELSE << >>

ContextJson(t) ==
  SelfDescribingJson(Schema.contexts,
    Array(AllContexts(begun[call[t].event].data,
                    IF tracker.client_session THEN << SessionJson(context[t]) >> ELSE << >>)))

HasContexts(t) == tracker.client_session \/ tracker.desktop_context
                  \/ begun[call[t].event].data.context # << >>

FinalPayload(t) ==
  IF HasContexts(t)
  THEN add_json(call[t].payload, ContextJson(t), tracker.use_base64, Key.cx, Key.co)
  ELSE call[t].payload

\* dump() throws, of the contexts or of the whole payload in add_event.
CannotStore(t) == (HasContexts(t) /\ ~Utf8(ContextJson(t))) \/ ~Serializable(FinalPayload(t))

Return(t) == /\ step' = [step EXCEPT ![t] = "idle"]
             /\ call' = [call EXCEPT ![t] = NoCall]

\* What the end of track() is for the contexts ClientSession has given out.
EndStored(t) == IF tracker.client_session THEN Add(t) ELSE UNCHANGED vars
EndUnstored(t) == IF tracker.client_session THEN Discard(t) ELSE UNCHANGED vars

\* Faulty variant of AddEvent: the event becomes the oldest.
AddEventFirst(t) ==
  /\ step[t] = "add" /\ ~CannotStore(t) /\ add_stmt = "ready"
  /\ log' = << FinalPayload(t) >> \o log
  /\ EndStored(t) /\ Return(t)
  /\ UNCHANGED <<tracker, subjects, desktop, changes, threw, begun, lost, add_stmt>>

\* The row is inserted, and the statement reset.
AddEvent(t) ==
  /\ step[t] = "add" /\ ~CannotStore(t) /\ add_stmt = "ready"
  /\ log' = Append(log, FinalPayload(t))
  /\ EndStored(t) /\ Return(t)
  /\ UNCHANGED <<tracker, subjects, desktop, changes, threw, begun, lost, add_stmt>>

\* The text cannot be bound, as after a step that failed, or the step fails and
\* the statement is not reset: add_event logs it, and track() returns the id.
AddEventFails(t) ==
  /\ step[t] = "add" /\ ~CannotStore(t)
  /\ lost' = lost \cup {call[t].event}
  /\ add_stmt' \in {add_stmt, "stepped"}
  /\ EndUnstored(t) /\ Return(t)
  /\ UNCHANGED <<tracker, subjects, desktop, log, changes, threw, begun>>

\* Faulty variant of AddEventThrows: track() catches it and returns the id.
AddEventSwallows(t) ==
  /\ step[t] = "add" /\ CannotStore(t)
  /\ EndUnstored(t) /\ Return(t)
  /\ UNCHANGED <<tracker, subjects, desktop, store_vars, changes, threw, begun>>

AddEventThrows(t) ==
  /\ step[t] = "add" /\ CannotStore(t)
  /\ threw' = threw \cup {call[t].event}
  /\ EndUnstored(t) /\ Return(t)
  /\ UNCHANGED <<tracker, subjects, desktop, store_vars, changes, begun>>

(***************************************************************************)
(* The application's changes, and the daemon                               *)
(***************************************************************************)
\* One of the setters of Subject.
SetAttribute(s, k, v) ==
  /\ changes < MaxChanges /\ changes' = changes + 1
  /\ subjects' = [subjects EXCEPT ![s] = add(@, k, v)]
  /\ UNCHANGED <<vars, tracker, desktop, step, call, store_vars, threw, begun>>

\* Tracker::set_subject, with a Subject or nullptr.
SetSubject(s) ==
  /\ changes < MaxChanges /\ changes' = changes + 1
  /\ tracker' = [tracker EXCEPT !.subject = s]
  /\ UNCHANGED <<vars, subjects, desktop, step, call, store_vars, threw, begun>>

\* start_new_session(), where it changes anything.
BeginSession(t) ==
  /\ step[t] = "idle" /\ tracker.client_session
  /\ ~m_is_new_session
  /\ StartNewSession(t)
  /\ UNCHANGED trackingVars

\* Time passes, or the clock is set back.
SetClock(time) ==
  /\ changes < MaxChanges /\ changes' = changes + 1
  /\ Clock(time)
  /\ UNCHANGED <<tracker, subjects, desktop, step, call, store_vars, threw, begun>>

\* do_send: the request that rows of the store are sent with, at a time; a GET
\* request has one event.
Request(rows, time) ==
  LET payloads == [i \in DOMAIN rows |-> deserialize_json_str(rows[i])]
  IN  IF tracker.method = "GET"
      THEN map_to_query_string(add(payloads[1], Key.stm, time))
      ELSE build_post_data_json(payloads, time)

TrackingStep ==
  \/ \E t \in Thread :
       \/ \E e \in Event, ev \in EventData : Track(t, e, ev) \/ TrackThrows(t, e, ev)
       \/ TestSubject(t) \/ AddSubject(t) \/ AddEventSubject(t)
       \/ GetSessionContext(t)
       \/ TestDesktopContext(t) \/ MakeDesktopContext(t)
       \/ AddEvent(t) \/ AddEventFails(t) \/ AddEventThrows(t)
       \/ BeginSession(t)
  \/ \E s \in DOMAIN Subjects, k \in Attribute, v \in Value : SetAttribute(s, k, v)
  \/ \E s \in DOMAIN Subjects : SetSubject({s})
  \/ SetSubject({})
  \/ \E time \in 0..MaxTime \ {now} : SetClock(time)

TrackingNext ==
  \/ alive /\ TrackingStep /\ UNCHANGED alive
  \/ \E t \in Thread : UseNullSubject(t)

TrackingSpec == TrackingInit /\ [][TrackingNext]_<<vars, trackingVars, alive>>

(***************************************************************************)
(* Properties                                                              *)
(***************************************************************************)
\* The pairs a collector gets of each event, whatever rows are sent together.
Events(time) ==
  IF tracker.method = "GET"
  THEN {Received(Request(<< log[i] >>, time)) : i \in DOMAIN log}
  ELSE UNION {ToSet(Request(SubSeq(log, m, n), time)) : m, n \in DOMAIN log}

\* A pair with a JSON document that may have been encoded.
Plain(k, v) == CASE k = Key.cx -> <<Key.co, base64_decode(v)>>
                 [] k = Key.ue_px -> <<Key.ue_pr, base64_decode(v)>>
                 [] OTHER -> <<k, v>>

\* The pairs of an event by themselves, and those of everything around it.
OwnPairs(e, ev) ==
  {<<Key.eid, << e >> >>, <<Key.dtm, Time(begun[e].at)>>}
  \cup {<<Key.ttm, v>> : v \in ev.true_timestamp}
  \cup CASE ev.kind = "structured" ->
              {<<Key.e, Structured>>, <<Key.se_ca, ev.category>>, <<Key.se_ac, ev.action>>}
              \cup {<<Key.se_la, v>> : v \in ev.label}
              \cup {<<Key.se_pr, v>> : v \in ev.property}
              \cup {<<Key.se_va, v>> : v \in ev.value}
         [] ev.kind = "custom" -> {<<Key.e, ev.type>>}
         [] OTHER -> {<<Key.e, SelfDescribing>>, <<Key.ue_pr, UnstructEvent(ev)>>}

SubjectPairs(e) ==
  LET own == begun[e].own
      shared == begun[e].shared
  IN  {<<k, own[k]>> : k \in DOMAIN own}
      \cup {<<k, shared[k]>> : k \in DOMAIN shared \ DOMAIN own}

ContextPairs(e, ev) ==
  LET of_session == IF tracker.client_session
                    THEN << SessionJson(CHOOSE c \in tracked : c.event = e) >> ELSE << >>
      of_device  == IF tracker.desktop_context THEN << DesktopJson >> ELSE << >>
      all        == ev.context \o of_session \o of_device
  IN  IF all = << >> THEN {}
      ELSE {<<Key.co, SelfDescribingJson(Schema.contexts, Array(all))>>}

\* What the collector decodes from a request, GET or POST, encoded or not, is
\* for each event what was tracked: its own fields and contexts, the session's
\* and the device's, and of the Subjects what they held when it was tracked,
\* the event's own before the tracker's; whatever bytes the texts have and
\* however the Subjects change meanwhile.  Nothing else is sent but the time.
SentAsTracked ==
  \A r \in Events(Time(now)) :
    \E e \in Returned \ (threw \cup lost) :
      /\ r[Key.stm] = Time(now)
      /\ {Plain(k, r[k]) : k \in DOMAIN r \ {Key.stm}} =
           {pair \in OwnPairs(e, begun[e].data)
                       \cup {<<k, StandardPairs[k]>> : k \in DOMAIN StandardPairs}
                       \cup SubjectPairs(e) \cup ContextPairs(e, begun[e].data) :
              pair[2] # << >>}

\* A call of track() that began after another had returned is behind it in the
\* store, and behind it in its session or in a later one.  (Calls that overlap
\* may be stored in one order and counted in the other.)
CallOrderKept ==
  /\ \A i, j \in DOMAIN log : \A f \in DOMAIN begun : \A e \in begun[f].after :
       log[i][Key.eid] = << e >> /\ log[j][Key.eid] = << f >> => i < j
  /\ \A c, d \in tracked :
       c.event \in begun[d.event].after =>
         \/ c.session.id < d.session.id
         \/ c.session.id = d.session.id /\ c.event_index < d.event_index

\* track() either throws, and then its event is not stored; or it returns, and
\* then the event is stored, once and in its session, or the store has logged
\* that it could not: there is no fourth way, and no event is counted by the
\* session that get_payload refused.
StoredThrewOrLogged ==
  LET Stored(e) == {i \in DOMAIN log : log[i][Key.eid] = << e >>}
      unstored  == threw \cup lost
  IN  /\ threw \cap lost = {}
      /\ \A e \in Returned \ unstored : Cardinality(Stored(e)) = 1
      /\ \A e \in unstored : Stored(e) = {}
      /\ tracker.client_session =>
           \A e \in Returned : (e \in unstored) <=> ~\E c \in tracked : c.event = e
      /\ \A c \in tracked \cup discarded : c.event \in DOMAIN begun
=============================================================================
