------------------------ MODULE ClientSessionProofs ------------------------
(***************************************************************************)
(* Theorems about ClientSession, for every set of threads and events, all  *)
(* timeouts and any number of restarts.                                    *)
(***************************************************************************)
EXTENDS ClientSession, TLAPS

(***************************************************************************)
(* Types, and the mutual exclusion of updates                              *)
(***************************************************************************)
LEMMA NoContextTyped == NoSession \in Session /\ NoContext \in Contexts
BY DEF NoSession, Session, NoContext, Context, Contexts

LEMMA TypeInit == Init => TypeOK
<1> SUFFICES ASSUME Init PROVE TypeOK
  OBVIOUS
<1>1. 0 \in 0..MaxTime /\ 0 \in 0..MaxRestarts
  BY SessionAssumption DEF SessionAssumption
<1>2. /\ pc \in [Thread -> {"idle", "update", "save", "add"}]
      /\ \A t \in Thread : pc[t] = "idle"
  BY DEF Init
<1>3. context \in [Thread -> Contexts]
  BY NoContextTyped DEF Init
<1> QED BY <1>1, <1>2, <1>3, NoContextTyped DEF Init, TypeOK

\* A session goes on, or a thread enters the critical section.
LEMMA TypeTrack ==
  ASSUME TypeOK, NEW t \in Thread, NEW e \in Event,
         TrackInSession(t, e) \/ TrackInNewSession(t, e)
  PROVE  TypeOK'
<1>1. CASE TrackInSession(t, e)
  <2>1. Context(m_session_context_data, e, m_event_index + 1, floor, overrun \/ Paused)
          \in Contexts
    <3>1. (overrun \/ Paused) \in BOOLEAN
      BY Zenon
    <3> QED BY <3>1 DEF TypeOK, Context, Contexts
  <2>2. context' \in [Thread -> Contexts]
    BY <1>1, <2>1 DEF TypeOK, TrackInSession, Continue
  <2> QED BY <1>1, <2>2 DEF TypeOK, TrackInSession, Continue, events, history
<1>2. CASE TrackInNewSession(t, e)
  <2>1. Context(NoSession, e, 0, floor, FALSE) \in Contexts
    BY NoContextTyped DEF TypeOK, Context, Contexts
  <2>2. context' \in [Thread -> Contexts]
    BY <1>2, <2>1 DEF TypeOK, TrackInNewSession, TrackUnlocked
  <2>3. \A u, v \in Thread : pc'[u] = "update" /\ pc'[v] = "update" => u = v
    BY <1>2 DEF TypeOK, TrackInNewSession, TrackUnlocked, Unlocked
  <2> QED BY <1>2, <2>2, <2>3
        DEF TypeOK, TrackInNewSession, TrackUnlocked, identity, events, history
<1> QED BY <1>1, <1>2

\* The session that begins is one, if the thread has an event.
LEMMA UpdatedTyped ==
  ASSUME TypeOK, NEW e \in Event \cup {NoEvent}
  PROVE  Updated(e) \in Session
BY DEF TypeOK, Updated, Session

LEMMA TypeUpdate ==
  ASSUME TypeOK, NEW t \in Thread, UpdateSession(t)
  PROVE  TypeOK'
<1> DEFINE e == context[t].event
<1>1. e \in Event \cup {NoEvent} /\ context[t].asked \in Nat
  BY DEF TypeOK, Contexts
<1>2. Updated(e) \in Session
  BY <1>1, UpdatedTyped
<1>3. Context(Updated(e), e, 1, context[t].asked, FALSE) \in Contexts
  BY <1>1, <1>2 DEF Context, Contexts
<1>4. context' \in [Thread -> Contexts]
  BY <1>3 DEF TypeOK, UpdateSession
<1>5. last_call' \in 0..MaxTime /\ secured' \in Nat
  BY DEF UpdateSession, TypeOK
<1>6. /\ pc' \in [Thread -> {"idle", "update", "save", "add"}]
      /\ \A u, v \in Thread : pc'[u] = "update" /\ pc'[v] = "update" => u = v
  BY DEF TypeOK, UpdateSession
<1>7. m_session_context_data' \in Session
  BY <1>2 DEF UpdateSession
<1>8. /\ UNCHANGED <<m_user_id, m_is_background, store, now, restarts, tracked,
                      discarded, floor, forked>>
      /\ m_is_new_session' = FALSE /\ overrun' = FALSE
      /\ m_current_session_id' = uuids + 1 /\ uuids' = uuids + 1
      /\ m_session_index' = m_session_index + 1 /\ m_event_index' = 1
      /\ m_last_session_check_at' = now
  BY DEF UpdateSession, events
<1>9. /\ m_user_id' \in Nat /\ m_current_session_id' \in Nat /\ uuids' \in Nat
      /\ m_session_index' \in Nat /\ m_event_index' \in Nat /\ floor' \in Nat
  BY <1>8 DEF TypeOK
<1>10. /\ m_is_new_session' \in BOOLEAN /\ m_is_background' \in BOOLEAN
       /\ overrun' \in BOOLEAN /\ forked' \in BOOLEAN
  BY <1>8, Zenon DEF TypeOK
<1>11. /\ now' \in 0..MaxTime /\ m_last_session_check_at' \in 0..MaxTime
       /\ store' \in Session /\ restarts' \in 0..MaxRestarts
       /\ tracked' \subseteq Contexts /\ discarded' \subseteq Contexts
  BY <1>8, Zenon DEF TypeOK
<1> QED BY <1>4, <1>5, <1>6, <1>7, <1>9, <1>10, <1>11, Zenon DEF TypeOK

\* Saving, or failing to, and the end of track().
LEMMA TypeSave ==
  ASSUME TypeOK, NEW t \in Thread,
         SaveSession(t) \/ SaveFails(t) \/ Add(t) \/ Discard(t)
  PROVE  TypeOK'
<1>1. context[t] \in Contexts /\ context[t].session \in Session
  BY DEF TypeOK, Contexts
<1>2. CASE SaveSession(t)
  <2>1. context[t].session.id \in Nat
    BY <1>1 DEF Session
  <2>2. secured' \in {secured, context[t].session.id}
    BY <1>2, Zenon DEF SaveSession, SecuredBy
  <2> QED BY <1>1, <1>2, <2>1, <2>2 DEF TypeOK, SaveSession, identity, events
<1>3. CASE SaveFails(t)
  BY <1>3 DEF TypeOK, SaveFails, identity, events, history
<1>4. CASE Add(t)
  BY <1>1, <1>4, NoContextTyped DEF TypeOK, Add, identity, history
<1>5. CASE Discard(t)
  BY <1>1, <1>5, NoContextTyped DEF TypeOK, Discard, identity, history
<1> QED BY <1>2, <1>3, <1>4, <1>5

LEMMA TypeControl ==
  ASSUME TypeOK, NEW t \in Thread,
         StartNewSession(t) \/ \E b \in BOOLEAN : SetIsBackground(t, b)
  PROVE  TypeOK'
<1>1. CASE StartNewSession(t)
  BY <1>1 DEF TypeOK, StartNewSession, identity, events
<1>2. ASSUME NEW b \in BOOLEAN, SetIsBackground(t, b)
      PROVE  TypeOK'
  <2>1. m_is_new_session' \in BOOLEAN /\ overrun' \in BOOLEAN
    BY <1>2, Zenon DEF SetIsBackground, ShouldUpdateSession
  <2> QED BY <1>2, <2>1 DEF TypeOK, SetIsBackground, identity, events
<1> QED BY <1>1, <1>2

LEMMA TypeEnvironment ==
  ASSUME TypeOK, Restart \/ \E time \in 0..MaxTime : Clock(time)
  PROVE  TypeOK'
<1>1. CASE Restart
  <2>1. store.user \in Nat /\ store.id \in Nat /\ store.index \in Nat
    BY DEF TypeOK, Session
  <2>2. m_user_id' \in Nat /\ uuids' \in Nat
    BY <1>1, <2>1 DEF TypeOK, Restart
  <2>3. forked' \in BOOLEAN
    BY <1>1, Zenon DEF Restart
  <2>4. Counted \subseteq Contexts
    BY DEF TypeOK, Counted
  <2>5. restarts' \in 0..MaxRestarts
    BY <1>1, SessionAssumption DEF SessionAssumption, TypeOK, Restart
  <2> QED BY <1>1, <2>1, <2>2, <2>3, <2>4, <2>5, NoContextTyped DEF TypeOK, Restart
<1>2. ASSUME NEW time \in 0..MaxTime, Clock(time)
      PROVE  TypeOK'
  BY <1>2 DEF TypeOK, Clock, identity, events, history
<1> QED BY <1>1, <1>2

LEMMA TypeStep == TypeOK /\ [Next]_vars => TypeOK'
<1> SUFFICES ASSUME TypeOK, [Next]_vars PROVE TypeOK'
  OBVIOUS
<1>1. CASE UNCHANGED vars
  BY <1>1 DEF TypeOK, vars, identity, events, history
<1>2. CASE Next
  BY <1>2, TypeTrack, TypeUpdate, TypeSave, TypeControl, TypeEnvironment DEF Next
<1> QED BY <1>1, <1>2

\* Every variable keeps its type, and one thread at a time updates the session.
THEOREM TypeCorrect == Spec => []TypeOK
BY TypeInit, TypeStep, PTL DEF Spec

(***************************************************************************)
(* start_new_session() is honoured                                         *)
(***************************************************************************)
\* A session that goes on began after the last call of start_new_session(), and
\* so will the one that a thread is about to begin.
NewSessionInv ==
  /\ floor <= uuids
  /\ ~m_is_new_session => floor < m_session_context_data.id
  /\ \A t \in Thread : pc[t] = "update" => context[t].asked <= uuids
  /\ \A t \in Thread : pc[t] \in {"save", "add"} => context[t].asked < context[t].session.id
  /\ NewSessionHonoured

LEMMA NewSessionInit == Init => NewSessionInv
BY DEF Init, NewSessionInv, NewSessionHonoured

\* The steps of track() up to the release of the lock.
LEMMA NewSessionTrack ==
  ASSUME TypeOK, NewSessionInv, NEW t \in Thread,
         (\E e \in Event : TrackInSession(t, e) \/ TrackInNewSession(t, e)) \/ UpdateSession(t)
  PROVE  NewSessionInv'
<1> USE DEF TypeOK, NewSessionInv, NewSessionHonoured
<1>1. ASSUME NEW e \in Event, TrackInSession(t, e)
      PROVE  NewSessionInv'
  <2>1. ~m_is_new_session
    BY <1>1 DEF TrackInSession, Continue, ShouldUpdateSession
  <2>2. /\ context'[t].asked = floor
        /\ context'[t].session = m_session_context_data
    BY <1>1 DEF TrackInSession, Continue, Context
  <2> QED BY <1>1, <2>1, <2>2 DEF TrackInSession, Continue, events, history
<1>2. ASSUME NEW e \in Event, TrackInNewSession(t, e)
      PROVE  NewSessionInv'
  <2>1. context'[t].asked = floor
    BY <1>2 DEF TrackInNewSession, TrackUnlocked, Context
  <2> QED BY <1>2, <2>1
        DEF TrackInNewSession, TrackUnlocked, identity, events, history
<1>3. CASE UpdateSession(t)
  <2>1. /\ context'[t].asked = context[t].asked
        /\ context'[t].session.id = uuids + 1
        /\ m_session_context_data'.id = uuids + 1
    BY <1>3 DEF UpdateSession, Context, Updated
  <2>2. context[t].asked \in Nat
    BY DEF Contexts
  <2>3. tracked' = tracked /\ floor' = floor /\ uuids' = uuids + 1 /\ pc[t] = "update"
    BY <1>3 DEF UpdateSession, events
  <2>4. \A u \in Thread : u # t => context'[u] = context[u] /\ pc'[u] = pc[u] /\ pc[u] # "update"
    BY <1>3 DEF UpdateSession
  <2>5. pc'[t] = "save"
    BY <1>3 DEF UpdateSession
  <2> QED BY <2>1, <2>2, <2>3, <2>4, <2>5
<1> QED BY <1>1, <1>2, <1>3

\* The rest of track(), the other calls, and the environment.
LEMMA NewSessionRest ==
  ASSUME TypeOK, NewSessionInv,
         \/ \E t \in Thread :
              \/ SaveSession(t) \/ SaveFails(t) \/ Add(t) \/ Discard(t)
              \/ StartNewSession(t)
              \/ \E b \in BOOLEAN : SetIsBackground(t, b)
         \/ \E time \in 0..MaxTime : Clock(time)
         \/ Restart
  PROVE  NewSessionInv'
<1> USE DEF TypeOK, NewSessionInv, NewSessionHonoured
<1>1. ASSUME NEW t \in Thread, SaveSession(t) \/ SaveFails(t)
      PROVE  NewSessionInv'
  BY <1>1 DEF SaveSession, SaveFails, identity, events, history
<1>2. ASSUME NEW t \in Thread, Add(t) \/ Discard(t)
      PROVE  NewSessionInv'
  <2>1. tracked' \subseteq tracked \cup {context[t]} /\ pc[t] = "add" /\ pc'[t] = "idle"
    BY <1>2 DEF Add, Discard
  <2>2. \A u \in Thread : u # t => context'[u] = context[u] /\ pc'[u] = pc[u]
    BY <1>2 DEF Add, Discard
  <2>3. UNCHANGED <<floor, uuids, m_is_new_session, m_session_context_data>>
    BY <1>2 DEF Add, Discard, identity, history
  <2> QED BY <2>1, <2>2, <2>3
<1>3. ASSUME NEW t \in Thread, StartNewSession(t)
      PROVE  NewSessionInv'
  BY <1>3 DEF StartNewSession, identity, events
<1>4. ASSUME NEW t \in Thread, NEW b \in BOOLEAN, SetIsBackground(t, b)
      PROVE  NewSessionInv'
  <2>1. ~m_is_new_session' => ~m_is_new_session
    BY <1>4 DEF SetIsBackground, ShouldUpdateSession
  <2> QED BY <1>4, <2>1 DEF SetIsBackground, identity, events
<1>5. ASSUME NEW time \in 0..MaxTime, Clock(time)
      PROVE  NewSessionInv'
  BY <1>5 DEF Clock, identity, events, history
<1>6. CASE Restart
  BY <1>6 DEF Restart
<1> QED BY <1>1, <1>2, <1>3, <1>4, <1>5, <1>6

LEMMA NewSessionStep == TypeOK /\ NewSessionInv /\ [Next]_vars => NewSessionInv'
<1> SUFFICES ASSUME TypeOK, NewSessionInv, [Next]_vars PROVE NewSessionInv'
  OBVIOUS
<1>1. CASE UNCHANGED vars
  BY <1>1 DEF NewSessionInv, NewSessionHonoured, vars, identity, events, history
<1>2. CASE Next
  BY <1>2, NewSessionTrack, NewSessionRest DEF Next
<1> QED BY <1>1, <1>2

\* An event tracked after start_new_session() is in a session begun after it,
\* whatever the other threads are doing to the session.
THEOREM NewSessionIsHonoured == Spec => []NewSessionHonoured
<1>1. NewSessionInv => NewSessionHonoured
  BY DEF NewSessionInv
<1> QED BY <1>1, TypeCorrect, NewSessionInit, NewSessionStep, PTL DEF Spec

(***************************************************************************)
(* No event continues a session that is over                               *)
(***************************************************************************)
\* The session knows when it was last called.  That a pause was too long is never
\* forgotten before the next session begins, although set_is_background() changes
\* the timeout and resets the time.
StaleInv ==
  /\ last_call = m_last_session_check_at
  /\ overrun => m_is_new_session
  /\ \A t \in Thread : pc[t] # "idle" => ~context[t].stale
  /\ NoStaleSession

LEMMA StaleInit == Init => StaleInv
BY DEF Init, StaleInv, NoStaleSession

LEMMA StaleNext == TypeOK /\ StaleInv /\ Next => StaleInv'
<1> SUFFICES ASSUME TypeOK, StaleInv, Next PROVE StaleInv'
  OBVIOUS
<1> USE DEF TypeOK, StaleInv, NoStaleSession
<1>1. ASSUME NEW t \in Thread, NEW e \in Event, TrackInSession(t, e)
      PROVE  StaleInv'
  <2>1. ~overrun /\ ~TimedOut
    BY <1>1 DEF TrackInSession, Continue, ShouldUpdateSession
  <2>2. ~Paused
    BY <2>1, SessionAssumption DEF SessionAssumption, TimedOut, Timeout, Paused
  <2>3. context'[t].stale = (overrun \/ Paused)
    BY <1>1, Zenon DEF TrackInSession, Continue, Context, TypeOK
  <2>4. ~context'[t].stale
    BY <2>1, <2>2, <2>3
  <2>5. /\ last_call' = m_last_session_check_at'
        /\ UNCHANGED <<overrun, m_is_new_session, tracked>>
        /\ \A u \in Thread : u # t => context'[u] = context[u] /\ pc'[u] = pc[u]
    BY <1>1 DEF TrackInSession, Continue, events
  <2> QED BY <2>4, <2>5
<1>2. ASSUME NEW t \in Thread, NEW e \in Event, TrackInNewSession(t, e)
      PROVE  StaleInv'
  <2>1. context'[t].stale = FALSE
    BY <1>2 DEF TrackInNewSession, TrackUnlocked, Context
  <2> QED BY <1>2, <2>1 DEF TrackInNewSession, TrackUnlocked, events, history
<1>3. ASSUME NEW t \in Thread, UpdateSession(t)
      PROVE  StaleInv'
  <2>1. context'[t].stale = FALSE /\ ~overrun'
    BY <1>3 DEF UpdateSession, Context
  <2>2. \A u \in Thread : u # t => context'[u] = context[u] /\ pc'[u] = pc[u]
    BY <1>3 DEF UpdateSession
  <2>3. tracked' = tracked /\ last_call' = m_last_session_check_at'
    BY <1>3 DEF UpdateSession, events
  <2> QED BY <2>1, <2>2, <2>3
<1>4. ASSUME NEW t \in Thread, SaveSession(t) \/ SaveFails(t)
      PROVE  StaleInv'
  BY <1>4 DEF SaveSession, SaveFails, events, history
<1>5. ASSUME NEW t \in Thread, Add(t) \/ Discard(t)
      PROVE  StaleInv'
  <2>1. tracked' \subseteq tracked \cup {context[t]} /\ pc[t] = "add" /\ pc'[t] = "idle"
    BY <1>5 DEF Add, Discard
  <2>2. \A u \in Thread : u # t => context'[u] = context[u] /\ pc'[u] = pc[u]
    BY <1>5 DEF Add, Discard
  <2>3. UNCHANGED <<overrun, m_is_new_session, last_call, m_last_session_check_at>>
    BY <1>5 DEF Add, Discard, history
  <2> QED BY <2>1, <2>2, <2>3
<1>6. ASSUME NEW t \in Thread, StartNewSession(t)
      PROVE  StaleInv'
  BY <1>6 DEF StartNewSession, events
<1>7. ASSUME NEW t \in Thread, NEW b \in BOOLEAN, SetIsBackground(t, b)
      PROVE  StaleInv'
  <2>1. overrun' => m_is_new_session'
    <3>1. Paused => TimedOut
      BY SessionAssumption DEF SessionAssumption, TimedOut, Timeout, Paused
    <3>2. overrun' = (overrun \/ Paused) /\ m_is_new_session' = ShouldUpdateSession
      BY <1>7 DEF SetIsBackground
    <3> QED BY <3>1, <3>2, Zenon DEF ShouldUpdateSession
  <2>2. /\ last_call' = m_last_session_check_at'
        /\ UNCHANGED <<pc, context, tracked>>
    BY <1>7 DEF SetIsBackground, events
  <2> QED BY <2>1, <2>2
<1>8. ASSUME NEW time \in 0..MaxTime, Clock(time)
      PROVE  StaleInv'
  BY <1>8 DEF Clock, events, history
<1>9. CASE Restart
  BY <1>9 DEF Restart
<1> QED BY <1>1, <1>2, <1>3, <1>4, <1>5, <1>6, <1>7, <1>8, <1>9 DEF Next

LEMMA StaleStep == TypeOK /\ StaleInv /\ [Next]_vars => StaleInv'
<1>1. StaleInv /\ UNCHANGED vars => StaleInv'
  BY DEF StaleInv, NoStaleSession, vars, events, history
<1> QED BY <1>1, StaleNext

\* No event continues a session after a pause, before its own track() or before a
\* set_is_background(), that was beyond the timeout of the state the app was in.
THEOREM SessionsEnd == Spec => []NoStaleSession
<1>1. StaleInv => NoStaleSession
  BY DEF StaleInv
<1> QED BY <1>1, TypeCorrect, StaleInit, StaleStep, PTL DEF Spec

(***************************************************************************)
(* A saved session is not forgotten                                        *)
(***************************************************************************)
\* A session about to be saved is newer than the secured one.
SaveInv ==
  /\ secured <= uuids
  /\ \A t \in Thread : pc[t] = "save" => /\ secured < context[t].session.id
                                         /\ context[t].session.id <= uuids
  /\ SavedIsNotForgotten

LEMMA SaveInit == Init => SaveInv
BY DEF Init, SaveInv, SavedIsNotForgotten, NoSession

LEMMA SaveNext == TypeOK /\ SaveInv /\ Next => SaveInv'
<1> SUFFICES ASSUME TypeOK, SaveInv, Next PROVE SaveInv'
  OBVIOUS
<1> USE DEF SaveInv, SavedIsNotForgotten
<1>1. /\ uuids \in Nat /\ secured \in Nat
      /\ \A t \in Thread : context[t].session.id \in Nat
  BY DEF TypeOK, Contexts, Session
<1>2. ASSUME NEW t \in Thread, NEW e \in Event, TrackInSession(t, e)
      PROVE  SaveInv'
  BY <1>2 DEF TypeOK, TrackInSession, Continue
<1>3. ASSUME NEW t \in Thread, NEW e \in Event, TrackInNewSession(t, e)
      PROVE  SaveInv'
  BY <1>3 DEF TypeOK, TrackInNewSession, TrackUnlocked, identity, history
<1>4. ASSUME NEW t \in Thread, UpdateSession(t)
      PROVE  SaveInv'
  <2>1. context'[t].session.id = uuids + 1
    BY <1>4 DEF TypeOK, UpdateSession, Context, Updated
  <2>2. \A u \in Thread : u # t => context'[u] = context[u] /\ pc'[u] = pc[u]
    BY <1>4 DEF TypeOK, UpdateSession
  <2>3. uuids' = uuids + 1 /\ UNCHANGED <<secured, store>>
    BY <1>4 DEF UpdateSession
  <2> QED BY <1>1, <2>1, <2>2, <2>3
<1>5. ASSUME NEW t \in Thread, SaveSession(t)
      PROVE  SaveInv'
  <2>1. /\ pc[t] = "save" /\ pc'[t] = "add" /\ store' = context[t].session
        /\ \A u \in Thread : u # t => pc'[u] = pc[u]
        /\ UNCHANGED <<context, uuids>>
    BY <1>5 DEF TypeOK, SaveSession
  <2>2. CASE \A u \in Thread \ {t} :
                pc[u] = "save" => context[u].session.id > context[t].session.id
    <3>1. secured' = context[t].session.id
      BY <1>5, <2>2, Zenon DEF SaveSession, SecuredBy
    <3> QED BY <1>1, <2>1, <2>2, <3>1
  <2>3. CASE ~\A u \in Thread \ {t} :
                pc[u] = "save" => context[u].session.id > context[t].session.id
    <3>1. secured' = secured
      BY <1>5, <2>3, Zenon DEF SaveSession, SecuredBy
    <3> QED BY <1>1, <2>1, <3>1
  <2> QED BY <2>2, <2>3
<1>6. ASSUME NEW t \in Thread, SaveFails(t)
      PROVE  SaveInv'
  BY <1>6 DEF TypeOK, SaveFails, history
<1>7. ASSUME NEW t \in Thread, Add(t) \/ Discard(t)
      PROVE  SaveInv'
  <2>1. /\ pc'[t] = "idle"
        /\ UNCHANGED <<store, uuids, secured>>
    BY <1>7 DEF TypeOK, Add, Discard, history
  <2>2. \A u \in Thread : u # t => context'[u] = context[u] /\ pc'[u] = pc[u]
    BY <1>7 DEF TypeOK, Add, Discard
  <2> QED BY <2>1, <2>2
<1>8. ASSUME NEW t \in Thread, StartNewSession(t) \/ \E b \in BOOLEAN : SetIsBackground(t, b)
      PROVE  SaveInv'
  BY <1>8 DEF StartNewSession, SetIsBackground
<1>9. ASSUME NEW time \in 0..MaxTime, Clock(time)
      PROVE  SaveInv'
  BY <1>9 DEF Clock, history
<1>10. CASE Restart
  <2>1. uuids' \in {uuids, uuids + 1} /\ UNCHANGED <<secured, store>>
    BY <1>10 DEF Restart
  <2>2. \A t \in Thread : pc'[t] = "idle"
    BY <1>10 DEF Restart
  <2> QED BY <1>1, <2>1, <2>2
<1> QED BY <1>2, <1>3, <1>4, <1>5, <1>6, <1>7, <1>8, <1>9, <1>10 DEF Next

LEMMA SaveStep == TypeOK /\ SaveInv /\ [Next]_vars => SaveInv'
<1>1. SaveInv /\ UNCHANGED vars => SaveInv'
  BY DEF SaveInv, SavedIsNotForgotten, vars, history
<1> QED BY <1>1, SaveNext

\* A session saved with no older one about to be is never forgotten nor replaced
\* by an older one, whatever saves fail or overlap and however processes end.
THEOREM SavedSessionsStay == Spec => []SavedIsNotForgotten
<1>1. SaveInv => SavedIsNotForgotten
  BY DEF SaveInv
<1> QED BY <1>1, TypeCorrect, SaveInit, SaveStep, PTL DEF Spec

(***************************************************************************)
(* The contexts of a session                                               *)
(***************************************************************************)
\* Every context a session has counted, whatever became of its event.
All == tracked \cup discarded \cup Counted

\* What a counted context has to do with the present session ...
ContextInv(c) ==
  /\ c.session.id >= 1 /\ c.session.id <= uuids
  /\ c.event_index >= 1
  /\ c.event_index = 1 <=> c.event = c.session.first
  /\ c.session.id = m_session_context_data.id =>
       c.session = m_session_context_data /\ c.event_index <= m_event_index

\* ... and two of them with each other.
PairInv(c, d) ==
  c.session.id = d.session.id =>
    /\ c.session = d.session
    /\ c.event_index = d.event_index => c = d

\* A session that may go on has counted m_event_index events, its first among
\* them.
SessionInv ==
  /\ m_session_context_data.id <= uuids
  /\ \A c \in All : ContextInv(c)
  /\ \A c, d \in All : PairInv(c, d)
  /\ ~m_is_new_session =>
       /\ m_event_index >= 1
       /\ \E d \in All : /\ d.session.id = m_session_context_data.id
                        /\ d.event_index = m_event_index
       /\ \E d \in All : d.event = m_session_context_data.first
  /\ \A c \in All : c.event_index > 1 =>
       \E d \in All : /\ d.session.id = c.session.id
                      /\ d.event_index = c.event_index - 1

LEMMA SessionInit == Init => SessionInv
<1> SUFFICES ASSUME Init PROVE SessionInv
  OBVIOUS
<1>1. All = {}
  BY DEF Init, All, Counted
<1> QED BY <1>1 DEF Init, SessionInv, NoSession

\* The contexts have the types the arithmetic needs.
LEMMA AllTyped ==
  ASSUME TypeOK
  PROVE  All \subseteq Contexts /\ \A c \in All : c.session.id \in Nat /\ c.event_index \in Nat
<1>1. All \subseteq Contexts
  BY DEF TypeOK, All, Counted
<1>2. \A c \in Contexts : c.session.id \in Nat /\ c.event_index \in Nat
  BY DEF Contexts, Session
<1> QED BY <1>1, <1>2

\* A step that counts no event and leaves the session as it is or closes it.
LEMMA SessionSame ==
  ASSUME SessionInv, All' = All, uuids' = uuids, m_is_new_session => m_is_new_session',
         UNCHANGED <<m_session_context_data, m_event_index>>
  PROVE  SessionInv'
BY DEF SessionInv, ContextInv, PairInv

\* The process is run again: what was counted is counted no more, and the next
\* session has a new id.
LEMMA SessionRestart ==
  ASSUME TypeOK, SessionInv, Restart
  PROVE  SessionInv'
<1>1. Counted' = {}
  BY DEF Restart, Counted
<1>2. All' = All
  BY <1>1 DEF Restart, All
<1>3. m_session_context_data'.id = 0 /\ m_is_new_session'
  BY DEF Restart, NoSession
<1>4. uuids \in Nat /\ uuids' \in Nat /\ uuids' >= uuids
  BY DEF Restart, TypeOK
<1>5. \A c \in All : c.session.id \in Nat
  BY AllTyped
<1> QED BY <1>2, <1>3, <1>4, <1>5 DEF SessionInv, ContextInv, PairInv

\* The session goes on: the new context has the next eventIndex, and its event
\* is not the first of the session.
LEMMA SessionContinue ==
  ASSUME TypeOK, SessionInv, NEW t \in Thread, NEW e \in Event, TrackInSession(t, e)
  PROVE  SessionInv'
<1> DEFINE c == Context(m_session_context_data, e, m_event_index + 1, floor, overrun \/ Paused)
<1>1. /\ c.session = m_session_context_data /\ c.event = e
      /\ c.event_index = m_event_index + 1
  BY DEF Context
<1>2. /\ pc[t] = "idle" /\ New(e) /\ ~m_is_new_session
      /\ m_event_index' = m_event_index + 1
      /\ UNCHANGED <<uuids, m_session_context_data, m_is_new_session, tracked, discarded>>
  BY DEF TrackInSession, Continue, ShouldUpdateSession, events
<1>3. context'[t] = c /\ pc'[t] = "add"
  BY DEF TrackInSession, Continue, TypeOK
<1>4. \A u \in Thread : u # t => context'[u] = context[u] /\ pc'[u] = pc[u]
  BY DEF TrackInSession, Continue, TypeOK
<1> HIDE DEF c
<1>5. Counted' = Counted \cup {c}
  BY <1>2, <1>3, <1>4 DEF Counted
<1>6. All' = All \cup {c}
  BY <1>2, <1>5 DEF All
<1>7. \A d \in All : d.event # e
  BY <1>2 DEF New, All, Counted
<1>8. \A d \in All : d.session.id \in Nat /\ d.event_index \in Nat
  BY AllTyped
<1>9. m_event_index \in Nat /\ uuids \in Nat /\ m_event_index >= 1
  BY <1>2 DEF TypeOK, SessionInv
<1>10. /\ m_session_context_data.id >= 1 /\ m_session_context_data.id <= uuids
       /\ c.event # m_session_context_data.first
  BY <1>1, <1>2, <1>7 DEF SessionInv, ContextInv
<1>11. \A d \in All' : ContextInv(d)'
  BY <1>1, <1>2, <1>6, <1>8, <1>9, <1>10 DEF SessionInv, ContextInv
<1>12. \A d \in All : d.session.id = m_session_context_data.id =>
         d.session = m_session_context_data /\ d.event_index # c.event_index
  BY <1>1, <1>8, <1>9 DEF SessionInv, ContextInv
<1>13. \A b, d \in All' : PairInv(b, d)'
  BY <1>1, <1>6, <1>12 DEF SessionInv, PairInv
<1>14. \A d \in All' : d.event_index > 1 =>
         \E b \in All' : b.session.id = d.session.id /\ b.event_index = d.event_index - 1
  BY <1>1, <1>2, <1>6, <1>9 DEF SessionInv
<1>15. /\ m_event_index' >= 1
       /\ \E d \in All' : /\ d.session.id = m_session_context_data'.id
                         /\ d.event_index = m_event_index'
       /\ \E d \in All' : d.event = m_session_context_data'.first
  BY <1>1, <1>2, <1>6, <1>9 DEF SessionInv
<1>16. m_session_context_data'.id <= uuids'
  BY <1>2 DEF SessionInv
<1> QED BY <1>11, <1>13, <1>14, <1>15, <1>16 DEF SessionInv

\* A session begins: no context has its id, and the new one is its first.
LEMMA SessionBegin ==
  ASSUME TypeOK, SessionInv, NEW t \in Thread, UpdateSession(t)
  PROVE  SessionInv'
<1> DEFINE e == context[t].event
           c == Context(Updated(e), e, 1, context[t].asked, FALSE)
<1>1. /\ c.session.id = uuids + 1 /\ c.session.first = c.event /\ c.event_index = 1
  BY DEF Context, Updated
<1>2. /\ pc[t] = "update" /\ m_event_index' = 1 /\ uuids' = uuids + 1
      /\ m_session_context_data' = c.session
      /\ UNCHANGED <<tracked, discarded>>
  BY DEF UpdateSession, events, Context
<1>3. context'[t] = c /\ pc'[t] = "save"
  BY DEF UpdateSession, TypeOK
<1>4. \A u \in Thread : u # t => context'[u] = context[u] /\ pc'[u] = pc[u]
  BY DEF UpdateSession, TypeOK
<1> HIDE DEF c
<1>5. Counted' = Counted \cup {c}
  BY <1>2, <1>3, <1>4 DEF Counted
<1>6. All' = All \cup {c}
  BY <1>2, <1>5 DEF All
<1>7. uuids \in Nat /\ \A d \in All : d.session.id \in Nat /\ d.event_index \in Nat
  BY AllTyped DEF TypeOK
<1>8. \A d \in All : d.session.id # uuids + 1
  BY <1>7 DEF SessionInv, ContextInv
<1>9. \A d \in All' : ContextInv(d)'
  BY <1>1, <1>2, <1>6, <1>7, <1>8 DEF SessionInv, ContextInv
<1>10. \A b, d \in All' : PairInv(b, d)'
  BY <1>1, <1>6, <1>8 DEF SessionInv, PairInv
<1>11. \A d \in All' : d.event_index > 1 =>
         \E b \in All' : b.session.id = d.session.id /\ b.event_index = d.event_index - 1
  BY <1>1, <1>6 DEF SessionInv
<1>12. /\ m_event_index' >= 1
       /\ \E d \in All' : /\ d.session.id = m_session_context_data'.id
                         /\ d.event_index = m_event_index'
       /\ \E d \in All' : d.event = m_session_context_data'.first
  BY <1>1, <1>2, <1>6
<1>13. m_session_context_data'.id <= uuids'
  BY <1>1, <1>2, <1>7
<1> QED BY <1>9, <1>10, <1>11, <1>12, <1>13 DEF SessionInv

\* The other steps: a context moves on, or nothing is counted.
LEMMA SessionOther ==
  ASSUME TypeOK, SessionInv,
         \/ \E t \in Thread :
              \/ \E e \in Event : TrackInNewSession(t, e)
              \/ SaveSession(t) \/ SaveFails(t) \/ Add(t) \/ Discard(t)
              \/ StartNewSession(t)
              \/ \E b \in BOOLEAN : SetIsBackground(t, b)
         \/ \E time \in 0..MaxTime : Clock(time)
  PROVE  SessionInv'
<1>1. ASSUME NEW t \in Thread, NEW e \in Event, TrackInNewSession(t, e)
      PROVE  SessionInv'
  <2>1. /\ pc[t] = "idle" /\ pc'[t] = "update"
        /\ \A u \in Thread : u # t => context'[u] = context[u] /\ pc'[u] = pc[u]
    BY <1>1 DEF TrackInNewSession, TrackUnlocked, TypeOK
  <2>2. Counted' = Counted
    BY <2>1 DEF Counted
  <2>3. All' = All
    BY <1>1, <2>2 DEF TrackInNewSession, TrackUnlocked, events, All
  <2> QED BY <1>1, <2>3, SessionSame DEF TrackInNewSession, TrackUnlocked, identity
<1>2. ASSUME NEW t \in Thread, SaveSession(t) \/ SaveFails(t)
      PROVE  SessionInv'
  <2>1. /\ pc[t] = "save" /\ pc'[t] = "add" /\ context' = context
        /\ \A u \in Thread : u # t => pc'[u] = pc[u]
    BY <1>2 DEF SaveSession, SaveFails, TypeOK
  <2>2. Counted' = Counted
    BY <2>1 DEF Counted
  <2>3. All' = All
    BY <1>2, <2>2 DEF SaveSession, SaveFails, events, All
  <2> QED BY <1>2, <2>3, SessionSame DEF SaveSession, SaveFails, identity
<1>3. ASSUME NEW t \in Thread, Add(t) \/ Discard(t)
      PROVE  SessionInv'
  <2>1. /\ pc[t] = "add" /\ pc'[t] = "idle"
        /\ \A u \in Thread : u # t => context'[u] = context[u] /\ pc'[u] = pc[u]
    BY <1>3 DEF Add, Discard, TypeOK
  <2>2. Counted' \cup {context[t]} = Counted
    BY <2>1 DEF Counted
  <2>3. tracked' \cup discarded' = tracked \cup discarded \cup {context[t]}
    BY <1>3 DEF Add, Discard
  <2>4. All' = All
    BY <2>2, <2>3 DEF All
  <2> QED BY <1>3, <2>4, SessionSame DEF Add, Discard, identity
<1>4. ASSUME NEW t \in Thread, StartNewSession(t) \/ \E b \in BOOLEAN : SetIsBackground(t, b)
      PROVE  SessionInv'
  <2>1. All' = All
    BY <1>4 DEF StartNewSession, SetIsBackground, events, All, Counted
  <2>2. m_is_new_session => m_is_new_session'
    BY <1>4 DEF StartNewSession, SetIsBackground, ShouldUpdateSession
  <2> QED BY <1>4, <2>1, <2>2, SessionSame DEF StartNewSession, SetIsBackground, identity
<1>5. ASSUME NEW time \in 0..MaxTime, Clock(time)
      PROVE  SessionInv'
  <2>1. All' = All
    BY <1>5 DEF Clock, events, All, Counted
  <2> QED BY <1>5, <2>1, SessionSame DEF Clock, identity
<1> QED BY <1>1, <1>2, <1>3, <1>4, <1>5

LEMMA SessionStep == TypeOK /\ SessionInv /\ [Next]_vars => SessionInv'
<1> SUFFICES ASSUME TypeOK, SessionInv, [Next]_vars PROVE SessionInv'
  OBVIOUS
<1>1. CASE UNCHANGED vars
  <2>1. All' = All
    BY <1>1 DEF vars, events, All, Counted
  <2> QED BY <1>1, <2>1, SessionSame DEF vars, identity
<1>2. CASE Next
  BY <1>2, SessionContinue, SessionBegin, SessionOther, SessionRestart DEF Next
<1> QED BY <1>1, <1>2

\* Contexts of one session agree on it, with one event for each eventIndex and
\* firstEventId the event of eventIndex 1.
THEOREM ContextsAgree == Spec => []SessionsConsistent
<1>1. SessionInv => SessionsConsistent
  BY DEF SessionInv, SessionsConsistent, ContextInv, PairInv, All
<1> QED BY <1>1, TypeCorrect, SessionInit, SessionStep, PTL DEF Spec

\* The eventIndexes of a session have no gap but for calls of track() that threw,
\* could not store their event or were cut short.
THEOREM IndexesHaveNoGap == Spec => []NoEventIndexSkipped
<1>1. SessionInv => NoEventIndexSkipped
  BY DEF SessionInv, NoEventIndexSkipped, All
<1> QED BY <1>1, TypeCorrect, SessionInit, SessionStep, PTL DEF Spec

(***************************************************************************)
(* The chain of sessions                                                   *)
(***************************************************************************)
\* The sessions this process may still track events in or save, and with them
\* those that events have been stored with.
Live == {c.session : c \in Counted} \cup {s \in {store, m_session_context_data} : s # NoSession}
Known == {c.session : c \in tracked} \cup Live

\* Two sessions of a user are numbered as they began, and the later of two in a
\* row names the earlier.
Ordered(s, r) ==
  s.user = r.user =>
    /\ s.index = r.index <=> s.id = r.id
    /\ s.id < r.id => s.index < r.index
    /\ r.index = s.index + 1 => r.previous = s.id

\* The present session is the last of its user's, unless the chain has forked.
ChainInv ==
  /\ m_current_session_id <= uuids /\ m_user_id <= uuids
  /\ \A s \in Known : s.id <= uuids /\ s.user <= uuids
  /\ \A s \in Live : s.user = m_user_id
  /\ ~m_is_new_session => m_session_context_data # NoSession
  /\ ~forked =>
       /\ \A s \in Known : s.user = m_user_id =>
            /\ s.id <= m_current_session_id /\ s.index <= m_session_index
            /\ s.id = m_current_session_id <=> s.index = m_session_index
       /\ \A s, r \in Known : Ordered(s, r)

LEMMA KnownTyped ==
  ASSUME TypeOK
  PROVE  /\ Known \subseteq Session
         /\ \A s \in Known : s.id \in Nat /\ s.index \in Nat /\ s.user \in Nat
<1>1. \A c \in Counted \cup tracked : c.session \in Session
  BY DEF TypeOK, Counted, Contexts
<1>2. Known \subseteq Session
  BY <1>1 DEF Known, Live, TypeOK
<1>3. \A s \in Session : s.id \in Nat /\ s.index \in Nat /\ s.user \in Nat
  BY DEF Session
<1> QED BY <1>2, <1>3

LEMMA ChainInit == Init => ChainInv
<1> SUFFICES ASSUME Init PROVE ChainInv
  OBVIOUS
<1>1. Known = {} /\ Live = {}
  BY DEF Init, Known, Live, Counted
<1> QED BY <1>1 DEF Init, ChainInv

\* A step that begins no session.
LEMMA ChainSame ==
  ASSUME ChainInv, Known' \subseteq Known, Live' \subseteq Live,
         m_is_new_session => m_is_new_session',
         UNCHANGED <<m_current_session_id, m_user_id, m_session_index,
                     m_session_context_data, uuids, forked>>
  PROVE  ChainInv'
BY DEF ChainInv, Ordered

LEMMA ChainTrack ==
  ASSUME TypeOK, ChainInv, NEW t \in Thread, NEW e \in Event,
         TrackInSession(t, e) \/ TrackInNewSession(t, e)
  PROVE  ChainInv'
<1>1. /\ UNCHANGED <<m_user_id, m_current_session_id, m_session_index,
                      m_session_context_data, m_is_new_session, uuids, forked, tracked,
                      store>>
      /\ pc[t] = "idle"
  BY DEF TrackInSession, Continue, TrackInNewSession, TrackUnlocked, identity, events, history
<1>2. \A u \in Thread : u # t => context'[u] = context[u] /\ pc'[u] = pc[u]
  BY DEF TrackInSession, Continue, TrackInNewSession, TrackUnlocked, TypeOK
<1>3. \/ pc'[t] = "update"
      \/ /\ context'[t].session = m_session_context_data
         /\ m_session_context_data # NoSession
  BY DEF TrackInSession, Continue, TrackInNewSession, TrackUnlocked, TypeOK, Context,
         ShouldUpdateSession, ChainInv
<1>4. \A c \in Counted' : c \in Counted \/ (c.session = m_session_context_data
                                           /\ m_session_context_data # NoSession)
  BY <1>1, <1>2, <1>3 DEF Counted
<1>5. Live' \subseteq Live
  BY <1>1, <1>4 DEF Live
<1>6. Known' \subseteq Known
  BY <1>1, <1>5 DEF Known
<1> QED BY <1>1, <1>5, <1>6, ChainSame

\* The session that begins is numbered after all others of the user, and names
\* the one before.
LEMMA ChainUpdate ==
  ASSUME TypeOK, ChainInv, NEW t \in Thread, UpdateSession(t)
  PROVE  ChainInv'
<1> PICK s : s = Updated(context[t].event)
  OBVIOUS
<1>1. /\ s.user = m_user_id /\ s.id = uuids + 1 /\ s.index = m_session_index + 1
      /\ s.previous = m_current_session_id
  BY DEF Updated
<1>2. /\ m_session_context_data' = s /\ uuids' = uuids + 1
      /\ m_current_session_id' = uuids + 1 /\ m_session_index' = m_session_index + 1
      /\ UNCHANGED <<m_user_id, store, tracked, forked>>
  BY DEF UpdateSession, events
<1>3. /\ context'[t].session = s
      /\ \A u \in Thread : u # t => context'[u] = context[u] /\ pc'[u] = pc[u]
  BY DEF UpdateSession, TypeOK, Context
<1>4. \A c \in Counted' : c \in Counted \/ c.session = s
  BY <1>3 DEF Counted
<1>5. Live' \subseteq Live \cup {s} /\ Known' \subseteq Known \cup {s}
  BY <1>2, <1>4 DEF Live, Known
<1>6. s # NoSession
  BY <1>1 DEF NoSession, TypeOK
<1>7. /\ \A r \in Known : r.id \in Nat /\ r.index \in Nat /\ r.user \in Nat
      /\ uuids \in Nat /\ m_session_index \in Nat /\ m_current_session_id \in Nat
      /\ m_user_id \in Nat
  BY KnownTyped DEF TypeOK
<1>8. m_current_session_id' <= uuids' /\ m_user_id' <= uuids'
  BY <1>2, <1>7 DEF ChainInv
<1>9. \A r \in Known' : r.id <= uuids' /\ r.user <= uuids'
  BY <1>1, <1>2, <1>5, <1>7 DEF ChainInv
<1>10. \A r \in Live' : r.user = m_user_id'
  BY <1>1, <1>2, <1>5 DEF ChainInv
<1>11. ASSUME ~forked'
       PROVE  /\ \A r \in Known' : r.user = m_user_id' =>
                   /\ r.id <= m_current_session_id' /\ r.index <= m_session_index'
                   /\ r.id = m_current_session_id' <=> r.index = m_session_index'
              /\ \A q, r \in Known' : Ordered(q, r)
  <2>1. \A r \in Known : r.user = m_user_id =>
          /\ r.id < s.id /\ r.index < s.index
          /\ r.index + 1 = s.index => r.id = s.previous
    BY <1>1, <1>2, <1>7, <1>11 DEF ChainInv
  <2>2. \A q, r \in Known : Ordered(q, r)
    BY <1>2, <1>11 DEF ChainInv
  <2>3. \A r \in Known : Ordered(r, s) /\ Ordered(s, r)
    BY <1>1, <1>7, <2>1 DEF Ordered
  <2>4. Ordered(s, s)
    BY <1>1, <1>7 DEF Ordered
  <2> QED BY <1>1, <1>2, <1>5, <1>7, <2>1, <2>2, <2>3, <2>4
<1> QED BY <1>2, <1>6, <1>8, <1>9, <1>10, <1>11 DEF ChainInv

\* The process is run again: unless a later session than the saved one has
\* events, the saved one is the last of the user's.
LEMMA ChainRestart ==
  ASSUME TypeOK, ChainInv, Restart
  PROVE  ChainInv'
<1>1. Counted' = {}
  BY DEF Restart, Counted
<1>2. /\ m_session_context_data' = NoSession /\ m_is_new_session'
      /\ store' = store /\ tracked' = tracked
      /\ m_current_session_id' = store.id /\ m_session_index' = store.index
  BY DEF Restart
<1>3. /\ Live' = {s \in {store} : s # NoSession}
      /\ Known' = {c.session : c \in tracked} \cup {s \in {store} : s # NoSession}
  BY <1>1, <1>2 DEF Live, Known
<1>4. Live' \subseteq Live /\ Known' \subseteq Known
  BY <1>3 DEF Live, Known
<1>5. /\ \A r \in Known : r.id \in Nat /\ r.index \in Nat /\ r.user \in Nat
      /\ uuids \in Nat /\ uuids' \in Nat /\ uuids' >= uuids
  BY KnownTyped DEF TypeOK, Restart
<1>6. CASE store = NoSession
  <2>1. /\ Live' = {} /\ store.id = 0
        /\ m_user_id' = uuids + 1 /\ uuids' = uuids + 1
        /\ \A r \in Known' : r.user # m_user_id'
    <3>1. m_user_id' = uuids + 1 /\ uuids' = uuids + 1
      BY <1>6 DEF Restart
    <3> QED BY <1>3, <1>4, <1>5, <1>6, <3>1 DEF ChainInv, NoSession
  <2>2. \A q, r \in Known' : ~forked' => Ordered(q, r)
    BY <1>4 DEF ChainInv, Restart
  <2> QED BY <1>2, <1>4, <1>5, <2>1, <2>2 DEF ChainInv
<1>7. CASE store # NoSession
  <2>1. store \in Live /\ store \in Known
    BY <1>7 DEF Live, Known
  <2>2. m_user_id' = m_user_id /\ store.user = m_user_id /\ uuids' = uuids
    BY <1>7, <2>1 DEF Restart, ChainInv
  <2>3. ASSUME ~forked'
        PROVE  ~forked /\ \A s \in Known' : s.user = m_user_id => s.id <= store.id
    <3>1. ~forked /\ \A c \in tracked : c.session.user = m_user_id => ~(c.session.id > store.id)
      BY <2>3, Zenon DEF Restart
    <3>2. \A s \in Known' : s = store \/ \E c \in tracked : s = c.session
      BY <1>3
    <3> QED BY <1>4, <1>5, <2>1, <3>1, <3>2
  <2>4. ASSUME ~forked', NEW s \in Known', s.user = m_user_id
        PROVE  /\ s.id <= store.id /\ s.index <= store.index
               /\ s.id = store.id <=> s.index = store.index
    <3>1. s.id <= store.id /\ Ordered(s, store)
      BY <1>4, <2>1, <2>3, <2>4 DEF ChainInv
    <3>2. /\ s.id \in Nat /\ s.index \in Nat /\ store.id \in Nat /\ store.index \in Nat
      BY <1>4, <1>5, <2>1
    <3> QED BY <2>2, <2>4, <3>1, <3>2 DEF Ordered
  <2>5. ~forked' => \A q, r \in Known' : Ordered(q, r)
    BY <1>4, <2>3 DEF ChainInv
  <2> QED BY <1>2, <1>4, <2>1, <2>2, <2>4, <2>5 DEF ChainInv
<1> QED BY <1>6, <1>7

LEMMA ChainOther ==
  ASSUME TypeOK, ChainInv,
         \/ \E t \in Thread :
              \/ SaveSession(t) \/ SaveFails(t) \/ Add(t) \/ Discard(t)
              \/ StartNewSession(t)
              \/ \E b \in BOOLEAN : SetIsBackground(t, b)
         \/ \E time \in 0..MaxTime : Clock(time)
  PROVE  ChainInv'
<1>1. ASSUME NEW t \in Thread, SaveSession(t) \/ SaveFails(t)
      PROVE  ChainInv'
  <2>1. /\ pc[t] = "save" /\ pc'[t] = "add" /\ context' = context
        /\ \A u \in Thread : u # t => pc'[u] = pc[u]
    BY <1>1 DEF SaveSession, SaveFails, TypeOK
  <2>2. Counted' = Counted /\ context[t] \in Counted
    BY <2>1 DEF Counted
  <2>3. /\ store' \in {store, context[t].session}
        /\ UNCHANGED <<identity, m_is_new_session, uuids, tracked, forked>>
    BY <1>1 DEF SaveSession, SaveFails, events, history
  <2>4. Live' \subseteq Live
    BY <2>2, <2>3 DEF Live, identity
  <2>5. Known' \subseteq Known
    BY <2>3, <2>4 DEF Known
  <2> QED BY <2>3, <2>4, <2>5, ChainSame DEF identity
<1>2. ASSUME NEW t \in Thread, Add(t) \/ Discard(t)
      PROVE  ChainInv'
  <2>1. /\ pc[t] = "add" /\ pc'[t] = "idle"
        /\ \A u \in Thread : u # t => context'[u] = context[u] /\ pc'[u] = pc[u]
    BY <1>2 DEF Add, Discard, TypeOK
  <2>2. Counted' \subseteq Counted /\ context[t] \in Counted
    BY <2>1 DEF Counted
  <2>3. /\ tracked' \subseteq tracked \cup {context[t]}
        /\ UNCHANGED <<identity, m_is_new_session, uuids, store, forked>>
    BY <1>2 DEF Add, Discard, history
  <2>4. Live' \subseteq Live
    BY <2>2, <2>3 DEF Live, identity
  <2>5. context[t].session \in Live
    BY <2>2 DEF Live
  <2>6. Known' \subseteq Known
    BY <2>3, <2>4, <2>5 DEF Known
  <2> QED BY <2>3, <2>4, <2>6, ChainSame DEF identity
<1>3. ASSUME \/ \E t \in Thread :
                  StartNewSession(t) \/ \E b \in BOOLEAN : SetIsBackground(t, b)
             \/ \E time \in 0..MaxTime : Clock(time)
      PROVE  ChainInv'
  <2> DEFINE Kept == /\ UNCHANGED <<identity, uuids, store, tracked, forked, pc, context>>
                     /\ m_is_new_session => m_is_new_session'
  <2>1. Kept
    <3>1. ASSUME NEW t \in Thread, StartNewSession(t)
          PROVE  Kept
      BY <3>1 DEF StartNewSession, events
    <3>2. ASSUME NEW t \in Thread, NEW b \in BOOLEAN, SetIsBackground(t, b)
          PROVE  Kept
      BY <3>2 DEF SetIsBackground, ShouldUpdateSession, events
    <3>3. ASSUME NEW time \in 0..MaxTime, Clock(time)
          PROVE  Kept
      BY <3>3 DEF Clock, events, history
    <3> QED BY <1>3, <3>1, <3>2, <3>3
  <2>2. Counted' = Counted
    BY <2>1 DEF Counted
  <2>3. Live' = Live /\ Known' = Known
    BY <2>1, <2>2 DEF Live, Known, identity
  <2> QED BY <2>1, <2>3, ChainSame DEF identity
<1> QED BY <1>1, <1>2, <1>3

LEMMA ChainStep == TypeOK /\ ChainInv /\ [Next]_vars => ChainInv'
<1> SUFFICES ASSUME TypeOK, ChainInv, [Next]_vars PROVE ChainInv'
  OBVIOUS
<1>1. CASE UNCHANGED vars
  <2>1. Counted' = Counted /\ UNCHANGED <<identity, m_is_new_session, uuids, store, tracked, forked>>
    BY <1>1 DEF vars, events, history, Counted
  <2>2. Live' = Live /\ Known' = Known
    BY <2>1 DEF Live, Known, identity
  <2> QED BY <2>1, <2>2, ChainSame DEF identity
<1>2. CASE Next
  BY <1>2, ChainTrack, ChainUpdate, ChainRestart, ChainOther DEF Next
<1> QED BY <1>1, <1>2

\* Unless the process died with an event stored in a session that was not saved,
\* sessionIndex and previousSessionId chain a user's sessions through restarts.
THEOREM SessionsAreChained == Spec => []SessionsFormChain
<1>1. ChainInv => SessionsFormChain
  BY DEF ChainInv, SessionsFormChain, Known, Ordered
<1> QED BY <1>1, TypeCorrect, ChainInit, ChainStep, PTL DEF Spec
=============================================================================
