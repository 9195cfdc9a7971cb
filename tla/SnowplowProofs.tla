--------------------------- MODULE SnowplowProofs --------------------------
(***************************************************************************)
(* Theorems about Snowplow, for every set of threads, trackers and         *)
(* namespaces.                                                             *)
(***************************************************************************)
EXTENDS Snowplow, TLAPS

\* What pc says of the tracker a thread creates and of those it destroys.
CallState ==
  \A t \in Thread : /\ pc[t] = "register" => created[t] \in Tracker
                    /\ dying[t] # {} => pc[t] \in {"release", "erase"}

\* References, daemons and destructors, which only together are inductive: a
\* tracker dies when its last reference goes, so no one can refer to it again.
Ownership == ReferencedIsAlive /\ DaemonsBelongToTrackers

(***************************************************************************)
(* Lemmas about the operators                                              *)
(***************************************************************************)
\* Inserting a tracker leaves what is registered, and registers its namespace.
LEMMA InsertedKeeps ==
  ASSUME TypeOK, NEW x \in Tracker
  PROVE  /\ Inserted(x) \in Registries
         /\ DOMAIN Inserted(x) = DOMAIN m_trackers \cup {get_namespace[x]}
         /\ \A ns \in DOMAIN m_trackers : Inserted(x)[ns] = m_trackers[ns]
         /\ \A ns \in DOMAIN Inserted(x) : get_namespace[Inserted(x)[ns]] = ns
         /\ Range(Inserted(x)) \subseteq Range(m_trackers) \cup {x}
<1>1. get_namespace[x] \in Namespace
  BY SnowplowAssumption
<1>2. PICK D \in SUBSET Namespace : m_trackers \in [D -> Tracker]
  BY DEF TypeOK, Registries
<1>3. D \cup {get_namespace[x]} \in SUBSET Namespace
  BY <1>1
<1>4. Inserted(x) \in [D \cup {get_namespace[x]} -> Tracker]
  BY <1>2 DEF Inserted
<1>5. Inserted(x) \in Registries
  BY <1>3, <1>4 DEF Registries
<1>6. Range(Inserted(x)) \subseteq Range(m_trackers) \cup {x}
  BY <1>2 DEF Inserted, Range
<1> QED BY <1>2, <1>4, <1>5, <1>6 DEF Inserted, TypeOK

\* Removing a namespace leaves the others.
LEMMA RestrictKeeps ==
  ASSUME TypeOK, NEW ns
  PROVE  LET rest == Restrict(m_trackers, DOMAIN m_trackers \ {ns}) IN
         /\ rest \in Registries
         /\ DOMAIN rest = DOMAIN m_trackers \ {ns}
         /\ \A n \in DOMAIN rest : rest[n] = m_trackers[n]
         /\ Range(rest) \subseteq Range(m_trackers)
<1> DEFINE rest == Restrict(m_trackers, DOMAIN m_trackers \ {ns})
<1>1. PICK D \in SUBSET Namespace : m_trackers \in [D -> Tracker]
  BY DEF TypeOK, Registries
<1>2. D \ {ns} \in SUBSET Namespace
  BY <1>1
<1>3. rest \in [D \ {ns} -> Tracker]
  BY <1>1 DEF Restrict
<1>4. rest \in Registries
  BY <1>2, <1>3 DEF Registries
<1> QED BY <1>1, <1>3, <1>4 DEF Restrict, Range

\* Only trackers are registered.
LEMMA RegisteredTrackers ==
  ASSUME TypeOK
  PROVE  Registered \subseteq Tracker
<1>1. PICK D \in SUBSET Namespace : m_trackers \in [D -> Tracker]
  BY DEF TypeOK, Registries
<1> QED BY <1>1 DEF Registered, Range, TypeOK

\* A thread that lets go of trackers, and adds no reference, destroys none that
\* is referred to or that another thread destroys.
LEMMA ReleaseSafe ==
  ASSUME TypeOK, CallState, Ownership,
         NEW t \in Thread, NEW place, NEW lost, pc[t] \in {"idle", "register"},
         lost \subseteq {x \in Tracker : Referenced(x)},
         \A x \in Tracker : Referenced(x)' => Referenced(x),
         Release(t, place, lost), UNCHANGED <<alive, running>>
  PROVE  Ownership'
<1>1. dying[t] = {}
  BY DEF CallState
<1>2. dying' = [dying EXCEPT ![t] = {x \in lost : ~Referenced(x)'}]
  BY DEF Release
<1>3. dying \in [Thread -> SUBSET Tracker]
  BY DEF TypeOK
<1>4. /\ dying'[t] = {x \in lost : ~Referenced(x)'}
      /\ \A u \in Thread : u # t => dying'[u] = dying[u]
  BY <1>2, <1>3
<1>5. \A x \in lost : x \in alive /\ \A u \in Thread : x \notin dying[u]
  BY DEF Ownership, ReferencedIsAlive
<1>6. ReferencedIsAlive'
  <2> SUFFICES ASSUME NEW x \in Tracker, Referenced(x)', NEW u \in Thread
               PROVE  x \in alive' /\ x \notin dying'[u]
    BY Zenon DEF ReferencedIsAlive
  <2>1. x \in alive /\ x \notin dying[u]
    BY DEF Ownership, ReferencedIsAlive
  <2>2. u = t => x \notin dying'[u]
    BY <1>4
  <2> QED BY <1>4, <2>1, <2>2
<1>7. DaemonsBelongToTrackers'
  BY <1>4, <1>5 DEF Ownership, DaemonsBelongToTrackers
<1> QED BY <1>6, <1>7 DEF Ownership

(***************************************************************************)
(* Type correctness                                                        *)
(***************************************************************************)
LEMMA TypeInit == Init => TypeOK /\ CallState
<1> SUFFICES ASSUME Init PROVE TypeOK /\ CallState
  OBVIOUS
<1>1. m_trackers \in [{} -> Tracker] /\ DOMAIN m_trackers = {}
  BY DEF Init
<1>2. m_trackers \in Registries
  BY <1>1, Zenon DEF Registries
<1> QED BY <1>1, <1>2 DEF Init, TypeOK, CallState

\* The registry and the default tracker keep their types.
LEMMA RegistryType ==
  ASSUME TypeOK, CallState, [Next]_vars
  PROVE  /\ m_trackers' \in Registries
         /\ \A ns \in DOMAIN m_trackers' : get_namespace[m_trackers'[ns]] = ns
         /\ m_default_tracker' \in Tracker \cup {nullptr}
<1> DEFINE Kept == m_trackers' = m_trackers /\ m_default_tracker' = m_default_tracker
           Added == \E x \in Tracker : /\ m_trackers' = Inserted(x)
                                       /\ m_default_tracker' \in {m_default_tracker, x}
           Removed == \E ns \in Namespace :
                        /\ m_trackers' = Restrict(m_trackers, DOMAIN m_trackers \ {ns})
                        /\ m_default_tracker' \in {m_default_tracker, nullptr}
<1>1. Kept \/ Added \/ Removed
  <2>1. CASE UNCHANGED vars
    BY <2>1 DEF vars
  <2>2. ASSUME NEW t \in Thread, CreateRegisters(t)
        PROVE  Added
    <3>1. created[t] \in Tracker
      BY <2>2 DEF CreateRegisters, CallState
    <3> QED BY <2>2, <3>1 DEF CreateRegisters, Register
  <2>3. ASSUME NEW t \in Thread, CreateThrows(t) \/ \E x \in dying[t] : Destroy(t, x)
        PROVE  Kept
    BY <2>3 DEF CreateThrows, Destroy
  <2>4. ASSUME NEW t \in Thread, NEW x \in Tracker,
               RegisterTracker(t, x) \/ SetDefaultTracker(t, x)
        PROVE  Added
    BY <2>4 DEF RegisterTracker, Register, SetDefaultTracker
  <2>5. ASSUME NEW t \in Thread, NEW x \in Tracker,
               New(t, x) \/ Create(t, x) \/ Drop(t, x) \/ Start(t, x) \/ Stop(t, x)
        PROVE  Kept
    BY <2>5 DEF New, Create, Drop, Start, Stop
  <2>6. ASSUME NEW t \in Thread, NEW ns \in Namespace, RemoveTracker(t, ns)
        PROVE  Removed
    BY <2>6 DEF RemoveTracker
  <2>7. ASSUME NEW t \in Thread,
               GetDefaultTracker(t) \/ \E ns \in Namespace : GetTracker(t, ns)
        PROVE  Kept
    BY <2>7 DEF GetDefaultTracker, GetTracker
  <2> QED BY <2>1, <2>2, <2>3, <2>4, <2>5, <2>6, <2>7 DEF Next, Proceed
<1>2. CASE Kept
  BY <1>2 DEF TypeOK
<1>3. CASE Added
  <2> PICK x \in Tracker : /\ m_trackers' = Inserted(x)
                           /\ m_default_tracker' \in {m_default_tracker, x}
    BY <1>3
  <2> QED BY InsertedKeeps DEF TypeOK
<1>4. CASE Removed
  <2> PICK ns \in Namespace :
        /\ m_trackers' = Restrict(m_trackers, DOMAIN m_trackers \ {ns})
        /\ m_default_tracker' \in {m_default_tracker, nullptr}
    BY <1>4
  <2>1. /\ m_trackers' \in Registries
        /\ DOMAIN m_trackers' \subseteq DOMAIN m_trackers
        /\ \A n \in DOMAIN m_trackers' : m_trackers'[n] = m_trackers[n]
    BY RestrictKeeps
  <2> QED BY <2>1 DEF TypeOK
<1> QED BY <1>1, <1>2, <1>3, <1>4

\* The parts of the type invariant that speak of the threads.
ThreadsOK ==
  /\ alive \subseteq Tracker /\ running \subseteq Tracker
  /\ held \in [Thread -> SUBSET Tracker]
  /\ pc \in [Thread -> {"idle", "register", "release", "erase"}]
  /\ created \in [Thread -> Tracker \cup {nullptr}]
  /\ dying \in [Thread -> SUBSET Tracker]
  /\ \A t, u \in Thread : pc[t] = "erase" /\ pc[u] = "erase" => t = u

\* A thread that lets go of trackers with the registry locked found it unlocked.
LEMMA ReleaseType ==
  ASSUME TypeOK, CallState, NEW t \in Thread, NEW lost \in SUBSET Tracker,
         NEW place \in {"release", "erase"}, place = "erase" => Unlocked,
         Release(t, place, lost)
  PROVE  /\ pc' \in [Thread -> {"idle", "register", "release", "erase"}]
         /\ dying' \in [Thread -> SUBSET Tracker]
         /\ (\A v, u \in Thread : pc[v] = "erase" /\ pc[u] = "erase" => v = u)'
         /\ \A u \in Thread : dying'[u] # {} => pc'[u] \in {"release", "erase"}
         /\ \A u \in Thread : pc'[u] = "register" => u # t /\ pc[u] = "register"
<1> DEFINE D == {x \in lost : ~Referenced(x)'}
           P == IF dying'[t] = {} THEN "idle" ELSE place
<1>1. dying' = [dying EXCEPT ![t] = D] /\ pc' = [pc EXCEPT ![t] = P]
  BY DEF Release
<1>2. D \in SUBSET Tracker /\ P \in {"idle", "release", "erase"}
  OBVIOUS
<1>3. dying'[t] = D
  BY <1>1 DEF TypeOK
<1>4. P = "idle" => dying'[t] = {}
  OBVIOUS
<1>5. P = "erase" => Unlocked
  OBVIOUS
<1> HIDE DEF D, P
<1> QED BY <1>1, <1>2, <1>3, <1>4, <1>5 DEF TypeOK, CallState, Unlocked

\* The references keep their types, and one thread at a time destroys trackers
\* with the registry locked.
LEMMA ThreadsType ==
  ASSUME TypeOK, CallState, [Next]_vars
  PROVE  ThreadsOK' /\ CallState'
<1> USE DEF ThreadsOK
<1>1. CASE UNCHANGED vars
  BY <1>1 DEF vars, TypeOK, CallState
<1>2. ASSUME NEW t \in Thread, CreateRegisters(t)
      PROVE  ThreadsOK' /\ CallState'
  BY <1>2 DEF CreateRegisters, CallState, TypeOK
<1>3. ASSUME NEW t \in Thread, CreateThrows(t)
      PROVE  ThreadsOK' /\ CallState'
  <2>1. created[t] \in Tracker
    BY <1>3 DEF CreateThrows, CallState
  <2>2. Release(t, "release", {created[t]})
    BY <1>3 DEF CreateThrows
  <2> QED BY <1>3, <2>1, <2>2, ReleaseType DEF CreateThrows, CallState, TypeOK
<1>4. ASSUME NEW t \in Thread, NEW x \in dying[t], Destroy(t, x)
      PROVE  ThreadsOK' /\ CallState'
  BY <1>4 DEF Destroy, CallState, TypeOK
<1>5. ASSUME NEW t \in Thread, NEW x \in Tracker, New(t, x) \/ Create(t, x)
      PROVE  ThreadsOK' /\ CallState'
  BY <1>5 DEF New, Create, Construct, Calls, CallState, TypeOK
<1>6. ASSUME NEW t \in Thread, NEW x \in Tracker,
             RegisterTracker(t, x) \/ Start(t, x) \/ Stop(t, x)
      PROVE  ThreadsOK' /\ CallState'
  BY <1>6 DEF RegisterTracker, Start, Stop, CallState, TypeOK
<1>7. ASSUME NEW t \in Thread, NEW x \in Tracker, Drop(t, x)
      PROVE  ThreadsOK' /\ CallState'
  <2>1. Release(t, "release", {x})
    BY <1>7 DEF Drop
  <2> QED BY <1>7, <2>1, ReleaseType DEF Drop, CallState, TypeOK
<1>8. ASSUME NEW t \in Thread,
             \/ \E x \in Tracker : SetDefaultTracker(t, x)
             \/ \E ns \in Namespace : RemoveTracker(t, ns)
      PROVE  ThreadsOK' /\ CallState'
  <2>1. Registered \ Registered' \in SUBSET Tracker
    BY RegisteredTrackers
  <2>2. Release(t, "erase", Registered \ Registered') /\ Unlocked
    BY <1>8 DEF SetDefaultTracker, RemoveTracker
  <2>3. UNCHANGED <<alive, running, held, created>>
    BY <1>8 DEF SetDefaultTracker, RemoveTracker
  <2> HIDE DEF ThreadsOK
  <2>4. /\ pc' \in [Thread -> {"idle", "register", "release", "erase"}]
        /\ dying' \in [Thread -> SUBSET Tracker]
        /\ (\A v, u \in Thread : pc[v] = "erase" /\ pc[u] = "erase" => v = u)'
        /\ \A u \in Thread : dying'[u] # {} => pc'[u] \in {"release", "erase"}
        /\ \A u \in Thread : pc'[u] = "register" => u # t /\ pc[u] = "register"
    BY <2>1, <2>2, ReleaseType
  <2> QED BY <2>3, <2>4 DEF ThreadsOK, CallState, TypeOK
<1>9. ASSUME NEW t \in Thread, NEW ns \in Namespace, GetTracker(t, ns)
      PROVE  ThreadsOK' /\ CallState'
  <2>1. m_trackers[ns] \in Tracker
    BY <1>9 DEF GetTracker, TypeOK, Registries
  <2> QED BY <1>9, <2>1 DEF GetTracker, CallState, TypeOK
<1>10. ASSUME NEW t \in Thread, GetDefaultTracker(t)
       PROVE  ThreadsOK' /\ CallState'
  BY <1>10 DEF GetDefaultTracker, CallState, TypeOK
<1> QED BY <1>1, <1>2, <1>3, <1>4, <1>5, <1>6, <1>7, <1>8, <1>9, <1>10 DEF Next, Proceed

LEMMA TypeStep == TypeOK /\ CallState /\ [Next]_vars => TypeOK' /\ CallState'
BY RegistryType, ThreadsType DEF TypeOK, ThreadsOK

\* Whatever the threads do, the registry keeps its types, trackers are
\* registered under their own namespaces, and one thread at a time is in it.
THEOREM TypeCorrect == Spec => []TypeOK
<1>1. Init => TypeOK /\ CallState
  BY TypeInit
<1>2. TypeOK /\ CallState /\ [Next]_vars => (TypeOK /\ CallState)'
  BY TypeStep
<1> QED BY <1>1, <1>2, PTL DEF Spec

(***************************************************************************)
(* References                                                              *)
(***************************************************************************)
LEMMA OwnershipInit == Init => Ownership
<1> SUFFICES ASSUME Init PROVE Ownership
  OBVIOUS
<1>1. Registered = {}
  BY DEF Init, Registered, Range
<1>2. \A x \in Tracker : ~Referenced(x)
  BY <1>1, SnowplowAssumption DEF Init, Referenced
<1> QED BY <1>2 DEF Init, Ownership, ReferencedIsAlive, DaemonsBelongToTrackers

\* A step that destroys nothing, and refers to no tracker but those that were
\* referred to or are new, keeps Ownership.
LEMMA ReferenceSafe ==
  ASSUME TypeOK, Ownership, NEW news \in SUBSET (Tracker \ alive),
         alive' = alive \cup news, running' \subseteq running \cup alive',
         dying' = dying,
         \A x \in Tracker : Referenced(x)' => Referenced(x) \/ x \in news
  PROVE  Ownership'
<1>1. \A t \in Thread : dying[t] \cap news = {}
  BY DEF Ownership, DaemonsBelongToTrackers
<1>2. ASSUME NEW x \in Tracker, Referenced(x)', NEW t \in Thread
      PROVE  x \in alive' /\ x \notin dying'[t]
  <2>1. CASE Referenced(x)
    BY <2>1 DEF Ownership, ReferencedIsAlive
  <2>2. CASE x \in news
    BY <1>1, <2>2
  <2> QED BY <1>2, <2>1, <2>2
<1>4. ReferencedIsAlive'
  <2>1. \A x \in Tracker : Referenced(x)' =>
          x \in alive' /\ \A t \in Thread : x \notin dying'[t]
    <3> SUFFICES ASSUME NEW x \in Tracker, Referenced(x)'
                 PROVE  x \in alive' /\ \A t \in Thread : x \notin dying'[t]
      OBVIOUS
    <3>1. x \in alive'
      BY DEF Ownership, ReferencedIsAlive
    <3> QED BY <1>2, <3>1
  <2> QED BY <2>1, Zenon DEF ReferencedIsAlive
<1>3. DaemonsBelongToTrackers'
  BY DEF Ownership, DaemonsBelongToTrackers
<1> QED BY <1>3, <1>4 DEF Ownership

\* Nor does one that refers to no others.
LEMMA NoReferenceSafe ==
  ASSUME TypeOK, Ownership, alive' = alive, running' \subseteq running \cup alive,
         dying' = dying,
         \A x \in Tracker : Referenced(x)' => Referenced(x)
  PROVE  Ownership'
<1>1. /\ {} \in SUBSET (Tracker \ alive)
      /\ alive' = alive \cup {}
      /\ running' \subseteq running \cup alive'
  OBVIOUS
<1>2. \A x \in Tracker : Referenced(x)' => Referenced(x) \/ x \in {}
  OBVIOUS
<1> QED BY <1>1, <1>2, ReferenceSafe

\* What a step may refer to that was not referred to before.
LEMMA ReferencedBefore ==
  ASSUME TypeOK, NEW x \in Tracker, Referenced(x)', NEW news,
         Registered' \subseteq Registered \cup {y \in Tracker : Referenced(y)} \cup news,
         \A t \in Thread : /\ held'[t] \subseteq {y \in Tracker : Referenced(y)} \cup news
                           /\ created'[t] \in {y \in Tracker : Referenced(y)} \cup news \cup {nullptr}
  PROVE  Referenced(x) \/ x \in news
<1>1. CASE x \in Registered'
  BY <1>1 DEF Referenced
<1>2. CASE \E t \in Thread : x \in held'[t] \/ x = created'[t]
  BY <1>2, SnowplowAssumption
<1> QED BY <1>1, <1>2 DEF Referenced

\* The threads' references, and the registry's.
LEMMA ReferencedNow ==
  ASSUME TypeOK
  PROVE  /\ \A t \in Thread : held[t] \subseteq {y \in Tracker : Referenced(y)}
         /\ \A t \in Thread : created[t] \in {y \in Tracker : Referenced(y)} \cup {nullptr}
         /\ Registered \subseteq {y \in Tracker : Referenced(y)}
<1>1. Registered \subseteq Tracker
  BY RegisteredTrackers
<1> QED BY <1>1 DEF TypeOK, Referenced

\* Inserting a tracker registers no other.
LEMMA RegisteredInserted ==
  ASSUME TypeOK, NEW x \in Tracker, m_trackers' = Inserted(x),
         m_default_tracker' \in {m_default_tracker, x}
  PROVE  Registered' \subseteq Registered \cup {x}
<1>1. Range(Inserted(x)) \subseteq Range(m_trackers) \cup {x}
  BY InsertedKeeps
<1>2. Registered' = Range(m_trackers') \cup ({m_default_tracker'} \ {nullptr})
  BY DEF Registered, Range
<1> QED BY <1>1, <1>2 DEF Registered

LEMMA OwnershipStep == TypeOK /\ CallState /\ Ownership /\ [Next]_vars => Ownership'
<1> SUFFICES ASSUME TypeOK, CallState, Ownership, [Next]_vars
             PROVE  Ownership'
  OBVIOUS
<1> DEFINE Refs == {y \in Tracker : Referenced(y)}
<1>r. /\ \A t \in Thread : held[t] \subseteq Refs
      /\ \A t \in Thread : created[t] \in Refs \cup {nullptr}
      /\ Registered \subseteq Refs
  BY ReferencedNow
<1>k. ASSUME UNCHANGED <<m_trackers, m_default_tracker>>
      PROVE  Registered' = Registered
  BY <1>k DEF Registered, Range
<1> HIDE DEF Refs
<1>1. CASE UNCHANGED vars
  <2>1. \A x \in Tracker : Referenced(x)' => Referenced(x)
    BY <1>1, <1>k DEF vars, Referenced
  <2> QED BY <1>1, <2>1, NoReferenceSafe DEF vars
<1>2. ASSUME NEW t \in Thread, NEW x \in Tracker, New(t, x) \/ Create(t, x)
      PROVE  Ownership'
  <2>1. /\ x \notin alive /\ alive' = alive \cup {x} /\ running' = running \cup {x}
        /\ UNCHANGED <<m_trackers, m_default_tracker, dying>>
    BY <1>2 DEF New, Create, Construct
  <2>2. \A u \in Thread : held'[u] \subseteq Refs \cup {x} /\ created'[u] \in Refs \cup {x} \cup {nullptr}
    BY <1>2, <1>r DEF New, Create, TypeOK
  <2>3. \A y \in Tracker : Referenced(y)' => Referenced(y) \/ y \in {x}
    BY <2>1, <2>2, <1>k, ReferencedBefore DEF Refs
  <2> QED BY <2>1, <2>3, ReferenceSafe
<1>3. ASSUME NEW t \in Thread,
             \/ \E x \in Tracker : RegisterTracker(t, x)
             \/ CreateRegisters(t)
      PROVE  Ownership'
  <2>1. PICK x \in Refs : m_trackers' = Inserted(x) /\ m_default_tracker' \in {m_default_tracker, x}
    <3>1. created[t] # nullptr \/ \E x \in Tracker : RegisterTracker(t, x)
      BY <1>3, SnowplowAssumption DEF CreateRegisters, CallState
    <3> QED BY <1>3, <1>r, <3>1 DEF RegisterTracker, CreateRegisters, Register
  <2>2. UNCHANGED <<alive, running, dying>>
    BY <1>3 DEF RegisterTracker, CreateRegisters
  <2>3. Registered' \subseteq Registered \cup {x} /\ x \in Tracker
    BY <2>1, RegisteredInserted DEF Refs
  <2>4. \A u \in Thread : held'[u] \subseteq Refs /\ created'[u] \in Refs \cup {nullptr}
    <3>1. CASE CreateRegisters(t)
      <4>1. created[t] \in Refs
        BY <1>r, <3>1, SnowplowAssumption DEF CreateRegisters, CallState
      <4> QED BY <1>r, <3>1, <4>1 DEF CreateRegisters, TypeOK
    <3> QED BY <1>3, <1>r, <3>1 DEF RegisterTracker
  <2>5. \A y \in Tracker : Referenced(y)' => Referenced(y)
    BY <2>1, <2>3, <2>4, ReferencedBefore DEF Refs
  <2> QED BY <2>2, <2>5, NoReferenceSafe
<1>4. ASSUME NEW t \in Thread, CreateThrows(t)
      PROVE  Ownership'
  <2>1. created[t] \in Tracker
    BY <1>4 DEF CreateThrows, CallState
  <2>2. \A u \in Thread : held'[u] \subseteq Refs /\ created'[u] \in Refs \cup {nullptr}
    BY <1>4, <1>r DEF CreateThrows, TypeOK
  <2>3. \A y \in Tracker : Referenced(y)' => Referenced(y)
    BY <1>4, <1>k, <2>2, ReferencedBefore DEF Refs, CreateThrows
  <2>4. {created[t]} \subseteq Refs
    BY <1>r, <2>1, SnowplowAssumption
  <2>5. pc[t] = "register" /\ Release(t, "release", {created[t]}) /\ UNCHANGED <<alive, running>>
    BY <1>4 DEF CreateThrows
  <2> QED BY <2>3, <2>4, <2>5, ReleaseSafe DEF Refs
<1>5. ASSUME NEW t \in Thread, NEW x \in dying[t], Destroy(t, x)
      PROVE  Ownership'
  <2>1. /\ alive' = alive \ {x} /\ running' = running \ {x}
        /\ dying' = [dying EXCEPT ![t] = @ \ {x}]
        /\ UNCHANGED <<m_trackers, m_default_tracker, held, created>>
    BY <1>5 DEF Destroy
  <2>2. \A y \in Tracker : Referenced(y)' => Referenced(y)
    BY <2>1, <1>k DEF Referenced
  <2>3. x \in Tracker /\ ~Referenced(x)
    BY DEF TypeOK, Ownership, ReferencedIsAlive
  <2>4. \A u \in Thread : dying'[u] = dying[u] \ {x}
    BY <2>1 DEF TypeOK, Ownership, DaemonsBelongToTrackers
  <2>5. ReferencedIsAlive'
    <3> SUFFICES ASSUME NEW y \in Tracker, Referenced(y)', NEW u \in Thread
                 PROVE  y \in alive' /\ y \notin dying'[u]
      BY Zenon DEF ReferencedIsAlive
    <3> QED BY <2>1, <2>2, <2>3, <2>4 DEF Ownership, ReferencedIsAlive
  <2>6. DaemonsBelongToTrackers'
    BY <2>1, <2>4 DEF Ownership, DaemonsBelongToTrackers
  <2> QED BY <2>5, <2>6 DEF Ownership
<1>6. ASSUME NEW t \in Thread,
             GetDefaultTracker(t) \/ \E ns \in Namespace : GetTracker(t, ns)
      PROVE  Ownership'
  <2>1. UNCHANGED <<m_trackers, m_default_tracker, alive, running, created, dying>>
    BY <1>6 DEF GetDefaultTracker, GetTracker
  <2>2. \A u \in Thread : held'[u] \subseteq held[u] \cup Registered
    BY <1>6 DEF GetDefaultTracker, GetTracker, Registered, Range, TypeOK
  <2>3. \A y \in Tracker : Referenced(y)' => Referenced(y)
    BY <1>r, <1>k, <2>1, <2>2, ReferencedBefore DEF Refs
  <2> QED BY <2>1, <2>3, NoReferenceSafe
<1>7. ASSUME NEW t \in Thread, NEW x \in Tracker, Start(t, x) \/ Stop(t, x)
      PROVE  Ownership'
  <2>1. /\ x \in held[t] /\ running' \subseteq running \cup {x}
        /\ UNCHANGED <<m_trackers, m_default_tracker, alive, held, created, dying>>
    BY <1>7 DEF Start, Stop
  <2>2. x \in alive
    BY <2>1 DEF Ownership, ReferencedIsAlive, Referenced
  <2>3. \A y \in Tracker : Referenced(y)' => Referenced(y)
    BY <2>1, <1>k DEF Referenced
  <2> QED BY <2>1, <2>2, <2>3, NoReferenceSafe
<1>8. ASSUME NEW t \in Thread, NEW x \in Tracker, Drop(t, x)
      PROVE  Ownership'
  <2>1. /\ pc[t] = "idle" /\ x \in held[t] /\ Release(t, "release", {x})
        /\ UNCHANGED <<m_trackers, m_default_tracker, alive, running, created>>
    BY <1>8 DEF Drop, Calls
  <2>2. \A u \in Thread : held'[u] \subseteq Refs
    BY <1>8, <1>r DEF Drop, TypeOK
  <2>3. \A y \in Tracker : Referenced(y)' => Referenced(y)
    BY <1>r, <1>k, <2>1, <2>2, ReferencedBefore DEF Refs
  <2> QED BY <1>r, <2>1, <2>3, ReleaseSafe DEF Refs
<1>9. ASSUME NEW t \in Thread,
             \/ \E x \in Tracker : SetDefaultTracker(t, x)
             \/ \E ns \in Namespace : RemoveTracker(t, ns)
      PROVE  Ownership'
  <2>1. /\ pc[t] = "idle" /\ Release(t, "erase", Registered \ Registered')
        /\ UNCHANGED <<alive, running, held, created>>
    BY <1>9 DEF SetDefaultTracker, RemoveTracker, Calls
  <2>2. Registered' \subseteq Refs
    <3>1. ASSUME NEW x \in Tracker, SetDefaultTracker(t, x)
          PROVE  Registered' \subseteq Refs
      BY <1>r, <3>1, RegisteredInserted DEF SetDefaultTracker
    <3>2. ASSUME NEW ns \in Namespace, RemoveTracker(t, ns)
          PROVE  Registered' \subseteq Refs
      <4>1. Range(m_trackers') \subseteq Range(m_trackers)
        BY <3>2, RestrictKeeps DEF RemoveTracker
      <4>2. Registered' = Range(m_trackers') \cup ({m_default_tracker'} \ {nullptr})
        BY DEF Registered, Range
      <4> QED BY <1>r, <3>2, <4>1, <4>2 DEF RemoveTracker, Registered
    <3> QED BY <1>9, <3>1, <3>2
  <2>3. \A y \in Tracker : Referenced(y)' => Referenced(y)
    BY <1>r, <2>1, <2>2, ReferencedBefore DEF Refs
  <2> QED BY <1>r, <2>1, <2>3, ReleaseSafe DEF Refs
<1> QED BY <1>1, <1>2, <1>3, <1>4, <1>5, <1>6, <1>7, <1>8, <1>9 DEF Next, Proceed

\* No tracker is destroyed, or being destroyed, while the registry or a thread
\* refers to it.
THEOREM ReferencesAreSafe == Spec => []ReferencedIsAlive
<1>1. Init => TypeOK /\ CallState /\ Ownership
  BY TypeInit, OwnershipInit
<1>2. TypeOK /\ CallState /\ Ownership /\ [Next]_vars => (TypeOK /\ CallState /\ Ownership)'
  BY TypeStep, OwnershipStep
<1>3. Ownership => ReferencedIsAlive
  BY DEF Ownership
<1> QED BY <1>1, <1>2, <1>3, PTL DEF Spec

\* No daemon outlives its tracker, and no tracker is destroyed twice.
THEOREM DaemonsAreOwned == Spec => []DaemonsBelongToTrackers
<1>1. Init => TypeOK /\ CallState /\ Ownership
  BY TypeInit, OwnershipInit
<1>2. TypeOK /\ CallState /\ Ownership /\ [Next]_vars => (TypeOK /\ CallState /\ Ownership)'
  BY TypeStep, OwnershipStep
<1>3. Ownership => DaemonsBelongToTrackers
  BY DEF Ownership
<1> QED BY <1>1, <1>2, <1>3, PTL DEF Spec

(***************************************************************************)
(* The registry                                                            *)
(***************************************************************************)
LEMMA DefaultStep == TypeOK /\ CallState /\ DefaultIsRegistered /\ [Next]_vars
                       => DefaultIsRegistered'
<1> SUFFICES ASSUME TypeOK, CallState, DefaultIsRegistered, [Next]_vars
             PROVE  DefaultIsRegistered'
  OBVIOUS
<1> USE DEF DefaultIsRegistered, Taken
<1>1. ASSUME UNCHANGED <<m_trackers, m_default_tracker>>
      PROVE  DefaultIsRegistered'
  BY <1>1
<1>2. ASSUME NEW x \in Tracker, m_trackers' = Inserted(x),
             m_default_tracker' \in {m_default_tracker, x}
      PROVE  DefaultIsRegistered'
  <2>1. DOMAIN m_trackers' = DOMAIN m_trackers \cup {get_namespace[x]}
    BY <1>2, InsertedKeeps
  <2> QED BY <1>2, <2>1
<1>3. ASSUME NEW t \in Thread, NEW ns \in Namespace, RemoveTracker(t, ns)
      PROVE  DefaultIsRegistered'
  <2>1. DOMAIN m_trackers' = DOMAIN m_trackers \ {ns}
    BY <1>3, RestrictKeeps DEF RemoveTracker
  <2> QED BY <1>3, <2>1 DEF RemoveTracker
<1>4. ASSUME NEW t \in Thread, CreateRegisters(t)
      PROVE  DefaultIsRegistered'
  BY <1>2, <1>4 DEF CreateRegisters, Register, CallState
<1>5. ASSUME NEW t \in Thread, NEW x \in Tracker,
             RegisterTracker(t, x) \/ SetDefaultTracker(t, x)
      PROVE  DefaultIsRegistered'
  BY <1>2, <1>5 DEF RegisterTracker, Register, SetDefaultTracker
<1> HIDE DEF DefaultIsRegistered, Taken
<1> QED BY <1>1, <1>3, <1>4, <1>5 DEF Next, Proceed, vars, CreateThrows, Destroy, New, Create,
       Drop, Start, Stop, GetTracker, GetDefaultTracker

\* The default tracker's namespace is registered, in spite of trackers that
\* are made the default under a namespace another one has.
THEOREM DefaultStaysRegistered == Spec => []DefaultIsRegistered
<1>1. Init => TypeOK /\ CallState /\ DefaultIsRegistered
  BY TypeInit DEF Init, DefaultIsRegistered
<1>2. TypeOK /\ CallState /\ DefaultIsRegistered /\ [Next]_vars
        => (TypeOK /\ CallState /\ DefaultIsRegistered)'
  BY TypeStep, DefaultStep
<1> QED BY <1>1, <1>2, PTL DEF Spec

LEMMA NamespaceStep ==
  ASSUME TypeOK, CallState, [Next]_vars
  PROVE  \A ns \in DOMAIN m_trackers : ns \in DOMAIN m_trackers' =>
           m_trackers'[ns] = m_trackers[ns]
<1>1. ASSUME NEW x \in Tracker, m_trackers' = Inserted(x)
      PROVE  \A ns \in DOMAIN m_trackers : m_trackers'[ns] = m_trackers[ns]
  BY <1>1, InsertedKeeps
<1>2. ASSUME NEW t \in Thread, NEW n \in Namespace, RemoveTracker(t, n)
      PROVE  \A ns \in DOMAIN m_trackers' : m_trackers'[ns] = m_trackers[ns]
  BY <1>2, RestrictKeeps DEF RemoveTracker
<1>3. ASSUME NEW t \in Thread, CreateRegisters(t)
      PROVE  \A ns \in DOMAIN m_trackers : m_trackers'[ns] = m_trackers[ns]
  BY <1>1, <1>3 DEF CreateRegisters, Register, CallState
<1>4. ASSUME NEW t \in Thread, NEW x \in Tracker,
             RegisterTracker(t, x) \/ SetDefaultTracker(t, x)
      PROVE  \A ns \in DOMAIN m_trackers : m_trackers'[ns] = m_trackers[ns]
  BY <1>1, <1>4 DEF RegisterTracker, Register, SetDefaultTracker
<1> QED BY <1>2, <1>3, <1>4 DEF Next, Proceed, vars, CreateThrows, Destroy, New, Create,
       Drop, Start, Stop, GetTracker, GetDefaultTracker

\* While a namespace is registered it names the same tracker.
THEOREM NamespacesAreStable == Spec => NamespaceKeepsTracker
<1>1. Init => TypeOK /\ CallState
  BY TypeInit
<1>2. TypeOK /\ CallState /\ [Next]_vars => (TypeOK /\ CallState)'
  BY TypeStep
<1>3. TypeOK /\ CallState /\ [Next]_vars =>
        [\A ns \in DOMAIN m_trackers : ns \in DOMAIN m_trackers' =>
           m_trackers'[ns] = m_trackers[ns]]_vars
  BY NamespaceStep
<1> QED BY <1>1, <1>2, <1>3, PTL DEF Spec, NamespaceKeepsTracker
=============================================================================
