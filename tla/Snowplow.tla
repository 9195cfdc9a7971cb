----------------------------- MODULE Snowplow ------------------------------
(***************************************************************************)
(* snowplow.cpp and the life of the trackers of tracker.cpp: application   *)
(* threads that construct trackers, register them under their namespace,   *)
(* get, remove and drop them.  A tracker is kept by shared_ptr: the thread *)
(* that gives up the last reference runs its destructor, which stops the   *)
(* emitter and joins the daemon.  Where the reference was the registry's,  *)
(* m_tracker_get is held meanwhile.                                        *)
(*                                                                         *)
(* A section under m_tracker_get is one action, but for the destructors it *)
(* runs.  That stop() returns is shown of Emitter.                         *)
(***************************************************************************)
EXTENDS Functions

CONSTANTS Thread,      \* the application's threads
          Tracker,     \* tracker objects
          Namespace,
          get_namespace, \* get_namespace[x]: the namespace of tracker x
          nullptr

ASSUME SnowplowAssumption ==
  /\ get_namespace \in [Tracker -> Namespace]
  /\ nullptr \notin Tracker

VARIABLES m_trackers, m_default_tracker,
          alive,    \* the trackers constructed and not destroyed
          running,  \* the trackers whose emitter runs
          held,     \* held[t]: the trackers thread t has references to
          pc,       \* pc[t]: "idle", about to "register" a tracker it creates, or
                    \* in destructors: "release" without, "erase" with m_tracker_get
          created,  \* created[t]: the tracker create_tracker() has constructed
          dying     \* dying[t]: the trackers whose destructor t is to run

vars == <<m_trackers, m_default_tracker, alive, running, held, pc, created, dying>>

Registries == UNION {[D -> Tracker] : D \in SUBSET Namespace}

Init ==
  /\ m_trackers = <<>> /\ m_default_tracker = nullptr
  /\ alive = {} /\ running = {}
  /\ held = [t \in Thread |-> {}]
  /\ pc = [t \in Thread |-> "idle"]
  /\ created = [t \in Thread |-> nullptr]
  /\ dying = [t \in Thread |-> {}]

(***************************************************************************)
(* References                                                              *)
(***************************************************************************)
\* The trackers the registry keeps.
Registered == Range(m_trackers) \cup ({m_default_tracker} \ {nullptr})

Referenced(x) ==
  \/ x \in Registered
  \/ \E t \in Thread : x \in held[t] \/ x = created[t]

\* Faulty variant of Release: the thread destroys what it lets go of, as if it
\* had a raw pointer.
ReleaseOwned(t, place, lost) ==
  /\ dying' = [dying EXCEPT ![t] = lost]
  /\ pc' = [pc EXCEPT ![t] = IF dying'[t] = {} THEN "idle" ELSE place]

\* After its other assignments thread t no longer keeps the trackers lost:
\* those without any reference left are destroyed at this place.
Release(t, place, lost) ==
  /\ dying' = [dying EXCEPT ![t] = {x \in lost : ~Referenced(x)'}]
  /\ pc' = [pc EXCEPT ![t] = IF dying'[t] = {} THEN "idle" ELSE place]

\* Faulty variant of ~Tracker: the emitter is left running.
DestroyRunning(t, x) ==
  /\ x \in dying[t]
  /\ alive' = alive \ {x}
  /\ dying' = [dying EXCEPT ![t] = @ \ {x}]
  /\ pc' = [pc EXCEPT ![t] = IF dying'[t] = {} THEN "idle" ELSE @]
  /\ UNCHANGED <<m_trackers, m_default_tracker, running, held, created>>

\* Faulty variant: the destructor polls for the end of something that does
\* not end.
DestroyPolling(t, x) ==
  /\ x \in dying[t]
  /\ running' = running \ {x}
  /\ UNCHANGED <<m_trackers, m_default_tracker, alive, held, pc, created, dying>>

\* ~Tracker(): stop() the emitter.
Destroy(t, x) ==
  /\ x \in dying[t]
  /\ running' = running \ {x}
  /\ alive' = alive \ {x}
  /\ dying' = [dying EXCEPT ![t] = @ \ {x}]
  /\ pc' = [pc EXCEPT ![t] = IF dying'[t] = {} THEN "idle" ELSE @]
  /\ UNCHANGED <<m_trackers, m_default_tracker, held, created>>

\* m_tracker_get is free; the faulty variant has no such mutex.
NotLocked == TRUE
Unlocked == \A t \in Thread : pc[t] # "erase"

Calls(t) == pc[t] = "idle"

\* The Tracker constructor; it starts the emitter.
Construct(x) ==
  /\ x \notin alive
  /\ alive' = alive \cup {x}
  /\ running' = running \cup {x}

(***************************************************************************)
(* Creating and registering                                                *)
(***************************************************************************)
\* The application constructs a tracker itself.
New(t, x) ==
  /\ Calls(t)
  /\ Construct(x)
  /\ held' = [held EXCEPT ![t] = @ \cup {x}]
  /\ UNCHANGED <<m_trackers, m_default_tracker, pc, created, dying>>

\* create_tracker() up to register_tracker().
Create(t, x) ==
  /\ Calls(t)
  /\ Construct(x)
  /\ created' = [created EXCEPT ![t] = x]
  /\ pc' = [pc EXCEPT ![t] = "register"]
  /\ UNCHANGED <<m_trackers, m_default_tracker, held, dying>>

Taken(x) == get_namespace[x] \in DOMAIN m_trackers

\* Faulty variant of Inserted: m_trackers[ns] = tracker.
Replaced(x) ==
  [ns \in DOMAIN m_trackers \cup {get_namespace[x]} |->
     IF ns = get_namespace[x] THEN x ELSE m_trackers[ns]]

\* m_trackers.insert({ns, tracker}), which keeps what is there.
Inserted(x) ==
  [ns \in DOMAIN m_trackers \cup {get_namespace[x]} |->
     IF ns \in DOMAIN m_trackers THEN m_trackers[ns] ELSE x]

\* register_tracker() for a namespace that is not taken.
Register(x) ==
  /\ Unlocked
  /\ ~Taken(x)
  /\ m_trackers' = Inserted(x)
  /\ m_default_tracker' = IF m_default_tracker = nullptr THEN x ELSE m_default_tracker

RegisterTracker(t, x) ==
  /\ Calls(t) /\ x \in held[t]
  /\ Register(x)
  /\ UNCHANGED <<alive, running, held, pc, created, dying>>

CreateRegisters(t) ==
  /\ pc[t] = "register"
  /\ Register(created[t])
  /\ held' = [held EXCEPT ![t] = @ \cup {created[t]}]
  /\ created' = [created EXCEPT ![t] = nullptr]
  /\ pc' = [pc EXCEPT ![t] = "idle"]
  /\ UNCHANGED <<alive, running, dying>>

\* Faulty variant of CreateThrows: the tracker is leaked.
CreateLeaks(t) ==
  /\ pc[t] = "register"
  /\ Unlocked
  /\ Taken(created[t])
  /\ created' = [created EXCEPT ![t] = nullptr]
  /\ pc' = [pc EXCEPT ![t] = "idle"]
  /\ UNCHANGED <<m_trackers, m_default_tracker, alive, running, held, dying>>

\* register_tracker() throws: create_tracker()'s reference goes as the stack is
\* unwound, after the lock.
CreateThrows(t) ==
  /\ pc[t] = "register"
  /\ Unlocked
  /\ Taken(created[t])
  /\ created' = [created EXCEPT ![t] = nullptr]
  /\ UNCHANGED <<m_trackers, m_default_tracker, alive, running, held>>
  /\ Release(t, "release", {created[t]})

(***************************************************************************)
(* Getting, setting the default, removing                                  *)
(***************************************************************************)
GetTracker(t, ns) ==
  /\ Calls(t) /\ Unlocked
  /\ ns \in DOMAIN m_trackers
  /\ held' = [held EXCEPT ![t] = @ \cup {m_trackers[ns]}]
  /\ UNCHANGED <<m_trackers, m_default_tracker, alive, running, pc, created, dying>>

GetDefaultTracker(t) ==
  /\ Calls(t) /\ Unlocked
  /\ m_default_tracker # nullptr
  /\ held' = [held EXCEPT ![t] = @ \cup {m_default_tracker}]
  /\ UNCHANGED <<m_trackers, m_default_tracker, alive, running, pc, created, dying>>

\* The former default may have had no other reference.
SetDefaultTracker(t, x) ==
  /\ Calls(t) /\ Unlocked
  /\ x \in held[t]
  /\ m_trackers' = Inserted(x)
  /\ m_default_tracker' = x
  /\ UNCHANGED <<alive, running, held, created>>
  /\ Release(t, "erase", Registered \ Registered')

\* Faulty variant of RemoveTracker: the default is not looked at.
RemoveKeepingDefault(t, ns) ==
  /\ Calls(t) /\ Unlocked
  /\ m_trackers' = Restrict(m_trackers, DOMAIN m_trackers \ {ns})
  /\ UNCHANGED <<m_default_tracker, alive, running, held, created>>
  /\ Release(t, "erase", Registered \ Registered')

\* remove_tracker(), of a namespace or of a tracker by its namespace.
RemoveTracker(t, ns) ==
  /\ Calls(t) /\ Unlocked
  /\ m_trackers' = Restrict(m_trackers, DOMAIN m_trackers \ {ns})
  /\ m_default_tracker' =
       IF m_default_tracker # nullptr /\ get_namespace[m_default_tracker] = ns
       THEN nullptr ELSE m_default_tracker
  /\ UNCHANGED <<alive, running, held, created>>
  /\ Release(t, "erase", Registered \ Registered')

(***************************************************************************)
(* What the holder of a reference does                                     *)
(***************************************************************************)
Drop(t, x) ==
  /\ Calls(t) /\ x \in held[t]
  /\ held' = [held EXCEPT ![t] = @ \ {x}]
  /\ UNCHANGED <<m_trackers, m_default_tracker, alive, running, created>>
  /\ Release(t, "release", {x})

Start(t, x) ==
  /\ Calls(t) /\ x \in held[t]
  /\ running' = running \cup {x}
  /\ UNCHANGED <<m_trackers, m_default_tracker, alive, held, pc, created, dying>>

\* stop(), or flush(), which ends with it.
Stop(t, x) ==
  /\ Calls(t) /\ x \in held[t]
  /\ running' = running \ {x}
  /\ UNCHANGED <<m_trackers, m_default_tracker, alive, held, pc, created, dying>>

Proceed(t) == CreateRegisters(t) \/ CreateThrows(t) \/ \E x \in dying[t] : Destroy(t, x)

Next ==
  \E t \in Thread :
    \/ Proceed(t)
    \/ \E x \in Tracker :
         \/ New(t, x) \/ Create(t, x)
         \/ RegisterTracker(t, x) \/ SetDefaultTracker(t, x)
         \/ Drop(t, x) \/ Start(t, x) \/ Stop(t, x)
    \/ \E ns \in Namespace : GetTracker(t, ns) \/ RemoveTracker(t, ns)
    \/ GetDefaultTracker(t)

\* A thread in a call is scheduled, and gets m_tracker_get in the end.
Fairness == \A t \in Thread : SF_vars(Proceed(t))

Spec == Init /\ [][Next]_vars /\ Fairness

(***************************************************************************)
(* Properties                                                              *)
(***************************************************************************)
\* Every variable keeps its type; trackers are registered by their namespace;
\* one thread at a time is in the registry.
TypeOK ==
  /\ m_trackers \in Registries
  /\ \A ns \in DOMAIN m_trackers : get_namespace[m_trackers[ns]] = ns
  /\ m_default_tracker \in Tracker \cup {nullptr}
  /\ alive \subseteq Tracker /\ running \subseteq Tracker
  /\ held \in [Thread -> SUBSET Tracker]
  /\ pc \in [Thread -> {"idle", "register", "release", "erase"}]
  /\ created \in [Thread -> Tracker \cup {nullptr}]
  /\ dying \in [Thread -> SUBSET Tracker]
  /\ \A t, u \in Thread : pc[t] = "erase" /\ pc[u] = "erase" => t = u

\* Whatever the registry or a thread refers to is a tracker that is neither
\* destroyed nor being destroyed, even while another thread removes it.
ReferencedIsAlive ==
  \A x \in Tracker : Referenced(x) => x \in alive /\ \A t \in Thread : x \notin dying[t]

\* No daemon outlives its tracker, and no tracker is destroyed twice.
DaemonsBelongToTrackers ==
  /\ running \subseteq alive
  /\ \A t \in Thread : dying[t] \subseteq alive
  /\ \A t, u \in Thread : t # u => dying[t] \cap dying[u] = {}

\* There is a default tracker only while its namespace is registered, so that
\* removing every namespace leaves no tracker behind in the registry.
DefaultIsRegistered == m_default_tracker # nullptr => Taken(m_default_tracker)

\* A registered tracker is not replaced: its namespace names it until it is
\* removed, whoever creates or registers another or makes it the default.
NamespaceKeepsTracker ==
  [][\A ns \in DOMAIN m_trackers : ns \in DOMAIN m_trackers' =>
       m_trackers'[ns] = m_trackers[ns]]_vars

\* "Trackers will be destroyed once all remaining references to them are
\* deleted" (snowplow.hpp:98), the one that create_tracker() refuses included.
Destroyed == \A x \in Tracker : (x \in alive /\ ~Referenced(x)) ~> (x \notin alive)

\* Every call returns, although destructors run with the registry locked.
CallsReturn == \A t \in Thread : (pc[t] # "idle") ~> (pc[t] = "idle")
=============================================================================
