--------------------------- MODULE Configuration ---------------------------
(***************************************************************************)
(* The configuration objects and Snowplow::create_tracker (snowplow.cpp,   *)
(* configuration/*.cpp, the constructors of Emitter): an application that  *)
(* makes a network, an emitter and a session configuration, changes them,  *)
(* and creates trackers with them or with the shorter forms of             *)
(* create_tracker, some of which throw.                                    *)
(*                                                                         *)
(* The configurations belong to one thread, so that a call is one step.    *)
(* Which event store, session store, HTTP client and URL a tracker ends up *)
(* with is what the steps work out; the settings create_tracker only       *)
(* copies (sizes, timeouts, the callback, retry rules, the cookie file,    *)
(* the Tracker's own) are left out.  An SqliteStorage object that is made  *)
(* on the way is << path, call, purpose >>; opening it succeeds.           *)
(***************************************************************************)
EXTENDS CollectorUrl

CONSTANTS Database,      \* paths of databases
          Store,         \* event and session stores of the application
          Null,          \* nullptr
          HttpClients,   \* HTTP clients of the application
          DefaultClient, \* one the Emitter makes itself
          Url,           \* collector URLs
          Collectors,    \* those of them that name a collector
          Method,
          Namespace,
          MaxCalls,      \* bound: calls of create_tracker
          MaxChanges     \* bound: configurations made or changed

ASSUME ConfigurationAssumption ==
  /\ "" \notin Database
  /\ Null \notin Store \cup ((Database \cup {""}) \X Nat \X {"events", "sessions", "both"})
  /\ Collectors \subseteq Url /\ << >> \notin Url
  /\ MaxCalls \in Nat /\ MaxChanges \in Nat

VARIABLES
  network,    \* NetworkConfiguration: protocol, hostname, method, client
  emitter,    \* EmitterConfiguration: event store and db_name
  session,    \* SessionConfiguration: session store and db_name
  trackers,   \* m_trackers, with what their Emitter and ClientSession hold
  refused,    \* collector URLs create_tracker threw for
  calls, changes,
  asked       \* history: what the application last gave to each of the
              \* configurations, the HTTP clients that were taken, and
              \* whether create_tracker has displaced its session store
vars == <<network, emitter, session, trackers, refused, calls, changes, asked>>

(***************************************************************************)
(* Constructors and setters                                                *)
(***************************************************************************)
\* A store given as an object or as a path; the constructors throw for the
\* null pointer and for the empty path.
WithStore(store) == [store |-> store, db_name |-> ""]
WithDatabase(db) == [store |-> Null, db_name |-> db]
Given == {WithStore(s) : s \in Store} \cup {WithDatabase(d) : d \in Database}

NetworkWith(url, method) ==
  [protocol |-> Protocol(url), hostname |-> Hostname(url), method |-> method,
   client |-> Null]

Init ==
  /\ \E url \in Url, method \in Method, e \in Given, s \in Given :
       /\ network = NetworkWith(url, method)
       /\ emitter = e /\ session = s
       /\ asked = [url |-> url, method |-> method, events |-> e, sessions |-> s,
                   apart |-> FALSE, displaced |-> FALSE, client |-> Null, spent |-> {}]
  /\ trackers = << >> /\ refused = {}
  /\ calls = 0 /\ changes = 0

Change == changes < MaxChanges /\ changes' = changes + 1

\* A unique_ptr is gone when its configuration has lost it.
Spent == asked.spent \cup {network.client}

NewNetwork(url, method) ==
  /\ Change
  /\ network' = NetworkWith(url, method)
  /\ asked' = [asked EXCEPT !.url = url, !.method = method, !.client = Null,
                            !.spent = Spent]
  /\ UNCHANGED <<emitter, session, trackers, refused, calls>>

SetHttpClient(client) ==
  /\ Change
  /\ client \notin Spent
  /\ network' = [network EXCEPT !.client = client]
  /\ asked' = [asked EXCEPT !.client = client, !.spent = Spent]
  /\ UNCHANGED <<emitter, session, trackers, refused, calls>>

EmitterBecomes(config) ==
  /\ Change
  /\ emitter' = config
  /\ UNCHANGED <<network, session, trackers, refused, calls>>

NewEmitter(config) ==
  /\ EmitterBecomes(config)
  /\ asked' = [asked EXCEPT !.events = config, !.apart = FALSE]

\* Faulty variant: the path stays, and create_tracker prefers it.
SetEventStoreOnly(store) ==
  /\ EmitterBecomes([emitter EXCEPT !.store = store])
  /\ asked' = [asked EXCEPT !.events = WithStore(store), !.apart = FALSE]

\* Throws for the null pointer.
SetEventStore(store) ==
  /\ EmitterBecomes(WithStore(store))
  /\ asked' = [asked EXCEPT !.events = WithStore(store), !.apart = FALSE]

\* The emitter's configuration has the storage of an earlier create_tracker
\* in place of its path, and the session's comes after that.
SessionBecomes(config) ==
  /\ Change
  /\ session' = config
  /\ asked' = [asked EXCEPT !.sessions = config,
                            !.apart = emitter # asked.events, !.displaced = FALSE]
  /\ UNCHANGED <<network, emitter, trackers, refused, calls>>

NewSession(config) == SessionBecomes(config)

\* Takes the null pointer, and keeps the path.
SetSessionStore(store) == SessionBecomes([session EXCEPT !.store = store])

(***************************************************************************)
(* create_tracker                                                          *)
(***************************************************************************)
Opened(db, purpose) == << db, calls, purpose >>

\* get_event_store and get_session_store: each opens a storage of its own.
get_store(config, purpose) ==
  IF config.store # Null THEN config.store ELSE Opened(config.db_name, purpose)

Unused(name_space) == \A i \in DOMAIN trackers : trackers[i].namespace # name_space

\* The Emitter throws if it refuses the URL; the Tracker is registered unless
\* its namespace is taken.
Create(name_space, net, events, sessions, given) ==
  LET url == FullUrl(net.hostname, net.protocol, net.method)
      accepted == ~UriRefused(net.hostname) /\ is_valid(url)
  IN  /\ calls < MaxCalls /\ calls' = calls + 1
      /\ refused' = IF accepted THEN refused ELSE refused \cup {given.url}
      /\ trackers' =
           IF accepted /\ Unused(name_space)
           THEN Append(trackers,
                  [namespace |-> name_space, url |-> to_string(url),
                   events |-> events, sessions |-> sessions,
                   client |-> IF net.client # Null THEN net.client ELSE DefaultClient,
                   asked |-> given])
           ELSE trackers

\* Faulty variant: the configuration keeps the client.
client_kept == network
\* move_http_client: the Emitter takes the client, whether it throws or not.
client_moved == [network EXCEPT !.client = Null]

CreateTracker(name_space) ==
  /\ Create(name_space, network, get_store(emitter, "events"), Null,
            [asked EXCEPT !.sessions = WithStore(Null)])
  /\ network' = client_moved
  /\ asked' = [asked EXCEPT !.spent = Spent]
  /\ UNCHANGED <<emitter, session, changes>>

\* Configurations of one path: they get one storage, and keep it, also in place
\* of a session store that the application has set since it gave the path.
OnePath == emitter.db_name # "" /\ emitter.db_name = session.db_name

CreateTrackerWithSession(name_space) ==
  LET storage == Opened(emitter.db_name, "both")
      given == [asked EXCEPT !.displaced = @ \/ (OnePath /\ asked.sessions.store # Null)]
  IN  /\ emitter' = IF OnePath THEN WithStore(storage) ELSE emitter
      /\ session' = IF OnePath THEN [session EXCEPT !.store = storage] ELSE session
      /\ Create(name_space, network, get_store(emitter', "events"),
                get_store(session', "sessions"), given)
      /\ network' = client_moved
      /\ asked' = [given EXCEPT !.spent = Spent]
      /\ UNCHANGED changes

\* The forms that make the configurations themselves.
CreateTrackerWith(name_space, url, method, events, sessions) ==
  /\ Create(name_space, NetworkWith(url, method), events, sessions,
            [url |-> url, method |-> method, events |-> WithStore(events),
             sessions |-> WithStore(sessions), apart |-> FALSE, displaced |-> FALSE,
             client |-> Null, spent |-> {}])
  /\ UNCHANGED <<network, emitter, session, changes, asked>>

\* From a path: one storage, with or without session tracking.
CreateTrackerFromPath(name_space, url, method, db, session_tracking) ==
  LET storage == Opened(db, "both")
  IN  CreateTrackerWith(name_space, url, method, storage,
                        IF session_tracking THEN storage ELSE Null)

Configure ==
  \/ \E url \in Url, method \in Method : NewNetwork(url, method)
  \/ \E client \in HttpClients : SetHttpClient(client)
  \/ \E config \in Given : NewEmitter(config) \/ NewSession(config)
  \/ \E store \in Store : SetEventStore(store)
  \/ \E store \in Store \cup {Null} : SetSessionStore(store)

CreateOne(name_space) ==
  \/ CreateTracker(name_space)
  \/ CreateTrackerWithSession(name_space)
  \/ \E url \in Url, method \in Method :
       \/ \E events \in Store, sessions \in Store \cup {Null} :
            CreateTrackerWith(name_space, url, method, events, sessions)
       \/ \E db \in Database, session_tracking \in BOOLEAN :
            CreateTrackerFromPath(name_space, url, method, db, session_tracking)

Next == Configure \/ \E name_space \in Namespace : CreateOne(name_space)

Spec == Init /\ [][Next]_vars

(***************************************************************************)
(* Properties                                                              *)
(***************************************************************************)
Uses(store, config) ==
  IF config.store # Null THEN store = config.store ELSE store[1] = config.db_name

\* A tracker stores events and sessions where the application last said,
\* whatever create_tracker did to the configurations in earlier calls, but for
\* one case: a session store that was set on a configuration made with a path
\* is displaced, when the emitter's has that path too, by the storage of the
\* path, for this tracker and those made later.  And if the application said
\* one path for both they share one connection, whose mutex and prepared
\* statements they need, unless only the session's configuration was made anew
\* after a tracker was created (set_event_store and get_event_store,
\* set_session_store and get_session_store, create_tracker's shared storage).
StoresAsConfigured ==
  \A i \in DOMAIN trackers :
    LET t == trackers[i]
        a == t.asked
    IN  /\ Uses(t.events, a.events)
        /\ t.sessions # Null =>
             Uses(t.sessions, IF a.displaced THEN WithDatabase(a.sessions.db_name)
                              ELSE a.sessions)
        /\ (a.events = a.sessions /\ ~a.apart) => t.events = t.sessions

\* The HTTP client the application set is used by the first create_tracker
\* after it, and by no other: a later one, be the first one's tracker removed
\* or never made, sends its events with the client of the platform
\* (set_http_client and move_http_client).
ClientSetIsUsed ==
  \A i \in DOMAIN trackers :
    LET a == trackers[i].asked
    IN  trackers[i].client =
          IF a.client \in a.spent \cup {Null} THEN DefaultClient ELSE a.client

\* A URL that names a collector is accepted, and events are sent to its
\* protocol, host, port and path, followed by the path of the method
\* (NetworkConfiguration, get_collector_url, CrackedUrl).
CollectorUrlKept ==
  /\ refused \cap Collectors = {}
  /\ \A i \in DOMAIN trackers :
       LET a == trackers[i].asked
       IN  a.url \in Collectors =>
             trackers[i].url = << Protocol(a.url) >> \o Hostname(a.url)
                                 \o CollectorPath(a.method)
=============================================================================
