------------------------ MODULE ConfigurationProofs ------------------------
(***************************************************************************)
(* Theorems about Configuration, for any databases, stores, HTTP clients,  *)
(* URLs and namespaces and any number of calls: what create_tracker does   *)
(* to the configurations it is given, and which URL its tracker sends to.  *)
(***************************************************************************)
EXTENDS Configuration, NatRecursion, SequenceTheorems, TLAPS

(***************************************************************************)
(* Trackers                                                                *)
(***************************************************************************)
IsSequence == \E S : trackers \in Seq(S)

LEMMA AppendToSequence ==
  ASSUME NEW S, NEW s \in Seq(S), NEW x
  PROVE  LET t == Append(s, x)
         IN  /\ t \in Seq(S \cup {x})
             /\ \A i \in DOMAIN t : t[i] = x \/ (i \in DOMAIN s /\ t[i] = s[i])
<1>1. s \in Seq(S \cup {x})
  OBVIOUS
<1> QED BY <1>1

\* create_tracker adds at most one tracker, made of what it was given.
ClientOf(net) == IF net.client # Null THEN net.client ELSE DefaultClient
UrlOf(net) == to_string(FullUrl(net.hostname, net.protocol, net.method))
IsMade(t, net, events, sessions, given) ==
  /\ t.events = events /\ t.sessions = sessions /\ t.client = ClientOf(net)
  /\ t.url = UrlOf(net) /\ t.asked = given

LEMMA CreatedTrackers ==
  ASSUME IsSequence,
         NEW name_space, NEW net, NEW events, NEW sessions, NEW given,
         Create(name_space, net, events, sessions, given)
  PROVE  /\ IsSequence'
         /\ \A i \in DOMAIN trackers' :
              \/ i \in DOMAIN trackers /\ trackers'[i] = trackers[i]
              \/ IsMade(trackers'[i], net, events, sessions, given)
<1> PICK S : trackers \in Seq(S)
  BY DEF IsSequence
<1>1. CASE trackers' = trackers
  BY <1>1 DEF IsSequence
<1>2. CASE trackers' # trackers
  <2>0. trackers' = Append(trackers,
               [namespace |-> name_space, url |-> UrlOf(net), events |-> events,
                sessions |-> sessions, client |-> ClientOf(net), asked |-> given])
    BY <1>2 DEF Create, ClientOf, UrlOf
  <2> DEFINE made == [namespace |-> name_space, url |-> UrlOf(net), events |-> events,
                      sessions |-> sessions, client |-> ClientOf(net), asked |-> given]
  <2>1. IsMade(made, net, events, sessions, given)
    BY DEF IsMade
  <2> HIDE DEF made
  <2>2. trackers' = Append(trackers, made)
    BY <2>0 DEF made
  <2>3. /\ trackers' \in Seq(S \cup {made})
        /\ \A i \in DOMAIN trackers' :
             trackers'[i] = made \/ (i \in DOMAIN trackers /\ trackers'[i] = trackers[i])
    BY <2>2, AppendToSequence
  <2> QED BY <2>1, <2>3 DEF IsSequence
<1> QED BY <1>1, <1>2

\* The fields of the two records that actions change.
Shapes ==
  /\ network = [protocol |-> network.protocol, hostname |-> network.hostname,
                method |-> network.method, client |-> network.client]
  /\ asked = [url |-> asked.url, method |-> asked.method, events |-> asked.events,
              sessions |-> asked.sessions, apart |-> asked.apart,
              displaced |-> asked.displaced,
              client |-> asked.client, spent |-> asked.spent]

\* create_tracker displaces the session store of its configuration, or has.
Displacing == asked.displaced \/ (OnePath /\ asked.sessions.store # Null)

(***************************************************************************)
(* The HTTP client                                                         *)
(***************************************************************************)
\* The configuration has the client the application set until it is taken.
ClientFor(given) == IF given.client \in given.spent \cup {Null} THEN Null ELSE given.client

ClientInv ==
  /\ IsSequence /\ Shapes
  /\ network.client = ClientFor(asked)
  /\ ClientSetIsUsed

\* create_tracker makes a tracker with the client it is given, or with the
\* platform's.
LEMMA ClientCreate ==
  ASSUME IsSequence, ClientSetIsUsed,
         NEW name_space, NEW net, NEW events, NEW sessions, NEW given,
         Create(name_space, net, events, sessions, given),
         net.client = ClientFor(given)
  PROVE  IsSequence' /\ ClientSetIsUsed'
<1>1. ClientOf(net) =
        IF given.client \in given.spent \cup {Null} THEN DefaultClient ELSE given.client
  BY DEF ClientFor, ClientOf
<1>2. \A i \in DOMAIN trackers' :
        \/ i \in DOMAIN trackers /\ trackers'[i] = trackers[i]
        \/ trackers'[i].client = ClientOf(net) /\ trackers'[i].asked = given
  BY CreatedTrackers DEF IsMade
<1>3. IsSequence'
  BY CreatedTrackers
<1> QED BY <1>1, <1>2, <1>3 DEF ClientSetIsUsed

\* The configuration's client is taken.
LEMMA ClientTaken ==
  ASSUME Shapes, network.client = ClientFor(asked), network' = client_moved,
         NEW given, given = [asked EXCEPT !.displaced = given.displaced],
         asked' = [given EXCEPT !.spent = Spent]
  PROVE  Shapes' /\ network'.client = ClientFor(asked)'
<1>1. /\ network' = [protocol |-> network.protocol, hostname |-> network.hostname,
                     method |-> network.method, client |-> Null]
      /\ asked' = [url |-> asked.url, method |-> asked.method, events |-> asked.events,
                   sessions |-> asked.sessions, apart |-> asked.apart,
                   displaced |-> given.displaced, client |-> asked.client,
                   spent |-> asked.spent \cup {network.client}]
  BY DEF Shapes, client_moved, Spent
<1>2. network'.client = Null /\ asked'.client = asked.client
      /\ asked'.spent = asked.spent \cup {network.client}
  BY <1>1
<1>3. Shapes'
  BY <1>1 DEF Shapes
<1>4. ClientFor(asked)' = Null
  BY <1>2 DEF ClientFor
<1> QED BY <1>2, <1>3, <1>4

LEMMA ClientConfigure ==
  ASSUME ClientInv, Configure
  PROVE  ClientInv'
<1>0. UNCHANGED trackers
  BY DEF Configure, NewNetwork, SetHttpClient, NewEmitter, NewSession, SetEventStore,
         SetSessionStore, EmitterBecomes, SessionBecomes
<1>1. IsSequence' /\ ClientSetIsUsed'
  BY <1>0 DEF ClientInv, IsSequence, ClientSetIsUsed
<1>2. Shapes' /\ network'.client = ClientFor(asked)'
  <2>1. ASSUME NEW url, NEW method, NewNetwork(url, method)
        PROVE  Shapes' /\ network'.client = ClientFor(asked)'
    <3>1. /\ network' = [protocol |-> Protocol(url), hostname |-> Hostname(url),
                         method |-> method, client |-> Null]
          /\ asked' = [url |-> url, method |-> method, events |-> asked.events,
                       sessions |-> asked.sessions, apart |-> asked.apart,
                       displaced |-> asked.displaced, client |-> Null, spent |-> Spent]
      BY <2>1 DEF NewNetwork, NetworkWith, ClientInv, Shapes
    <3> QED BY <3>1 DEF Shapes, ClientFor
  <2>2. ASSUME NEW client, SetHttpClient(client)
        PROVE  Shapes' /\ network'.client = ClientFor(asked)'
    <3>1. /\ network' = [protocol |-> network.protocol, hostname |-> network.hostname,
                         method |-> network.method, client |-> client]
          /\ asked' = [url |-> asked.url, method |-> asked.method, events |-> asked.events,
                       sessions |-> asked.sessions, apart |-> asked.apart,
                       displaced |-> asked.displaced, client |-> client, spent |-> Spent]
          /\ client \notin Spent
      BY <2>2 DEF SetHttpClient, ClientInv, Shapes
    <3> QED BY <3>1 DEF Shapes, ClientFor
  <2>3. ASSUME NEW config, NewEmitter(config) \/ SetEventStore(config)
        PROVE  Shapes' /\ network'.client = ClientFor(asked)'
    <3>1. PICK given : /\ network' = network
                       /\ asked' = [asked EXCEPT !.events = given, !.apart = FALSE]
      BY <2>3 DEF NewEmitter, SetEventStore, EmitterBecomes
    <3>2. asked' = [url |-> asked.url, method |-> asked.method, events |-> given,
                    sessions |-> asked.sessions, apart |-> FALSE,
                    displaced |-> asked.displaced, client |-> asked.client,
                    spent |-> asked.spent]
      BY <3>1 DEF ClientInv, Shapes
    <3> QED BY <3>1, <3>2 DEF ClientInv, Shapes, ClientFor
  <2>4. ASSUME NEW config, NewSession(config) \/ SetSessionStore(config)
        PROVE  Shapes' /\ network'.client = ClientFor(asked)'
    <3>1. PICK given, apart :
            /\ network' = network
            /\ asked' = [asked EXCEPT !.sessions = given, !.apart = apart,
                                      !.displaced = FALSE]
      BY <2>4 DEF NewSession, SetSessionStore, SessionBecomes
    <3>2. asked' = [url |-> asked.url, method |-> asked.method, events |-> asked.events,
                    sessions |-> given, apart |-> apart, displaced |-> FALSE,
                    client |-> asked.client, spent |-> asked.spent]
      BY <3>1 DEF ClientInv, Shapes
    <3> QED BY <3>1, <3>2 DEF ClientInv, Shapes, ClientFor
  <2> QED BY <2>1, <2>2, <2>3, <2>4 DEF Configure
<1> QED BY <1>1, <1>2 DEF ClientInv

LEMMA ClientCreateOne ==
  ASSUME ClientInv, NEW name_space, CreateOne(name_space)
  PROVE  ClientInv'
<1> USE DEF ClientInv
<1>1. CASE CreateTracker(name_space)
  <2> DEFINE given == [asked EXCEPT !.sessions = WithStore(Null)]
  <2>1. given.client = asked.client /\ given.spent = asked.spent
    BY DEF Shapes
  <2>2. network.client = ClientFor(given)
    BY <2>1 DEF ClientFor
  <2>3. Create(name_space, network, get_store(emitter, "events"), Null, given)
    BY <1>1 DEF CreateTracker
  <2> HIDE DEF given
  <2>4. IsSequence' /\ ClientSetIsUsed'
    BY <2>2, <2>3, ClientCreate
  <2>5. /\ asked = [asked EXCEPT !.displaced = asked.displaced]
        /\ asked' = [asked EXCEPT !.spent = Spent] /\ network' = client_moved
    BY <1>1 DEF CreateTracker, Shapes
  <2>6. Shapes' /\ network'.client = ClientFor(asked)'
    BY <2>5, ClientTaken
  <2> QED BY <2>4, <2>6
<1>2. CASE CreateTrackerWithSession(name_space)
  <2> DEFINE given == [asked EXCEPT !.displaced = Displacing]
  <2>1. /\ given.client = asked.client /\ given.spent = asked.spent
        /\ given = [asked EXCEPT !.displaced = given.displaced]
    BY DEF Shapes
  <2>2. network.client = ClientFor(given)
    BY <2>1 DEF ClientFor
  <2>3. /\ Create(name_space, network, get_store(emitter', "events"),
                  get_store(session', "sessions"), given)
        /\ asked' = [given EXCEPT !.spent = Spent] /\ network' = client_moved
    BY <1>2 DEF CreateTrackerWithSession, Displacing
  <2> HIDE DEF given
  <2>4. IsSequence' /\ ClientSetIsUsed'
    BY <2>2, <2>3, ClientCreate
  <2>5. Shapes' /\ network'.client = ClientFor(asked)'
    BY <2>1, <2>3, ClientTaken
  <2> QED BY <2>4, <2>5
<1>3. ASSUME NEW url, NEW method, NEW events, NEW sessions,
             CreateTrackerWith(name_space, url, method, events, sessions)
      PROVE  ClientInv'
  <2> DEFINE given == [url |-> url, method |-> method, events |-> WithStore(events),
                       sessions |-> WithStore(sessions), apart |-> FALSE,
                       displaced |-> FALSE, client |-> Null, spent |-> {}]
  <2>1. NetworkWith(url, method).client = ClientFor(given)
    BY DEF NetworkWith, ClientFor
  <2>2. /\ Create(name_space, NetworkWith(url, method), events, sessions, given)
        /\ UNCHANGED <<network, asked>>
    BY <1>3 DEF CreateTrackerWith
  <2> HIDE DEF given
  <2>3. IsSequence' /\ ClientSetIsUsed'
    BY <2>1, <2>2, ClientCreate
  <2> QED BY <2>2, <2>3 DEF Shapes, ClientFor
<1> QED BY <1>1, <1>2, <1>3 DEF CreateOne, CreateTrackerFromPath

LEMMA ClientStep == ClientInv /\ [Next]_vars => ClientInv'
<1>1. ClientInv /\ UNCHANGED vars => ClientInv'
  BY DEF ClientInv, vars, IsSequence, Shapes, ClientFor, ClientSetIsUsed
<1> QED BY <1>1, ClientConfigure, ClientCreateOne DEF Next

LEMMA ClientInit == Init => ClientInv
<1> SUFFICES ASSUME Init PROVE ClientInv
  OBVIOUS
<1>1. /\ trackers = << >>
      /\ \E url, method : network = [protocol |-> Protocol(url), hostname |-> Hostname(url),
                                     method |-> method, client |-> Null]
      /\ \E url, method, e, s :
           asked = [url |-> url, method |-> method, events |-> e, sessions |-> s,
                    apart |-> FALSE, displaced |-> FALSE, client |-> Null, spent |-> {}]
  BY DEF Init, NetworkWith
<1>2. IsSequence /\ ClientSetIsUsed
  BY <1>1 DEF IsSequence, ClientSetIsUsed
<1>3. Shapes /\ network.client = ClientFor(asked)
  BY <1>1 DEF Shapes, ClientFor
<1> QED BY <1>2, <1>3 DEF ClientInv

\* The HTTP client the application set is used by the first create_tracker
\* after it and by no other, however often the calls throw.
THEOREM ClientsAreAsSet == Spec => []ClientSetIsUsed
<1>1. ClientInv => ClientSetIsUsed
  BY DEF ClientInv
<1> QED BY <1>1, ClientInit, ClientStep, PTL DEF Spec

(***************************************************************************)
(* Stores                                                                  *)
(***************************************************************************)
\* A storage that was opened for a path.
IsStorage(store, db) ==
  \E n \in Nat, purpose \in {"events", "sessions", "both"} : store = << db, n, purpose >>

\* A configuration is as it was given, or has a storage for the path given.
Follows(config, given) ==
  config = given \/ (given.store = Null /\ IsStorage(config.store, given.db_name))

IsConfig(config) ==
  /\ config = [store |-> config.store, db_name |-> config.db_name]
  /\ config.db_name \in Database \cup {""}

\* Configurations given the same path have the same storage once the emitter's
\* has one, unless the session's came later.
StoreInv ==
  /\ IsSequence /\ Shapes /\ calls \in Nat
  /\ asked.events \in Given
  /\ IsConfig(emitter) /\ IsConfig(session) /\ IsConfig(asked.sessions)
  /\ Follows(emitter, asked.events)
  /\ emitter # asked.events => emitter.db_name = ""
  /\ session.db_name = asked.sessions.db_name /\ asked.displaced \in BOOLEAN
  /\ ~asked.displaced => Follows(session, asked.sessions)
  /\ asked.displaced => /\ IsStorage(session.store, session.db_name)
                         /\ asked.sessions.store # Null /\ session.db_name # ""
  /\ asked.events = asked.sessions /\ ~asked.apart /\ emitter # asked.events =>
       session.store = emitter.store
  /\ StoresAsConfigured

LEMMA StorageIsStore ==
  ASSUME NEW db \in Database \cup {""}, NEW store, IsStorage(store, db)
  PROVE  store # Null /\ store[1] = db
<1> PICK n \in Nat, purpose \in {"events", "sessions", "both"} : store = << db, n, purpose >>
  BY DEF IsStorage
<1>1. store \in (Database \cup {""}) \X Nat \X {"events", "sessions", "both"}
  OBVIOUS
<1>2. store # Null
  BY <1>1, ConfigurationAssumption DEF ConfigurationAssumption
<1> QED BY <1>2

LEMMA StoreConfig ==
  ASSUME NEW store
  PROVE  LET c == WithStore(store)
         IN  IsConfig(c) /\ c.store = store /\ c.db_name = ""
BY DEF WithStore, IsConfig

LEMMA DatabaseConfig ==
  ASSUME NEW db \in Database
  PROVE  LET c == WithDatabase(db)
         IN  IsConfig(c) /\ c.store = Null /\ c.db_name = db
BY DEF WithDatabase, IsConfig

LEMMA GivenConfig ==
  ASSUME NEW config \in Given
  PROVE  /\ IsConfig(config)
         /\ config.store # Null => config.db_name = ""
         /\ config.store = Null => config.db_name \in Database
<1>1. Null \notin Store
  BY ConfigurationAssumption DEF ConfigurationAssumption
<1>2. (\E store \in Store : config = WithStore(store))
        \/ \E db \in Database : config = WithDatabase(db)
  BY DEF Given
<1> QED BY <1>1, <1>2, StoreConfig, DatabaseConfig

LEMMA ConfigWith ==
  ASSUME NEW config, IsConfig(config), NEW store
  PROVE  [config EXCEPT !.store = store] = [store |-> store, db_name |-> config.db_name]
<1>1. config = [store |-> config.store, db_name |-> config.db_name]
  BY DEF IsConfig
<1>2. ASSUME NEW s, NEW d, config = [store |-> s, db_name |-> d]
      PROVE  [config EXCEPT !.store = store] = [store |-> store, db_name |-> d]
  BY <1>2
<1> QED BY <1>1, <1>2

\* get_event_store and get_session_store return what was given.
LEMMA GetStore ==
  ASSUME calls \in Nat, NEW config, NEW given, NEW purpose \in {"events", "sessions"},
         given.db_name \in Database \cup {""}, Follows(config, given)
  PROVE  LET store == get_store(config, purpose)
         IN  /\ store # Null
             /\ Uses(store, given)
             /\ config.store # Null => store = config.store
<1>1. CASE config.store # Null
  BY <1>1, StorageIsStore DEF Follows, get_store, Uses
<1>2. CASE config.store = Null
  <2>1. config = given
    BY <1>2, StorageIsStore DEF Follows
  <2>2. IsStorage(Opened(given.db_name, purpose), given.db_name)
    BY DEF IsStorage, Opened
  <2>3. get_store(config, purpose) = Opened(given.db_name, purpose)
    BY <1>2, <2>1 DEF get_store
  <2> QED BY <1>2, <2>1, <2>2, <2>3, StorageIsStore DEF Uses
<1> QED BY <1>1, <1>2

\* What a tracker that was given this is to use.
SessionsFor(given) ==
  IF given.displaced THEN WithDatabase(given.sessions.db_name) ELSE given.sessions
RightStores(events, sessions, given) ==
  /\ Uses(events, given.events)
  /\ sessions # Null => Uses(sessions, SessionsFor(given))
  /\ given.events = given.sessions /\ ~given.apart => events = sessions

LEMMA StoreCreate ==
  ASSUME IsSequence, StoresAsConfigured,
         NEW name_space, NEW net, NEW events, NEW sessions, NEW given,
         Create(name_space, net, events, sessions, given),
         RightStores(events, sessions, given)
  PROVE  StoresAsConfigured'
<1>1. \A i \in DOMAIN trackers' :
        \/ i \in DOMAIN trackers /\ trackers'[i] = trackers[i]
        \/ /\ trackers'[i].events = events /\ trackers'[i].sessions = sessions
           /\ trackers'[i].asked = given
  BY CreatedTrackers DEF IsMade
<1> QED BY <1>1 DEF StoresAsConfigured, RightStores, SessionsFor

LEMMA StoreConfigure ==
  ASSUME StoreInv, Configure
  PROVE  StoreInv'
<1>0. UNCHANGED <<trackers, calls>>
  BY DEF Configure, NewNetwork, SetHttpClient, NewEmitter, NewSession, SetEventStore,
         SetSessionStore, EmitterBecomes, SessionBecomes
<1>1. IsSequence' /\ StoresAsConfigured' /\ calls' \in Nat
  BY <1>0 DEF StoreInv, IsSequence, StoresAsConfigured
<1>2. ASSUME NEW url, NEW method, NewNetwork(url, method)
      PROVE  StoreInv'
  <2>1. /\ network' = [protocol |-> Protocol(url), hostname |-> Hostname(url),
                       method |-> method, client |-> Null]
        /\ asked' = [url |-> url, method |-> method, events |-> asked.events,
                     sessions |-> asked.sessions, apart |-> asked.apart,
                     displaced |-> asked.displaced, client |-> Null, spent |-> Spent]
        /\ UNCHANGED <<emitter, session>>
    BY <1>2 DEF NewNetwork, NetworkWith, StoreInv, Shapes
  <2> QED BY <1>1, <2>1 DEF StoreInv, Shapes
<1>3. ASSUME NEW client, SetHttpClient(client)
      PROVE  StoreInv'
  <2>1. /\ network' = [protocol |-> network.protocol, hostname |-> network.hostname,
                       method |-> network.method, client |-> client]
        /\ asked' = [url |-> asked.url, method |-> asked.method, events |-> asked.events,
                     sessions |-> asked.sessions, apart |-> asked.apart,
                     displaced |-> asked.displaced, client |-> client, spent |-> Spent]
        /\ UNCHANGED <<emitter, session>>
    BY <1>3 DEF SetHttpClient, StoreInv, Shapes
  <2> QED BY <1>1, <2>1 DEF StoreInv, Shapes
<1>4. ASSUME NEW config \in Given, emitter' = config,
             asked' = [asked EXCEPT !.events = config, !.apart = FALSE],
             UNCHANGED <<network, session>>
      PROVE  StoreInv'
  <2>1. asked' = [url |-> asked.url, method |-> asked.method, events |-> config,
                  sessions |-> asked.sessions, apart |-> FALSE,
                  displaced |-> asked.displaced, client |-> asked.client,
                  spent |-> asked.spent]
    BY <1>4 DEF StoreInv, Shapes
  <2>2. IsConfig(config)
    BY GivenConfig
  <2> QED BY <1>1, <1>4, <2>1, <2>2 DEF StoreInv, Shapes, Follows, IsConfig
<1>5. ASSUME NEW config, IsConfig(config), SessionBecomes(config)
      PROVE  StoreInv'
  <2>1. /\ asked' = [url |-> asked.url, method |-> asked.method, events |-> asked.events,
                     sessions |-> config, apart |-> emitter # asked.events,
                     displaced |-> FALSE, client |-> asked.client,
                     spent |-> asked.spent]
        /\ session' = config /\ UNCHANGED <<network, emitter>>
    BY <1>5 DEF SessionBecomes, StoreInv, Shapes
  <2> QED BY <1>1, <1>5, <2>1 DEF StoreInv, Shapes, Follows, IsConfig
<1>6. ASSUME NEW config \in Given, NewEmitter(config)
      PROVE  StoreInv'
  BY <1>4, <1>6 DEF NewEmitter, EmitterBecomes
<1>7. ASSUME NEW store \in Store, SetEventStore(store)
      PROVE  StoreInv'
  <2>1. WithStore(store) \in Given
    BY DEF Given
  <2> QED BY <1>4, <1>7, <2>1 DEF SetEventStore, EmitterBecomes
<1>8. ASSUME NEW config \in Given, NewSession(config)
      PROVE  StoreInv'
  BY <1>5, <1>8, GivenConfig DEF NewSession
<1>9. ASSUME NEW store, SetSessionStore(store)
      PROVE  StoreInv'
  <2>0. IsConfig(session)
    BY DEF StoreInv
  <2>1. [session EXCEPT !.store = store] = [store |-> store, db_name |-> session.db_name]
    BY <2>0, ConfigWith
  <2>2. IsConfig([store |-> store, db_name |-> session.db_name])
    BY <2>0 DEF IsConfig
  <2> QED BY <1>5, <1>9, <2>1, <2>2 DEF SetSessionStore
<1> QED BY <1>2, <1>3, <1>6, <1>7, <1>8, <1>9 DEF Configure

\* The stores of CreateTracker, and of CreateTrackerWithSession for
\* configurations of different paths, or none.
LEMMA RightWithoutSession ==
  ASSUME StoreInv, NEW given, given.events = asked.events,
         given.sessions = WithStore(Null)
  PROVE  RightStores(get_store(emitter, "events"), Null, given)
<1>1. Uses(get_store(emitter, "events"), asked.events)
  BY GetStore, GivenConfig DEF StoreInv, IsConfig
<1>2. asked.events # WithStore(Null)
  BY GivenConfig, StoreConfig, ConfigurationAssumption DEF StoreInv, ConfigurationAssumption
<1> QED BY <1>1, <1>2 DEF RightStores

LEMMA RightApart ==
  ASSUME StoreInv, ~OnePath
  PROVE  RightStores(get_store(emitter, "events"), get_store(session, "sessions"), asked)
<1>1. /\ Uses(get_store(emitter, "events"), asked.events)
      /\ emitter.store # Null => get_store(emitter, "events") = emitter.store
  BY GetStore, GivenConfig DEF StoreInv, IsConfig
<1>2. /\ Uses(get_store(session, "sessions"), SessionsFor(asked))
      /\ session.store # Null => get_store(session, "sessions") = session.store
  <2>1. CASE ~asked.displaced
    BY <2>1, GetStore DEF StoreInv, IsConfig, SessionsFor
  <2>2. CASE asked.displaced
    <3>1. session.store # Null /\ session.store[1] = session.db_name
      BY <2>2, StorageIsStore DEF StoreInv, IsConfig
    <3> QED BY <2>2, <3>1 DEF StoreInv, SessionsFor, WithDatabase, Uses, get_store
  <2> QED BY <2>1, <2>2
<1>3. ASSUME asked.events = asked.sessions, ~asked.apart
      PROVE  emitter.store # Null /\ session.store = emitter.store
  <2>1. CASE emitter # asked.events
    <3>1. emitter.store # Null
      BY <2>1, GivenConfig, StorageIsStore DEF StoreInv, Follows
    <3> QED BY <1>3, <2>1, <3>1 DEF StoreInv
  <2>2. CASE emitter = asked.events
    <3>1. asked.events.store # Null
      <4> SUFFICES ASSUME asked.events.store = Null PROVE FALSE
        OBVIOUS
      <4>1. emitter.db_name \in Database /\ session.db_name = emitter.db_name
        BY <1>3, <2>2, GivenConfig DEF StoreInv
      <4> QED BY <4>1, ConfigurationAssumption DEF ConfigurationAssumption, OnePath
    <3>2. ~asked.displaced
      BY <1>3, <3>1, GivenConfig DEF StoreInv
    <3> QED BY <1>3, <2>2, <3>1, <3>2 DEF StoreInv, Follows
  <2> QED BY <2>1, <2>2
<1> QED BY <1>1, <1>2, <1>3 DEF RightStores

\* With configurations of one path, and a storage for both.
LEMMA RightTogether ==
  ASSUME StoreInv, OnePath, NEW storage, IsStorage(storage, emitter.db_name), NEW given,
         given.events = asked.events, given.sessions = asked.sessions,
         given.displaced = Displacing
  PROVE  /\ asked.events = WithDatabase(emitter.db_name)
         /\ emitter.db_name \in Database
         /\ RightStores(storage, storage, given)
<1>1. /\ emitter = asked.events /\ emitter.db_name # ""
      /\ asked.sessions.db_name = emitter.db_name
  BY DEF StoreInv, OnePath
<1>2. emitter.db_name \in Database
  BY <1>1 DEF StoreInv, IsConfig
<1>3. emitter = WithDatabase(emitter.db_name)
  <2>1. IsConfig(emitter) /\ emitter.store = Null
    BY <1>1, GivenConfig DEF StoreInv
  <2> QED BY <2>1 DEF IsConfig, WithDatabase
<1>4. Uses(storage, WithDatabase(emitter.db_name))
  BY <1>2, StorageIsStore DEF WithDatabase, Uses
<1>5. Uses(storage, SessionsFor(given))
  <2>1. CASE given.displaced
    BY <1>1, <1>4, <2>1 DEF SessionsFor
  <2>2. CASE ~given.displaced
    <3>1. asked.sessions.store = Null
      BY <2>2 DEF Displacing
    <3> QED BY <1>1, <1>2, <2>2, <3>1, StorageIsStore DEF SessionsFor, Uses
  <2> QED BY <2>1, <2>2
<1> QED BY <1>1, <1>2, <1>3, <1>4, <1>5 DEF RightStores

LEMMA StoreTaken ==
  ASSUME StoreInv, NEW given, given = [asked EXCEPT !.displaced = given.displaced],
         network' = client_moved, asked' = [given EXCEPT !.spent = Spent]
  PROVE  /\ Shapes'
         /\ asked'.events = asked.events /\ asked'.apart = asked.apart
         /\ asked'.sessions = asked.sessions
         /\ asked'.displaced = given.displaced
<1>0. Shapes
  BY DEF StoreInv
<1>1. /\ network' = [protocol |-> network.protocol, hostname |-> network.hostname,
                     method |-> network.method, client |-> Null]
      /\ asked' = [url |-> asked.url, method |-> asked.method, events |-> asked.events,
                   sessions |-> asked.sessions, apart |-> asked.apart,
                   displaced |-> given.displaced, client |-> asked.client,
                   spent |-> Spent]
  BY <1>0 DEF Shapes, client_moved
<1> QED BY <1>1 DEF Shapes

LEMMA StoreCreateOne ==
  ASSUME StoreInv, NEW name_space, CreateOne(name_space)
  PROVE  StoreInv'
<1>0. IsSequence /\ StoresAsConfigured /\ Shapes /\ calls \in Nat
  BY DEF StoreInv
<1>1. CASE CreateTracker(name_space)
  <2> DEFINE given == [asked EXCEPT !.sessions = WithStore(Null)]
  <2>1. given.events = asked.events /\ given.sessions = WithStore(Null)
    BY <1>0 DEF Shapes
  <2>2. Create(name_space, network, get_store(emitter, "events"), Null, given)
    BY <1>1 DEF CreateTracker
  <2> HIDE DEF given
  <2>3. IsSequence' /\ StoresAsConfigured'
    BY <1>0, <2>1, <2>2, CreatedTrackers, StoreCreate, RightWithoutSession
  <2>4. /\ asked = [asked EXCEPT !.displaced = asked.displaced]
        /\ asked' = [asked EXCEPT !.spent = Spent] /\ network' = client_moved
        /\ UNCHANGED <<emitter, session>>
    BY <1>0, <1>1 DEF CreateTracker, Shapes
  <2>5. /\ Shapes'
        /\ asked'.events = asked.events /\ asked'.apart = asked.apart
        /\ asked'.sessions = asked.sessions /\ asked'.displaced = asked.displaced
    BY <2>4, StoreTaken
  <2>6. calls' \in Nat
    BY <1>0, <2>2 DEF Create
  <2> QED BY <2>3, <2>4, <2>5, <2>6 DEF StoreInv
<1>2. CASE CreateTrackerWithSession(name_space) /\ ~OnePath
  <2>1. asked = [asked EXCEPT !.displaced = Displacing]
    <3>1. Displacing = asked.displaced
      BY <1>2 DEF StoreInv, Displacing
    <3>2. asked = [asked EXCEPT !.displaced = asked.displaced]
      BY <1>0 DEF Shapes
    <3> QED BY <3>1, <3>2
  <2>2. /\ UNCHANGED <<emitter, session>>
        /\ Create(name_space, network, get_store(emitter', "events"),
                  get_store(session', "sessions"), [asked EXCEPT !.displaced = Displacing])
        /\ asked' = [[asked EXCEPT !.displaced = Displacing] EXCEPT !.spent = Spent]
        /\ network' = client_moved
    BY <1>2 DEF CreateTrackerWithSession, Displacing
  <2>3. /\ Create(name_space, network, get_store(emitter, "events"),
                  get_store(session, "sessions"), asked)
        /\ asked' = [asked EXCEPT !.spent = Spent]
    BY <2>1, <2>2
  <2>4. IsSequence' /\ StoresAsConfigured'
    BY <1>0, <1>2, <2>3, CreatedTrackers, StoreCreate, RightApart
  <2>5. asked = [asked EXCEPT !.displaced = asked.displaced]
    BY <1>0 DEF Shapes
  <2>6. /\ Shapes'
        /\ asked'.events = asked.events /\ asked'.apart = asked.apart
        /\ asked'.sessions = asked.sessions /\ asked'.displaced = asked.displaced
    BY <2>2, <2>3, <2>5, StoreTaken
  <2>7. calls' \in Nat
    BY <1>0, <2>3 DEF Create
  <2> QED BY <2>2, <2>4, <2>6, <2>7 DEF StoreInv
<1>3. CASE CreateTrackerWithSession(name_space) /\ OnePath
  <2> DEFINE storage == Opened(emitter.db_name, "both")
             given == [asked EXCEPT !.displaced = Displacing]
  <2>1. /\ emitter' = WithStore(storage) /\ session' = [session EXCEPT !.store = storage]
        /\ Create(name_space, network, get_store(emitter', "events"),
                  get_store(session', "sessions"), given)
        /\ asked' = [given EXCEPT !.spent = Spent] /\ network' = client_moved
    BY <1>3 DEF CreateTrackerWithSession, Displacing
  <2>2. /\ given.events = asked.events /\ given.sessions = asked.sessions
        /\ given.displaced = Displacing
        /\ given = [asked EXCEPT !.displaced = given.displaced]
    BY <1>0 DEF Shapes
  <2>3. IsStorage(storage, emitter.db_name)
    BY <1>0 DEF Opened, IsStorage
  <2> HIDE DEF storage, given
  <2>4. /\ asked.events = WithDatabase(emitter.db_name)
        /\ emitter.db_name \in Database
        /\ RightStores(storage, storage, given)
    BY <1>3, <2>2, <2>3, RightTogether
  <2>5. storage # Null
    BY <2>3, <2>4, StorageIsStore
  <2>6. session' = [store |-> storage, db_name |-> session.db_name]
    <3>1. IsConfig(session)
      BY DEF StoreInv
    <3> QED BY <2>1, <3>1 DEF IsConfig
  <2>7. /\ IsConfig(emitter)' /\ emitter'.store = storage /\ emitter'.db_name = ""
        /\ IsConfig(session)' /\ session'.store = storage
    <3>1. session.db_name = emitter.db_name
      BY <1>3 DEF OnePath
    <3> QED BY <2>1, <2>4, <2>6, <3>1, StoreConfig DEF IsConfig
  <2>8. get_store(emitter', "events") = storage /\ get_store(session', "sessions") = storage
    BY <2>5, <2>7 DEF get_store
  <2>9. IsSequence' /\ StoresAsConfigured'
    BY <1>0, <2>1, <2>4, <2>8, CreatedTrackers, StoreCreate
  <2>10. /\ Shapes'
         /\ asked'.events = asked.events /\ asked'.apart = asked.apart
         /\ asked'.sessions = asked.sessions /\ asked'.displaced = Displacing
    BY <2>1, <2>2, StoreTaken
  <2>11. /\ session.db_name = emitter.db_name /\ session'.db_name = emitter.db_name
         /\ asked.sessions.db_name = emitter.db_name /\ emitter.db_name # ""
    BY <1>3, <2>6 DEF OnePath, StoreInv
  <2>12. Follows(emitter, asked.events)'
    <3> DEFINE of_path == WithDatabase(emitter.db_name)
    <3>1. of_path.store = Null /\ of_path.db_name = emitter.db_name
      BY <2>4, DatabaseConfig
    <3>2. asked'.events = of_path
      BY <2>4, <2>10
    <3> HIDE DEF of_path
    <3> QED BY <2>3, <2>7, <3>1, <3>2 DEF Follows
  <2>13. /\ ~Displacing => Follows(session, asked.sessions)'
         /\ Displacing => /\ IsStorage(session.store, session.db_name)'
                          /\ asked'.sessions.store # Null /\ session'.db_name # ""
         /\ Displacing \in BOOLEAN
    <3>1. ASSUME ~Displacing PROVE Follows(session, asked.sessions)'
      <4>1. asked.sessions.store = Null
        BY <1>3, <3>1 DEF Displacing
      <4> QED BY <2>3, <2>7, <2>10, <2>11, <4>1 DEF Follows
    <3>2. ASSUME Displacing
          PROVE  IsStorage(session.store, session.db_name)' /\ asked'.sessions.store # Null
      <4>1. asked.sessions.store # Null
        BY <3>2 DEF Displacing, StoreInv
      <4> QED BY <2>3, <2>7, <2>10, <2>11, <4>1
    <3>3. Displacing \in BOOLEAN
      BY DEF Displacing, StoreInv
    <3> QED BY <2>11, <3>1, <3>2, <3>3
  <2>14. calls' \in Nat
    BY <1>0, <2>1 DEF Create
  <2>15. asked'.events \in Given /\ IsConfig(asked.sessions)'
    BY <2>10 DEF StoreInv, IsConfig
  <2> HIDE DEF storage, given
  <2> QED BY <2>7, <2>9, <2>10, <2>11, <2>12, <2>13, <2>14, <2>15 DEF StoreInv
<1>4. ASSUME NEW url, NEW method, NEW events, NEW sessions, events # Null,
             sessions \in {events, Null} \/ events \in Store,
             CreateTrackerWith(name_space, url, method, events, sessions)
      PROVE  StoreInv'
  <2> DEFINE given == [url |-> url, method |-> method, events |-> WithStore(events),
                       sessions |-> WithStore(sessions), apart |-> FALSE,
                       displaced |-> FALSE, client |-> Null, spent |-> {}]
  <2>1. RightStores(events, sessions, given)
    <3>1. /\ given.events.store = events /\ given.sessions.store = sessions
          /\ ~given.displaced
      BY DEF WithStore
    <3> HIDE DEF given
    <3> QED BY <1>4, <3>1 DEF RightStores, Uses, SessionsFor
  <2>2. /\ Create(name_space, NetworkWith(url, method), events, sessions, given)
        /\ UNCHANGED <<network, emitter, session, asked>>
    BY <1>4 DEF CreateTrackerWith
  <2> HIDE DEF given
  <2>3. IsSequence' /\ StoresAsConfigured'
    BY <1>0, <2>1, <2>2, CreatedTrackers, StoreCreate
  <2>4. calls' \in Nat
    BY <1>0, <2>2 DEF Create
  <2>5. Shapes'
    BY <1>0, <2>2 DEF Shapes
  <2> QED BY <2>2, <2>3, <2>4, <2>5 DEF StoreInv
<1>5. ASSUME NEW url \in Url, NEW method \in Method, NEW events \in Store,
             NEW sessions \in Store \cup {Null},
             CreateTrackerWith(name_space, url, method, events, sessions)
      PROVE  StoreInv'
  <2>1. events # Null
    BY ConfigurationAssumption DEF ConfigurationAssumption
  <2> QED BY <1>4, <1>5, <2>1
<1>6. ASSUME NEW url \in Url, NEW method \in Method, NEW db \in Database,
             NEW session_tracking \in BOOLEAN,
             CreateTrackerFromPath(name_space, url, method, db, session_tracking)
      PROVE  StoreInv'
  <2>1. IsStorage(Opened(db, "both"), db)
    BY <1>0 DEF Opened, IsStorage
  <2>2. Opened(db, "both") # Null
    BY <2>1, StorageIsStore
  <2> DEFINE sessions == IF session_tracking THEN Opened(db, "both") ELSE Null
  <2>3. CreateTrackerWith(name_space, url, method, Opened(db, "both"), sessions)
    BY <1>6 DEF CreateTrackerFromPath
  <2>4. sessions \in {Opened(db, "both"), Null}
    OBVIOUS
  <2> HIDE DEF sessions
  <2> QED BY <1>4, <2>2, <2>3, <2>4
<1> QED BY <1>1, <1>2, <1>3, <1>5, <1>6 DEF CreateOne

LEMMA StoreStep == StoreInv /\ [Next]_vars => StoreInv'
<1>1. StoreInv /\ UNCHANGED vars => StoreInv'
  BY DEF StoreInv, vars, IsSequence, Shapes, StoresAsConfigured, IsConfig, Follows
<1> QED BY <1>1, StoreConfigure, StoreCreateOne DEF Next

LEMMA StoreInit == Init => StoreInv
<1> SUFFICES ASSUME Init PROVE StoreInv
  OBVIOUS
<1> PICK url \in Url, method \in Method, e \in Given, s \in Given :
      /\ network = NetworkWith(url, method)
      /\ emitter = e /\ session = s
      /\ asked = [url |-> url, method |-> method, events |-> e, sessions |-> s,
                  apart |-> FALSE, displaced |-> FALSE, client |-> Null, spent |-> {}]
  BY DEF Init
<1>1. trackers = << >> /\ calls = 0
  BY DEF Init
<1>2. IsSequence /\ StoresAsConfigured
  BY <1>1 DEF IsSequence, StoresAsConfigured
<1>3. IsConfig(e) /\ IsConfig(s)
  BY GivenConfig
<1>4. Shapes
  BY DEF Shapes, NetworkWith
<1> QED BY <1>1, <1>2, <1>3, <1>4 DEF StoreInv, Follows

\* A tracker stores events and sessions where the application last said,
\* whatever earlier calls of create_tracker have put into the configurations,
\* but for a session store that create_tracker displaced by the storage of the
\* path both configurations have (create_tracker, get_event_store,
\* get_session_store and the setters).
THEOREM StoresAreAsConfigured == Spec => []StoresAsConfigured
<1>1. StoreInv => StoresAsConfigured
  BY DEF StoreInv
<1> QED BY <1>1, StoreInit, StoreStep, PTL DEF Spec

(***************************************************************************)
(* Collector URLs                                                          *)
(***************************************************************************)
\* What is after the protocol of a collector's URL with the path of the method:
\* the host is its first n tokens, and the port those up to the m-th.
HostAndPort(t, n, m) ==
  /\ t \in Seq(Token) /\ n \in Nat /\ 3 <= n /\ m \in {n, n + 2} /\ m < Len(t)
  /\ \A i \in 1..n : t[i] \in {Word, Number, "."}
  /\ t[1] # "." /\ \E i \in 2..n - 1 : t[i] = "."
  /\ m = n \/ (t[n + 1] = ":" /\ t[n + 2] = Number)
  /\ t[m + 1] = "/"

LEMMA PathOfMethod ==
  ASSUME NEW method
  PROVE  CollectorPath(method) \in Seq(Token) /\ Len(CollectorPath(method)) > 0
         /\ CollectorPath(method)[1] = "/"
<1>1. CASE method = "GET"
  BY <1>1 DEF CollectorPath, Token, Word
<1>2. CASE method # "GET"
  BY <1>2 DEF CollectorPath, Token, Word
<1> QED BY <1>1, <1>2

LEMMA CollectorHost ==
  ASSUME NEW url, HasDottedHost(url), NEW method
  PROVE  LET s == Hostname(url) IN
         /\ s \in Seq(Token) /\ ~UriRefused(s)
         /\ \E n, m : HostAndPort(s \o CollectorPath(method), n, m)
<1> DEFINE s == Hostname(url)
           p == CollectorPath(method)
           t == s \o p
<1>1. url \in Seq(Token)
  BY DEF HasDottedHost
<1>2. PICK n \in 3..Len(s) :
           /\ \A i \in 1..n : s[i] \in {Word, Number, "."}
           /\ s[1] # "." /\ \E i \in 2..n - 1 : s[i] = "."
           /\ \E m \in {n, n + 2} :
                /\ m = n \/ (m <= Len(s) /\ s[n + 1] = ":" /\ s[n + 2] = Number)
                /\ m = Len(s) \/ s[m + 1] = "/"
  BY DEF HasDottedHost
<1>3. PICK m \in {n, n + 2} :
                /\ m = n \/ (m <= Len(s) /\ s[n + 1] = ":" /\ s[n + 2] = Number)
                /\ m = Len(s) \/ s[m + 1] = "/"
  BY <1>2
<1>4. s \in Seq(Token)
  <2>1. CASE url # << >>
    BY <1>1, <2>1 DEF Hostname
  <2>2. CASE url = << >>
    BY <1>1, <2>2 DEF Hostname
  <2> QED BY <2>1, <2>2
<1>5. p \in Seq(Token) /\ Len(p) > 0 /\ p[1] = "/"
  BY PathOfMethod
<1> HIDE DEF s, p
<1>6. ~UriRefused(s)
  <2>1. s # << >> /\ s[1] \in {Word, Number, "."}
    BY <1>2, <1>4
  <2> QED BY <2>1 DEF UriRefused, Scheme, Word, Number
<1>7. /\ t \in Seq(Token) /\ Len(t) = Len(s) + Len(p)
      /\ \A i \in 1..Len(s) : t[i] = s[i]
      /\ t[Len(s) + 1] = p[1]
  BY <1>4, <1>5
<1> HIDE DEF t
<1>8. Len(s) \in Nat /\ Len(p) \in Nat /\ m <= Len(s)
  <2>1. Len(s) \in Nat /\ Len(p) \in Nat
    BY <1>4, <1>5
  <2>2. m = n \/ m <= Len(s)
    BY <1>3
  <2> QED BY <1>2, <2>1, <2>2
<1>9. HostAndPort(t, n, m)
  <2>0. n \in Nat /\ 3 <= n /\ n <= Len(s) /\ m \in Nat
    BY <1>2, <1>3, <1>8
  <2>1. /\ n \in Nat /\ 3 <= n /\ m < Len(t)
        /\ \A i \in 1..n : t[i] = s[i]
    <3>1. Len(t) \in Nat /\ m < Len(t)
      BY <1>5, <1>7, <1>8, <2>0
    <3>2. \A i \in 1..n : i \in 1..Len(s)
      BY <1>8, <2>0
    <3> QED BY <1>7, <2>0, <3>1, <3>2
  <2>2. m = n \/ (t[n + 1] = ":" /\ t[n + 2] = Number)
    <3>1. m # n => n + 1 \in 1..Len(s) /\ n + 2 \in 1..Len(s)
                   /\ s[n + 1] = ":" /\ s[n + 2] = Number
      BY <1>3, <1>8, <2>0
    <3> QED BY <1>7, <3>1
  <2>3. t[m + 1] = "/"
    <3>1. CASE m = Len(s)
      BY <1>5, <1>7, <3>1
    <3>2. CASE m # Len(s)
      <4>1. m + 1 \in 1..Len(s) /\ s[m + 1] = "/"
        BY <1>3, <1>8, <2>0, <3>2
      <4> QED BY <1>7, <4>1
    <3> QED BY <3>1, <3>2
  <2>4. t[1] # "." /\ \E i \in 2..n - 1 : t[i] = "."
    BY <1>2, <2>0, <2>1
  <2>5. \A i \in 1..n : t[i] \in {Word, Number, "."}
    BY <1>2, <2>1
  <2> QED BY <1>3, <1>7, <2>1, <2>2, <2>3, <2>4, <2>5 DEF HostAndPort
<1> QED BY <1>4, <1>6, <1>9 DEF s, t, p

\* The first dot is one of the host, and not at an end of it.
LEMMA DotInHost ==
  ASSUME NEW t, NEW n, NEW m, HostAndPort(t, n, m)
  PROVE  FirstDot(t) \in 2..n - 1
<1> DEFINE I == {i \in 1..Len(t) : t[i] = "."}
<1>0. n \in Nat /\ m \in Nat /\ n <= m /\ m < Len(t) /\ Len(t) \in Nat
  BY DEF HostAndPort
<1>1. PICK j \in 2..n - 1 : t[j] = "."
  BY DEF HostAndPort
<1>2. j \in I /\ I \subseteq Nat
  BY <1>0, <1>1
<1>3. PICK d \in I : \A y \in I : d <= y
  BY <1>2, LeastNat
<1>4. Min(I) = d
  BY <1>2, <1>3, MinIs
<1>5. d <= j /\ d # 1
  BY <1>2, <1>3 DEF HostAndPort
<1>6. FirstDot(t) = d
  BY <1>2, <1>4 DEF FirstDot, SelectInSeq
<1> QED BY <1>0, <1>1, <1>3, <1>5, <1>6

\* CrackedUrl finds the host, with the port, up to the slash after it.
LEMMA HostEndsAt ==
  ASSUME NEW t, NEW n, NEW m, HostAndPort(t, n, m)
  PROVE  HostEnd(t) = m + 1
<1> DEFINE d == FirstDot(t)
           I == {i \in d..Len(t) : t[i] = "/"}
<1>0. n \in Nat /\ m \in Nat /\ n <= m /\ m < Len(t) /\ Len(t) \in Nat
  BY DEF HostAndPort
<1>1. d \in 2..n - 1
  BY DotInHost
<1> HIDE DEF d
<1>2. m + 1 \in I /\ I \subseteq Nat
  BY <1>0, <1>1 DEF HostAndPort
<1>3. ASSUME NEW i \in I PROVE m + 1 <= i
  <2>1. SUFFICES ASSUME i <= m PROVE FALSE
    BY <1>0, <1>1
  <2>2. CASE i <= n
    <3>1. t[i] \in {Word, Number, "."}
      BY <1>0, <1>1, <2>2 DEF HostAndPort
    <3> QED BY <3>1 DEF Word, Number
  <2>3. CASE i > n
    <3>1. m = n + 2 /\ (i = n + 1 \/ i = n + 2)
      BY <1>0, <1>1, <2>1, <2>3 DEF HostAndPort
    <3>2. t[n + 1] = ":" /\ t[n + 2] = Number
      BY <1>0, <3>1 DEF HostAndPort
    <3> QED BY <3>1, <3>2 DEF Number
  <2> QED BY <1>0, <1>1, <2>2, <2>3
<1>4. Min(I) = m + 1
  BY <1>2, <1>3, MinIs
<1> QED BY <1>2, <1>4 DEF HostEnd, SelectInSubSeq, d

\* The port is found where there is one, and only there.
LEMMA PortIsFound ==
  ASSUME NEW t, NEW n, NEW m, HostAndPort(t, n, m)
  PROVE  PortColon(SubSeq(t, 1, m)) = IF m = n THEN 0 ELSE n + 1
<1> DEFINE h == SubSeq(t, 1, m)
           I == {i \in 2..Len(h) - 1 : [k \in DOMAIN h |-> k][i] \in
                   {k \in 2..Len(h) - 1 : h[k] = ":" /\ h[k - 1] # ":" /\ h[k + 1] = Number}}
           J == {i \in 2..Len(h) - 1 :
                   /\ h[([k \in DOMAIN h |-> k])[i]] = ":"
                   /\ h[([k \in DOMAIN h |-> k])[i] - 1] # ":"
                   /\ h[([k \in DOMAIN h |-> k])[i] + 1] = Number}
<1>0. t \in Seq(Token) /\ n \in Nat /\ 3 <= n /\ m \in {n, n + 2} /\ m < Len(t) /\ Len(t) \in Nat
  BY DEF HostAndPort
<1>1. /\ Len(h) = m /\ DOMAIN h = 1..m
      /\ \A i \in 1..m : h[i] = t[i]
  BY <1>0
<1>2. PortColon(h) = IF J # {} THEN Min(J) ELSE 0
  BY DEF PortColon, SelectInSubSeq
<1> HIDE DEF h
<1>3. J = {i \in 2..m - 1 : h[i] = ":" /\ h[i - 1] # ":" /\ h[i + 1] = Number}
  BY <1>0, <1>1
<1>4. \A i \in 1..n : h[i] # ":"
  <2>1. \A i \in 1..n : h[i] \in {Word, Number, "."}
    BY <1>0, <1>1 DEF HostAndPort
  <2> QED BY <2>1 DEF Word, Number
<1> HIDE DEF J
<1>5. CASE m = n
  <2>1. J = {}
    BY <1>0, <1>3, <1>4, <1>5
  <2> QED BY <1>2, <1>5, <2>1 DEF h
<1>6. CASE m # n
  <2>1. m = n + 2 /\ h[n + 1] = ":" /\ h[n + 2] = Number /\ h[n] # ":"
    BY <1>0, <1>1, <1>4, <1>6 DEF HostAndPort
  <2>2. n + 1 \in J /\ J \subseteq Nat
    BY <1>0, <1>3, <2>1
  <2>3. \A i \in J : n + 1 <= i
    BY <1>0, <1>3, <1>4
  <2>4. Min(J) = n + 1
    BY <2>2, <2>3, MinIs
  <2> QED BY <1>2, <1>6, <2>2, <2>4 DEF h
<1> QED BY <1>5, <1>6

\* CrackedUrl accepts the URL of a collector with a dotted host, and to_string
\* puts its parts together again.
LEMMA UrlIsKept ==
  ASSUME NEW t, NEW n, NEW m, HostAndPort(t, n, m), NEW protocol
  PROVE  LET url == << protocol >> \o t
         IN  is_valid(url) /\ to_string(url) = url
<1> DEFINE url == << protocol >> \o t
           h == SubSeq(t, 1, m)
<1>0. t \in Seq(Token) /\ n \in Nat /\ 3 <= n /\ m \in {n, n + 2} /\ m < Len(t) /\ Len(t) \in Nat
  BY DEF HostAndPort
<1>1. Tail(url) = t /\ url[1] = protocol
  BY <1>0
<1> HIDE DEF url
<1>2. is_valid(url)
  <2> DEFINE d == FirstDot(t)
  <2>1. d \in 2..n - 1
    BY DotInHost
  <2> HIDE DEF d
  <2>2. t[d + 1] \in {Word, Number, "."}
    BY <1>0, <2>1 DEF HostAndPort
  <2>3. d > 1 /\ d < Len(t) /\ t[d + 1] # "/"
    BY <1>0, <2>1, <2>2 DEF Word, Number
  <2> QED BY <1>1, <2>3 DEF is_valid, d
<1>3. HostnamePort(url) = h /\ path(url) = SubSeq(t, m + 1, Len(t))
  <2>1. HostEnd(t) = m + 1 /\ HostEnd(t) # 0 /\ HostEnd(t) - 1 = m
    BY <1>0, HostEndsAt
  <2> QED BY <1>1, <2>1 DEF HostnamePort, path
<1>4. /\ Len(h) = m /\ \A i \in 1..m : h[i] = t[i]
  BY <1>0
<1>5. PortColon(h) = IF m = n THEN 0 ELSE n + 1
  BY PortIsFound
<1> HIDE DEF h
<1> DEFINE S == Token \cup {protocol, ":", Number}
           tail == SubSeq(t, m + 1, Len(t))
           host == SubSeq(t, 1, n)
           first == << protocol >>
           port == << ":", Number >>
<1>8. /\ t \in Seq(S) /\ tail \in Seq(S) /\ host \in Seq(S) /\ h \in Seq(S)
      /\ first \in Seq(S) /\ port \in Seq(S)
  <2>1. t \in Seq(S)
    BY <1>0
  <2> QED BY <1>0, <2>1 DEF h
<1> HIDE DEF tail, host, first, port, S
<1>9. h \o tail = t
  <2>1. SubSeq(t, 1, m) \o SubSeq(t, m + 1, Len(t)) = SubSeq(t, 1, Len(t))
    <3>1. 1 \in 1..Len(t) + 1 /\ m \in 1 - 1..Len(t) /\ Len(t) \in m..Len(t)
      BY <1>0
    <3> QED BY <1>8, <3>1, ConcatAdjacentSubSeq, Zenon
  <2> QED BY <1>8, <2>1, SubSeqFull DEF h, tail
<1>10. url = (first \o h) \o tail
  <2>1. (first \o h) \o tail = first \o (h \o tail)
    BY <1>8, ConcatAssociative, SMTT(60)
  <2> QED BY <1>9, <2>1, Zenon DEF url, first
<1>11. << url[1] >> = first /\ path(url) = tail
  BY <1>1, <1>3 DEF first, tail
<1>6. CASE m = n
  <2>1. hostname(url) = h /\ use_default_port(url)
    BY <1>3, <1>5, <1>6 DEF hostname, use_default_port
  <2>2. to_string(url) = first \o h \o << >> \o tail
    BY <1>11, <2>1 DEF to_string, port
  <2>3. first \o h \in Seq(S)
    BY <1>8
  <2>4. (first \o h) \o << >> = first \o h
    BY <2>3, ConcatEmptySeq
  <2>5. to_string(url) = (first \o h) \o tail
    BY <2>2, <2>4, Zenon
  <2> QED BY <1>2, <1>10, <2>5 DEF url
<1>7. CASE m # n
  <2>1. PortColon(h) = n + 1 /\ n + 1 # 0 /\ (n + 1) - 1 = n /\ m = n + 2
    BY <1>0, <1>5, <1>7
  <2>2. SelectLastInSubSeq(h, 1, n, LAMBDA c : c = ":") = 0
    <3>1. \A i \in 1..n : h[i] \in {Word, Number, "."}
      BY <1>0, <1>4 DEF HostAndPort
    <3>2. {i \in 1..n : h[i] = ":"} = {}
      BY <3>1 DEF Word, Number
    <3> QED BY <3>2 DEF SelectLastInSubSeq
  <2>3. hostname(url) = SubSeq(h, 0 + 1, n) /\ ~use_default_port(url)
    BY <1>3, <2>1, <2>2 DEF hostname, use_default_port
  <2>4. SubSeq(h, 0 + 1, n) = host
    BY <1>0, <2>1 DEF h, host
  <2>5. host \o port = h
    <3>1. t[n + 1] = ":" /\ t[n + 2] = Number
      BY <1>0, <1>7 DEF HostAndPort
    <3>2. SubSeq(t, n + 1, n + 2) = << t[n + 1], t[n + 2] >>
      <4> DEFINE u == SubSeq(t, n + 1, n + 2)
      <4>1. u \in Seq(Token) /\ Len(u) = 2 /\ u[1] = t[n + 1] /\ u[2] = t[n + 2]
        BY <1>0, <2>1
      <4> HIDE DEF u
      <4>2. u = << u[1], u[2] >>
        BY <4>1
      <4> QED BY <4>1, <4>2 DEF u
    <3>3. SubSeq(t, 1, n) \o SubSeq(t, n + 1, n + 2) = SubSeq(t, 1, n + 2)
      BY <1>0, <1>8, <2>1, ConcatAdjacentSubSeq
    <3> QED BY <2>1, <3>1, <3>2, <3>3 DEF h, host, port
  <2>6. to_string(url) = first \o host \o port \o tail
    BY <1>11, <2>3, <2>4 DEF to_string, port
  <2>7. (first \o host) \o port = first \o h
    <3>1. (first \o host) \o port
            = first \o (host \o port)
      <4>1. first \in Seq(S) /\ host \in Seq(S) /\ port \in Seq(S)
        BY <1>8
      <4> QED BY <4>1, ConcatAssociative, SMTT(60)
    <3> QED BY <2>5, <3>1, Zenon
  <2>8. to_string(url) = (first \o h) \o tail
    BY <2>6, <2>7, Zenon
  <2> QED BY <1>2, <1>10, <2>8 DEF url
<1> QED BY <1>6, <1>7 DEF url

\* Whether create_tracker accepts a collector's URL, and the URL of its tracker.
LEMMA CollectorAccepted ==
  ASSUME NEW url, HasDottedHost(url), NEW method
  PROVE  LET full == FullUrl(Hostname(url), Protocol(url), method)
         IN  /\ ~UriRefused(Hostname(url)) /\ is_valid(full)
             /\ to_string(full) = << Protocol(url) >> \o Hostname(url) \o CollectorPath(method)
<1> DEFINE s == Hostname(url)
           p == CollectorPath(method)
<1>1. s \in Seq(Token) /\ ~UriRefused(s) /\ \E n, m : HostAndPort(s \o p, n, m)
  BY CollectorHost
<1>2. p \in Seq(Token)
  BY PathOfMethod
<1>3. PICK n, m : HostAndPort(s \o p, n, m)
  BY <1>1
<1> HIDE DEF s, p
<1>4. << Protocol(url) >> \o s \o p = << Protocol(url) >> \o (s \o p)
  BY <1>1, <1>2
<1>5. FullUrl(s, Protocol(url), method) = << Protocol(url) >> \o (s \o p)
  BY <1>4 DEF FullUrl, p
<1>6. /\ is_valid(<< Protocol(url) >> \o (s \o p))
      /\ to_string(<< Protocol(url) >> \o (s \o p)) = << Protocol(url) >> \o (s \o p)
  BY <1>3, UrlIsKept
<1> QED BY <1>1, <1>4, <1>5, <1>6 DEF s, p

\* The network configuration is made of the URL and the method the application
\* last gave it.
IsOf(net, given) ==
  /\ net.protocol = Protocol(given.url) /\ net.hostname = Hostname(given.url)
  /\ net.method = given.method
UrlInv ==
  /\ IsSequence /\ Shapes
  /\ IsOf(network, asked)
  /\ CollectorUrlKept

Dotted == \A url \in Collectors : HasDottedHost(url)

\* create_tracker refuses no collector's URL, and gives its tracker the parts
\* of it.
LEMMA UrlCreate ==
  ASSUME Dotted, IsSequence, CollectorUrlKept,
         NEW name_space, NEW net, NEW events, NEW sessions, NEW given,
         Create(name_space, net, events, sessions, given), IsOf(net, given)
  PROVE  IsSequence' /\ CollectorUrlKept'
<1> DEFINE full == FullUrl(Hostname(given.url), Protocol(given.url), given.method)
           kept == << Protocol(given.url) >> \o Hostname(given.url)
                     \o CollectorPath(given.method)
<1>1. given.url \in Collectors =>
        ~UriRefused(Hostname(given.url)) /\ is_valid(full) /\ to_string(full) = kept
  BY CollectorAccepted DEF Dotted
<1>2. /\ UrlOf(net) = to_string(full)
      /\ refused' = IF ~UriRefused(Hostname(given.url)) /\ is_valid(full)
                    THEN refused ELSE refused \cup {given.url}
  BY DEF UrlOf, IsOf, Create
<1>3. \A i \in DOMAIN trackers' :
        \/ i \in DOMAIN trackers /\ trackers'[i] = trackers[i]
        \/ trackers'[i].url = UrlOf(net) /\ trackers'[i].asked = given
  BY CreatedTrackers DEF IsMade
<1>4. IsSequence'
  BY CreatedTrackers
<1>5. refused' \cap Collectors = {}
  BY <1>1, <1>2 DEF CollectorUrlKept
<1>6. \A i \in DOMAIN trackers' :
        LET a == trackers'[i].asked
        IN  a.url \in Collectors =>
              trackers'[i].url = << Protocol(a.url) >> \o Hostname(a.url)
                                   \o CollectorPath(a.method)
  <2> SUFFICES ASSUME NEW i \in DOMAIN trackers', trackers'[i].asked.url \in Collectors
               PROVE  LET a == trackers'[i].asked
                      IN  trackers'[i].url = << Protocol(a.url) >> \o Hostname(a.url)
                                               \o CollectorPath(a.method)
    OBVIOUS
  <2>1. CASE i \in DOMAIN trackers /\ trackers'[i] = trackers[i]
    BY <2>1 DEF CollectorUrlKept
  <2>2. CASE trackers'[i].url = UrlOf(net) /\ trackers'[i].asked = given
    BY <1>1, <1>2, <2>2
  <2> QED BY <1>3, <2>1, <2>2
<1> QED BY <1>4, <1>5, <1>6 DEF CollectorUrlKept

LEMMA UrlConfigure ==
  ASSUME UrlInv, Configure
  PROVE  UrlInv'
<1>0. UNCHANGED <<trackers, refused>>
  BY DEF Configure, NewNetwork, SetHttpClient, NewEmitter, NewSession, SetEventStore,
         SetSessionStore, EmitterBecomes, SessionBecomes
<1>1. IsSequence' /\ CollectorUrlKept'
  BY <1>0 DEF UrlInv, IsSequence, CollectorUrlKept
<1>2. Shapes' /\ IsOf(network, asked)'
  <2>1. ASSUME NEW url, NEW method, NewNetwork(url, method)
        PROVE  Shapes' /\ IsOf(network, asked)'
    <3>1. /\ network' = [protocol |-> Protocol(url), hostname |-> Hostname(url),
                         method |-> method, client |-> Null]
          /\ asked' = [url |-> url, method |-> method, events |-> asked.events,
                       sessions |-> asked.sessions, apart |-> asked.apart,
                       displaced |-> asked.displaced, client |-> Null, spent |-> Spent]
      BY <2>1 DEF NewNetwork, NetworkWith, UrlInv, Shapes
    <3> QED BY <3>1 DEF Shapes, IsOf
  <2>2. ASSUME NEW client, SetHttpClient(client)
        PROVE  Shapes' /\ IsOf(network, asked)'
    <3>1. /\ network' = [protocol |-> network.protocol, hostname |-> network.hostname,
                         method |-> network.method, client |-> client]
          /\ asked' = [url |-> asked.url, method |-> asked.method, events |-> asked.events,
                       sessions |-> asked.sessions, apart |-> asked.apart,
                       displaced |-> asked.displaced, client |-> client, spent |-> Spent]
      BY <2>2 DEF SetHttpClient, UrlInv, Shapes
    <3> QED BY <3>1 DEF Shapes, IsOf, UrlInv
  <2>3. ASSUME NEW config, \/ NewEmitter(config) \/ SetEventStore(config)
                           \/ NewSession(config) \/ SetSessionStore(config)
        PROVE  Shapes' /\ IsOf(network, asked)'
    <3>1. PICK events, sessions, apart, displaced :
            /\ network' = network
            /\ asked' = [url |-> asked.url, method |-> asked.method, events |-> events,
                         sessions |-> sessions, apart |-> apart, displaced |-> displaced,
                         client |-> asked.client, spent |-> asked.spent]
      <4>1. CASE NewEmitter(config) \/ SetEventStore(config)
        BY <4>1 DEF NewEmitter, SetEventStore, EmitterBecomes, UrlInv, Shapes
      <4>2. CASE NewSession(config) \/ SetSessionStore(config)
        BY <4>2 DEF NewSession, SetSessionStore, SessionBecomes, UrlInv, Shapes
      <4> QED BY <2>3, <4>1, <4>2
    <3> QED BY <3>1 DEF UrlInv, Shapes, IsOf
  <2> QED BY <2>1, <2>2, <2>3 DEF Configure
<1> QED BY <1>1, <1>2 DEF UrlInv

\* Only the client leaves the network configuration that create_tracker takes.
LEMMA UrlTaken ==
  ASSUME Shapes, IsOf(network, asked), network' = client_moved,
         NEW given, given = [asked EXCEPT !.displaced = given.displaced],
         asked' = [given EXCEPT !.spent = Spent]
  PROVE  Shapes' /\ IsOf(network, asked)'
<1>1. /\ network' = [protocol |-> network.protocol, hostname |-> network.hostname,
                     method |-> network.method, client |-> Null]
      /\ asked' = [url |-> asked.url, method |-> asked.method, events |-> asked.events,
                   sessions |-> asked.sessions, apart |-> asked.apart,
                   displaced |-> given.displaced, client |-> asked.client,
                   spent |-> asked.spent \cup {network.client}]
  BY DEF Shapes, client_moved, Spent
<1> QED BY <1>1 DEF Shapes, IsOf

LEMMA UrlCreateOne ==
  ASSUME Dotted, UrlInv, NEW name_space, CreateOne(name_space)
  PROVE  UrlInv'
<1> USE DEF UrlInv
<1>1. CASE CreateTracker(name_space)
  <2> DEFINE given == [asked EXCEPT !.sessions = WithStore(Null)]
  <2>1. IsOf(network, given)
    BY DEF Shapes, IsOf
  <2>2. Create(name_space, network, get_store(emitter, "events"), Null, given)
    BY <1>1 DEF CreateTracker
  <2> HIDE DEF given
  <2>3. IsSequence' /\ CollectorUrlKept'
    BY <2>1, <2>2, UrlCreate
  <2>4. /\ asked = [asked EXCEPT !.displaced = asked.displaced]
        /\ asked' = [asked EXCEPT !.spent = Spent] /\ network' = client_moved
    BY <1>1 DEF CreateTracker, Shapes
  <2>5. Shapes' /\ IsOf(network, asked)'
    BY <2>4, UrlTaken
  <2> QED BY <2>3, <2>5
<1>2. CASE CreateTrackerWithSession(name_space)
  <2> DEFINE given == [asked EXCEPT !.displaced = Displacing]
  <2>1. /\ given.url = asked.url /\ given.method = asked.method
        /\ given = [asked EXCEPT !.displaced = given.displaced]
    BY DEF Shapes
  <2>2. IsOf(network, given)
    BY <2>1 DEF IsOf
  <2>3. /\ Create(name_space, network, get_store(emitter', "events"),
                  get_store(session', "sessions"), given)
        /\ asked' = [given EXCEPT !.spent = Spent] /\ network' = client_moved
    BY <1>2 DEF CreateTrackerWithSession, Displacing
  <2> HIDE DEF given
  <2>4. IsSequence' /\ CollectorUrlKept'
    BY <2>2, <2>3, UrlCreate
  <2>5. Shapes' /\ IsOf(network, asked)'
    BY <2>1, <2>3, UrlTaken
  <2> QED BY <2>4, <2>5
<1>3. ASSUME NEW url, NEW method, NEW events, NEW sessions,
             CreateTrackerWith(name_space, url, method, events, sessions)
      PROVE  UrlInv'
  <2> DEFINE given == [url |-> url, method |-> method, events |-> WithStore(events),
                       sessions |-> WithStore(sessions), apart |-> FALSE,
                       displaced |-> FALSE, client |-> Null, spent |-> {}]
  <2>1. IsOf(NetworkWith(url, method), given)
    BY DEF NetworkWith, IsOf
  <2>2. /\ Create(name_space, NetworkWith(url, method), events, sessions, given)
        /\ UNCHANGED <<network, asked>>
    BY <1>3 DEF CreateTrackerWith
  <2> HIDE DEF given
  <2>3. IsSequence' /\ CollectorUrlKept'
    BY <2>1, <2>2, UrlCreate
  <2> QED BY <2>2, <2>3 DEF Shapes, IsOf
<1> QED BY <1>1, <1>2, <1>3 DEF CreateOne, CreateTrackerFromPath

LEMMA UrlStep == Dotted /\ UrlInv /\ [Next]_vars => UrlInv'
<1>1. UrlInv /\ UNCHANGED vars => UrlInv'
  BY DEF UrlInv, vars, IsSequence, Shapes, IsOf, CollectorUrlKept
<1> QED BY <1>1, UrlConfigure, UrlCreateOne DEF Next

LEMMA UrlInit == Init => UrlInv
<1> SUFFICES ASSUME Init PROVE UrlInv
  OBVIOUS
<1>1. /\ trackers = << >> /\ refused = {}
      /\ \E url, method, e, s :
           /\ network = [protocol |-> Protocol(url), hostname |-> Hostname(url),
                         method |-> method, client |-> Null]
           /\ asked = [url |-> url, method |-> method, events |-> e, sessions |-> s,
                       apart |-> FALSE, displaced |-> FALSE, client |-> Null, spent |-> {}]
  BY DEF Init, NetworkWith
<1>2. IsSequence /\ CollectorUrlKept
  BY <1>1 DEF IsSequence, CollectorUrlKept
<1>3. Shapes /\ IsOf(network, asked)
  BY <1>1 DEF Shapes, IsOf
<1> QED BY <1>2, <1>3 DEF UrlInv

\* Events are sent to the collector the application named, whatever protocol,
\* port or path its URL has, if there is a dot in its host: http://localhost,
\* which has none, is refused (NetworkConfiguration, get_collector_url,
\* CrackedUrl).
THEOREM CollectorUrlsAreKept ==
  ASSUME \A url \in Collectors : HasDottedHost(url)
  PROVE  Spec => []CollectorUrlKept
<1>1. Dotted
  BY DEF Dotted
<1>2. Init => UrlInv
  BY UrlInit
<1>3. UrlInv /\ [Next]_vars => UrlInv'
  BY <1>1, UrlStep
<1>4. UrlInv => CollectorUrlKept
  BY DEF UrlInv
<1> QED BY <1>2, <1>3, <1>4, PTL DEF Spec
=============================================================================
