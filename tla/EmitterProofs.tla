--------------------------- MODULE EmitterProofs ---------------------------
(***************************************************************************)
(* Theorems about Emitter, for every set of threads, events and row ids,   *)
(* every batch size and every configuration.                               *)
(***************************************************************************)
EXTENDS Emitter, TLAPS

(***************************************************************************)
(* Lemmas about the operators                                              *)
(***************************************************************************)
\* Grouping rows for POST neither loses nor invents any.
LEMMA GroupsCover ==
  ASSUME NEW b, NEW heads
  PROVE  /\ \A g \in Groups(b, heads) : g \subseteq b
         /\ UNION Groups(b, heads) = b
BY DEF Groups

LEMMA GetPlanCovers ==
  ASSUME NEW b, b \subseteq Row, NEW large
  PROVE  GetPlan(b, large) \subseteq Request /\ RowsOf(GetPlan(b, large)) = b
<1> DEFINE req(r) == [rows |-> {r}, is_oversize |-> r \in large]
<1>1. \A r : req(r).rows = {r}
  BY Zenon
<1>2. \A r \in b : req(r) \in Request
  <2> TAKE r \in b
  <2>1. {r} \in SUBSET Row
    OBVIOUS
  <2>2. (r \in large) \in BOOLEAN
    OBVIOUS
  <2> QED BY <2>1, <2>2, Zenon DEF Request
<1>3. GetPlan(b, large) = {req(r) : r \in b}
  BY Zenon DEF GetPlan
<1> HIDE DEF req
<1> QED BY <1>1, <1>2, <1>3 DEF RowsOf

LEMMA PostPlanCovers ==
  ASSUME NEW b, b \subseteq Row, NEW large, large \subseteq b, NEW heads
  PROVE  PostPlan(b, large, heads) \subseteq Request /\ RowsOf(PostPlan(b, large, heads)) = b
<1> DEFINE plan == PostPlan(b, large, heads)
<1>1. \A r \in large : [rows |-> {r}, is_oversize |-> TRUE] \in plan
  BY DEF PostPlan
<1>2. \A g \in Groups(b \ large, heads) : [rows |-> g, is_oversize |-> FALSE] \in plan
  BY DEF PostPlan
<1>3. /\ \A g \in Groups(b \ large, heads) : g \subseteq b \ large
      /\ UNION Groups(b \ large, heads) = b \ large
  BY GroupsCover
<1>4. \A r \in large : [rows |-> {r}, is_oversize |-> TRUE] \in Request
  BY DEF Request
<1>5. \A g \in Groups(b \ large, heads) : [rows |-> g, is_oversize |-> FALSE] \in Request
  BY <1>3 DEF Request
<1>6. plan \subseteq Request
  BY <1>4, <1>5 DEF PostPlan
<1>7. RowsOf(plan) \subseteq b
  BY <1>3 DEF PostPlan, RowsOf
<1> HIDE DEF plan
<1>8. ASSUME NEW r \in b PROVE r \in RowsOf(plan)
  <2>1. CASE r \in large
    <3>1. [rows |-> {r}, is_oversize |-> TRUE] \in plan
      BY <1>1, <2>1
    <3> QED BY <3>1 DEF RowsOf
  <2>2. CASE r \notin large
    <3> PICK g \in Groups(b \ large, heads) : r \in g
      BY <1>3, <2>2
    <3>1. [rows |-> g, is_oversize |-> FALSE] \in plan
      BY <1>2
    <3> QED BY <3>1 DEF RowsOf
  <2> QED BY <2>1, <2>2
<1> QED BY <1>6, <1>7, <1>8 DEF plan

\* do_send puts every row of the batch into a request, and only those.
LEMMA SendPlansCover ==
  ASSUME NEW b, b \subseteq Row, NEW plan \in SendPlans(b)
  PROVE  plan \subseteq Request /\ RowsOf(plan) = b
<1>1. LargeRows(b) \subseteq b
  BY DEF LargeRows
<1>2. \/ plan = GetPlan(b, LargeRows(b))
      \/ \E heads \in SUBSET b : plan = PostPlan(b, LargeRows(b), heads)
  BY DEF SendPlans
<1>3. CASE plan = GetPlan(b, LargeRows(b))
  BY <1>3, GetPlanCovers
<1>4. ASSUME NEW heads \in SUBSET b, plan = PostPlan(b, LargeRows(b), heads)
      PROVE  plan \subseteq Request /\ RowsOf(plan) = b
  BY <1>1, <1>4, PostPlanCovers
<1> QED BY <1>2, <1>3, <1>4

\* What distinguishes the Windows and Apple clients from libcurl's: a result
\* that reads as a success comes from a collector that has the events, and one
\* that makes the emitter give up comes from a collector that said so, or is
\* oversize.
LEMMA ResultsAreHonest ==
  ASSUME Client # "curl", NEW o \in BOOLEAN, NEW x \in Exchanges(o),
         NEW custom \in CustomRetries
  PROVE  /\ IsSuccess(x.result) => x.received
         /\ GivesUp(x.result, custom) => x.answered \/ x.result.is_oversize
<1>1. CASE x \in AnsweredExchanges(o)
  <2> PICK c \in StatusCode : x = [result |-> Result(0, c, o), answered |-> TRUE, received |-> c < 300]
    BY <1>1 DEF AnsweredExchanges
  <2> c \in Int
    BY HttpClientAssumption
  <2> QED BY DEF IsSuccess, Result
<1>2. CASE x \in UnansweredExchanges(o)
  <2>1. x.result = Result(1, 0, o) \/ x.result = Result(0, 0, o)
    BY <1>2, HttpClientAssumption DEF UnansweredExchanges, UnsentResults, BrokenResults
  <2>2. DOMAIN custom \subseteq 300..599
    BY DEF CustomRetries
  <2>3. ~IsSuccess(x.result)
    BY <2>1 DEF IsSuccess, IsInternalError, Result
  <2>4. GivesUp(x.result, custom) => x.result.is_oversize
    BY <2>1, <2>2 DEF GivesUp, ShouldRetry, IsInternalError, Result, NoRetryCodes
  <2> QED BY <2>3, <2>4
<1> QED BY <1>1, <1>2 DEF Exchanges

(***************************************************************************)
(* Type correctness                                                        *)
(***************************************************************************)
LEMMA TypeInit == Init => TypeOK
<1> SUFFICES ASSUME Init PROVE TypeOK
  OBVIOUS
<1>1. pc \in [Thread -> ThreadPcs]
  BY DEF Init, ThreadPcs
<1>2. starts \in 0..MaxStarts
  BY EmitterAssumption DEF Init
<1>3. m_callback \subseteq Statuses /\ m_custom_retry \in CustomRetries
  BY EmitterAssumption DEF Init
<1> QED BY <1>1, <1>2, <1>3 DEF Init, TypeOK, DaemonPcs

LEMMA TypeThreadCall ==
  ASSUME TypeOK, NEW t \in Thread, ThreadCall(t)
  PROVE  TypeOK'
<1> USE EmitterAssumption DEF TypeOK, flags, config, daemon, history, Calls, Goto, At
<1>1. CASE Start(t)
  <2>1. pc' \in [Thread -> ThreadPcs]
    BY <1>1 DEF Start, ThreadPcs
  <2>2. starts' \in 0..MaxStarts
    BY <1>1 DEF Start
  <2>3. \A c \in callbacks' : c.status \in Statuses /\ c.events \subseteq Event
    BY <1>1 DEF Start
  <2>4. dpc' \in DaemonPcs
    BY <1>1 DEF Start, DaemonPcs
  <2> QED BY <1>1, <2>1, <2>2, <2>3, <2>4 DEF Start
<1>2. CASE Stop(t)
  BY <1>2 DEF Stop, StopBegin, ThreadPcs, StopPcs
<1>3. CASE \E e \in Event : AddStore(t, e)
  <2> PICK e \in Event : AddStore(t, e)
    BY <1>3
  <2>1. rows' \subseteq Row
    BY DEF AddStore, Insert, Row
  <2> QED BY <2>1 DEF AddStore, Insert, ThreadPcs
<1>4. CASE FlushBegin(t)
  BY <1>4 DEF FlushBegin, ThreadPcs, FlushPcs
<1>5. CASE \E statuses \in SUBSET Statuses : SetRequestCallback(t, statuses)
  BY <1>5 DEF SetRequestCallback
<1>6. CASE \E code \in StatusCode, retry \in BOOLEAN : SetCustomRetry(t, code, retry)
  <2> PICK code \in StatusCode, retry \in BOOLEAN : SetCustomRetry(t, code, retry)
    BY <1>6
  <2> DEFINE D == DOMAIN m_custom_retry \cup {code}
  <2>1. D \in SUBSET (StatusCode \cap 300..599)
    BY HttpClientAssumption DEF SetCustomRetry, CustomRetries
  <2>2. m_custom_retry \in [DOMAIN m_custom_retry -> BOOLEAN]
    BY DEF CustomRetries
  <2>3. m_custom_retry' \in [D -> BOOLEAN]
    BY <2>2 DEF SetCustomRetry
  <2>4. m_custom_retry' \in CustomRetries
    BY <2>1, <2>3 DEF CustomRetries
  <2> QED BY <2>4 DEF SetCustomRetry
<1> QED BY <1>1, <1>2, <1>3, <1>4, <1>5, <1>6 DEF ThreadCall

LEMMA TypeThreadStep ==
  ASSUME TypeOK, NEW t \in Thread, ThreadStep(t)
  PROVE  TypeOK'
<1> USE EmitterAssumption
    DEF TypeOK, flags, config, daemon, history, Goto, At, ThreadPcs, FlushPcs, StopPcs
<1>1. CASE FlushStop(t)
  BY <1>1 DEF FlushStop, StopBegin
<1>2. CASE StopHandshake(t)
  BY <1>2 DEF StopHandshake
<1>3. CASE StopNotify(t)
  BY <1>3 DEF StopNotify, NotifyDb, DaemonPcs
<1>4. CASE StopJoin(t)
  BY <1>4 DEF StopJoin, DaemonPcs
<1>5. CASE StopFin(t)
  BY <1>5 DEF StopFin, NotifyFin
<1>6. CASE AddNotify(t)
  BY <1>6 DEF AddNotify, NotifyDb, DaemonPcs
<1>7. CASE FlushReset(t)
  BY <1>7 DEF FlushReset
<1>8. CASE FlushNotify(t)
  BY <1>8 DEF FlushNotify, NotifyDb, DaemonPcs
<1>9. CASE FlushPred(t)
  BY <1>9 DEF FlushPred
<1>10. CASE FlushBlock(t)
  BY <1>10 DEF FlushBlock
<1>11. CASE FlushTimeout(t)
  BY <1>11 DEF FlushTimeout
<1>12. CASE FlushSpuriousWakeup(t)
  BY <1>12 DEF FlushSpuriousWakeup
<1> QED BY <1>1, <1>2, <1>3, <1>4, <1>5, <1>6, <1>7, <1>8, <1>9, <1>10, <1>11, <1>12
       DEF ThreadStep

\* The rows of the answered requests are rows.
LEMMA ResultRows ==
  ASSUME TypeOK
  PROVE  /\ SuccessRows \subseteq Row
         /\ WillRetryRows \subseteq Row
         /\ WontRetryRows \subseteq Row
         /\ RefusedRows \subseteq Row
BY DEF TypeOK, SuccessRows, WillRetryRows, WontRetryRows, RefusedRows, RowsOf

LEMMA TypeDaemon ==
  ASSUME TypeOK, DaemonStep
  PROVE  TypeOK'
<1> USE EmitterAssumption DEF TypeOK, flags, config, daemon, history, DaemonPcs
<1>1. CASE DaemonRead
  BY <1>1 DEF DaemonRead, FirstRows
<1>2. CASE DaemonSend
  BY <1>2, SendPlansCover DEF DaemonSend
<1>3. CASE DaemonGather
  <2>1. /\ delete_row_ids' \subseteq RowId
        /\ failed_will_retry_row_ids' \subseteq RowId
    BY <1>3, ResultRows DEF DaemonGather, IdsIn, Row
  <2>2. refused' \subseteq Event /\ settled' \subseteq Event
    BY <1>3, ResultRows DEF DaemonGather, EventsIn, Row
  <2>3. \A c \in callbacks' : c.status \in Statuses /\ c.events \subseteq Event
    <3>1. \A c \in Reports : c.status \in Statuses /\ c.events \subseteq Event
      BY ResultRows DEF Reports, EventsIn, Row
    <3> QED BY <1>3, <3>1 DEF DaemonGather
  <2> QED BY <1>3, <2>1, <2>2, <2>3 DEF DaemonGather
<1>4. CASE DaemonDelete
  <2>1. rows' \subseteq Row
    BY <1>4 DEF DaemonDelete, WithoutIds
  <2> QED BY <1>4, <2>1 DEF DaemonDelete
<1>5. CASE DaemonSleep
  BY <1>5 DEF DaemonSleep
<1>6. CASE DaemonBlock
  BY <1>6 DEF DaemonBlock
<1>7. CASE DaemonTimeout
  BY <1>7 DEF DaemonTimeout
<1>8. CASE DaemonSignal
  BY <1>8 DEF DaemonSignal
<1>9. CASE DaemonNotify
  BY <1>9 DEF DaemonNotify, NotifyFin, ThreadPcs, FlushPcs
<1>10. CASE DaemonLoop
  BY <1>10 DEF DaemonLoop
<1> QED BY <1>1, <1>2, <1>3, <1>4, <1>5, <1>6, <1>7, <1>8, <1>9, <1>10 DEF DaemonStep

LEMMA TypeAnswer ==
  ASSUME TypeOK, NEW req \in request_futures, NEW x \in Exchanges(req.is_oversize),
         Answer(req, x)
  PROVE  TypeOK'
<1> USE DEF TypeOK, flags, config, daemon, history
<1>1. req.rows \subseteq Row /\ req.is_oversize \in BOOLEAN
  BY DEF Request
<1>2. accepted' \subseteq Event
  BY <1>1 DEF Answer, EventsIn, Row
<1>3. \A r \in results' : r.rows \subseteq Row /\ \E o \in BOOLEAN : r.exchange \in Exchanges(o)
  BY <1>1 DEF Answer
<1> QED BY <1>2, <1>3 DEF Answer

LEMMA TypeStep == TypeOK /\ [Next]_vars => TypeOK'
<1> SUFFICES ASSUME TypeOK, [Next]_vars PROVE TypeOK'
  OBVIOUS
<1>1. CASE \E t \in Thread : ThreadCall(t) \/ ThreadStep(t)
  BY <1>1, TypeThreadCall, TypeThreadStep
<1>2. CASE DaemonStep
  BY <1>2, TypeDaemon
<1>3. CASE RequestAnswered
  BY <1>3, TypeAnswer DEF RequestAnswered
<1>4. CASE \E c \in callbacks : RunCallback(c)
  BY <1>4 DEF RunCallback, TypeOK, flags, config, daemon, history
<1>5. CASE Crash
  <2>1. pc' \in [Thread -> ThreadPcs]
    BY <1>5 DEF Crash, ThreadPcs
  <2>2. starts' \in 0..MaxStarts
    BY <1>5, EmitterAssumption DEF Crash
  <2>3. m_callback' \subseteq Statuses /\ m_custom_retry' \in CustomRetries
    BY <1>5, EmitterAssumption DEF Crash
  <2> QED BY <1>5, <2>1, <2>2, <2>3 DEF Crash, TypeOK, DaemonPcs
<1>6. CASE UNCHANGED vars
  BY <1>6 DEF vars, TypeOK, flags, config, daemon, history
<1> QED BY <1>1, <1>2, <1>3, <1>4, <1>5, <1>6 DEF Next, Quiescent

\* Every variable keeps its type, in every configuration.
THEOREM TypeCorrect == Spec => []TypeOK
<1>1. Init => TypeOK
  BY TypeInit
<1>2. TypeOK /\ [Next]_vars => TypeOK'
  BY TypeStep
<1> QED BY <1>1, <1>2, PTL DEF Spec

(***************************************************************************)
(* Delivery.  NoLoss is not inductive: that a deletion loses nothing takes *)
(* that the ids to delete were computed from the rows now in the table     *)
(* under these ids, and that each was classified from an exchange that     *)
(* justifies it.  The conjuncts say this for the stages a batch is in.     *)
(***************************************************************************)
IdsUnique == \A r, q \in rows : r.id = q.id => r = q

NothingInFlight ==
  /\ dpc \notin {"gather", "terminated"} => request_futures = {} /\ results = {}
  /\ dpc \notin {"delete", "terminated"} => delete_row_ids = {}

RequestsOfBatch == RowsOf(request_futures) \subseteq batch /\ RowsOf(results) \subseteq batch

AcceptedIfReceived ==
  \A r \in results : r.exchange.received => EventsIn(r.rows) \subseteq accepted

DeletionJustified ==
  /\ delete_row_ids \subseteq IdsIn(batch)
  /\ \A r \in rows : r.id \in delete_row_ids => r.event \in accepted \cup refused

DeliveryInv ==
  /\ TypeOK
  /\ IdsUnique
  /\ BatchStillStored
  /\ NothingInFlight
  /\ RequestsOfBatch
  /\ AcceptedIfReceived
  /\ DeletionJustified

LEMMA DeliveryInit == Init => DeliveryInv
BY TypeInit DEF Init, DeliveryInv, IdsUnique, BatchStillStored, NothingInFlight,
                RequestsOfBatch, RowsOf, AcceptedIfReceived, DeletionJustified

\* A step of the daemon between two places where nothing is in flight.
QuietPcs == DaemonPcs \ {"gather", "delete", "terminated"}

LEMMA DeliveryQuiet ==
  ASSUME DeliveryInv, TypeOK',
         UNCHANGED <<batch, request_futures, results, delete_row_ids, rows, accepted, refused>>,
         \/ dpc' = dpc
         \/ dpc \in QuietPcs
         \/ dpc' = "terminated"
  PROVE  DeliveryInv'
BY DEF DeliveryInv, IdsUnique, BatchStillStored, NothingInFlight, RequestsOfBatch,
       AcceptedIfReceived, DeletionJustified, QuietPcs, DaemonPcs, TypeOK

LEMMA DeliveryAdd ==
  ASSUME DeliveryInv, TypeOK', NEW t \in Thread, NEW e \in Event, AddStore(t, e)
  PROVE  DeliveryInv'
<1>a. CASE UNCHANGED <<rows, stored>>
  BY <1>a DEF AddStore, DeliveryInv, IdsUnique, BatchStillStored, NothingInFlight,
              RequestsOfBatch, AcceptedIfReceived, DeletionJustified, daemon
<1>b. SUFFICES ASSUME Insert(e)
               PROVE  DeliveryInv'
  BY <1>a DEF AddStore
<1> PICK id \in RowId : /\ IsNextId(rows, id)
                        /\ rows' = rows \cup {[id |-> id, event |-> e]}
  BY <1>b DEF Insert
<1>1. \A r \in rows : r.id < id /\ r.id \in Nat
  BY EmitterAssumption DEF IsNextId, DeliveryInv, TypeOK, Row
<1>2. id \in Nat
  BY EmitterAssumption
<1>3. id \notin IdsIn(batch)
  BY <1>1, <1>2 DEF IdsIn, DeliveryInv, BatchStillStored
<1>4. IdsUnique'
  BY <1>1, <1>2 DEF IdsUnique, DeliveryInv
<1>5. DeletionJustified'
  BY <1>3 DEF AddStore, DeletionJustified, DeliveryInv, daemon
<1> QED BY <1>4, <1>5
        DEF AddStore, DeliveryInv, BatchStillStored, NothingInFlight, RequestsOfBatch,
            AcceptedIfReceived, daemon

LEMMA DeliveryAnswer ==
  ASSUME DeliveryInv, TypeOK', NEW req \in request_futures,
         NEW x \in Exchanges(req.is_oversize), Answer(req, x)
  PROVE  DeliveryInv'
<1> DEFINE answered == [rows |-> req.rows, exchange |-> x]
<1>1. results' = results \cup {answered}
  BY DEF Answer
<1>2. RequestsOfBatch'
  BY <1>1 DEF Answer, DeliveryInv, RequestsOfBatch, RowsOf
<1>3. AcceptedIfReceived'
  BY <1>1 DEF Answer, DeliveryInv, AcceptedIfReceived
<1> QED BY <1>2, <1>3
        DEF Answer, DeliveryInv, IdsUnique, BatchStillStored, NothingInFlight,
            DeletionJustified

\* The rows about to be deleted were taken by the collector or refused.
LEMMA GatherJustified ==
  ASSUME DeliveryInv, Client # "curl"
  PROVE  (\A r \in SuccessRows : r.event \in accepted) /\ WontRetryRows \subseteq RefusedRows
<1>1. ASSUME NEW r \in SuccessRows
      PROVE  r.event \in accepted
  <2> PICK res \in results : IsSuccess(res.exchange.result) /\ r \in res.rows
    BY <1>1 DEF SuccessRows, RowsOf
  <2> PICK o \in BOOLEAN : res.exchange \in Exchanges(o)
    BY DEF DeliveryInv, TypeOK
  <2>1. res.exchange.received
    BY ResultsAreHonest, EmitterAssumption
  <2> QED BY <2>1 DEF DeliveryInv, AcceptedIfReceived, EventsIn
<1>2. ASSUME NEW r \in WontRetryRows
      PROVE  r \in RefusedRows
  <2> PICK res \in results : GivesUp(res.exchange.result, m_custom_retry) /\ r \in res.rows
    BY <1>2 DEF WontRetryRows, RowsOf
  <2> PICK o \in BOOLEAN : res.exchange \in Exchanges(o)
    BY DEF DeliveryInv, TypeOK
  <2>1. res.exchange.answered \/ res.exchange.result.is_oversize
    BY ResultsAreHonest DEF DeliveryInv, TypeOK
  <2> QED BY <2>1 DEF RefusedRows, RowsOf
<1> QED BY <1>1, <1>2

LEMMA ResultRowsOfBatch ==
  ASSUME DeliveryInv
  PROVE  SuccessRows \cup WontRetryRows \cup RefusedRows \subseteq batch
BY DEF DeliveryInv, RequestsOfBatch, SuccessRows, WontRetryRows, RefusedRows, RowsOf

LEMMA DeliveryGather ==
  ASSUME DeliveryInv, TypeOK', Client # "curl", DaemonGather
  PROVE  DeliveryInv'
<1>1. delete_row_ids' \subseteq IdsIn(batch')
  BY ResultRowsOfBatch DEF DaemonGather, IdsIn
<1>2. ASSUME NEW r \in rows', r.id \in delete_row_ids'
      PROVE  r.event \in accepted' \cup refused'
  <2> PICK q \in SuccessRows \cup WontRetryRows : q.id = r.id
    BY <1>2 DEF DaemonGather, IdsIn
  <2>1. q = r
    BY ResultRowsOfBatch DEF DaemonGather, DeliveryInv, IdsUnique, BatchStillStored
  <2>2. q.event \in accepted \cup EventsIn(RefusedRows)
    BY GatherJustified DEF EventsIn
  <2> QED BY <2>1, <2>2 DEF DaemonGather
<1>3. DeletionJustified'
  BY <1>1, <1>2 DEF DeletionJustified
<1> QED BY <1>3
        DEF DaemonGather, DeliveryInv, IdsUnique, BatchStillStored, NothingInFlight,
            RequestsOfBatch, RowsOf, AcceptedIfReceived

LEMMA DeliveryDaemon ==
  ASSUME DeliveryInv, TypeOK', Client # "curl", DaemonStep
  PROVE  DeliveryInv'
<1>1. CASE DaemonRead
  BY <1>1 DEF DaemonRead, FirstRows, DeliveryInv, IdsUnique, BatchStillStored,
              NothingInFlight, RequestsOfBatch, RowsOf, AcceptedIfReceived,
              DeletionJustified, history
<1>2. CASE DaemonSend
  <2>1. RowsOf(request_futures') = batch
    BY <1>2, SendPlansCover DEF DaemonSend, DeliveryInv, TypeOK
  <2> QED BY <1>2, <2>1
          DEF DaemonSend, DeliveryInv, IdsUnique, BatchStillStored, NothingInFlight,
              RequestsOfBatch, RowsOf, AcceptedIfReceived, DeletionJustified, history
<1>3. CASE DaemonGather
  BY <1>3, DeliveryGather
<1>4. CASE DaemonDelete
  BY <1>4 DEF DaemonDelete, WithoutIds, DeliveryInv, IdsUnique, BatchStillStored,
              NothingInFlight, RequestsOfBatch, RowsOf, AcceptedIfReceived,
              DeletionJustified, IdsIn, history
<1>5. CASE \/ DaemonSleep \/ DaemonBlock \/ DaemonTimeout
           \/ DaemonSignal \/ DaemonNotify \/ DaemonLoop
  BY <1>5, DeliveryQuiet
     DEF DaemonSleep, DaemonBlock, DaemonTimeout, DaemonSignal, DaemonNotify, DaemonLoop,
         QuietPcs, DaemonPcs, history
<1> QED BY <1>1, <1>2, <1>3, <1>4, <1>5 DEF DaemonStep

LEMMA DeliveryThread ==
  ASSUME DeliveryInv, TypeOK', NEW t \in Thread, ThreadCall(t) \/ ThreadStep(t)
  PROVE  DeliveryInv'
<1>1. CASE \E e \in Event : AddStore(t, e)
  BY <1>1, DeliveryAdd
<1>2. CASE Start(t)
  BY <1>2, DeliveryQuiet DEF Start, QuietPcs, DaemonPcs, history
<1>3. CASE StopNotify(t) \/ AddNotify(t) \/ FlushNotify(t)
  BY <1>3, DeliveryQuiet
     DEF StopNotify, AddNotify, FlushNotify, NotifyDb, QuietPcs, DaemonPcs, history
<1>4. CASE StopJoin(t)
  BY <1>4, DeliveryQuiet DEF StopJoin, QuietPcs, DaemonPcs, history
<1>5. CASE \/ Stop(t) \/ FlushStop(t) \/ StopHandshake(t) \/ StopFin(t) \/ FlushBegin(t)
           \/ FlushReset(t) \/ FlushPred(t) \/ FlushBlock(t) \/ FlushTimeout(t)
           \/ FlushSpuriousWakeup(t)
           \/ \E statuses \in SUBSET Statuses : SetRequestCallback(t, statuses)
           \/ \E code \in StatusCode, retry \in BOOLEAN : SetCustomRetry(t, code, retry)
  BY <1>5, DeliveryQuiet
     DEF Stop, FlushStop, StopBegin, StopHandshake, StopFin, FlushBegin, FlushReset,
         FlushPred, FlushBlock, FlushTimeout, FlushSpuriousWakeup, SetRequestCallback,
         SetCustomRetry, daemon, history
<1> QED BY <1>1, <1>2, <1>3, <1>4, <1>5 DEF ThreadCall, ThreadStep

LEMMA DeliveryStep ==
  ASSUME Client # "curl"
  PROVE  DeliveryInv /\ [Next]_vars => DeliveryInv'
<1> SUFFICES ASSUME DeliveryInv, [Next]_vars PROVE DeliveryInv'
  OBVIOUS
<1> TypeOK'
  BY TypeStep DEF DeliveryInv
<1>1. CASE \E t \in Thread : ThreadCall(t) \/ ThreadStep(t)
  BY <1>1, DeliveryThread
<1>2. CASE DaemonStep
  BY <1>2, DeliveryDaemon
<1>3. CASE RequestAnswered
  BY <1>3, DeliveryAnswer DEF RequestAnswered
<1>4. CASE \E c \in callbacks : RunCallback(c)
  BY <1>4, DeliveryQuiet DEF RunCallback, daemon, history
<1>5. CASE Crash
  BY <1>5 DEF Crash, DeliveryInv, IdsUnique, BatchStillStored, NothingInFlight,
              RequestsOfBatch, RowsOf, AcceptedIfReceived, DeletionJustified
<1>6. CASE UNCHANGED vars
  BY <1>6, DeliveryQuiet DEF vars, daemon, history
<1> QED BY <1>1, <1>2, <1>3, <1>4, <1>5, <1>6 DEF Next, Quiescent

\* The ids the daemon deletes are those of the rows it sent.
THEOREM BatchStaysStored == ASSUME Client # "curl" PROVE Spec => []BatchStillStored
<1>1. Init => DeliveryInv
  BY DeliveryInit
<1>2. DeliveryInv /\ [Next]_vars => DeliveryInv'
  BY DeliveryStep
<1>3. DeliveryInv => BatchStillStored
  BY DEF DeliveryInv
<1> QED BY <1>1, <1>2, <1>3, PTL DEF Spec

(***************************************************************************)
(* Refinement of the at-least-once queue, and NoLoss                       *)
(***************************************************************************)
\* Only add() and the deletion of a batch change the table; what else a step
\* does to the history variables is adding events of rows in flight.
LEMMA QueueThread ==
  ASSUME DeliveryInv, NEW t \in Thread, ThreadCall(t) \/ ThreadStep(t)
  PROVE  [Queue!Next]_(Queue!vars)
<1>1. CASE \E e \in Event : AddStore(t, e)
  <2> PICK e \in Event : AddStore(t, e)
    BY <1>1
  <2>a. CASE UNCHANGED <<rows, stored>>
    BY <2>a DEF AddStore, Queue!vars, Queued
  <2>b. SUFFICES ASSUME Insert(e)
                 PROVE  [Queue!Next]_(Queue!vars)
    BY <2>a DEF AddStore
  <2> PICK id \in RowId : rows' = rows \cup {[id |-> id, event |-> e]}
    BY <2>b DEF Insert
  <2> DEFINE new == [id |-> id, event |-> e]
  <2>1. Queued' = Queued \cup {e}
    <3>1. new.event = e
      OBVIOUS
    <3> HIDE DEF new
    <3>2. EventsIn(rows \cup {new}) = EventsIn(rows) \cup {new.event}
      BY DEF EventsIn
    <3>3. rows' = rows \cup {new}
      BY DEF new
    <3> QED BY <3>1, <3>2, <3>3 DEF Queued
  <2>2. Queue!Store(e)
    BY <2>1, <2>b DEF AddStore, Insert, Queue!Store
  <2> QED BY <2>2 DEF Queue!Next
<1>2. CASE ~\E e \in Event : AddStore(t, e)
  <2>1. UNCHANGED <<rows, stored, accepted, refused>>
    BY <1>2
       DEF ThreadCall, ThreadStep, Start, Stop, FlushStop, StopBegin, StopHandshake,
           StopNotify, StopJoin, StopFin, AddNotify, FlushBegin, FlushReset, FlushNotify,
           FlushPred, FlushBlock, FlushTimeout, FlushSpuriousWakeup, SetRequestCallback,
           SetCustomRetry, history
  <2> QED BY <2>1 DEF Queue!vars, Queued
<1> QED BY <1>1, <1>2

LEMMA QueueDaemon ==
  ASSUME DeliveryInv, DaemonStep
  PROVE  [Queue!Next]_(Queue!vars)
<1>1. CASE DaemonGather
  <2>1. EventsIn(RefusedRows) \in SUBSET Queued
    BY ResultRowsOfBatch DEF Queued, EventsIn, DeliveryInv, BatchStillStored
  <2>2. Queue!Refuse(EventsIn(RefusedRows))
    BY <1>1 DEF DaemonGather, Queue!Refuse, Queued
  <2> QED BY <2>1, <2>2 DEF Queue!Next
<1>2. CASE DaemonDelete /\ rows' = WithoutIds(rows, delete_row_ids)
  <2> DEFINE gone == Queued \ Queued'
  <2>1. Queued' \subseteq Queued
    BY <1>2 DEF Queued, EventsIn, WithoutIds
  <2>2. gone \subseteq accepted \cup refused
    BY <1>2 DEF Queued, EventsIn, WithoutIds, DeliveryInv, DeletionJustified
  <2>3. UNCHANGED <<stored, accepted, refused>>
    BY <1>2 DEF DaemonDelete, history
  <2>4. Queue!Remove(gone)
    BY <2>1, <2>2, <2>3 DEF Queue!Remove
  <2> QED BY <2>4 DEF Queue!Next
<1>3. CASE ~DaemonGather /\ UNCHANGED rows
  <2>1. UNCHANGED <<stored, accepted, refused>>
    BY <1>3 DEF DaemonStep, DaemonRead, DaemonSend, DaemonDelete, DaemonSleep, DaemonBlock,
                DaemonTimeout, DaemonSignal, DaemonNotify, DaemonLoop, history
  <2> QED BY <1>3, <2>1 DEF Queue!vars, Queued
<1>4. DaemonDelete => rows' = WithoutIds(rows, delete_row_ids) \/ UNCHANGED rows
  BY DEF DaemonDelete
<1>5. DaemonStep /\ ~DaemonDelete => UNCHANGED rows
  BY DEF DaemonStep, DaemonRead, DaemonSend, DaemonGather, DaemonSleep, DaemonBlock,
         DaemonTimeout, DaemonSignal, DaemonNotify, DaemonLoop
<1> QED BY <1>1, <1>2, <1>3, <1>4, <1>5

LEMMA QueueAnswer ==
  ASSUME DeliveryInv, NEW req \in request_futures, NEW x \in Exchanges(req.is_oversize),
         Answer(req, x)
  PROVE  [Queue!Next]_(Queue!vars)
<1>1. EventsIn(req.rows) \in SUBSET Queued
  BY DEF DeliveryInv, RequestsOfBatch, RowsOf, BatchStillStored, Queued, EventsIn
<1>2. UNCHANGED <<stored, Queued, refused>>
  BY DEF Answer, Queued
<1>3. CASE x.received
  <2>1. Queue!Accept(EventsIn(req.rows))
    BY <1>2, <1>3 DEF Answer, Queue!Accept
  <2> QED BY <1>1, <2>1 DEF Queue!Next
<1>4. CASE ~x.received
  BY <1>2, <1>4 DEF Answer, Queue!vars
<1> QED BY <1>3, <1>4

\* The emitter implements the at-least-once queue on the clients whose results
\* are honest, whatever crashes, storage faults and interleavings there are.
THEOREM ImplementsQueue == ASSUME Client # "curl" PROVE Spec => QueueSpec
<1>1. Init => Queue!Init
  BY DEF Init, Queue!Init, Queued, EventsIn
<1>2. DeliveryInv /\ [Next]_vars => [Queue!Next]_(Queue!vars)
  <2> SUFFICES ASSUME DeliveryInv, [Next]_vars PROVE [Queue!Next]_(Queue!vars)
    OBVIOUS
  <2>1. CASE \E t \in Thread : ThreadCall(t) \/ ThreadStep(t)
    BY <2>1, QueueThread
  <2>2. CASE DaemonStep
    BY <2>2, QueueDaemon
  <2>3. CASE RequestAnswered
    BY <2>3, QueueAnswer DEF RequestAnswered
  <2>4. CASE \/ \E c \in callbacks : RunCallback(c)
             \/ Crash
             \/ UNCHANGED vars
    BY <2>4 DEF RunCallback, Crash, vars, history, Queue!vars, Queued
  <2> QED BY <2>1, <2>2, <2>3, <2>4 DEF Next, Quiescent
<1>3. Init => DeliveryInv
  BY DeliveryInit
<1>4. DeliveryInv /\ [Next]_vars => DeliveryInv'
  BY DeliveryStep
<1> QED BY <1>1, <1>2, <1>3, <1>4, PTL DEF Spec, QueueSpec, Queue!Spec

\* No event that was stored is lost.
THEOREM NothingLost == ASSUME Client # "curl" PROVE Spec => []NoLoss
<1>1. Init => NoLoss
  BY DEF Init, NoLoss
<1>2. NoLoss /\ [Queue!Next]_(Queue!vars) => NoLoss'
  BY DEF NoLoss, Queue!Next, Queue!vars, Queue!Store, Queue!Accept, Queue!Refuse, Queue!Remove
<1>3. Spec => QueueSpec
  BY ImplementsQueue
<1> QED BY <1>1, <1>2, <1>3, PTL DEF Spec, QueueSpec, Queue!Spec

(***************************************************************************)
(* Callbacks, and sending twice                                            *)
(***************************************************************************)
\* What the callbacks started by a batch report is true when they are started.
LEMMA ReportsTrue ==
  ASSUME DeliveryInv, Client # "curl", NEW c \in Reports
  PROVE  /\ c.status = "SUCCESS" => c.events \subseteq accepted
         /\ c.status = "FAILED_WONT_RETRY" => c.events \subseteq EventsIn(RefusedRows)
<1>1. /\ c.status = "SUCCESS" => c.events = EventsIn(SuccessRows)
      /\ c.status = "FAILED_WONT_RETRY" => c.events = EventsIn(WontRetryRows)
  BY DEF Reports
<1>2. EventsIn(SuccessRows) \subseteq accepted
  BY GatherJustified DEF EventsIn
<1>3. EventsIn(WontRetryRows) \subseteq EventsIn(RefusedRows)
  BY GatherJustified DEF EventsIn
<1> QED BY <1>1, <1>2, <1>3

LEMMA CallbackStep ==
  ASSUME Client # "curl"
  PROVE  DeliveryInv /\ CallbackTruthful /\ [Next]_vars => CallbackTruthful'
<1> SUFFICES ASSUME DeliveryInv, CallbackTruthful, [Next]_vars PROVE CallbackTruthful'
  OBVIOUS
<1>1. CASE DaemonGather
  BY <1>1, ReportsTrue DEF DaemonGather, CallbackTruthful
<1>2. ASSUME callbacks' \subseteq callbacks, accepted \subseteq accepted', refused' = refused
      PROVE  CallbackTruthful'
  BY <1>2 DEF CallbackTruthful
<1>3. CASE DaemonStep /\ ~DaemonGather
  BY <1>2, <1>3
     DEF DaemonStep, DaemonRead, DaemonSend, DaemonDelete, DaemonSleep, DaemonBlock,
         DaemonTimeout, DaemonSignal, DaemonNotify, DaemonLoop, history
<1>4. ASSUME NEW req \in request_futures, NEW x \in Exchanges(req.is_oversize), Answer(req, x)
      PROVE  CallbackTruthful'
  BY <1>2, <1>4 DEF Answer
<1>5. ASSUME NEW t \in Thread, ThreadCall(t) \/ ThreadStep(t)
      PROVE  CallbackTruthful'
  BY <1>2, <1>5
     DEF ThreadCall, ThreadStep, Start, Stop, FlushStop, StopBegin, StopHandshake,
         StopNotify, StopJoin, StopFin, AddStore, AddNotify, FlushBegin, FlushReset,
         FlushNotify, FlushPred, FlushBlock, FlushTimeout, FlushSpuriousWakeup,
         SetRequestCallback, SetCustomRetry, history
<1>6. CASE (\E c \in callbacks : RunCallback(c)) \/ UNCHANGED vars
  BY <1>2, <1>6 DEF RunCallback, vars, history
<1>7. CASE Crash
  BY <1>7 DEF Crash, CallbackTruthful
<1> QED BY <1>1, <1>3, <1>4, <1>5, <1>6, <1>7 DEF Next, Quiescent, RequestAnswered

\* A callback reports as sent what the collector has, and as given up what
\* there was a reason to give up, whenever it runs.
THEOREM CallbacksAreTruthful == ASSUME Client # "curl" PROVE Spec => []CallbackTruthful
<1>1. Init => DeliveryInv /\ CallbackTruthful
  BY DeliveryInit DEF Init, CallbackTruthful
<1>2. DeliveryInv /\ [Next]_vars => DeliveryInv'
  BY DeliveryStep
<1>3. DeliveryInv /\ CallbackTruthful /\ [Next]_vars => CallbackTruthful'
  BY CallbackStep
<1> QED BY <1>1, <1>2, <1>3, PTL DEF Spec

\* A settled event that is still in the table is about to be deleted, and then
\* nothing is in flight.
ResendInv ==
  /\ \A r, q \in rows : r.event = q.event => r = q
  /\ Queued \subseteq stored /\ settled \subseteq stored
  /\ \A r \in rows : r.event \in settled => r.id \in delete_row_ids
  /\ request_futures = {} \/ delete_row_ids = {}

LEMMA ResendSame ==
  ASSUME ResendInv, UNCHANGED <<rows, stored, delete_row_ids>>, settled' \subseteq settled,
         request_futures' \subseteq request_futures
  PROVE  ResendInv'
BY DEF ResendInv, Queued

LEMMA ResendGather ==
  ASSUME DeliveryInv, ResendInv, DaemonGather
  PROVE  ResendInv'
<1> DEFINE Done == SuccessRows \cup WontRetryRows
<1>1. Done \subseteq rows
  BY ResultRowsOfBatch DEF DeliveryInv, BatchStillStored
<1>2. delete_row_ids = {}
  BY DEF DaemonGather, DeliveryInv, NothingInFlight
<1>3. /\ delete_row_ids' = IdsIn(Done) /\ settled' = settled \cup EventsIn(Done)
      /\ UNCHANGED <<rows, stored>> /\ request_futures' = {}
  BY DEF DaemonGather
<1> HIDE DEF Done
<1>4. EventsIn(Done) \subseteq stored
  BY <1>1 DEF ResendInv, Queued, EventsIn
<1>5. ASSUME NEW r \in rows, r.event \in settled'
      PROVE  r.id \in delete_row_ids'
  <2>1. PICK q \in Done : q.event = r.event
    BY <1>2, <1>3, <1>5 DEF ResendInv, EventsIn
  <2>2. q = r
    BY <1>1, <2>1 DEF ResendInv
  <2> QED BY <1>3, <2>2 DEF IdsIn
<1> QED BY <1>3, <1>4, <1>5 DEF ResendInv, Queued

LEMMA ResendDaemon ==
  ASSUME DeliveryInv, ResendInv, ~StorageFaults, DaemonStep
  PROVE  ResendInv'
<1>1. CASE DaemonSend
  <2>1. delete_row_ids = {}
    BY <1>1 DEF DaemonSend, DeliveryInv, NothingInFlight
  <2> QED BY <1>1, <2>1 DEF DaemonSend, ResendInv, Queued, history
<1>2. CASE DaemonGather
  BY <1>2, ResendGather
<1>3. CASE DaemonDelete
  <2>1. rows' = {r \in rows : r.id \notin delete_row_ids} /\ request_futures' = request_futures
    BY <1>3 DEF DaemonDelete, WithoutIds
  <2>2. delete_row_ids' = {} /\ UNCHANGED <<stored, settled>>
    BY <1>3 DEF DaemonDelete, history
  <2> QED BY <2>1, <2>2 DEF ResendInv, Queued, EventsIn
<1>4. CASE \/ DaemonRead \/ DaemonSleep \/ DaemonBlock \/ DaemonTimeout
           \/ DaemonSignal \/ DaemonNotify \/ DaemonLoop
  BY <1>4, ResendSame
     DEF DaemonRead, DaemonSleep, DaemonBlock, DaemonTimeout, DaemonSignal, DaemonNotify,
         DaemonLoop, history
<1> QED BY <1>1, <1>2, <1>3, <1>4 DEF DaemonStep

LEMMA ResendThread ==
  ASSUME ResendInv, ~StorageFaults, NEW t \in Thread, ThreadCall(t) \/ ThreadStep(t)
  PROVE  ResendInv'
<1>1. ASSUME NEW e \in Event, AddStore(t, e)
      PROVE  ResendInv'
  <2>1. e \notin stored /\ Insert(e) /\ UNCHANGED <<settled, delete_row_ids, request_futures>>
    BY <1>1 DEF AddStore, daemon
  <2> PICK id \in RowId : rows' = rows \cup {[id |-> id, event |-> e]}
    BY <2>1 DEF Insert
  <2> PICK row : row = [id |-> id, event |-> e]
    OBVIOUS
  <2>2. rows' = rows \cup {row} /\ row.event = e /\ stored' = stored \cup {e}
    BY <2>1 DEF Insert
  <2>3. \A r \in rows : r.event \in stored
    BY DEF ResendInv, Queued, EventsIn
  <2>4. e \notin settled /\ settled \subseteq stored
    BY <2>1 DEF ResendInv
  <2> QED BY <2>1, <2>2, <2>3, <2>4 DEF ResendInv, Queued, EventsIn
<1>2. CASE ~\E e \in Event : AddStore(t, e)
  <2>1. UNCHANGED <<rows, stored, settled, delete_row_ids, request_futures>>
    BY <1>2
       DEF ThreadCall, ThreadStep, Start, Stop, FlushStop, StopBegin, StopHandshake,
           StopNotify, StopJoin, StopFin, AddNotify, FlushBegin, FlushReset, FlushNotify,
           FlushPred, FlushBlock, FlushTimeout, FlushSpuriousWakeup, SetRequestCallback,
           SetCustomRetry, daemon, history
  <2> QED BY <2>1, ResendSame
<1> QED BY <1>1, <1>2

LEMMA ResendStep ==
  ASSUME ~StorageFaults
  PROVE  DeliveryInv /\ ResendInv /\ [Next]_vars => ResendInv'
<1> SUFFICES ASSUME DeliveryInv, ResendInv, [Next]_vars PROVE ResendInv'
  OBVIOUS
<1>1. CASE DaemonStep
  BY <1>1, ResendDaemon
<1>2. CASE \E t \in Thread : ThreadCall(t) \/ ThreadStep(t)
  BY <1>2, ResendThread
<1>3. ASSUME NEW req \in request_futures, NEW x \in Exchanges(req.is_oversize), Answer(req, x)
      PROVE  ResendInv'
  BY <1>3, ResendSame DEF Answer
<1>4. CASE (\E c \in callbacks : RunCallback(c)) \/ UNCHANGED vars
  BY <1>4, ResendSame DEF RunCallback, vars, daemon, history
<1>5. CASE Crash
  BY <1>5 DEF Crash, ResendInv, Queued
<1> QED BY <1>1, <1>2, <1>3, <1>4, <1>5 DEF Next, Quiescent, RequestAnswered

\* What run() has classified for good is not sent again by this process, as
\* long as deletions do not fail.
THEOREM SettledIsNotResent ==
  ASSUME Client # "curl", ~StorageFaults
  PROVE  Spec => []NoResendOfSettled
<1>1. Init => DeliveryInv /\ ResendInv
  BY DeliveryInit DEF Init, ResendInv, Queued, EventsIn
<1>2. DeliveryInv /\ [Next]_vars => DeliveryInv'
  BY DeliveryStep
<1>3. DeliveryInv /\ ResendInv /\ [Next]_vars => ResendInv'
  BY ResendStep
<1>4. DeliveryInv /\ ResendInv => NoResendOfSettled
  <2> SUFFICES ASSUME DeliveryInv, ResendInv, NEW r \in RowsOf(request_futures),
                      r.event \in settled
               PROVE  FALSE
    BY DEF NoResendOfSettled, EventsIn
  <2>1. r \in rows /\ request_futures # {}
    BY DEF DeliveryInv, RequestsOfBatch, BatchStillStored, RowsOf
  <2> QED BY <2>1 DEF ResendInv
<1> QED BY <1>1, <1>2, <1>3, <1>4, PTL DEF Spec

(***************************************************************************)
(* The handshake of stop().  At most one thread is between having cleared  *)
(* m_running and having joined the daemon, and while it is there nobody    *)
(* can start another one; so m_stop_requested stays TRUE, and a daemon     *)
(* that has not tested it yet will not wait.                               *)
(***************************************************************************)
RunInv ==
  /\ m_running => dpc \notin {"none", "exited"}
  /\ dpc = "terminated" => \A t \in Thread : At(t, "terminated")

StopInv ==
  /\ \A t, u \in Thread : Stopping(t) /\ Stopping(u) => t = u
  /\ \A t \in Thread : Stopping(t) => ~m_running /\ m_stop_requested /\ dpc # "none"
  /\ \A t \in Thread : At(t, "stop_notify") => dpc # "block"
  /\ StopNeverJoinsSleeper

HandshakeInv == TypeOK /\ RunInv /\ StopInv

LEMMA HandshakeInit == Init => HandshakeInv
BY TypeInit DEF Init, HandshakeInv, RunInv, StopInv, Stopping, At, StopNeverJoinsSleeper

LEMMA HandshakeThreadCall ==
  ASSUME HandshakeInv, TypeOK', NEW t \in Thread, ThreadCall(t)
  PROVE  HandshakeInv'
<1> USE DEF HandshakeInv, RunInv, StopInv, Stopping, StopNeverJoinsSleeper, At, Calls, Goto
<1> pc \in [Thread -> ThreadPcs]
  BY DEF TypeOK
<1>1. CASE Start(t)
  BY <1>1 DEF Start
<1>2. CASE Stop(t)
  BY <1>2 DEF Stop, StopBegin, daemon
<1>3. CASE \E e \in Event : AddStore(t, e)
  BY <1>3 DEF AddStore, daemon, flags
<1>4. CASE FlushBegin(t)
  BY <1>4 DEF FlushBegin, daemon, flags
<1>5. CASE \E statuses \in SUBSET Statuses : SetRequestCallback(t, statuses)
  BY <1>5 DEF SetRequestCallback, daemon, flags
<1>6. CASE \E code \in StatusCode, retry \in BOOLEAN : SetCustomRetry(t, code, retry)
  BY <1>6 DEF SetCustomRetry, daemon, flags
<1> QED BY <1>1, <1>2, <1>3, <1>4, <1>5, <1>6 DEF ThreadCall

LEMMA HandshakeThreadStep ==
  ASSUME HandshakeInv, TypeOK', NEW t \in Thread, ThreadStep(t)
  PROVE  HandshakeInv'
<1> USE DEF HandshakeInv, RunInv, StopInv, Stopping, StopNeverJoinsSleeper, At, Goto,
            daemon, flags
<1> pc \in [Thread -> ThreadPcs]
  BY DEF TypeOK
<1>1. CASE FlushStop(t)
  BY <1>1 DEF FlushStop, StopBegin
<1>2. CASE StopHandshake(t)
  BY <1>2 DEF StopHandshake
<1>3. CASE StopNotify(t)
  BY <1>3 DEF StopNotify, NotifyDb
<1>4. CASE StopJoin(t)
  BY <1>4 DEF StopJoin
<1>5. CASE StopFin(t)
  BY <1>5 DEF StopFin, NotifyFin
<1>6. CASE AddNotify(t)
  BY <1>6 DEF AddNotify, NotifyDb
<1>7. CASE FlushReset(t)
  BY <1>7 DEF FlushReset
<1>8. CASE FlushNotify(t)
  BY <1>8 DEF FlushNotify, NotifyDb
<1>9. CASE FlushPred(t)
  BY <1>9 DEF FlushPred
<1>10. CASE FlushBlock(t) \/ FlushTimeout(t) \/ FlushSpuriousWakeup(t)
  BY <1>10 DEF FlushBlock, FlushTimeout, FlushSpuriousWakeup
<1> QED BY <1>1, <1>2, <1>3, <1>4, <1>5, <1>6, <1>7, <1>8, <1>9, <1>10 DEF ThreadStep

LEMMA HandshakeDaemon ==
  ASSUME HandshakeInv, TypeOK', DaemonStep
  PROVE  HandshakeInv'
<1> USE DEF HandshakeInv, RunInv, StopInv, Stopping, StopNeverJoinsSleeper, At, flags
<1> pc \in [Thread -> ThreadPcs]
  BY DEF TypeOK
<1>1. CASE DaemonRead \/ DaemonSend \/ DaemonGather \/ DaemonDelete
  BY <1>1 DEF DaemonRead, DaemonSend, DaemonGather, DaemonDelete
<1>2. CASE DaemonSleep
  BY <1>2 DEF DaemonSleep
<1>3. CASE DaemonBlock
  BY <1>3 DEF DaemonBlock
<1>4. CASE DaemonTimeout \/ DaemonSignal \/ DaemonLoop
  BY <1>4 DEF DaemonTimeout, DaemonSignal, DaemonLoop
<1>5. CASE DaemonNotify
  BY <1>5 DEF DaemonNotify, NotifyFin
<1> QED BY <1>1, <1>2, <1>3, <1>4, <1>5 DEF DaemonStep

LEMMA HandshakeStep == HandshakeInv /\ [Next]_vars => HandshakeInv'
<1> SUFFICES ASSUME HandshakeInv, [Next]_vars PROVE HandshakeInv'
  OBVIOUS
<1> TypeOK'
  BY TypeStep DEF HandshakeInv
<1>1. CASE \E t \in Thread : ThreadCall(t) \/ ThreadStep(t)
  BY <1>1, HandshakeThreadCall, HandshakeThreadStep
<1>2. CASE DaemonStep
  BY <1>2, HandshakeDaemon
<1>3. CASE \/ RequestAnswered
           \/ \E c \in callbacks : RunCallback(c)
           \/ UNCHANGED vars
  BY <1>3 DEF RequestAnswered, Answer, RunCallback, vars, daemon, flags, HandshakeInv,
              RunInv, StopInv, Stopping, StopNeverJoinsSleeper, At
<1>4. CASE Crash
  BY <1>4 DEF Crash, HandshakeInv, RunInv, StopInv, Stopping, StopNeverJoinsSleeper, At
<1> QED BY <1>1, <1>2, <1>3, <1>4 DEF Next, Quiescent

\* When stop() joins the daemon, the daemon is not asleep and cannot fall
\* asleep any more, for any number of threads calling anything.
THEOREM StopWakesDaemon == Spec => []StopNeverJoinsSleeper
<1>1. Init => HandshakeInv
  BY HandshakeInit
<1>2. HandshakeInv /\ [Next]_vars => HandshakeInv'
  BY HandshakeStep
<1>3. HandshakeInv => StopNeverJoinsSleeper
  BY DEF HandshakeInv, StopInv
<1> QED BY <1>1, <1>2, <1>3, PTL DEF Spec

(***************************************************************************)
(* The division of a batch.  Requests never share a row, so neither do     *)
(* results, and between sending and classifying every row of the batch is  *)
(* in a request or a result; a result is classified in one way, and ids    *)
(* are those of one row.                                                   *)
(***************************************************************************)
\* Consecutive groups of POST rows are equal or disjoint.
LEMMA GroupsDisjoint ==
  ASSUME NEW b, NEW heads, NEW g \in Groups(b, heads), NEW h \in Groups(b, heads),
         g \cap h # {}
  PROVE  g = h
BY DEF Groups

LEMMA PlansDisjoint ==
  ASSUME NEW b, NEW plan \in SendPlans(b), NEW p \in plan, NEW q \in plan,
         p.rows \cap q.rows # {}
  PROVE  p = q
<1>1. CASE plan = GetPlan(b, LargeRows(b))
  <2> DEFINE req(r) == [rows |-> {r}, is_oversize |-> r \in LargeRows(b)]
  <2>1. plan = {req(r) : r \in b}
    BY <1>1, Zenon DEF GetPlan
  <2>2. \A r : req(r).rows = {r}
    BY Zenon
  <2> HIDE DEF req
  <2> PICK r \in b, s \in b : p = req(r) /\ q = req(s)
    BY <2>1
  <2>3. r = s
    BY <2>2
  <2> QED BY <2>3
<1>2. ASSUME NEW heads \in SUBSET b, plan = PostPlan(b, LargeRows(b), heads)
      PROVE  p = q
  <2> DEFINE small == b \ LargeRows(b)
             Alone(x) == \E r \in LargeRows(b) : x = [rows |-> {r}, is_oversize |-> TRUE]
             Grouped(x) == \E g \in Groups(small, heads) :
                             x = [rows |-> g, is_oversize |-> FALSE]
  <2>1. \A x \in plan : Alone(x) \/ Grouped(x)
    BY <1>2 DEF PostPlan
  <2>2. \A g \in Groups(small, heads) : g \subseteq small
    BY GroupsCover
  <2>3. CASE Alone(p) /\ Alone(q)
    BY <2>3
  <2>4. CASE Grouped(p) /\ Grouped(q)
    <3> PICK g \in Groups(small, heads) : p = [rows |-> g, is_oversize |-> FALSE]
      BY <2>4
    <3> PICK h \in Groups(small, heads) : q = [rows |-> h, is_oversize |-> FALSE]
      BY <2>4
    <3>1. g = h
      BY GroupsDisjoint
    <3> QED BY <3>1
  <2>5. ASSUME NEW x, NEW y, Alone(x), Grouped(y)
        PROVE  x.rows \cap y.rows = {}
    <3> PICK r \in LargeRows(b) : x = [rows |-> {r}, is_oversize |-> TRUE]
      BY <2>5
    <3> PICK g \in Groups(small, heads) : y = [rows |-> g, is_oversize |-> FALSE]
      BY <2>5
    <3>1. r \notin g
      BY <2>2
    <3> QED BY <3>1
  <2>6. CASE (Alone(p) /\ Grouped(q)) \/ (Grouped(p) /\ Alone(q))
    BY <2>5, <2>6
  <2> QED BY <2>1, <2>3, <2>4, <2>6
<1> QED BY <1>1, <1>2 DEF SendPlans

Disjoint(requests) ==
  \A p, q \in requests : p.rows \cap q.rows # {} => p = q

BatchInv ==
  /\ TypeOK
  /\ IdsUnique
  /\ \A r, q \in batch : r.id = q.id => r = q
  /\ dpc \notin {"gather", "terminated"} => request_futures = {} /\ results = {}
  /\ dpc = "gather" =>
       /\ RowsOf(request_futures) \cup RowsOf(results) = batch
       /\ RowsOf(request_futures) \cap RowsOf(results) = {}
       /\ Disjoint(request_futures) /\ Disjoint(results)
  /\ BatchIsDivided

LEMMA BatchInit == Init => BatchInv
BY TypeInit DEF Init, BatchInv, IdsUnique, BatchIsDivided

\* A step that leaves the batch and what is in flight of it alone.
LEMMA BatchSame ==
  ASSUME BatchInv, TypeOK', IdsUnique',
         UNCHANGED <<batch, request_futures, results, delete_row_ids,
                     failed_will_retry_row_ids>>,
         \/ dpc' = dpc
         \/ dpc \in QuietPcs /\ dpc' \notin {"gather", "delete"}
         \/ dpc' = "terminated"
  PROVE  BatchInv'
BY DEF BatchInv, BatchIsDivided, QuietPcs, DaemonPcs, TypeOK

LEMMA UniqueAfterAdd ==
  ASSUME TypeOK, IdsUnique, NEW t \in Thread, NEW e \in Event, AddStore(t, e)
  PROVE  IdsUnique'
<1>a. CASE UNCHANGED <<rows, stored>>
  BY <1>a DEF IdsUnique
<1>b. SUFFICES ASSUME Insert(e)
               PROVE  IdsUnique'
  BY <1>a DEF AddStore
<1> PICK id \in RowId : /\ IsNextId(rows, id)
                        /\ rows' = rows \cup {[id |-> id, event |-> e]}
  BY <1>b DEF Insert
<1>1. \A r \in rows : r.id < id /\ r.id \in Nat
  BY EmitterAssumption DEF IsNextId, TypeOK, Row
<1>2. id \in Nat
  BY EmitterAssumption
<1> QED BY <1>1, <1>2 DEF IdsUnique

LEMMA BatchThread ==
  ASSUME BatchInv, TypeOK', NEW t \in Thread, ThreadCall(t) \/ ThreadStep(t)
  PROVE  BatchInv'
<1>1. ASSUME NEW e \in Event, AddStore(t, e)
      PROVE  BatchInv'
  <2>1. IdsUnique'
    BY <1>1, UniqueAfterAdd DEF BatchInv
  <2> QED BY <1>1, <2>1, BatchSame DEF AddStore, daemon
<1>2. CASE Start(t)
  BY <1>2, BatchSame DEF Start, QuietPcs, DaemonPcs, history, BatchInv, IdsUnique
<1>3. CASE StopNotify(t) \/ AddNotify(t) \/ FlushNotify(t)
  BY <1>3, BatchSame
     DEF StopNotify, AddNotify, FlushNotify, NotifyDb, QuietPcs, DaemonPcs, history,
         BatchInv, IdsUnique
<1>4. CASE StopJoin(t)
  BY <1>4, BatchSame DEF StopJoin, QuietPcs, DaemonPcs, history, BatchInv, IdsUnique
<1>5. CASE \/ Stop(t) \/ FlushStop(t) \/ StopHandshake(t) \/ StopFin(t) \/ FlushBegin(t)
           \/ FlushReset(t) \/ FlushPred(t) \/ FlushBlock(t) \/ FlushTimeout(t)
           \/ FlushSpuriousWakeup(t)
           \/ \E statuses \in SUBSET Statuses : SetRequestCallback(t, statuses)
           \/ \E code \in StatusCode, retry \in BOOLEAN : SetCustomRetry(t, code, retry)
  BY <1>5, BatchSame
     DEF Stop, FlushStop, StopBegin, StopHandshake, StopFin, FlushBegin, FlushReset,
         FlushPred, FlushBlock, FlushTimeout, FlushSpuriousWakeup, SetRequestCallback,
         SetCustomRetry, daemon, history, BatchInv, IdsUnique
<1> QED BY <1>1, <1>2, <1>3, <1>4, <1>5 DEF ThreadCall, ThreadStep

LEMMA BatchAnswer ==
  ASSUME BatchInv, TypeOK', NEW req \in request_futures,
         NEW x \in Exchanges(req.is_oversize), Answer(req, x)
  PROVE  BatchInv'
<1> DEFINE answered == [rows |-> req.rows, exchange |-> x]
<1>1. /\ results' = results \cup {answered} /\ request_futures' = request_futures \ {req}
      /\ answered.rows = req.rows
      /\ dpc = "gather" /\ dpc' = "gather"
      /\ UNCHANGED <<batch, rows>>
  BY DEF Answer
<1> HIDE DEF answered
<1>2. RowsOf(results') = RowsOf(results) \cup req.rows
  BY <1>1 DEF RowsOf
<1>3. /\ RowsOf(request_futures) \cup RowsOf(results) = batch
      /\ RowsOf(request_futures) \cap RowsOf(results) = {}
      /\ Disjoint(request_futures) /\ Disjoint(results)
  BY <1>1 DEF BatchInv
<1>4. RowsOf(request_futures) = RowsOf(request_futures') \cup req.rows
  BY <1>1 DEF RowsOf
<1>5. RowsOf(request_futures') \cap req.rows = {}
  BY <1>1, <1>3 DEF RowsOf, Disjoint
<1>6. \A r \in results : r.rows \cap req.rows = {}
  BY <1>3, <1>4 DEF RowsOf
<1>7. Disjoint(request_futures') /\ Disjoint(results')
  BY <1>1, <1>3, <1>6 DEF Disjoint
<1>8. RowsOf(request_futures') \cap RowsOf(results') = {}
  BY <1>2, <1>3, <1>4, <1>5
<1>9. RowsOf(request_futures') \cup RowsOf(results') = batch'
  BY <1>1, <1>2, <1>3, <1>4
<1> QED BY <1>1, <1>7, <1>8, <1>9 DEF BatchInv, IdsUnique, BatchIsDivided

LEMMA BatchGather ==
  ASSUME BatchInv, TypeOK', DaemonGather
  PROVE  BatchInv'
<1> DEFINE Done == SuccessRows \cup WontRetryRows
<1>1. RowsOf(results) = batch /\ Disjoint(results)
  BY DEF DaemonGather, BatchInv, RowsOf
<1>2. Done \cup WillRetryRows = batch
  BY <1>1 DEF SuccessRows, WontRetryRows, WillRetryRows, RowsOf, GivesUp
<1>3. Done \cap WillRetryRows = {}
  <2> SUFFICES ASSUME NEW r \in Done, r \in WillRetryRows
               PROVE  FALSE
    OBVIOUS
  <2> PICK p \in results : /\ r \in p.rows
                           /\ \/ IsSuccess(p.exchange.result)
                              \/ GivesUp(p.exchange.result, m_custom_retry)
    BY DEF SuccessRows, WontRetryRows, RowsOf
  <2> PICK q \in results : r \in q.rows /\ ShouldRetry(q.exchange.result, m_custom_retry)
    BY DEF WillRetryRows, RowsOf
  <2>1. p = q
    BY <1>1 DEF Disjoint
  <2> QED BY <2>1 DEF GivesUp, ShouldRetry
<1>4. /\ delete_row_ids' = IdsIn(Done) /\ failed_will_retry_row_ids' = IdsIn(WillRetryRows)
      /\ dpc' = "delete" /\ UNCHANGED <<batch, rows>>
      /\ request_futures' = {} /\ results' = {}
  BY DEF DaemonGather
<1> HIDE DEF Done
<1>5. IdsIn(Done) \cup IdsIn(WillRetryRows) = IdsIn(batch)
  BY <1>2 DEF IdsIn
<1>6. IdsIn(Done) \cap IdsIn(WillRetryRows) = {}
  BY <1>2, <1>3 DEF IdsIn, BatchInv
<1> QED BY <1>4, <1>5, <1>6 DEF BatchInv, IdsUnique, BatchIsDivided

LEMMA BatchDaemon ==
  ASSUME BatchInv, TypeOK', DaemonStep
  PROVE  BatchInv'
<1>1. CASE DaemonRead
  BY <1>1 DEF DaemonRead, FirstRows, BatchInv, IdsUnique, BatchIsDivided
<1>2. CASE DaemonSend
  <2>1. /\ request_futures' \in SendPlans(batch) /\ dpc' = "gather"
        /\ UNCHANGED <<batch, results, rows>> /\ results = {}
    BY <1>2 DEF DaemonSend, BatchInv
  <2>2. RowsOf(request_futures') = batch
    BY <2>1, SendPlansCover DEF BatchInv, TypeOK
  <2>3. Disjoint(request_futures')
    BY <2>1, PlansDisjoint DEF Disjoint
  <2>4. RowsOf(results') = {} /\ Disjoint(results')
    BY <2>1 DEF RowsOf, Disjoint
  <2> QED BY <2>1, <2>2, <2>3, <2>4 DEF BatchInv, IdsUnique, BatchIsDivided
<1>3. CASE DaemonGather
  BY <1>3, BatchGather
<1>4. CASE DaemonDelete
  BY <1>4 DEF DaemonDelete, WithoutIds, BatchInv, IdsUnique, BatchIsDivided
<1>5. CASE \/ DaemonSleep \/ DaemonBlock \/ DaemonTimeout
           \/ DaemonSignal \/ DaemonNotify \/ DaemonLoop
  BY <1>5, BatchSame
     DEF DaemonSleep, DaemonBlock, DaemonTimeout, DaemonSignal, DaemonNotify, DaemonLoop,
         QuietPcs, DaemonPcs, history, BatchInv, IdsUnique
<1> QED BY <1>1, <1>2, <1>3, <1>4, <1>5 DEF DaemonStep

\* Every row of a batch is to be deleted or to be sent again and none is both,
\* for all batches, plans and outcomes, with faults and deaths of the process.
THEOREM BatchesAreDivided == Spec => []BatchIsDivided
<1>1. Init => BatchInv
  BY BatchInit
<1>2. BatchInv /\ [Next]_vars => BatchInv'
  <2> SUFFICES ASSUME BatchInv, [Next]_vars PROVE BatchInv'
    OBVIOUS
  <2> TypeOK'
    BY TypeStep DEF BatchInv
  <2>1. CASE \E t \in Thread : ThreadCall(t) \/ ThreadStep(t)
    BY <2>1, BatchThread
  <2>2. CASE DaemonStep
    BY <2>2, BatchDaemon
  <2>3. CASE RequestAnswered
    BY <2>3, BatchAnswer DEF RequestAnswered
  <2>4. CASE (\E c \in callbacks : RunCallback(c)) \/ UNCHANGED vars
    BY <2>4, BatchSame DEF RunCallback, vars, daemon, history, BatchInv, IdsUnique
  <2>5. CASE Crash
    BY <2>5 DEF Crash, BatchInv, IdsUnique, BatchIsDivided
  <2> QED BY <2>1, <2>2, <2>3, <2>4, <2>5 DEF Next, Quiescent
<1>3. BatchInv => BatchIsDivided
  BY DEF BatchInv
<1> QED BY <1>1, <1>2, <1>3, PTL DEF Spec

(***************************************************************************)
(* start() and stop().  Replacing a daemon thread that was not joined ends *)
(* the program.  While the emitter does not run, a daemon there is to join *)
(* belongs to the one stop() that is under way.                            *)
(***************************************************************************)
JoinInv == ~m_running /\ dpc \notin {"none", "terminated"} => \E t \in Thread : Stopping(t)

LEMMA JoinSame ==
  ASSUME JoinInv, m_running' = m_running,
         dpc' \notin {"none", "terminated"} => dpc \notin {"none", "terminated"},
         \A t \in Thread : Stopping(t) => Stopping(t)'
  PROVE  JoinInv'
BY DEF JoinInv

LEMMA JoinThread ==
  ASSUME TypeOK, JoinInv, NEW t \in Thread, ThreadCall(t) \/ ThreadStep(t)
  PROVE  JoinInv'
<1> USE DEF Stopping, At, Calls, Goto, daemon, flags
<1> pc \in [Thread -> ThreadPcs]
  BY DEF TypeOK
<1>1. CASE Start(t)
  BY <1>1 DEF Start, JoinInv
<1>2. CASE Stop(t) \/ FlushStop(t)
  <2>1. StopBegin(t) /\ pc[t] \in {"idle", "stop"} /\ dpc' = dpc
    BY <1>2 DEF Stop, FlushStop, StopBegin
  <2>2. CASE m_running
    BY <2>1, <2>2 DEF StopBegin, JoinInv
  <2>3. CASE ~m_running
    <3>1. m_running' = m_running /\ pc' = [pc EXCEPT ![t] = "idle"]
      BY <2>1, <2>3 DEF StopBegin
    <3>2. \A u \in Thread : Stopping(u) => Stopping(u)'
      BY <2>1, <3>1
    <3> QED BY <2>1, <3>1, <3>2, JoinSame
  <2> QED BY <2>2, <2>3
<1>3. CASE StopHandshake(t)
  BY <1>3, JoinSame DEF StopHandshake
<1>4. CASE StopNotify(t)
  BY <1>4, JoinSame DEF StopNotify, NotifyDb
<1>5. CASE StopJoin(t)
  BY <1>5 DEF StopJoin, JoinInv
<1>6. CASE StopFin(t)
  BY <1>6, JoinSame DEF StopFin, NotifyFin
<1>7. CASE \E e \in Event : AddStore(t, e)
  BY <1>7, JoinSame DEF AddStore
<1>8. CASE AddNotify(t)
  BY <1>8, JoinSame DEF AddNotify, NotifyDb
<1>9. CASE FlushBegin(t) \/ FlushReset(t)
  BY <1>9, JoinSame DEF FlushBegin, FlushReset
<1>10. CASE FlushNotify(t)
  BY <1>10, JoinSame DEF FlushNotify, NotifyDb
<1>11. CASE FlushPred(t)
  BY <1>11, JoinSame DEF FlushPred
<1>12. CASE FlushBlock(t) \/ FlushTimeout(t) \/ FlushSpuriousWakeup(t)
  BY <1>12, JoinSame DEF FlushBlock, FlushTimeout, FlushSpuriousWakeup
<1>13. CASE \/ \E statuses \in SUBSET Statuses : SetRequestCallback(t, statuses)
            \/ \E code \in StatusCode, retry \in BOOLEAN : SetCustomRetry(t, code, retry)
  <2> UNCHANGED <<pc, m_running, dpc>>
    BY <1>13 DEF SetRequestCallback, SetCustomRetry
  <2> QED BY JoinSame
<1> QED BY <1>1, <1>2, <1>3, <1>4, <1>5, <1>6, <1>7, <1>8, <1>9, <1>10, <1>11, <1>12,
           <1>13 DEF ThreadCall, ThreadStep

LEMMA JoinStep == TypeOK /\ JoinInv /\ [Next]_vars => JoinInv'
<1> SUFFICES ASSUME TypeOK, JoinInv, [Next]_vars PROVE JoinInv'
  OBVIOUS
<1>1. CASE \E t \in Thread : ThreadCall(t) \/ ThreadStep(t)
  BY <1>1, JoinThread
<1>2. CASE DaemonNotify
  BY <1>2, JoinSame DEF DaemonNotify, NotifyFin, Stopping, flags, TypeOK
<1>3. CASE DaemonStep /\ ~DaemonNotify
  BY <1>3, JoinSame
     DEF DaemonStep, DaemonRead, DaemonSend, DaemonGather, DaemonDelete, DaemonSleep,
         DaemonBlock, DaemonTimeout, DaemonSignal, DaemonLoop, flags, Stopping
<1>4. CASE \/ RequestAnswered
           \/ \E d \in callbacks : RunCallback(d)
           \/ UNCHANGED vars
  BY <1>4, JoinSame DEF RequestAnswered, Answer, RunCallback, vars, daemon, flags, Stopping
<1>5. CASE Crash
  BY <1>5 DEF Crash, JoinInv
<1> QED BY <1>1, <1>2, <1>3, <1>4, <1>5 DEF Next, Quiescent

\* Only start() ends the program.
LEMMA OnlyStartTerminates ==
  ASSUME ~Terminated, [Next]_vars, Terminated'
  PROVE  \E t \in Thread : Start(t)
<1> USE DEF Terminated
<1>1. ASSUME NEW t \in Thread, ThreadCall(t) \/ ThreadStep(t), ~Start(t)
      PROVE  FALSE
  BY <1>1
     DEF ThreadCall, ThreadStep, Stop, FlushStop, StopBegin, StopHandshake, StopNotify,
         StopJoin, StopFin, AddStore, AddNotify, FlushBegin, FlushReset, FlushNotify,
         FlushPred, FlushBlock, FlushTimeout, FlushSpuriousWakeup, SetRequestCallback,
         SetCustomRetry, NotifyDb, daemon
<1>2. ~DaemonStep
  BY DEF DaemonStep, DaemonRead, DaemonSend, DaemonGather, DaemonDelete, DaemonSleep,
         DaemonBlock, DaemonTimeout, DaemonSignal, DaemonNotify, DaemonLoop
<1>3. ~(RequestAnswered \/ (\E d \in callbacks : RunCallback(d)) \/ UNCHANGED vars \/ Crash)
  BY DEF RequestAnswered, Answer, RunCallback, vars, daemon, Crash
<1> QED BY <1>1, <1>2, <1>3 DEF Next, Quiescent

\* A start() that ends the program overlaps a stop() that has not joined yet,
\* for any number of threads that start, stop and flush.
THEOREM StartTerminatesOnlyDuringStop == Spec => TerminatesOnlyDuringStop
<1>1. Init => TypeOK /\ JoinInv
  BY TypeInit DEF Init, JoinInv
<1>2. TypeOK /\ JoinInv /\ [Next]_vars => (TypeOK /\ JoinInv)'
  BY TypeStep, JoinStep
<1>3. TypeOK /\ JoinInv /\ [Next]_vars
      => [~Terminated /\ Terminated' => \E t \in Thread : Stopping(t)]_vars
  <2> SUFFICES ASSUME JoinInv, [Next]_vars, ~Terminated, Terminated'
               PROVE  \E t \in Thread : Stopping(t)
    OBVIOUS
  <2> PICK t \in Thread : Start(t)
    BY OnlyStartTerminates
  <2>1. ~m_running /\ dpc \notin {"none", "terminated"}
    BY DEF Start, Terminated
  <2> QED BY <2>1 DEF JoinInv
<1> QED BY <1>1, <1>2, <1>3, PTL DEF Spec, TerminatesOnlyDuringStop

(***************************************************************************)
(* One controller: only one thread starts, stops and flushes the emitter,  *)
(* and the others track and configure.                                     *)
(***************************************************************************)
Controls(c) == \A t \in Thread \ {c} : Ops[t] \subseteq {"add", "configure"}

ControlInv(c) ==
  /\ TypeOK
  /\ ~Terminated
  /\ \A t \in Thread \ {c} : pc[t] \in {"idle", "add_notify"}
  /\ IF Stopping(c) THEN ~m_running /\ dpc # "none" ELSE m_running <=> dpc # "none"

LEMMA ControlInit ==
  ASSUME NEW c \in Thread
  PROVE  Init => ControlInv(c)
BY TypeInit DEF Init, ControlInv, Terminated, Stopping

LEMMA ControlThread ==
  ASSUME NEW c \in Thread, Controls(c), ControlInv(c), TypeOK',
         NEW t \in Thread, ThreadCall(t) \/ ThreadStep(t)
  PROVE  ControlInv(c)'
<1> USE DEF ControlInv, Controls, Terminated, Stopping, At, Calls, Goto, daemon, flags
<1> pc \in [Thread -> ThreadPcs]
  BY DEF TypeOK
<1>1. CASE Start(t)
  BY <1>1 DEF Start
<1>2. CASE Stop(t) \/ FlushStop(t)
  BY <1>2 DEF Stop, FlushStop, StopBegin
<1>3. CASE StopHandshake(t)
  BY <1>3 DEF StopHandshake
<1>4. CASE StopNotify(t)
  BY <1>4 DEF StopNotify, NotifyDb
<1>5. CASE StopJoin(t)
  BY <1>5 DEF StopJoin
<1>6. CASE StopFin(t)
  BY <1>6 DEF StopFin, NotifyFin
<1>7. CASE \E e \in Event : AddStore(t, e)
  BY <1>7 DEF AddStore
<1>8. CASE AddNotify(t)
  BY <1>8 DEF AddNotify, NotifyDb
<1>9. CASE FlushBegin(t) \/ FlushReset(t)
  BY <1>9 DEF FlushBegin, FlushReset
<1>10. CASE FlushNotify(t)
  BY <1>10 DEF FlushNotify, NotifyDb
<1>11. CASE FlushPred(t)
  BY <1>11 DEF FlushPred
<1>12. CASE FlushBlock(t) \/ FlushTimeout(t) \/ FlushSpuriousWakeup(t)
  BY <1>12 DEF FlushBlock, FlushTimeout, FlushSpuriousWakeup
<1>13. CASE \/ \E statuses \in SUBSET Statuses : SetRequestCallback(t, statuses)
            \/ \E code \in StatusCode, retry \in BOOLEAN : SetCustomRetry(t, code, retry)
  <2> UNCHANGED <<pc, m_running, dpc>>
    BY <1>13 DEF SetRequestCallback, SetCustomRetry
  <2> QED OBVIOUS
<1> QED BY <1>1, <1>2, <1>3, <1>4, <1>5, <1>6, <1>7, <1>8, <1>9, <1>10, <1>11, <1>12,
           <1>13 DEF ThreadCall, ThreadStep

LEMMA ControlStep ==
  ASSUME NEW c \in Thread, Controls(c)
  PROVE  ControlInv(c) /\ [Next]_vars => ControlInv(c)'
<1> SUFFICES ASSUME ControlInv(c), [Next]_vars PROVE ControlInv(c)'
  OBVIOUS
<1> TypeOK'
  BY TypeStep DEF ControlInv
<1> USE DEF ControlInv, Terminated, Stopping
<1>1. CASE \E t \in Thread : ThreadCall(t) \/ ThreadStep(t)
  BY <1>1, ControlThread
<1>2. CASE DaemonNotify
  BY <1>2 DEF DaemonNotify, NotifyFin, flags, TypeOK
<1>3. CASE DaemonStep /\ ~DaemonNotify
  BY <1>3 DEF DaemonStep, DaemonRead, DaemonSend, DaemonGather, DaemonDelete, DaemonSleep,
              DaemonBlock, DaemonTimeout, DaemonSignal, DaemonLoop, flags
<1>4. CASE \/ RequestAnswered
           \/ \E d \in callbacks : RunCallback(d)
           \/ UNCHANGED vars
  BY <1>4 DEF RequestAnswered, Answer, RunCallback, vars, daemon, flags
<1>5. CASE Crash
  BY <1>5 DEF Crash
<1> QED BY <1>1, <1>2, <1>3, <1>4, <1>5 DEF Next, Quiescent

\* With one controlling thread start() never terminates the program.
THEOREM OneControllerNeverTerminates ==
  ASSUME NEW c \in Thread, Controls(c)
  PROVE  Spec => []StartNeverTerminates
<1>1. Init => ControlInv(c)
  BY ControlInit
<1>2. ControlInv(c) /\ [Next]_vars => ControlInv(c)'
  BY ControlStep
<1>3. ControlInv(c) => StartNeverTerminates
  BY DEF ControlInv, StartNeverTerminates
<1> QED BY <1>1, <1>2, <1>3, PTL DEF Spec
=============================================================================
