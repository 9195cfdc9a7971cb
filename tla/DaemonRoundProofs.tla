------------------------- MODULE DaemonRoundProofs -------------------------
(***************************************************************************)
(* Theorems about DaemonRound, for every batch size, byte limit and set of *)
(* payload sizes: how the loop of do_send divides a batch.                 *)
(***************************************************************************)
EXTENDS DaemonRound, NatRecursion, TLAPS

(***************************************************************************)
(* The sizes of the bodies                                                 *)
(***************************************************************************)
\* total_byte_size counts the payloads collected and nothing else: the body they
\* make has the envelope and a comma between any two as well.
SizeInv ==
  /\ payload_size \in [1..N -> PayloadSize]
  /\ next \in 1..N + 2
  /\ payloads_size \in Nat /\ total_byte_size \in Nat /\ body_size \in Nat
  /\ payloads_size = 0 => total_byte_size = 0
  /\ payloads_size > 0 =>
       /\ body_size = total_byte_size + post_wrapper_bytes + (payloads_size - 1)
       /\ body_size <= ByteLimitPost + 1
  /\ \A req \in request_futures : ~req.is_oversize => req.body <= ByteLimitPost + 1

\* A row's size is a number, and one that is not too large by itself can begin
\* a body.
LEMMA ByteSizes ==
  ASSUME SizeInv, NEW i \in 1..N
  PROVE  /\ ByteSize(i) \in Nat
         /\ ~Exceeds(i) => Envelope(ByteSize(i)) <= ByteLimitPost
<1>1. payload_size[i] \in Nat
  BY PostBatchingAssumption DEF PostBatchingAssumption, SizeInv
<1>2. ByteSize(i) \in Nat
  BY <1>1 DEF ByteSize, post_stm_bytes
<1>3. ByteLimitPost \in Nat
  BY PostBatchingAssumption DEF PostBatchingAssumption
<1> QED BY <1>2, <1>3 DEF Exceeds, Envelope, post_wrapper_bytes

LEMMA SizeInit == RoundInit => SizeInv
BY PostBatchingAssumption DEF PostBatchingAssumption, RoundInit, Init, SizeInv

\* The loop never sends what it has not collected: for an empty list the limit
\* is not reached by a row that is within it.
LEMMA NothingCollectedNothingSent ==
  ASSUME SizeInv, NEW i \in 1..N, ~Exceeds(i), LimitReached(i)
  PROVE  payloads_size > 0
BY ByteSizes, PostBatchingAssumption
   DEF PostBatchingAssumption, SizeInv, LimitReached, Exceeds, post_wrapper_bytes

LEMMA SizeLoop ==
  ASSUME SizeInv, Next
  PROVE  SizeInv'
<1> USE PostBatchingAssumption DEF PostBatchingAssumption
<1>1. CASE SendAlone
  <2>1. \A req \in request_futures' : ~req.is_oversize => req \in request_futures
    BY <1>1 DEF SendAlone, Post
  <2>2. /\ next \in 1..N /\ next' = next + 1
        /\ UNCHANGED <<payload_size, payloads_size, total_byte_size, body_size>>
    BY <1>1 DEF SendAlone
  <2>3. next' \in 1..N + 2
    BY <2>2
  <2> QED BY <2>1, <2>2, <2>3 DEF SizeInv
<1>2. CASE SendCollected
  <2>1. /\ next \in 1..N /\ ~Exceeds(next) /\ LimitReached(next)
        /\ next' = next + 1 /\ payload_size' = payload_size
        /\ payloads_size' = 1 /\ total_byte_size' = ByteSize(next)
        /\ body_size' = Envelope(ByteSize(next))
    BY <1>2 DEF SendCollected
  <2>2. ByteSize(next) \in Nat /\ Envelope(ByteSize(next)) <= ByteLimitPost
    BY <2>1, ByteSizes
  <2>3. body_size <= ByteLimitPost + 1
    BY <2>1, NothingCollectedNothingSent DEF SizeInv
  <2>4. \A req \in request_futures' : req \in request_futures \/ req.body = body_size
    BY <1>2 DEF SendCollected, Post
  <2> QED BY <2>1, <2>2, <2>3, <2>4 DEF SizeInv, Envelope, post_wrapper_bytes
<1>3. CASE Collect
  <2>1. /\ next \in 1..N /\ ~Exceeds(next) /\ ~LimitReached(next)
        /\ next' = next + 1 /\ UNCHANGED <<payload_size, request_futures>>
        /\ payloads_size' = payloads_size + 1
        /\ total_byte_size' = total_byte_size + ByteSize(next)
        /\ body_size' = Appended(ByteSize(next))
    BY <1>3 DEF Collect
  <2>2. ByteSize(next) \in Nat /\ Envelope(ByteSize(next)) <= ByteLimitPost
    BY <2>1, ByteSizes
  <2>3. CASE payloads_size = 0
    BY <2>1, <2>2, <2>3 DEF SizeInv, Envelope, Appended, post_wrapper_bytes
  <2>4. CASE payloads_size > 0
    <3>1. body_size' = total_byte_size' + post_wrapper_bytes + (payloads_size' - 1)
      BY <2>1, <2>2, <2>4 DEF SizeInv, Appended, post_wrapper_bytes
    <3>2. body_size' <= ByteLimitPost + 1
      BY <2>1, <2>2, <2>4, <3>1 DEF SizeInv, LimitReached, post_wrapper_bytes
    <3> QED BY <2>1, <2>2, <2>4, <3>1, <3>2 DEF SizeInv, post_wrapper_bytes
  <2> QED BY <2>3, <2>4 DEF SizeInv
<1>4. CASE SendRest
  <2>1. \A req \in request_futures' :
          req \in request_futures \/ (req.body = body_size /\ payloads_size > 0)
    BY <1>4 DEF SendRest, Post
  <2>2. /\ next' = N + 2 /\ next' \in 1..N + 2
        /\ UNCHANGED <<payload_size, payloads_size, total_byte_size, body_size>>
    BY <1>4 DEF SendRest
  <2> QED BY <2>1, <2>2 DEF SizeInv
<1> QED BY <1>1, <1>2, <1>3, <1>4 DEF Next

LEMMA SizeStep == SizeInv /\ [RoundNext]_roundVars => SizeInv'
<1> SUFFICES ASSUME SizeInv, [RoundNext]_roundVars PROVE SizeInv'
  OBVIOUS
<1>1. CASE DoSend
  BY <1>1, SizeLoop DEF DoSend
<1>2. CASE Classify \/ UNCHANGED roundVars
  BY <1>2 DEF Classify, roundVars, vars, SizeInv
<1>3. CASE Sleep
  BY <1>3, PostBatchingAssumption DEF PostBatchingAssumption, Sleep, SizeInv
<1> QED BY <1>1, <1>2, <1>3 DEF RoundNext

\* A request that is not marked oversize is at most one byte over the limit,
\* whatever the payloads.
THEOREM BodiesStayNearLimit == RoundSpec => []BodyNearLimit
<1>1. SizeInv => BodyNearLimit
  BY DEF SizeInv, BodyNearLimit
<1> QED BY <1>1, SizeInit, SizeStep, PTL DEF RoundSpec

(***************************************************************************)
(* The plan                                                                *)
(***************************************************************************)
\* The heads up to a row.  A group is closed when a later row is a head, and
\* open, as there is one at most, when its rows have every head before them.
HeadsOf(heads, r) == {h \in heads : h.id <= r.id}

OpenGroup(rows, heads) == {r \in rows : HeadsOf(heads, r) = heads}

ClosedGroups(rows, heads) ==
  {{q \in rows : HeadsOf(heads, q) = HeadsOf(heads, r)} : r \in rows \ OpenGroup(rows, heads)}

LEMMA GroupsAreOpenOrClosed ==
  ASSUME NEW rows, NEW heads
  PROVE  Groups(rows, heads) =
           ClosedGroups(rows, heads) \cup {g \in {OpenGroup(rows, heads)} : g # {}}
<1> DEFINE Class(r) == {q \in rows : HeadsOf(heads, q) = HeadsOf(heads, r)}
           O == OpenGroup(rows, heads)
<1>1. Groups(rows, heads) = {Class(r) : r \in rows}
  BY DEF Groups, HeadsOf
<1>2. ClosedGroups(rows, heads) = {Class(r) : r \in rows \ O}
  BY DEF ClosedGroups
<1>3. \A r \in O : Class(r) = O
  BY DEF OpenGroup
<1>4. O \subseteq rows
  BY DEF OpenGroup
<1> HIDE DEF Class, O
<1> QED BY <1>1, <1>2, <1>3, <1>4 DEF O

\* A row after every head joins the open group.
LEMMA RowJoins ==
  ASSUME NEW rows, NEW heads, NEW x, HeadsOf(heads, x) = heads
  PROVE  /\ OpenGroup(rows \cup {x}, heads) = OpenGroup(rows, heads) \cup {x}
         /\ ClosedGroups(rows \cup {x}, heads) = ClosedGroups(rows, heads)
<1>1. OpenGroup(rows \cup {x}, heads) = OpenGroup(rows, heads) \cup {x}
  BY DEF OpenGroup
<1>2. (rows \cup {x}) \ OpenGroup(rows \cup {x}, heads) = rows \ OpenGroup(rows, heads)
  BY DEF OpenGroup
<1>3. \A r \in rows \ OpenGroup(rows, heads) :
        {q \in rows \cup {x} : HeadsOf(heads, q) = HeadsOf(heads, r)}
          = {q \in rows : HeadsOf(heads, q) = HeadsOf(heads, r)}
  BY DEF OpenGroup
<1> QED BY <1>1, <1>2, <1>3 DEF ClosedGroups

\* A row that is made a head closes the group before it.
LEMMA RowBegins ==
  ASSUME NEW rows, NEW heads, NEW x, x.id \in Int,
         \A r \in rows \cup heads : r.id \in Int /\ r.id < x.id,
         OpenGroup(rows, heads) # {}
  PROVE  /\ OpenGroup(rows \cup {x}, heads \cup {x}) = {x}
         /\ ClosedGroups(rows \cup {x}, heads \cup {x})
              = ClosedGroups(rows, heads) \cup {OpenGroup(rows, heads)}
<1> DEFINE H == heads \cup {x}
           Class(r) == {q \in rows : HeadsOf(heads, q) = HeadsOf(heads, r)}
           O == OpenGroup(rows, heads)
<1>1. \A r \in rows : HeadsOf(H, r) = HeadsOf(heads, r) /\ x \notin HeadsOf(H, r)
  BY DEF HeadsOf
<1>2. HeadsOf(H, x) = H /\ x \in H
  BY DEF HeadsOf
<1>3. OpenGroup(rows \cup {x}, H) = {x} /\ x \notin rows
  BY <1>1, <1>2 DEF OpenGroup
<1>4. \A r \in rows : {q \in rows \cup {x} : HeadsOf(H, q) = HeadsOf(H, r)} = Class(r)
  BY <1>1, <1>2
<1>5. (rows \cup {x}) \ OpenGroup(rows \cup {x}, H) = rows
  BY <1>3
<1>6. ClosedGroups(rows \cup {x}, H) = {Class(r) : r \in rows}
  BY <1>4, <1>5 DEF ClosedGroups
<1>7. ClosedGroups(rows, heads) = {Class(r) : r \in rows \ O}
  BY DEF ClosedGroups
<1>8. O \subseteq rows /\ O # {} /\ \A r \in O : Class(r) = O
  BY DEF OpenGroup
<1> HIDE DEF Class, O
<1>9. {Class(r) : r \in rows} = {Class(r) : r \in rows \ O} \cup {O}
  BY <1>8
<1> QED BY <1>3, <1>6, <1>7, <1>9 DEF O

\* The rows the loop has passed, those of them that are small, and the requests
\* as the plan has them.
RowsBefore(n) == {r \in Row : r.id < n}
Large         == {r \in Row : Exceeds(r.id)}
Small(n)      == RowsBefore(n) \ Large
RowsWith(ids) == {[id |-> i] : i \in ids}
Planned(rows, oversize) == [rows |-> rows, is_oversize |-> oversize]
Plan == {Planned(req.rows, req.is_oversize) : req \in request_futures}

\* After each turn of the loop: what was sent is every large row alone and the
\* closed groups of the small ones; what is collected is the open group.
LoopInv(heads) ==
  /\ \A h \in heads : h.id < next
  /\ RowsWith(row_ids) = OpenGroup(Small(next), heads)
  /\ Plan = {Planned({r}, TRUE) : r \in RowsBefore(next) \cap Large}
              \cup {Planned(g, FALSE) : g \in ClosedGroups(Small(next), heads)}

PlanInv ==
  /\ payloads_size = 0 <=> row_ids = {}
  /\ next <= N + 1 => \E heads \in SUBSET Row : LoopInv(heads)
  /\ PlanIsSendPlan

LEMMA RowsAre ==
  ASSUME NEW n \in 1..N
  PROVE  /\ [id |-> n] \in Row
         /\ RowsBefore(n + 1) = RowsBefore(n) \cup {[id |-> n]}
         /\ \A r \in Row : r.id \in 1..N
<1>1. \A r \in Row : r.id \in 1..N /\ (r.id = n => r = [id |-> n])
  BY DEF Row
<1>2. [id |-> n] \in Row /\ [id |-> n].id = n
  BY DEF Row
<1>3. \A r \in Row : r.id < n + 1 <=> r.id < n \/ r.id = n
  BY <1>1
<1> QED BY <1>1, <1>2, <1>3 DEF RowsBefore

LEMMA PlanInit ==
  ASSUME next = 1, row_ids = {}, payloads_size = 0, request_futures = {}
  PROVE  PlanInv
<1>1. RowsBefore(next) = {}
  BY DEF RowsBefore, Row
<1>2. LoopInv({})
  BY <1>1 DEF LoopInv, Small, OpenGroup, ClosedGroups, Plan, RowsWith
<1>3. ~Done
  BY PostBatchingAssumption DEF PostBatchingAssumption, Done
<1> QED BY <1>2, <1>3 DEF PlanInv, PlanIsSendPlan

\* A request started is one more in the plan.
LEMMA PlanGrows ==
  ASSUME NEW ids, NEW oversize, NEW body,
         request_futures' = request_futures \cup {Post(ids, oversize, body)}
  PROVE  Plan' = Plan \cup {Planned(RowsWith(ids), oversize)}
<1>1. /\ Post(ids, oversize, body).rows = RowsWith(ids)
      /\ Post(ids, oversize, body).is_oversize = oversize
  BY DEF Post, RowsWith
<1> QED BY <1>1 DEF Plan

\* The three turns of the loop.
LEMMA PlanTurn ==
  ASSUME SizeInv, PlanInv, SendAlone \/ SendCollected \/ Collect
  PROVE  PlanInv'
<1> PICK x : x = [id |-> next]
  OBVIOUS
<1>1. /\ next \in 1..N /\ next' = next + 1 /\ payload_size' = payload_size
      /\ N \in Nat
  BY PostBatchingAssumption DEF PostBatchingAssumption, SendAlone, SendCollected, Collect
<1>2. PICK heads \in SUBSET Row : LoopInv(heads)
  BY <1>1 DEF PlanInv
<1>3. /\ x \in Row /\ x.id = next
      /\ RowsBefore(next)' = RowsBefore(next) \cup {x}
      /\ \A r \in Row : r.id \in Int
      /\ \A r \in Small(next) \cup heads : r \in Row /\ r.id < next
  <2>1. RowsBefore(next + 1) = RowsBefore(next)'
    BY <1>1 DEF RowsBefore
  <2>2. \A r \in Row : r.id \in 1..N
    BY <1>1, RowsAre
  <2>3. \A r \in Small(next) \cup heads : r \in Row /\ r.id < next
    BY <1>2 DEF LoopInv, Small, RowsBefore
  <2> QED BY <1>1, <2>1, <2>2, <2>3, RowsAre
<1>4. Large' = Large /\ (x \in Large <=> Exceeds(next))
  BY <1>1, <1>3 DEF Large, Exceeds, ByteSize
<1>5. ~Done'
  BY <1>1 DEF Done
<1>6. next' <= N + 1 /\ \A h \in heads \cup {x} : h.id < next'
  BY <1>1, <1>3
<1>7. CASE SendAlone
  <2>1. Exceeds(next) /\ UNCHANGED <<row_ids, payloads_size>>
    BY <1>7 DEF SendAlone
  <2>2. Small(next)' = Small(next)
    BY <1>3, <1>4, <2>1 DEF Small
  <2>3. Plan' = Plan \cup {Planned({x}, TRUE)}
    <3>1. RowsWith({next}) = {x}
      BY DEF RowsWith
    <3> QED BY <1>7, <3>1, PlanGrows DEF SendAlone
  <2>4. (RowsBefore(next) \cap Large)' = (RowsBefore(next) \cap Large) \cup {x}
    BY <1>3, <1>4, <2>1
  <2>5. RowsWith(row_ids)' = RowsWith(row_ids)
    BY <2>1 DEF RowsWith
  <2>6. LoopInv(heads)'
    BY <1>2, <1>6, <2>2, <2>3, <2>4, <2>5 DEF LoopInv
  <2> QED BY <1>5, <2>1, <2>6 DEF PlanInv, PlanIsSendPlan
<1>8. CASE Collect
  <2>1. /\ ~Exceeds(next) /\ row_ids' = row_ids \cup {next}
        /\ payloads_size' = payloads_size + 1 /\ request_futures' = request_futures
    BY <1>8 DEF Collect
  <2>2. Small(next)' = Small(next) \cup {x}
    BY <1>3, <1>4, <2>1 DEF Small
  <2>3. HeadsOf(heads, x) = heads
    BY <1>1, <1>3 DEF HeadsOf
  <2>4. /\ OpenGroup(Small(next), heads)' = OpenGroup(Small(next), heads) \cup {x}
        /\ ClosedGroups(Small(next), heads)' = ClosedGroups(Small(next), heads)
    <3>1. /\ OpenGroup(Small(next) \cup {x}, heads) = OpenGroup(Small(next), heads) \cup {x}
          /\ ClosedGroups(Small(next) \cup {x}, heads) = ClosedGroups(Small(next), heads)
      <4> PICK S : S = Small(next)
        OBVIOUS
      <4>1. /\ OpenGroup(S \cup {x}, heads) = OpenGroup(S, heads) \cup {x}
            /\ ClosedGroups(S \cup {x}, heads) = ClosedGroups(S, heads)
        BY <2>3, RowJoins
      <4> QED BY <4>1
    <3> QED BY <2>2, <3>1
  <2>5. RowsWith(row_ids)' = RowsWith(row_ids) \cup {x}
    BY <2>1 DEF RowsWith
  <2>6. Plan' = Plan
    BY <2>1 DEF Plan
  <2>7. (RowsBefore(next) \cap Large)' = RowsBefore(next) \cap Large
    BY <1>3, <1>4, <2>1
  <2>8. LoopInv(heads)'
    BY <1>2, <1>6, <2>4, <2>5, <2>6, <2>7 DEF LoopInv
  <2>9. payloads_size' # 0 /\ row_ids' # {}
    BY <2>1 DEF SizeInv
  <2> QED BY <1>5, <2>8, <2>9 DEF PlanInv, PlanIsSendPlan
<1>9. CASE SendCollected
  <2>1. /\ ~Exceeds(next) /\ LimitReached(next) /\ row_ids' = {next} /\ payloads_size' = 1
        /\ request_futures' = request_futures \cup {Post(row_ids, FALSE, body_size)}
    BY <1>9 DEF SendCollected
  <2>2. Small(next)' = Small(next) \cup {x}
    BY <1>3, <1>4, <2>1 DEF Small
  <2>3. RowsWith(row_ids) # {}
    <3>1. payloads_size # 0
      BY <1>1, <2>1, NothingCollectedNothingSent DEF SizeInv
    <3> QED BY <3>1 DEF PlanInv, RowsWith
  <2>4. OpenGroup(Small(next), heads) = RowsWith(row_ids)
    BY <1>2 DEF LoopInv
  <2>5. /\ OpenGroup(Small(next), heads \cup {x})' = {x}
        /\ ClosedGroups(Small(next), heads \cup {x})'
             = ClosedGroups(Small(next), heads) \cup {RowsWith(row_ids)}
    <3>1. \A r \in Small(next) \cup heads : r.id \in Int /\ r.id < x.id
      BY <1>3
    <3>2. x.id \in Int
      BY <1>1, <1>3
    <3>3. /\ OpenGroup(Small(next) \cup {x}, heads \cup {x}) = {x}
          /\ ClosedGroups(Small(next) \cup {x}, heads \cup {x})
               = ClosedGroups(Small(next), heads) \cup {RowsWith(row_ids)}
      BY <2>3, <2>4, <3>1, <3>2, RowBegins
    <3> QED BY <2>2, <3>3
  <2>6. RowsWith(row_ids)' = {x}
    BY <2>1 DEF RowsWith
  <2>7. Plan' = Plan \cup {Planned(RowsWith(row_ids), FALSE)}
    BY <2>1, PlanGrows
  <2>8. (RowsBefore(next) \cap Large)' = RowsBefore(next) \cap Large
    BY <1>3, <1>4, <2>1
  <2>9. LoopInv(heads \cup {x})'
    BY <1>2, <1>6, <2>5, <2>6, <2>7, <2>8 DEF LoopInv
  <2>10. heads \cup {x} \in SUBSET Row
    BY <1>3
  <2>11. payloads_size' # 0 /\ row_ids' # {}
    BY <2>1
  <2> QED BY <1>5, <2>9, <2>10, <2>11 DEF PlanInv, PlanIsSendPlan
<1> QED BY <1>7, <1>8, <1>9

\* After the loop the open group, if there is one, is sent too.
LEMMA PlanEnd ==
  ASSUME SizeInv, PlanInv, SendRest
  PROVE  PlanInv'
<1>1. /\ next = N + 1 /\ next' = N + 2 /\ N \in Nat
      /\ UNCHANGED <<payload_size, row_ids, payloads_size>>
  BY PostBatchingAssumption DEF PostBatchingAssumption, SendRest
<1>2. PICK heads \in SUBSET Row : LoopInv(heads)
  BY <1>1 DEF PlanInv
<1>3. RowsBefore(next) = Row
  <2>1. \A r \in Row : r.id \in 1..N
    BY DEF Row
  <2>2. \A r \in Row : r.id < next
    BY <1>1, <2>1
  <2> QED BY <2>2 DEF RowsBefore
<1>4. Large' = Large /\ Large \subseteq Row
  BY <1>1 DEF Large, Exceeds, ByteSize
<1>5. Small(next) = Row \ Large
  BY <1>3 DEF Small
<1> DEFINE open == OpenGroup(Row \ Large, heads)
           rest == {g \in {open} : g # {}}
<1>6. Plan' = Plan \cup {Planned(g, FALSE) : g \in rest}
  <2>1. RowsWith(row_ids) = open
    BY <1>2, <1>5 DEF LoopInv
  <2>2. payloads_size > 0 <=> open # {}
    <3>1. payloads_size > 0 <=> row_ids # {}
      BY DEF PlanInv, SizeInv
    <3>2. row_ids = {} <=> RowsWith(row_ids) = {}
      BY DEF RowsWith
    <3> HIDE DEF open
    <3> QED BY <2>1, <3>1, <3>2
  <2> HIDE DEF open
  <2>3. CASE payloads_size > 0
    <3>1. Plan' = Plan \cup {Planned(open, FALSE)}
      BY <2>1, <2>3, PlanGrows DEF SendRest
    <3>2. rest = {open}
      BY <2>2, <2>3
    <3> QED BY <3>1, <3>2
  <2>4. CASE ~(payloads_size > 0)
    <3>1. Plan' = Plan
      BY <2>4 DEF SendRest, Plan
    <3>2. rest = {}
      BY <2>2, <2>4
    <3> QED BY <3>1, <3>2
  <2> QED BY <2>3, <2>4
<1>7. Groups(Row \ Large, heads) = ClosedGroups(Row \ Large, heads) \cup rest
  BY GroupsAreOpenOrClosed
<1>8. Plan = {Planned({r}, TRUE) : r \in Large}
              \cup {Planned(g, FALSE) : g \in ClosedGroups(Row \ Large, heads)}
  BY <1>2, <1>3, <1>4, <1>5 DEF LoopInv
<1> HIDE DEF rest
<1>9. Plan' = {Planned({r}, TRUE) : r \in Large}
               \cup {Planned(g, FALSE) : g \in Groups(Row \ Large, heads)}
  BY <1>6, <1>7, <1>8
<1>10. Plan' = PostPlan(Row, Large', heads)
  BY <1>4, <1>9 DEF PostPlan, Planned
<1>11. PlanIsSendPlan'
  BY <1>10 DEF PlanIsSendPlan, Plan, Planned, Large
<1> QED BY <1>1, <1>11 DEF PlanInv

LEMMA PlanStep == SizeInv /\ PlanInv /\ [RoundNext]_roundVars => PlanInv'
<1> SUFFICES ASSUME SizeInv, PlanInv, [RoundNext]_roundVars PROVE PlanInv'
  OBVIOUS
<1>1. CASE DoSend
  BY <1>1, PlanTurn, PlanEnd DEF DoSend, Next
<1>2. CASE Classify \/ UNCHANGED roundVars
  <2>1. UNCHANGED vars
    BY <1>2 DEF Classify, roundVars
  <2>2. UNCHANGED <<Plan, Large, Small(next), RowsBefore(next)>> /\ (Done' <=> Done)
    BY <2>1 DEF vars, Plan, Large, Small, RowsBefore, Exceeds, ByteSize, Done
  <2>3. PlanIsSendPlan'
    BY <2>1 DEF PlanInv, PlanIsSendPlan, vars, Done, Exceeds, ByteSize
  <2>4. ASSUME NEW heads \in SUBSET Row, LoopInv(heads)
        PROVE  LoopInv(heads)'
    <3>1. /\ next' = next /\ RowsWith(row_ids)' = RowsWith(row_ids)
          /\ OpenGroup(Small(next), heads)' = OpenGroup(Small(next), heads)
          /\ ClosedGroups(Small(next), heads)' = ClosedGroups(Small(next), heads)
      BY <2>1, <2>2 DEF vars
    <3> QED BY <2>2, <2>4, <3>1 DEF LoopInv
  <2> QED BY <2>1, <2>3, <2>4 DEF PlanInv, vars
<1>3. CASE Sleep
  <2>1. next' = 1 /\ row_ids' = {} /\ payloads_size' = 0 /\ request_futures' = {}
    BY <1>3 DEF Sleep
  <2>2. RowsBefore(next)' = {}
    BY <2>1 DEF RowsBefore, Row
  <2>3. LoopInv({})'
    BY <2>1, <2>2 DEF LoopInv, Small, OpenGroup, ClosedGroups, Plan, RowsWith
  <2>4. ~Done'
    BY <2>1, PostBatchingAssumption DEF PostBatchingAssumption, Done
  <2> QED BY <2>1, <2>3, <2>4 DEF PlanInv, PlanIsSendPlan
<1> QED BY <1>1, <1>2, <1>3 DEF RoundNext

\* However the sizes of the payloads fall, the loop ends with a plan as Emitter
\* assumes one: every row in one request, those over the limit alone and marked
\* oversize, the others in consecutive groups.
THEOREM LoopMakesAPlan == RoundSpec => []PlanIsSendPlan
<1>1. RoundInit => PlanInv
  BY PlanInit DEF RoundInit, Init
<1>2. PlanInv => PlanIsSendPlan
  BY DEF PlanInv
<1> QED BY <1>1, <1>2, SizeInit, SizeStep, PlanStep, PTL DEF RoundSpec
(***************************************************************************)
(* Needless splits                                                         *)
(***************************************************************************)
\* The requests sent so far that are not oversize.
Within == {req \in request_futures : ~req.is_oversize}

\* The rows collected come after those sent, and the first of them would have
\* taken the request sent last over the limit.
HeadInv ==
  next <= N + 1 =>
    /\ row_ids = {} => Within = {}
    /\ \A a \in Within : \A r \in a.rows, i \in row_ids : r.id < i
    /\ row_ids # {} =>
         \E h \in row_ids :
           /\ \A i \in row_ids : h <= i
           /\ \A a \in Within :
                (~\E c \in Within : Before(a, c)) => a.body + 1 + ByteSize(h) > ByteLimitPost

SplitInv ==
  /\ payloads_size = 0 <=> row_ids = {}
  /\ row_ids \subseteq 1..N /\ \A i \in row_ids : i < next
  /\ \A a \in Within : a.rows # {} /\ \A r \in a.rows : r.id \in 1..N /\ r.id < next
  /\ HeadInv
  /\ NoNeedlessSplit

LEMMA RowsOfPost ==
  ASSUME NEW ids, NEW bytes
  PROVE  LET req == Post(ids, FALSE, bytes)
         IN  /\ \A r \in req.rows : r.id \in ids
             /\ \A i \in ids : \E r \in req.rows : r.id = i
             /\ req.body = bytes /\ ~req.is_oversize
<1>1. \A i \in ids : [id |-> i] \in {[id |-> j] : j \in ids} /\ [id |-> i].id = i
  OBVIOUS
<1>2. \A r \in {[id |-> j] : j \in ids} : r.id \in ids
  OBVIOUS
<1> QED BY <1>1, <1>2 DEF Post

\* What is collected is sent: it comes after every other request.
LEMMA SplitSend ==
  ASSUME SizeInv, SplitInv, next <= N + 1, row_ids # {},
         request_futures' = request_futures \cup {Post(row_ids, FALSE, body_size)},
         payload_size' = payload_size
  PROVE  /\ Within' = Within \cup {Post(row_ids, FALSE, body_size)}
         /\ \A a \in Within : Before(a, Post(row_ids, FALSE, body_size))
         /\ Post(row_ids, FALSE, body_size).body = body_size
         /\ \A a \in Within' : a.rows # {} /\ \A r \in a.rows : r.id \in 1..N /\ r.id < next
         /\ NoNeedlessSplit'
<1> DEFINE last == Post(row_ids, FALSE, body_size)
<1>1. /\ \A r \in last.rows : r.id \in row_ids
      /\ \A i \in row_ids : \E r \in last.rows : r.id = i
      /\ last.body = body_size /\ ~last.is_oversize
  BY RowsOfPost
<1> HIDE DEF last
<1>0. request_futures' = request_futures \cup {last}
  BY DEF last
<1>2. Within' = Within \cup {last}
  BY <1>0, <1>1 DEF Within
<1>3. \A a \in Within : Before(a, last)
  BY <1>1 DEF SplitInv, HeadInv, Before
<1>4. ASSUME NEW a \in Within \cup {last} PROVE ~Before(last, a)
  <2>1. CASE a = last
    <3> PICK r \in last.rows : r.id \in 1..N
      BY <1>1 DEF SplitInv
    <3>1. ~(r.id < r.id)
      OBVIOUS
    <3> QED BY <2>1, <3>1 DEF Before
  <2>2. CASE a \in Within
    <3> PICK r \in a.rows : r.id \in 1..N
      BY <2>2 DEF SplitInv
    <3> PICK q \in last.rows : q.id \in row_ids /\ q.id \in 1..N
      BY <1>1 DEF SplitInv
    <3>1. r.id < q.id
      BY <2>2 DEF SplitInv, HeadInv
    <3>2. ~(q.id < r.id)
      BY <3>1
    <3> QED BY <3>2 DEF Before
  <2> QED BY <2>1, <2>2
<1>5. ASSUME NEW a \in Within', NEW b \in Within', Before(a, b),
             ~\E c \in Within' : Before(a, c) /\ Before(c, b)
      PROVE  \E r \in b.rows : /\ \A q \in b.rows : r.id <= q.id
                               /\ a.body + 1 + ByteSize(r.id) > ByteLimitPost
  <2>1. a \in Within
    BY <1>2, <1>4, <1>5
  <2>2. CASE b \in Within
    <3>1. ~\E c \in Within : Before(a, c) /\ Before(c, b)
      BY <1>2, <1>5
    <3> QED BY <2>1, <2>2, <3>1, <1>5 DEF SplitInv, NoNeedlessSplit, Within
  <2>3. CASE b = last
    <3>1. ~\E c \in Within : Before(a, c)
      BY <1>2, <1>3, <1>5, <2>3
    <3> PICK h \in row_ids : /\ \A i \in row_ids : h <= i
                             /\ a.body + 1 + ByteSize(h) > ByteLimitPost
      BY <2>1, <3>1 DEF SplitInv, HeadInv
    <3> PICK r \in last.rows : r.id = h
      BY <1>1
    <3> QED BY <1>1, <2>3
  <2> QED BY <1>2, <2>2, <2>3
<1>6. NoNeedlessSplit'
  <2>1. Within' = {req \in request_futures' : ~req.is_oversize}
    BY DEF Within
  <2> SUFFICES ASSUME NEW a \in Within', NEW b \in Within', Before(a, b),
                      ~\E c \in Within' : Before(a, c) /\ Before(c, b)
               PROVE  \E r \in b.rows : /\ \A q \in b.rows : r.id <= q.id
                                        /\ a.body + 1 + ByteSize(r.id)' > ByteLimitPost
    BY <2>1 DEF NoNeedlessSplit
  <2> QED BY <1>5 DEF ByteSize
<1>7. last.rows # {} /\ \A r \in last.rows : r.id \in 1..N /\ r.id < next
  BY <1>1 DEF SplitInv
<1>8. \A a \in Within' : a.rows # {} /\ \A r \in a.rows : r.id \in 1..N /\ r.id < next
  BY <1>2, <1>7 DEF SplitInv
<1> QED BY <1>1, <1>2, <1>3, <1>6, <1>8 DEF last

LEMMA SplitLoop ==
  ASSUME SizeInv, SplitInv, Next
  PROVE  SplitInv'
<1> USE PostBatchingAssumption DEF PostBatchingAssumption
<1>0. next \in Nat /\ payloads_size \in Nat
  BY DEF SizeInv
<1>a. payload_size' = payload_size => \A i : ByteSize(i)' = ByteSize(i)
  BY DEF ByteSize
<1>1. CASE SendAlone
  <2>1. Within' = Within
    BY <1>1 DEF SendAlone, Within, Post
  <2>2. /\ next \in 1..N /\ next' = next + 1
        /\ UNCHANGED <<payload_size, row_ids, payloads_size>>
    BY <1>1 DEF SendAlone
  <2>3. HeadInv'
    BY <1>a, <2>1, <2>2 DEF SplitInv, HeadInv
  <2>4. NoNeedlessSplit'
    BY <1>a, <2>1, <2>2 DEF SplitInv, NoNeedlessSplit, Within
  <2> QED BY <2>1, <2>2, <2>3, <2>4 DEF SplitInv
<1>2. CASE SendCollected
  <2>1. /\ next \in 1..N /\ ~Exceeds(next) /\ LimitReached(next)
        /\ request_futures' = request_futures \cup {Post(row_ids, FALSE, body_size)}
        /\ row_ids' = {next} /\ payloads_size' = 1
        /\ next' = next + 1 /\ payload_size' = payload_size
    BY <1>2 DEF SendCollected
  <2>2. payloads_size > 0
    BY <2>1, NothingCollectedNothingSent
  <2>3. row_ids # {} /\ next <= N + 1
    BY <1>0, <2>1, <2>2 DEF SplitInv
  <2> DEFINE last == Post(row_ids, FALSE, body_size)
  <2>4. /\ Within' = Within \cup {last}
        /\ \A a \in Within : Before(a, last)
        /\ NoNeedlessSplit'
    BY <2>1, <2>3, SplitSend
  <2>5. last.body = body_size
    BY <2>1, <2>3, SplitSend
  <2>6. \A a \in Within' : a.rows # {} /\ \A r \in a.rows : r.id \in 1..N /\ r.id < next
    BY <2>1, <2>3, SplitSend
  <2> HIDE DEF last
  <2>7. body_size + 1 + ByteSize(next) > ByteLimitPost
    BY <2>1, <2>2, ByteSizes DEF SizeInv, LimitReached, post_wrapper_bytes
  <2>8. \A a \in Within' :
          (~\E c \in Within' : Before(a, c)) => a.body + 1 + ByteSize(next) > ByteLimitPost
    BY <2>4, <2>5, <2>7
  <2>9. HeadInv'
    BY <1>a, <2>1, <2>6, <2>8 DEF HeadInv
  <2>10. \A a \in Within' : a.rows # {} /\ \A r \in a.rows : r.id \in 1..N /\ r.id < next'
    BY <2>1, <2>6
  <2> QED BY <2>1, <2>4, <2>9, <2>10 DEF SplitInv
<1>3. CASE Collect
  <2>1. /\ next \in 1..N /\ next' = next + 1
        /\ UNCHANGED <<payload_size, request_futures>>
        /\ row_ids' = row_ids \cup {next} /\ payloads_size' = payloads_size + 1
    BY <1>3 DEF Collect
  <2>2. Within' = Within
    BY <2>1 DEF Within
  <2>3. \A a \in Within : \A r \in a.rows, i \in row_ids' : r.id < i
    BY <1>0, <2>1 DEF SplitInv, HeadInv
  <2>4. \E h \in row_ids' :
          /\ \A i \in row_ids' : h <= i
          /\ \A a \in Within :
               (~\E c \in Within : Before(a, c)) => a.body + 1 + ByteSize(h) > ByteLimitPost
    <3>1. CASE row_ids = {}
      BY <1>0, <2>1, <3>1 DEF SplitInv, HeadInv
    <3>2. CASE row_ids # {}
      <4> PICK h \in row_ids :
            /\ \A i \in row_ids : h <= i
            /\ \A a \in Within :
                 (~\E c \in Within : Before(a, c)) => a.body + 1 + ByteSize(h) > ByteLimitPost
        BY <1>0, <2>1, <3>2 DEF SplitInv, HeadInv
      <4>1. h <= next /\ h \in row_ids'
        BY <1>0, <2>1 DEF SplitInv
      <4>2. \A i \in row_ids' : h <= i
        BY <2>1, <4>1
      <4> QED BY <4>1, <4>2
    <3> QED BY <3>1, <3>2
  <2>5. HeadInv'
    BY <1>a, <2>1, <2>2, <2>3, <2>4 DEF HeadInv
  <2>6. NoNeedlessSplit'
    BY <1>a, <2>1, <2>2 DEF SplitInv, NoNeedlessSplit, Within
  <2>7. \A i \in row_ids' : i \in 1..N /\ i < next'
    BY <1>0, <2>1 DEF SplitInv
  <2>8. \A a \in Within : a.rows # {} /\ \A r \in a.rows : r.id \in 1..N /\ r.id < next'
    BY <2>1 DEF SplitInv
  <2> QED BY <1>0, <2>1, <2>2, <2>5, <2>6, <2>7, <2>8 DEF SplitInv
<1>4. CASE SendRest
  <2>1. /\ next = N + 1 /\ next' = N + 2
        /\ UNCHANGED <<payload_size, row_ids, payloads_size>>
    BY <1>4 DEF SendRest
  <2>2. HeadInv'
    BY <2>1 DEF HeadInv
  <2>3. /\ NoNeedlessSplit'
        /\ \A a \in Within' : a.rows # {} /\ \A r \in a.rows : r.id \in 1..N
    <3>1. CASE payloads_size > 0
      <4>1. request_futures' = request_futures \cup {Post(row_ids, FALSE, body_size)}
        BY <1>4, <3>1 DEF SendRest
      <4>2. row_ids # {} /\ next <= N + 1
        BY <2>1, <3>1 DEF SplitInv
      <4> QED BY <2>1, <4>1, <4>2, SplitSend
    <3>2. CASE ~(payloads_size > 0)
      <4>1. request_futures' = request_futures
        BY <1>4, <3>2 DEF SendRest
      <4> QED BY <1>a, <2>1, <4>1 DEF SplitInv, NoNeedlessSplit, Within
    <3> QED BY <3>1, <3>2
  <2>4. \A i \in 1..N : i < next'
    BY <2>1
  <2> QED BY <2>1, <2>2, <2>3, <2>4 DEF SplitInv
<1> QED BY <1>1, <1>2, <1>3, <1>4 DEF Next

LEMMA SplitStep == SizeInv /\ SplitInv /\ [RoundNext]_roundVars => SplitInv'
<1> SUFFICES ASSUME SizeInv, SplitInv, [RoundNext]_roundVars PROVE SplitInv'
  OBVIOUS
<1>1. CASE DoSend
  BY <1>1, SplitLoop DEF DoSend
<1>2. CASE Classify \/ UNCHANGED roundVars
  <2>1. UNCHANGED vars
    BY <1>2 DEF Classify, roundVars
  <2> QED BY <2>1 DEF vars, SplitInv, HeadInv, NoNeedlessSplit, Within, ByteSize
<1>3. CASE Sleep
  <2>1. next' = 1 /\ row_ids' = {} /\ payloads_size' = 0 /\ request_futures' = {}
    BY <1>3 DEF Sleep
  <2> QED BY <2>1 DEF SplitInv, HeadInv, NoNeedlessSplit, Within
<1> QED BY <1>1, <1>2, <1>3 DEF RoundNext

\* Whatever the sizes, a request is closed only when the next row would have
\* taken it over the limit.
THEOREM SplitsAreNeeded == RoundSpec => []NoNeedlessSplit
<1>1. RoundInit => SplitInv
  BY DEF RoundInit, Init, SplitInv, HeadInv, NoNeedlessSplit, Within
<1>2. SplitInv => NoNeedlessSplit
  BY DEF SplitInv
<1> QED BY <1>1, <1>2, SizeInit, SizeStep, SplitStep, PTL DEF RoundSpec

(***************************************************************************)
(* The delay between rounds                                                *)
(***************************************************************************)
\* Pow is the function its definition describes.
LEMMA PowEquation ==
  /\ Pow \in [Nat -> Nat]
  /\ Pow[0] = 1
  /\ \A n \in Nat \ {0} : Pow[n] = Factor * Pow[n - 1]
<1> DEFINE h == [p \in Nat \X Nat |-> Factor * p[2]]
           Equation(f) == f = [k \in Nat |-> IF k = 0 THEN 1 ELSE Factor * f[k - 1]]
<1>0. \A i \in Nat : Factor * i \in Nat
  BY RetryDelayAssumption DEF RetryDelayAssumption
<1>1. h \in [Nat \X Nat -> Nat] /\ \A i, j \in Nat : h[<<i, j>>] = Factor * j
  BY <1>0
<1> HIDE DEF h
<1>2. PICK f : Recursive(f, Nat, 1, h)
  <2>1. 1 \in Nat
    OBVIOUS
  <2> QED BY <1>1, <2>1, PrimitiveRecursion
<1>3. f \in [Nat -> Nat]
  BY <1>2 DEF Recursive
<1>4. ASSUME NEW k \in Nat
      PROVE  f[k] = IF k = 0 THEN 1 ELSE Factor * f[k - 1]
  <2>1. k # 0 => f[k] = h[<<k, f[k - 1]>>] /\ f[k - 1] \in Nat
    BY <1>2 DEF Recursive
  <2> QED BY <1>1, <1>2, <2>1 DEF Recursive
<1>5. Equation(f)
  BY <1>3, <1>4
<1>6. Equation(Pow)
  BY <1>5 DEF Pow
<1>7. /\ Pow[0] = 1
      /\ \A n \in Nat \ {0} : Pow[n] = Factor * Pow[n - 1]
  BY <1>6
<1> DEFINE S == {n \in Nat : Pow[n] \in Nat}
<1>8. 0 \in S
  BY <1>7
<1>9. ASSUME NEW n \in Nat, n \in S PROVE n + 1 \in S
  <2>1. Pow[n + 1] = Factor * Pow[(n + 1) - 1] /\ (n + 1) - 1 = n
    BY <1>7
  <2> QED BY <1>0, <1>9, <2>1
<1> HIDE DEF S
<1>10. Nat \subseteq S
  BY <1>8, <1>9, InductiveSet
<1>11. \A n \in Nat : Pow[n] \in Nat
  BY <1>10 DEF S
<1> QED BY <1>6, <1>7, <1>11

\* Documented is the function its definition describes.
LEMMA DocumentedEquation ==
  ASSUME NEW n \in Nat
  PROVE  Documented[n] = IF n <= 1 THEN Base * n
                         ELSE IF n > RetryCountCap THEN Documented[n - 1]
                         ELSE Factor * Documented[n - 1]
<1> DEFINE Step(k, d) == IF k <= 1 THEN Base * k
                         ELSE IF k > RetryCountCap THEN d ELSE Factor * d
           h == [p \in Nat \X Nat |-> Step(p[1], p[2])]
           Equation(f) == f = [k \in Nat |-> IF k <= 1 THEN Base * k
                                             ELSE IF k > RetryCountCap THEN f[k - 1]
                                             ELSE Factor * f[k - 1]]
<1>0. /\ \A i \in Nat : Factor * i \in Nat /\ Base * i \in Nat
      /\ Base * 0 = 0
  BY RetryDelayAssumption DEF RetryDelayAssumption
<1>1. h \in [Nat \X Nat -> Nat] /\ \A i, j \in Nat : h[<<i, j>>] = Step(i, j)
  BY <1>0
<1> HIDE DEF h
<1>2. PICK f : Recursive(f, Nat, 0, h)
  <2>1. 0 \in Nat
    OBVIOUS
  <2> QED BY <1>1, <2>1, PrimitiveRecursion
<1>3. f \in [Nat -> Nat]
  BY <1>2 DEF Recursive
<1>4. ASSUME NEW k \in Nat
      PROVE  f[k] = IF k <= 1 THEN Base * k
                    ELSE IF k > RetryCountCap THEN f[k - 1] ELSE Factor * f[k - 1]
  <2>1. CASE k = 0
    BY <1>0, <1>2, <2>1 DEF Recursive
  <2>2. CASE k # 0
    <3>1. f[k] = h[<<k, f[k - 1]>>] /\ f[k - 1] \in Nat
      BY <1>2, <2>2 DEF Recursive
    <3> QED BY <1>1, <3>1
  <2> QED BY <2>1, <2>2
<1>5. Equation(f)
  BY <1>3, <1>4
<1>6. Equation(Documented)
  BY <1>5 DEF Documented
<1> QED BY <1>6

\* The delay before the jitter, of n failures in a row.
Growth(n) == IF n = 0 THEN 0 ELSE Base * Pow[Exponent(n)]

LEMMA PowGrows ==
  ASSUME NEW i \in Nat, NEW j \in Nat, i <= j
  PROVE  Pow[i] <= Pow[j] /\ Pow[i] > 0
<1> DEFINE S == {n \in Nat : Pow[n] > 0 /\ \A k \in 0..n : Pow[k] <= Pow[n]}
<1>0. Factor \in Nat \ {0}
  BY RetryDelayAssumption DEF RetryDelayAssumption
<1>1. 0 \in S
  BY PowEquation
<1>2. ASSUME NEW n \in Nat, n \in S PROVE n + 1 \in S
  <2>1. /\ Pow[n + 1] = Factor * Pow[n]
        /\ Pow[n] \in Nat \ {0} /\ Pow[n + 1] \in Nat
    <3>1. n + 1 \in Nat \ {0} /\ (n + 1) - 1 = n
      OBVIOUS
    <3> QED BY <1>2, <3>1, PowEquation
  <2>2. Pow[n] <= Pow[n + 1]
    BY <1>0, <2>1
  <2>3. ASSUME NEW k \in 0..n + 1 PROVE Pow[k] <= Pow[n + 1]
    <3>1. CASE k = n + 1
      BY <2>1, <3>1
    <3>2. CASE k \in 0..n
      <4>1. Pow[k] <= Pow[n] /\ Pow[k] \in Nat
        BY <1>2, <3>2, PowEquation
      <4> QED BY <2>1, <2>2, <4>1
    <3> QED BY <3>1, <3>2
  <2> QED BY <2>1, <2>2, <2>3
<1> HIDE DEF S
<1>3. j \in S
  BY <1>1, <1>2, InductiveSet
<1>4. i \in S
  BY <1>1, <1>2, InductiveSet
<1> QED BY <1>3, <1>4 DEF S

LEMMA ExponentRange ==
  ASSUME NEW n \in Nat \ {0}
  PROVE  Exponent(n) \in 0..RetryCountCap - 1
BY RetryDelayAssumption DEF RetryDelayAssumption, Exponent

LEMMA GrowthIsNat ==
  ASSUME NEW n \in Nat
  PROVE  Growth(n) \in Nat
<1>1. \A i \in Nat : Base * i \in Nat
  BY RetryDelayAssumption DEF RetryDelayAssumption
<1>2. n # 0 => Exponent(n) \in Nat
  BY ExponentRange, RetryDelayAssumption DEF RetryDelayAssumption
<1> QED BY <1>1, <1>2, PowEquation DEF Growth

\* The delay that the documentation describes by doubling is the one that the
\* code computes from the count.
LEMMA DocumentedIsGrowth ==
  ASSUME NEW n \in Nat
  PROVE  Documented[n] = Growth(n)
<1> DEFINE S == {k \in Nat : Documented[k] = Growth(k)}
<1>0. Base \in Nat /\ Factor \in Nat /\ RetryCountCap \in Nat \ {0}
  BY RetryDelayAssumption DEF RetryDelayAssumption
<1>1. 0 \in S
  BY <1>0, DocumentedEquation DEF Growth
<1>2. ASSUME NEW k \in Nat, k \in S PROVE k + 1 \in S
  <2>1. k + 1 \in Nat /\ (k + 1) - 1 = k
    OBVIOUS
  <2>2. Documented[k + 1] = IF k + 1 <= 1 THEN Base * (k + 1)
                            ELSE IF k + 1 > RetryCountCap THEN Documented[k]
                            ELSE Factor * Documented[k]
    BY <2>1, DocumentedEquation
  <2>3. CASE k = 0
    <3>1. Exponent(1) = 0 /\ Pow[0] = 1
      BY <1>0, PowEquation DEF Exponent
    <3> QED BY <1>0, <2>2, <2>3, <3>1 DEF Growth
  <2>4. CASE k # 0 /\ k + 1 > RetryCountCap
    <3>1. Exponent(k + 1) = Exponent(k)
      BY <1>0, <2>4 DEF Exponent
    <3> QED BY <1>2, <2>2, <2>4, <3>1 DEF Growth
  <2>5. CASE k # 0 /\ ~(k + 1 > RetryCountCap)
    <3>1. Exponent(k) = k - 1 /\ Exponent(k + 1) = k
      BY <1>0, <2>5 DEF Exponent
    <3>2. Pow[k] = Factor * Pow[k - 1] /\ Pow[k - 1] \in Nat
      BY <2>5, PowEquation
    <3>3. Factor * (Base * Pow[k - 1]) = Base * (Factor * Pow[k - 1])
      BY <1>0, <3>2
    <3>4. Growth(k) = Base * Pow[k - 1] /\ Growth(k + 1) = Base * Pow[k]
      BY <2>5, <3>1 DEF Growth
    <3> QED BY <1>2, <2>2, <2>5, <3>2, <3>3, <3>4
  <2> QED BY <2>3, <2>4, <2>5
<1> HIDE DEF S
<1>3. n \in S
  BY <1>1, <1>2, InductiveSet
<1> QED BY <1>3 DEF S

\* The jitter takes off or adds at most its share.
LEMMA DeviationBound ==
  ASSUME NEW seed \in 0..999, NEW ms \in Nat
  PROVE  /\ Deviation(seed, ms) \in Nat
         /\ 100 * Deviation(seed, ms) <= JitterPercent * ms
<1>1. PICK x \in Nat : x = JitterPercent * ms
  BY RetryDelayAssumption DEF RetryDelayAssumption
<1>2. PICK q \in Nat : q = seed * x
  BY <1>1
<1>3. seed * JitterPercent * ms = q
  BY <1>1, <1>2, RetryDelayAssumption DEF RetryDelayAssumption
<1>4. q <= 999 * x
  BY <1>1, <1>2
<1>5. q \div 100000 \in Nat /\ 100000 * (q \div 100000) <= q
  BY <1>2
<1> QED BY <1>1, <1>3, <1>4, <1>5 DEF Deviation

LEMMA DelayBounds ==
  ASSUME NEW n \in Nat, NEW seed \in Seed
  PROVE  /\ Delay(n, seed) \in Int
         /\ 100 * Delay(n, seed) <= (100 + JitterPercent) * Growth(n)
         /\ 100 * Delay(n, seed) >= (100 - JitterPercent) * Growth(n)
<1>1. JitterPercent \in 0..100 /\ seed \in 0..999
  BY RetryDelayAssumption DEF RetryDelayAssumption
<1>2. CASE n = 0
  BY <1>1, <1>2 DEF Delay, Growth
<1>3. CASE n # 0
  <2>1. PICK ms \in Nat : ms = Growth(n)
    BY GrowthIsNat
  <2>2. PICK d \in Nat : d = Deviation(seed, ms) /\ 100 * d <= JitterPercent * ms
    BY <1>1, DeviationBound
  <2>3. Delay(n, seed) = ms - d \/ Delay(n, seed) = ms + d
    BY <1>3, <2>1, <2>2 DEF Delay, Growth
  <2>4. /\ (100 + JitterPercent) * ms = 100 * ms + JitterPercent * ms
        /\ (100 - JitterPercent) * ms = 100 * ms - JitterPercent * ms
        /\ JitterPercent * ms \in Nat
    BY <1>1
  <2> QED BY <2>1, <2>2, <2>3, <2>4
<1> QED BY <1>2, <1>3

LEMMA GrowthIsCapped ==
  ASSUME NEW n \in Nat
  PROVE  Growth(n) <= Base * Pow[RetryCountCap - 1]
<1>1. RetryCountCap - 1 \in Nat /\ Base \in Nat
  BY RetryDelayAssumption DEF RetryDelayAssumption
<1>2. Pow[RetryCountCap - 1] \in Nat
  BY <1>1, PowEquation
<1>3. CASE n = 0
  BY <1>1, <1>2, <1>3 DEF Growth
<1>4. CASE n # 0
  <2>1. Exponent(n) \in Nat /\ Exponent(n) <= RetryCountCap - 1
    BY <1>1, <1>4, ExponentRange
  <2>2. Pow[Exponent(n)] \in Nat /\ Pow[Exponent(n)] <= Pow[RetryCountCap - 1]
    BY <1>1, <2>1, PowGrows, PowEquation
  <2> QED BY <1>1, <1>2, <1>4, <2>2 DEF Growth
<1> QED BY <1>3, <1>4

\* Of two counts that follow one another, the first below the cap, the second
\* makes the delay before the jitter larger by the factor.
LEMMA GrowthBelowCap ==
  ASSUME NEW n \in Nat \ {0}, n < RetryCountCap, NEW m \in Nat, m > n
  PROVE  /\ Growth(n) > 0
         /\ Growth(m) >= Factor * Growth(n)
<1>1. /\ RetryCountCap \in Nat \ {0} /\ Base \in Nat \ {0} /\ Factor \in Nat \ {0}
  BY RetryDelayAssumption DEF RetryDelayAssumption
<1>2. /\ Exponent(n) = n - 1 /\ Exponent(m) \in Nat /\ n <= Exponent(m)
  BY <1>1 DEF Exponent
<1>3. PICK x \in Nat \ {0} : x = Pow[n - 1]
  BY PowGrows, PowEquation
<1>4. PICK y \in Nat : y = Pow[Exponent(m)]
  BY <1>2, PowEquation
<1>5. Pow[n] = Factor * x /\ Pow[n] <= y
  BY <1>2, <1>3, <1>4, PowGrows, PowEquation
<1>6. Base * (Factor * x) <= Base * y
  BY <1>1, <1>3, <1>4, <1>5
<1>7. Base * (Factor * x) = Factor * (Base * x) /\ Base * x > 0
  BY <1>1, <1>3
<1> QED BY <1>2, <1>3, <1>4, <1>6, <1>7 DEF Growth

\* What get() returned is the delay of the count it was called with.
DelayInv ==
  /\ m_retry_count \in Nat
  /\ delay_count \in Nat
  /\ \/ delay_count = 0 /\ delay = 0
     \/ \E seed \in Seed : delay = Delay(delay_count, seed)

LEMMA DelayBetween ==
  ASSUME DelayInv
  PROVE  /\ delay \in Int
         /\ 100 * delay <= (100 + JitterPercent) * Growth(delay_count)
         /\ 100 * delay >= (100 - JitterPercent) * Growth(delay_count)
<1>1. CASE delay_count = 0 /\ delay = 0
  BY <1>1, RetryDelayAssumption DEF RetryDelayAssumption, Growth
<1>2. CASE \E seed \in Seed : delay = Delay(delay_count, seed)
  BY <1>2, DelayBounds DEF DelayInv
<1> QED BY <1>1, <1>2 DEF DelayInv

LEMMA DelayInitially == RoundInit => DelayInv
BY DEF RoundInit, DelayInit, DelayInv

LEMMA DelayStep == DelayInv /\ [RoundNext]_roundVars => DelayInv'
<1> SUFFICES ASSUME DelayInv, [RoundNext]_roundVars PROVE DelayInv'
  OBVIOUS
<1>1. CASE DoSend \/ UNCHANGED roundVars
  <2>1. UNCHANGED <<m_retry_count, delay, delay_count>>
    BY <1>1 DEF DoSend, roundVars, delayVars
  <2> QED BY <2>1 DEF DelayInv
<1>2. CASE Classify
  BY <1>2 DEF Classify, WillRetryEmit, WontRetryEmit, DelayInv
<1>3. CASE Sleep
  <2>1. PICK seed \in Seed : /\ delay' = Delay(m_retry_count, seed)
                             /\ delay_count' = m_retry_count
                             /\ UNCHANGED m_retry_count
    BY <1>3 DEF Sleep, Get
  <2> QED BY <2>1 DEF DelayInv
<1> QED BY <1>1, <1>2, <1>3 DEF RoundNext

LEMMA JitterBounds == DelayInv => WithinJitter
<1> SUFFICES ASSUME DelayInv PROVE WithinJitter
  OBVIOUS
<1>1. Documented[delay_count] = Growth(delay_count) /\ Growth(delay_count) \in Nat
  BY DocumentedIsGrowth, GrowthIsNat DEF DelayInv
<1>2. PICK limit : /\ limit = Base * Pow[RetryCountCap - 1]
                   /\ Growth(delay_count) <= limit
                   /\ (100 + JitterPercent) * limit <= 12000000
  BY GrowthIsCapped, DefaultsAssumption DEF DefaultsAssumption, DelayInv, MaxDelay
<1>3. limit \in Nat
  <2>1. Base \in Nat /\ Pow[RetryCountCap - 1] \in Nat
    BY PowEquation, RetryDelayAssumption DEF RetryDelayAssumption
  <2> QED BY <1>2, <2>1
<1>4. (100 + JitterPercent) * Growth(delay_count) <= (100 + JitterPercent) * limit
  <2>1. 100 + JitterPercent \in Nat
    BY RetryDelayAssumption DEF RetryDelayAssumption
  <2>2. \A a, b, c \in Nat : a <= b => c * a <= c * b
    OBVIOUS
  <2> QED BY <1>1, <1>2, <1>3, <2>1, <2>2
<1>5. 100 * delay <= 12000000 /\ delay \in Int
  <2>1. (100 + JitterPercent) * Growth(delay_count) \in Nat
        /\ (100 + JitterPercent) * limit \in Nat
    BY <1>1, <1>3, RetryDelayAssumption DEF RetryDelayAssumption
  <2> QED BY <1>2, <1>4, <2>1, DelayBetween
<1> QED BY <1>1, <1>5, DelayBetween DEF WithinJitter, MaxDelay

\* However long requests fail and whatever the seeds, the daemon sleeps for the
\* documented delay of that many failures, give or take the jitter, and for no
\* more than two minutes.
THEOREM DelayIsDocumented == RoundSpec => []WithinJitter
BY DelayInitially, DelayStep, JitterBounds, PTL DEF RoundSpec

LEMMA DelayGrowsByStep ==
  ASSUME DelayInv, DelayInv', [RoundNext]_roundVars,
         0 < delay_count, delay_count < RetryCountCap, delay_count' > delay_count
  PROVE  delay' > delay
<1> DEFINE g == Growth(delay_count)
           h == Growth(delay_count')
<1>1. /\ delay \in Int /\ 100 * delay <= (100 + JitterPercent) * g
  BY DelayBetween
<1>2. /\ delay' \in Int /\ 100 * delay' >= (100 - JitterPercent) * h
  <2>1. CASE \E seed \in Seed : delay' = Delay(delay_count', seed)
    BY <2>1, DelayBounds DEF DelayInv
  <2>2. CASE delay_count' = 0
    BY <2>2 DEF DelayInv
  <2> QED BY <2>1, <2>2 DEF DelayInv
<1>3. /\ g \in Nat \ {0} /\ h \in Nat /\ h >= Factor * g
  <2>1. delay_count \in Nat \ {0} /\ delay_count' \in Nat
    BY DEF DelayInv
  <2> QED BY <2>1, GrowthBelowCap, GrowthIsNat
<1> HIDE DEF g, h
<1>4. /\ 100 - JitterPercent \in Nat /\ 100 + JitterPercent \in Nat /\ Factor \in Nat
      /\ (100 - JitterPercent) * Factor > 100 + JitterPercent
  BY RetryDelayAssumption, DefaultsAssumption DEF RetryDelayAssumption, DefaultsAssumption
<1>5. (100 - JitterPercent) * h > (100 + JitterPercent) * g
  <2>1. \A a, b, c \in Nat : a <= b => c * a <= c * b
    OBVIOUS
  <2>2. Factor * g \in Nat
    BY <1>3, <1>4
  <2>3. (100 - JitterPercent) * (Factor * g) <= (100 - JitterPercent) * h
    BY <1>3, <1>4, <2>1, <2>2
  <2>4. (100 - JitterPercent) * (Factor * g) = ((100 - JitterPercent) * Factor) * g
    BY <1>3, <1>4
  <2>5. \A a, b \in Nat, c \in Nat \ {0} : a > b => a * c > b * c
    OBVIOUS
  <2>6. ((100 - JitterPercent) * Factor) * g > (100 + JitterPercent) * g
    <3>1. (100 - JitterPercent) * Factor \in Nat
      BY <1>4
    <3> QED BY <1>3, <1>4, <2>5, <3>1
  <2>7. /\ (100 - JitterPercent) * (Factor * g) \in Nat /\ (100 - JitterPercent) * h \in Nat
        /\ (100 + JitterPercent) * g \in Nat
    BY <1>3, <1>4, <2>2
  <2> QED BY <2>3, <2>4, <2>6, <2>7
<1>6. (100 - JitterPercent) * h \in Nat /\ (100 + JitterPercent) * g \in Nat
  BY <1>3, <1>4
<1> QED BY <1>1, <1>2, <1>5, <1>6

\* Of two failed rounds in a row the second is followed by the longer sleep, up
\* to the cap, whatever the seeds.
THEOREM DelaysGrowProved == RoundSpec => DelaysGrow
<1>1. DelayInv /\ DelayInv' /\ [RoundNext]_roundVars =>
        [0 < delay_count /\ delay_count < RetryCountCap /\ delay_count' > delay_count =>
           delay' > delay]_roundVars
  BY DelayGrowsByStep
<1> QED BY <1>1, DelayInitially, DelayStep, PTL DEF RoundSpec, DelaysGrow
=============================================================================
