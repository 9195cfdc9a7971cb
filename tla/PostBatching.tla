--------------------------- MODULE PostBatching ----------------------------
(***************************************************************************)
(* The POST branch of Emitter::do_send: one pass over the batch that       *)
(* collects consecutive payloads into requests under the byte limit.  A    *)
(* payload is its serialised size; one action is one turn of the loop.     *)
(*                                                                         *)
(* The size arithmetic of the code is unsigned: payloads.size() - 1 wraps  *)
(* for an empty list and the sum wraps back, so over the sizes considered  *)
(* (no sum reaches 2^32) it equals the integer arithmetic used here.       *)
(***************************************************************************)
EXTENDS SendPlan, FiniteSets

CONSTANTS N,              \* the number of rows in the batch, with ids 1..N
          PayloadSize,    \* the sizes serialize_payload may return
          ByteLimitPost   \* m_byte_limit_post

ASSUME PostBatchingAssumption ==
  /\ N \in Nat
  /\ PayloadSize \subseteq Nat
  /\ ByteLimitPost \in Nat

post_wrapper_bytes == 88
post_stm_bytes     == 22

Row == [id : 1..N]

VARIABLES payload_size,     \* the size of each row's payload
          next,             \* the row the loop is at; N + 2 when it is done
          row_ids,          \* the rows collected (payloads and row_ids)
          payloads_size,    \* payloads.size()
          total_byte_size,
          body_size,        \* history: the size of the body that
                            \* build_post_data_json makes of what is collected
          request_futures   \* the requests started, each with its body size

vars == <<payload_size, next, row_ids, payloads_size, total_byte_size, body_size,
          request_futures>>

ByteSize(i) == payload_size[i] + post_stm_bytes

\* build_post_data_json: an envelope, the payloads with their stm, and a comma
\* between any two.
Envelope(byte_size) == post_wrapper_bytes + byte_size
Appended(byte_size) == IF payloads_size = 0 THEN Envelope(byte_size)
                       ELSE body_size + 1 + byte_size

Post(ids, oversize, bytes) ==
  [rows |-> {[id |-> i] : i \in ids}, is_oversize |-> oversize, body |-> bytes]

Init ==
  /\ payload_size \in [1..N -> PayloadSize]
  /\ next = 1
  /\ row_ids = {} /\ payloads_size = 0
  /\ total_byte_size = 0
  /\ body_size = 0
  /\ request_futures = {}

Exceeds(i) == ByteSize(i) + post_wrapper_bytes > ByteLimitPost

\* Faulty variant: the envelope is not counted.
LimitWithoutEnvelope(i) ==
  total_byte_size + ByteSize(i) + (payloads_size - 1) > ByteLimitPost

LimitReached(i) ==
  total_byte_size + ByteSize(i) + post_wrapper_bytes + (payloads_size - 1) > ByteLimitPost

\* A single payload has exceeded the byte limit; what was collected stays.
SendAlone ==
  /\ next \in 1..N
  /\ Exceeds(next)
  /\ request_futures' = request_futures \cup {Post({next}, TRUE, Envelope(ByteSize(next)))}
  /\ next' = next + 1
  /\ UNCHANGED <<payload_size, row_ids, payloads_size, total_byte_size, body_size>>

\* Faulty variants: the sum is not begun again; the row that did not fit any
\* more is forgotten.
SendAndAccumulate ==
  /\ next \in 1..N
  /\ ~Exceeds(next)
  /\ LimitReached(next)
  /\ request_futures' = request_futures \cup {Post(row_ids, FALSE, body_size)}
  /\ row_ids' = {next} /\ payloads_size' = 1
  /\ total_byte_size' = total_byte_size + ByteSize(next)
  /\ body_size' = Envelope(ByteSize(next))
  /\ next' = next + 1
  /\ UNCHANGED payload_size
SendAndForget ==
  /\ next \in 1..N
  /\ ~Exceeds(next)
  /\ LimitReached(next)
  /\ request_futures' = request_futures \cup {Post(row_ids, FALSE, body_size)}
  /\ row_ids' = {} /\ payloads_size' = 0
  /\ total_byte_size' = 0
  /\ body_size' = 0
  /\ next' = next + 1
  /\ UNCHANGED payload_size

\* Byte limit reached: send what was collected and begin again with this row.
SendCollected ==
  /\ next \in 1..N
  /\ ~Exceeds(next)
  /\ LimitReached(next)
  /\ request_futures' = request_futures \cup {Post(row_ids, FALSE, body_size)}
  /\ row_ids' = {next} /\ payloads_size' = 1
  /\ total_byte_size' = ByteSize(next)
  /\ body_size' = Envelope(ByteSize(next))
  /\ next' = next + 1
  /\ UNCHANGED payload_size

Collect ==
  /\ next \in 1..N
  /\ ~Exceeds(next)
  /\ ~LimitReached(next)
  /\ row_ids' = row_ids \cup {next} /\ payloads_size' = payloads_size + 1
  /\ total_byte_size' = total_byte_size + ByteSize(next)
  /\ body_size' = Appended(ByteSize(next))
  /\ next' = next + 1
  /\ UNCHANGED <<payload_size, request_futures>>

\* After the loop: send the rest, if there is any.
SendRest ==
  /\ next = N + 1
  /\ request_futures' = IF payloads_size > 0
                        THEN request_futures \cup {Post(row_ids, FALSE, body_size)}
                        ELSE request_futures
  /\ next' = N + 2
  /\ UNCHANGED <<payload_size, row_ids, payloads_size, total_byte_size, body_size>>

Done == next = N + 2

Next == SendAlone \/ SendCollected \/ Collect \/ SendRest

\* What the loop ends with is one of the plans Emitter draws from: every row in
\* one request, the rows over the limit alone and marked oversize, the others
\* in consecutive groups.
PlanIsSendPlan ==
  Done => {[rows |-> req.rows, is_oversize |-> req.is_oversize] : req \in request_futures}
            \in {PostPlan(Row, {r \in Row : Exceeds(r.id)}, heads) : heads \in SUBSET Row}

\* A request not marked oversize is at most one byte over the limit (one over,
\* and not within it, since the test for one more payload counts a comma less
\* than the body will have).
BodyNearLimit ==
  \A req \in request_futures : ~req.is_oversize => req.body <= ByteLimitPost + 1

Before(a, b) == \A r \in a.rows, q \in b.rows : r.id < q.id

\* Requests are not split needlessly: the first row of one would have taken
\* the one before it over the limit.
NoNeedlessSplit ==
  LET groups == {req \in request_futures : ~req.is_oversize}
  IN  \A a, b \in groups :
        Before(a, b) /\ ~(\E c \in groups : Before(a, c) /\ Before(c, b)) =>
          \E r \in b.rows : /\ \A q \in b.rows : r.id <= q.id
                           /\ a.body + 1 + ByteSize(r.id) > ByteLimitPost
=============================================================================
