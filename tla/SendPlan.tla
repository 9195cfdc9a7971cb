----------------------------- MODULE SendPlan ------------------------------
(***************************************************************************)
(* Which requests Emitter::do_send makes of a batch b, a set of rows with  *)
(* an id.  large are the rows of b that exceed the byte limit by           *)
(* themselves.  PostBatching models how the POST groups come about.        *)
(***************************************************************************)
EXTENDS Integers

\* GET: one request for each row.
GetPlan(b, large) == {[rows |-> {r}, is_oversize |-> r \in large] : r \in b}

\* The consecutive groups that rows fall into when one begins at each head.
Groups(rows, heads) ==
  {{q \in rows : {h \in heads : h.id <= q.id} = {h \in heads : h.id <= r.id}} : r \in rows}

\* POST: each large row alone, the others in consecutive groups.  Where the
\* groups end depends on the sizes of the payloads.
PostPlan(b, large, heads) ==
  {[rows |-> {r}, is_oversize |-> TRUE] : r \in large} \cup
  {[rows |-> g, is_oversize |-> FALSE] : g \in Groups(b \ large, heads)}

RowsOf(requests) == UNION {req.rows : req \in requests}
=============================================================================
