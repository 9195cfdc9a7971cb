------------------------------ MODULE MCFlush ------------------------------
(***************************************************************************)
(* Emitter with a history variable: owed[t] is what was in the event store *)
(* when thread t last called flush().                                      *)
(***************************************************************************)
EXTENDS MCEmitter

VARIABLE owed

FlushInit == Init /\ owed = [t \in Thread |-> {}]

FlushNext ==
  /\ Next
  /\ owed' = [t \in Thread |-> IF At(t, "idle") THEN Queued ELSE owed[t]]

FlushSpec == FlushInit /\ [][FlushNext]_<<vars, owed>>

\* flush() resets m_flush_done so that it "reflects only queue state observed
\* after this flush() call" (emitter.cpp:150): a flush() that goes on because
\* of the flag leaves nothing in the store that was there when it was called.
FlushDoneMeansDrained ==
  [][\A t \in Thread :
       At(t, "flush_pred") /\ pc'[t] = "stop" /\ ~m_stop_requested =>
         owed[t] \cap Queued = {}]_<<vars, owed>>
=============================================================================
