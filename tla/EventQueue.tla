---------------------------- MODULE EventQueue -----------------------------
(***************************************************************************)
(* What the emitter and its event store promise together: a persistent     *)
(* queue with at-least-once delivery.  An event that was stored stays      *)
(* queued until the collector has accepted it or there was a reason to     *)
(* give it up; until it is removed it may be delivered any number of       *)
(* times.  Threads, batches, retries, timers and restarts are details of   *)
(* the Emitter module, which implements this one.                          *)
(***************************************************************************)
CONSTANT Event

VARIABLES stored,    \* events ever stored
          queued,    \* events in the queue
          accepted,  \* events the collector has taken, perhaps more than once
          refused    \* events there was a reason to give up

vars == <<stored, queued, accepted, refused>>

Init == /\ stored = {}
        /\ queued = {}
        /\ accepted = {}
        /\ refused = {}

Store(e) == /\ e \notin stored
            /\ stored' = stored \cup {e}
            /\ queued' = queued \cup {e}
            /\ UNCHANGED <<accepted, refused>>

Accept(S) == /\ accepted' = accepted \cup S
             /\ UNCHANGED <<stored, queued, refused>>

Refuse(S) == /\ refused' = refused \cup S
             /\ UNCHANGED <<stored, queued, accepted>>

Remove(S) == /\ S \subseteq accepted \cup refused
             /\ queued' = queued \ S
             /\ UNCHANGED <<stored, accepted, refused>>

Next == \/ \E e \in Event : Store(e)
        \/ \E S \in SUBSET queued : Accept(S) \/ Refuse(S) \/ Remove(S)

Spec == Init /\ [][Next]_vars
=============================================================================
