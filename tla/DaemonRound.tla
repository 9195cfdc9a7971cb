---------------------------- MODULE DaemonRound ----------------------------
(***************************************************************************)
(* Emitter::run(), round after round: a batch is split into POST requests  *)
(* (PostBatching), their results decide whether the retry count goes up or *)
(* back to zero, and the daemon sleeps for the delay of that count         *)
(* (RetryDelay) before it reads the next batch.                            *)
(***************************************************************************)
EXTENDS PostBatching, RetryDelay

VARIABLE phase     \* "send", or "delay" once the results are classified

roundVars == <<vars, delayVars, phase>>

RoundInit == Init /\ DelayInit /\ phase = "send"

DoSend ==
  /\ phase = "send"
  /\ Next
  /\ UNCHANGED <<delayVars, phase>>

\* Some request of the batch is to be retried, or none is.
Classify ==
  /\ phase = "send" /\ Done
  /\ WillRetryEmit \/ WontRetryEmit
  /\ phase' = "delay"
  /\ UNCHANGED vars

\* The daemon sleeps, and reads a batch again.
Sleep ==
  /\ phase = "delay"
  /\ Get
  /\ phase' = "send"
  /\ payload_size' \in [1..N -> PayloadSize]
  /\ next' = 1
  /\ row_ids' = {} /\ payloads_size' = 0
  /\ total_byte_size' = 0 /\ body_size' = 0
  /\ request_futures' = {}

RoundNext == DoSend \/ Classify \/ Sleep

RoundSpec == RoundInit /\ [][RoundNext]_roundVars

\* Of two rounds in a row that fail the daemon sleeps longer after the second,
\* up to the cap, whatever the random seeds: the jitter never outweighs the
\* exponential growth.
DelaysGrow ==
  [][0 < delay_count /\ delay_count < RetryCountCap /\ delay_count' > delay_count =>
       delay' > delay]_roundVars
=============================================================================
