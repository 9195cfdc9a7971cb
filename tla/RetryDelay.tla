----------------------------- MODULE RetryDelay -----------------------------
(***************************************************************************)
(* emitter/retry_delay.cpp: how long the daemon sleeps after a batch with  *)
(* failures, in milliseconds.  Emitter keeps the count of this class and   *)
(* abstracts from the length of the delay; DaemonRound has both.  The      *)
(* random seed in [0, 1) is a whole number of thousandths.                 *)
(***************************************************************************)
EXTENDS Integers

CONSTANTS Base, Factor,
          RetryCountCap,
          JitterPercent,
          Seed,           \* the seeds considered, in thousandths
          MaxRetries      \* bound on m_retry_count

ASSUME RetryDelayAssumption ==
  /\ Base \in Nat \ {0} /\ Factor \in Nat \ {0}
  /\ RetryCountCap \in Nat \ {0}
  /\ JitterPercent \in 0..100
  /\ Seed \subseteq 0..999
  /\ MaxRetries \in Nat

VARIABLES m_retry_count,
          delay,           \* what get() returned last
          delay_count      \* history: m_retry_count at that time, 0 after a reset

delayVars == <<m_retry_count, delay, delay_count>>

DelayInit == m_retry_count = 0 /\ delay = 0 /\ delay_count = 0

\* pow(m_factor, k)
Pow[k \in Nat] == IF k = 0 THEN 1 ELSE Factor * Pow[k - 1]

\* The delay is made with its default arguments (emitter.hpp:203,
\* retry_delay.hpp:36), which keep the largest delay below two minutes and let
\* the delay grow by more than the jitter can take off.
MaxDelay == 120000
ASSUME DefaultsAssumption ==
  /\ (100 + JitterPercent) * (Base * Pow[RetryCountCap - 1]) <= 100 * MaxDelay
  /\ (100 - JitterPercent) * Factor > 100 + JitterPercent

\* Faulty variant of Exponent: the first retry is already doubled.
OneTooMany(n) == IF n < RetryCountCap THEN n ELSE RetryCountCap

Exponent(n) == IF n < RetryCountCap THEN n - 1 ELSE RetryCountCap - 1

\* Faulty variant of Deviation: m_jitter is forgotten.
FullDeviation(seed, ms) == (seed * ms) \div 1000

\* floor(seed * m_jitter * delay_ms)
Deviation(seed, ms) == (seed * JitterPercent * ms) \div 100000

\* get(): round(seed) decides whether the deviation is taken off or added.
Delay(n, seed) ==
  LET ms == Base * Pow[Exponent(n)]
  IN  IF n = 0 THEN 0
      ELSE IF seed >= 500 THEN ms - Deviation(seed, ms)
      ELSE ms + Deviation(seed, ms)

Get == \E seed \in Seed : /\ delay' = Delay(m_retry_count, seed)
                          /\ delay_count' = m_retry_count
                          /\ UNCHANGED m_retry_count

WillRetryEmit == /\ m_retry_count < MaxRetries
                 /\ m_retry_count' = m_retry_count + 1
                 /\ UNCHANGED <<delay, delay_count>>

WontRetryEmit == m_retry_count' = 0 /\ delay' = 0 /\ delay_count' = 0

\* The delay the documentation describes: doubled at every failure up to the cap.
Documented[n \in Nat] ==
  IF n <= 1 THEN Base * n
  ELSE IF n > RetryCountCap THEN Documented[n - 1]
  ELSE Factor * Documented[n - 1]

\* "A small amount of randomness is added to the delay (at most 10% of the
\* total value)" (docs/05-emitters.md), also when it is taken off: the delay the
\* daemon last slept for fits the number of failures in a row before it.  "It is
\* limited to be no larger than around 2 minutes", however long requests fail.
WithinJitter ==
  /\ 100 * delay <= (100 + JitterPercent) * Documented[delay_count]
  /\ 100 * delay >= (100 - JitterPercent) * Documented[delay_count]
  /\ delay <= MaxDelay
=============================================================================
