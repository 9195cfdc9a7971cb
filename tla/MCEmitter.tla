----------------------------- MODULE MCEmitter -----------------------------
(***************************************************************************)
(* The instances of Emitter that TLC checks.  The configurations pick from *)
(* these definitions for the constants that are functions or sets of       *)
(* strings.                                                                *)
(***************************************************************************)
EXTENDS Emitter, TLC

CONSTANTS t1, t2, e1, e2, e3

NoRules == <<>>
NoStatuses == {}
TerminalStatuses == {"SUCCESS", "FAILED_WONT_RETRY"}

\* One thread controls the emitter; the other tracks, and may stop it.
TrackAndStop == t1 :> {"start", "stop", "add", "flush"} @@ t2 :> {"stop", "add"}

\* Both threads start and stop the emitter; one also configures it.
TwoControllers == t1 :> {"start", "stop", "add", "configure"} @@ t2 :> {"start", "stop"}

\* One thread, in a process that may die.
StartStopTrack == t1 :> {"start", "stop", "add"}

\* One thread starts and flushes, while the other tracks and may stop it.
FlushWhileStopping == t1 :> {"start", "flush"} @@ t2 :> {"stop", "add"}

TrackAndFlush == t1 :> {"start", "add", "flush"}

EventSymmetry == Permutations({e1, e2})
=============================================================================
