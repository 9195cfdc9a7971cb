---------------------------- MODULE MCSnowplow -----------------------------
(***************************************************************************)
(* The instance of Snowplow that TLC checks: two trackers that claim one   *)
(* namespace, and one of another.                                          *)
(***************************************************************************)
EXTENDS Snowplow, TLC

CONSTANTS x1, x2, y, n1, n2

Namespaces == x1 :> n1 @@ x2 :> n1 @@ y :> n2
=============================================================================
