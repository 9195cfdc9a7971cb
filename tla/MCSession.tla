----------------------------- MODULE MCSession -----------------------------
(***************************************************************************)
(* Instances of ClientSession for TLC.                                     *)
(***************************************************************************)
EXTENDS ClientSession, TLC

Symmetry == Permutations(Thread) \cup Permutations(Event)
=============================================================================
