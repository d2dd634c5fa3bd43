---------------------------- MODULE MCLifecycle ----------------------------
(***************************************************************************)
(* Lifecycle with accepts and clients that are alike.                      *)
(***************************************************************************)
EXTENDS Lifecycle, TLC

Symmetry == Permutations(Accepts) \cup Permutations(Sessions)
=============================================================================
