----------------------------- MODULE MCRegistry -----------------------------
(***************************************************************************)
(* The registry on a small instance.                                       *)
(***************************************************************************)
EXTENDS Registry, TLC

Symmetry == Permutations(Sessions)
=============================================================================
