--------------------------- MODULE MCInstallments ---------------------------
(***************************************************************************)
(* Installments on small instances.                                        *)
(***************************************************************************)
EXTENDS Installments, TLC

Symmetry == Permutations(Sessions) \cup Permutations(Installments) \cup Permutations(Entries)
=============================================================================
