------------------------------- MODULE MCPlans -------------------------------
(***************************************************************************)
(* Plans on small instances: four occurrences let the chain be carried on  *)
(* three times.                                                            *)
(***************************************************************************)
EXTENDS Plans, TLC

Symmetry == Permutations(Sessions) \cup Permutations(Plans) \cup Permutations(Entries)
=============================================================================
