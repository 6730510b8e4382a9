------------------------------- MODULE MCLots -------------------------------
(***************************************************************************)
(* Lots on small instances.  Entries are ordered, and requests end, so     *)
(* that nothing is interchangeable.                                        *)
(***************************************************************************)
EXTENDS Lots
=============================================================================
