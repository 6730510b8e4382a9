------------------------------ MODULE MCCheques ------------------------------
(***************************************************************************)
(* Cheques on small instances.  An entry pays a cheque once, so two        *)
(* entries let a cheque be cleared, reverted and cleared again, and let    *)
(* two sessions race to clear it.                                          *)
(***************************************************************************)
EXTENDS Cheques
=============================================================================
