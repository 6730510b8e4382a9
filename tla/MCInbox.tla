------------------------------- MODULE MCInbox -------------------------------
(***************************************************************************)
(* Inbox on small instances: two sessions race for every lock and claim,   *)
(* the limits are reached by two telephones and two messages.              *)
(***************************************************************************)
EXTENDS Inbox
=============================================================================
