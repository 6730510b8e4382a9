------------------------------- MODULE MCSetup -------------------------------
(***************************************************************************)
(* Set-up on a small instance: a vehicle and a debt.  Between the attempts *)
(* the user takes the debt out, or edits the vehicle or the accounts.      *)
(***************************************************************************)
EXTENDS Setup

CONSTANTS v1, v2

Request(base, vehicle, debt) == [j \in Jobs |-> CASE j = Base -> base [] j = 1 -> vehicle [] j = 2 -> debt]

SentRequests ==
    {Request(v1, v1, v1), Request(v1, v1, None), Request(v1, v2, v1), Request(v2, v1, v1)}
=============================================================================
