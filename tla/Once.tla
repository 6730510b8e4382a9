-------------------------------- MODULE Once --------------------------------
(***************************************************************************)
(* What an import or a set-up that is retried promises: each job (a bank   *)
(* message, an item of the wizard) is recorded in the books once, in one   *)
(* step, and what recorded it is never replaced.                           *)
(***************************************************************************)
CONSTANTS
    Jobs,      \* what has to be recorded
    Records,   \* what records it
    None       \* not recorded

VARIABLE recorded   \* what recorded each job

TypeOK == recorded \in [Jobs -> Records \cup {None}]

Init == recorded = [j \in Jobs |-> None]

Record(j, r) ==
    /\ recorded[j] = None
    /\ recorded' = [recorded EXCEPT ![j] = r]

Next == \E j \in Jobs, r \in Records : Record(j, r)

Spec == Init /\ [][Next]_recorded
=============================================================================
