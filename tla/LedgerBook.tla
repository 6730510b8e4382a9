----------------------------- MODULE LedgerBook -----------------------------
(***************************************************************************)
(* What the ledger promises (README, "financial principles"): every entry  *)
(* balances; a guarded entry never overdraws an account, judged on the     *)
(* balances at the moment it is recorded; a key records one entry; and the *)
(* only correction is a reversal, which voids a posted entry and adds its  *)
(* mirror.  Each is one step; there are no locks and no sessions.          *)
(***************************************************************************)
EXTENDS Integers, FiniteSets, Functions

CONSTANTS Entries, Accounts, Requests, None

VARIABLE entry

Nothing == [status |-> "free", legs |-> [a \in Accounts |-> 0], key |-> None, reversalOf |-> None]

Posted == {e \in Entries : entry[e].status = "posted"}

BalanceOf(a) ==
    SumFunction([e \in {x \in Posted : entry[x].legs[a] # 0} |-> entry[e].legs[a]])

Init == entry = [e \in Entries |-> Nothing]

\* A request is recorded under an id no entry has.
Post(e, r) ==
    /\ entry[e].status = "free"
    /\ SumFunction(r.legs) = 0
    /\ r.key # None => \A x \in Entries : entry[x].key # r.key
    /\ r.guard => \A a \in Accounts : r.legs[a] < 0 => BalanceOf(a) + r.legs[a] >= 0
    /\ entry' = [entry EXCEPT ![e] =
                    [status |-> "posted", legs |-> r.legs, key |-> r.key, reversalOf |-> None]]

\* A posted entry is voided and its mirror m recorded, void as well.
Reverse(e, m) ==
    /\ entry[e].status = "posted"
    /\ entry[m].status = "free"
    /\ entry' = [x \in Entries |->
                    IF x = m
                    THEN [status |-> "void", legs |-> [a \in Accounts |-> -entry[e].legs[a]],
                          key |-> None, reversalOf |-> e]
                    ELSE IF x = e THEN [entry[e] EXCEPT !.status = "void"] ELSE entry[x]]

Next ==
    \/ \E e \in Entries, r \in Requests : Post(e, r)
    \/ \E e, m \in Entries : Reverse(e, m)

Spec == Init /\ [][Next]_entry
=============================================================================
