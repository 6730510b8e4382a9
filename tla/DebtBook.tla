------------------------------ MODULE DebtBook ------------------------------
(***************************************************************************)
(* What paying a debt in installments promises, with nothing of how it is  *)
(* done: a payment adds to the running total what its entry posts, and     *)
(* settles the debt if nothing is left outstanding; a repair posts the     *)
(* last payment again and voids it; each is one step.                      *)
(***************************************************************************)
EXTENDS Integers

CONSTANTS Installments, Entries, Amount, None

VARIABLES
    paid,    \* running total of each installment
    last,    \* the entry of its last payment
    ledger,  \* status, installment and amount of each entry
    debt     \* status of the debt, and whether it is deleted

bookVars == <<paid, last, ledger, debt>>

Init ==
    /\ paid = [i \in Installments |-> 0]
    /\ last = [i \in Installments |-> None]
    /\ ledger = [e \in Entries |-> [status |-> "free", inst |-> None, amount |-> 0]]
    /\ debt = [status |-> "active", deleted |-> FALSE]

Payment(i, amount) == [status |-> "posted", inst |-> i, amount |-> amount]

\* A payment within what is due, which settles the debt exactly when it is the last.
Pay(i, e, amount) ==
    /\ amount > 0 /\ paid[i] + amount <= Amount
    /\ ledger[e].status = "free"
    /\ ledger' = [ledger EXCEPT ![e] = Payment(i, amount)]
    /\ paid' = [paid EXCEPT ![i] = @ + amount]
    /\ last' = [last EXCEPT ![i] = e]
    /\ debt' = IF \A j \in Installments : paid'[j] = Amount
               THEN [debt EXCEPT !.status = "settled"] ELSE debt

\* The last payment is posted again by e, and void from then on.
Repair(i, e) ==
    /\ last[i] # None
    /\ ledger[e].status = "free"
    /\ ledger' = [x \in Entries |->
                     IF x = e THEN Payment(i, ledger[last[i]].amount)
                     ELSE IF x = last[i] THEN [ledger[x] EXCEPT !.status = "void"] ELSE ledger[x]]
    /\ last' = [last EXCEPT ![i] = e]
    /\ UNCHANGED <<paid, debt>>

\* A payment is reversed by hand; the running total stays.
Void(e) ==
    /\ ledger[e].status = "posted"
    /\ ledger' = [ledger EXCEPT ![e].status = "void"]
    /\ UNCHANGED <<paid, last, debt>>

\* The owner gives the debt up.
Close ==
    /\ debt' \in {[debt EXCEPT !.status = "cancelled"], [debt EXCEPT !.deleted = TRUE]}
    /\ UNCHANGED <<paid, last, ledger>>

Next ==
    \/ \E i \in Installments, e \in Entries : Repair(i, e) \/ \E amount \in 1 .. Amount : Pay(i, e, amount)
    \/ \E e \in Entries : Void(e)
    \/ Close

Spec == Init /\ [][Next]_bookVars
=============================================================================
