----------------------------- MODULE ChequeBook -----------------------------
(***************************************************************************)
(* What the cheque book promises (the header of                            *)
(* features/cheques/service.ts), with nothing of how it is done: a cheque  *)
(* and the entry that pays it change in one step, and voiding that entry   *)
(* puts the cheque back in circulation in the same step.                   *)
(***************************************************************************)
CONSTANTS Cheques, Entries, None

VARIABLES
    status,   \* status of each cheque
    paidBy,   \* the entry that cleared it
    ledger    \* status of each journal entry

bookVars == <<status, paidBy, ledger>>

Init ==
    /\ status = [c \in Cheques |-> "absent"]
    /\ paidBy = [c \in Cheques |-> None]
    /\ ledger = [e \in Entries |-> "free"]

\* The owner's own marks on a cheque that is not cleared.
Mark(c) ==
    /\ \/ status[c] = "absent"    /\ status' = [status EXCEPT ![c] = "pending"]
       \/ /\ status[c] = "pending"
          /\ \E next \in {"bounced", "cancelled", "deleted"} :
                status' = [status EXCEPT ![c] = next]
       \/ /\ status[c] = "bounced"
          /\ \E next \in {"pending", "cancelled", "deleted"} :
                status' = [status EXCEPT ![c] = next]
       \/ /\ status[c] = "cancelled"
          /\ \E next \in {"pending", "deleted"} :
                status' = [status EXCEPT ![c] = next]
    /\ UNCHANGED <<paidBy, ledger>>

\* A pending cheque is paid by a new entry.
Pay(c, e) ==
    /\ status[c] = "pending"
    /\ ledger[e] = "free"
    /\ status' = [status EXCEPT ![c] = "cleared"]
    /\ paidBy' = [paidBy EXCEPT ![c] = e]
    /\ ledger' = [ledger EXCEPT ![e] = "posted"]

\* The entry that paid a cheque is voided.
Unpay(c) ==
    /\ status[c] = "cleared"
    /\ ledger[paidBy[c]] = "posted"
    /\ status' = [status EXCEPT ![c] = "pending"]
    /\ paidBy' = [paidBy EXCEPT ![c] = None]
    /\ ledger' = [ledger EXCEPT ![paidBy[c]] = "void"]

Next == \E c \in Cheques : Mark(c) \/ Unpay(c) \/ \E e \in Entries : Pay(c, e)

Spec == Init /\ [][Next]_bookVars
=============================================================================
