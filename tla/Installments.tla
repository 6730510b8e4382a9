---------------------------- MODULE Installments ----------------------------
(***************************************************************************)
(* The installments of one debt: payInstallment (planning/service.ts), the *)
(* transaction form that pays an installment (app/actions.ts), the repair  *)
(* of a payment (planning/repairPayments.ts), and cancelling or deleting   *)
(* the debt (planning/planItems.ts), with the reversal of a payment's      *)
(* journal entry.                                                          *)
(*                                                                         *)
(* Every payment of the debt moves the same counter account, which         *)
(* postEntry locks FOR UPDATE until the transaction commits.  The status   *)
(* of an installment is what its running total makes it: pending at zero,  *)
(* paid at the contractual amount, partial between.                        *)
(***************************************************************************)
EXTENDS Integers, FiniteSets, FiniteSetsExt

CONSTANTS
    Sessions,      \* concurrent requests' database sessions
    Installments,  \* installment ids
    Entries,       \* journal entry ids
    Amount,        \* contractual amount of each installment
    Ways,          \* the operations this deployment is used with
    None           \* SQL NULL

AllWays == {"quick", "form", "repair", "reverse", "cancel", "delete"}

ASSUME InstallmentsAssumption ==
    /\ Amount \in Nat \ {0}
    /\ Ways \subseteq AllWays
    /\ None \notin Sessions \cup Installments \cup Entries

VARIABLES
    inst,        \* committed rows of installments
    debt,        \* committed row of the debt
    entry,       \* committed journal entries of the payments
    instLock,    \* session holding an installment row
    contraLock,  \* session holding the counter account FOR UPDATE
    session      \* what each session is doing

vars == <<inst, debt, entry, instLock, contraLock, session>>

-----------------------------------------------------------------------------
\* paid: the running total.  last: the entry of the last settlement.
InstRows == [paid : 0 .. Amount, last : Entries \cup {None}]

DebtRows == [status : {"active", "settled", "cancelled"}, deleted : BOOLEAN]

\* bank: whether the cash left a Toman bank account.
EntryRows ==
    [status : {"free", "posted", "void"}, inst : Installments \cup {None}, amount : 0 .. Amount,
     bank : BOOLEAN]

NoEntry == [status |-> "free", inst |-> None, amount |-> 0, bank |-> TRUE]

\* new: id the entry of the payment gets.  total: running total it will write.
\* replaces: the payment a repair reverses.  last: it found nothing else outstanding.
At(pc, way, i, new, amount, bank, total, replaces) ==
    [pc |-> pc, way |-> way, inst |-> i, new |-> new, amount |-> amount, bank |-> bank,
     total |-> total, replaces |-> replaces, last |-> FALSE]

Idle == At("idle", "none", None, None, 0, TRUE, 0, None)

SessionStates ==
    [pc : {"idle", "begun", "posting", "updated", "judged"}, way : AllWays \cup {"none"},
     inst : Installments \cup {None}, new : Entries \cup {None}, amount : 0 .. Amount,
     bank : BOOLEAN, total : 0 .. Amount, replaces : Entries \cup {None}, last : BOOLEAN]

TypeOK ==
    /\ inst \in [Installments -> InstRows]
    /\ debt \in DebtRows
    /\ entry \in [Entries -> EntryRows]
    /\ instLock \in [Installments -> Sessions \cup {None}]
    /\ contraLock \in Sessions \cup {None}
    /\ session \in [Sessions -> SessionStates]

Init ==
    /\ inst = [i \in Installments |-> [paid |-> 0, last |-> None]]
    /\ debt = [status |-> "active", deleted |-> FALSE]
    /\ entry = [e \in Entries |-> NoEntry]
    /\ instLock = [i \in Installments |-> None]
    /\ contraLock = None
    /\ session = [s \in Sessions |-> Idle]

-----------------------------------------------------------------------------
Paid(i) == inst[i].paid = Amount

\* remainingToman
Due(i) == Amount - inst[i].paid

\* applyPartialPayment: an overpayment is refused, and so is a paid installment.
Payable(i, amount) == ~Paid(i) /\ amount \in 1 .. Due(i)

FreshEntries ==
    {e \in Entries : entry[e].status = "free" /\ \A s \in Sessions : session[s].new # e}

Ended(s) ==
    /\ instLock' = [i \in Installments |-> IF instLock[i] = s THEN None ELSE instLock[i]]
    /\ contraLock' = IF contraLock = s THEN None ELSE contraLock
    /\ session' = [session EXCEPT ![s] = Idle]

Abort(s) == Ended(s) /\ UNCHANGED <<inst, debt, entry>>

-----------------------------------------------------------------------------
\* Mutant of BeginQuickPay: the row is read without FOR UPDATE.
BeginQuickPayUnlocked(s, i, amount, bank) ==
    /\ session[s] = Idle
    /\ Payable(i, amount)
    /\ \E e \in FreshEntries :
          session' = [session EXCEPT ![s] =
                         At("begun", "quick", i, e, amount, bank, inst[i].paid + amount, None)]
    /\ UNCHANGED <<inst, debt, entry, instLock, contraLock>>

\* payInstallment: the row is locked, then read; an overpayment is refused.
\* Neither the debt's status nor its deletion is looked at.
BeginQuickPay(s, i, amount, bank) ==
    /\ session[s] = Idle
    /\ instLock[i] = None
    /\ Payable(i, amount)
    /\ \E e \in FreshEntries :
          session' = [session EXCEPT ![s] =
                         At("begun", "quick", i, e, amount, bank, inst[i].paid + amount, None)]
    /\ instLock' = [instLock EXCEPT ![i] = s]
    /\ UNCHANGED <<inst, debt, entry, contraLock>>

\* The form: the row is read before the transaction begins, and the running total
\* is computed from what was read.
BeginForm(s, i, amount, bank) ==
    /\ session[s] = Idle
    /\ Payable(i, amount)
    /\ \E e \in FreshEntries :
          session' = [session EXCEPT ![s] =
                         At("begun", "form", i, e, amount, bank, inst[i].paid + amount, None)]
    /\ UNCHANGED <<inst, debt, entry, instLock, contraLock>>

\* repostInstallmentPayment: the last payment is void, or left another account
\* than a bank; it is posted again with the same amount from a bank.
BeginRepair(s, i) ==
    LET old == inst[i].last
    IN  /\ session[s] = Idle
        /\ instLock[i] = None
        /\ ~debt.deleted
        /\ old # None
        /\ entry[old].status = "void" \/ ~entry[old].bank
        /\ \E e \in FreshEntries :
              session' = [session EXCEPT ![s] =
                             At("begun", "repair", i, e, entry[old].amount, TRUE, inst[i].paid,
                                IF entry[old].status = "void" THEN None ELSE old)]
        /\ instLock' = [instLock EXCEPT ![i] = s]
        /\ UNCHANGED <<inst, debt, entry, contraLock>>

\* Mutant of LockContra: the counter account is not locked.
LockNoContra(s) ==
    /\ session[s].pc = "begun"
    /\ session' = [session EXCEPT ![s].pc = "posting"]
    /\ UNCHANGED <<inst, debt, entry, instLock, contraLock>>

\* postEntry locks the counter account.
LockContra(s) ==
    /\ session[s].pc = "begun"
    /\ contraLock = None
    /\ contraLock' = s
    /\ session' = [session EXCEPT ![s].pc = "posting"]
    /\ UNCHANGED <<inst, debt, entry, instLock>>

\* Mutant of Booked: a repair posts beside the payment it replaces.
BookedBeside(s) ==
    [e \in Entries |->
        IF e = session[s].new
        THEN [status |-> "posted", inst |-> session[s].inst, amount |-> session[s].amount,
              bank |-> session[s].bank]
        ELSE entry[e]]

\* The entry a payment posts, and the one a repair voids with it.
Booked(s) ==
    [e \in Entries |->
        CASE e = session[s].new ->
                 [status |-> "posted", inst |-> session[s].inst, amount |-> session[s].amount,
                  bank |-> session[s].bank]
          [] e = session[s].replaces -> [entry[e] EXCEPT !.status = "void"]
          [] OTHER -> entry[e]]

\* Nothing is outstanding: a partial installment is.
AllPaid(rows) == \A i \in Installments : rows[i].paid = Amount

WithPayment(s) ==
    [inst EXCEPT ![session[s].inst] = [paid |-> session[s].total, last |-> session[s].new]]

\* Mutant of UpdateInstallment: the UPDATE runs outside the transaction that has
\* locked the row, and waits for it.
UpdateInstallmentOutside(s) ==
    LET i == session[s].inst
    IN  /\ session[s].pc = "posting"
        /\ session[s].way \in {"quick", "form"}
        /\ instLock[i] = None
        /\ instLock' = [instLock EXCEPT ![i] = s]
        /\ session' = [session EXCEPT ![s] = [@ EXCEPT !.pc = "updated", !.last = AllPaid(WithPayment(s))]]
        /\ UNCHANGED <<inst, debt, entry, contraLock>>

\* The installment is updated (the form waits for its row), and the outstanding
\* ones are counted: those committed, and this one as updated.
UpdateInstallment(s) ==
    LET i == session[s].inst
    IN  /\ session[s].pc = "posting"
        /\ session[s].way \in {"quick", "form"}
        /\ instLock[i] \in {None, s}
        /\ instLock' = [instLock EXCEPT ![i] = s]
        /\ session' = [session EXCEPT ![s] = [@ EXCEPT !.pc = "updated", !.last = AllPaid(WithPayment(s))]]
        /\ UNCHANGED <<inst, debt, entry, contraLock>>

\* The payment commits, and settles the debt if nothing was outstanding.
CommitPayment(s) ==
    /\ session[s].pc = "updated"
    /\ entry' = Booked(s)
    /\ inst' = WithPayment(s)
    /\ debt' = IF session[s].last THEN [debt EXCEPT !.status = "settled"] ELSE debt
    /\ Ended(s)

\* A repair only moves paid_entry_id.  A payment voided meanwhile is not reversed
\* again: everything is rolled back.
CommitRepair(s) ==
    LET old == session[s].replaces
    IN  /\ session[s].pc = "posting"
        /\ session[s].way = "repair"
        /\ \/ /\ old # None => entry[old].status = "posted"
              /\ entry' = Booked(s)
              /\ inst' = [inst EXCEPT ![session[s].inst].last = session[s].new]
              /\ UNCHANGED debt
              /\ Ended(s)
           \/ /\ old # None /\ entry[old].status # "posted"
              /\ Abort(s)

\* reverseEntry, which leaves the installment as it is.
Reverse(s, e) ==
    /\ session[s] = Idle
    /\ entry[e].status = "posted"
    /\ contraLock = None
    /\ entry' = [entry EXCEPT ![e].status = "void"]
    /\ UNCHANGED <<inst, debt, instLock, contraLock, session>>

-----------------------------------------------------------------------------
\* cancelDebt and deleteDebt read, judge, and then write unconditionally.
JudgeDebt(s, way) ==
    /\ session[s] = Idle
    /\ ~debt.deleted
    /\ \/ way = "cancel" /\ debt.status = "active"
       \/ way = "delete" /\ \A i \in Installments : inst[i].paid = 0
    /\ session' = [session EXCEPT ![s] = At("judged", way, None, None, 0, TRUE, 0, None)]
    /\ UNCHANGED <<inst, debt, entry, instLock, contraLock>>

WriteDebt(s) ==
    /\ session[s].pc = "judged"
    /\ \/ session[s].way = "cancel" /\ debt' = [debt EXCEPT !.status = "cancelled"]
       \/ session[s].way = "delete" /\ debt' = [debt EXCEPT !.deleted = TRUE]
    /\ session' = [session EXCEPT ![s] = Idle]
    /\ UNCHANGED <<inst, entry, instLock, contraLock>>

-----------------------------------------------------------------------------
(* Failure *)

Rollback(s) == session[s] # Idle /\ Abort(s)

\* With two kinds of locks a circle has two members: the form holds the counter
\* account and waits for a row whose holder waits for that account.
Deadlocked(s) ==
    /\ session[s].pc = "begun"
    /\ contraLock \notin {None, s}
    /\ session[contraLock].pc = "posting"
    /\ session[contraLock].inst # None
    /\ instLock[session[contraLock].inst] = s

BreakDeadlock(s) ==
    \E t \in Sessions : Deadlocked(t) /\ s \in {t, contraLock} /\ Abort(s)

-----------------------------------------------------------------------------
Begin(s) ==
    \/ \E i \in Installments, amount \in 1 .. Amount, bank \in BOOLEAN :
          \/ "quick" \in Ways /\ BeginQuickPay(s, i, amount, bank)
          \/ "form" \in Ways /\ BeginForm(s, i, amount, bank)
    \/ "repair" \in Ways /\ \E i \in Installments : BeginRepair(s, i)
    \/ "reverse" \in Ways /\ \E e \in Entries : Reverse(s, e)
    \/ \E way \in Ways \cap {"cancel", "delete"} : JudgeDebt(s, way)

Continue(s) ==
    LockContra(s) \/ UpdateInstallment(s) \/ CommitPayment(s) \/ CommitRepair(s) \/ WriteDebt(s)

Next == \E s \in Sessions : Begin(s) \/ Continue(s) \/ BreakDeadlock(s) \/ Rollback(s)

\* A request that has begun is carried on by the server, PostgreSQL hands a lock
\* to its waiters in turn, and finds a deadlock after deadlock_timeout.
Fairness ==
    /\ \A s \in Sessions : SF_vars(Continue(s))
    /\ WF_vars(\E s \in Sessions : BreakDeadlock(s))

Spec == Init /\ [][Next]_vars /\ Fairness

-----------------------------------------------------------------------------
(* Properties *)

\* What the posted entries say was paid on an installment.
Ledger(i) ==
    LET payments == {e \in Entries : entry[e].status = "posted" /\ entry[e].inst = i}
    IN  MapThenSumSet(LAMBDA e : entry[e].amount, payments)

Voided(i) == {e \in Entries : entry[e].status = "void" /\ entry[e].inst = i}

\* paid_toman is a running total (schema.ts:773): unless a payment was voided, it
\* is what the posted entries of the installment add up to, so that no payment is
\* forgotten or counted twice.  However payments are reversed by hand and
\* repaired, the ledger never holds more: a repair is not posted twice, nor
\* beside the entry it replaces.
RunningTotal ==
    \A i \in Installments :
        /\ Ledger(i) <= inst[i].paid
        /\ Voided(i) = {} => Ledger(i) = inst[i].paid

\* The debt is settled when its last installment is paid and not before, although
\* two sessions may each be paying one of the last two: the counter account's lock
\* makes the second count what the first has paid.
SettledWhenPaid ==
    /\ debt.status = "settled" => \A i \in Installments : Paid(i)
    /\ (\A i \in Installments : Paid(i)) => debt.status # "active"

\* Every request that has begun is answered.
RequestsEnd ==
    \A s \in Sessions : session[s].pc # "idle" ~> session[s].pc = "idle"

-----------------------------------------------------------------------------
(* Without the form, payments implement DebtBook, where each is one step. *)

Book == INSTANCE DebtBook WITH
            paid <- [i \in Installments |-> inst[i].paid],
            last <- [i \in Installments |-> inst[i].last],
            ledger <- [e \in Entries |->
                [status |-> entry[e].status, inst |-> entry[e].inst, amount |-> entry[e].amount]]

\* Whatever requests interleave: a running total grows by what an entry posts, in
\* the step that posts it, and a repair voids the payment it posts again.
BookSpec == Book!Spec

-----------------------------------------------------------------------------
(* What a comment or a test of the source says, and a run shows it does not keep: *)
(* see "Divergences" in the README.                                              *)

\* A debt with a payment "can only be cancelled" (planItems.ts:259).
DeletedDebtUnpaid == debt.deleted => \A i \in Installments : inst[i].paid = 0
=============================================================================
