-------------------------------- MODULE Plans --------------------------------
(***************************************************************************)
(* The occurrences of one recurring payment in planned_transactions: the   *)
(* transaction form that records one and schedules the next (income and    *)
(* insurance premiums), "not received this month", stopping the income,    *)
(* closing the deposit or policy it belongs to, and executePlanned.        *)
(*                                                                         *)
(* The form posts the entry, reads the occurrence, writes it and schedules *)
(* the next one in one transaction; skipping and executePlanned commit     *)
(* each statement by itself.  Every write of an occurrence is addressed by *)
(* its id alone.                                                           *)
(***************************************************************************)
EXTENDS Naturals, FiniteSets

CONSTANTS
    Sessions,   \* concurrent requests' database sessions
    Plans,      \* ids of the occurrences
    Entries,    \* journal entry ids
    Accounts,   \* accounts the user may record the payment on
    Ways,       \* what users do: form, skip, stop, close, execute
    None        \* SQL NULL

ASSUME PlansAssumption ==
    /\ Ways \subseteq {"form", "skip", "stop", "close", "execute"}
    /\ None \notin Sessions \cup Plans \cup Entries \cup Accounts

VARIABLES
    plan,         \* committed rows of planned_transactions
    entry,        \* the occurrence each posted entry was recorded for
    contract,     \* the deposit or policy the payment belongs to
    accountLock,  \* session holding an account FOR UPDATE
    planLock,     \* session that wrote an occurrence and has not committed
    session       \* what each session is doing

vars == <<plan, entry, contract, accountLock, planLock, session>>

-----------------------------------------------------------------------------
\* recurs: column recurrence is not "none".  last: nothing follows it, because the
\* term ends before the next date, or because the row has no category or account.
\* bound: it names its deposit or policy.
PlanRows ==
    [status : {"free", "pending", "executed", "cancelled"}, paidBy : Entries \cup {None},
     recurs : BOOLEAN, last : BOOLEAN, bound : BOOLEAN]

PendingRow(last, bound) ==
    [status |-> "pending", paidBy |-> None, recurs |-> TRUE, last |-> last, bound |-> bound]

NoPlan          == [PendingRow(FALSE, FALSE) EXCEPT !.status = "free"]
Scheduled(last) == PendingRow(last, TRUE)

\* executePlanned copies neither the category nor the deposit or policy.
Detached == PendingRow(TRUE, FALSE)

\* next: id the next occurrence gets.  snapshot: occurrences a closing request saw pending.
At(pc, p, e, a, n) ==
    [pc |-> pc, plan |-> p, entry |-> e, account |-> a, next |-> n, snapshot |-> {}]

Idle == At("idle", None, None, None, None)

SessionStates ==
    [pc : {"idle", "posted", "found", "closed", "skipFound", "skipped", "closing", "cancelling",
           "read", "paid", "executed"},
     plan : Plans \cup {None}, entry : Entries \cup {None}, account : Accounts \cup {None},
     next : Plans \cup {None}, snapshot : SUBSET Plans]

TypeOK ==
    /\ plan \in [Plans -> PlanRows]
    /\ entry \in [Entries -> Plans \cup {None}]
    /\ contract \in {"active", "closing", "closed"}
    /\ accountLock \in [Accounts -> Sessions \cup {None}]
    /\ planLock \in [Plans -> Sessions \cup {None}]
    /\ session \in [Sessions -> SessionStates]

\* The payment has been set up, and its first occurrence scheduled.
Init ==
    /\ \E p \in Plans, last \in BOOLEAN :
          plan = [q \in Plans |-> IF q = p THEN Scheduled(last) ELSE NoPlan]
    /\ entry = [e \in Entries |-> None]
    /\ contract = "active"
    /\ accountLock = [a \in Accounts |-> None]
    /\ planLock = [p \in Plans |-> None]
    /\ session = [s \in Sessions |-> Idle]

-----------------------------------------------------------------------------
Pending == {p \in Plans : plan[p].status = "pending"}

FreshPlans ==
    {p \in Plans : plan[p].status = "free" /\ \A s \in Sessions : session[s].next # p}

FreshEntries ==
    {e \in Entries : entry[e] = None /\ \A s \in Sessions : session[s].entry # e}

\* Mutant of WithNext: nothing is scheduled while another session is closing.
WithNextUnlessClosing(rows, p, n) ==
    IF contract # "active" \/ plan[p].last THEN {rows}
    ELSE {[q \in Plans |-> IF q = n THEN Scheduled(last) ELSE rows[q]] : last \in BOOLEAN}

\* The rows with what follows p: nothing once the deposit or policy is closed or
\* its term over, else a reminder, which may be the last.  Until the session that
\* closes it commits, others read it active.
WithNext(rows, p, n) ==
    IF contract = "closed" \/ plan[p].last THEN {rows}
    ELSE {[q \in Plans |-> IF q = n THEN Scheduled(last) ELSE rows[q]] : last \in BOOLEAN}

Ended(s) ==
    /\ accountLock' = [a \in Accounts |-> IF accountLock[a] = s THEN None ELSE accountLock[a]]
    /\ planLock' = [p \in Plans |-> IF planLock[p] = s THEN None ELSE planLock[p]]
    /\ session' = [session EXCEPT ![s] = Idle]

-----------------------------------------------------------------------------
(* The form: createTransactionAction with a planId *)

\* postEntry locks the account and inserts the entry, which nobody else sees yet.
FormPost(s, p, a) ==
    /\ session[s] = Idle
    /\ plan[p].status # "free"
    /\ accountLock[a] = None
    /\ accountLock' = [accountLock EXCEPT ![a] = s]
    /\ \E e \in FreshEntries, n \in FreshPlans :
          session' = [session EXCEPT ![s] = At("posted", p, e, a, n)]
    /\ UNCHANGED <<plan, entry, contract, planLock>>

\* Mutant of FormFind: an occurrence of any status is taken.
FormFindAny(s) ==
    /\ session[s].pc = "posted"
    /\ session' = [session EXCEPT ![s].pc = "found"]
    /\ UNCHANGED <<plan, entry, contract, accountLock, planLock>>

\* Mutant of FormFind: an occurrence no longer pending is waited for.
FormFindWaiting(s) ==
    /\ session[s].pc = "posted"
    /\ plan[session[s].plan].status = "pending"
    /\ session' = [session EXCEPT ![s].pc = "found"]
    /\ UNCHANGED <<plan, entry, contract, accountLock, planLock>>

\* The occurrence is read, unlocked; unless it is pending the entry is rolled back.
FormFind(s) ==
    /\ session[s].pc = "posted"
    /\ \/ /\ plan[session[s].plan].status = "pending"
          /\ session' = [session EXCEPT ![s].pc = "found"]
          /\ UNCHANGED <<accountLock, planLock>>
       \/ /\ plan[session[s].plan].status # "pending"
          /\ Ended(s)
    /\ UNCHANGED <<plan, entry, contract>>

\* UPDATE ... SET status = 'executed' WHERE id: waits for the row.
FormClose(s) ==
    LET p == session[s].plan
    IN  /\ session[s].pc = "found"
        /\ planLock[p] = None
        /\ planLock' = [planLock EXCEPT ![p] = s]
        /\ session' = [session EXCEPT ![s].pc = "closed"]
        /\ UNCHANGED <<plan, entry, contract, accountLock>>

Executed(p, e) == [plan EXCEPT ![p] = [@ EXCEPT !.status = "executed", !.paidBy = e]]

\* The deposit or policy is read, the next occurrence inserted, and all commits.
FormCommit(s) ==
    /\ session[s].pc = "closed"
    /\ plan' \in WithNext(Executed(session[s].plan, session[s].entry), session[s].plan, session[s].next)
    /\ entry' = [entry EXCEPT ![session[s].entry] = session[s].plan]
    /\ Ended(s)
    /\ UNCHANGED contract

-----------------------------------------------------------------------------
(* "Not received this month": closeIncomeOccurrence without a transaction *)

SkipFind(s, p) ==
    /\ session[s] = Idle
    /\ plan[p].status = "pending"
    /\ \E n \in FreshPlans : session' = [session EXCEPT ![s] = At("skipFound", p, None, None, n)]
    /\ UNCHANGED <<plan, entry, contract, accountLock, planLock>>

\* Mutant of SkipClose: the entry that paid the occurrence stays named.
SkipCloseKeepingEntry(s) ==
    LET p == session[s].plan
    IN  /\ session[s].pc = "skipFound"
        /\ planLock[p] = None
        /\ plan' = [plan EXCEPT ![p].status = "cancelled"]
        /\ session' = [session EXCEPT ![s].pc = "skipped"]
        /\ UNCHANGED <<entry, contract, accountLock, planLock>>

SkipClose(s) ==
    LET p == session[s].plan
    IN  /\ session[s].pc = "skipFound"
        /\ planLock[p] = None
        /\ plan' = [plan EXCEPT ![p] = [@ EXCEPT !.status = "cancelled", !.paidBy = None]]
        /\ session' = [session EXCEPT ![s].pc = "skipped"]
        /\ UNCHANGED <<entry, contract, accountLock, planLock>>

SkipSchedule(s) ==
    /\ session[s].pc = "skipped"
    /\ plan' \in WithNext(plan, session[s].plan, session[s].next)
    /\ Ended(s)
    /\ UNCHANGED <<entry, contract>>

-----------------------------------------------------------------------------
\* An occurrence cancelled for good.
Stopped(rows, p) == [rows EXCEPT ![p] = [@ EXCEPT !.status = "cancelled", !.recurs = FALSE]]

\* stopIncomePlan: one UPDATE, of a pending occurrence only.
StopPlan(s, p) ==
    /\ session[s] = Idle
    /\ plan[p].status = "pending"
    /\ planLock[p] = None
    /\ plan' = Stopped(plan, p)
    /\ UNCHANGED <<entry, contract, accountLock, planLock, session>>

\* closeDeposit and cancelPolicy, first statement.
BeginClose(s) ==
    /\ session[s] = Idle
    /\ contract = "active"
    /\ contract' = "closing"
    /\ session' = [session EXCEPT ![s].pc = "closing"]
    /\ UNCHANGED <<plan, entry, accountLock, planLock>>

\* Second statement: the occurrences it will cancel are those of the deposit or
\* policy that it sees pending now.
CancelPending(s) ==
    /\ session[s].pc = "closing"
    /\ session' = [session EXCEPT ![s] = [@ EXCEPT !.pc = "cancelling", !.snapshot = {p \in Pending : plan[p].bound}]]
    /\ UNCHANGED <<plan, entry, contract, accountLock, planLock>>

\* It waits for the rows; one no longer pending is left alone.
CommitClose(s) ==
    LET cancelled == session[s].snapshot \cap Pending
    IN  /\ session[s].pc = "cancelling"
        /\ \A p \in session[s].snapshot : planLock[p] = None
        /\ plan' = [p \in Plans |-> IF p \in cancelled THEN Stopped(plan, p)[p] ELSE plan[p]]
        /\ contract' = "closed"
        /\ Ended(s)
        /\ UNCHANGED entry

-----------------------------------------------------------------------------
(* executePlanned: three transactions *)

\* An occurrence already executed is answered at once.
ExecuteRead(s, p) ==
    /\ session[s] = Idle
    /\ plan[p].status \notin {"free", "executed"}
    /\ \E e \in FreshEntries, a \in Accounts, n \in FreshPlans :
          session' = [session EXCEPT ![s] = At("read", p, e, a, IF plan[p].recurs THEN n ELSE None)]
    /\ UNCHANGED <<plan, entry, contract, accountLock, planLock>>

ExecutePost(s) ==
    /\ session[s].pc = "read"
    /\ accountLock[session[s].account] = None
    /\ entry' = [entry EXCEPT ![session[s].entry] = session[s].plan]
    /\ session' = [session EXCEPT ![s].pc = "paid"]
    /\ UNCHANGED <<plan, contract, accountLock, planLock>>

ExecuteMark(s) ==
    /\ session[s].pc = "paid"
    /\ planLock[session[s].plan] = None
    /\ plan' = Executed(session[s].plan, session[s].entry)
    /\ session' = [session EXCEPT ![s].pc = "executed"]
    /\ UNCHANGED <<entry, contract, accountLock, planLock>>

ExecuteSchedule(s) ==
    /\ session[s].pc = "executed"
    /\ plan' = IF session[s].next = None THEN plan ELSE [plan EXCEPT ![session[s].next] = Detached]
    /\ Ended(s)
    /\ UNCHANGED <<entry, contract>>

-----------------------------------------------------------------------------
\* The process dies or a statement throws: what was committed stays.
Rollback(s) ==
    /\ session[s] # Idle
    /\ Ended(s)
    /\ contract' = IF session[s].pc \in {"closing", "cancelling"} THEN "active" ELSE contract
    /\ UNCHANGED <<plan, entry>>

Begin(s) ==
    \/ "form" \in Ways /\ \E p \in Plans, a \in Accounts : FormPost(s, p, a)
    \/ "skip" \in Ways /\ \E p \in Plans : SkipFind(s, p)
    \/ "stop" \in Ways /\ \E p \in Plans : StopPlan(s, p)
    \/ "close" \in Ways /\ BeginClose(s)
    \/ "execute" \in Ways /\ \E p \in Plans : ExecuteRead(s, p)

Continue(s) ==
    \/ FormFind(s) \/ FormClose(s) \/ FormCommit(s)
    \/ SkipClose(s) \/ SkipSchedule(s)
    \/ CancelPending(s) \/ CommitClose(s)
    \/ ExecutePost(s) \/ ExecuteMark(s) \/ ExecuteSchedule(s)

Next == \E s \in Sessions : Begin(s) \/ Continue(s) \/ Rollback(s)

\* A request that has begun is carried on by the server, and PostgreSQL hands a
\* lock to its waiters in turn.
Fairness == \A s \in Sessions : SF_vars(Continue(s))

Spec == Init /\ [][Next]_vars /\ Fairness

-----------------------------------------------------------------------------
(* Properties *)

EntriesOf(p) == {e \in Entries : entry[e] = p}

\* "An already-executed plan is never posted twice" (planning/service.ts:1015) and
\* "one reminder can never be paid twice" (insurance/service.ts:591-592).
PaidOnce == \A p \in Plans : Cardinality(EntriesOf(p)) <= 1

\* An occurrence is executed by an entry that was posted for it: a request that
\* fails half way, or works on what another has closed, leaves no executed
\* occurrence without its payment.
ExecutedHasItsEntry ==
    \A p \in Plans :
        /\ plan[p].status = "executed" => plan[p].paidBy \in EntriesOf(p)
        /\ plan[p].status # "executed" => plan[p].paidBy = None

\* The last occurrence was paid: the deposit has matured, or the policy's term is over.
TermOver == \E p \in Plans : plan[p].status = "executed" /\ plan[p].last

\* The chain neither breaks nor forks, whatever fails: never two occurrences are
\* pending, exactly one until the payment is stopped, its deposit or policy closed
\* or its term over, and none after the last ("none after it",
\* income/service.ts:117; "until the term ends", insurance/service.ts:590).
OneReminder ==
    /\ Cardinality(Pending) <= 1
    /\ contract # "closed" /\ (\A p \in Plans : plan[p].recurs) /\ ~TermOver =>
          Cardinality(Pending) = 1
    /\ TermOver => Pending = {}

\* Every request that has begun is answered.
RequestsEnd ==
    \A s \in Sessions : session[s].pc # "idle" ~> session[s].pc = "idle"

-----------------------------------------------------------------------------
(* What a comment or a test of the source says, and a run shows it does not keep: *)
(* see "Divergences" in the README.                                              *)

\* "Only this user's pending row qualifies" (income/service.ts:152).
OnlyPendingCloses ==
    [][\A p \in Plans : plan[p].status \notin {"free", "pending"} => plan'[p].status = plan[p].status]_vars

\* "Its pending occurrence is cancelled, nothing new is scheduled" (income/service.ts:211).
StopIsFinal == (\E p \in Plans : ~plan[p].recurs) => Pending = {}

\* "The pending interest reminder is cancelled, no new one is scheduled"
\* (deposits/service.ts:204), and for policies "the pending premium goes"
\* (insurance/service.ts:484).
NothingPendingAfterClose == contract = "closed" => Pending = {}
=============================================================================
