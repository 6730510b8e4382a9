-------------------------------- MODULE Setup --------------------------------
(***************************************************************************)
(* The set-up wizard of one user (features/setup/workflow.ts): finishSetup *)
(* records the chart of accounts with the opening entry, then every        *)
(* vehicle, property and debt in a transaction of its own, then marks the  *)
(* set-up completed.  It may be retried after any failure, with the data   *)
(* edited in between, while an earlier attempt is still running.           *)
(*                                                                         *)
(* An attempt holds a lease on the user's row of setup_sessions.  Every    *)
(* transaction ends with an UPDATE of that row which finds it only under   *)
(* the attempt's own token, and writes the attempt's copy of the progress: *)
(* a receipt, with a hash of the data, for each thing recorded.            *)
(***************************************************************************)
EXTENDS Naturals, Sequences

CONSTANTS
    Sessions,    \* concurrent requests; the one attempt each makes at a time has its token
    Items,       \* numbers of the vehicles, properties and debts, in the order they are recorded
    Vehicles,    \* the items that get a valuation too
    Versions,    \* data that can be entered for one thing: their hashes
    Requests,    \* what is sent to finishSetup
    MaxFaults,   \* bound: failures, stalls and attempts with data that do not fit
    None         \* SQL NULL, or nothing entered

Base == 0
Jobs == {Base} \cup Items

ASSUME SetupAssumption ==
    /\ Items \subseteq Nat \ {Base}
    /\ Vehicles \subseteq Items
    /\ Requests \subseteq [Jobs -> Versions \cup {None}]
    /\ \A r \in Requests : r[Base] # None
    /\ MaxFaults \in Nat
    /\ None \notin Sessions \cup Versions \cup Requests

VARIABLES
    row,         \* the user's committed row of setup_sessions
    rowLock,     \* session holding that row FOR UPDATE
    made,        \* what has been recorded for each job
    valued,      \* vehicles with a valuation of today
    legacy,      \* the user had accounts before there was a wizard
    completed,   \* user_setup_state.completed, how it came about, and with which request
    session,     \* what each request is doing
    faults       \* failures so far

books == <<made, valued>>
vars == <<row, rowLock, made, valued, legacy, completed, session, faults>>

-----------------------------------------------------------------------------
Progresses == [Jobs -> Versions \cup {None}]

\* expired: lease_until has passed.
SessionRows ==
    [exists : BOOLEAN, lease : Sessions \cup {None}, expired : BOOLEAN, progress : Progresses,
     draft : BOOLEAN]

NoProgress == [j \in Jobs |-> None]

NoRow == [exists |-> FALSE, lease |-> None, expired |-> FALSE, progress |-> NoProgress, draft |-> FALSE]

\* progress: the attempt's copy.  todo: items of the request it has not come to.  job:
\* the one it is at.
AttemptStates ==
    [pc : {"idle", "checked", "leased", "base", "posting", "items", "creating", "valuing",
           "ending", "confirming"},
     request : Requests \cup {None}, progress : Progresses, todo : SUBSET Items,
     job : Jobs]

Idle == [pc |-> "idle", request |-> None, progress |-> NoProgress, todo |-> {}, job |-> Base]

Completions == [how : {"no", "confirmed", "unseen", "finished"}, request : Requests \cup {None}]

TypeOK ==
    /\ row \in SessionRows
    /\ rowLock \in Sessions \cup {None}
    /\ made \in [Jobs -> Seq(Versions)]
    /\ valued \subseteq Vehicles
    /\ legacy \in BOOLEAN
    /\ completed \in Completions
    /\ session \in [Sessions -> AttemptStates]
    /\ faults \in 0..MaxFaults

Init ==
    /\ row = NoRow
    /\ rowLock = None
    /\ made = [j \in Jobs |-> <<>>]
    /\ valued = {}
    /\ legacy \in BOOLEAN
    /\ completed = [how |-> "no", request |-> None]
    /\ session = [s \in Sessions |-> Idle]
    /\ faults = 0

-----------------------------------------------------------------------------
Completed == completed.how # "no"

JobsOf(r) == {i \in Items : r[i] # None}

\* The data fit what has been recorded.
Fits(r) == ~legacy /\ \A j \in Jobs : row.progress[j] \in {None, r[j]} \/ r[j] = None

Fault == faults < MaxFaults /\ faults' = faults + 1

Goes(s, pc) == session' = [session EXCEPT ![s].pc = pc]

\* Mutant of Holds: the token is not compared.
HoldsSome(s) == row.lease # None

\* The row is found under the attempt's token.
Holds(s) == row.lease = s

\* The transaction that records job j ends with the UPDATE of the row: the attempt's
\* progress with the new receipt, and five more minutes.
Recorded(s, j, pc) ==
    /\ Holds(s)
    /\ rowLock = None
    /\ row' = [row EXCEPT !.expired = FALSE,
                          !.progress = [session[s].progress EXCEPT ![j] = session[s].request[j]]]
    /\ session' = [session EXCEPT ![s] = [@ EXCEPT !.pc = pc, !.progress[j] = session[s].request[j]]]
    /\ made' = [made EXCEPT ![j] = Append(made[j], session[s].request[j])]
    /\ UNCHANGED <<rowLock, valued, legacy, completed, faults>>

-----------------------------------------------------------------------------
(* finishSetup *)

\* Not completed yet, and the selection is valid.
Begin(s, r) ==
    /\ session[s] = Idle
    /\ ~Completed
    /\ session' = [session EXCEPT ![s] = [Idle EXCEPT !.pc = "checked", !.request = r, !.todo = JobsOf(r)]]
    /\ IF Fits(r) THEN UNCHANGED faults ELSE Fault
    /\ UNCHANGED <<row, rowLock, books, legacy, completed>>

\* Mutant of Free: a lease that has lapsed is not taken over.
FreeIfReleased == row.lease = None

Free == row.lease = None \/ row.expired

\* The row is inserted if there is none; one conditional UPDATE takes the lease and
\* returns the progress.  An attempt that is refused ends.
TakeLease(s) ==
    /\ session[s].pc = "checked"
    /\ rowLock = None
    /\ IF Free
       THEN /\ row' = [row EXCEPT !.exists = TRUE, !.lease = s, !.expired = FALSE]
            /\ session' = [session EXCEPT ![s] = [@ EXCEPT !.pc = "leased", !.progress = row.progress]]
       ELSE /\ session' = [session EXCEPT ![s] = Idle]
            /\ UNCHANGED row
    /\ UNCHANGED <<rowLock, books, legacy, completed, faults>>

\* Mutant of Recheck: completion is looked for before the lease only.
RecheckBase(s) ==
    LET recorded == session[s].progress[Base]
    IN  /\ session[s].pc = "leased"
        /\ Goes(s, CASE recorded = None -> "base"
                     [] recorded = session[s].request[Base] -> "items"
                     [] OTHER -> "ending")
        /\ UNCHANGED <<row, rowLock, books, legacy, completed, faults>>

\* Under the lease it is looked again whether the set-up is completed, and whether the
\* accounts and balances have been recorded, with the same data.
Recheck(s) ==
    LET recorded == session[s].progress[Base]
    IN  /\ session[s].pc = "leased"
        /\ Goes(s, CASE Completed -> "ending"
                     [] ~Completed /\ recorded = None -> "base"
                     [] ~Completed /\ recorded = session[s].request[Base] -> "items"
                     [] OTHER -> "ending")
        /\ UNCHANGED <<row, rowLock, books, legacy, completed, faults>>

\* Accounts are there although no receipt says so: nothing is recorded again.
CheckAccounts(s) ==
    /\ session[s].pc = "base"
    /\ Goes(s, IF legacy \/ made[Base] # <<>> \/ Completed THEN "ending" ELSE "posting")
    /\ UNCHANGED <<row, rowLock, books, legacy, completed, faults>>

\* completeSetup: the chart of accounts, the opening entry and the receipt.
PostBase(s) ==
    /\ session[s].pc = "posting"
    /\ Recorded(s, Base, "items")

\* A vehicle's valuation comes after it.
After(i) == IF i \in Vehicles THEN "valuing" ELSE "items"

\* Mutant of BeginItem: an item recorded with other data is taken for this one.
BeginItemUnhashed(s, i) ==
    LET receipt == session[s].progress[i]
    IN  /\ session[s].pc = "items"
        /\ i \in session[s].todo
        /\ \A k \in session[s].todo : i <= k
        /\ Holds(s)
        /\ rowLock = None
        /\ row' = [row EXCEPT !.expired = FALSE, !.progress = session[s].progress]
        /\ session' = [session EXCEPT ![s] =
                          [@ EXCEPT !.todo = session[s].todo \ {i}, !.job = i,
                                    !.pc = IF receipt = None THEN "creating" ELSE After(i)]]
        /\ UNCHANGED <<rowLock, books, legacy, completed, faults>>

\* The next item: the lease is renewed, and the item's receipt looked at.
BeginItem(s, i) ==
    LET receipt == session[s].progress[i]
    IN  /\ session[s].pc = "items"
        /\ i \in session[s].todo
        /\ \A k \in session[s].todo : i <= k
        /\ Holds(s)
        /\ rowLock = None
        /\ row' = [row EXCEPT !.expired = FALSE, !.progress = session[s].progress]
        /\ session' = [session EXCEPT ![s] =
                          [@ EXCEPT !.todo = session[s].todo \ {i}, !.job = i,
                                    !.pc = CASE receipt = None -> "creating"
                                             [] receipt = session[s].request[i] -> After(i)
                                             [] OTHER -> "ending"]]
        /\ UNCHANGED <<rowLock, books, legacy, completed, faults>>

\* createUserVehicle, createRealEstateAsset or createDebtRecord, with its receipt.
CreateItem(s) ==
    /\ session[s].pc = "creating"
    /\ Recorded(s, session[s].job, After(session[s].job))

\* The vehicle's value of today, once a day, whoever holds the lease.
Value(s) ==
    /\ session[s].pc = "valuing"
    /\ valued' = valued \cup {session[s].job}
    /\ Goes(s, "items")
    /\ UNCHANGED <<row, rowLock, made, legacy, completed, faults>>

\* Everything is recorded: completed, and the draft deleted, in one transaction.
Finish(s) ==
    /\ session[s].pc = "items"
    /\ session[s].todo = {}
    /\ Holds(s)
    /\ rowLock = None
    /\ completed' = [how |-> "finished", request |-> session[s].request]
    /\ row' = [row EXCEPT !.expired = FALSE, !.progress = session[s].progress, !.draft = FALSE]
    /\ Goes(s, "ending")
    /\ UNCHANGED <<rowLock, books, legacy, faults>>

\* The row is no longer found under the token: the transaction is rolled back.
LoseLease(s) ==
    /\ session[s].pc \in {"posting", "items", "creating"}
    /\ ~Holds(s)
    /\ Goes(s, "ending")
    /\ UNCHANGED <<row, rowLock, books, legacy, completed, faults>>

\* The finally block releases the lease if it is still the attempt's.
End(s) ==
    /\ session[s].pc = "ending"
    /\ rowLock = None
    /\ row' = IF Holds(s) THEN [row EXCEPT !.lease = None, !.expired = FALSE] ELSE row
    /\ session' = [session EXCEPT ![s] = Idle]
    /\ UNCHANGED <<rowLock, books, legacy, completed, faults>>

-----------------------------------------------------------------------------
(* saveSetupDraft and confirmExistingSetupAction *)

\* The draft is stored in a new row, or in one under no lease.
SaveDraft ==
    /\ ~Completed
    /\ rowLock = None
    /\ row.exists => row.lease = None
    /\ row' = [row EXCEPT !.exists = TRUE, !.draft = TRUE]
    /\ UNCHANGED <<rowLock, books, legacy, completed, session, faults>>

\* A user with accounts confirms them.  The row is locked, if there is one; what an
\* attempt has begun is not confirmed.
ReadRow(s) ==
    /\ session[s] = Idle
    /\ rowLock = None
    /\ row.progress[Base] = None /\ row.lease = None
    /\ rowLock' = IF row.exists THEN s ELSE None
    /\ Goes(s, "confirming")
    /\ UNCHANGED <<row, books, legacy, completed, faults>>

Confirm(s) ==
    /\ session[s].pc = "confirming"
    /\ completed' = IF ~Completed /\ (legacy \/ made[Base] # <<>>)
                    THEN [how |-> IF rowLock = s THEN "confirmed" ELSE "unseen", request |-> None]
                    ELSE completed
    /\ rowLock' = IF rowLock = s THEN None ELSE rowLock
    /\ session' = [session EXCEPT ![s] = Idle]
    /\ UNCHANGED <<row, books, legacy, faults>>

-----------------------------------------------------------------------------
\* Under the lease anything may throw: the finally block follows.
Throw(s) ==
    /\ session[s].pc \in {"leased", "base", "posting", "items", "creating", "valuing"}
    /\ Fault
    /\ Goes(s, "ending")
    /\ UNCHANGED <<row, rowLock, books, legacy, completed>>

\* The server dies, or does not reach the database: the lease stays.
Crash(s) ==
    /\ session[s] # Idle
    /\ Fault
    /\ rowLock' = IF rowLock = s THEN None ELSE rowLock
    /\ session' = [session EXCEPT ![s] = Idle]
    /\ UNCHANGED <<row, books, legacy, completed>>

Running(s) == session[s].pc \notin {"idle", "checked", "confirming"}

\* Five minutes pass since the lease was renewed.  It is a fault if the attempt is
\* still running.
Lapse ==
    /\ row.lease # None
    /\ ~row.expired
    /\ row' = [row EXCEPT !.expired = TRUE]
    /\ IF Running(row.lease) THEN Fault ELSE UNCHANGED faults
    /\ UNCHANGED <<rowLock, books, legacy, completed, session>>

Continue(s) ==
    \/ TakeLease(s) \/ Recheck(s) \/ CheckAccounts(s) \/ PostBase(s)
    \/ \E i \in Items : BeginItem(s, i)
    \/ CreateItem(s) \/ Value(s) \/ Finish(s) \/ LoseLease(s) \/ End(s) \/ Confirm(s)

Next ==
    \/ \E s \in Sessions :
          \/ \E r \in Requests : Begin(s, r)
          \/ ReadRow(s)
          \/ Continue(s)
          \/ Throw(s) \/ Crash(s)
    \/ SaveDraft
    \/ Lapse

\* A request that has begun is carried on; time passes; and the user comes back, to
\* confirm the accounts or with data that fit what is recorded already.
Fairness ==
    /\ \A s \in Sessions :
          /\ SF_vars(Continue(s))
          /\ SF_vars(ReadRow(s))
          /\ SF_vars(\E r \in Requests : Fits(r) /\ Begin(s, r))
    /\ WF_vars(Lapse)

Spec == Init /\ [][Next]_vars /\ Fairness

-----------------------------------------------------------------------------
(* Properties *)

\* A set-up that the wizard completes has recorded every thing of the request that
\* completed it, with its data and a vehicle with its value, and keeps no draft of it.
\* One that was confirmed had its accounts before, and nothing half recorded, if there was
\* a row to look at.
CompletedWhole ==
    /\ completed.how = "finished" =>
          /\ \A j \in Jobs :
                completed.request[j] # None =>
                    made[j] = <<completed.request[j]>> /\ (j \in Vehicles => j \in valued)
          /\ ~row.draft
    /\ completed.how = "confirmed" => legacy /\ \A j \in Jobs : made[j] = <<>>

\* Whatever attempt is still under way, nothing is recorded once the wizard is done.
NothingAfterwards == [][completed.how = "finished" => made' = made]_vars

\* No failure, stall or edited field blocks the wizard for good.  What may block is the
\* confirmation: a user with accounts, and an attempt that died before it was refused, whose
\* lease confirmExistingSetupAction minds although it has run out.
SetupCompletes == <>[](Completed \/ (legacy /\ row.expired))

\* The accounts, and each item, are recorded once, however often and by however many
\* attempts at a time the set-up is sent: what recorded it is never replaced.
Books == INSTANCE Once WITH
    Records <- {<<v>> : v \in Versions},
    recorded <- [j \in Jobs |-> IF made[j] = <<>> THEN None ELSE made[j]]

RecordedOnce == Books!Spec
=============================================================================
