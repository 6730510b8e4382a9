------------------------------- MODULE Cheques -------------------------------
(***************************************************************************)
(* The cheque book (features/cheques/service.ts) together with the two     *)
(* ledger operations it is tied to: the transaction form that records a    *)
(* cheque as cleared, and the reversal of a journal entry through each of  *)
(* the three doors that reach reverseEntry.                                *)
(*                                                                         *)
(* Every request runs in a database session.  A session's transaction runs *)
(* under READ COMMITTED: a statement sees committed rows, what a           *)
(* transaction wrote becomes visible when it commits, and a row it locked  *)
(* stays locked until then.                                                *)
(***************************************************************************)
EXTENDS Naturals, FiniteSets

CONSTANTS
    Sessions,   \* concurrent requests' database sessions
    Cheques,    \* cheque ids
    Entries,    \* journal entry ids
    Doors,      \* the ways a journal entry is reversed in this deployment
    None        \* SQL NULL

AllDoors == {"action", "api", "repair"}

\* Mutant of RevertingDoors: no door calls revertClearedChequeInTx.
NoRevertingDoors == {}

\* The door that also calls revertClearedChequeInTx.
RevertingDoors == {"action"}

ASSUME ChequeAssumption ==
    /\ Doors \subseteq AllDoors
    /\ None \notin Sessions \cup Cheques \cup Entries

VARIABLES
    cheque,     \* committed rows of table cheques
    entry,      \* committed status of each journal entry
    clears,     \* history: the cheque the form named when it posted the entry
    chequeLock, \* session holding the row lock of a cheque
    entryLock,  \* session holding the row lock of an entry
    session     \* what each session is doing

vars == <<cheque, entry, clears, chequeLock, entryLock, session>>

-----------------------------------------------------------------------------
Directions == {"issued", "received"}
Statuses   == {"pending", "cleared", "bounced", "cancelled"}
EntryTypes == {"income", "expense", "transfer", "buy", "sell", "debt_repayment", "fx"}

\* Transaction types that can settle a cheque, by the way money moves.
CLEARING_TYPES ==
    [issued   |-> {"expense", "debt_repayment", "transfer", "buy"},
     received |-> {"income", "debt_repayment", "transfer", "sell"}]

\* Manual state changes.
TRANSITIONS ==
    [pending   |-> {"bounced", "cancelled"},
     bounced   |-> {"pending", "cancelled"},
     cancelled |-> {"pending"},
     cleared   |-> {}]

NoRow == [status |-> "absent", direction |-> "issued", clearedEntry |-> None]

\* "absent" and "deleted" stand for the absence of a row; an id is never reused.
ChequeRows ==
    [status : Statuses \cup {"absent", "deleted"}, direction : Directions,
     clearedEntry : Entries \cup {None}]

\* Where a session is, the rows it works on, what was asked and what it has read.
At(pc, c, e, arg, seen) ==
    [pc |-> pc, cheque |-> c, entry |-> e, arg |-> arg, seen |-> seen]

Idle == At("idle", None, None, "none", "none")

SessionStates ==
    [pc     : {"idle", "formPosted", "formLocked", "statusRead", "reversing"},
     cheque : Cheques \cup {None},
     entry  : Entries \cup {None},
     arg    : EntryTypes \cup Statuses \cup AllDoors \cup {"none"},
     seen   : Statuses \cup {"none"}]

TypeOK ==
    /\ cheque \in [Cheques -> ChequeRows]
    /\ entry \in [Entries -> {"free", "posted", "void"}]
    /\ clears \in [Entries -> Cheques \cup {None}]
    /\ chequeLock \in [Cheques -> Sessions \cup {None}]
    /\ entryLock \in [Entries -> Sessions \cup {None}]
    /\ session \in [Sessions -> SessionStates]

Init ==
    /\ cheque = [c \in Cheques |-> NoRow]
    /\ entry = [e \in Entries |-> "free"]
    /\ clears = [e \in Entries |-> None]
    /\ chequeLock = [c \in Cheques |-> None]
    /\ entryLock = [e \in Entries |-> None]
    /\ session = [s \in Sessions |-> Idle]

-----------------------------------------------------------------------------
Reserved == {session[s].entry : s \in Sessions}

\* createCheque: one INSERT; a new cheque is pending.
CreateCheque(s, c, dir) ==
    /\ session[s] = Idle
    /\ cheque[c].status = "absent"
    /\ cheque' = [cheque EXCEPT ![c] =
                     [status |-> "pending", direction |-> dir, clearedEntry |-> None]]
    /\ UNCHANGED <<entry, clears, chequeLock, entryLock, session>>

\* deleteCheque: one conditional DELETE, which waits for the row's lock.
DeleteCheque(s, c) ==
    /\ session[s] = Idle
    /\ cheque[c].status \in Statuses \ {"cleared"}
    /\ chequeLock[c] = None
    /\ cheque' = [cheque EXCEPT ![c].status = "deleted"]
    /\ UNCHANGED <<entry, clears, chequeLock, entryLock, session>>

\* setChequeStatus, first statement: the status is read and judged, unlocked.
ReadStatus(s, c, next) ==
    /\ session[s] = Idle
    /\ cheque[c].status \in Statuses
    /\ next \in TRANSITIONS[cheque[c].status]
    /\ session' = [session EXCEPT ![s] =
                      At("statusRead", c, None, next, cheque[c].status)]
    /\ UNCHANGED <<cheque, entry, clears, chequeLock, entryLock>>

\* Mutant of WriteStatus: the UPDATE is not conditional on the status read.
WriteStatusBlindly(s) ==
    LET c == session[s].cheque
    IN  /\ session[s].pc = "statusRead"
        /\ chequeLock[c] = None
        /\ cheque' = [cheque EXCEPT ![c].status = session[s].arg]
        /\ session' = [session EXCEPT ![s] = Idle]
        /\ UNCHANGED <<entry, clears, chequeLock, entryLock>>

\* setChequeStatus, second statement: an UPDATE conditional on the status read.
\* No row matching it is not an error.
WriteStatus(s) ==
    LET c == session[s].cheque
        current == session[s].seen
    IN  /\ session[s].pc = "statusRead"
        /\ \/ /\ cheque[c].status = current
              /\ chequeLock[c] = None
              /\ cheque' = [cheque EXCEPT ![c].status = session[s].arg]
           \/ /\ cheque[c].status # current
              /\ UNCHANGED cheque
        /\ session' = [session EXCEPT ![s] = Idle]
        /\ UNCHANGED <<entry, clears, chequeLock, entryLock>>

-----------------------------------------------------------------------------
\* createTransactionAction with a chequeId: the entry is posted first, inside
\* the form's transaction, so no other session sees it yet.
FormPost(s, c, e, type) ==
    /\ session[s] = Idle
    /\ entry[e] = "free"
    /\ e \notin Reserved
    /\ session' = [session EXCEPT ![s] =
                      At("formPosted", c, e, type, "none")]
    /\ UNCHANGED <<cheque, entry, clears, chequeLock, entryLock>>

\* Mutant of ClearCheque: the pending cheque is read without FOR UPDATE.
ClearChequeUnlocked(s) ==
    LET c == session[s].cheque
    IN  /\ session[s].pc = "formPosted"
        /\ cheque[c].status = "pending"
        /\ session[s].arg \in CLEARING_TYPES[cheque[c].direction]
        /\ session' = [session EXCEPT ![s].pc = "formLocked"]
        /\ UNCHANGED <<cheque, entry, clears, chequeLock, entryLock>>

\* clearChequeInTx: SELECT ... WHERE status = 'pending' FOR UPDATE.  No such row,
\* or money moving the wrong way, throws and the entry is rolled back with it.
ClearCheque(s) ==
    LET c == session[s].cheque
        clearable == session[s].arg \in CLEARING_TYPES[cheque[c].direction]
    IN  /\ session[s].pc = "formPosted"
        /\ \/ /\ cheque[c].status = "pending"
              /\ chequeLock[c] = None
              /\ clearable
              /\ chequeLock' = [chequeLock EXCEPT ![c] = s]
              /\ session' = [session EXCEPT ![s].pc = "formLocked"]
           \/ /\ \/ cheque[c].status # "pending"
                 \/ chequeLock[c] = None /\ ~clearable
              /\ session' = [session EXCEPT ![s] = Idle]
              /\ UNCHANGED chequeLock
        /\ UNCHANGED <<cheque, entry, clears, entryLock>>

\* Mutant of FormCommit: the cheque stays locked.
FormCommitKeepingLock(s) ==
    LET c == session[s].cheque
        e == session[s].entry
    IN  /\ session[s].pc = "formLocked"
        /\ entry' = [entry EXCEPT ![e] = "posted"]
        /\ clears' = [clears EXCEPT ![e] = c]
        /\ cheque' = [cheque EXCEPT ![c] = [@ EXCEPT !.status = "cleared", !.clearedEntry = e]]
        /\ session' = [session EXCEPT ![s] = Idle]
        /\ UNCHANGED <<chequeLock, entryLock>>

\* The form's transaction commits: entry and cheque change together.
FormCommit(s) ==
    LET c == session[s].cheque
        e == session[s].entry
    IN  /\ session[s].pc = "formLocked"
        /\ entry' = [entry EXCEPT ![e] = "posted"]
        /\ clears' = [clears EXCEPT ![e] = c]
        /\ cheque' = [cheque EXCEPT ![c] = [@ EXCEPT !.status = "cleared", !.clearedEntry = e]]
        /\ chequeLock' = [chequeLock EXCEPT ![c] = None]
        /\ session' = [session EXCEPT ![s] = Idle]
        /\ UNCHANGED entryLock

\* The process dies, or a later step of the form throws: PostgreSQL rolls back.
Rollback(s) ==
    /\ session[s].pc \in {"formPosted", "formLocked", "reversing"}
    /\ chequeLock' = [c \in Cheques |-> IF chequeLock[c] = s THEN None ELSE chequeLock[c]]
    /\ entryLock' = [e \in Entries |-> IF entryLock[e] = s THEN None ELSE entryLock[e]]
    /\ session' = [session EXCEPT ![s] = Idle]
    /\ UNCHANGED <<cheque, entry, clears>>

-----------------------------------------------------------------------------
\* reverseEntry: SELECT ... FOR UPDATE of the entry row, then its status is read.
ReverseLock(s, e, door) ==
    /\ session[s] = Idle
    /\ entry[e] = "posted"
    /\ entryLock[e] = None
    /\ entryLock' = [entryLock EXCEPT ![e] = s]
    /\ session' = [session EXCEPT ![s] =
                      At("reversing", None, e, door, "none")]
    /\ UNCHANGED <<cheque, entry, clears, chequeLock>>

\* revertClearedChequeInTx: every cheque that entry cleared is pending again.
Reverted(e) ==
    [c \in Cheques |->
        IF cheque[c].clearedEntry = e
        THEN [cheque[c] EXCEPT !.status = "pending", !.clearedEntry = None]
        ELSE cheque[c]]

\* The reversal commits; only reverseEntryAction reverts the cheque with it.
ReverseCommit(s) ==
    LET e == session[s].entry
    IN  /\ session[s].pc = "reversing"
        /\ entry' = [entry EXCEPT ![e] = "void"]
        /\ cheque' = IF session[s].arg \in RevertingDoors THEN Reverted(e) ELSE cheque
        /\ entryLock' = [entryLock EXCEPT ![e] = None]
        /\ session' = [session EXCEPT ![s] = Idle]
        /\ UNCHANGED <<clears, chequeLock>>

-----------------------------------------------------------------------------
\* What a session that has begun does next.
Continue(s) ==
    \/ WriteStatus(s)
    \/ ClearCheque(s)
    \/ FormCommit(s)
    \/ ReverseCommit(s)

Begin(s) ==
    \/ \E c \in Cheques, dir \in Directions : CreateCheque(s, c, dir)
    \/ \E c \in Cheques : DeleteCheque(s, c)
    \/ \E c \in Cheques, next \in Statuses : ReadStatus(s, c, next)
    \/ \E c \in Cheques, e \in Entries, type \in EntryTypes : FormPost(s, c, e, type)
    \/ \E e \in Entries, door \in Doors : ReverseLock(s, e, door)

Next == \E s \in Sessions : Begin(s) \/ Continue(s) \/ Rollback(s)

\* A request that has begun is carried on by the server until it answers, and
\* PostgreSQL hands a row lock to its waiters in turn.
Fairness == \A s \in Sessions : SF_vars(Continue(s))

Spec == Init /\ [][Next]_vars /\ Fairness

-----------------------------------------------------------------------------
(* Properties *)

\* A posted entry that was recorded as the clearing of a cheque has that cheque
\* cleared by it ("nor the entry without the cheque"): whatever door reverses
\* entries, no cheque is paid by two live entries and none loses its entry.
EntryWithItsCheque ==
    \A e \in Entries :
        entry[e] = "posted" =>
            /\ clears[e] # None
            /\ cheque[clears[e]].status = "cleared"
            /\ cheque[clears[e]].clearedEntry = e

\* A cheque is cleared exactly when a live entry cleared it ("a cheque is never
\* cleared without its entry").
ClearedWithItsEntry ==
    \A c \in Cheques :
        /\ cheque[c].status = "cleared" =>
              /\ cheque[c].clearedEntry # None
              /\ entry[cheque[c].clearedEntry] = "posted"
        /\ cheque[c].status # "cleared" => cheque[c].clearedEntry = None

\* setChequeStatus and deleteCheque, however stale what they read, never take a
\* cheque out of "cleared": only the reversal of its entry does.
OnlyReversalUnclears ==
    [][\A c \in Cheques :
          cheque[c].status = "cleared" /\ cheque'[c].status # "cleared" =>
              /\ entry[cheque[c].clearedEntry] = "posted"
              /\ entry'[cheque[c].clearedEntry] = "void"]_vars

\* Every request that has begun ends: no lock of the cheque book or of the entry
\* is waited for in a circle or for ever.
RequestsEnd ==
    \A s \in Sessions : session[s].pc # "idle" ~> session[s].pc = "idle"

-----------------------------------------------------------------------------
(* The cheque book implements ChequeBook, where clearing and reversing are one step. *)

Book == INSTANCE ChequeBook WITH
            status <- [c \in Cheques |-> cheque[c].status],
            paidBy <- [c \in Cheques |-> cheque[c].clearedEntry],
            ledger <- entry

BookSpec == Book!Spec
=============================================================================
