------------------------------- MODULE Ledger -------------------------------
(***************************************************************************)
(* The write path of the double-entry ledger: postEntry and reverseEntry   *)
(* of features/ledger/service.ts, run by concurrent database sessions      *)
(* under READ COMMITTED.                                                   *)
(*                                                                         *)
(* No balance is stored: a balance is the sum of the posted entries' legs. *)
(* An entry is inserted, and a reversal recorded, in a transaction that    *)
(* becomes visible when it commits.  postEntry locks the accounts it moves *)
(* FOR UPDATE, in ascending order.  reverseEntry locks the entry; the      *)
(* foreign key of the mirror postings it inserts takes a KEY SHARE lock on *)
(* each account, in the order of the postings, and that lock and FOR       *)
(* UPDATE exclude each other.                                              *)
(***************************************************************************)
EXTENDS Integers, FiniteSets, Functions

CONSTANTS
    Sessions,   \* concurrent requests' database sessions
    Entries,    \* journal entry ids
    Accounts,   \* account ids, ordered
    Requests,   \* what clients ask postEntry to post
    None        \* SQL NULL

\* One signed amount per account; 0 where the entry has no leg.
Legs == [Accounts -> Int]

ASSUME LedgerAssumption ==
    /\ IsFiniteSet(Sessions)    \* the connections of a pool
    /\ Accounts \subseteq Nat
    /\ \A r \in Requests : r.legs \in Legs /\ r.guard \in BOOLEAN
    /\ None \notin Sessions \cup Entries \cup Accounts

VARIABLES
    entry,      \* committed rows of journal_entries with their postings
    updateLock, \* session holding an account FOR UPDATE
    shareLock,  \* sessions holding an account FOR KEY SHARE
    entryLock,  \* session holding an entry FOR UPDATE
    session,    \* what each session is doing
    answer      \* what each session last answered

vars == <<entry, updateLock, shareLock, entryLock, session, answer>>

-----------------------------------------------------------------------------
Keys == {r.key : r \in Requests} \cup {None}

NoEntry == [status |-> "free", legs |-> [a \in Accounts |-> 0], key |-> None, reversalOf |-> None]

EntryRows ==
    [status : {"free", "posted", "void"}, legs : Legs, key : Keys,
     reversalOf : Entries \cup {None}]

\* todo: accounts still to lock.  want: the one the next statement locks.  new: id the inserted entry gets (chosen when
\* the request begins, so that no request begins once the ids run out).
\* target: entry being reversed.
Idle == [pc |-> "idle", legs |-> [a \in Accounts |-> 0], guard |-> FALSE, key |-> None,
         todo |-> {}, want |-> None, new |-> None, target |-> None]

SessionStates ==
    [pc : {"idle", "locking", "checked", "inserted", "mirroring"},
     legs : Legs, guard : BOOLEAN, key : Keys,
     todo : SUBSET Accounts, want : Accounts \cup {None},
     new : Entries \cup {None}, target : Entries \cup {None}]

Answers == {"none", "posted", "replayed", "conflict", "overdraft", "duplicate key", "reversed"}

TypeOK ==
    /\ entry \in [Entries -> EntryRows]
    /\ updateLock \in [Accounts -> Sessions \cup {None}]
    /\ shareLock \in [Accounts -> SUBSET Sessions]
    /\ entryLock \in [Entries -> Sessions \cup {None}]
    /\ session \in [Sessions -> SessionStates]
    /\ answer \in [Sessions -> Answers]

Init ==
    /\ entry = [e \in Entries |-> NoEntry]
    /\ updateLock = [a \in Accounts |-> None]
    /\ shareLock = [a \in Accounts |-> {}]
    /\ entryLock = [e \in Entries |-> None]
    /\ session = [s \in Sessions |-> Idle]
    /\ answer = [s \in Sessions |-> "none"]

-----------------------------------------------------------------------------
(* Amounts *)

Touched(legs) == {a \in Accounts : legs[a] # 0}

\* assertBalanced: two postings or more, and a signed sum of zero.
Balanced(legs) ==
    /\ Cardinality(Touched(legs)) >= 2
    /\ SumFunction(legs) = 0

\* What each posted entry that touches the account puts in it.
Movements(a) ==
    [e \in {x \in Entries : entry[x].status = "posted" /\ entry[x].legs[a] # 0} |->
        entry[e].legs[a]]

Balance(a) == SumFunction(Movements(a))

\* The overdraft probe, one per leg that takes money out.
Covered(legs) == \A a \in Accounts : legs[a] < 0 => Balance(a) + legs[a] >= 0

Negated(legs) == [a \in Accounts |-> -legs[a]]

-----------------------------------------------------------------------------
(* Row locks *)

FreshEntries ==
    {e \in Entries : entry[e].status = "free" /\ \A s \in Sessions : session[s].new # e}

Released(s) ==
    /\ updateLock' = [a \in Accounts |-> IF updateLock[a] = s THEN None ELSE updateLock[a]]
    /\ shareLock' = [a \in Accounts |-> shareLock[a] \ {s}]
    /\ entryLock' = [e \in Entries |-> IF entryLock[e] = s THEN None ELSE entryLock[e]]

\* The transaction rolls back and the session answers.
Abort(s, result) ==
    /\ Released(s)
    /\ session' = [session EXCEPT ![s] = Idle]
    /\ answer' = [answer EXCEPT ![s] = result]
    /\ UNCHANGED entry

-----------------------------------------------------------------------------
(* postEntry *)

\* A key already recorded is answered at once: the same payload is a replay,
\* whatever became of the entry, another payload a conflict.
AnswerKnownKey(s, r) ==
    /\ session[s] = Idle
    /\ Balanced(r.legs)
    /\ r.key # None
    /\ \E e \in Entries :
          /\ entry[e].key = r.key
          /\ answer' = [answer EXCEPT ![s] =
                           IF entry[e].legs = r.legs THEN "replayed" ELSE "conflict"]
    /\ UNCHANGED <<entry, updateLock, shareLock, entryLock, session>>

\* Mutant of LockPlan: only the accounts that money goes into are locked.
LockPlanOfDebits(legs) == {a \in Accounts : legs[a] > 0}

\* postEntry locks every account it moves before it looks at a balance.
LockPlan(legs) == Touched(legs)

\* Mutant of Ascending: accounts are locked in the order of the postings.
AsPosted(todo) == IF todo = {} THEN {None} ELSE todo

\* The account to lock next: the smallest left, or none.
Ascending(todo) ==
    IF todo = {} THEN {None} ELSE {a \in todo : \A b \in todo : a <= b}

BeginPost(s, r) ==
    /\ session[s] = Idle
    /\ Balanced(r.legs)
    /\ \A e \in Entries : r.key = None \/ entry[e].key # r.key
    /\ \E e \in FreshEntries, a \in Ascending(LockPlan(r.legs)) :
          session' = [session EXCEPT ![s] =
                         [pc |-> "locking", legs |-> r.legs, guard |-> r.guard, key |-> r.key,
                          todo |-> LockPlan(r.legs), want |-> a, new |-> e, target |-> None]]
    /\ UNCHANGED <<entry, updateLock, shareLock, entryLock, answer>>

\* SELECT id FROM accounts ... FOR UPDATE, one account at a time.
LockAccount(s) ==
    LET a == session[s].want
        rest == session[s].todo \ {a}
    IN  /\ session[s].pc = "locking"
        /\ a # None
        /\ updateLock[a] = None
        /\ shareLock[a] \subseteq {s}
        /\ updateLock' = [updateLock EXCEPT ![a] = s]
        /\ \E b \in Ascending(rest) :
              session' = [session EXCEPT ![s] = [@ EXCEPT !.todo = rest, !.want = b]]
        /\ UNCHANGED <<entry, shareLock, entryLock, answer>>

\* Mutant of CheckOverdraft: an uncovered request waits for money instead of failing.
CheckOverdraftWaiting(s) ==
    /\ session[s].pc = "locking"
    /\ session[s].todo = {}
    /\ session[s].guard => Covered(session[s].legs)
    /\ session' = [session EXCEPT ![s].pc = "checked"]
    /\ UNCHANGED <<entry, updateLock, shareLock, entryLock, answer>>

\* The probe, with every account locked.
CheckOverdraft(s) ==
    /\ session[s].pc = "locking"
    /\ session[s].todo = {}
    /\ \/ /\ session[s].guard => Covered(session[s].legs)
          /\ session' = [session EXCEPT ![s].pc = "checked"]
          /\ UNCHANGED <<entry, updateLock, shareLock, entryLock, answer>>
       \/ /\ session[s].guard /\ ~Covered(session[s].legs)
          /\ Abort(s, "overdraft")

\* Sessions whose uncommitted entry bears the key: the unique index makes an
\* INSERT of the same key wait for them.
InsertingKey(k) == {t \in Sessions : session[t].pc = "inserted" /\ k # None /\ session[t].key = k}

\* Mutant of InsertEntry: the table has no unique index on the key.
InsertEntryUnchecked(s) ==
    /\ session[s].pc = "checked"
    /\ session' = [session EXCEPT ![s].pc = "inserted"]
    /\ UNCHANGED <<entry, updateLock, shareLock, entryLock, answer>>

\* INSERT INTO journal_entries.  A key committed meanwhile violates the unique
\* index; the SELECT that should find the first entry then fails too, because
\* the transaction is already aborted, and the request ends with that error.
InsertEntry(s) ==
    LET taken == session[s].key # None /\ \E e \in Entries : entry[e].key = session[s].key
    IN  /\ session[s].pc = "checked"
        /\ InsertingKey(session[s].key) = {}
        /\ \/ /\ ~taken
              /\ session' = [session EXCEPT ![s].pc = "inserted"]
              /\ UNCHANGED <<entry, updateLock, shareLock, entryLock, answer>>
           \/ /\ taken
              /\ Abort(s, "duplicate key")

CommitPost(s) ==
    /\ session[s].pc = "inserted"
    /\ entry' = [entry EXCEPT ![session[s].new] =
                    [status |-> "posted", legs |-> session[s].legs, key |-> session[s].key,
                     reversalOf |-> None]]
    /\ Released(s)
    /\ session' = [session EXCEPT ![s] = Idle]
    /\ answer' = [answer EXCEPT ![s] = "posted"]

-----------------------------------------------------------------------------
(* reverseEntry *)

\* The account the foreign key locks next: postings are read, and mirrored, in no
\* particular order.
AnyOrder(todo) == IF todo = {} THEN {None} ELSE todo

\* The entry row is locked, then its status is read.
BeginReverse(s, e) ==
    /\ session[s] = Idle
    /\ entryLock[e] = None
    /\ entry[e].status = "posted"
    /\ entryLock' = [entryLock EXCEPT ![e] = s]
    /\ \E m \in FreshEntries, a \in AnyOrder(Touched(entry[e].legs)) :
          session' = [session EXCEPT ![s] =
                         [pc |-> "mirroring", legs |-> Negated(entry[e].legs),
                          guard |-> FALSE, key |-> None, todo |-> Touched(entry[e].legs),
                          want |-> a, new |-> m, target |-> e]]
    /\ UNCHANGED <<entry, updateLock, shareLock, answer>>

\* INSERT INTO postings: the foreign key locks the next account FOR KEY SHARE.
ShareAccount(s) ==
    LET a == session[s].want
        rest == session[s].todo \ {a}
    IN  /\ session[s].pc = "mirroring"
        /\ a # None
        /\ updateLock[a] \in {None, s}
        /\ shareLock' = [shareLock EXCEPT ![a] = @ \cup {s}]
        /\ \E b \in AnyOrder(rest) :
              session' = [session EXCEPT ![s] = [@ EXCEPT !.todo = rest, !.want = b]]
        /\ UNCHANGED <<entry, updateLock, entryLock, answer>>

\* Mutant of MirrorRow: the mirror is stored as posted.
PostedMirrorRow(s) ==
    [status |-> "posted", legs |-> session[s].legs, key |-> None,
     reversalOf |-> session[s].target]

\* The row the mirror entry is stored as: void from the start, so that neither
\* half of the pair counts.
MirrorRow(s) ==
    [status |-> "void", legs |-> session[s].legs, key |-> None,
     reversalOf |-> session[s].target]

\* The original goes from posted to void, or everything is rolled back.
CommitReverse(s) ==
    LET e == session[s].target
    IN  /\ session[s].pc = "mirroring"
        /\ session[s].todo = {}
        /\ \/ /\ entry[e].status = "posted"
              /\ entry' = [x \in Entries |->
                              IF x = session[s].new THEN MirrorRow(s)
                              ELSE IF x = e THEN [entry[e] EXCEPT !.status = "void"] ELSE entry[x]]
              /\ Released(s)
              /\ session' = [session EXCEPT ![s] = Idle]
              /\ answer' = [answer EXCEPT ![s] = "reversed"]
           \/ /\ entry[e].status # "posted"
              /\ Abort(s, "none")

-----------------------------------------------------------------------------
(* Failure *)

\* The process dies, the connection drops, or a later statement of the caller's
\* transaction throws.
Rollback(s) == session[s] # Idle /\ Abort(s, "none")

\* Sessions whose locks the next statement of s waits for.
WaitsFor(s) ==
    LET a == session[s].want
    IN  CASE session[s].pc = "locking" /\ a # None ->
                 ({updateLock[a]} \cup shareLock[a]) \ {s, None}
          [] session[s].pc = "mirroring" /\ a # None ->
                 {updateLock[a]} \ {s, None}
          [] session[s].pc = "checked" -> InsertingKey(session[s].key)
          [] OTHER -> {}

\* The sessions that s waits for, directly or through others.
Blockers(s) ==
    LET reach[n \in 0 .. Cardinality(Sessions)] ==
            IF n = 0 THEN WaitsFor(s)
            ELSE reach[n - 1] \cup UNION {WaitsFor(t) : t \in reach[n - 1]}
    IN  reach[Cardinality(Sessions)]

Deadlocked(s) == s \in Blockers(s)

\* PostgreSQL finds the circle and rolls one of its members back.
BreakDeadlock(s) == Deadlocked(s) /\ Abort(s, "none")

-----------------------------------------------------------------------------
Continue(s) ==
    \/ LockAccount(s)
    \/ CheckOverdraft(s)
    \/ InsertEntry(s)
    \/ CommitPost(s)
    \/ ShareAccount(s)
    \/ CommitReverse(s)

Begin(s) ==
    \/ \E r \in Requests : AnswerKnownKey(s, r) \/ BeginPost(s, r)
    \/ \E e \in Entries : BeginReverse(s, e)

Next == \E s \in Sessions : Begin(s) \/ Continue(s) \/ BreakDeadlock(s) \/ Rollback(s)

\* A request that has begun is carried on by the server, PostgreSQL hands a lock
\* to its waiters in turn, and finds a deadlock after deadlock_timeout.
Fairness ==
    /\ \A s \in Sessions : SF_vars(Continue(s))
    /\ WF_vars(\E s \in Sessions : BreakDeadlock(s))

Spec == Init /\ [][Next]_vars /\ Fairness

-----------------------------------------------------------------------------
(* Properties *)

\* However many reversals of an entry race, it is voided once: a voided entry
\* has exactly one mirror, the mirror cancels it leg by leg, and neither counts.
VoidedOnce ==
    /\ \A e \in Entries :
          entry[e].status = "void" /\ entry[e].reversalOf = None =>
              \E m \in Entries : {x \in Entries : entry[x].reversalOf = e} = {m}
    /\ \A m \in Entries :
          entry[m].reversalOf # None =>
              /\ entry[m].status = "void"
              /\ entry[entry[m].reversalOf].status = "void"
              /\ entry[m].legs = Negated(entry[entry[m].reversalOf].legs)

\* The overdraft probe is still right when the entry is inserted and committed:
\* no other post and no reversal changes an account between the two.
ProbeStillHolds ==
    \A s \in Sessions :
        session[s].pc \in {"checked", "inserted"} /\ session[s].guard =>
            Covered(session[s].legs)

\* Because accounts are locked in ascending order, posts alone never wait for
\* one another in a circle: a deadlock always involves a reversal.
PostsNeverDeadlock ==
    \A s \in Sessions :
        Deadlocked(s) => \E t \in Blockers(s) : session[t].pc = "mirroring"

\* Every request that has begun is answered.
RequestsEnd ==
    \A s \in Sessions : session[s].pc # "idle" ~> session[s].pc = "idle"

-----------------------------------------------------------------------------
(* What a comment or a test of the source says, and a run shows it does not keep: *)
(* see "Divergences" in the README.                                              *)

\* "Lock account rows FOR UPDATE in ascending ID order to prevent deadlocks"
\* (service.ts:214): no request waits for itself.
NoDeadlock == \A s \in Sessions : ~Deadlocked(s)

\* A request repeated under its key returns the existing entry
\* (stage3-integrity-safety.test.ts:206), it does not fail.
DuplicateReturnsExisting == \A s \in Sessions : answer[s] # "duplicate key"

-----------------------------------------------------------------------------
(* The write path implements LedgerBook, where a post and a reversal are one step. *)

Book == INSTANCE LedgerBook

BookSpec == Book!Spec
=============================================================================
