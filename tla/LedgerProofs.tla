---------------------------- MODULE LedgerProofs ----------------------------
(***************************************************************************)
(* The ledger's write path, for every set of sessions, entries, accounts   *)
(* and requests: a reversal voids once, an overdraft probe stays right     *)
(* until its entry is committed, posts alone never deadlock, the whole     *)
(* path implements LedgerBook, and debits equal credits in every entry and *)
(* over all accounts.                                                      *)
(*                                                                         *)
(* What makes the properties inductive is what the row locks give: a       *)
(* posting session holds FOR UPDATE every account it moves once todo is    *)
(* empty, a reversing one holds KEY SHARE every account it moves, and the  *)
(* two exclude each other on every account.                                *)
(***************************************************************************)
EXTENDS Ledger, FiniteSetTheorems, TLAPS

Posting(s)   == session[s].pc \in {"locking", "checked", "inserted"}
Reversing(s) == session[s].pc = "mirroring"

\* FOR UPDATE and KEY SHARE exclude each other.
LocksExclude ==
    \A a \in Accounts : \A s \in shareLock[a] : updateLock[a] \in {None, s}

\* A posting session works on a balanced request and a free id, and holds every
\* account it moves but those still to lock.
PostsSound ==
    \A s \in Sessions :
        Posting(s) =>
            /\ \E r \in Requests :
                  session[s].legs = r.legs /\ session[s].guard = r.guard /\ session[s].key = r.key
            /\ SumFunction(session[s].legs) = 0
            /\ session[s].new \in Entries
            /\ entry[session[s].new].status = "free"
            /\ \A a \in Touched(session[s].legs) :
                  \/ updateLock[a] = s
                  \/ session[s].pc = "locking" /\ a \in session[s].todo

\* A reversing session holds its entry, which is posted, and shares every
\* account the entry moves but those still to lock.
ReversalsSound ==
    \A s \in Sessions :
        Reversing(s) =>
            /\ session[s].target \in Entries
            /\ session[s].new \in Entries
            /\ entry[session[s].new].status = "free"
            /\ entryLock[session[s].target] = s
            /\ entry[session[s].target].status = "posted"
            /\ session[s].legs = Negated(entry[session[s].target].legs)
            /\ \A a \in Touched(entry[session[s].target].legs) :
                  s \in shareLock[a] \/ a \in session[s].todo

\* The ids of entries being inserted are distinct.
OwnIds ==
    \A s, t \in Sessions :
        s # t /\ session[s].new # None => session[s].new # session[t].new

\* A key is recorded, or about to be, once.
KeysSound ==
    \A s \in Sessions :
        session[s].pc = "inserted" /\ session[s].key # None =>
            /\ \A e \in Entries : entry[e].key # session[s].key
            /\ \A t \in Sessions :
                  session[t].pc = "inserted" /\ session[t].key = session[s].key => t = s

\* An id not used has no row; a posted entry is no mirror.
RowsSound ==
    \A e \in Entries :
        /\ entry[e].status = "free" => entry[e] = NoEntry
        /\ entry[e].status = "posted" => entry[e].reversalOf = None

LedgerInv ==
    /\ TypeOK
    /\ LocksExclude
    /\ PostsSound
    /\ ReversalsSound
    /\ OwnIds
    /\ KeysSound
    /\ RowsSound

-----------------------------------------------------------------------------
LEMMA InitInv == Init => LedgerInv /\ VoidedOnce /\ ProbeStillHolds
<1> SUFFICES ASSUME Init PROVE LedgerInv /\ VoidedOnce /\ ProbeStillHolds
  OBVIOUS
<1> USE LedgerAssumption DEF Init
<1>1. TypeOK
  BY DEF TypeOK, NoEntry, Idle, EntryRows, SessionStates, Legs, Keys, Answers
<1>2. LocksExclude /\ PostsSound /\ ReversalsSound /\ OwnIds /\ KeysSound /\ RowsSound
  BY DEF LocksExclude, PostsSound, ReversalsSound, OwnIds, KeysSound, RowsSound, Posting, Reversing, Idle,
         NoEntry
<1>3. VoidedOnce /\ ProbeStillHolds
  BY DEF VoidedOnce, ProbeStillHolds, NoEntry, Idle
<1> QED
  BY <1>1, <1>2, <1>3 DEF LedgerInv

\* The type of each variable is kept by every step.
LEMMA NextType == LedgerInv /\ [Next]_vars => TypeOK'
<1> SUFFICES ASSUME LedgerInv, [Next]_vars PROVE TypeOK'
  OBVIOUS
<1> USE LedgerAssumption DEF LedgerInv
<1>a. \A s \in Sessions : session[s] \in SessionStates
  BY DEF TypeOK
<1>b. Idle \in SessionStates
  BY DEF Idle, SessionStates, Legs, Keys
<1>c. ASSUME NEW s \in Sessions, Released(s)
      PROVE  /\ updateLock' \in [Accounts -> Sessions \cup {None}]
             /\ shareLock' \in [Accounts -> SUBSET Sessions]
             /\ entryLock' \in [Entries -> Sessions \cup {None}]
  BY <1>c DEF Released, TypeOK
<1>d. ASSUME NEW s \in Sessions, NEW x \in Answers, Abort(s, x)
      PROVE  TypeOK'
  BY <1>b, <1>c, <1>d DEF Abort, TypeOK
<1>1. ASSUME NEW s \in Sessions, NEW r \in Requests, AnswerKnownKey(s, r)
      PROVE  TypeOK'
  BY <1>1 DEF AnswerKnownKey, TypeOK, Answers
<1>2. ASSUME NEW s \in Sessions, NEW r \in Requests, BeginPost(s, r)
      PROVE  TypeOK'
  <2>1. PICK e \in FreshEntries, a \in Ascending(LockPlan(r.legs)) :
            session' = [session EXCEPT ![s] =
                         [pc |-> "locking", legs |-> r.legs, guard |-> r.guard, key |-> r.key,
                          todo |-> LockPlan(r.legs), want |-> a, new |-> e, target |-> None]]
    BY <1>2 DEF BeginPost
  <2>2. /\ LockPlan(r.legs) \subseteq Accounts
        /\ a \in Accounts \cup {None}
        /\ e \in Entries
        /\ r.key \in Keys
    BY DEF Ascending, LockPlan, Touched, FreshEntries, Keys
  <2>3. [pc |-> "locking", legs |-> r.legs, guard |-> r.guard, key |-> r.key,
         todo |-> LockPlan(r.legs), want |-> a, new |-> e, target |-> None] \in SessionStates
    BY <2>2 DEF SessionStates
  <2> QED
    BY <1>2, <2>1, <2>3 DEF BeginPost, TypeOK
<1>3. ASSUME NEW s \in Sessions, LockAccount(s)
      PROVE  TypeOK'
  <2>1. PICK b \in Ascending(session[s].todo \ {session[s].want}) :
            session' = [session EXCEPT ![s] =
                           [session[s] EXCEPT !.todo = session[s].todo \ {session[s].want}, !.want = b]]
    BY <1>3 DEF LockAccount
  <2>2. session[s].want \in Accounts /\ b \in Accounts \cup {None}
    BY <1>3, <1>a DEF LockAccount, Ascending, SessionStates
  <2>3. [session[s] EXCEPT !.todo = session[s].todo \ {session[s].want}, !.want = b] \in SessionStates
    BY <2>2, <1>a DEF SessionStates
  <2>4. session' \in [Sessions -> SessionStates]
    BY <2>1, <2>3 DEF TypeOK
  <2> QED
    BY <1>3, <2>2, <2>4 DEF LockAccount, TypeOK
<1>4. ASSUME NEW s \in Sessions, CheckOverdraft(s)
      PROVE  TypeOK'
  <2>1. CASE Abort(s, "overdraft")
    BY <2>1, <1>d DEF Answers
  <2>2. CASE /\ session' = [session EXCEPT ![s].pc = "checked"]
             /\ UNCHANGED <<entry, updateLock, shareLock, entryLock, answer>>
    <3>1. [session[s] EXCEPT !.pc = "checked"] \in SessionStates
      BY <1>a DEF SessionStates
    <3> QED
      BY <2>2, <3>1 DEF TypeOK
  <2> QED
    BY <1>4, <2>1, <2>2 DEF CheckOverdraft
<1>5. ASSUME NEW s \in Sessions, InsertEntry(s)
      PROVE  TypeOK'
  <2>1. CASE Abort(s, "duplicate key")
    BY <2>1, <1>d DEF Answers
  <2>2. CASE /\ session' = [session EXCEPT ![s].pc = "inserted"]
             /\ UNCHANGED <<entry, updateLock, shareLock, entryLock, answer>>
    <3>1. [session[s] EXCEPT !.pc = "inserted"] \in SessionStates
      BY <1>a DEF SessionStates
    <3> QED
      BY <2>2, <3>1 DEF TypeOK
  <2> QED
    BY <1>5, <2>1, <2>2 DEF InsertEntry
<1>6. ASSUME NEW s \in Sessions, CommitPost(s)
      PROVE  TypeOK'
  <2>1. entry' \in [Entries -> EntryRows]
    BY <1>6, <1>a DEF CommitPost, TypeOK, EntryRows, SessionStates
  <2> QED
    BY <1>6, <2>1, <1>b, <1>c DEF CommitPost, TypeOK, Answers
<1>7. ASSUME NEW s \in Sessions, NEW e \in Entries, BeginReverse(s, e)
      PROVE  TypeOK'
  <2>1. PICK m \in FreshEntries, a \in AnyOrder(Touched(entry[e].legs)) :
            session' = [session EXCEPT ![s] =
                         [pc |-> "mirroring", legs |-> Negated(entry[e].legs),
                          guard |-> FALSE, key |-> None, todo |-> Touched(entry[e].legs),
                          want |-> a, new |-> m, target |-> e]]
    BY <1>7 DEF BeginReverse
  <2>2. /\ Touched(entry[e].legs) \subseteq Accounts
        /\ a \in Accounts \cup {None}
        /\ m \in Entries
        /\ None \in Keys
    BY DEF AnyOrder, Touched, FreshEntries, Keys
  <2>3. Negated(entry[e].legs) \in Legs
    BY DEF Negated, Legs, TypeOK, EntryRows
  <2>4. [pc |-> "mirroring", legs |-> Negated(entry[e].legs),
         guard |-> FALSE, key |-> None, todo |-> Touched(entry[e].legs),
         want |-> a, new |-> m, target |-> e] \in SessionStates
    BY <2>2, <2>3 DEF SessionStates
  <2> QED
    BY <1>7, <2>1, <2>4 DEF BeginReverse, TypeOK
<1>8. ASSUME NEW s \in Sessions, ShareAccount(s)
      PROVE  TypeOK'
  <2>1. PICK b \in AnyOrder(session[s].todo \ {session[s].want}) :
            session' = [session EXCEPT ![s] =
                           [session[s] EXCEPT !.todo = session[s].todo \ {session[s].want}, !.want = b]]
    BY <1>8 DEF ShareAccount
  <2>2. session[s].want \in Accounts /\ b \in Accounts \cup {None}
    BY <1>8, <1>a DEF ShareAccount, AnyOrder, SessionStates
  <2>3. [session[s] EXCEPT !.todo = session[s].todo \ {session[s].want}, !.want = b] \in SessionStates
    BY <2>2, <1>a DEF SessionStates
  <2>4. session' \in [Sessions -> SessionStates]
    BY <2>1, <2>3 DEF TypeOK
  <2> QED
    BY <1>8, <2>2, <2>4 DEF ShareAccount, TypeOK
<1>9. ASSUME NEW s \in Sessions, CommitReverse(s)
      PROVE  TypeOK'
  <2>1. CASE Abort(s, "none")
    BY <2>1, <1>d DEF Answers
  <2>2. CASE entry[session[s].target].status = "posted" /\ ~Abort(s, "none")
    <3>1. MirrorRow(s) \in EntryRows
      BY <1>9, <1>a DEF CommitReverse, MirrorRow, EntryRows, SessionStates, Keys
    <3>2. entry' \in [Entries -> EntryRows]
      BY <1>9, <2>2, <3>1 DEF CommitReverse, TypeOK, EntryRows
    <3>3. /\ Released(s)
          /\ session' = [session EXCEPT ![s] = Idle]
          /\ answer' = [answer EXCEPT ![s] = "reversed"]
      BY <1>9, <2>2 DEF CommitReverse
    <3> QED
      BY <3>2, <3>3, <1>b, <1>c DEF TypeOK, Answers
  <2> QED
    BY <1>9, <2>1, <2>2 DEF CommitReverse
<1>10. ASSUME NEW s \in Sessions, Rollback(s) \/ BreakDeadlock(s)
       PROVE  TypeOK'
  BY <1>10, <1>d DEF Rollback, BreakDeadlock, Answers
<1>11. CASE UNCHANGED vars
  BY <1>11 DEF vars, TypeOK
<1> QED
  BY <1>1, <1>2, <1>3, <1>4, <1>5, <1>6, <1>7, <1>8, <1>9, <1>10, <1>11 DEF Next, Begin, Continue

-----------------------------------------------------------------------------
\* A rollback gives its locks back and leaves the rows alone.
LEMMA AbortInv ==
  ASSUME LedgerInv, TypeOK', NEW s \in Sessions, NEW x \in Answers, Abort(s, x)
  PROVE  LedgerInv'
<1> USE LedgerAssumption DEF LedgerInv
<1>1. /\ \A t \in Sessions : session'[t] = IF t = s THEN Idle ELSE session[t]
      /\ entry' = entry
      /\ Idle.pc = "idle" /\ Idle.new = None
  BY DEF Abort, TypeOK, Idle
<1>2. /\ \A a \in Accounts : updateLock'[a] = IF updateLock[a] = s THEN None ELSE updateLock[a]
      /\ \A a \in Accounts : shareLock'[a] = shareLock[a] \ {s}
      /\ \A e \in Entries : entryLock'[e] = IF entryLock[e] = s THEN None ELSE entryLock[e]
  BY DEF Abort, Released
<1>3. LocksExclude'
  BY <1>2 DEF LocksExclude
<1>4. PostsSound'
  BY <1>1, <1>2 DEF PostsSound, Posting, Touched
<1>5. ReversalsSound'
  BY <1>1, <1>2 DEF ReversalsSound, Reversing, Touched
<1>6. OwnIds'
  BY <1>1 DEF OwnIds
<1>7. KeysSound'
  BY <1>1 DEF KeysSound
<1>8. RowsSound'
  BY <1>1 DEF RowsSound
<1> QED
  BY <1>3, <1>4, <1>5, <1>6, <1>7, <1>8

LEMMA NextInv == LedgerInv /\ [Next]_vars => LedgerInv'
<1> SUFFICES ASSUME LedgerInv, [Next]_vars PROVE LedgerInv'
  OBVIOUS
<1> USE LedgerAssumption DEF LedgerInv
<1>a. TypeOK'
  BY NextType
<1>b. \A s \in Sessions : session[s] \in SessionStates
  BY DEF TypeOK
<1>1. ASSUME NEW s \in Sessions, NEW r \in Requests, AnswerKnownKey(s, r)
      PROVE  LedgerInv'
  BY <1>1, <1>a DEF AnswerKnownKey, LocksExclude, PostsSound, ReversalsSound, OwnIds, KeysSound, RowsSound,
                    Posting, Reversing, Touched
<1>2. ASSUME NEW s \in Sessions, NEW r \in Requests, BeginPost(s, r)
      PROVE  LedgerInv'
  <2>1. PICK e \in FreshEntries, a \in Ascending(LockPlan(r.legs)) :
            session' = [session EXCEPT ![s] =
                         [pc |-> "locking", legs |-> r.legs, guard |-> r.guard, key |-> r.key,
                          todo |-> LockPlan(r.legs), want |-> a, new |-> e, target |-> None]]
    BY <1>2 DEF BeginPost
  <2>2. /\ e \in Entries
        /\ entry[e].status = "free"
        /\ \A t \in Sessions : session[t].new # e
    BY DEF FreshEntries
  <2>3. /\ session'[s].pc = "locking" /\ session'[s].new = e /\ session'[s].legs = r.legs
        /\ session'[s].guard = r.guard /\ session'[s].key = r.key
        /\ session'[s].todo = Touched(r.legs)
        /\ \A t \in Sessions : t # s => session'[t] = session[t]
    BY <2>1 DEF TypeOK, LockPlan
  <2>4. UNCHANGED <<entry, updateLock, shareLock, entryLock>> /\ SumFunction(r.legs) = 0
    BY <1>2 DEF BeginPost, Balanced
  <2>5. LocksExclude' /\ RowsSound'
    BY <2>4 DEF LocksExclude, RowsSound
  <2>6. PostsSound'
    <3> SUFFICES ASSUME NEW t \in Sessions, Posting(t)'
                 PROVE  (/\ \E q \in Requests :
                               /\ session[t].legs = q.legs
                               /\ session[t].guard = q.guard
                               /\ session[t].key = q.key
                         /\ SumFunction(session[t].legs) = 0
                         /\ session[t].new \in Entries
                         /\ entry[session[t].new].status = "free"
                         /\ \A c \in Touched(session[t].legs) :
                               \/ updateLock[c] = t
                               \/ session[t].pc = "locking" /\ c \in session[t].todo)'
      BY DEF PostsSound
    <3>1. CASE t # s
      BY <3>1, <2>2, <2>3, <2>4 DEF PostsSound, Posting, Touched
    <3>2. CASE t = s
      BY <3>2, <2>2, <2>3, <2>4 DEF Posting, Touched
    <3> QED
      BY <3>1, <3>2
  <2>7. ReversalsSound'
    BY <2>3, <2>4 DEF ReversalsSound, Reversing, Touched
  <2>8. OwnIds'
    BY <2>2, <2>3 DEF OwnIds
  <2>9. KeysSound'
    BY <2>3, <2>4 DEF KeysSound
  <2> QED
    BY <1>a, <2>5, <2>6, <2>7, <2>8, <2>9
<1>3. ASSUME NEW s \in Sessions, LockAccount(s)
      PROVE  LedgerInv'
  <2> DEFINE a == session[s].want
  <2>1. /\ session[s].pc = "locking"
        /\ a \in Accounts
        /\ updateLock[a] = None
        /\ shareLock[a] \subseteq {s}
    BY <1>3, <1>b DEF LockAccount, SessionStates
  <2>2. /\ updateLock' = [updateLock EXCEPT ![a] = s]
        /\ UNCHANGED <<entry, shareLock, entryLock>>
    BY <1>3 DEF LockAccount
  <2>3. PICK b \in Ascending(session[s].todo \ {a}) :
            session' = [session EXCEPT ![s] = [session[s] EXCEPT !.todo = session[s].todo \ {a}, !.want = b]]
    BY <1>3 DEF LockAccount
  <2>4. /\ session'[s].pc = "locking" /\ session'[s].new = session[s].new
        /\ session'[s].legs = session[s].legs /\ session'[s].guard = session[s].guard
        /\ session'[s].key = session[s].key
        /\ session'[s].todo = session[s].todo \ {a}
        /\ \A t \in Sessions : t # s => session'[t] = session[t]
    BY <2>1, <2>3, <1>b DEF TypeOK, SessionStates
  <2>5. LocksExclude'
    BY <2>1, <2>2 DEF LocksExclude, TypeOK
  <2>6. PostsSound'
    BY <2>1, <2>2, <2>4 DEF PostsSound, Posting, Touched, TypeOK
  <2>7. ReversalsSound'
    BY <2>1, <2>2, <2>4 DEF ReversalsSound, Reversing, Touched
  <2>8. OwnIds' /\ KeysSound' /\ RowsSound'
    BY <2>1, <2>2, <2>4 DEF OwnIds, KeysSound, RowsSound
  <2> QED
    BY <1>a, <2>5, <2>6, <2>7, <2>8
<1>4. ASSUME NEW s \in Sessions, CheckOverdraft(s)
      PROVE  LedgerInv'
  <2>1. CASE Abort(s, "overdraft")
    BY <2>1, <1>a, AbortInv DEF Answers
  <2>2. CASE /\ session' = [session EXCEPT ![s].pc = "checked"]
             /\ UNCHANGED <<entry, updateLock, shareLock, entryLock, answer>>
    <3>1. /\ session[s].pc = "locking" /\ session[s].todo = {}
          /\ session'[s].pc = "checked" /\ session'[s].new = session[s].new
          /\ session'[s].legs = session[s].legs /\ session'[s].guard = session[s].guard
          /\ session'[s].key = session[s].key
          /\ \A t \in Sessions : t # s => session'[t] = session[t]
      BY <1>4, <2>2, <1>b DEF CheckOverdraft, TypeOK, SessionStates
    <3>2. LocksExclude' /\ OwnIds' /\ KeysSound' /\ RowsSound'
      BY <2>2, <3>1 DEF LocksExclude, OwnIds, KeysSound, RowsSound
    <3>3. PostsSound'
      BY <2>2, <3>1 DEF PostsSound, Posting, Touched
    <3>4. ReversalsSound'
      BY <2>2, <3>1 DEF ReversalsSound, Reversing, Touched
    <3> QED
      BY <1>a, <3>2, <3>3, <3>4
  <2> QED
    BY <1>4, <2>1, <2>2 DEF CheckOverdraft
<1>5. ASSUME NEW s \in Sessions, InsertEntry(s)
      PROVE  LedgerInv'
  <2>1. CASE Abort(s, "duplicate key")
    BY <2>1, <1>a, AbortInv DEF Answers
  <2>2. CASE /\ session' = [session EXCEPT ![s].pc = "inserted"]
             /\ session[s].key # None => \A e \in Entries : entry[e].key # session[s].key
             /\ UNCHANGED <<entry, updateLock, shareLock, entryLock, answer>>
    <3>0. session[s].pc = "checked"
      BY <1>5 DEF InsertEntry
    <3>1. /\ session[s].pc = "checked"
          /\ session'[s].pc = "inserted" /\ session'[s].new = session[s].new
          /\ session'[s].legs = session[s].legs /\ session'[s].guard = session[s].guard
          /\ session'[s].key = session[s].key
          /\ \A t \in Sessions : t # s => session'[t] = session[t]
      BY <2>2, <3>0, <1>b DEF TypeOK, SessionStates
    <3>2. \A t \in Sessions :
              session[t].pc = "inserted" /\ session[s].key # None => session[t].key # session[s].key
      BY <1>5 DEF InsertEntry, InsertingKey
    <3>3. LocksExclude' /\ OwnIds' /\ RowsSound'
      BY <2>2, <3>1 DEF LocksExclude, OwnIds, RowsSound
    <3>4. KeysSound'
      BY <2>2, <3>1, <3>2 DEF KeysSound
    <3>5. PostsSound'
      BY <2>2, <3>1 DEF PostsSound, Posting, Touched
    <3>6. ReversalsSound'
      BY <2>2, <3>1 DEF ReversalsSound, Reversing, Touched
    <3> QED
      BY <1>a, <3>3, <3>4, <3>5, <3>6
  <2> QED
    BY <1>5, <2>1, <2>2 DEF InsertEntry
<1>6. ASSUME NEW s \in Sessions, CommitPost(s)
      PROVE  LedgerInv'
  <2> DEFINE new == session[s].new
  <2>1. /\ session[s].pc = "inserted" /\ new \in Entries /\ entry[new].status = "free"
        /\ new # None
    BY <1>6 DEF CommitPost, PostsSound, Posting
  <2>2. /\ entry'[new].status = "posted" /\ entry'[new].key = session[s].key
        /\ entry'[new].reversalOf = None
        /\ \A e \in Entries : e # new => entry'[e] = entry[e]
    BY <1>6, <2>1 DEF CommitPost, TypeOK
  <2>3. /\ \A t \in Sessions : session'[t] = IF t = s THEN Idle ELSE session[t]
        /\ Idle.pc = "idle" /\ Idle.new = None
    BY <1>6 DEF CommitPost, TypeOK, Idle
  <2>4. /\ \A a \in Accounts : updateLock'[a] = IF updateLock[a] = s THEN None ELSE updateLock[a]
        /\ \A a \in Accounts : shareLock'[a] = shareLock[a] \ {s}
        /\ \A e \in Entries : entryLock'[e] = IF entryLock[e] = s THEN None ELSE entryLock[e]
    BY <1>6 DEF CommitPost, Released
  <2>5. LocksExclude'
    BY <2>4 DEF LocksExclude
  <2>6. PostsSound'
    BY <2>1, <2>2, <2>3, <2>4 DEF PostsSound, Posting, OwnIds, Touched
  <2>7. ReversalsSound'
    BY <2>1, <2>2, <2>3, <2>4 DEF ReversalsSound, Reversing, OwnIds, Touched
  <2>8. OwnIds' /\ RowsSound'
    BY <2>2, <2>3 DEF OwnIds, RowsSound
  <2>9. KeysSound'
    BY <2>1, <2>2, <2>3 DEF KeysSound
  <2> QED
    BY <1>a, <2>5, <2>6, <2>7, <2>8, <2>9
<1>7. ASSUME NEW s \in Sessions, NEW e \in Entries, BeginReverse(s, e)
      PROVE  LedgerInv'
  <2>1. PICK m \in FreshEntries, a \in AnyOrder(Touched(entry[e].legs)) :
            session' = [session EXCEPT ![s] =
                         [pc |-> "mirroring", legs |-> Negated(entry[e].legs),
                          guard |-> FALSE, key |-> None, todo |-> Touched(entry[e].legs),
                          want |-> a, new |-> m, target |-> e]]
    BY <1>7 DEF BeginReverse
  <2>2. /\ m \in Entries
        /\ entry[m].status = "free"
        /\ \A t \in Sessions : session[t].new # m
    BY DEF FreshEntries
  <2>3. /\ session'[s].pc = "mirroring" /\ session'[s].new = m /\ session'[s].target = e
        /\ session'[s].legs = Negated(entry[e].legs) /\ session'[s].todo = Touched(entry[e].legs)
        /\ \A t \in Sessions : t # s => session'[t] = session[t]
    BY <2>1 DEF TypeOK
  <2>4. /\ entryLock[e] = None /\ entry[e].status = "posted"
        /\ entryLock'[e] = s
        /\ \A x \in Entries : x # e => entryLock'[x] = entryLock[x]
        /\ UNCHANGED <<entry, updateLock, shareLock>>
    BY <1>7 DEF BeginReverse, TypeOK
  <2>5. LocksExclude' /\ RowsSound'
    BY <2>4 DEF LocksExclude, RowsSound
  <2>6. PostsSound'
    <3>1. ASSUME NEW t \in Sessions, Posting(t)'
          PROVE  t # s /\ session'[t] = session[t] /\ Posting(t)
      BY <3>1, <2>3 DEF Posting
    <3> QED
      BY <3>1, <2>4 DEF PostsSound, Posting, Touched
  <2>7. ReversalsSound'
    <3> SUFFICES ASSUME NEW t \in Sessions, Reversing(t)'
                 PROVE  (/\ session[t].target \in Entries
                         /\ session[t].new \in Entries
                         /\ entry[session[t].new].status = "free"
                         /\ entryLock[session[t].target] = t
                         /\ entry[session[t].target].status = "posted"
                         /\ session[t].legs = Negated(entry[session[t].target].legs)
                         /\ \A c \in Touched(entry[session[t].target].legs) :
                               t \in shareLock[c] \/ c \in session[t].todo)'
      BY DEF ReversalsSound
    <3>1. CASE t = s
      BY <3>1, <2>2, <2>3, <2>4 DEF Negated, Touched
    <3>2. CASE t # s
      <4>1. session'[t] = session[t] /\ Reversing(t) /\ session[t].target # e
        BY <3>2, <2>3, <2>4 DEF Reversing, ReversalsSound
      <4> QED
        BY <4>1, <2>4 DEF ReversalsSound, Negated, Touched
    <3> QED
      BY <3>1, <3>2
  <2>8. OwnIds'
    BY <2>2, <2>3 DEF OwnIds
  <2>9. KeysSound'
    BY <2>3, <2>4 DEF KeysSound
  <2> QED
    BY <1>a, <2>5, <2>6, <2>7, <2>8, <2>9
<1>8. ASSUME NEW s \in Sessions, ShareAccount(s)
      PROVE  LedgerInv'
  <2> DEFINE a == session[s].want
  <2>1. /\ session[s].pc = "mirroring"
        /\ a \in Accounts
        /\ updateLock[a] \in {None, s}
    BY <1>8, <1>b DEF ShareAccount, SessionStates
  <2>2. /\ shareLock' = [shareLock EXCEPT ![a] = shareLock[a] \cup {s}]
        /\ UNCHANGED <<entry, updateLock, entryLock>>
    BY <1>8 DEF ShareAccount
  <2>3. PICK b \in AnyOrder(session[s].todo \ {a}) :
            session' = [session EXCEPT ![s] = [session[s] EXCEPT !.todo = session[s].todo \ {a}, !.want = b]]
    BY <1>8 DEF ShareAccount
  <2>4. /\ session'[s].pc = "mirroring" /\ session'[s].new = session[s].new
        /\ session'[s].legs = session[s].legs /\ session'[s].target = session[s].target
        /\ session'[s].todo = session[s].todo \ {a}
        /\ \A t \in Sessions : t # s => session'[t] = session[t]
    BY <2>1, <2>3, <1>b DEF TypeOK, SessionStates
  <2>5. LocksExclude'
    BY <2>1, <2>2 DEF LocksExclude, TypeOK
  <2>6. PostsSound'
    BY <2>1, <2>2, <2>4 DEF PostsSound, Posting, Touched
  <2>7. ReversalsSound'
    BY <2>1, <2>2, <2>4 DEF ReversalsSound, Reversing, Touched, TypeOK
  <2>8. OwnIds' /\ KeysSound' /\ RowsSound'
    BY <2>1, <2>2, <2>4 DEF OwnIds, KeysSound, RowsSound
  <2> QED
    BY <1>a, <2>5, <2>6, <2>7, <2>8
<1>9. ASSUME NEW s \in Sessions, CommitReverse(s)
      PROVE  LedgerInv'
  <2> DEFINE e == session[s].target
             new == session[s].new
  <2>1. /\ session[s].pc = "mirroring" /\ new \in Entries /\ e \in Entries
        /\ entry[new].status = "free" /\ entry[e].status = "posted" /\ entryLock[e] = s
        /\ new # None /\ new # e
    BY <1>9 DEF CommitReverse, ReversalsSound, Reversing
  <2>2. /\ entry' = [x \in Entries |->
                       IF x = new THEN MirrorRow(s)
                       ELSE IF x = e THEN [entry[e] EXCEPT !.status = "void"] ELSE entry[x]]
        /\ Released(s)
        /\ session' = [session EXCEPT ![s] = Idle]
    BY <1>9, <2>1 DEF CommitReverse
  <2>3. /\ entry'[new] = MirrorRow(s)
        /\ entry'[e] = [entry[e] EXCEPT !.status = "void"]
        /\ \A x \in Entries : x # new /\ x # e => entry'[x] = entry[x]
    BY <2>1, <2>2 DEF TypeOK
  <2>4. /\ entry'[new].status = "void" /\ entry'[new].key = None
        /\ entry'[e].status = "void" /\ entry'[e].key = entry[e].key
    BY <2>1, <2>3 DEF MirrorRow, TypeOK, EntryRows
  <2>5. /\ \A t \in Sessions : session'[t] = IF t = s THEN Idle ELSE session[t]
        /\ Idle.pc = "idle" /\ Idle.new = None
    BY <2>2 DEF TypeOK, Idle
  <2>6. /\ \A a \in Accounts : updateLock'[a] = IF updateLock[a] = s THEN None ELSE updateLock[a]
        /\ \A a \in Accounts : shareLock'[a] = shareLock[a] \ {s}
        /\ \A x \in Entries : entryLock'[x] = IF entryLock[x] = s THEN None ELSE entryLock[x]
    BY <2>2 DEF Released
  <2>7. LocksExclude'
    BY <2>6 DEF LocksExclude
  <2>8. PostsSound'
    BY <2>1, <2>3, <2>5, <2>6 DEF PostsSound, Posting, OwnIds, Touched
  <2>9. ReversalsSound'
    BY <2>1, <2>3, <2>5, <2>6 DEF ReversalsSound, Reversing, OwnIds, Touched
  <2>10. OwnIds'
    BY <2>5 DEF OwnIds
  <2>11. RowsSound'
    BY <2>3, <2>4 DEF RowsSound
  <2>12. KeysSound'
    <3>1. \A x \in Entries : entry'[x].key \in {entry[x].key, None}
      BY <2>3, <2>4
    <3> QED
      BY <3>1, <2>5 DEF KeysSound
  <2> QED
    BY <1>a, <2>7, <2>8, <2>9, <2>10, <2>11, <2>12
<1>10. ASSUME NEW s \in Sessions, Rollback(s) \/ BreakDeadlock(s)
       PROVE  LedgerInv'
  BY <1>10, <1>a, AbortInv DEF Rollback, BreakDeadlock, Answers
<1>11. CASE UNCHANGED vars
  BY <1>11, <1>a DEF vars, LocksExclude, PostsSound, ReversalsSound, OwnIds, KeysSound, RowsSound,
                     Posting, Reversing, Touched
<1> QED
  BY <1>1, <1>2, <1>3, <1>4, <1>5, <1>6, <1>7, <1>8, <1>9, <1>10, <1>11 DEF Next, Begin, Continue

-----------------------------------------------------------------------------
\* What a committing post, and a committing reversal, do to the rows.
LEMMA CommitPostRows ==
  ASSUME LedgerInv, NEW s \in Sessions, CommitPost(s), NEW new, new = session[s].new
  PROVE  /\ new \in Entries
         /\ entry[new] = NoEntry
         /\ entry' = [entry EXCEPT ![new] =
                         [status |-> "posted", legs |-> session[s].legs, key |-> session[s].key,
                          reversalOf |-> None]]
         /\ entry'[new] = [status |-> "posted", legs |-> session[s].legs,
                           key |-> session[s].key, reversalOf |-> None]
         /\ \A x \in Entries : x # new => entry'[x] = entry[x]
BY DEF LedgerInv, CommitPost, PostsSound, Posting, RowsSound, TypeOK

LEMMA CommitReverseRows ==
  ASSUME LedgerInv, NEW s \in Sessions, CommitReverse(s), entry' # entry,
         NEW e, e = session[s].target, NEW new, new = session[s].new
  PROVE  /\ e \in Entries /\ new \in Entries /\ e # new
         /\ entry[e].status = "posted" /\ entry[e].reversalOf = None
         /\ entry[new] = NoEntry
         /\ session[s].legs = Negated(entry[e].legs)
         /\ \A a \in Touched(entry[e].legs) : s \in shareLock[a]
         /\ entry' = [x \in Entries |->
                        IF x = new THEN MirrorRow(s)
                        ELSE IF x = e THEN [entry[e] EXCEPT !.status = "void"] ELSE entry[x]]
         /\ entry'[e] = [entry[e] EXCEPT !.status = "void"]
         /\ entry'[new] = MirrorRow(s)
         /\ \A x \in Entries : x # new /\ x # e => entry'[x] = entry[x]
<1> USE DEF LedgerInv
<1>1. /\ session[s].pc = "mirroring" /\ session[s].todo = {} /\ entry[e].status = "posted"
      /\ entry' = [x \in Entries |->
                     IF x = new THEN MirrorRow(s)
                     ELSE IF x = e THEN [entry[e] EXCEPT !.status = "void"] ELSE entry[x]]
  BY DEF CommitReverse, Abort
<1>2. /\ e \in Entries /\ new \in Entries /\ e # new
      /\ entry[new].status = "free"
      /\ session[s].legs = Negated(entry[e].legs)
      /\ \A a \in Touched(entry[e].legs) : s \in shareLock[a]
  BY <1>1 DEF ReversalsSound, Reversing
<1>3. entry[new] = NoEntry /\ entry[e].reversalOf = None
  BY <1>1, <1>2 DEF RowsSound
<1>4. /\ entry'[e] = [entry[e] EXCEPT !.status = "void"]
      /\ entry'[new] = MirrorRow(s)
      /\ \A x \in Entries : x # new /\ x # e => entry'[x] = entry[x]
  BY <1>1, <1>2 DEF TypeOK
<1> QED
  BY <1>1, <1>2, <1>3, <1>4

\* What a reversal that commits finds in the rows it writes.
LEMMA CommitReverseReads ==
  ASSUME LedgerInv, NEW s \in Sessions, CommitReverse(s), entry' # entry
  PROVE  /\ session[s].target \in Entries /\ session[s].new \in Entries
         /\ entry[session[s].target].status = "posted"
         /\ entry[session[s].new] = NoEntry
         /\ session[s].legs = Negated(entry[session[s].target].legs)
<1> DEFINE e == session[s].target
           new == session[s].new
<1>1. session[s].pc = "mirroring" /\ session[s].todo = {} /\ entry[e].status = "posted"
  BY DEF CommitReverse, Abort
<1>2. /\ e \in Entries /\ new \in Entries
      /\ entry[new].status = "free"
      /\ session[s].legs = Negated(entry[e].legs)
  BY <1>1 DEF LedgerInv, ReversalsSound, Reversing
<1>3. entry[new] = NoEntry
  BY <1>1, <1>2 DEF LedgerInv, RowsSound
<1> QED
  BY <1>1, <1>2, <1>3

\* No step but those two changes a row.
LEMMA RowsChange ==
  ASSUME [Next]_vars, entry' # entry
  PROVE  \E s \in Sessions : CommitPost(s) \/ CommitReverse(s)
<1>1. PICK s \in Sessions : Begin(s) \/ Continue(s) \/ BreakDeadlock(s) \/ Rollback(s)
  BY DEF Next, vars
<1>2. ~Begin(s)
  BY DEF Begin, AnswerKnownKey, BeginPost, BeginReverse
<1>3. ~BreakDeadlock(s) /\ ~Rollback(s)
  BY DEF BreakDeadlock, Rollback, Abort
<1>4. ~LockAccount(s) /\ ~CheckOverdraft(s) /\ ~InsertEntry(s) /\ ~ShareAccount(s)
  BY DEF LockAccount, CheckOverdraft, InsertEntry, ShareAccount, Abort
<1> QED
  BY <1>1, <1>2, <1>3, <1>4 DEF Continue

-----------------------------------------------------------------------------
LEMMA NextVoidedOnce == LedgerInv /\ VoidedOnce /\ [Next]_vars => VoidedOnce'
<1> SUFFICES ASSUME LedgerInv, VoidedOnce, [Next]_vars PROVE VoidedOnce'
  OBVIOUS
<1> USE LedgerAssumption
<1>a. \A x \in Entries : entry[x] \in EntryRows
  BY DEF LedgerInv, TypeOK
<1>1. CASE entry' = entry
  BY <1>1 DEF VoidedOnce, Negated
<1>2. ASSUME NEW s \in Sessions, CommitPost(s)
      PROVE  VoidedOnce'
  <2> DEFINE new == session[s].new
  <2>1. /\ new \in Entries
        /\ entry[new].status = "free" /\ entry[new].reversalOf = None
        /\ entry'[new].status = "posted" /\ entry'[new].reversalOf = None
        /\ \A x \in Entries : x # new => entry'[x] = entry[x]
    <3>1. /\ new \in Entries
          /\ entry[new] = NoEntry
          /\ entry'[new] = [status |-> "posted", legs |-> session[s].legs,
                            key |-> session[s].key, reversalOf |-> None]
          /\ \A x \in Entries : x # new => entry'[x] = entry[x]
      BY <1>2, CommitPostRows
    <3> QED
      BY <3>1 DEF NoEntry
  <2>2. \A x \in Entries : entry'[x].reversalOf = entry[x].reversalOf
    BY <2>1
  <2>3. ASSUME NEW e \in Entries, entry'[e].status = "void", entry'[e].reversalOf = None
        PROVE  \E m \in Entries : {x \in Entries : entry'[x].reversalOf = e} = {m}
    <3>1. entry[e].status = "void" /\ entry[e].reversalOf = None
      BY <2>1, <2>3
    <3>2. {x \in Entries : entry'[x].reversalOf = e} = {x \in Entries : entry[x].reversalOf = e}
      BY <2>2
    <3> QED
      BY <3>1, <3>2 DEF VoidedOnce
  <2>4. ASSUME NEW m \in Entries, entry'[m].reversalOf # None
        PROVE  /\ entry'[m].status = "void"
               /\ entry'[entry'[m].reversalOf].status = "void"
               /\ entry'[m].legs = Negated(entry'[entry'[m].reversalOf].legs)
    <3>1. m # new /\ entry'[m] = entry[m] /\ entry[m].reversalOf \in Entries
      BY <2>1, <2>4, <1>a DEF EntryRows
    <3>2. entry[entry[m].reversalOf].status = "void"
      BY <3>1, <2>4 DEF VoidedOnce
    <3>3. entry'[entry[m].reversalOf] = entry[entry[m].reversalOf]
      BY <3>1, <3>2, <2>1
    <3> QED
      BY <3>1, <3>2, <3>3, <2>4 DEF VoidedOnce
  <2> QED
    BY <2>3, <2>4 DEF VoidedOnce, Negated
<1>3. ASSUME NEW s \in Sessions, CommitReverse(s), entry' # entry
      PROVE  VoidedOnce'
  <2> DEFINE e == session[s].target
             new == session[s].new
  <2>1. /\ e \in Entries /\ new \in Entries /\ e # new
        /\ entry[e].status = "posted" /\ entry[e].reversalOf = None
        /\ entry[new].status = "free" /\ entry[new].reversalOf = None
        /\ session[s].legs = Negated(entry[e].legs)
        /\ entry'[e] = [entry[e] EXCEPT !.status = "void"]
        /\ entry'[new] = MirrorRow(s)
        /\ \A x \in Entries : x # new /\ x # e => entry'[x] = entry[x]
    <3>1. /\ e \in Entries /\ new \in Entries /\ e # new
          /\ entry[e].status = "posted" /\ entry[e].reversalOf = None
          /\ entry[new] = NoEntry
          /\ session[s].legs = Negated(entry[e].legs)
          /\ entry'[e] = [entry[e] EXCEPT !.status = "void"]
          /\ entry'[new] = MirrorRow(s)
          /\ \A x \in Entries : x # new /\ x # e => entry'[x] = entry[x]
      BY <1>3, CommitReverseRows
    <3> QED
      BY <3>1 DEF NoEntry
  <2>2. /\ entry'[e].status = "void" /\ entry'[e].reversalOf = None
        /\ entry'[e].legs = entry[e].legs
        /\ entry'[new].status = "void" /\ entry'[new].reversalOf = e
        /\ entry'[new].legs = Negated(entry[e].legs)
    BY <2>1, <1>a DEF MirrorRow, EntryRows
  <2>3. \A x \in Entries : entry[x].reversalOf # e /\ entry[x].reversalOf # new
    BY <2>1 DEF VoidedOnce
  <2>4. ASSUME NEW f \in Entries, entry'[f].status = "void", entry'[f].reversalOf = None
        PROVE  \E m \in Entries : {x \in Entries : entry'[x].reversalOf = f} = {m}
    <3>1. CASE f = e
      <4>0. e # None /\ e \in Entries
        BY <2>1 DEF LedgerAssumption
      <4>1. ASSUME NEW x \in Entries
            PROVE  entry'[x].reversalOf = e <=> x = new
        <5>1. CASE x = new
          BY <5>1, <2>2
        <5>2. CASE x = e
          BY <5>2, <4>0, <2>1, <2>2
        <5>3. CASE x # new /\ x # e
          BY <5>3, <2>1, <2>3
        <5> QED
          BY <5>1, <5>2, <5>3
      <4>2. {x \in Entries : entry'[x].reversalOf = e} = {new}
        BY <4>1, <2>1
      <4> QED
        BY <4>2, <3>1, <2>1
    <3>2. CASE f # e
      <4>1. f # new /\ entry'[f] = entry[f]
        BY <3>2, <2>1, <2>2, <2>4
      <4>2. ASSUME NEW x \in Entries
            PROVE  entry'[x].reversalOf = f <=> entry[x].reversalOf = f
        <5>1. CASE x = new
          BY <5>1, <3>2, <2>1, <2>2 DEF LedgerAssumption
        <5>2. CASE x = e
          BY <5>2, <2>1, <2>2
        <5>3. CASE x # new /\ x # e
          BY <5>3, <2>1
        <5> QED
          BY <5>1, <5>2, <5>3
      <4>3. {x \in Entries : entry'[x].reversalOf = f} = {x \in Entries : entry[x].reversalOf = f}
        BY <4>2
      <4> QED
        BY <4>1, <4>3, <2>4 DEF VoidedOnce
    <3> QED
      BY <3>1, <3>2
  <2>5. ASSUME NEW m \in Entries, entry'[m].reversalOf # None
        PROVE  /\ entry'[m].status = "void"
               /\ entry'[entry'[m].reversalOf].status = "void"
               /\ entry'[m].legs = Negated(entry'[entry'[m].reversalOf].legs)
    <3>1. CASE m = new
      BY <3>1, <2>2 DEF Negated
    <3>2. CASE m # new
      <4>1. m # e /\ entry'[m] = entry[m] /\ entry[m].reversalOf \in Entries
        BY <3>2, <2>1, <2>2, <2>5, <1>a DEF EntryRows
      <4>2. entry'[entry[m].reversalOf] = entry[entry[m].reversalOf]
        BY <4>1, <2>1, <2>3
      <4> QED
        BY <4>1, <4>2, <2>5 DEF VoidedOnce
    <3> QED
      BY <3>1, <3>2
  <2> QED
    BY <2>4, <2>5 DEF VoidedOnce, Negated
<1> QED
  BY <1>1, <1>2, <1>3, RowsChange

-----------------------------------------------------------------------------
\* A balance depends on the posted legs of its account only.
LEMMA SameMovements ==
  ASSUME NEW a \in Accounts,
         \A x \in Entries :
            /\ entry'[x].status = "posted" /\ entry'[x].legs[a] # 0
                  <=> entry[x].status = "posted" /\ entry[x].legs[a] # 0
            /\ entry[x].status = "posted" => entry'[x].legs[a] = entry[x].legs[a]
  PROVE  Balance(a)' = Balance(a)
<1>1. {x \in Entries : entry'[x].status = "posted" /\ entry'[x].legs[a] # 0}
        = {x \in Entries : entry[x].status = "posted" /\ entry[x].legs[a] # 0}
  OBVIOUS
<1>2. Movements(a)' = Movements(a)
  BY <1>1 DEF Movements
<1> QED
  BY <1>2 DEF Balance

\* An account held FOR UPDATE keeps its balance while others commit.
LEMMA LockedBalance ==
  ASSUME LedgerInv, [Next]_vars, NEW s \in Sessions, Posting(s),
         session[s].pc # "locking", ~CommitPost(s),
         NEW a \in Accounts, session[s].legs[a] # 0
  PROVE  Balance(a)' = Balance(a)
<1> USE LedgerAssumption
<1>a. updateLock[a] = s /\ s # None
  BY DEF LedgerInv, PostsSound, Touched, LedgerAssumption
<1>1. CASE entry' = entry
  BY <1>1, SameMovements
<1>2. ASSUME NEW t \in Sessions, CommitPost(t)
      PROVE  Balance(a)' = Balance(a)
  <2> DEFINE new == session[t].new
  <2>1. /\ new \in Entries
        /\ entry[new] = NoEntry
        /\ entry'[new] = [status |-> "posted", legs |-> session[t].legs,
                          key |-> session[t].key, reversalOf |-> None]
        /\ \A x \in Entries : x # new => entry'[x] = entry[x]
    BY <1>2, CommitPostRows
  <2>2. session[t].legs[a] = 0
    <3>1. t # s /\ session[t].pc = "inserted"
      BY <1>2 DEF CommitPost
    <3> QED
      BY <3>1, <1>a DEF LedgerInv, PostsSound, Posting, Touched
  <2>3. entry[new].status = "free" /\ entry'[new].legs[a] = 0
    BY <2>1, <2>2 DEF NoEntry
  <2> QED
    BY <2>1, <2>3, SameMovements
<1>3. ASSUME NEW t \in Sessions, CommitReverse(t), entry' # entry
      PROVE  Balance(a)' = Balance(a)
  <2> DEFINE e == session[t].target
             new == session[t].new
  <2>1. /\ e \in Entries /\ new \in Entries /\ e # new
        /\ entry[new] = NoEntry
        /\ entry'[e] = [entry[e] EXCEPT !.status = "void"]
        /\ entry'[new] = MirrorRow(t)
        /\ \A c \in Touched(entry[e].legs) : t \in shareLock[c]
        /\ \A x \in Entries : x # new /\ x # e => entry'[x] = entry[x]
    BY <1>3, CommitReverseRows
  <2>2. t # s
    BY <1>3 DEF CommitReverse, Posting
  <2>3. a \notin Touched(entry[e].legs)
    BY <2>1, <2>2, <1>a DEF LedgerInv, LocksExclude
  <2>4. entry[e].legs[a] = 0
    BY <2>3 DEF Touched
  <2>5. entry'[new].status = "void" /\ entry[new].status = "free"
    BY <2>1 DEF NoEntry, MirrorRow
  <2>6. entry[e] \in EntryRows
    BY <2>1 DEF LedgerInv, TypeOK
  <2>7. entry'[e].status = "void" /\ entry'[e].legs[a] = 0
    BY <2>1, <2>4, <2>6 DEF EntryRows
  <2>8. ASSUME NEW x \in Entries
        PROVE  /\ entry'[x].status = "posted" /\ entry'[x].legs[a] # 0
                     <=> entry[x].status = "posted" /\ entry[x].legs[a] # 0
               /\ entry[x].status = "posted" => entry'[x].legs[a] = entry[x].legs[a]
    <3>1. CASE x = e
      BY <3>1, <2>4, <2>7
    <3>2. CASE x = new
      BY <3>2, <2>5
    <3>3. CASE x # e /\ x # new
      BY <3>3, <2>1
    <3> QED
      BY <3>1, <3>2, <3>3
  <2> QED
    BY <2>8, SameMovements
<1> QED
  BY <1>1, <1>2, <1>3, RowsChange

LEMMA NextProbe == LedgerInv /\ ProbeStillHolds /\ [Next]_vars => ProbeStillHolds'
<1> SUFFICES ASSUME LedgerInv, ProbeStillHolds, [Next]_vars,
                    NEW s \in Sessions,
                    session'[s].pc \in {"checked", "inserted"}, session'[s].guard
             PROVE  Covered(session[s].legs)'
  BY DEF ProbeStillHolds
<1> USE LedgerAssumption
<1>a. /\ session \in [Sessions -> SessionStates]
      /\ session[s] \in SessionStates
  BY DEF LedgerInv, TypeOK
\* The probe has just been made.
<1>1. CASE CheckOverdraft(s)
  <2>1. /\ session' = [session EXCEPT ![s].pc = "checked"]
        /\ session[s].guard => Covered(session[s].legs)
        /\ entry' = entry
    BY <1>1, <1>a DEF CheckOverdraft, Abort, Idle
  <2>2. session'[s].legs = session[s].legs /\ session'[s].guard = session[s].guard
    BY <2>1, <1>a DEF SessionStates
  <2>3. \A a \in Accounts : Balance(a)' = Balance(a)
    BY <2>1 DEF Balance, Movements
  <2> QED
    BY <2>1, <2>2, <2>3 DEF Covered
\* It was made before, and the session holds its accounts.
<1>2. CASE ~CheckOverdraft(s)
  <2>1. /\ session[s].pc \in {"checked", "inserted"}
        /\ session'[s].legs = session[s].legs
        /\ session'[s].guard = session[s].guard
        /\ ~CommitPost(s)
    <3>1. CASE session'[s] = session[s]
      <4>1. ~CommitPost(s)
        BY <1>a DEF CommitPost, Idle
      <4> QED
        BY <3>1, <4>1
    <3>2. CASE session'[s] # session[s]
      <4>1. PICK t \in Sessions :
                Begin(t) \/ Continue(t) \/ BreakDeadlock(t) \/ Rollback(t)
        BY <3>2 DEF Next, vars
      <4>a. session[t] \in SessionStates
        BY DEF LedgerInv, TypeOK
      <4>2. session' # [session EXCEPT ![t] = Idle]
        BY <3>2, <1>a DEF Idle
      <4>3. ~Abort(t, "overdraft") /\ ~Abort(t, "duplicate key") /\ ~Abort(t, "none")
        BY <4>2 DEF Abort
      <4>4. ASSUME NEW r \in Requests PROVE ~AnswerKnownKey(t, r) /\ ~BeginPost(t, r)
        BY <3>2, <1>a DEF AnswerKnownKey, BeginPost
      <4>5. ASSUME NEW e \in Entries PROVE ~BeginReverse(t, e)
        BY <3>2, <1>a DEF BeginReverse
      <4>6. ~LockAccount(t) /\ ~ShareAccount(t)
        <5>1. ASSUME NEW b, NEW q, session[t].pc \notin {"checked", "inserted"}
              PROVE  session' # [session EXCEPT ![t] = [session[t] EXCEPT !.todo = q, !.want = b]]
          <6>1. [session[t] EXCEPT !.todo = q, !.want = b].pc = session[t].pc
            BY <4>a DEF SessionStates
          <6> HIDE DEF SessionStates
          <6> QED
            BY <5>1, <6>1, <3>2, <1>a
        <5> QED
          BY <5>1 DEF LockAccount, ShareAccount
      <4>7. ~CommitPost(t) /\ ~CommitReverse(t)
        BY <4>2, <4>3 DEF CommitPost, CommitReverse
      <4>8. ~CheckOverdraft(t)
        <5>1. CASE t = s
          BY <5>1, <1>2
        <5>2. CASE t # s
          BY <5>2, <4>3, <3>2, <1>a DEF CheckOverdraft
        <5> QED
          BY <5>1, <5>2
      <4>9. InsertEntry(t)
        BY <4>1, <4>3, <4>4, <4>5, <4>6, <4>7, <4>8 DEF Begin, Continue, BreakDeadlock, Rollback
      <4>10. /\ t = s
             /\ session[s].pc = "checked"
             /\ session' = [session EXCEPT ![s].pc = "inserted"]
        BY <4>9, <4>3, <3>2, <1>a DEF InsertEntry
      <4> QED
        BY <4>10, <4>7, <1>a DEF SessionStates
    <3> QED
      BY <3>1, <3>2
  <2>2. Covered(session[s].legs)
    BY <2>1 DEF ProbeStillHolds
  <2>3. session[s].legs \in Legs
    BY <1>a DEF SessionStates
  <2>4. ASSUME NEW a \in Accounts, session'[s].legs[a] < 0
        PROVE  Balance(a)' + session'[s].legs[a] >= 0
    <3>1. session[s].legs[a] < 0 /\ session[s].legs[a] # 0
      BY <2>1, <2>3, <2>4 DEF Legs
    <3>2. Balance(a)' = Balance(a)
      BY <2>1, <3>1, LockedBalance DEF Posting
    <3> QED
      BY <2>1, <2>2, <3>1, <3>2 DEF Covered
  <2> QED
    BY <2>4 DEF Covered
<1> QED
  BY <1>1, <1>2

-----------------------------------------------------------------------------
LEMMA SpecInv == Spec => [](LedgerInv /\ VoidedOnce /\ ProbeStillHolds)
<1>1. Init => LedgerInv /\ VoidedOnce /\ ProbeStillHolds
  BY InitInv
<1>2. LedgerInv /\ VoidedOnce /\ ProbeStillHolds /\ [Next]_vars
         => (LedgerInv /\ VoidedOnce /\ ProbeStillHolds)'
  BY NextInv, NextVoidedOnce, NextProbe
<1> QED
  BY <1>1, <1>2, PTL DEF Spec

\* Every row, lock and session of the write path (ledger/service.ts) keeps its type.
THEOREM LedgerTypeCorrect == Spec => []TypeOK
<1>1. LedgerInv => TypeOK
  BY DEF LedgerInv
<1> QED
  BY <1>1, SpecInv, PTL

\* However many sessions call reverseEntry on however many entries, a voided entry
\* has one mirror, which cancels it.
THEOREM LedgerVoidsOnce == Spec => []VoidedOnce
BY SpecInv, PTL

\* What postEntry's overdraft probe found is still true when the entry commits,
\* whatever other posts and reversals do: the account locks suffice.
THEOREM LedgerProbeHolds == Spec => []ProbeStillHolds
BY SpecInv, PTL

-----------------------------------------------------------------------------
(* Posts alone never wait for one another in a circle. *)

\* An account held FOR UPDATE is held by a post and lies below the one the post
\* waits for, the smallest it has left; an account held FOR KEY SHARE is held by a
\* reversal.
OrderSound ==
    /\ \A a \in Accounts :
          updateLock[a] # None =>
              /\ Posting(updateLock[a])
              /\ session[updateLock[a]].pc = "locking" /\ session[updateLock[a]].want # None =>
                    a < session[updateLock[a]].want
    /\ \A a \in Accounts : \A s \in shareLock[a] : Reversing(s)
    /\ \A s \in Sessions :
          session[s].pc = "locking" => session[s].want \in Ascending(session[s].todo)

\* What a post that waits can wait for: a post that is further.
Further(s, t) ==
    /\ Posting(t)
    /\ \/ /\ session[s].pc = "locking" /\ session[s].want # None
          /\ \/ session[t].pc # "locking"
             \/ session[t].want = None
             \/ session[s].want < session[t].want
       \/ session[s].pc = "checked" /\ session[t].pc = "inserted"

\* A set of natural numbers has a least.
LEMMA LeastNumber ==
  ASSUME NEW S, S \subseteq Nat, S # {}
  PROVE  \E n \in S : \A m \in S : n <= m
<1> DEFINE Less == {p \in Nat \X Nat : p[1] < p[2]}
<1>1. IsWellFoundedOn(Less, Nat)
  BY NatLessThanWellFounded DEF OpToRel
<1>2. PICK n \in S : \A m \in S : <<m, n>> \notin Less
  BY <1>1, WFMin
<1>3. \A m \in S : ~(m < n)
  BY <1>2
<1> QED
  BY <1>3

\* Induction up to a bound.
LEMMA UpTo ==
  ASSUME NEW N \in Nat, NEW Good, 0 \in Good,
         \A n \in 1 .. N : n - 1 \in Good => n \in Good
  PROVE  0 .. N \subseteq Good
<1> DEFINE Bad == {n \in 0 .. N : n \notin Good}
<1> SUFFICES ASSUME Bad # {} PROVE FALSE
  OBVIOUS
<1>1. PICK n \in Bad : \A m \in Bad : n <= m
  <2>1. Bad \subseteq Nat
    OBVIOUS
  <2> HIDE DEF Bad
  <2> QED
    BY <2>1, LeastNumber
<1>2. n \in 1 .. N /\ n - 1 \in 0 .. N /\ ~(n <= n - 1)
  OBVIOUS
<1>3. n - 1 \in Good
  BY <1>1, <1>2
<1> QED
  BY <1>2, <1>3

\* The recursive function of Blockers exists: it is built up to each bound.
LEMMA BlockersReach ==
  ASSUME NEW s, NEW N \in Nat, N = Cardinality(Sessions)
  PROVE  \E reach :
            /\ \A n \in 0 .. N :
                  reach[n] = IF n = 0 THEN WaitsFor(s)
                             ELSE reach[n - 1] \cup UNION {WaitsFor(t) : t \in reach[n - 1]}
            /\ Blockers(s) = reach[N]
<1> DEFINE Reach(g, k) ==
        g = [n \in 0 .. k |-> IF n = 0 THEN WaitsFor(s)
                              ELSE g[n - 1] \cup UNION {WaitsFor(t) : t \in g[n - 1]}]
           Good == {k \in 0 .. N : \E g : Reach(g, k)}
<1>1. 0 \in Good
  <2>1. Reach([n \in 0 .. 0 |-> WaitsFor(s)], 0)
    OBVIOUS
  <2> HIDE DEF Reach
  <2> QED
    BY <2>1
<1>2. ASSUME NEW k \in 1 .. N, k - 1 \in Good
      PROVE  k \in Good
  <2>1. PICK g : Reach(g, k - 1)
    BY <1>2
  <2> DEFINE h == [n \in 0 .. k |-> IF n = k THEN g[k - 1] \cup UNION {WaitsFor(t) : t \in g[k - 1]}
                                    ELSE g[n]]
  <2>2. \A n \in 0 .. (k - 1) : h[n] = g[n]
    OBVIOUS
  <2>3. ASSUME NEW n \in 0 .. k
        PROVE  h[n] = IF n = 0 THEN WaitsFor(s)
                      ELSE h[n - 1] \cup UNION {WaitsFor(t) : t \in h[n - 1]}
    <3>1. CASE n = k
      <4>1. k - 1 \in 0 .. (k - 1) /\ k # 0
        OBVIOUS
      <4> QED
        BY <3>1, <4>1, <2>2
    <3>2. CASE n # k /\ n = 0
      <4>1. 0 \in 0 .. (k - 1)
        OBVIOUS
      <4> HIDE DEF h
      <4> QED
        BY <3>2, <4>1, <2>1, <2>2
    <3>3. CASE n # k /\ n # 0
      <4>1. n \in 0 .. (k - 1) /\ n - 1 \in 0 .. (k - 1)
        BY <3>3
      <4>2. g[n] = g[n - 1] \cup UNION {WaitsFor(t) : t \in g[n - 1]}
        BY <3>3, <4>1, <2>1
      <4> HIDE DEF h
      <4> QED
        BY <3>3, <4>1, <4>2, <2>2
    <3> QED
      BY <3>1, <3>2, <3>3
  <2>4. Reach(h, k)
    <3>1. h = [n \in 0 .. k |-> h[n]]
      OBVIOUS
    <3> HIDE DEF h
    <3> QED
      BY <3>1, <2>3
  <2> HIDE DEF Reach, h
  <2> QED
    BY <2>4
<1>3. N \in Good
  <2> HIDE DEF Good
  <2> QED
    BY <1>1, <1>2, UpTo
<1>4. PICK g : Reach(g, N)
  BY <1>3
<1> DEFINE reach == CHOOSE f : Reach(f, N)
<1>5. Reach(reach, N)
  BY <1>4
<1>6. Blockers(s) = reach[N]
  BY DEF Blockers
<1> QED
  BY <1>5, <1>6

\* A session waits for a reversal or for a post that is further than itself.
LEMMA WaitsForFurther ==
  ASSUME LedgerInv, OrderSound, NEW s \in Sessions, ~Reversing(s), NEW t \in WaitsFor(s)
  PROVE  t \in Sessions /\ (Reversing(t) \/ Further(s, t))
<1> USE LedgerAssumption
<1> DEFINE a == session[s].want
<1>1. /\ session[s] \in SessionStates
      /\ updateLock \in [Accounts -> Sessions \cup {None}]
      /\ shareLock \in [Accounts -> SUBSET Sessions]
  BY DEF LedgerInv, TypeOK
<1>2. CASE session[s].pc = "locking" /\ a # None
  <2>1. a \in Accounts
    BY <1>1, <1>2 DEF SessionStates
  <2>2. t \in ({updateLock[a]} \cup shareLock[a]) \ {s, None}
    BY <1>2 DEF WaitsFor
  <2>3. CASE t \in shareLock[a]
    BY <2>1, <2>3, <1>1 DEF OrderSound
  <2>4. CASE t = updateLock[a] /\ t # None
    <3>1. t \in Sessions
      BY <2>1, <2>4, <1>1
    <3>2. Posting(t) /\ (session[t].pc = "locking" /\ session[t].want # None => a < session[t].want)
      BY <2>1, <2>4 DEF OrderSound
    <3> QED
      BY <3>1, <3>2, <1>2 DEF Further
  <2> QED
    BY <2>2, <2>3, <2>4
<1>3. CASE session[s].pc = "checked"
  <2>1. t \in InsertingKey(session[s].key)
    BY <1>3 DEF WaitsFor
  <2> QED
    BY <2>1, <1>3 DEF InsertingKey, Further, Posting
<1>4. CASE ~(session[s].pc = "locking" /\ a # None) /\ session[s].pc # "checked"
  BY <1>4 DEF WaitsFor, Reversing
<1> QED
  BY <1>2, <1>3, <1>4

LEMMA FurtherIsOrder ==
  ASSUME LedgerInv, NEW s \in Sessions, NEW t \in Sessions, NEW u \in Sessions
  PROVE  /\ Further(s, t) /\ Further(t, u) => Further(s, u)
         /\ ~Further(s, s)
<1> USE LedgerAssumption
<1>1. /\ session[s].want \in Nat \cup {None}
      /\ session[t].want \in Nat \cup {None}
      /\ session[u].want \in Nat \cup {None}
  BY DEF LedgerInv, TypeOK, SessionStates
<1>2. ~Further(s, s)
  <2>1. CASE session[s].want = None
    BY <2>1 DEF Further
  <2>2. CASE session[s].want \in Nat
    BY <2>2 DEF Further
  <2> QED
    BY <1>1, <2>1, <2>2
<1>3. ASSUME Further(s, t), Further(t, u)
      PROVE  Further(s, u)
  <2>1. CASE session[s].pc = "locking" /\ session[t].pc = "locking"  /\ session[u].pc = "locking" /\ session[u].want # None
    <3>1. /\ session[s].want # None /\ session[t].want # None
          /\ session[s].want < session[t].want /\ session[t].want < session[u].want
      BY <1>3, <2>1 DEF Further
    <3>2. session[s].want < session[u].want
      BY <3>1, <2>1, <1>1
    <3> QED
      BY <3>1, <3>2, <2>1, <1>3 DEF Further
  <2>2. CASE ~(session[s].pc = "locking" /\ session[t].pc = "locking"  /\ session[u].pc = "locking" /\ session[u].want # None)
    BY <2>2, <1>3 DEF Further, Posting
  <2> QED
    BY <2>1, <2>2
<1> QED
  BY <1>2, <1>3

LEMMA NoCircleOfPosts == LedgerInv /\ OrderSound => PostsNeverDeadlock
<1> SUFFICES ASSUME LedgerInv, OrderSound, NEW s \in Sessions,
                    \A t \in Blockers(s) : session[t].pc # "mirroring"
             PROVE  s \notin Blockers(s)
  BY DEF PostsNeverDeadlock, Deadlocked
<1> DEFINE N == Cardinality(Sessions)
<1>1. N \in Nat
  BY FS_CardinalityType, LedgerAssumption
<1> HIDE DEF N
<1>2. PICK reach :
          /\ \A n \in 0 .. N :
                reach[n] = IF n = 0 THEN WaitsFor(s)
                           ELSE reach[n - 1] \cup UNION {WaitsFor(t) : t \in reach[n - 1]}
          /\ Blockers(s) = reach[N]
  BY <1>1, BlockersReach DEF N
\* A reversal reached stays reached; until then everything reached is further.
<1> DEFINE Beyond == {t \in Sessions : Further(s, t)}
           Good == {n \in 0 .. N : (\E t \in reach[n] : Reversing(t)) \/ reach[n] \subseteq Beyond}
<1>3. CASE Reversing(s)
  BY <1>3 DEF Reversing
<1>4. CASE ~Reversing(s)
  <2>1. 0 \in Good
    <3>0. 0 \in 0 .. N
      BY <1>1
    <3>1. reach[0] = WaitsFor(s)
      BY <3>0, <1>2
    <3>2. \A t \in WaitsFor(s) : t \in Sessions /\ (Reversing(t) \/ Further(s, t))
      BY <1>4, WaitsForFurther
    <3> QED
      BY <3>0, <3>1, <3>2
  <2>2. ASSUME NEW n \in 1 .. N, n - 1 \in Good
        PROVE  n \in Good
    <3>1. /\ n \in 0 .. N
          /\ reach[n] = reach[n - 1] \cup UNION {WaitsFor(t) : t \in reach[n - 1]}
      <4>1. n \in 0 .. N /\ n # 0
        BY <1>1
      <4> QED
        BY <4>1, <1>2
    <3>2. CASE \E t \in reach[n - 1] : Reversing(t)
      BY <3>1, <3>2
    <3>3. CASE /\ reach[n - 1] \subseteq Beyond
               /\ \A t \in reach[n - 1] : ~Reversing(t)
      <4>1. ASSUME NEW t \in reach[n - 1], NEW u \in WaitsFor(t)
            PROVE  Reversing(u) \/ u \in Beyond
        <5>1. t \in Sessions /\ Further(s, t) /\ ~Reversing(t)
          BY <3>3
        <5>2. u \in Sessions /\ (Reversing(u) \/ Further(t, u))
          BY <5>1, WaitsForFurther
        <5> QED
          BY <5>1, <5>2, FurtherIsOrder
      <4> HIDE DEF Beyond
      <4> QED
        BY <3>1, <3>3, <4>1
    <3> QED
      BY <2>2, <3>2, <3>3
  <2>3. N \in Good
    <3> HIDE DEF Good
    <3> QED
      BY <1>1, <2>1, <2>2, UpTo
  <2>4. reach[N] \subseteq Beyond
    BY <2>3, <1>2 DEF Reversing
  <2>5. ~Further(s, s)
    BY FurtherIsOrder
  <2> QED
    BY <1>2, <2>4, <2>5
<1> QED
  BY <1>3, <1>4

\* A session that holds no account after a step leaves the order of the others as it was.
LEMMA OrderWithout ==
  ASSUME LedgerInv, OrderSound, NEW s \in Sessions,
         \A t \in Sessions : t # s => session'[t] = session[t],
         \A a \in Accounts : updateLock'[a] # s /\ updateLock'[a] \in {updateLock[a], None},
         \A a \in Accounts : shareLock'[a] \subseteq shareLock[a] \ {s},
         session'[s].pc = "locking" => session'[s].want \in Ascending(session'[s].todo)
  PROVE  OrderSound'
<1>1. \A a \in Accounts : updateLock[a] \in Sessions \cup {None} /\ shareLock[a] \subseteq Sessions
  BY DEF LedgerInv, TypeOK
<1>2. ASSUME NEW a \in Accounts, updateLock'[a] # None
      PROVE  (/\ Posting(updateLock[a])
              /\ session[updateLock[a]].pc = "locking" /\ session[updateLock[a]].want # None =>
                    a < session[updateLock[a]].want)'
  <2>1. updateLock'[a] = updateLock[a] /\ updateLock[a] \in Sessions /\ updateLock[a] # s
    BY <1>1, <1>2
  <2>2. session'[updateLock'[a]] = session[updateLock[a]]
    BY <2>1
  <2> QED
    BY <2>1, <2>2, <1>2 DEF OrderSound, Posting
<1>3. ASSUME NEW a \in Accounts, NEW t \in shareLock'[a]
      PROVE  Reversing(t)'
  <2>1. t \in shareLock[a] /\ t \in Sessions /\ t # s
    BY <1>1
  <2> QED
    BY <2>1 DEF OrderSound, Reversing
<1>4. ASSUME NEW t \in Sessions, session'[t].pc = "locking"
      PROVE  session'[t].want \in Ascending(session'[t].todo)
  <2>1. CASE t = s
    BY <2>1, <1>4
  <2>2. CASE t # s
    BY <2>2, <1>4 DEF OrderSound
  <2> QED
    BY <2>1, <2>2
<1>5. (\A t \in Sessions :
         session[t].pc = "locking" => session[t].want \in Ascending(session[t].todo))'
  BY <1>4 DEF Ascending
<1> QED
  BY <1>2, <1>3, <1>5 DEF OrderSound

\* A rollback or a commit gives the session's locks back.
LEMMA ReleasedOrder ==
  ASSUME LedgerInv, OrderSound, NEW s \in Sessions,
         Released(s), session' = [session EXCEPT ![s] = Idle]
  PROVE  OrderSound'
<1> USE LedgerAssumption
<1>1. /\ \A t \in Sessions : t # s => session'[t] = session[t]
      /\ session'[s].pc # "locking"
  BY DEF LedgerInv, TypeOK, Idle
<1>2. \A a \in Accounts : updateLock'[a] # s /\ updateLock'[a] \in {updateLock[a], None}
  BY DEF Released
<1>3. \A a \in Accounts : shareLock'[a] \subseteq shareLock[a] \ {s}
  BY DEF Released
<1> QED
  BY <1>1, <1>2, <1>3, OrderWithout

\* A step that leaves the locks alone and lets at most a post go on keeps the order.
LEMMA SameOrder ==
  ASSUME LedgerInv, OrderSound, UNCHANGED <<updateLock, shareLock>>,
         \A t \in Sessions :
            \/ session'[t] = session[t]
            \/ Posting(t) /\ session'[t].pc \in {"checked", "inserted"}
  PROVE  OrderSound'
<1>1. \A a \in Accounts : updateLock[a] \in Sessions \cup {None} /\ shareLock[a] \subseteq Sessions
  BY DEF LedgerInv, TypeOK
<1>2. ASSUME NEW a \in Accounts, updateLock'[a] # None
      PROVE  (/\ Posting(updateLock[a])
              /\ session[updateLock[a]].pc = "locking" /\ session[updateLock[a]].want # None =>
                    a < session[updateLock[a]].want)'
  <2> DEFINE t == updateLock[a]
  <2>1. t \in Sessions /\ t # None /\ updateLock'[a] = t
    BY <1>1, <1>2
  <2>2. Posting(t) /\ (session[t].pc = "locking" /\ session[t].want # None => a < session[t].want)
    BY <2>1 DEF OrderSound
  <2>3. CASE session'[t] = session[t]
    BY <2>1, <2>2, <2>3 DEF Posting
  <2>4. CASE session'[t].pc \in {"checked", "inserted"}
    BY <2>1, <2>4 DEF Posting
  <2> QED
    BY <2>1, <2>3, <2>4
<1>3. ASSUME NEW a \in Accounts, NEW t \in shareLock'[a]
      PROVE  Reversing(t)'
  <2>1. t \in Sessions /\ Reversing(t)
    BY <1>1 DEF OrderSound
  <2> QED
    BY <2>1 DEF Reversing, Posting
<1>4. (\A t \in Sessions :
         session[t].pc = "locking" => session[t].want \in Ascending(session[t].todo))'
  BY DEF OrderSound, Ascending
<1> QED
  BY <1>2, <1>3, <1>4 DEF OrderSound

LEMMA NextOrder == LedgerInv /\ OrderSound /\ [Next]_vars => OrderSound'
<1> SUFFICES ASSUME LedgerInv, OrderSound, [Next]_vars PROVE OrderSound'
  OBVIOUS
<1> USE LedgerAssumption
<1>a. /\ session \in [Sessions -> SessionStates]
      /\ updateLock \in [Accounts -> Sessions \cup {None}]
      /\ shareLock \in [Accounts -> SUBSET Sessions]
  BY DEF LedgerInv, TypeOK
<1>b. \A s \in Sessions : session[s] \in SessionStates
  BY <1>a
<1>1. ASSUME NEW s \in Sessions, NEW r \in Requests, AnswerKnownKey(s, r)
      PROVE  OrderSound'
  <2>1. UNCHANGED <<session, updateLock, shareLock>>
    BY <1>1 DEF AnswerKnownKey
  <2> QED
    BY <2>1, SameOrder
<1>2. ASSUME NEW s \in Sessions, NEW r \in Requests, BeginPost(s, r)
      PROVE  OrderSound'
  <2>1. PICK e \in FreshEntries, a \in Ascending(LockPlan(r.legs)) :
            session' = [session EXCEPT ![s] =
                         [pc |-> "locking", legs |-> r.legs, guard |-> r.guard, key |-> r.key,
                          todo |-> LockPlan(r.legs), want |-> a, new |-> e, target |-> None]]
    BY <1>2 DEF BeginPost
  <2>2. /\ session'[s].pc = "locking" /\ session'[s].want = a /\ session'[s].todo = LockPlan(r.legs)
        /\ \A t \in Sessions : t # s => session'[t] = session[t]
        /\ session[s].pc = "idle"
        /\ UNCHANGED <<updateLock, shareLock>>
    BY <1>2, <1>a, <2>1 DEF BeginPost, Idle
  <2>3. \A c \in Accounts : updateLock[c] # s /\ shareLock[c] \subseteq shareLock[c] \ {s}
    BY <2>2 DEF OrderSound, Posting, Reversing
  <2> QED
    BY <2>2, <2>3, OrderWithout
<1>3. ASSUME NEW s \in Sessions, LockAccount(s)
      PROVE  OrderSound'
  <2> DEFINE a == session[s].want
             rest == session[s].todo \ {a}
  <2>1. /\ session[s].pc = "locking"
        /\ a \in Accounts
        /\ updateLock' = [updateLock EXCEPT ![a] = s]
        /\ UNCHANGED shareLock
    BY <1>3, <1>b DEF LockAccount, SessionStates
  <2>2. PICK b \in Ascending(rest) :
            session' = [session EXCEPT ![s] = [session[s] EXCEPT !.todo = rest, !.want = b]]
    BY <1>3 DEF LockAccount
  <2>3. /\ session'[s].pc = "locking" /\ session'[s].want = b /\ session'[s].todo = rest
        /\ \A t \in Sessions : t # s => session'[t] = session[t]
    BY <2>1, <2>2, <1>a, <1>b DEF SessionStates
  <2>4. b # None => b \in Nat /\ a < b
    <3>1. a \in Ascending(session[s].todo) /\ session[s].todo \subseteq Accounts
      BY <2>1, <1>b DEF OrderSound, SessionStates
    <3>2. ASSUME b # None
          PROVE  b \in session[s].todo /\ b # a /\ a <= b
      BY <2>1, <3>1, <3>2 DEF Ascending
    <3>3. Accounts \subseteq Nat
      BY LedgerAssumption
    <3>4. session[s].todo \subseteq Nat /\ a \in Nat
      BY <3>1, <3>3, <2>1
    <3> HIDE DEF a
    <3> QED
      BY <3>2, <3>4
  <2>5. ASSUME NEW c \in Accounts, updateLock'[c] # None
        PROVE  (/\ Posting(updateLock[c])
                /\ session[updateLock[c]].pc = "locking" /\ session[updateLock[c]].want # None =>
                      c < session[updateLock[c]].want)'
    <3>1. CASE updateLock'[c] # s
      <4>1. updateLock'[c] = updateLock[c] /\ updateLock[c] \in Sessions
        BY <3>1, <2>1, <2>5, <1>a
      <4>2. session'[updateLock[c]] = session[updateLock[c]]
        BY <4>1, <3>1, <2>3
      <4> QED
        BY <4>1, <4>2, <2>5 DEF OrderSound, Posting
    <3>2. CASE updateLock'[c] = s
      <4>1. b # None => c < b
        <5>1. CASE c = a
          BY <5>1, <2>4
        <5>2. CASE c # a
          <6>1. updateLock[c] = s
            BY <3>2, <5>2, <2>1, <1>a
          <6>2. c < a
            BY <6>1, <2>1 DEF OrderSound
          <6>3. c \in Nat /\ a \in Nat
            BY <2>1, LedgerAssumption
          <6> HIDE DEF a
          <6> QED
            BY <6>2, <6>3, <2>4
        <5> QED
          BY <5>1, <5>2
      <4> QED
        BY <3>2, <4>1, <2>3 DEF Posting
    <3> QED
      BY <3>1, <3>2
  <2>6. ASSUME NEW c \in Accounts, NEW t \in shareLock[c]
        PROVE  Reversing(t)'
    BY <1>a, <2>1, <2>3 DEF OrderSound, Reversing
  <2>7. \A t \in Sessions : session'[t].pc = "locking" => session'[t].want \in Ascending(session'[t].todo)
    BY <2>2, <2>3 DEF OrderSound
  <2> QED
    BY <2>1, <2>5, <2>6, <2>7 DEF OrderSound, Ascending
<1>4. ASSUME NEW s \in Sessions, CheckOverdraft(s)
      PROVE  OrderSound'
  <2>1. CASE Abort(s, "overdraft")
    BY <2>1, ReleasedOrder DEF Abort
  <2>2. CASE /\ session' = [session EXCEPT ![s].pc = "checked"]
             /\ UNCHANGED <<entry, updateLock, shareLock, entryLock, answer>>
    <3>1. \A t \in Sessions : IF t = s THEN session'[t].pc = "checked" ELSE session'[t] = session[t]
      BY <2>2, <1>a, <1>b DEF SessionStates
    <3> QED
      BY <2>2, <1>4, <3>1, SameOrder DEF CheckOverdraft, Posting
  <2> QED
    BY <1>4, <2>1, <2>2 DEF CheckOverdraft
<1>5. ASSUME NEW s \in Sessions, InsertEntry(s)
      PROVE  OrderSound'
  <2>1. CASE Abort(s, "duplicate key")
    BY <2>1, ReleasedOrder DEF Abort
  <2>2. CASE /\ session' = [session EXCEPT ![s].pc = "inserted"]
             /\ UNCHANGED <<entry, updateLock, shareLock, entryLock, answer>>
    <3>1. \A t \in Sessions : IF t = s THEN session'[t].pc = "inserted" ELSE session'[t] = session[t]
      BY <2>2, <1>a, <1>b DEF SessionStates
    <3> QED
      BY <2>2, <1>5, <3>1, SameOrder DEF InsertEntry, Posting
  <2> QED
    BY <1>5, <2>1, <2>2 DEF InsertEntry
<1>7. ASSUME NEW s \in Sessions, NEW e \in Entries, BeginReverse(s, e)
      PROVE  OrderSound'
  <2>1. PICK m \in FreshEntries, a \in AnyOrder(Touched(entry[e].legs)) :
            session' = [session EXCEPT ![s] =
                         [pc |-> "mirroring", legs |-> Negated(entry[e].legs),
                          guard |-> FALSE, key |-> None, todo |-> Touched(entry[e].legs),
                          want |-> a, new |-> m, target |-> e]]
    BY <1>7 DEF BeginReverse
  <2>2. /\ session'[s].pc = "mirroring"
        /\ \A t \in Sessions : t # s => session'[t] = session[t]
        /\ session[s].pc = "idle"
        /\ UNCHANGED <<updateLock, shareLock>>
    BY <1>7, <1>a, <2>1 DEF BeginReverse, Idle
  <2>3. \A c \in Accounts : updateLock[c] # s /\ shareLock[c] \subseteq shareLock[c] \ {s}
    BY <2>2 DEF OrderSound, Posting, Reversing
  <2> QED
    BY <2>2, <2>3, OrderWithout
<1>8. ASSUME NEW s \in Sessions, ShareAccount(s)
      PROVE  OrderSound'
  <2>1. /\ session[s].pc = "mirroring"
        /\ session[s].want \in Accounts
        /\ shareLock' = [shareLock EXCEPT ![session[s].want] = @ \cup {s}]
        /\ UNCHANGED updateLock
    BY <1>8, <1>b DEF ShareAccount, SessionStates
  <2>2. PICK b \in AnyOrder(session[s].todo \ {session[s].want}) :
            session' = [session EXCEPT ![s] =
                           [session[s] EXCEPT !.todo = session[s].todo \ {session[s].want}, !.want = b]]
    BY <1>8 DEF ShareAccount
  <2>3. /\ session'[s].pc = "mirroring"
        /\ \A t \in Sessions : t # s => session'[t] = session[t]
    BY <2>1, <2>2, <1>a, <1>b DEF SessionStates
  <2>4. \A c \in Accounts : updateLock[c] # s
    BY <2>1 DEF OrderSound, Posting
  <2>5. \A c \in Accounts : shareLock'[c] \subseteq shareLock[c] \cup {s}
    BY <2>1, <1>a
  <2>6. ASSUME NEW c \in Accounts, updateLock'[c] # None
        PROVE  (/\ Posting(updateLock[c])
                /\ session[updateLock[c]].pc = "locking" /\ session[updateLock[c]].want # None =>
                      c < session[updateLock[c]].want)'
    <3>1. updateLock'[c] = updateLock[c] /\ updateLock[c] \in Sessions /\ updateLock[c] # s
      BY <2>1, <2>4, <2>6, <1>a
    <3>2. session'[updateLock'[c]] = session[updateLock[c]]
      BY <3>1, <2>3
    <3> QED
      BY <3>1, <3>2, <2>6 DEF OrderSound, Posting
  <2>7. ASSUME NEW c \in Accounts, NEW t \in shareLock'[c]
        PROVE  Reversing(t)'
    BY <2>3, <2>5, <1>a DEF OrderSound, Reversing
  <2>8. (\A t \in Sessions :
           session[t].pc = "locking" => session[t].want \in Ascending(session[t].todo))'
    BY <2>3 DEF OrderSound, Ascending
  <2> QED
    BY <2>6, <2>7, <2>8 DEF OrderSound
<1>9. ASSUME NEW s \in Sessions, CommitPost(s) \/ CommitReverse(s)
      PROVE  OrderSound'
  BY <1>9, ReleasedOrder DEF CommitPost, CommitReverse, Abort
<1>10. ASSUME NEW s \in Sessions, Rollback(s) \/ BreakDeadlock(s)
       PROVE  OrderSound'
  BY <1>10, ReleasedOrder DEF Rollback, BreakDeadlock, Abort
<1>11. CASE UNCHANGED vars
  <2>1. UNCHANGED <<session, updateLock, shareLock>>
    BY <1>11 DEF vars
  <2> QED
    BY <2>1, SameOrder
<1> QED
  BY <1>1, <1>2, <1>3, <1>4, <1>5, <1>7, <1>8, <1>9, <1>10, <1>11 DEF Next, Begin, Continue

\* Accounts are locked in ascending order, and a reversal locks KEY SHARE only: posts
\* alone never deadlock, however many there are and whatever accounts they move.
THEOREM LedgerPostsNeverDeadlock == Spec => []PostsNeverDeadlock
<1>1. Init => OrderSound
  BY LedgerAssumption DEF Init, OrderSound, Posting, Idle
<1>2. LedgerInv /\ OrderSound => PostsNeverDeadlock
  BY NoCircleOfPosts
<1> QED
  BY <1>1, <1>2, NextOrder, SpecInv, PTL DEF Spec

-----------------------------------------------------------------------------
(* The write path implements LedgerBook. *)

\* The sum of legs is the same operator in the detailed and the abstract module.
LEMMA SameSum ==
  ASSUME NEW f PROVE Book!SumFunction(f) = SumFunction(f)
BY DEF SumFunction, SumFunctionOnSet, FoldFunctionOnSet, MapThenFoldSet,
       Book!SumFunction, Book!SumFunctionOnSet, Book!FoldFunctionOnSet, Book!MapThenFoldSet

\* The locked, several-statement write path implements the ledger in which a post
\* and a reversal are one step each.
THEOREM LedgerImplementsBook == Spec => BookSpec
<1> USE LedgerAssumption
<1>1. Init => Book!Init
  BY DEF Init, Book!Init, NoEntry, Book!Nothing
<1>2. ASSUME LedgerInv, ProbeStillHolds, [Next]_vars
      PROVE  [Book!Next]_entry
  <2>1. CASE entry' = entry
    BY <2>1
  <2>2. ASSUME NEW s \in Sessions, CommitPost(s)
        PROVE  Book!Next
    <3> DEFINE new == session[s].new
    <3>1. /\ new \in Entries
          /\ entry[new] = NoEntry
          /\ entry' = [entry EXCEPT ![new] =
                          [status |-> "posted", legs |-> session[s].legs, key |-> session[s].key,
                           reversalOf |-> None]]
      BY <1>2, <2>2, CommitPostRows
    <3>2. PICK r \in Requests :
              session[s].legs = r.legs /\ session[s].guard = r.guard /\ session[s].key = r.key
      BY <1>2, <2>2 DEF LedgerInv, PostsSound, Posting, CommitPost
    <3>3. SumFunction(r.legs) = 0
      BY <1>2, <2>2, <3>2 DEF LedgerInv, PostsSound, Posting, CommitPost
    <3>4. r.key # None => \A x \in Entries : entry[x].key # r.key
      BY <1>2, <2>2, <3>2 DEF LedgerInv, KeysSound, CommitPost
    <3>5. ASSUME r.guard, NEW a \in Accounts, r.legs[a] < 0
          PROVE  Book!BalanceOf(a) + r.legs[a] >= 0
      <4>1. Covered(session[s].legs)
        BY <1>2, <2>2, <3>2, <3>5 DEF ProbeStillHolds, CommitPost
      <4>2. Balance(a) + r.legs[a] >= 0
        BY <4>1, <3>2, <3>5 DEF Covered
      <4>3. {x \in Entries : entry[x].status = "posted" /\ entry[x].legs[a] # 0}
              = {x \in Book!Posted : entry[x].legs[a] # 0}
        BY DEF Book!Posted
      <4>4. Balance(a) = Book!BalanceOf(a)
        BY <4>3, SameSum DEF Balance, Movements, Book!BalanceOf
      <4> QED
        BY <4>2, <4>4
    <3>6. entry[new].status = "free"
      BY <3>1 DEF NoEntry
    <3>7. entry' = [entry EXCEPT ![new] =
                       [status |-> "posted", legs |-> r.legs, key |-> r.key, reversalOf |-> None]]
      BY <3>1, <3>2
    <3>8. Book!Post(new, r)
      BY <3>3, <3>4, <3>5, <3>6, <3>7, SameSum DEF Book!Post
    <3> QED
      BY <3>1, <3>8 DEF Book!Next
  <2>3. ASSUME NEW s \in Sessions, CommitReverse(s), entry' # entry
        PROVE  Book!Next
    <3> DEFINE e == session[s].target
               new == session[s].new
    <3>1. /\ e \in Entries /\ new \in Entries
          /\ entry[e].status = "posted"
          /\ entry[new] = NoEntry
          /\ session[s].legs = Negated(entry[e].legs)
          /\ entry' = [x \in Entries |->
                         IF x = new THEN MirrorRow(s)
                         ELSE IF x = e THEN [entry[e] EXCEPT !.status = "void"] ELSE entry[x]]
      <4>1. /\ e \in Entries /\ new \in Entries
            /\ entry[e].status = "posted"
            /\ entry[new] = NoEntry
            /\ session[s].legs = Negated(entry[e].legs)
        BY <1>2, <2>3, CommitReverseReads
      <4>2. entry' = [x \in Entries |->
                         IF x = new THEN MirrorRow(s)
                         ELSE IF x = e THEN [entry[e] EXCEPT !.status = "void"] ELSE entry[x]]
        BY <2>3 DEF CommitReverse, Abort
      <4>3. QED
        BY <4>1, <4>2
    <3>2. MirrorRow(s) = [status |-> "void", legs |-> [a \in Accounts |-> -entry[e].legs[a]],
                          key |-> None, reversalOf |-> e]
      BY <3>1 DEF MirrorRow, Negated
    <3>3. entry[new].status = "free"
      BY <3>1 DEF NoEntry
    <3>4. Book!Reverse(e, new)
      BY <3>1, <3>2, <3>3 DEF Book!Reverse
    <3> QED
      BY <3>1, <3>4 DEF Book!Next
  <2> QED
    BY <1>2, <2>1, <2>2, <2>3, RowsChange
<1> QED
  BY <1>1, <1>2, SpecInv, PTL DEF Spec, BookSpec, Book!Spec
-----------------------------------------------------------------------------
(* Sums over finite sets.  The library's induction theorems take an operator; a    *)
(* minimal counterexample (WFMin) does without.                                     *)

\* Induction over the subsets of a finite set.
LEMMA SubsetInduction ==
  ASSUME NEW S, IsFiniteSet(S), NEW Good,
         \A T \in SUBSET S : (\A U \in SUBSET T : U # T => U \in Good) => T \in Good
  PROVE  SUBSET S \subseteq Good
<1> DEFINE Bad == {T \in SUBSET S : T \notin Good}
<1> SUFFICES ASSUME Bad # {} PROVE FALSE
  OBVIOUS
<1>1. IsWellFoundedOn(StrictSubsetOrdering(S), SUBSET S)
  <2>1. IsWellFoundedOn(StrictSubsetOrdering(S), FiniteSubsetsOf(S))
    BY FS_StrictSubsetOrderingWellFounded
  <2>2. FiniteSubsetsOf(S) = SUBSET S
    BY FS_FiniteSubsetsOfFinite
  <2> QED
    BY <2>1, <2>2
<1>2. Bad \subseteq SUBSET S
  OBVIOUS
<1>3. PICK T \in Bad : \A U \in Bad : <<U, T>> \notin StrictSubsetOrdering(S)
  <2> HIDE DEF Bad
  <2> QED
    BY <1>1, <1>2, WFMin
<1>4. ASSUME NEW U \in SUBSET T, U # T PROVE U \in Good
  BY <1>3, <1>4 DEF StrictSubsetOrdering
<1> QED
  BY <1>3, <1>4

\* The function by which SumFunctionOnSet is defined.
IsSum(g, f, S) ==
    g = [s \in SUBSET S |->
            IF s = {} THEN 0 ELSE LET x == CHOOSE x \in s : TRUE IN f[x] + g[s \ {x}]]

LEMMA SumIsFold ==
  ASSUME NEW f, NEW S
  PROVE  SumFunctionOnSet(f, S) = (CHOOSE g : IsSum(g, f, S))[S]
BY DEF SumFunctionOnSet, FoldFunctionOnSet, MapThenFoldSet, IsSum

\* Two such functions agree on the sets both are defined on.
LEMMA SumIsUnique ==
  ASSUME NEW f, NEW S, IsFiniteSet(S), NEW T, NEW g, IsSum(g, f, S), NEW h, IsSum(h, f, T)
  PROVE  \A U \in SUBSET S : U \subseteq T => g[U] = h[U]
<1> DEFINE Good == {U \in SUBSET S : U \subseteq T => g[U] = h[U]}
<1>1. ASSUME NEW U \in SUBSET S, \A V \in SUBSET U : V # U => V \in Good, U \subseteq T
      PROVE  g[U] = h[U]
  <2>1. CASE U = {}
    BY <2>1, <1>1 DEF IsSum
  <2>2. CASE U # {}
    <3> DEFINE x == CHOOSE x \in U : TRUE
    <3>1. x \in U
      BY <2>2
    <3>2. g[U] = f[x] + g[U \ {x}] /\ h[U] = f[x] + h[U \ {x}]
      BY <2>2, <1>1 DEF IsSum
    <3> HIDE DEF x
    <3>3. g[U \ {x}] = h[U \ {x}]
      BY <3>1, <1>1
    <3> QED
      BY <3>2, <3>3
  <2> QED
    BY <2>1, <2>2
<1>2. \A U \in SUBSET S : (\A V \in SUBSET U : V # U => V \in Good) => U \in Good
  BY <1>1
<1>3. SUBSET S \subseteq Good
  <2> HIDE DEF Good
  <2> QED
    BY <1>2, SubsetInduction
<1> QED
  BY <1>3

\* It exists on every finite set.
LEMMA SumExists ==
  ASSUME NEW f, NEW S, IsFiniteSet(S)
  PROVE  \E g : IsSum(g, f, S)
<1> DEFINE Good == {U \in SUBSET S : \E g : IsSum(g, f, U)}
           val(W) == (CHOOSE g : IsSum(g, f, W))[W]
<1>1. ASSUME NEW U \in SUBSET S, \A V \in SUBSET U : V # U => V \in Good
      PROVE  \E g : IsSum(g, f, U)
  <2>0. IsFiniteSet(U)
    BY FS_Subset
  <2> DEFINE k == [V \in SUBSET U |->
                      IF V = {} THEN 0 ELSE LET x == CHOOSE x \in V : TRUE IN f[x] + val(V \ {x})]
  <2>1. ASSUME NEW W \in SUBSET U, W # U
        PROVE  k[W] = val(W)
    <3> DEFINE g == CHOOSE g : IsSum(g, f, W)
    <3>1. IsSum(g, f, W)
      BY <1>1, <2>1
    <3>2. CASE W = {}
      BY <3>1, <3>2 DEF IsSum
    <3>3. CASE W # {}
      <4> DEFINE x == CHOOSE x \in W : TRUE
      <4>1. x \in W
        BY <3>3
      <4>2. g[W] = f[x] + g[W \ {x}]
        <5> HIDE DEF g
        <5> QED
          BY <3>1, <3>3 DEF IsSum
      <4>3. k[W] = f[x] + val(W \ {x})
        <5> HIDE DEF val
        <5> QED
          BY <3>3
      <4> DEFINE h == CHOOSE h : IsSum(h, f, W \ {x})
      <4> HIDE DEF x
      <4>4. W \ {x} \in Good
        BY <4>1, <1>1
      <4>5. IsSum(h, f, W \ {x})
        BY <4>4
      <4>6. g[W \ {x}] = h[W \ {x}]
        <5> HIDE DEF g, h
        <5>1. IsFiniteSet(W)
          BY <2>0, FS_Subset
        <5> QED
          BY <5>1, <3>1, <4>5, SumIsUnique
      <4> QED
        BY <4>2, <4>3, <4>6
    <3> QED
      BY <3>2, <3>3
  <2>2. k = [V \in SUBSET U |->
                IF V = {} THEN 0 ELSE LET x == CHOOSE x \in V : TRUE IN f[x] + k[V \ {x}]]
    <3>1. ASSUME NEW V \in SUBSET U, V # {}
          PROVE  k[V \ {CHOOSE x \in V : TRUE}] = val(V \ {CHOOSE x \in V : TRUE})
      <4>1. (CHOOSE x \in V : TRUE) \in V
        BY <3>1
      <4> HIDE DEF k, val
      <4> QED
        BY <4>1, <2>1
    <3> HIDE DEF val
    <3>2. k = [V \in SUBSET U |-> k[V]]
      OBVIOUS
    <3>3. \A V \in SUBSET U : k[V] = IF V = {} THEN 0
                                     ELSE LET x == CHOOSE x \in V : TRUE IN f[x] + k[V \ {x}]
      <4>1. \A V \in SUBSET U : k[V] = IF V = {} THEN 0
                                       ELSE LET x == CHOOSE x \in V : TRUE IN f[x] + val(V \ {x})
        OBVIOUS
      <4> HIDE DEF k
      <4> QED
        BY <3>1, <4>1
    <3> HIDE DEF k
    <3> QED
      BY <3>2, <3>3
  <2> HIDE DEF k
  <2> QED
    BY <2>2 DEF IsSum
<1>2. \A U \in SUBSET S : (\A V \in SUBSET U : V # U => V \in Good) => U \in Good
  BY <1>1
<1>3. SUBSET S \subseteq Good
  <2> HIDE DEF Good
  <2> QED
    BY <1>2, SubsetInduction
<1> QED
  BY <1>3

LEMMA SumOfNone == ASSUME NEW f PROVE SumFunctionOnSet(f, {}) = 0
<1>1. IsFiniteSet({})
  BY FS_EmptySet
<1>2. PICK g : IsSum(g, f, {})
  BY <1>1, SumExists
<1> DEFINE h == CHOOSE h : IsSum(h, f, {})
<1>3. IsSum(h, f, {})
  BY <1>2
<1> HIDE DEF h
<1>4. h[{}] = 0
  BY <1>3 DEF IsSum
<1> QED
  BY <1>4, SumIsFold DEF h

\* Adding up a set begins with the element that CHOOSE picks.
LEMMA SumOfSome ==
  ASSUME NEW f, NEW S, IsFiniteSet(S), S # {}
  PROVE  LET x == CHOOSE x \in S : TRUE IN SumFunctionOnSet(f, S) = f[x] + SumFunctionOnSet(f, S \ {x})
<1> DEFINE x == CHOOSE x \in S : TRUE
           g == CHOOSE g : IsSum(g, f, S)
           h == CHOOSE h : IsSum(h, f, S \ {x})
<1>1. IsFiniteSet(S \ {x})
  BY FS_RemoveElement
<1>2. IsSum(g, f, S)
  BY SumExists
<1>3. IsSum(h, f, S \ {x})
  <2> HIDE DEF x
  <2> QED
    BY <1>1, SumExists
<1>4. SumFunctionOnSet(f, S) = g[S] /\ SumFunctionOnSet(f, S \ {x}) = h[S \ {x}]
  <2> HIDE DEF x
  <2> QED
    BY SumIsFold
<1> HIDE DEF g, h
<1>5. g[S] = f[x] + g[S \ {x}]
  BY <1>2 DEF IsSum
<1>6. g[S \ {x}] = h[S \ {x}]
  <2> HIDE DEF x
  <2>1. \A U \in SUBSET S : U \subseteq S \ {x} => g[U] = h[U]
    BY <1>2, <1>3, SumIsUnique
  <2>2. S \ {x} \in SUBSET S
    OBVIOUS
  <2> QED
    BY <2>1, <2>2
<1> QED
  BY <1>4, <1>5, <1>6

LEMMA SumIsInt ==
  ASSUME NEW f, NEW S, IsFiniteSet(S), \A x \in S : f[x] \in Int
  PROVE  SumFunctionOnSet(f, S) \in Int
<1> DEFINE Good == {U \in SUBSET S : SumFunctionOnSet(f, U) \in Int}
<1>1. ASSUME NEW U \in SUBSET S, \A V \in SUBSET U : V # U => V \in Good
      PROVE  SumFunctionOnSet(f, U) \in Int
  <2>1. CASE U = {}
    BY <2>1, SumOfNone
  <2>2. CASE U # {}
    <3> DEFINE x == CHOOSE x \in U : TRUE
    <3>1. x \in U /\ IsFiniteSet(U)
      BY <2>2, FS_Subset
    <3>2. SumFunctionOnSet(f, U) = f[x] + SumFunctionOnSet(f, U \ {x})
      BY <2>2, <3>1, SumOfSome
    <3> HIDE DEF x
    <3>3. SumFunctionOnSet(f, U \ {x}) \in Int
      BY <1>1, <3>1
    <3> QED
      BY <3>1, <3>2, <3>3
  <2> QED
    BY <2>1, <2>2
<1>2. \A U \in SUBSET S : (\A V \in SUBSET U : V # U => V \in Good) => U \in Good
  BY <1>1
<1>3. SUBSET S \subseteq Good
  <2> HIDE DEF Good
  <2> QED
    BY <1>2, SubsetInduction
<1> QED
  BY <1>3

\* The order does not matter: any element can be taken first.
LEMMA SumTakes ==
  ASSUME NEW f, NEW S, IsFiniteSet(S), \A x \in S : f[x] \in Int, NEW y \in S
  PROVE  SumFunctionOnSet(f, S) = f[y] + SumFunctionOnSet(f, S \ {y})
<1> DEFINE Good == {U \in SUBSET S : \A z \in U : SumFunctionOnSet(f, U) = f[z] + SumFunctionOnSet(f, U \ {z})}
<1>1. ASSUME NEW U \in SUBSET S, \A V \in SUBSET U : V # U => V \in Good, NEW z \in U
      PROVE  SumFunctionOnSet(f, U) = f[z] + SumFunctionOnSet(f, U \ {z})
  <2> DEFINE x == CHOOSE x \in U : TRUE
  <2>1. x \in U /\ IsFiniteSet(U) /\ U # {}
    BY FS_Subset
  <2>2. SumFunctionOnSet(f, U) = f[x] + SumFunctionOnSet(f, U \ {x})
    BY <2>1, SumOfSome
  <2> HIDE DEF x
  <2>3. CASE z = x
    BY <2>2, <2>3
  <2>4. CASE z # x
    <3>1. SumFunctionOnSet(f, U \ {x}) = f[z] + SumFunctionOnSet(f, (U \ {x}) \ {z})
      BY <1>1, <2>1, <2>4
    <3>2. SumFunctionOnSet(f, U \ {z}) = f[x] + SumFunctionOnSet(f, (U \ {z}) \ {x})
      BY <1>1, <2>1, <2>4
    <3>3. (U \ {x}) \ {z} = (U \ {z}) \ {x}
      OBVIOUS
    <3> DEFINE rest == SumFunctionOnSet(f, (U \ {z}) \ {x})
    <3>4. rest \in Int
      <4>1. IsFiniteSet((U \ {z}) \ {x})
        BY <2>1, FS_Subset
      <4> QED
        BY <4>1, SumIsInt
    <3>5. f[x] \in Int /\ f[z] \in Int
      BY <2>1
    <3>6. SumFunctionOnSet(f, U) = f[x] + (f[z] + rest) /\ SumFunctionOnSet(f, U \ {z}) = f[x] + rest
      BY <2>2, <3>1, <3>2, <3>3
    <3> HIDE DEF rest
    <3> QED
      BY <3>4, <3>5, <3>6
  <2> QED
    BY <2>3, <2>4
<1>2. \A U \in SUBSET S : (\A V \in SUBSET U : V # U => V \in Good) => U \in Good
  BY <1>1
<1>3. SUBSET S \subseteq Good
  <2> HIDE DEF Good
  <2> QED
    BY <1>2, SubsetInduction
<1> QED
  BY <1>3

\* Only the values on the set count.
LEMMA SumAgrees ==
  ASSUME NEW f, NEW h, NEW S, IsFiniteSet(S), \A x \in S : f[x] = h[x]
  PROVE  SumFunctionOnSet(f, S) = SumFunctionOnSet(h, S)
<1> DEFINE Good == {U \in SUBSET S : SumFunctionOnSet(f, U) = SumFunctionOnSet(h, U)}
<1>1. ASSUME NEW U \in SUBSET S, \A V \in SUBSET U : V # U => V \in Good
      PROVE  SumFunctionOnSet(f, U) = SumFunctionOnSet(h, U)
  <2>1. CASE U = {}
    BY <2>1, SumOfNone
  <2>2. CASE U # {}
    <3> DEFINE x == CHOOSE x \in U : TRUE
    <3>1. x \in U /\ IsFiniteSet(U)
      BY <2>2, FS_Subset
    <3>2. SumFunctionOnSet(f, U) = f[x] + SumFunctionOnSet(f, U \ {x}) /\ SumFunctionOnSet(h, U) = h[x] + SumFunctionOnSet(h, U \ {x})
      BY <2>2, <3>1, SumOfSome
    <3> HIDE DEF x
    <3>3. SumFunctionOnSet(f, U \ {x}) = SumFunctionOnSet(h, U \ {x})
      BY <1>1, <3>1
    <3> QED
      BY <3>1, <3>2, <3>3
  <2> QED
    BY <2>1, <2>2
<1>2. \A U \in SUBSET S : (\A V \in SUBSET U : V # U => V \in Good) => U \in Good
  BY <1>1
<1>3. SUBSET S \subseteq Good
  <2> HIDE DEF Good
  <2> QED
    BY <1>2, SubsetInduction
<1> QED
  BY <1>3

-----------------------------------------------------------------------------
\* Two tables are added up together or each by itself.
LEMMA SumPlus ==
  ASSUME NEW f, NEW g, NEW h, NEW S, IsFiniteSet(S),
         \A x \in S : f[x] \in Int /\ g[x] \in Int /\ h[x] = f[x] + g[x]
  PROVE  SumFunctionOnSet(h, S) = SumFunctionOnSet(f, S) + SumFunctionOnSet(g, S)
<1> DEFINE Good == {U \in SUBSET S :
                      SumFunctionOnSet(h, U) = SumFunctionOnSet(f, U) + SumFunctionOnSet(g, U)}
<1>1. ASSUME NEW U \in SUBSET S, \A V \in SUBSET U : V # U => V \in Good
      PROVE  SumFunctionOnSet(h, U) = SumFunctionOnSet(f, U) + SumFunctionOnSet(g, U)
  <2>1. CASE U = {}
    BY <2>1, SumOfNone
  <2>2. CASE U # {}
    <3> DEFINE x == CHOOSE x \in U : TRUE
    <3>1. x \in U /\ IsFiniteSet(U)
      BY <2>2, FS_Subset
    <3>2. /\ SumFunctionOnSet(f, U) = f[x] + SumFunctionOnSet(f, U \ {x})
          /\ SumFunctionOnSet(g, U) = g[x] + SumFunctionOnSet(g, U \ {x})
          /\ SumFunctionOnSet(h, U) = h[x] + SumFunctionOnSet(h, U \ {x})
      BY <2>2, <3>1, SumOfSome
    <3> HIDE DEF x
    <3> DEFINE F == SumFunctionOnSet(f, U \ {x})
               G == SumFunctionOnSet(g, U \ {x})
    <3>3. SumFunctionOnSet(h, U \ {x}) = F + G
      BY <1>1, <3>1
    <3>4. F \in Int /\ G \in Int
      <4>1. IsFiniteSet(U \ {x})
        BY <3>1, FS_RemoveElement
      <4> QED
        BY <4>1, SumIsInt
    <3>5. f[x] \in Int /\ g[x] \in Int /\ h[x] = f[x] + g[x]
      BY <3>1
    <3> HIDE DEF F, G
    <3>6. SumFunctionOnSet(h, U) = (f[x] + F) + (g[x] + G)
      BY <3>2, <3>3, <3>4, <3>5 DEF F, G
    <3> QED
      BY <3>2, <3>6 DEF F, G
  <2> QED
    BY <2>1, <2>2
<1>2. \A U \in SUBSET S : (\A V \in SUBSET U : V # U => V \in Good) => U \in Good
  BY <1>1
<1>3. SUBSET S \subseteq Good
  <2> HIDE DEF Good
  <2> QED
    BY <1>2, SubsetInduction
<1> QED
  BY <1>3

LEMMA SumOfZeros ==
  ASSUME NEW f, NEW S, IsFiniteSet(S), \A x \in S : f[x] = 0
  PROVE  SumFunctionOnSet(f, S) = 0
<1> DEFINE sum == SumFunctionOnSet(f, S)
<1>1. sum = sum + sum
  BY SumPlus
<1>2. sum \in Int
  BY SumIsInt
<1>3. sum = 0
  <2> HIDE DEF sum
  <2> QED
    BY <1>1, <1>2
<1> QED
  BY <1>3

\* A row that comes with v adds v, and one that is not counted, because v is zero, nothing.
LEMMA SumOfOneMore ==
  ASSUME NEW f, NEW g, NEW S, IsFiniteSet(S), NEW e, e \notin S, NEW v \in Int,
         \A x \in S : f[x] \in Int /\ g[x] = f[x],
         NEW T, v = 0 => T = S, v # 0 => T = S \cup {e} /\ g[e] = v
  PROVE  SumFunctionOnSet(g, T) = v + SumFunctionOnSet(f, S)
<1>1. SumFunctionOnSet(g, S) = SumFunctionOnSet(f, S)
  BY SumAgrees
<1>2. SumFunctionOnSet(f, S) \in Int
  BY SumIsInt
<1>3. CASE v = 0
  BY <1>1, <1>2, <1>3
<1>4. CASE v # 0
  <2>1. IsFiniteSet(T) /\ T \ {e} = S /\ e \in T
    BY <1>4, FS_AddElement
  <2>2. \A x \in T : g[x] \in Int
    BY <1>4
  <2>3. SumFunctionOnSet(g, T) = g[e] + SumFunctionOnSet(g, T \ {e})
    BY <2>1, <2>2, SumTakes
  <2> QED
    BY <1>1, <1>4, <2>1, <2>3
<1> QED
  BY <1>3, <1>4

-----------------------------------------------------------------------------
(* The trial balance. *)

\* The first two of runIntegrityChecks (integrity/service.ts:36-55): every recorded entry
\* has two legs or more, which sum to zero.
EntriesBalance == \A e \in Entries : entry[e].status # "free" => Balanced(entry[e].legs)

SessionsBalance ==
    \A s \in Sessions : Posting(s) \/ Reversing(s) => Balanced(session[s].legs)

\* Debits equal credits: the balances of all accounts add up to zero.
TrialBalance == SumFunction([a \in Accounts |-> Balance(a)]) = 0

PostedEntries == {e \in Entries : entry[e].status = "posted"}

TrialInv == EntriesBalance /\ SessionsBalance /\ IsFiniteSet(PostedEntries) /\ TrialBalance

\* What cancels a balanced entry is balanced.
LEMMA NegatedBalances ==
  ASSUME IsFiniteSet(Accounts), NEW legs \in Legs, Balanced(legs)
  PROVE  Balanced(Negated(legs))
<1>1. Touched(Negated(legs)) = Touched(legs)
  BY DEF Touched, Negated, Legs
<1>2. SumFunction(legs) = SumFunctionOnSet(legs, Accounts)
  BY DEF SumFunction, Legs
<1>3. SumFunction(Negated(legs)) = SumFunctionOnSet(Negated(legs), Accounts)
  BY DEF SumFunction, Negated
<1> DEFINE zeros == [a \in Accounts |-> 0]
           minus == Negated(legs)
<1>4. \A a \in Accounts : legs[a] \in Int /\ minus[a] \in Int /\ zeros[a] = legs[a] + minus[a] /\ zeros[a] = 0
  BY DEF Negated, Legs
<1> HIDE DEF zeros, minus
<1>5. SumFunctionOnSet(zeros, Accounts) = SumFunctionOnSet(legs, Accounts) + SumFunctionOnSet(minus, Accounts)
  BY <1>4, SumPlus
<1>6. SumFunctionOnSet(zeros, Accounts) = 0
  BY <1>4, SumOfZeros
<1>7. SumFunctionOnSet(minus, Accounts) \in Int
  BY <1>4, SumIsInt
<1>8. SumFunctionOnSet(minus, Accounts) = 0
  BY <1>2, <1>5, <1>6, <1>7 DEF Balanced
<1> QED
  BY <1>1, <1>3, <1>8 DEF Balanced, minus

\* A session works on the legs it began with.
LEMMA NextSessionsBalance ==
  ASSUME IsFiniteSet(Accounts), LedgerInv, EntriesBalance, SessionsBalance, [Next]_vars
  PROVE  SessionsBalance'
<1> USE LedgerAssumption DEF LedgerInv, Posting, Reversing
<1>1. ASSUME NEW s \in Sessions,
             /\ \A t \in Sessions \ {s} : session'[t] = session[t]
             /\ \/ session'[s].pc = "idle"
                \/ Balanced(session'[s].legs)
                \/ session'[s].legs = session[s].legs /\ session[s].pc \in {"locking", "checked", "inserted", "mirroring"}
      PROVE  SessionsBalance'
  BY <1>1 DEF SessionsBalance
<1>2. ASSUME NEW s \in Sessions, NEW r \in Requests, BeginPost(s, r)
      PROVE  SessionsBalance'
  BY <1>1, <1>2 DEF BeginPost, TypeOK
<1>3. ASSUME NEW s \in Sessions, NEW e \in Entries, BeginReverse(s, e)
      PROVE  SessionsBalance'
  <2>1. Balanced(Negated(entry[e].legs))
    BY <1>3, NegatedBalances DEF BeginReverse, EntriesBalance, TypeOK, EntryRows
  <2> QED
    BY <1>1, <1>3, <2>1 DEF BeginReverse, TypeOK
<1>4. ASSUME NEW s \in Sessions, LockAccount(s) \/ ShareAccount(s)
      PROVE  SessionsBalance'
  <2>1. PICK rest, b : session' = [session EXCEPT ![s] = [@ EXCEPT !.todo = rest, !.want = b]]
    BY <1>4 DEF LockAccount, ShareAccount
  <2> DEFINE row == [session[s] EXCEPT !.todo = rest, !.want = b]
  <2>2. session[s] \in SessionStates
    BY DEF TypeOK
  <2>3. row.legs = session[s].legs
    BY <2>2 DEF SessionStates
  <2>4. session' = [session EXCEPT ![s] = row]
    BY <2>1
  <2> HIDE DEF row
  <2>5. session'[s].legs = session[s].legs /\ \A t \in Sessions \ {s} : session'[t] = session[t]
    BY <2>3, <2>4 DEF TypeOK
  <2>6. session[s].pc \in {"locking", "mirroring"}
    BY <1>4 DEF LockAccount, ShareAccount
  <2> QED
    BY <1>1, <2>5, <2>6
<1>5. ASSUME NEW s \in Sessions, session' = [session EXCEPT ![s] = Idle]
      PROVE  SessionsBalance'
  BY <1>1, <1>5 DEF TypeOK, Idle
<1>6. ASSUME NEW s \in Sessions, CheckOverdraft(s) \/ InsertEntry(s)
      PROVE  SessionsBalance'
  <2>1. CASE session' = [session EXCEPT ![s] = Idle]
    BY <1>5, <2>1
  <2>2. CASE session' # [session EXCEPT ![s] = Idle]
    <3>1. PICK pc \in {"checked", "inserted"} : session' = [session EXCEPT ![s].pc = pc]
      BY <1>6, <2>2 DEF CheckOverdraft, InsertEntry, Abort
    <3>2. session'[s].legs = session[s].legs
      BY <3>1 DEF TypeOK, SessionStates
    <3> QED
      BY <1>1, <1>6, <3>1, <3>2 DEF CheckOverdraft, InsertEntry, TypeOK
  <2> QED
    BY <2>1, <2>2
<1>7. ASSUME NEW s \in Sessions, CommitPost(s) \/ CommitReverse(s) \/ Rollback(s) \/ BreakDeadlock(s)
      PROVE  SessionsBalance'
  BY <1>5, <1>7 DEF CommitPost, CommitReverse, Rollback, BreakDeadlock, Abort
<1>8. CASE UNCHANGED session
  BY <1>8 DEF SessionsBalance
<1> QED
  BY <1>2, <1>3, <1>4, <1>6, <1>7, <1>8 DEF Next, Begin, Continue, AnswerKnownKey, vars

LEMMA NextEntriesBalance ==
  ASSUME LedgerInv, EntriesBalance, SessionsBalance, [Next]_vars
  PROVE  EntriesBalance'
<1>1. CASE entry' = entry
  BY <1>1 DEF EntriesBalance
<1>2. ASSUME NEW s \in Sessions, CommitPost(s) PROVE EntriesBalance'
  <2>1. Balanced(session[s].legs)
    BY <1>2 DEF SessionsBalance, Posting, CommitPost
  <2>2. PICK new : new = session[s].new
    OBVIOUS
  <2>a. /\ entry'[new] = [status |-> "posted", legs |-> session[s].legs,
                          key |-> session[s].key, reversalOf |-> None]
        /\ \A x \in Entries : x # new => entry'[x] = entry[x]
    BY <1>2, <2>2, CommitPostRows
  <2>3. entry'[new].legs = session[s].legs /\ \A x \in Entries : x # new => entry'[x] = entry[x]
    BY <2>a
  <2> QED
    BY <2>1, <2>3 DEF EntriesBalance
<1>3. ASSUME NEW s \in Sessions, CommitReverse(s), entry' # entry PROVE EntriesBalance'
  <2>1. Balanced(session[s].legs)
    BY <1>3 DEF SessionsBalance, Reversing, CommitReverse
  <2>2. PICK e, new : e = session[s].target /\ new = session[s].new
    OBVIOUS
  <2>3. /\ e \in Entries /\ entry[e].status = "posted"
        /\ entry'[e] = [entry[e] EXCEPT !.status = "void"] /\ entry'[new] = MirrorRow(s)
        /\ \A x \in Entries : x # new /\ x # e => entry'[x] = entry[x]
    BY <1>3, <2>2, CommitReverseRows
  <2>4. entry'[e].legs = entry[e].legs /\ entry'[new].legs = session[s].legs
    BY <2>3 DEF MirrorRow, LedgerInv, TypeOK, EntryRows
  <2> QED
    BY <2>1, <2>3, <2>4 DEF EntriesBalance
<1> QED
  BY <1>1, <1>2, <1>3, RowsChange

BalanceIn(rows, a) ==
    SumFunction([e \in {x \in Entries : rows[x].status = "posted" /\ rows[x].legs[a] # 0} |-> rows[e].legs[a]])

LEMMA BalanceIsIn ==
  ASSUME NEW a
  PROVE  Balance(a) = BalanceIn(entry, a) /\ Balance(a)' = BalanceIn(entry', a)
BY DEF Balance, Movements, BalanceIn

\* In two tables that differ by one posted entry, the balances differ by its leg.
LEMMA BalanceWith ==
  ASSUME NEW rows, NEW more, NEW e \in Entries, NEW a \in Accounts,
         IsFiniteSet({x \in Entries : rows[x].status = "posted"}),
         rows[e].status # "posted", more[e].status = "posted", more[e].legs[a] \in Int,
         \A x \in Entries \ {e} :
            /\ more[x].status = "posted" <=> rows[x].status = "posted"
            /\ rows[x].status = "posted" => more[x].legs = rows[x].legs /\ rows[x].legs[a] \in Int
  PROVE  BalanceIn(more, a) = more[e].legs[a] + BalanceIn(rows, a) /\ BalanceIn(rows, a) \in Int
<1> DEFINE S == {x \in Entries : rows[x].status = "posted" /\ rows[x].legs[a] # 0}
           v == more[e].legs[a]
           T == IF v = 0 THEN S ELSE S \cup {e}
           f == [x \in S |-> rows[x].legs[a]]
           g == [x \in T |-> more[x].legs[a]]
<1>1. T = {x \in Entries : more[x].status = "posted" /\ more[x].legs[a] # 0}
  OBVIOUS
<1>2. IsFiniteSet(S)
  BY FS_Subset
<1>3. e \notin S /\ v \in Int /\ \A x \in S : f[x] \in Int /\ g[x] = f[x]
  OBVIOUS
<1>4. v = 0 => T = S
  OBVIOUS
<1>5. v # 0 => T = S \cup {e} /\ g[e] = v
  OBVIOUS
<1>6. BalanceIn(rows, a) = SumFunctionOnSet(f, S) /\ BalanceIn(more, a) = SumFunctionOnSet(g, T)
  BY <1>1 DEF BalanceIn, SumFunction
<1> HIDE DEF S, v, T, f, g
<1>7. SumFunctionOnSet(g, T) = v + SumFunctionOnSet(f, S)
  BY <1>2, <1>3, <1>4, <1>5, SumOfOneMore
<1>8. SumFunctionOnSet(f, S) \in Int
  BY <1>2, <1>3, SumIsInt
<1> QED
  BY <1>6, <1>7, <1>8 DEF v

\* The trial balance moves by what an entry sums to, which is nothing.
LEMMA TrialMoves ==
  ASSUME IsFiniteSet(Accounts), NEW f, NEW g, NEW legs \in Legs, SumFunction(legs) = 0,
         f = [a \in Accounts |-> f[a]], g = [a \in Accounts |-> g[a]],
         \A a \in Accounts : f[a] \in Int /\ g[a] = legs[a] + f[a]
  PROVE  SumFunction(g) = SumFunction(f)
<1>1. /\ SumFunction(g) = SumFunctionOnSet(g, Accounts)
      /\ SumFunction(f) = SumFunctionOnSet(f, Accounts)
      /\ SumFunction(legs) = SumFunctionOnSet(legs, Accounts)
  BY DEF SumFunction, Legs
<1>2. SumFunctionOnSet(f, Accounts) \in Int
  BY SumIsInt
<1>3. \A a \in Accounts : legs[a] \in Int
  BY DEF Legs
<1>4. SumFunctionOnSet(g, Accounts) = SumFunctionOnSet(legs, Accounts) + SumFunctionOnSet(f, Accounts)
  BY <1>3, SumPlus
<1> QED
  BY <1>1, <1>2, <1>4

LEMMA NextTrial ==
  ASSUME IsFiniteSet(Accounts), LedgerInv, TrialInv, [Next]_vars
  PROVE  IsFiniteSet(PostedEntries)' /\ TrialBalance'
<1> DEFINE before == [a \in Accounts |-> BalanceIn(entry, a)]
           after  == [a \in Accounts |-> BalanceIn(entry', a)]
<1>1. TrialBalance' <=> SumFunction(after) = 0
  BY BalanceIsIn DEF TrialBalance
<1>2. SumFunction(before) = 0 /\ IsFiniteSet(PostedEntries)
  BY BalanceIsIn DEF TrialInv, TrialBalance
<1>3. \A x \in Entries : entry[x].legs \in Legs
  BY DEF LedgerInv, TypeOK, EntryRows
<1>4. CASE entry' = entry
  BY <1>1, <1>2, <1>4 DEF PostedEntries
<1>5. ASSUME NEW s \in Sessions, CommitPost(s)
      PROVE  IsFiniteSet(PostedEntries)' /\ TrialBalance'
  <2>1. PICK new : new = session[s].new
    OBVIOUS
  <2>2. /\ new \in Entries /\ entry[new] = NoEntry
        /\ entry'[new] = [status |-> "posted", legs |-> session[s].legs,
                          key |-> session[s].key, reversalOf |-> None]
        /\ \A x \in Entries : x # new => entry'[x] = entry[x]
    BY <1>5, <2>1, CommitPostRows
  <2>3. entry[new].status = "free" /\ entry'[new].status = "posted" /\ entry'[new].legs = session[s].legs
    BY <2>2 DEF NoEntry
  <2>4. session[s].legs \in Legs
    BY DEF LedgerInv, TypeOK, SessionStates
  <2>5. SumFunction(session[s].legs) = 0
    BY <1>5 DEF LedgerInv, PostsSound, Posting, CommitPost
  <2>6. PostedEntries' = PostedEntries \cup {new}
    BY <2>2, <2>3 DEF PostedEntries
  <2>7. IsFiniteSet(PostedEntries')
    BY <1>2, <2>6, FS_AddElement
  <2>8. ASSUME NEW a \in Accounts
        PROVE  after[a] = session[s].legs[a] + before[a] /\ before[a] \in Int
    <3>1. \A x \in Entries \ {new} :
              /\ entry'[x].status = "posted" <=> entry[x].status = "posted"
              /\ entry[x].status = "posted" => entry'[x].legs = entry[x].legs /\ entry[x].legs[a] \in Int
      BY <1>3, <2>2 DEF Legs
    <3>2. IsFiniteSet({x \in Entries : entry[x].status = "posted"})
      BY <1>2 DEF PostedEntries
    <3>3. entry'[new].legs[a] \in Int
      BY <2>3, <2>4 DEF Legs
    <3>4. BalanceIn(entry', a) = entry'[new].legs[a] + BalanceIn(entry, a) /\ BalanceIn(entry, a) \in Int
      BY <2>2, <2>3, <3>1, <3>2, <3>3, BalanceWith
    <3> QED
      BY <2>3, <3>4
  <2>9. before = [a \in Accounts |-> before[a]] /\ after = [a \in Accounts |-> after[a]]
    OBVIOUS
  <2> HIDE DEF before, after
  <2>10. SumFunction(after) = SumFunction(before)
    BY <2>4, <2>5, <2>8, <2>9, TrialMoves
  <2> QED
    BY <1>1, <1>2, <2>7, <2>10
<1>6. ASSUME NEW s \in Sessions, CommitReverse(s), entry' # entry
      PROVE  IsFiniteSet(PostedEntries)' /\ TrialBalance'
  <2>1. PICK e, new : e = session[s].target /\ new = session[s].new
    OBVIOUS
  <2>2. /\ e \in Entries /\ new \in Entries /\ e # new
        /\ entry[e].status = "posted" /\ entry[new] = NoEntry
        /\ entry'[e] = [entry[e] EXCEPT !.status = "void"] /\ entry'[new] = MirrorRow(s)
        /\ \A x \in Entries : x # new /\ x # e => entry'[x] = entry[x]
    BY <1>6, <2>1, CommitReverseRows
  <2>3. entry'[e].status = "void" /\ entry[new].status = "free" /\ entry'[new].status = "void"
    BY <2>2 DEF NoEntry, MirrorRow, LedgerInv, TypeOK, EntryRows
  <2>4. SumFunction(entry[e].legs) = 0
    BY <2>2 DEF TrialInv, EntriesBalance, Balanced
  <2>5. PostedEntries' \subseteq PostedEntries
    BY <2>2, <2>3 DEF PostedEntries
  <2>6. IsFiniteSet(PostedEntries')
    BY <1>2, <2>5, FS_Subset
  <2>7. ASSUME NEW a \in Accounts
        PROVE  before[a] = entry[e].legs[a] + after[a] /\ after[a] \in Int
    <3> DEFINE rows == entry'
    <3>1. \A x \in Entries \ {e} :
              /\ entry[x].status = "posted" <=> rows[x].status = "posted"
              /\ rows[x].status = "posted" => entry[x].legs = rows[x].legs /\ rows[x].legs[a] \in Int
      BY <1>3, <2>2, <2>3 DEF Legs
    <3>2. IsFiniteSet({x \in Entries : rows[x].status = "posted"})
      BY <2>6 DEF PostedEntries
    <3>3. entry[e].legs[a] \in Int
      BY <1>3, <2>2 DEF Legs
    <3>4. rows[e].status # "posted" /\ entry[e].status = "posted" /\ e \in Entries
      BY <2>2, <2>3
    <3>5. before[a] = BalanceIn(entry, a) /\ after[a] = BalanceIn(rows, a)
      OBVIOUS
    <3> HIDE DEF rows, before, after
    <3>6. BalanceIn(entry, a) = entry[e].legs[a] + BalanceIn(rows, a) /\ BalanceIn(rows, a) \in Int
      BY <3>1, <3>2, <3>3, <3>4, BalanceWith
    <3> QED
      BY <3>5, <3>6
  <2>8. before = [a \in Accounts |-> before[a]] /\ after = [a \in Accounts |-> after[a]]
    OBVIOUS
  <2>9. entry[e].legs \in Legs
    BY <1>3, <2>2
  <2> HIDE DEF before, after
  <2>10. SumFunction(before) = SumFunction(after)
    BY <2>4, <2>7, <2>8, <2>9, TrialMoves
  <2> QED
    BY <1>1, <1>2, <2>6, <2>10
<1> QED
  BY <1>4, <1>5, <1>6, RowsChange

LEMMA InitTrial == IsFiniteSet(Accounts) /\ Init => TrialInv
<1> SUFFICES ASSUME IsFiniteSet(Accounts), Init PROVE TrialInv
  OBVIOUS
<1>1. EntriesBalance /\ SessionsBalance
  BY DEF Init, NoEntry, Idle, EntriesBalance, SessionsBalance, Posting, Reversing
<1>2. PostedEntries = {} /\ IsFiniteSet(PostedEntries)
  BY FS_EmptySet DEF Init, NoEntry, PostedEntries
<1>3. ASSUME NEW a \in Accounts PROVE Balance(a) = 0
  <2>1. {x \in Entries : entry[x].status = "posted" /\ entry[x].legs[a] # 0} = {}
    BY <1>2 DEF PostedEntries
  <2>2. Balance(a) = SumFunctionOnSet(Movements(a), {})
    BY <2>1 DEF Balance, Movements, SumFunction
  <2> QED
    BY <2>2, SumOfNone
<1> DEFINE balances == [a \in Accounts |-> Balance(a)]
<1>4. SumFunction(balances) = SumFunctionOnSet(balances, Accounts)
  BY DEF SumFunction
<1>5. \A a \in Accounts : balances[a] = 0
  BY <1>3
<1>6. SumFunction(balances) = 0
  <2> HIDE DEF balances
  <2> QED
    BY <1>4, <1>5, SumOfZeros
<1> QED
  BY <1>1, <1>2, <1>6 DEF TrialInv, TrialBalance

LEMMA SpecTrial == IsFiniteSet(Accounts) => (Spec => []TrialInv)
<1> SUFFICES ASSUME IsFiniteSet(Accounts) PROVE Spec => []TrialInv
  OBVIOUS
<1>1. Init => TrialInv
  BY InitTrial
<1>2. LedgerInv /\ TrialInv /\ [Next]_vars => TrialInv'
  <2> SUFFICES ASSUME LedgerInv, TrialInv, [Next]_vars PROVE TrialInv'
    OBVIOUS
  <2>1. EntriesBalance' /\ SessionsBalance'
    BY NextEntriesBalance, NextSessionsBalance DEF TrialInv
  <2> QED
    BY <2>1, NextTrial DEF TrialInv
<1> QED
  BY <1>1, <1>2, SpecInv, PTL DEF Spec

\* The checks that the integrity page runs over the journal find nothing: every recorded
\* entry, a void one and a mirror too, has two legs or more that sum to zero.
THEOREM LedgerEntriesBalance ==
  ASSUME IsFiniteSet(Accounts)
  PROVE  Spec => []EntriesBalance
<1>1. TrialInv => EntriesBalance
  BY DEF TrialInv
<1> QED
  BY <1>1, SpecTrial, PTL

\* Double entry: in every state, while requests interleave, fail and reverse, the balances
\* of all accounts add up to zero, although none is stored.
THEOREM LedgerTrialBalance ==
  ASSUME IsFiniteSet(Accounts)
  PROVE  Spec => []TrialBalance
<1>1. TrialInv => TrialBalance
  BY DEF TrialInv
<1> QED
  BY <1>1, SpecTrial, PTL
=============================================================================
