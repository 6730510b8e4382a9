---------------------------- MODULE ChequesProofs ----------------------------
(***************************************************************************)
(* The cheque book's safety for every set of sessions, cheques and entries.*)
(*                                                                         *)
(* Neither EntryWithItsCheque nor ClearedWithItsEntry is inductive: a form *)
(* about to commit needs to know that its cheque is still pending (the row *)
(* lock), that its entry id is its own, and a reversal about to commit     *)
(* needs to know that the entry it locked is still posted.                 *)
(***************************************************************************)
EXTENDS Cheques, TLAPS

InForm(s) == session[s].pc \in {"formPosted", "formLocked"}

\* What a session remembers of the step it is in the middle of.
SessionsSound ==
    \A s \in Sessions :
        /\ InForm(s) =>
              /\ session[s].cheque \in Cheques
              /\ session[s].entry \in Entries
              /\ entry[session[s].entry] = "free"
        /\ session[s].pc = "formLocked" =>
              /\ chequeLock[session[s].cheque] = s
              /\ cheque[session[s].cheque].status = "pending"
        /\ session[s].pc = "statusRead" =>
              /\ session[s].cheque \in Cheques
              /\ session[s].seen \in Statuses
              /\ session[s].arg \in TRANSITIONS[session[s].seen]
        /\ session[s].pc = "reversing" =>
              /\ session[s].entry \in Entries
              /\ session[s].arg \in Doors
              /\ entryLock[session[s].entry] = s
              /\ entry[session[s].entry] = "posted"

\* Two forms never hold the same new entry.
OwnEntries ==
    \A s, t \in Sessions :
        s # t /\ InForm(s) /\ InForm(t) => session[s].entry # session[t].entry

\* A cheque bears an entry exactly while it is cleared, and the entry names it.
LinkSound ==
    \A c \in Cheques :
        /\ cheque[c].status # "cleared" => cheque[c].clearedEntry = None
        /\ cheque[c].status = "cleared" =>
              /\ cheque[c].clearedEntry \in Entries
              /\ clears[cheque[c].clearedEntry] = c
              /\ entry[cheque[c].clearedEntry] # "free"

ChequeInv == TypeOK /\ SessionsSound /\ OwnEntries /\ LinkSound /\ EntryWithItsCheque

\* With the reverting door alone, the entry of a cleared cheque is live.
PaidByLiveEntry ==
    \A c \in Cheques :
        cheque[c].status = "cleared" => entry[cheque[c].clearedEntry] = "posted"

-----------------------------------------------------------------------------
\* A session that goes on, and one that is done, keep their types.
LEMMA SessionTyped ==
  ASSUME NEW r \in SessionStates
  PROVE  [r EXCEPT !.pc = "formLocked"] \in SessionStates /\ Idle \in SessionStates
<1>1. [r EXCEPT !.pc = "formLocked"] \in SessionStates
  BY DEF SessionStates
<1>2. Idle \in SessionStates
  BY DEF Idle, At, SessionStates
<1> QED
  BY <1>1, <1>2

LEMMA InitInv == Init => ChequeInv /\ PaidByLiveEntry
  BY ChequeAssumption
  DEF Init, ChequeInv, PaidByLiveEntry, TypeOK, SessionsSound, OwnEntries, LinkSound, EntryWithItsCheque,
      InForm, At, Idle, NoRow, ChequeRows, SessionStates, Directions

\* A reverted row is a row.
LEMMA ReopenedRow ==
  ASSUME NEW r \in ChequeRows
  PROVE  [r EXCEPT !.status = "pending", !.clearedEntry = None] \in ChequeRows
  BY DEF ChequeRows, Statuses

LEMMA NextInv == ChequeInv /\ [Next]_vars => ChequeInv'
<1> SUFFICES ASSUME ChequeInv, [Next]_vars PROVE ChequeInv'
  OBVIOUS
<1> USE ChequeAssumption DEF ChequeInv
<1>1. ASSUME NEW s \in Sessions, NEW c \in Cheques, NEW dir \in Directions, CreateCheque(s, c, dir)
      PROVE  ChequeInv'
  <2>1. TypeOK'
    BY <1>1 DEF CreateCheque, TypeOK,
        ChequeRows, SessionStates, Statuses, AllDoors, At, Idle
  <2>2. SessionsSound'
    BY <1>1 DEF CreateCheque, TypeOK, SessionsSound, OwnEntries, LinkSound, InForm,
        ChequeRows, SessionStates, Statuses, TRANSITIONS, At, Idle
  <2>3. OwnEntries'
    BY <1>1 DEF CreateCheque, TypeOK, SessionsSound, OwnEntries, InForm,
        SessionStates, At, Idle
  <2>4. LinkSound'
    BY <1>1 DEF CreateCheque, TypeOK, SessionsSound, LinkSound, InForm, TRANSITIONS,
        ChequeRows, SessionStates, Statuses, At, Idle
  <2>5. EntryWithItsCheque'
    BY <1>1 DEF CreateCheque, TypeOK, SessionsSound, LinkSound, EntryWithItsCheque, InForm, TRANSITIONS,
        ChequeRows, SessionStates, Statuses, At, Idle
  <2> QED
    BY <2>1, <2>2, <2>3, <2>4, <2>5
<1>2. ASSUME NEW s \in Sessions, NEW c \in Cheques, DeleteCheque(s, c)
      PROVE  ChequeInv'
  <2>1. TypeOK'
    BY <1>2 DEF DeleteCheque, TypeOK,
        ChequeRows, SessionStates, Statuses, AllDoors, At, Idle
  <2>2. SessionsSound'
    BY <1>2 DEF DeleteCheque, TypeOK, SessionsSound, OwnEntries, LinkSound, InForm,
        ChequeRows, SessionStates, Statuses, TRANSITIONS, At, Idle
  <2>3. OwnEntries'
    BY <1>2 DEF DeleteCheque, TypeOK, SessionsSound, OwnEntries, InForm,
        SessionStates, At, Idle
  <2>4. LinkSound'
    BY <1>2 DEF DeleteCheque, TypeOK, SessionsSound, LinkSound, InForm, TRANSITIONS,
        ChequeRows, SessionStates, Statuses, At, Idle
  <2>5. EntryWithItsCheque'
    BY <1>2 DEF DeleteCheque, TypeOK, SessionsSound, LinkSound, EntryWithItsCheque, InForm, TRANSITIONS,
        ChequeRows, SessionStates, Statuses, At, Idle
  <2> QED
    BY <2>1, <2>2, <2>3, <2>4, <2>5
<1>3. ASSUME NEW s \in Sessions, NEW c \in Cheques, NEW next \in Statuses, ReadStatus(s, c, next)
      PROVE  ChequeInv'
  <2>1. TypeOK'
    BY <1>3 DEF ReadStatus, TypeOK,
        ChequeRows, SessionStates, Statuses, AllDoors, At, Idle
  <2>2. SessionsSound'
    BY <1>3 DEF ReadStatus, TypeOK, SessionsSound, OwnEntries, LinkSound, InForm,
        ChequeRows, SessionStates, Statuses, TRANSITIONS, At, Idle
  <2>3. OwnEntries'
    BY <1>3 DEF ReadStatus, TypeOK, SessionsSound, OwnEntries, InForm,
        SessionStates, At, Idle
  <2>4. LinkSound'
    BY <1>3 DEF ReadStatus, TypeOK, SessionsSound, LinkSound, InForm, TRANSITIONS,
        ChequeRows, SessionStates, Statuses, At, Idle
  <2>5. EntryWithItsCheque'
    BY <1>3 DEF ReadStatus, TypeOK, SessionsSound, LinkSound, EntryWithItsCheque, InForm, TRANSITIONS,
        ChequeRows, SessionStates, Statuses, At, Idle
  <2> QED
    BY <2>1, <2>2, <2>3, <2>4, <2>5
<1>4. ASSUME NEW s \in Sessions, NEW c \in Cheques, NEW e \in Entries, NEW type \in EntryTypes,
             FormPost(s, c, e, type)
      PROVE  ChequeInv'
  <2>1. TypeOK'
    BY <1>4 DEF FormPost, Reserved, TypeOK,
        ChequeRows, SessionStates, Statuses, AllDoors, At, Idle
  <2>2. SessionsSound'
    BY <1>4 DEF FormPost, Reserved, TypeOK, SessionsSound, OwnEntries, LinkSound, InForm,
        ChequeRows, SessionStates, Statuses, TRANSITIONS, At, Idle
  <2>3. OwnEntries'
    BY <1>4 DEF FormPost, Reserved, TypeOK, SessionsSound, OwnEntries, InForm,
        SessionStates, At, Idle
  <2>4. LinkSound'
    BY <1>4 DEF FormPost, Reserved, TypeOK, SessionsSound, LinkSound, InForm, TRANSITIONS,
        ChequeRows, SessionStates, Statuses, At, Idle
  <2>5. EntryWithItsCheque'
    BY <1>4 DEF FormPost, Reserved, TypeOK, SessionsSound, LinkSound, EntryWithItsCheque, InForm, TRANSITIONS,
        ChequeRows, SessionStates, Statuses, At, Idle
  <2> QED
    BY <2>1, <2>2, <2>3, <2>4, <2>5
<1>5. ASSUME NEW s \in Sessions, NEW e \in Entries, NEW door \in Doors, ReverseLock(s, e, door)
      PROVE  ChequeInv'
  <2>1. TypeOK'
    BY <1>5 DEF ReverseLock, TypeOK,
        ChequeRows, SessionStates, Statuses, AllDoors, At, Idle
  <2>2. SessionsSound'
    BY <1>5 DEF ReverseLock, TypeOK, SessionsSound, OwnEntries, LinkSound, InForm,
        ChequeRows, SessionStates, Statuses, TRANSITIONS, At, Idle
  <2>3. OwnEntries'
    BY <1>5 DEF ReverseLock, TypeOK, SessionsSound, OwnEntries, InForm,
        SessionStates, At, Idle
  <2>4. LinkSound'
    BY <1>5 DEF ReverseLock, TypeOK, SessionsSound, LinkSound, InForm, TRANSITIONS,
        ChequeRows, SessionStates, Statuses, At, Idle
  <2>5. EntryWithItsCheque'
    BY <1>5 DEF ReverseLock, TypeOK, SessionsSound, LinkSound, EntryWithItsCheque, InForm, TRANSITIONS,
        ChequeRows, SessionStates, Statuses, At, Idle
  <2> QED
    BY <2>1, <2>2, <2>3, <2>4, <2>5
<1>6. ASSUME NEW s \in Sessions, WriteStatus(s)
      PROVE  ChequeInv'
  <2>a. /\ session[s].cheque \in Cheques
        /\ session[s].seen \in Statuses \ {"cleared"}
        /\ session[s].arg \in Statuses \ {"cleared"}
    BY <1>6 DEF WriteStatus, SessionsSound, TRANSITIONS, Statuses
  <2>1. TypeOK'
    BY <1>6, <2>a DEF WriteStatus, TypeOK,
        ChequeRows, SessionStates, Statuses, AllDoors, At, Idle
  <2>2. SessionsSound'
    BY <1>6, <2>a DEF WriteStatus, TypeOK, SessionsSound, OwnEntries, LinkSound, InForm,
        ChequeRows, SessionStates, Statuses, TRANSITIONS, At, Idle
  <2>3. OwnEntries'
    BY <1>6, <2>a DEF WriteStatus, TypeOK, SessionsSound, OwnEntries, InForm,
        SessionStates, At, Idle
  <2>4. LinkSound'
    BY <1>6, <2>a DEF WriteStatus, TypeOK, SessionsSound, LinkSound, InForm, TRANSITIONS,
        ChequeRows, SessionStates, Statuses, At, Idle
  <2>5. EntryWithItsCheque'
    <3>1. \A c \in Cheques :
              /\ cheque'[c].clearedEntry = cheque[c].clearedEntry
              /\ cheque[c].status = "cleared" => cheque'[c].status = "cleared"
      BY <1>6, <2>a DEF WriteStatus, TypeOK, ChequeRows
    <3>2. clears' = clears /\ entry' = entry /\ \A e \in Entries : clears[e] \in Cheques \cup {None}
      BY <1>6 DEF WriteStatus, TypeOK
    <3> QED
      BY <3>1, <3>2 DEF EntryWithItsCheque
  <2> QED
    BY <2>1, <2>2, <2>3, <2>4, <2>5
<1>7. ASSUME NEW s \in Sessions, ClearCheque(s)
      PROVE  ChequeInv'
  <2>1. TypeOK'
    <3> DEFINE locked == [session[s] EXCEPT !.pc = "formLocked"]
    <3>1. session[s] \in SessionStates
      BY DEF TypeOK
    <3>2. locked \in SessionStates /\ Idle \in SessionStates
      BY <3>1, SessionTyped
    <3>3. session' = [session EXCEPT ![s] = locked] \/ session' = [session EXCEPT ![s] = Idle]
      BY <1>7 DEF ClearCheque
    <3> HIDE DEF locked
    <3>4. session' \in [Sessions -> SessionStates]
      BY <3>2, <3>3 DEF TypeOK
    <3>5. chequeLock' \in [Cheques -> Sessions \cup {None}]
      BY <1>7 DEF ClearCheque, TypeOK
    <3> QED
      BY <1>7, <3>4, <3>5 DEF ClearCheque, TypeOK
  <2>2. SessionsSound'
    BY <1>7 DEF ClearCheque, TypeOK, SessionsSound, OwnEntries, LinkSound, InForm,
        ChequeRows, SessionStates, Statuses, TRANSITIONS, At, Idle
  <2>3. OwnEntries'
    BY <1>7 DEF ClearCheque, TypeOK, SessionsSound, OwnEntries, InForm,
        SessionStates, At, Idle
  <2>4. LinkSound'
    BY <1>7 DEF ClearCheque, TypeOK, SessionsSound, LinkSound, InForm, TRANSITIONS,
        ChequeRows, SessionStates, Statuses, At, Idle
  <2>5. EntryWithItsCheque'
    BY <1>7 DEF ClearCheque, TypeOK, SessionsSound, LinkSound, EntryWithItsCheque, InForm, TRANSITIONS,
        ChequeRows, SessionStates, Statuses, At, Idle
  <2> QED
    BY <2>1, <2>2, <2>3, <2>4, <2>5
<1>8. ASSUME NEW s \in Sessions, FormCommit(s)
      PROVE  ChequeInv'
  <2>a. /\ session[s].cheque \in Cheques
        /\ session[s].entry \in Entries
        /\ entry[session[s].entry] = "free"
        /\ cheque[session[s].cheque].status = "pending"
        /\ chequeLock[session[s].cheque] = s
    BY <1>8 DEF FormCommit, SessionsSound, InForm
  <2>1. TypeOK'
    <3> DEFINE c == session[s].cheque
               r == [cheque[c] EXCEPT !.status = "cleared", !.clearedEntry = session[s].entry]
    <3>1. cheque[c] \in ChequeRows
      BY <2>a DEF TypeOK
    <3>2. r \in ChequeRows
      BY <3>1, <2>a DEF ChequeRows, Statuses
    <3>3. cheque' = [cheque EXCEPT ![c] = r]
      BY <1>8 DEF FormCommit
    <3> HIDE DEF r
    <3>4. cheque' \in [Cheques -> ChequeRows]
      BY <3>2, <3>3, <2>a DEF TypeOK
    <3>5. session' \in [Sessions -> SessionStates]
      <4>1. session' = [session EXCEPT ![s] = Idle]
        BY <1>8 DEF FormCommit
      <4>2. Idle \in SessionStates
        BY DEF Idle, At, SessionStates
      <4>3. QED
        BY <4>1, <4>2 DEF TypeOK
    <3>6. /\ entry' \in [Entries -> {"free", "posted", "void"}]
          /\ clears' \in [Entries -> Cheques \cup {None}]
          /\ chequeLock' \in [Cheques -> Sessions \cup {None}]
          /\ entryLock' \in [Entries -> Sessions \cup {None}]
      BY <1>8, <2>a DEF FormCommit, TypeOK
    <3>7. QED
      BY <3>4, <3>5, <3>6 DEF TypeOK
  <2>2. SessionsSound'
    BY <1>8, <2>a DEF FormCommit, TypeOK, SessionsSound, OwnEntries, LinkSound, InForm,
        ChequeRows, SessionStates, Statuses, TRANSITIONS, At, Idle
  <2>3. OwnEntries'
    BY <1>8, <2>a DEF FormCommit, TypeOK, SessionsSound, OwnEntries, InForm,
        SessionStates, At, Idle
  <2>4. LinkSound'
    BY <1>8, <2>a DEF FormCommit, TypeOK, SessionsSound, LinkSound, InForm, TRANSITIONS,
        ChequeRows, SessionStates, Statuses, At, Idle
  <2>5. EntryWithItsCheque'
    BY <1>8, <2>a DEF FormCommit, TypeOK, SessionsSound, LinkSound, EntryWithItsCheque, InForm, TRANSITIONS,
        ChequeRows, SessionStates, Statuses, At, Idle
  <2> QED
    BY <2>1, <2>2, <2>3, <2>4, <2>5
<1>9. ASSUME NEW s \in Sessions, ReverseCommit(s)
      PROVE  ChequeInv'
  <2>a. /\ session[s].entry \in Entries
        /\ session[s].arg \in Doors
        /\ entry[session[s].entry] = "posted"
        /\ entryLock[session[s].entry] = s
    BY <1>9 DEF ReverseCommit, SessionsSound
  <2>b. /\ entry' = [entry EXCEPT ![session[s].entry] = "void"]
        /\ entryLock' = [entryLock EXCEPT ![session[s].entry] = None]
        /\ session' = [session EXCEPT ![s] = Idle]
        /\ UNCHANGED <<clears, chequeLock>>
    BY <1>9 DEF ReverseCommit
  <2>c. cheque' = Reverted(session[s].entry) \/ cheque' = cheque
    BY <1>9 DEF ReverseCommit
  <2>d. cheque' \in [Cheques -> ChequeRows]
    <3>1. ASSUME NEW c \in Cheques
          PROVE  [cheque[c] EXCEPT !.status = "pending", !.clearedEntry = None] \in ChequeRows
      <4>1. cheque[c] \in ChequeRows
        BY DEF TypeOK
      <4> QED
        BY <4>1, ReopenedRow
    <3>2. Reverted(session[s].entry) \in [Cheques -> ChequeRows]
      BY <3>1 DEF Reverted, TypeOK
    <3> QED
      BY <2>c, <3>2 DEF TypeOK
  <2>e. ASSUME NEW c \in Cheques
        PROVE  \/ cheque'[c] = cheque[c]
               \/ /\ cheque[c].clearedEntry = session[s].entry
                  /\ cheque'[c].status = "pending"
                  /\ cheque'[c].clearedEntry = None
    <3>1. cheque[c] \in ChequeRows
      BY DEF TypeOK
    <3>2. CASE cheque' = Reverted(session[s].entry) /\ cheque[c].clearedEntry = session[s].entry
      <4>1. cheque'[c] = [cheque[c] EXCEPT !.status = "pending", !.clearedEntry = None]
        BY <3>2 DEF Reverted
      <4> QED
        BY <3>1, <3>2, <4>1 DEF ChequeRows
    <3>3. CASE cheque' = Reverted(session[s].entry) /\ cheque[c].clearedEntry # session[s].entry
      BY <3>3 DEF Reverted
    <3> QED
      BY <2>c, <3>2, <3>3
  <2>1. TypeOK'
    BY <2>a, <2>b, <2>d DEF TypeOK, SessionStates, At, Idle
  <2>2. SessionsSound'
    BY <2>a, <2>b, <2>e DEF TypeOK, SessionsSound, LinkSound, InForm, SessionStates, At, Idle
  <2>3. OwnEntries'
    BY <2>a, <2>b DEF TypeOK, SessionsSound, OwnEntries, InForm, At, Idle
  <2>4. LinkSound'
    BY <2>a, <2>b, <2>e DEF TypeOK, LinkSound
  <2>5. EntryWithItsCheque'
    BY <2>a, <2>b, <2>e DEF TypeOK, LinkSound, EntryWithItsCheque
  <2> QED
    BY <2>1, <2>2, <2>3, <2>4, <2>5
<1>10. ASSUME NEW s \in Sessions, Rollback(s)
       PROVE  ChequeInv'
  <2>1. TypeOK'
    BY <1>10 DEF Rollback, TypeOK,
        ChequeRows, SessionStates, Statuses, AllDoors, At, Idle
  <2>2. SessionsSound'
    BY <1>10 DEF Rollback, TypeOK, SessionsSound, OwnEntries, LinkSound, InForm,
        ChequeRows, SessionStates, Statuses, TRANSITIONS, At, Idle
  <2>3. OwnEntries'
    BY <1>10 DEF Rollback, TypeOK, SessionsSound, OwnEntries, InForm,
        SessionStates, At, Idle
  <2>4. LinkSound'
    BY <1>10 DEF Rollback, TypeOK, SessionsSound, LinkSound, InForm, TRANSITIONS,
        ChequeRows, SessionStates, Statuses, At, Idle
  <2>5. EntryWithItsCheque'
    BY <1>10 DEF Rollback, TypeOK, SessionsSound, LinkSound, EntryWithItsCheque, InForm, TRANSITIONS,
        ChequeRows, SessionStates, Statuses, At, Idle
  <2> QED
    BY <2>1, <2>2, <2>3, <2>4, <2>5
<1>11. CASE UNCHANGED vars
  BY <1>11 DEF vars, TypeOK, SessionsSound, OwnEntries, LinkSound, EntryWithItsCheque, InForm
<1> QED
  BY <1>1, <1>2, <1>3, <1>4, <1>5, <1>6, <1>7, <1>8, <1>9, <1>10, <1>11 DEF Next, Begin, Continue

\* Where every door reverts the cheque, voiding an entry never leaves its
\* cheque behind.
LEMMA NextPaid ==
  ASSUME Doors \subseteq RevertingDoors, ChequeInv, PaidByLiveEntry, [Next]_vars
  PROVE  PaidByLiveEntry'
<1> USE ChequeAssumption DEF ChequeInv
<1>1. ASSUME NEW s \in Sessions, NEW c \in Cheques, NEW dir \in Directions, CreateCheque(s, c, dir)
      PROVE  PaidByLiveEntry'
  BY <1>1 DEF CreateCheque, PaidByLiveEntry, TypeOK, ChequeRows
<1>2. ASSUME NEW s \in Sessions, NEW c \in Cheques, DeleteCheque(s, c)
      PROVE  PaidByLiveEntry'
  BY <1>2 DEF DeleteCheque, PaidByLiveEntry, TypeOK, ChequeRows
<1>3. ASSUME NEW s \in Sessions, WriteStatus(s)
      PROVE  PaidByLiveEntry'
  <2>1. session[s].arg # "cleared"
    BY <1>3 DEF WriteStatus, SessionsSound, TRANSITIONS, Statuses
  <2> QED
    BY <1>3, <2>1 DEF WriteStatus, PaidByLiveEntry, TypeOK, ChequeRows
<1>4. ASSUME NEW s \in Sessions, FormCommit(s)
      PROVE  PaidByLiveEntry'
  <2>1. session[s].cheque \in Cheques /\ session[s].entry \in Entries
    BY <1>4 DEF FormCommit, SessionsSound, InForm
  <2> QED
    BY <1>4, <2>1 DEF FormCommit, PaidByLiveEntry, LinkSound, TypeOK, ChequeRows
<1>5. ASSUME NEW s \in Sessions, ReverseCommit(s)
      PROVE  PaidByLiveEntry'
  <2>1. session[s].entry \in Entries /\ session[s].arg \in RevertingDoors
    BY <1>5 DEF ReverseCommit, SessionsSound
  <2>2. cheque' = Reverted(session[s].entry)
    BY <1>5, <2>1 DEF ReverseCommit
  <2>3. ASSUME NEW c \in Cheques, cheque'[c].status = "cleared"
        PROVE  cheque'[c] = cheque[c] /\ cheque[c].clearedEntry # session[s].entry
    BY <2>2, <2>3 DEF Reverted, TypeOK, ChequeRows
  <2> QED
    BY <1>5, <2>1, <2>3 DEF ReverseCommit, PaidByLiveEntry, TypeOK
<1>6. CASE UNCHANGED <<cheque, entry>>
  BY <1>6 DEF PaidByLiveEntry
<1> QED
  BY <1>1, <1>2, <1>3, <1>4, <1>5, <1>6
  DEF Next, Begin, Continue, ReadStatus, FormPost, ReverseLock, ClearCheque, Rollback, vars

-----------------------------------------------------------------------------
\* Every variable of the cheque book keeps its type.
THEOREM ChequesTypeCorrect == Spec => []TypeOK
<1>1. ChequeInv => TypeOK
  BY DEF ChequeInv
<1> QED
  BY <1>1, InitInv, NextInv, PTL DEF Spec

\* Whatever doors reverse entries, however many requests run at once: a live
\* clearing entry has its cheque cleared by it.
THEOREM EntryKeepsItsCheque == Spec => []EntryWithItsCheque
<1>1. ChequeInv => EntryWithItsCheque
  BY DEF ChequeInv
<1> QED
  BY <1>1, InitInv, NextInv, PTL DEF Spec

\* If reverseEntryAction is the only door that reverses entries, a cheque is
\* cleared exactly while a live entry clears it.
THEOREM ClearedChequeKeepsItsEntry ==
  ASSUME Doors \subseteq RevertingDoors
  PROVE  Spec => []ClearedWithItsEntry
<1>1. Init => ChequeInv /\ PaidByLiveEntry
  BY InitInv
<1>2. (ChequeInv /\ PaidByLiveEntry) /\ [Next]_vars => (ChequeInv /\ PaidByLiveEntry)'
  BY NextInv, NextPaid
<1>3. ChequeInv /\ PaidByLiveEntry => ClearedWithItsEntry
  BY ChequeAssumption DEF ChequeInv, PaidByLiveEntry, LinkSound, ClearedWithItsEntry
<1> QED
  BY <1>1, <1>2, <1>3, PTL DEF Spec

-----------------------------------------------------------------------------
(* Every step does one of three things to the rows. *)

\* The owner's marks: what becomes of a cheque that is not cleared.
MarksFrom(status) ==
    IF status = "absent" THEN {"pending"}
    ELSE IF status = "pending" THEN {"bounced", "cancelled", "deleted"}
    ELSE IF status = "bounced" THEN {"pending", "cancelled", "deleted"}
    ELSE IF status = "cancelled" THEN {"pending", "deleted"}
    ELSE {}

Marked(c) ==
    /\ \E next \in MarksFrom(cheque[c].status) :
          cheque'[c].status = next /\ cheque'[c].clearedEntry = None
    /\ \A b \in Cheques \ {c} : cheque'[b] = cheque[b]
    /\ entry' = entry

Paid(c, e) ==
    /\ cheque[c].status = "pending" /\ entry[e] = "free"
    /\ cheque'[c].status = "cleared" /\ cheque'[c].clearedEntry = e
    /\ \A b \in Cheques \ {c} : cheque'[b] = cheque[b]
    /\ entry' = [entry EXCEPT ![e] = "posted"]

Voided(e) ==
    /\ entry[e] = "posted"
    /\ entry' = [entry EXCEPT ![e] = "void"]
    /\ \/ cheque' = cheque /\ ~(Doors \subseteq RevertingDoors)
       \/ \A c \in Cheques :
             IF cheque[c].clearedEntry = e
             THEN cheque'[c].status = "pending" /\ cheque'[c].clearedEntry = None
             ELSE cheque'[c] = cheque[c]

LEMMA RowSteps ==
  ASSUME ChequeInv, [Next]_vars
  PROVE  \/ UNCHANGED <<cheque, entry>>
         \/ \E c \in Cheques : Marked(c)
         \/ \E c \in Cheques, e \in Entries : Paid(c, e)
         \/ \E e \in Entries : Voided(e)
<1> USE ChequeAssumption DEF ChequeInv
<1>1. ASSUME NEW s \in Sessions, NEW c \in Cheques, NEW dir \in Directions, CreateCheque(s, c, dir)
      PROVE  Marked(c)
  BY <1>1 DEF CreateCheque, Marked, MarksFrom, TypeOK
<1>2. ASSUME NEW s \in Sessions, NEW c \in Cheques, DeleteCheque(s, c)
      PROVE  Marked(c)
  BY <1>2 DEF DeleteCheque, Marked, MarksFrom, TypeOK, LinkSound, ChequeRows, Statuses
<1>3. ASSUME NEW s \in Sessions, WriteStatus(s), cheque' # cheque
      PROVE  \E c \in Cheques : Marked(c)
  <2> DEFINE c == session[s].cheque
  <2>1. /\ c \in Cheques /\ cheque[c].status = session[s].seen
        /\ session[s].arg \in TRANSITIONS[session[s].seen] /\ session[s].seen \in Statuses
        /\ cheque' = [cheque EXCEPT ![c].status = session[s].arg]
        /\ entry' = entry
    BY <1>3 DEF WriteStatus, SessionsSound
  <2>2. session[s].arg \in MarksFrom(cheque[c].status) /\ cheque[c].status # "cleared"
    BY <2>1 DEF TRANSITIONS, Statuses, MarksFrom
  <2>3. cheque'[c].status = session[s].arg /\ cheque'[c].clearedEntry = None
    BY <2>1, <2>2 DEF TypeOK, ChequeRows, LinkSound
  <2> QED
    BY <2>1, <2>2, <2>3 DEF Marked, TypeOK
<1>4. ASSUME NEW s \in Sessions, FormCommit(s)
      PROVE  \E c \in Cheques, e \in Entries : Paid(c, e)
  <2>1. /\ session[s].cheque \in Cheques /\ session[s].entry \in Entries
        /\ entry[session[s].entry] = "free"
        /\ cheque[session[s].cheque].status = "pending"
    BY <1>4 DEF FormCommit, SessionsSound, InForm
  <2>2. Paid(session[s].cheque, session[s].entry)
    BY <1>4, <2>1 DEF FormCommit, Paid, TypeOK, ChequeRows
  <2> QED
    BY <2>1, <2>2
<1>5. ASSUME NEW s \in Sessions, ReverseCommit(s)
      PROVE  \E e \in Entries : Voided(e)
  <2>1. /\ session[s].entry \in Entries /\ session[s].arg \in Doors
        /\ entry[session[s].entry] = "posted"
    BY <1>5 DEF ReverseCommit, SessionsSound
  <2>2. CASE session[s].arg \in RevertingDoors
    <3>1. cheque' = Reverted(session[s].entry)
      BY <1>5, <2>2 DEF ReverseCommit
    <3>2. ASSUME NEW c \in Cheques
          PROVE  IF cheque[c].clearedEntry = session[s].entry
                 THEN cheque'[c].status = "pending" /\ cheque'[c].clearedEntry = None
                 ELSE cheque'[c] = cheque[c]
      BY <3>1 DEF Reverted, TypeOK, ChequeRows
    <3> QED
      BY <1>5, <2>1, <3>2 DEF ReverseCommit, Voided
  <2>3. CASE session[s].arg \notin RevertingDoors
    BY <1>5, <2>1, <2>3 DEF ReverseCommit, Voided
  <2> QED
    BY <2>2, <2>3
<1>6. ASSUME NEW s \in Sessions, WriteStatus(s)
      PROVE  entry' = entry
  BY <1>6 DEF WriteStatus
<1> QED
  BY <1>1, <1>2, <1>3, <1>4, <1>5, <1>6
  DEF Next, Begin, Continue, ReadStatus, FormPost, ReverseLock, ClearCheque, Rollback, vars

\* However stale what a request has read, and whatever doors reverse entries:
\* only the voiding of its entry takes a cheque out of "cleared".
THEOREM ClearedUntilReversed == Spec => OnlyReversalUnclears
<1>1. ASSUME ChequeInv, [Next]_vars, NEW c \in Cheques,
             cheque[c].status = "cleared", cheque'[c].status # "cleared"
      PROVE  /\ entry[cheque[c].clearedEntry] = "posted"
             /\ entry'[cheque[c].clearedEntry] = "void"
  <2>1. PICK e \in Entries : Voided(e)
    BY <1>1, RowSteps DEF Marked, MarksFrom, Paid
  <2>2. cheque[c].clearedEntry = e
    BY <1>1, <2>1 DEF Voided
  <2> QED
    BY <1>1, <2>1, <2>2 DEF Voided, ChequeInv, TypeOK
<1>2. ChequeInv /\ [Next]_vars =>
        [\A c \in Cheques :
            cheque[c].status = "cleared" /\ cheque'[c].status # "cleared" =>
                /\ entry[cheque[c].clearedEntry] = "posted"
                /\ entry'[cheque[c].clearedEntry] = "void"]_vars
  BY <1>1
<1> QED
  BY <1>2, InitInv, NextInv, PTL DEF Spec, OnlyReversalUnclears

-----------------------------------------------------------------------------
\* If every door reverts, the several statements of a form, a mark and a reversal
\* implement the book in which each is one step.
THEOREM ChequesImplementBook ==
  ASSUME Doors \subseteq RevertingDoors
  PROVE  Spec => BookSpec
<1> USE ChequeAssumption
<1>1. Init => Book!Init
  BY DEF Init, Book!Init, NoRow
<1>2. ASSUME ChequeInv, PaidByLiveEntry, [Next]_vars
      PROVE  [Book!Next]_(Book!bookVars)
  <2> DEFINE status == [c \in Cheques |-> cheque[c].status]
             paidBy == [c \in Cheques |-> cheque[c].clearedEntry]
  <2>1. CASE UNCHANGED <<cheque, entry>>
    BY <2>1 DEF Book!bookVars
  <2>2. ASSUME NEW c \in Cheques, Marked(c)
        PROVE  Book!Next
    <3>1. PICK next \in MarksFrom(cheque[c].status) :
              cheque'[c].status = next /\ cheque'[c].clearedEntry = None
      BY <2>2 DEF Marked
    <3>2. cheque[c].clearedEntry = None
      BY <1>2, <3>1 DEF ChequeInv, LinkSound, MarksFrom
    <3>3. status' = [status EXCEPT ![c] = next]
      BY <2>2, <3>1 DEF Marked
    <3>4. paidBy' = paidBy
      BY <2>2, <3>1, <3>2 DEF Marked
    <3>5. Book!Mark(c)
      BY <2>2, <3>1, <3>3, <3>4 DEF Book!Mark, MarksFrom, Marked
    <3> QED
      BY <3>5 DEF Book!Next
  <2>3. ASSUME NEW c \in Cheques, NEW e \in Entries, Paid(c, e)
        PROVE  Book!Next
    <3>1. status' = [status EXCEPT ![c] = "cleared"] /\ paidBy' = [paidBy EXCEPT ![c] = e]
      BY <2>3 DEF Paid
    <3>2. Book!Pay(c, e)
      BY <2>3, <3>1 DEF Book!Pay, Paid
    <3> QED
      BY <3>2 DEF Book!Next
  <2>4. ASSUME NEW e \in Entries, Voided(e)
        PROVE  Book!Next
    <3>1. PICK c \in Cheques : cheque[c].status = "cleared" /\ cheque[c].clearedEntry = e
      BY <1>2, <2>4 DEF Voided, ChequeInv, EntryWithItsCheque, TypeOK
    <3>2. \A b \in Cheques \ {c} : cheque[b].clearedEntry # e
      BY <1>2, <3>1 DEF ChequeInv, LinkSound
    <3>3. /\ cheque'[c].status = "pending" /\ cheque'[c].clearedEntry = None
          /\ \A b \in Cheques \ {c} : cheque'[b] = cheque[b]
      BY <2>4, <3>1, <3>2 DEF Voided
    <3>4. status' = [status EXCEPT ![c] = "pending"] /\ paidBy' = [paidBy EXCEPT ![c] = None]
      BY <3>1, <3>3
    <3>5. paidBy[c] = e
      BY <3>1
    <3>6. Book!Unpay(c)
      BY <2>4, <3>1, <3>4, <3>5 DEF Book!Unpay, Voided
    <3> QED
      BY <3>6 DEF Book!Next
  <2> QED
    BY <1>2, <2>1, <2>2, <2>3, <2>4, RowSteps
<1>3. Init => ChequeInv /\ PaidByLiveEntry
  BY InitInv
<1>4. (ChequeInv /\ PaidByLiveEntry) /\ [Next]_vars => (ChequeInv /\ PaidByLiveEntry)'
  BY NextInv, NextPaid
<1> QED
  BY <1>1, <1>2, <1>3, <1>4, PTL DEF Spec, BookSpec, Book!Spec
=============================================================================
