----------------------------- MODULE PlansProofs -----------------------------
(***************************************************************************)
(* The occurrences of a recurring payment, for every set of sessions,      *)
(* occurrences, entries and accounts.                                      *)
(*                                                                         *)
(* ExecutedHasItsEntry needs to know whose the ids are that a request has  *)
(* taken: an entry about to be posted is nobody else's, and the row of the *)
(* next occurrence is still free when it is scheduled.                     *)
(***************************************************************************)
EXTENDS Plans, FiniteSetTheorems, TLAPS

InForm(s) == session[s].pc \in {"posted", "found", "closed"}

\* What a session's ids stand for at each point of its request.
SessionSound(s) ==
    /\ session[s].pc \notin {"idle", "closing", "cancelling"} =>
          /\ session[s].plan \in Plans
          /\ plan[session[s].plan].status # "free"
    /\ InForm(s) => session[s].account \in Accounts
    /\ InForm(s) \/ session[s].pc \in {"skipFound", "skipped"} => session[s].next \in Plans
    /\ InForm(s) \/ session[s].pc = "read" =>
          session[s].entry \in Entries /\ entry[session[s].entry] = None
    /\ session[s].pc \in {"paid", "executed"} =>
          session[s].entry \in Entries /\ entry[session[s].entry] = session[s].plan

SessionsSound == \A s \in Sessions : SessionSound(s)

\* No two requests have taken the same id, and a taken occurrence is still free.
OwnIds ==
    /\ \A s, t \in Sessions : s # t =>
          /\ session[s].entry # None => session[s].entry # session[t].entry
          /\ session[s].next # None => session[s].next # session[t].next
    /\ \A s \in Sessions : session[s].next # None => plan[session[s].next].status = "free"

\* A row that does not exist yet says nothing.
FreeRows == \A p \in Plans : plan[p].status = "free" => plan[p] = NoPlan

PlansInv == TypeOK /\ SessionsSound /\ OwnIds /\ FreeRows /\ ExecutedHasItsEntry

-----------------------------------------------------------------------------
\* The updates of an occurrence leave an occurrence.
LEMMA ExecutedType ==
  ASSUME NEW p \in Plans, NEW e \in Entries, plan \in [Plans -> PlanRows]
  PROVE  [plan EXCEPT ![p] = [@ EXCEPT !.status = "executed", !.paidBy = e]] \in [Plans -> PlanRows]
<1> DEFINE row == [plan[p] EXCEPT !.status = "executed", !.paidBy = e]
<1>1. plan[p] \in PlanRows /\ DOMAIN plan = Plans
  OBVIOUS
<1>2. row \in PlanRows
  BY <1>1, Zenon DEF PlanRows
<1>3. [plan EXCEPT ![p] = [@ EXCEPT !.status = "executed", !.paidBy = e]] = [plan EXCEPT ![p] = row]
  BY <1>1, Zenon
<1> HIDE DEF row
<1>4. [plan EXCEPT ![p] = row] \in [Plans -> PlanRows]
  BY <1>1, <1>2
<1> QED
  BY <1>3, <1>4, Zenon

LEMMA SkippedType ==
  ASSUME NEW p \in Plans, plan \in [Plans -> PlanRows]
  PROVE  [plan EXCEPT ![p] = [@ EXCEPT !.status = "cancelled", !.paidBy = None]] \in [Plans -> PlanRows]
<1> DEFINE row == [plan[p] EXCEPT !.status = "cancelled", !.paidBy = None]
<1>1. plan[p] \in PlanRows /\ DOMAIN plan = Plans
  OBVIOUS
<1>2. row \in PlanRows
  BY <1>1, Zenon DEF PlanRows
<1>3. [plan EXCEPT ![p] = [@ EXCEPT !.status = "cancelled", !.paidBy = None]] = [plan EXCEPT ![p] = row]
  BY <1>1, Zenon
<1> HIDE DEF row
<1>4. [plan EXCEPT ![p] = row] \in [Plans -> PlanRows]
  BY <1>1, <1>2
<1> QED
  BY <1>3, <1>4, Zenon

LEMMA StoppedType ==
  ASSUME NEW p \in Plans, plan \in [Plans -> PlanRows]
  PROVE  /\ [plan EXCEPT ![p] = [@ EXCEPT !.status = "cancelled", !.recurs = FALSE]] \in [Plans -> PlanRows]
         /\ [plan EXCEPT ![p] = [@ EXCEPT !.status = "cancelled", !.recurs = FALSE]][p] \in PlanRows
<1> DEFINE row == [plan[p] EXCEPT !.status = "cancelled", !.recurs = FALSE]
<1>1. plan[p] \in PlanRows /\ DOMAIN plan = Plans
  OBVIOUS
<1>2. row \in PlanRows
  BY <1>1, Zenon DEF PlanRows
<1>3. [plan EXCEPT ![p] = [@ EXCEPT !.status = "cancelled", !.recurs = FALSE]] = [plan EXCEPT ![p] = row]
  BY <1>1, Zenon
<1> HIDE DEF row
<1>4. [plan EXCEPT ![p] = row] \in [Plans -> PlanRows] /\ [plan EXCEPT ![p] = row][p] \in PlanRows
  BY <1>1, <1>2
<1> QED
  BY <1>3, <1>4, Zenon

LEMMA ScheduledType == Detached \in PlanRows /\ \A last \in BOOLEAN : Scheduled(last) \in PlanRows
  BY DEF Scheduled, Detached, PendingRow, PlanRows

\* A reminder is pending, and unpaid; a row that is free is the last of no term.
LEMMA ScheduledIs ==
  /\ \A last \in BOOLEAN :
        /\ Scheduled(last).status = "pending" /\ Scheduled(last).paidBy = None
        /\ Scheduled(last).recurs /\ Scheduled(last).last = last
  /\ Detached.status = "pending" /\ Detached.paidBy = None
  /\ NoPlan.status = "free" /\ NoPlan.paidBy = None /\ NoPlan.recurs /\ ~NoPlan.last
  BY DEF Scheduled, Detached, NoPlan, PendingRow

LEMMA InitInv == Init => PlansInv
<1> SUFFICES ASSUME Init PROVE PlansInv
  OBVIOUS
<1>1. PICK p \in Plans, last \in BOOLEAN : plan = [q \in Plans |-> IF q = p THEN Scheduled(last) ELSE NoPlan]
  BY DEF Init
<1>2. NoPlan \in PlanRows /\ plan \in [Plans -> PlanRows]
  BY <1>1, ScheduledType DEF NoPlan, PendingRow, PlanRows
<1>3. \A q \in Plans : plan[q].paidBy = None /\ plan[q].status \in {"free", "pending"}
                      /\ (plan[q].status = "free" => plan[q] = NoPlan)
  BY <1>1, ScheduledIs
<1>4. ExecutedHasItsEntry /\ FreeRows
  BY <1>3 DEF ExecutedHasItsEntry, FreeRows
<1> QED
  BY <1>2, <1>4, PlansAssumption
  DEF Init, PlansInv, TypeOK, SessionsSound, SessionSound, OwnIds, InForm, At, Idle, SessionStates

\* What follows an occurrence: no other row than its own is touched.
LEMMA WhatFollows ==
  ASSUME NEW rows \in [Plans -> PlanRows], NEW p, NEW n \in Plans, NEW after \in WithNext(rows, p, n)
  PROVE  /\ after \in [Plans -> PlanRows]
         /\ \A q \in Plans \ {n} : after[q] = rows[q]
         /\ IF contract = "closed" \/ plan[p].last THEN after = rows
            ELSE \E last \in BOOLEAN : after[n] = Scheduled(last)
         /\ after[n] = rows[n] \/ (after[n].status = "pending" /\ after[n].paidBy = None)
<1>1. CASE contract = "closed" \/ plan[p].last
  <2>1. after = rows
    BY <1>1 DEF WithNext
  <2> QED
    BY <1>1, <2>1
<1>2. CASE ~(contract = "closed" \/ plan[p].last)
  <2>1. PICK last \in BOOLEAN : after = [q \in Plans |-> IF q = n THEN Scheduled(last) ELSE rows[q]]
    BY <1>2 DEF WithNext
  <2> QED
    BY <1>2, <2>1, ScheduledType, ScheduledIs
<1> QED
  BY <1>1, <1>2

\* A request that ends, goes on or begins keeps the types of locks and sessions.
LEMMA EndedType ==
  ASSUME TypeOK, NEW s \in Sessions, Ended(s)
  PROVE  /\ accountLock' \in [Accounts -> Sessions \cup {None}]
         /\ planLock' \in [Plans -> Sessions \cup {None}]
         /\ session' \in [Sessions -> SessionStates]
<1>1. Idle \in SessionStates
  BY DEF Idle, At, SessionStates
<1>2. accountLock' \in [Accounts -> Sessions \cup {None}]
  BY DEF Ended, TypeOK
<1>3. planLock' \in [Plans -> Sessions \cup {None}]
  BY DEF Ended, TypeOK
<1>4. session' \in [Sessions -> SessionStates]
  BY <1>1 DEF Ended, TypeOK
<1> QED
  BY <1>2, <1>3, <1>4

LEMMA MovedType ==
  ASSUME TypeOK, NEW s \in Sessions,
         NEW pc \in {"found", "closed", "skipped", "closing", "paid", "executed"},
         session' = [session EXCEPT ![s].pc = pc]
  PROVE  session' \in [Sessions -> SessionStates]
<1> DEFINE moved == [session[s] EXCEPT !.pc = pc]
<1>1. session \in [Sessions -> SessionStates] /\ session[s] \in SessionStates
  BY DEF TypeOK
<1>2. moved \in SessionStates
  BY <1>1, Zenon DEF SessionStates
<1>3. session' = [session EXCEPT ![s] = moved]
  BY <1>1
<1> HIDE DEF moved
<1> QED
  BY <1>1, <1>2, <1>3

LEMMA BegunType ==
  ASSUME TypeOK, NEW s \in Sessions, NEW pc \in {"posted", "skipFound", "read"},
         NEW p \in Plans, NEW e \in Entries \cup {None}, NEW a \in Accounts \cup {None},
         NEW n \in Plans \cup {None}, session' = [session EXCEPT ![s] = At(pc, p, e, a, n)]
  PROVE  session' \in [Sessions -> SessionStates]
<1>1. At(pc, p, e, a, n) \in SessionStates
  BY DEF At, SessionStates
<1> QED
  BY <1>1 DEF TypeOK

LEMMA NextType == PlansInv /\ [Next]_vars => TypeOK'
<1> SUFFICES ASSUME PlansInv, [Next]_vars PROVE TypeOK'
  OBVIOUS
<1>t. TypeOK /\ SessionsSound
  BY DEF PlansInv
<1>p. plan \in [Plans -> PlanRows]
  BY <1>t DEF TypeOK
<1>n. ASSUME NEW rows \in [Plans -> PlanRows], NEW p, NEW n \in Plans, NEW after \in WithNext(rows, p, n)
      PROVE  after \in [Plans -> PlanRows]
  BY WhatFollows
<1>1. ASSUME NEW s \in Sessions, NEW p \in Plans, NEW a \in Accounts, FormPost(s, p, a)
      PROVE  TypeOK'
  <2>0. PICK e \in Entries, n \in Plans :
            session' = [session EXCEPT ![s] = At("posted", p, e, a, n)]
    BY <1>1 DEF FormPost, FreshEntries, FreshPlans
  <2>1. session' \in [Sessions -> SessionStates]
    BY <1>t, <2>0, BegunType
  <2> QED
    BY <1>1, <1>t, <2>1 DEF FormPost, TypeOK
<1>2. ASSUME NEW s \in Sessions, NEW p \in Plans, SkipFind(s, p)
      PROVE  TypeOK'
  <2>0. PICK n \in Plans : session' = [session EXCEPT ![s] = At("skipFound", p, None, None, n)]
    BY <1>2 DEF SkipFind, FreshPlans
  <2>1. session' \in [Sessions -> SessionStates]
    BY <1>t, <2>0, BegunType
  <2> QED
    BY <1>2, <1>t, <2>1 DEF SkipFind, TypeOK
<1>3. ASSUME NEW s \in Sessions, NEW p \in Plans, StopPlan(s, p)
      PROVE  TypeOK'
  <2>1. plan' = [plan EXCEPT ![p] = [@ EXCEPT !.status = "cancelled", !.recurs = FALSE]]
    BY <1>3 DEF StopPlan, Stopped
  <2>2. plan' \in [Plans -> PlanRows]
    BY <1>p, <2>1, StoppedType, Zenon
  <2> QED
    BY <1>3, <1>t, <2>2 DEF StopPlan, TypeOK
<1>4. ASSUME NEW s \in Sessions, BeginClose(s)
      PROVE  TypeOK'
  <2>1. session' \in [Sessions -> SessionStates]
    BY <1>4, <1>t, MovedType DEF BeginClose
  <2> QED
    BY <1>4, <1>t, <2>1 DEF BeginClose, TypeOK
<1>5. ASSUME NEW s \in Sessions, CancelPending(s)
      PROVE  TypeOK'
  <2> DEFINE cancelling == [session[s] EXCEPT !.pc = "cancelling", !.snapshot = {p \in Pending : plan[p].bound}]
  <2>1. session[s] \in SessionStates /\ Pending \in SUBSET Plans
    BY <1>t DEF TypeOK, Pending
  <2>2. cancelling \in SessionStates
    BY <2>1, Zenon DEF SessionStates
  <2>3. session' = [session EXCEPT ![s] = cancelling]
    BY <1>5 DEF CancelPending
  <2> HIDE DEF cancelling
  <2>4. session' \in [Sessions -> SessionStates]
    BY <1>t, <2>2, <2>3 DEF TypeOK
  <2> QED
    BY <1>5, <1>t, <2>4 DEF CancelPending, TypeOK
<1>6. ASSUME NEW s \in Sessions, NEW p \in Plans, ExecuteRead(s, p)
      PROVE  TypeOK'
  <2>1. PICK e \in Entries, a \in Accounts, n \in Plans \cup {None} :
            session' = [session EXCEPT ![s] = At("read", p, e, a, n)]
    BY <1>6 DEF ExecuteRead, FreshEntries, FreshPlans
  <2>2. session' \in [Sessions -> SessionStates]
    BY <1>t, <2>1, BegunType
  <2> QED
    BY <1>6, <1>t, <2>2 DEF ExecuteRead, TypeOK
<1>7. ASSUME NEW s \in Sessions, FormFind(s)
      PROVE  TypeOK'
  <2>1. CASE Ended(s)
    BY <1>7, <1>t, <2>1, EndedType DEF FormFind, TypeOK
  <2>2. CASE session' = [session EXCEPT ![s].pc = "found"] /\ UNCHANGED <<accountLock, planLock>>
    <3>1. session' \in [Sessions -> SessionStates]
      BY <1>t, <2>2, MovedType
    <3> QED
      BY <1>7, <1>t, <2>2, <3>1 DEF FormFind, TypeOK
  <2> QED
    BY <1>7, <2>1, <2>2 DEF FormFind
<1>8. ASSUME NEW s \in Sessions, FormClose(s)
      PROVE  TypeOK'
  <2>1. session' \in [Sessions -> SessionStates]
    BY <1>8, <1>t, MovedType DEF FormClose
  <2>2. planLock' \in [Plans -> Sessions \cup {None}]
    BY <1>8, <1>t DEF FormClose, TypeOK
  <2> QED
    BY <1>8, <1>t, <2>1, <2>2 DEF FormClose, TypeOK
<1>9. ASSUME NEW s \in Sessions, FormCommit(s)
      PROVE  TypeOK'
  <2>1. /\ session[s].plan \in Plans /\ session[s].next \in Plans /\ session[s].entry \in Entries
    BY <1>9, <1>t DEF FormCommit, SessionsSound, SessionSound, InForm
  <2>2. Executed(session[s].plan, session[s].entry) \in [Plans -> PlanRows]
    BY <1>p, <2>1, ExecutedType, Zenon DEF Executed
  <2>3. plan' \in [Plans -> PlanRows]
    BY <1>9, <1>n, <2>1, <2>2 DEF FormCommit
  <2>4. entry' \in [Entries -> Plans \cup {None}]
    BY <1>9, <1>t, <2>1 DEF FormCommit, TypeOK
  <2> QED
    BY <1>9, <1>t, <2>3, <2>4, EndedType DEF FormCommit, TypeOK
<1>10. ASSUME NEW s \in Sessions, SkipClose(s)
       PROVE  TypeOK'
  <2>1. session[s].plan \in Plans
    BY <1>10, <1>t, Zenon DEF SkipClose, SessionsSound, SessionSound
  <2>2. plan' \in [Plans -> PlanRows]
    BY <1>10, <1>p, <2>1, SkippedType, Zenon DEF SkipClose
  <2>3. session' \in [Sessions -> SessionStates]
    BY <1>10, <1>t, MovedType DEF SkipClose
  <2> QED
    BY <1>10, <1>t, <2>2, <2>3 DEF SkipClose, TypeOK
<1>11. ASSUME NEW s \in Sessions, SkipSchedule(s)
       PROVE  TypeOK'
  <2>1. session[s].next \in Plans
    BY <1>11, <1>t DEF SkipSchedule, SessionsSound, SessionSound
  <2>2. plan' \in [Plans -> PlanRows]
    BY <1>11, <1>p, <1>n, <2>1 DEF SkipSchedule
  <2> QED
    BY <1>11, <1>t, <2>2, EndedType DEF SkipSchedule, TypeOK
<1>12. ASSUME NEW s \in Sessions, CommitClose(s)
       PROVE  TypeOK'
  <2>1. ASSUME NEW p \in Plans PROVE Stopped(plan, p)[p] \in PlanRows
    BY <1>p, StoppedType, Zenon DEF Stopped
  <2>2. plan' \in [Plans -> PlanRows]
    BY <1>12, <1>p, <2>1 DEF CommitClose
  <2> QED
    BY <1>12, <1>t, <2>2, EndedType DEF CommitClose, TypeOK
<1>13. ASSUME NEW s \in Sessions, ExecutePost(s)
       PROVE  TypeOK'
  <2>1. session[s].plan \in Plans
    BY <1>13, <1>t DEF ExecutePost, SessionsSound, SessionSound
  <2>2. entry' \in [Entries -> Plans \cup {None}]
    BY <1>13, <1>t, <2>1 DEF ExecutePost, TypeOK
  <2>3. session' \in [Sessions -> SessionStates]
    BY <1>13, <1>t, MovedType DEF ExecutePost
  <2> QED
    BY <1>13, <1>t, <2>2, <2>3 DEF ExecutePost, TypeOK
<1>14. ASSUME NEW s \in Sessions, ExecuteMark(s)
       PROVE  TypeOK'
  <2>1. session[s].plan \in Plans /\ session[s].entry \in Entries
    BY <1>14, <1>t, Zenon DEF ExecuteMark, SessionsSound, SessionSound
  <2>2. plan' \in [Plans -> PlanRows]
    BY <1>14, <1>p, <2>1, ExecutedType, Zenon DEF ExecuteMark, Executed
  <2>3. session' \in [Sessions -> SessionStates]
    BY <1>14, <1>t, MovedType DEF ExecuteMark
  <2> QED
    BY <1>14, <1>t, <2>2, <2>3 DEF ExecuteMark, TypeOK
<1>15. ASSUME NEW s \in Sessions, ExecuteSchedule(s)
       PROVE  TypeOK'
  <2>1. plan' \in [Plans -> PlanRows]
    BY <1>15, <1>p, ScheduledType DEF ExecuteSchedule
  <2> QED
    BY <1>15, <1>t, <2>1, EndedType DEF ExecuteSchedule, TypeOK
<1>16. ASSUME NEW s \in Sessions, Rollback(s)
       PROVE  TypeOK'
  BY <1>16, <1>t, EndedType DEF Rollback, TypeOK
<1>17. CASE UNCHANGED vars
  BY <1>17, <1>t DEF vars, TypeOK
<1> QED
  BY <1>1, <1>2, <1>3, <1>4, <1>5, <1>6, <1>7, <1>8, <1>9, <1>10, <1>11, <1>12, <1>13, <1>14, <1>15, <1>16, <1>17
  DEF Next, Begin, Continue

-----------------------------------------------------------------------------
(* What a step of a session may do to the rows: everything but its own ids is left alone. *)

\* An entry is posted once, by the request that has taken its id; a row comes into
\* being once, pending, from the request that has taken its id.
RowsKept(s) ==
    /\ \A e \in Entries \ {session[s].entry} : entry'[e] = entry[e]
    /\ \A p \in Plans \ {session[s].next} :
          (plan'[p].status = "free") = (plan[p].status = "free")

LEMMA StepKeepsRows ==
  ASSUME PlansInv, NEW s \in Sessions, Begin(s) \/ Continue(s) \/ Rollback(s)
  PROVE  RowsKept(s)
<1> USE PlansAssumption DEF PlansInv
<1>1. ASSUME NEW p \in Plans, StopPlan(s, p)
      PROVE  RowsKept(s)
  BY <1>1 DEF StopPlan, Stopped, RowsKept, TypeOK, PlanRows
<1>2. ASSUME FormCommit(s)
      PROVE  RowsKept(s)
  <2>1. /\ session[s].plan \in Plans /\ session[s].next \in Plans
        /\ plan[session[s].plan].status # "free"
    BY <1>2 DEF FormCommit, SessionsSound, SessionSound, InForm
  <2>2. \A p \in Plans \ {session[s].next} :
            plan'[p] = Executed(session[s].plan, session[s].entry)[p]
    <3>1. session[s].entry \in Entries /\ plan \in [Plans -> PlanRows]
      BY <1>2 DEF FormCommit, SessionsSound, SessionSound, InForm, TypeOK
    <3>2. Executed(session[s].plan, session[s].entry) \in [Plans -> PlanRows]
      BY <2>1, <3>1, ExecutedType, Zenon DEF Executed
    <3> QED
      BY <1>2, <2>1, <3>2, WhatFollows DEF FormCommit
  <2>3. \A p \in Plans :
            (Executed(session[s].plan, session[s].entry)[p].status = "free") = (plan[p].status = "free")
    BY <2>1 DEF Executed, TypeOK, PlanRows
  <2> QED
    BY <1>2, <2>2, <2>3 DEF FormCommit, RowsKept, TypeOK
<1>3. ASSUME SkipClose(s)
      PROVE  RowsKept(s)
  BY <1>3 DEF SkipClose, RowsKept, SessionsSound, SessionSound, TypeOK, PlanRows
<1>4. ASSUME SkipSchedule(s)
      PROVE  RowsKept(s)
  <2>1. session[s].next \in Plans /\ plan \in [Plans -> PlanRows]
    BY <1>4 DEF SkipSchedule, SessionsSound, SessionSound, TypeOK
  <2> QED
    BY <1>4, <2>1, WhatFollows DEF SkipSchedule, RowsKept
<1>5. ASSUME CommitClose(s)
      PROVE  RowsKept(s)
  <2>1. \A p \in Plans : Stopped(plan, p)[p].status = "cancelled"
    BY DEF Stopped, TypeOK, PlanRows
  <2>2. \A p \in Plans :
            \/ plan'[p] = plan[p]
            \/ plan[p].status = "pending" /\ plan'[p] = Stopped(plan, p)[p]
    BY <1>5 DEF CommitClose, Pending
  <2> QED
    BY <1>5, <2>1, <2>2 DEF CommitClose, RowsKept
<1>6. ASSUME ExecutePost(s)
      PROVE  RowsKept(s)
  BY <1>6 DEF ExecutePost, RowsKept, TypeOK
<1>7. ASSUME ExecuteMark(s)
      PROVE  RowsKept(s)
  BY <1>7 DEF ExecuteMark, Executed, RowsKept, SessionsSound, SessionSound, TypeOK, PlanRows
<1>8. ASSUME ExecuteSchedule(s)
      PROVE  RowsKept(s)
  BY <1>8 DEF ExecuteSchedule, RowsKept, TypeOK
<1>9. CASE UNCHANGED <<plan, entry>>
  BY <1>9 DEF RowsKept
<1> QED
  BY <1>1, <1>2, <1>3, <1>4, <1>5, <1>6, <1>7, <1>8, <1>9
  DEF Begin, Continue, FormPost, SkipFind, BeginClose, ExecuteRead, FormFind, FormClose, CancelPending, Rollback

\* A closing request that takes its snapshot changes nothing but its own place.
LEMMA CancelPendingIs ==
  ASSUME TypeOK, NEW s \in Sessions, CancelPending(s)
  PROVE  /\ session[s].pc = "closing" /\ session'[s].pc = "cancelling"
         /\ session'[s].entry = session[s].entry /\ session'[s].next = session[s].next
         /\ \A t \in Sessions \ {s} : session'[t] = session[t]
         /\ UNCHANGED <<plan, entry, contract, accountLock, planLock>>
<1> DEFINE place == [session[s] EXCEPT !.pc = "cancelling", !.snapshot = {p \in Pending : plan[p].bound}]
<1>1. session[s] \in SessionStates /\ session \in [Sessions -> SessionStates]
  BY DEF TypeOK
<1>2. /\ place.pc = "cancelling"
      /\ place.entry = session[s].entry /\ place.next = session[s].next
  BY <1>1 DEF SessionStates
<1>3. /\ session[s].pc = "closing"
      /\ session' = [session EXCEPT ![s] = place]
      /\ UNCHANGED <<plan, entry, contract, accountLock, planLock>>
  BY DEF CancelPending
<1> HIDE DEF place
<1>4. session'[s] = place /\ \A t \in Sessions \ {s} : session'[t] = session[t]
  BY <1>1, <1>3
<1> QED
  BY <1>2, <1>3, <1>4

\* A step changes the place of its own session alone, and takes no id that is taken.
SessionMoves(s) ==
    /\ \A t \in Sessions \ {s} : session'[t] = session[t]
    /\ session'[s].entry \in {session[s].entry, None} \cup FreshEntries
    /\ \/ session'[s].next = None
       \/ session'[s].next = session[s].next /\ plan'[session[s].next] = plan[session[s].next]
       \/ session'[s].next \in FreshPlans /\ plan' = plan

LEMMA StepMovesSession ==
  ASSUME PlansInv, NEW s \in Sessions, Begin(s) \/ Continue(s) \/ Rollback(s)
  PROVE  SessionMoves(s)
<1> USE PlansAssumption DEF PlansInv, SessionMoves
<1>1. ASSUME NEW p \in Plans, NEW a \in Accounts, FormPost(s, p, a)
      PROVE  SessionMoves(s)
  BY <1>1 DEF FormPost, TypeOK, At
<1>2. ASSUME NEW p \in Plans, SkipFind(s, p)
      PROVE  SessionMoves(s)
  BY <1>2 DEF SkipFind, TypeOK, At
<1>3. ASSUME NEW p \in Plans, StopPlan(s, p)
      PROVE  SessionMoves(s)
  BY <1>3 DEF StopPlan, Stopped, Idle, At, TypeOK
<1>4. ASSUME NEW p \in Plans, ExecuteRead(s, p)
      PROVE  SessionMoves(s)
  BY <1>4 DEF ExecuteRead, TypeOK, At
<1>5. CASE BeginClose(s) \/ CancelPending(s) \/ FormClose(s) \/ ExecutePost(s)
  <2>1. plan' = plan
    BY <1>5 DEF BeginClose, CancelPending, FormClose, ExecutePost
  <2>2. /\ \A t \in Sessions \ {s} : session'[t] = session[t]
        /\ session'[s].entry = session[s].entry /\ session'[s].next = session[s].next
    <3>1. CASE CancelPending(s)
      BY <3>1, CancelPendingIs
    <3>2. CASE BeginClose(s) \/ FormClose(s) \/ ExecutePost(s)
      BY <3>2 DEF BeginClose, FormClose, ExecutePost, TypeOK, SessionStates
    <3>3. QED
      BY <1>5, <3>1, <3>2
  <2> QED
    BY <2>1, <2>2
<1>6. CASE FormFind(s)
  BY <1>6 DEF FormFind, Ended, TypeOK, SessionStates, Idle, At
<1>7. CASE FormCommit(s) \/ SkipSchedule(s) \/ CommitClose(s) \/ ExecuteSchedule(s) \/ Rollback(s)
  <2>1. Ended(s)
    BY <1>7 DEF FormCommit, SkipSchedule, CommitClose, ExecuteSchedule, Rollback
  <2> QED
    BY <2>1 DEF Ended, TypeOK, Idle, At
<1>8. CASE SkipClose(s) \/ ExecuteMark(s)
  <2> DEFINE p == session[s].plan
  <2>1. /\ session' = [session EXCEPT ![s].pc = session'[s].pc]
        /\ \A q \in Plans \ {p} : plan'[q] = plan[q]
        /\ p \in Plans /\ plan[p].status # "free"
    <3>1. p \in Plans /\ plan[p].status # "free"
      BY <1>8 DEF SkipClose, ExecuteMark, SessionsSound, SessionSound
    <3>2. session' = [session EXCEPT ![s].pc = session'[s].pc]
      BY <1>8 DEF SkipClose, ExecuteMark, TypeOK, SessionStates
    <3>3. \A q \in Plans \ {p} : plan'[q] = plan[q]
      BY <1>8 DEF SkipClose, ExecuteMark, Executed, TypeOK
    <3> QED
      BY <3>1, <3>2, <3>3
  <2>2. session[s].next # None => session[s].next # p
    BY <2>1 DEF OwnIds
  <2> QED
    BY <2>1, <2>2 DEF TypeOK, SessionStates
<1> QED
  BY <1>1, <1>2, <1>3, <1>4, <1>5, <1>6, <1>7, <1>8 DEF Begin, Continue

LEMMA NextOwnIds == PlansInv /\ [Next]_vars => OwnIds'
<1> SUFFICES ASSUME PlansInv, [Next]_vars PROVE OwnIds'
  OBVIOUS
<1> USE PlansAssumption DEF PlansInv
<1>1. ASSUME NEW s \in Sessions, Begin(s) \/ Continue(s) \/ Rollback(s)
      PROVE  OwnIds'
  <2>1. RowsKept(s) /\ SessionMoves(s)
    BY <1>1, StepKeepsRows, StepMovesSession
  <2>2. \A t \in Sessions \ {s} :
            /\ session'[t].entry # None => session'[t].entry # session'[s].entry
            /\ session'[t].next # None => session'[t].next # session'[s].next
    BY <2>1 DEF SessionMoves, OwnIds, FreshEntries, FreshPlans
  <2>3. \A t \in Sessions \ {s} : session'[t].next # None => plan'[session'[t].next].status = "free"
    BY <2>1 DEF SessionMoves, RowsKept, OwnIds, TypeOK, SessionStates
  <2>4. session'[s].next # None => plan'[session'[s].next].status = "free"
    BY <2>1 DEF SessionMoves, OwnIds, FreshPlans, TypeOK, SessionStates
  <2>5. \A t, u \in Sessions \ {s} : t # u =>
            /\ session'[t].entry # None => session'[t].entry # session'[u].entry
            /\ session'[t].next # None => session'[t].next # session'[u].next
    BY <2>1 DEF SessionMoves, OwnIds
  <2> QED
    BY <2>2, <2>3, <2>4, <2>5 DEF OwnIds
<1>2. CASE UNCHANGED vars
  BY <1>2 DEF vars, OwnIds
<1> QED
  BY <1>1, <1>2 DEF Next

LEMMA OthersSound ==
  ASSUME PlansInv, NEW s \in Sessions, RowsKept(s), SessionMoves(s), NEW t \in Sessions \ {s}
  PROVE  SessionSound(t)'
<1> USE PlansAssumption DEF PlansInv
<1>1. session'[t] = session[t] /\ SessionSound(t)
  BY DEF SessionMoves, SessionsSound
<1>2. session[t].entry # None => session[t].entry # session[s].entry
  BY DEF OwnIds
<1>3. session[t].entry \in Entries => entry'[session[t].entry] = entry[session[t].entry]
  BY <1>2 DEF RowsKept
<1>4. ASSUME session[t].plan \in Plans, plan[session[t].plan].status # "free"
      PROVE  plan'[session[t].plan].status # "free"
  <2>1. session[t].plan # session[s].next
    BY <1>4 DEF OwnIds
  <2> QED
    BY <1>4, <2>1 DEF RowsKept
<1> QED
  BY <1>1, <1>3, <1>4 DEF SessionSound, InForm

LEMMA NextSessions == PlansInv /\ [Next]_vars => SessionsSound'
<1> SUFFICES ASSUME PlansInv, [Next]_vars PROVE SessionsSound'
  OBVIOUS
<1> USE PlansAssumption DEF PlansInv
<1>0. ASSUME NEW s \in Sessions, session'[s] = Idle
      PROVE  SessionSound(s)'
  BY <1>0 DEF SessionSound, InForm, Idle, At
<1>1. ASSUME NEW s \in Sessions, NEW p \in Plans, NEW a \in Accounts, FormPost(s, p, a)
      PROVE  SessionSound(s)'
  BY <1>1 DEF FormPost, FreshEntries, FreshPlans, SessionSound, InForm, At, TypeOK
<1>2. ASSUME NEW s \in Sessions, NEW p \in Plans, SkipFind(s, p)
      PROVE  SessionSound(s)'
  BY <1>2 DEF SkipFind, FreshPlans, SessionSound, InForm, At, TypeOK
<1>3. ASSUME NEW s \in Sessions, NEW p \in Plans, StopPlan(s, p)
      PROVE  SessionSound(s)'
  BY <1>0, <1>3 DEF StopPlan
<1>4. ASSUME NEW s \in Sessions, BeginClose(s) \/ CancelPending(s)
      PROVE  SessionSound(s)'
  <2>1. session'[s].pc \in {"closing", "cancelling"}
    BY <1>4, CancelPendingIs DEF BeginClose, TypeOK, SessionStates
  <2> QED
    BY <2>1 DEF SessionSound, InForm
<1>5. ASSUME NEW s \in Sessions, NEW p \in Plans, ExecuteRead(s, p)
      PROVE  SessionSound(s)'
  BY <1>5 DEF ExecuteRead, FreshEntries, SessionSound, InForm, At, TypeOK
<1>6. ASSUME NEW s \in Sessions, FormFind(s)
      PROVE  SessionSound(s)'
  <2>1. CASE session'[s] = Idle
    BY <1>0, <2>1
  <2>2. CASE session' = [session EXCEPT ![s].pc = "found"] /\ UNCHANGED <<plan, entry>>
    BY <1>6, <2>2 DEF FormFind, SessionsSound, SessionSound, InForm, TypeOK, SessionStates
  <2> QED
    BY <1>6, <2>1, <2>2 DEF FormFind, Ended, TypeOK
<1>7. ASSUME NEW s \in Sessions, FormClose(s)
      PROVE  SessionSound(s)'
  BY <1>7 DEF FormClose, SessionsSound, SessionSound, InForm, TypeOK, SessionStates
<1>8. ASSUME NEW s \in Sessions, SkipClose(s)
      PROVE  SessionSound(s)'
  <2>1. session[s].pc = "skipFound" /\ session[s].plan \in Plans /\ session[s].next \in Plans
    BY <1>8, Zenon DEF SkipClose, SessionsSound, SessionSound
  <2>2. session'[s].pc = "skipped" /\ session'[s].plan = session[s].plan /\ session'[s].next = session[s].next
    BY <1>8 DEF SkipClose, TypeOK, SessionStates
  <2>3. plan'[session[s].plan].status # "free"
    BY <1>8, <2>1 DEF SkipClose, TypeOK, PlanRows
  <2> QED
    BY <2>1, <2>2, <2>3 DEF SessionSound, InForm
<1>9. ASSUME NEW s \in Sessions, ExecutePost(s)
      PROVE  SessionSound(s)'
  BY <1>9 DEF ExecutePost, SessionsSound, SessionSound, InForm, TypeOK, SessionStates
<1>10. ASSUME NEW s \in Sessions, ExecuteMark(s)
       PROVE  SessionSound(s)'
  BY <1>10 DEF ExecuteMark, Executed, SessionsSound, SessionSound, InForm, TypeOK, SessionStates, PlanRows
<1>11. ASSUME NEW s \in Sessions,
              FormCommit(s) \/ SkipSchedule(s) \/ CommitClose(s) \/ ExecuteSchedule(s) \/ Rollback(s)
       PROVE  SessionSound(s)'
  BY <1>0, <1>11 DEF FormCommit, SkipSchedule, CommitClose, ExecuteSchedule, Rollback, Ended, TypeOK
<1>12. ASSUME NEW s \in Sessions, Begin(s) \/ Continue(s) \/ Rollback(s)
       PROVE  SessionsSound'
  <2>1. SessionSound(s)'
    BY <1>12, <1>1, <1>2, <1>3, <1>4, <1>5, <1>6, <1>7, <1>8, <1>9, <1>10, <1>11 DEF Begin, Continue
  <2>2. \A t \in Sessions \ {s} : SessionSound(t)'
    BY <1>12, StepKeepsRows, StepMovesSession, OthersSound
  <2> QED
    BY <2>1, <2>2 DEF SessionsSound
<1>13. CASE UNCHANGED vars
  BY <1>13 DEF vars, SessionsSound, SessionSound, InForm
<1> QED
  BY <1>12, <1>13 DEF Next

-----------------------------------------------------------------------------
\* What each step does to the rows of occurrences and entries.
LEMMA NextRows == PlansInv /\ [Next]_vars => FreeRows' /\ ExecutedHasItsEntry'
<1> SUFFICES ASSUME PlansInv, [Next]_vars PROVE FreeRows' /\ ExecutedHasItsEntry'
  OBVIOUS
<1> USE PlansAssumption DEF PlansInv
<1>1. ASSUME NEW s \in Sessions, NEW p \in Plans, StopPlan(s, p)
      PROVE  FreeRows' /\ ExecutedHasItsEntry'
  BY <1>1 DEF StopPlan, Stopped, FreeRows, ExecutedHasItsEntry, EntriesOf, TypeOK, PlanRows
<1>2. ASSUME NEW s \in Sessions, FormCommit(s)
      PROVE  FreeRows' /\ ExecutedHasItsEntry'
  <2> DEFINE p == session[s].plan
             e == session[s].entry
             n == session[s].next
  <2>1. /\ p \in Plans /\ n \in Plans /\ e \in Entries
        /\ entry[e] = None /\ p # n
    BY <1>2 DEF FormCommit, SessionsSound, SessionSound, InForm, OwnIds
  <2>2. plan' \in WithNext(Executed(p, e), p, n) /\ entry' = [entry EXCEPT ![e] = p]
    BY <1>2 DEF FormCommit
  <2>3. /\ Executed(p, e)[p].status = "executed" /\ Executed(p, e)[p].paidBy = e
        /\ \A q \in Plans \ {p} : Executed(p, e)[q] = plan[q]
        /\ Executed(p, e) \in [Plans -> PlanRows]
    <3>1. plan \in [Plans -> PlanRows]
      BY DEF TypeOK
    <3>2. Executed(p, e) \in [Plans -> PlanRows]
      BY <2>1, <3>1, ExecutedType, Zenon DEF Executed
    <3> QED
      BY <2>1, <3>1, <3>2 DEF Executed, PlanRows
  <2>4. /\ plan'[p].status = "executed" /\ plan'[p].paidBy = e
        /\ \A q \in Plans \ {p} : plan'[q] = plan[q] \/ (plan'[q].status = "pending" /\ plan'[q].paidBy = None)
    BY <2>1, <2>2, <2>3, WhatFollows
  <2>5. entry' = [entry EXCEPT ![e] = p]
    BY <2>2
  <2> HIDE DEF p, e, n
  <2> QED
    BY <2>1, <2>4, <2>5 DEF FreeRows, ExecutedHasItsEntry, EntriesOf, TypeOK
<1>3. ASSUME NEW s \in Sessions, SkipClose(s)
      PROVE  FreeRows' /\ ExecutedHasItsEntry'
  <2>1. session[s].plan \in Plans
    BY <1>3 DEF SkipClose, SessionsSound, SessionSound
  <2> QED
    BY <1>3, <2>1 DEF SkipClose, FreeRows, ExecutedHasItsEntry, EntriesOf, TypeOK, PlanRows
<1>4. ASSUME NEW s \in Sessions, SkipSchedule(s) \/ ExecuteSchedule(s)
      PROVE  FreeRows' /\ ExecutedHasItsEntry'
  <2>1. entry' = entry /\ \A q \in Plans : plan'[q] = plan[q] \/ (plan'[q].status = "pending" /\ plan'[q].paidBy = None)
    <3>1. plan \in [Plans -> PlanRows]
      BY DEF TypeOK
    <3>2. CASE SkipSchedule(s)
      <4>1. session[s].next \in Plans
        BY <3>2 DEF SkipSchedule, SessionsSound, SessionSound
      <4> QED
        BY <3>1, <3>2, <4>1, WhatFollows DEF SkipSchedule
    <3>3. CASE ExecuteSchedule(s)
      BY <3>1, <3>3, ScheduledIs DEF ExecuteSchedule
    <3> QED
      BY <1>4, <3>2, <3>3
  <2> QED
    BY <2>1 DEF FreeRows, ExecutedHasItsEntry, EntriesOf
<1>5. ASSUME NEW s \in Sessions, CommitClose(s)
      PROVE  FreeRows' /\ ExecutedHasItsEntry'
  <2>1. \A q \in Plans :
            /\ Stopped(plan, q)[q].status = "cancelled"
            /\ Stopped(plan, q)[q].paidBy = plan[q].paidBy
    BY DEF Stopped, TypeOK, PlanRows
  <2>2. \A q \in Plans :
            \/ plan'[q] = plan[q]
            \/ plan[q].status = "pending" /\ plan'[q] = Stopped(plan, q)[q]
    BY <1>5 DEF CommitClose, Pending
  <2>3. entry' = entry
    BY <1>5 DEF CommitClose
  <2> QED
    BY <2>1, <2>2, <2>3 DEF FreeRows, ExecutedHasItsEntry, EntriesOf
<1>6. ASSUME NEW s \in Sessions, ExecutePost(s)
      PROVE  FreeRows' /\ ExecutedHasItsEntry'
  <2>1. session[s].entry \in Entries /\ entry[session[s].entry] = None
    BY <1>6, Zenon DEF ExecutePost, SessionsSound, SessionSound
  <2> QED
    BY <1>6, <2>1 DEF ExecutePost, FreeRows, ExecutedHasItsEntry, EntriesOf, TypeOK
<1>7. ASSUME NEW s \in Sessions, ExecuteMark(s)
      PROVE  FreeRows' /\ ExecutedHasItsEntry'
  <2>1. /\ session[s].plan \in Plans /\ session[s].entry \in Entries
        /\ entry[session[s].entry] = session[s].plan
    BY <1>7 DEF ExecuteMark, SessionsSound, SessionSound
  <2> DEFINE p == session[s].plan
             row == [plan[p] EXCEPT !.status = "executed", !.paidBy = session[s].entry]
  <2>2. plan' = [plan EXCEPT ![p] = row] /\ entry' = entry
    BY <1>7, <2>1 DEF ExecuteMark, Executed, TypeOK
  <2>3. row.status = "executed" /\ row.paidBy = session[s].entry
    BY <2>1 DEF TypeOK, PlanRows
  <2> HIDE DEF row
  <2>4. plan'[p] = row /\ \A q \in Plans \ {p} : plan'[q] = plan[q]
    BY <2>1, <2>2 DEF TypeOK
  <2>5. FreeRows'
    BY <2>3, <2>4 DEF FreeRows, NoPlan
  <2>6. ExecutedHasItsEntry'
    BY <2>1, <2>2, <2>3, <2>4 DEF ExecutedHasItsEntry, EntriesOf
  <2> QED
    BY <2>5, <2>6
<1>8. CASE UNCHANGED <<plan, entry>>
  BY <1>8 DEF FreeRows, ExecutedHasItsEntry, EntriesOf
<1> QED
  BY <1>1, <1>2, <1>3, <1>4, <1>5, <1>6, <1>7, <1>8
  DEF Next, Begin, Continue, FormPost, SkipFind, BeginClose, ExecuteRead, FormFind, FormClose, CancelPending,
      Rollback, vars

LEMMA NextInv == PlansInv /\ [Next]_vars => PlansInv'
  BY NextType, NextOwnIds, NextSessions, NextRows DEF PlansInv

-----------------------------------------------------------------------------
\* Every variable keeps its type.
THEOREM PlansTypeCorrect == Spec => []TypeOK
<1>1. PlansInv => TypeOK
  BY DEF PlansInv
<1> QED
  BY <1>1, InitInv, NextInv, PTL DEF Spec

\* Whatever users do, and wherever their requests fail: an executed occurrence
\* names an entry that was posted for it, and no other occurrence names one.
THEOREM ExecutedKeepsItsEntry == Spec => []ExecutedHasItsEntry
<1>1. PlansInv => ExecutedHasItsEntry
  BY DEF PlansInv
<1> QED
  BY <1>1, InitInv, NextInv, PTL DEF Spec

-----------------------------------------------------------------------------
(* Payments recorded by the form on one account, while the payment may be stopped *)
(* and its deposit or policy closed.  The account's lock lets one form in at a     *)
(* time: that, and no lock or condition on the occurrence, keeps the chain whole.  *)

OnOneAccount ==
    /\ Ways \subseteq {"form", "stop", "close"}
    /\ \A a, b \in Accounts : a = b

\* A form holds its account; one request closes the deposit at a time.
Serialised ==
    /\ \A s \in Sessions : session[s].pc \in {"idle", "posted", "found", "closed", "closing", "cancelling"}
    /\ \A s \in Sessions : InForm(s) => accountLock[session[s].account] = s
    /\ \A s \in Sessions : session[s].pc \in {"closing", "cancelling"} => contract = "closing"
    /\ \A s, t \in Sessions :
          session[s].pc \in {"closing", "cancelling"} /\ session[t].pc \in {"closing", "cancelling"} => s = t

\* What a form has read of its occurrence remains true but for a cancellation; the
\* term is not over while it is at work.
FormsSound ==
    \A s \in Sessions : session[s].pc \in {"found", "closed"} =>
        /\ ~TermOver
        /\ plan[session[s].plan].status # "executed"
        /\ \A p \in Plans : plan[p].status = "pending" => p = session[s].plan

\* An entry's occurrence is executed, and no other entry has it.
PaidSound ==
    /\ \A e \in Entries : entry[e] # None => plan[entry[e]].status = "executed"
    /\ \A e, f \in Entries : entry[e] # None /\ entry[e] = entry[f] => e = f

ChainSound ==
    /\ \A p, q \in Plans : plan[p].status = "pending" /\ plan[q].status = "pending" => p = q
    /\ contract # "closed" /\ (\A p \in Plans : plan[p].recurs) /\ ~TermOver =>
          \E p \in Plans : plan[p].status = "pending"
    /\ TermOver => \A p \in Plans : plan[p].status # "pending"

ChainInv == Serialised /\ FormsSound /\ PaidSound /\ ChainSound

LEMMA InitChain == OnOneAccount /\ Init => ChainInv
  BY PlansAssumption
  DEF Init, ChainInv, Serialised, FormsSound, PaidSound, ChainSound, TermOver, InForm, At, Idle, NoPlan, Scheduled,
      PendingRow

\* The form is alone with the account.
LEMMA FormAlone ==
  ASSUME OnOneAccount, PlansInv, ChainInv, NEW s \in Sessions, NEW t \in Sessions, InForm(s), InForm(t)
  PROVE  s = t
<1>1. session[s].account \in Accounts /\ session[t].account \in Accounts
  BY DEF PlansInv, SessionsSound, SessionSound
<1>2. session[s].account = session[t].account
  BY <1>1 DEF OnOneAccount
<1>3. accountLock[session[s].account] = s /\ accountLock[session[t].account] = t
  BY DEF ChainInv, Serialised
<1> QED
  BY <1>2, <1>3

LEMMA NextSerialised ==
  ASSUME OnOneAccount, PlansInv, ChainInv, [Next]_vars
  PROVE  Serialised'
<1> USE PlansAssumption DEF PlansInv, ChainInv
<1>1. ASSUME NEW s \in Sessions, NEW p \in Plans, NEW a \in Accounts, FormPost(s, p, a)
      PROVE  Serialised'
  <2>1. \A t \in Sessions \ {s} : ~InForm(t)
    BY <1>1 DEF FormPost, OnOneAccount, Serialised, SessionsSound, SessionSound
  <2>2. /\ \A t \in Sessions \ {s} : session'[t] = session[t]
        /\ session'[s].pc = "posted" /\ session'[s].account = a
        /\ accountLock'[a] = s /\ contract' = contract
    BY <1>1 DEF FormPost, TypeOK, At
  <2> QED
    BY <2>1, <2>2 DEF Serialised, InForm
<1>2. ASSUME NEW s \in Sessions, NEW p \in Plans, StopPlan(s, p)
      PROVE  Serialised'
  BY <1>2 DEF StopPlan, Serialised, InForm
<1>3. ASSUME NEW s \in Sessions, BeginClose(s)
      PROVE  Serialised'
  BY <1>3 DEF BeginClose, Serialised, InForm, TypeOK, SessionStates
<1>4. ASSUME NEW s \in Sessions, CancelPending(s) \/ FormClose(s)
      PROVE  Serialised'
  <2>1. CASE CancelPending(s)
    <3>1. /\ session[s].pc = "closing" /\ session'[s].pc = "cancelling"
          /\ \A t \in Sessions \ {s} : session'[t] = session[t]
          /\ UNCHANGED <<plan, entry, contract, accountLock, planLock>>
      BY <2>1, CancelPendingIs
    <3>2. QED
      BY <3>1 DEF Serialised, InForm
  <2>2. CASE FormClose(s)
    BY <2>2 DEF FormClose, Serialised, InForm, TypeOK, SessionStates
  <2>3. QED
    BY <1>4, <2>1, <2>2
<1>5. ASSUME NEW s \in Sessions, Ended(s),
             session[s].pc \in {"closing", "cancelling"} \/ contract' = contract
      PROVE  Serialised'
  <2>1. /\ session'[s].pc = "idle"
        /\ \A t \in Sessions \ {s} : session'[t] = session[t]
    BY <1>5 DEF Ended, Idle, At, TypeOK
  <2>2. \A a \in Accounts : accountLock[a] # s => accountLock'[a] = accountLock[a]
    BY <1>5 DEF Ended
  <2> QED
    BY <1>5, <2>1, <2>2 DEF Serialised, InForm, SessionsSound, SessionSound
<1>6. ASSUME NEW s \in Sessions, FormFind(s)
      PROVE  Serialised'
  <2>1. CASE Ended(s)
    BY <1>5, <1>6, <2>1 DEF FormFind
  <2>2. CASE session' = [session EXCEPT ![s].pc = "found"] /\ UNCHANGED <<accountLock, contract>>
    BY <1>6, <2>2 DEF FormFind, Serialised, InForm, TypeOK, SessionStates
  <2> QED
    BY <1>6, <2>1, <2>2 DEF FormFind
<1>7. ASSUME NEW s \in Sessions, FormCommit(s) \/ CommitClose(s) \/ Rollback(s)
      PROVE  Serialised'
  BY <1>5, <1>7 DEF FormCommit, CommitClose, Rollback
<1>8. CASE UNCHANGED vars
  <2>1. session' = session /\ accountLock' = accountLock /\ contract' = contract
    BY <1>8 DEF vars
  <2> QED
    BY <2>1 DEF Serialised, InForm
<1> QED
  BY <1>1, <1>2, <1>3, <1>4, <1>6, <1>7, <1>8
  DEF Next, Begin, Continue, OnOneAccount, Serialised, SkipClose, SkipSchedule, ExecutePost, ExecuteMark,
      ExecuteSchedule

\* The three ways rows change here: a form commits, the payment is stopped, the
\* deposit is closed; the last two only cancel.
Cancelling ==
    \A p \in Plans :
        \/ plan'[p] = plan[p]
        \/ plan[p].status = "pending" /\ plan'[p].status = "cancelled" /\ ~plan'[p].recurs

LEMMA ChainRows ==
  ASSUME OnOneAccount, PlansInv, ChainInv, [Next]_vars
  PROVE  \/ \E s \in Sessions : FormCommit(s)
         \/ Cancelling /\ entry' = entry
<1> USE PlansAssumption DEF PlansInv, ChainInv
<1>1. ASSUME NEW s \in Sessions, NEW p \in Plans, StopPlan(s, p)
      PROVE  Cancelling /\ entry' = entry
  BY <1>1 DEF StopPlan, Stopped, Cancelling, TypeOK, PlanRows
<1>2. ASSUME NEW s \in Sessions, CommitClose(s)
      PROVE  Cancelling /\ entry' = entry
  <2>1. \A q \in Plans : Stopped(plan, q)[q].status = "cancelled" /\ ~Stopped(plan, q)[q].recurs
    BY DEF Stopped, TypeOK, PlanRows
  <2>2. \A q \in Plans :
            \/ plan'[q] = plan[q]
            \/ plan[q].status = "pending" /\ plan'[q] = Stopped(plan, q)[q]
    BY <1>2 DEF CommitClose, Pending
  <2> QED
    BY <1>2, <2>1, <2>2 DEF CommitClose, Cancelling
<1>3. CASE UNCHANGED <<plan, entry>>
  BY <1>3 DEF Cancelling
<1> QED
  BY <1>1, <1>2, <1>3
  DEF Next, Begin, Continue, OnOneAccount, Serialised, FormPost, BeginClose, FormFind, FormClose, CancelPending,
      Rollback, SkipClose, SkipSchedule, ExecutePost, ExecuteMark, ExecuteSchedule, vars

\* What a form's commit does: its occurrence is executed, the next one pending
\* unless the deposit or policy is closed or its term over.
LEMMA CommitRows ==
  ASSUME PlansInv, NEW s \in Sessions, FormCommit(s)
  PROVE  LET p == session[s].plan
             e == session[s].entry
             n == session[s].next
         IN  /\ p \in Plans /\ n \in Plans /\ e \in Entries /\ p # n
             /\ entry[e] = None /\ entry' = [entry EXCEPT ![e] = p]
             /\ plan[n].status = "free" /\ plan[n].recurs
             /\ plan'[p].status = "executed" /\ plan'[p].recurs = plan[p].recurs
             /\ plan'[p].last = plan[p].last
             /\ contract' = contract
             /\ IF contract = "closed" \/ plan[p].last THEN plan'[n] = plan[n]
                ELSE plan'[n].status = "pending" /\ plan'[n].recurs
             /\ \A q \in Plans \ {p, n} : plan'[q] = plan[q]
<1> USE PlansAssumption DEF PlansInv
<1> DEFINE p == session[s].plan
           e == session[s].entry
           n == session[s].next
           rows == Executed(p, e)
<1>1. /\ p \in Plans /\ n \in Plans /\ e \in Entries
      /\ entry[e] = None
      /\ plan[p].status # "free" /\ plan[n].status = "free"
  BY DEF FormCommit, SessionsSound, SessionSound, InForm, OwnIds
<1>2. plan[n].recurs
  BY <1>1, ScheduledIs DEF FreeRows
<1>3. plan \in [Plans -> PlanRows]
  BY DEF TypeOK
<1>4. rows \in [Plans -> PlanRows]
  BY <1>1, <1>3, ExecutedType, Zenon DEF Executed
<1>5. /\ rows[p].status = "executed" /\ rows[p].recurs = plan[p].recurs /\ rows[p].last = plan[p].last
      /\ \A q \in Plans \ {p} : rows[q] = plan[q]
  BY <1>1, <1>3 DEF Executed, PlanRows
<1>6. plan' \in WithNext(rows, p, n) /\ entry' = [entry EXCEPT ![e] = p] /\ contract' = contract
  BY DEF FormCommit
<1> HIDE DEF p, e, n, rows
<1>7. /\ \A q \in Plans \ {n} : plan'[q] = rows[q]
      /\ IF contract = "closed" \/ plan[p].last THEN plan'[n] = rows[n]
         ELSE \E last \in BOOLEAN : plan'[n] = Scheduled(last)
  BY <1>1, <1>4, <1>6, WhatFollows
<1>8. p # n
  BY <1>1
<1>9. IF contract = "closed" \/ plan[p].last THEN plan'[n] = plan[n]
      ELSE plan'[n].status = "pending" /\ plan'[n].recurs
  BY <1>1, <1>5, <1>7, <1>8, ScheduledIs
<1>10. /\ plan'[p].status = "executed" /\ plan'[p].recurs = plan[p].recurs /\ plan'[p].last = plan[p].last
       /\ \A q \in Plans \ {p, n} : plan'[q] = plan[q]
  BY <1>1, <1>5, <1>7, <1>8
<1> QED
  BY <1>1, <1>2, <1>6, <1>8, <1>9, <1>10 DEF p, e, n

LEMMA NextChain ==
  ASSUME OnOneAccount, PlansInv, ChainInv, [Next]_vars
  PROVE  FormsSound' /\ PaidSound' /\ ChainSound'
<1> USE PlansAssumption
<1>1. ASSUME NEW s \in Sessions, FormCommit(s)
      PROVE  FormsSound' /\ PaidSound' /\ ChainSound'
  <2> DEFINE p == session[s].plan
             e == session[s].entry
             n == session[s].next
  <2>1. /\ p \in Plans /\ n \in Plans /\ e \in Entries /\ p # n
        /\ entry[e] = None /\ entry' = [entry EXCEPT ![e] = p]
        /\ plan[n].status = "free" /\ plan[n].recurs
        /\ plan'[p].status = "executed" /\ plan'[p].recurs = plan[p].recurs
        /\ plan'[p].last = plan[p].last
        /\ contract' = contract
        /\ IF contract = "closed" \/ plan[p].last THEN plan'[n] = plan[n]
           ELSE plan'[n].status = "pending" /\ plan'[n].recurs
        /\ \A q \in Plans \ {p, n} : plan'[q] = plan[q]
    BY <1>1, CommitRows
  <2>2. InForm(s) /\ session[s].pc = "closed"
    BY <1>1 DEF FormCommit, InForm
  <2>3. /\ plan[p].status # "executed"
        /\ \A q \in Plans : plan[q].status = "pending" => q = p
        /\ ~TermOver
    BY <2>2 DEF ChainInv, FormsSound
  <2>4. FormsSound'
    <3>1. ASSUME NEW t \in Sessions PROVE session'[t].pc \notin {"found", "closed"}
      <4>1. CASE t = s
        BY <1>1, <4>1 DEF FormCommit, Ended, Idle, At, PlansInv, TypeOK
      <4>2. CASE t # s
        <5>1. session'[t] = session[t]
          BY <1>1, <4>2 DEF FormCommit, Ended, PlansInv, TypeOK
        <5>2. ~InForm(t)
          BY <2>2, <4>2, FormAlone
        <5> QED
          BY <5>1, <5>2 DEF InForm
      <4> QED
        BY <4>1, <4>2
    <3> QED
      BY <3>1 DEF FormsSound
  <2>5. PaidSound'
    <3>1. \A f \in Entries : entry[f] # p
      BY <2>1, <2>3 DEF ChainInv, PaidSound
    <3>2. \A f \in Entries : entry[f] # None => plan[entry[f]].status = "executed" /\ entry[f] \in Plans
      BY DEF ChainInv, PaidSound, PlansInv, TypeOK
    <3>3. \A f \in Entries \ {e} : entry'[f] = entry[f]
      BY <2>1 DEF PlansInv, TypeOK
    <3>4. entry'[e] = p
      BY <2>1 DEF PlansInv, TypeOK
    <3>5. ASSUME NEW f \in Entries, entry'[f] # None
          PROVE  plan'[entry'[f]].status = "executed"
      <4>1. CASE f = e
        BY <2>1, <3>4, <4>1
      <4>2. CASE f # e
        BY <2>1, <3>1, <3>2, <3>3, <3>5, <4>2
      <4> QED
        BY <4>1, <4>2
    <3>6. ASSUME NEW f \in Entries, NEW g \in Entries, entry'[f] # None, entry'[f] = entry'[g]
          PROVE  f = g
      BY <3>1, <3>3, <3>4, <3>6 DEF ChainInv, PaidSound
    <3> QED
      BY <3>5, <3>6 DEF PaidSound
  <2>6. ChainSound'
    <3>1. ASSUME NEW q \in Plans, plan'[q].status = "pending" PROVE q = n
      BY <2>1, <2>3, <3>1
    <3>2. contract' # "closed" /\ ~plan[p].last => plan'[n].status = "pending"
      BY <2>1
    <3>3. ASSUME NEW q \in Plans, plan'[q].status = "executed", plan'[q].last PROVE q = p
      BY <2>1, <2>3, <3>3 DEF TermOver
    <3>4. plan[p].last => TermOver' /\ plan'[n].status # "pending"
      BY <2>1 DEF TermOver
    <3>5. TermOver' => plan[p].last
      BY <2>1, <3>3 DEF TermOver
    <3> QED
      BY <2>1, <3>1, <3>2, <3>4, <3>5 DEF ChainSound
  <2> QED
    BY <2>4, <2>5, <2>6
<1>2. ASSUME Cancelling, entry' = entry
      PROVE  PaidSound' /\ ChainSound'
  <2>1. \A p \in Plans : plan[p].status = "executed" => plan'[p].status = "executed"
    BY <1>2 DEF Cancelling
  <2>2. \A p \in Plans : plan'[p].status = "pending" => plan[p].status = "pending"
    BY <1>2 DEF Cancelling
  <2>3. PaidSound'
    <3>1. \A e \in Entries : entry[e] # None => entry[e] \in Plans
      BY DEF PlansInv, TypeOK
    <3> QED
      BY <1>2, <2>1, <3>1 DEF ChainInv, PaidSound
  <2>4. contract' # "closed" => contract # "closed"
    BY DEF Next, Begin, Continue, FormPost, SkipFind, StopPlan, BeginClose, ExecuteRead, FormFind, FormClose,
           FormCommit, CancelPending, CommitClose, SkipClose, SkipSchedule, ExecutePost, ExecuteMark,
           ExecuteSchedule, Rollback, vars, ChainInv, Serialised
  <2>5. (\A p \in Plans : plan'[p].recurs) => \A p \in Plans : plan'[p] = plan[p]
    BY <1>2 DEF Cancelling
  <2>6. TermOver' = TermOver
    BY <1>2 DEF Cancelling, TermOver
  <2>7. ChainSound'
    BY <2>2, <2>4, <2>5, <2>6 DEF ChainInv, ChainSound
  <2> QED
    BY <2>3, <2>7
<1>3. ASSUME Cancelling, entry' = entry
      PROVE  FormsSound'
  <2>1. ASSUME NEW t \in Sessions, session'[t].pc \in {"found", "closed"}
        PROVE  /\ session'[t].plan = session[t].plan
               /\ session[t].plan \in Plans
               /\ plan[session[t].plan].status # "executed"
               /\ \A p \in Plans : plan[p].status = "pending" => p = session[t].plan
               /\ ~TermOver
    <3>1. CASE session'[t] = session[t]
      BY <2>1, <3>1 DEF ChainInv, FormsSound, PlansInv, SessionsSound, SessionSound
    <3>2. CASE FormFind(t)
      <4>1. /\ session[t].pc = "posted" /\ session[t].plan \in Plans
            /\ session'[t].pc # "idle"
        BY <2>1, <3>2 DEF FormFind, PlansInv, SessionsSound, SessionSound
      <4>2. /\ plan[session[t].plan].status = "pending"
            /\ session' = [session EXCEPT ![t].pc = "found"]
        BY <3>2, <4>1 DEF FormFind, Ended, Idle, At, PlansInv, TypeOK
      <4> QED
        BY <4>1, <4>2 DEF ChainInv, ChainSound, PlansInv, TypeOK, SessionStates
    <3>3. CASE FormClose(t)
      BY <3>3 DEF FormClose, ChainInv, FormsSound, PlansInv, TypeOK, SessionStates, SessionsSound, SessionSound
    <3>4. ASSUME NEW s \in Sessions, Begin(s) \/ Continue(s) \/ Rollback(s)
          PROVE  session'[t] = session[t] \/ FormFind(t) \/ FormClose(t)
      <4>1. s # t => session'[t] = session[t]
        BY <3>4, StepMovesSession DEF SessionMoves
      <4>2. CASE s = t
        <5>1. CASE CancelPending(s)
          BY <2>1, <4>2, <5>1, CancelPendingIs DEF PlansInv
        <5>2. CASE Begin(s) \/ Rollback(s)
          BY <2>1, <4>2, <5>2
          DEF Begin, FormPost, SkipFind, StopPlan, BeginClose, ExecuteRead, Rollback, Ended,
              Idle, At, PlansInv, TypeOK, SessionStates
        <5>3. CASE \/ FormCommit(s) \/ CommitClose(s) \/ SkipClose(s) \/ SkipSchedule(s)
                   \/ ExecutePost(s) \/ ExecuteMark(s) \/ ExecuteSchedule(s)
          BY <2>1, <4>2, <5>3
          DEF FormCommit, CommitClose, SkipClose, SkipSchedule, ExecutePost, ExecuteMark, ExecuteSchedule, Ended,
              Idle, At, PlansInv, TypeOK, SessionStates
        <5>4. QED
          BY <3>4, <4>2, <5>1, <5>2, <5>3 DEF Continue
      <4> QED
        BY <4>1, <4>2
    <3> QED
      BY <3>1, <3>2, <3>3, <3>4 DEF Next, vars
  <2>2. TermOver' = TermOver
    BY <1>3 DEF Cancelling, TermOver
  <2> QED
    BY <1>3, <2>1, <2>2 DEF FormsSound, Cancelling
<1> QED
  BY <1>1, <1>2, <1>3, ChainRows

LEMMA AlwaysChain == OnOneAccount => (Spec => [](PlansInv /\ ChainInv))
<1> SUFFICES ASSUME OnOneAccount PROVE Spec => [](PlansInv /\ ChainInv)
  OBVIOUS
<1>1. Init => PlansInv /\ ChainInv
  BY InitInv, InitChain
<1>2. (PlansInv /\ ChainInv) /\ [Next]_vars => (PlansInv /\ ChainInv)'
  BY NextInv, NextSerialised, NextChain DEF ChainInv
<1> QED
  BY <1>1, <1>2, PTL DEF Spec

\* Recorded by the form on one account, an occurrence is paid once, although no
\* statement of the form locks it before it is judged.
THEOREM FormPaysOnce == OnOneAccount => (Spec => []PaidOnce)
<1> SUFFICES ASSUME OnOneAccount PROVE Spec => []PaidOnce
  OBVIOUS
<1>1. ChainInv => PaidOnce
  <2> SUFFICES ASSUME ChainInv, NEW p \in Plans PROVE Cardinality(EntriesOf(p)) <= 1
    BY DEF PaidOnce
  <2>1. CASE EntriesOf(p) = {}
    BY <2>1, FS_EmptySet
  <2>2. CASE EntriesOf(p) # {}
    <3>1. PICK e \in EntriesOf(p) : TRUE
      BY <2>2
    <3>2. EntriesOf(p) = {e}
      BY <3>1, PlansAssumption DEF EntriesOf, ChainInv, PaidSound
    <3>3. Cardinality({e}) = 1
      BY FS_Singleton
    <3> QED
      BY <3>2, <3>3
  <2> QED
    BY <2>1, <2>2
<1> QED
  BY <1>1, AlwaysChain, PTL

\* One reminder is pending until the payment is stopped, its deposit or policy
\* closed or its term over; never two, and none after the last.
THEOREM FormKeepsOneReminder == OnOneAccount => (Spec => []OneReminder)
<1> SUFFICES ASSUME OnOneAccount PROVE Spec => []OneReminder
  OBVIOUS
<1>1. ChainInv => OneReminder
  <2> SUFFICES ASSUME ChainInv PROVE OneReminder
    OBVIOUS
  <2>1. CASE Pending = {}
    <3>1. ~ \E p \in Plans : plan[p].status = "pending"
      BY <2>1 DEF Pending
    <3>2. ~ (contract # "closed" /\ (\A p \in Plans : plan[p].recurs) /\ ~TermOver)
      BY <3>1 DEF ChainInv, ChainSound
    <3>3. Cardinality(Pending) = 0
      BY <2>1, FS_EmptySet
    <3> QED
      BY <2>1, <3>2, <3>3 DEF OneReminder
  <2>2. CASE Pending # {}
    <3>1. PICK p \in Pending : TRUE
      BY <2>2
    <3>2. Pending = {p}
      BY <3>1 DEF Pending, ChainInv, ChainSound
    <3>3. Cardinality(Pending) = 1
      <4>1. Cardinality({p}) = 1
        BY FS_Singleton
      <4> QED
        BY <3>2, <4>1
    <3>4. ~TermOver
      BY <3>1 DEF Pending, ChainInv, ChainSound
    <3> QED
      BY <3>3, <3>4 DEF OneReminder
  <2> QED
    BY <2>1, <2>2
<1> QED
  BY <1>1, AlwaysChain, PTL
=============================================================================
