------------------------- MODULE InstallmentsProofs -------------------------
(***************************************************************************)
(* When a debt is settled, that its payments implement DebtBook, and that  *)
(* a running total is what the posted entries add up to, for every number  *)
(* of installments and sessions, in a deployment that pays installments    *)
(* otherwise than by the form (the form computes the running total from a  *)
(* row it has not locked).  In every deployment, the types hold and what   *)
(* was paid names its entry.                                               *)
(*                                                                         *)
(* A payment counts the outstanding installments before it commits: the    *)
(* count is right because the counter account's lock keeps others from     *)
(* committing theirs, and the row's lock keeps the total it has computed.  *)
(***************************************************************************)
EXTENDS Installments, FiniteSetTheorems, TLAPS

Paying(s) == session[s].pc \in {"begun", "posting", "updated"}

\* What a session in the middle of a payment holds, and what it has computed.
SessionSound(s) ==
    /\ Paying(s) =>
          /\ session[s].inst \in Installments /\ session[s].new \in Entries
          /\ session[s].way \in Ways \cap {"quick", "form", "repair"}
    /\ Paying(s) /\ session[s].way # "form" => instLock[session[s].inst] = s
    /\ Paying(s) /\ session[s].way = "quick" =>
          /\ session[s].amount > 0
          /\ session[s].total = inst[session[s].inst].paid + session[s].amount
    /\ session[s].pc \in {"posting", "updated"} => contraLock = s
    /\ session[s].pc = "updated" =>
          session[s].way # "repair" /\ session[s].last = AllPaid(WithPayment(s))

SessionsSound == \A s \in Sessions : SessionSound(s)

DebtInv == TypeOK /\ SessionsSound /\ SettledWhenPaid

-----------------------------------------------------------------------------
LEMMA InitInv == Installments # {} /\ Init => DebtInv
  BY InstallmentsAssumption
  DEF Init, DebtInv, TypeOK, SessionsSound, SessionSound, SettledWhenPaid, Paid, Paying, At, Idle, NoEntry,
      InstRows, DebtRows, EntryRows, SessionStates

\* Rows posted and voided by a payment are rows.
LEMMA BookedRows ==
  ASSUME TypeOK, NEW s \in Sessions
  PROVE  Booked(s) \in [Entries -> EntryRows]
<1>1. ASSUME NEW e \in Entries PROVE [entry[e] EXCEPT !.status = "void"] \in EntryRows
  BY DEF TypeOK, EntryRows
<1>2. [status |-> "posted", inst |-> session[s].inst, amount |-> session[s].amount,
       bank |-> session[s].bank] \in EntryRows
  BY DEF TypeOK, EntryRows, SessionStates
<1>3. \A e \in Entries : entry[e] \in EntryRows
  BY DEF TypeOK
<1> QED
  BY <1>1, <1>2, <1>3 DEF Booked

\* A session that ends leaves locks and sessions well typed.
LEMMA EndedType ==
  ASSUME TypeOK, NEW s \in Sessions, Ended(s)
  PROVE  /\ instLock' \in [Installments -> Sessions \cup {None}]
         /\ contraLock' \in Sessions \cup {None}
         /\ session' \in [Sessions -> SessionStates]
  BY InstallmentsAssumption DEF Ended, TypeOK, SessionStates, At, Idle

LEMMA UpdatedType ==
  ASSUME NEW r \in SessionStates, NEW last \in BOOLEAN
  PROVE  [r EXCEPT !.pc = "updated", !.last = last] \in SessionStates
  BY Zenon DEF SessionStates

LEMMA NextType == TypeOK /\ [Next]_vars => TypeOK'
<1> SUFFICES ASSUME TypeOK, [Next]_vars PROVE TypeOK'
  OBVIOUS
<1> USE InstallmentsAssumption
<1>1. ASSUME NEW s \in Sessions, NEW i \in Installments, NEW amount \in 1 .. Amount, NEW bank \in BOOLEAN,
             BeginQuickPay(s, i, amount, bank) \/ BeginForm(s, i, amount, bank)
      PROVE  TypeOK'
  <2>1. inst[i].paid \in 0 .. Amount /\ inst[i].paid + amount \in 0 .. Amount /\ amount \in 0 .. Amount
    BY <1>1 DEF BeginQuickPay, BeginForm, Payable, Due, TypeOK, InstRows
  <2>2. PICK way \in {"quick", "form"}, e \in Entries :
            session' = [session EXCEPT ![s] =
                           At("begun", way, i, e, amount, bank, inst[i].paid + amount, None)]
    BY <1>1 DEF BeginQuickPay, BeginForm, FreshEntries
  <2>3. session' \in [Sessions -> SessionStates]
    BY <2>1, <2>2 DEF TypeOK, SessionStates, At, AllWays
  <2> QED
    BY <1>1, <2>3 DEF BeginQuickPay, BeginForm, TypeOK
<1>2. ASSUME NEW s \in Sessions, NEW i \in Installments, BeginRepair(s, i)
      PROVE  TypeOK'
  <2>1. inst[i].last \in Entries /\ entry[inst[i].last].amount \in 0 .. Amount /\ inst[i].paid \in 0 .. Amount
    BY <1>2 DEF BeginRepair, TypeOK, InstRows, EntryRows
  <2>2. PICK e \in Entries, r \in Entries \cup {None} :
            session' = [session EXCEPT ![s] =
                           At("begun", "repair", i, e, entry[inst[i].last].amount, TRUE, inst[i].paid, r)]
    BY <1>2, <2>1 DEF BeginRepair, FreshEntries
  <2>3. session' \in [Sessions -> SessionStates]
    BY <2>1, <2>2 DEF TypeOK, SessionStates, At, AllWays
  <2> QED
    BY <1>2, <2>3 DEF BeginRepair, TypeOK
<1>3. ASSUME NEW s \in Sessions, NEW e \in Entries, Reverse(s, e)
      PROVE  TypeOK'
  BY <1>3 DEF Reverse, TypeOK, EntryRows
<1>4. ASSUME NEW s \in Sessions, NEW way \in Ways \cap {"cancel", "delete"}, JudgeDebt(s, way)
      PROVE  TypeOK'
  BY <1>4 DEF JudgeDebt, TypeOK, SessionStates, At, AllWays
<1>5. ASSUME NEW s \in Sessions, LockContra(s)
      PROVE  TypeOK'
  BY <1>5 DEF LockContra, TypeOK, SessionStates
<1>6. ASSUME NEW s \in Sessions, UpdateInstallment(s)
      PROVE  TypeOK'
  <2>1. PICK last \in BOOLEAN : session' = [session EXCEPT ![s] = [@ EXCEPT !.pc = "updated", !.last = last]]
    <3>1. AllPaid(WithPayment(s)) \in BOOLEAN
      BY DEF AllPaid
    <3> QED
      BY <1>6, <3>1 DEF UpdateInstallment
  <2>2. session[s] \in SessionStates
    BY DEF TypeOK
  <2> DEFINE updated == [session[s] EXCEPT !.pc = "updated", !.last = last]
  <2>3. updated \in SessionStates
    BY <2>2, UpdatedType, Zenon
  <2>4. session' = [session EXCEPT ![s] = updated]
    BY <2>1
  <2> HIDE DEF updated
  <2>5. session' \in [Sessions -> SessionStates]
    BY <2>3, <2>4 DEF TypeOK
  <2> QED
    BY <1>6, <2>5 DEF UpdateInstallment, TypeOK
<1>7. ASSUME NEW s \in Sessions, CommitPayment(s)
      PROVE  TypeOK'
  <2>1. inst' \in [Installments -> InstRows]
    BY <1>7 DEF CommitPayment, WithPayment, TypeOK, InstRows, SessionStates
  <2>2. debt' \in DebtRows
    BY <1>7 DEF CommitPayment, TypeOK, DebtRows
  <2>3. entry' \in [Entries -> EntryRows] /\ Ended(s)
    BY <1>7, BookedRows DEF CommitPayment
  <2> QED
    BY <2>1, <2>2, <2>3, EndedType DEF TypeOK
<1>8. ASSUME NEW s \in Sessions, Abort(s)
      PROVE  TypeOK'
  BY <1>8, EndedType DEF Abort, TypeOK
<1>9. ASSUME NEW s \in Sessions, CommitRepair(s), ~Abort(s)
      PROVE  TypeOK'
  <2>1. inst' \in [Installments -> InstRows]
    BY <1>9 DEF CommitRepair, TypeOK, InstRows, SessionStates
  <2>2. entry' \in [Entries -> EntryRows] /\ Ended(s) /\ debt' = debt
    BY <1>9, BookedRows DEF CommitRepair
  <2> QED
    BY <2>1, <2>2, EndedType DEF TypeOK
<1>10. ASSUME NEW s \in Sessions, WriteDebt(s)
       PROVE  TypeOK'
  <2>1. debt' \in DebtRows
    BY <1>10 DEF WriteDebt, TypeOK, DebtRows
  <2>2. session' \in [Sessions -> SessionStates]
    BY <1>10 DEF WriteDebt, TypeOK, SessionStates, At, Idle
  <2> QED
    BY <1>10, <2>1, <2>2 DEF WriteDebt, TypeOK
<1>11. ASSUME NEW s \in Sessions, Rollback(s)
       PROVE  TypeOK'
  BY <1>8, <1>11 DEF Rollback
<1>12. ASSUME NEW s \in Sessions, BreakDeadlock(s)
       PROVE  TypeOK'
  BY <1>8, <1>12 DEF BreakDeadlock
<1>13. CASE UNCHANGED vars
  BY <1>13 DEF vars, TypeOK
<1> QED
  BY <1>1, <1>2, <1>3, <1>4, <1>5, <1>6, <1>7, <1>8, <1>9, <1>10, <1>11, <1>12, <1>13 DEF Next, Begin, Continue

\* A session is not disturbed by a step that leaves its row and, if it holds the
\* counter account, every running total as they are.
LEMMA OthersSound ==
  ASSUME "form" \notin Ways, DebtInv, NEW s \in Sessions, NEW t \in Sessions \ {s},
         session'[t] = session[t],
         \A i \in Installments : instLock[i] = t => instLock'[i] = t /\ inst'[i].paid = inst[i].paid,
         contraLock = t => contraLock' = t /\ \A i \in Installments : inst'[i].paid = inst[i].paid,
         inst' \in [Installments -> InstRows]
  PROVE  SessionSound(t)'
<1> USE InstallmentsAssumption DEF DebtInv
<1>1. SessionSound(t)
  BY DEF SessionsSound
<1>2. Paying(t) => session[t].inst \in Installments /\ session[t].way # "form"
  BY <1>1 DEF SessionSound
<1>3. ASSUME Paying(t)
      PROVE  /\ instLock'[session[t].inst] = t
             /\ inst'[session[t].inst].paid = inst[session[t].inst].paid
  BY <1>1, <1>2, <1>3 DEF SessionSound
<1>4. ASSUME session[t].pc = "updated"
      PROVE  AllPaid(WithPayment(t))' = AllPaid(WithPayment(t))
  <2>1. \A i \in Installments : inst'[i].paid = inst[i].paid
    BY <1>1, <1>4 DEF SessionSound
  <2>2. session[t].inst \in Installments /\ session[t].total \in 0 .. Amount
    BY <1>2, <1>4 DEF Paying, TypeOK, SessionStates
  <2>3. \A i \in Installments :
            WithPayment(t)[i].paid = IF i = session[t].inst THEN session[t].total ELSE inst[i].paid
    BY <2>2 DEF WithPayment, TypeOK
  <2>4. \A i \in Installments :
            WithPayment(t)'[i].paid = IF i = session[t].inst THEN session[t].total ELSE inst[i].paid
    BY <2>1, <2>2 DEF WithPayment
  <2> QED
    BY <2>3, <2>4 DEF AllPaid
<1> QED
  BY <1>1, <1>2, <1>3, <1>4 DEF SessionSound, Paying

\* Each action, for its own session; the others by OthersSound.
LEMMA NextSessions ==
  ASSUME "form" \notin Ways, DebtInv, [Next]_vars
  PROVE  SessionsSound'
<1> USE InstallmentsAssumption DEF DebtInv
<1>0. TypeOK'
  BY NextType
<1>1. ASSUME NEW s \in Sessions, NEW i \in Installments, NEW amount \in 1 .. Amount, NEW bank \in BOOLEAN,
             "quick" \in Ways, BeginQuickPay(s, i, amount, bank)
      PROVE  SessionsSound'
  <2>1. PICK e \in Entries :
            session' = [session EXCEPT ![s] =
                           At("begun", "quick", i, e, amount, bank, inst[i].paid + amount, None)]
    BY <1>1 DEF BeginQuickPay, FreshEntries
  <2>2. /\ instLock[i] = None /\ instLock' = [instLock EXCEPT ![i] = s]
        /\ UNCHANGED <<inst, contraLock>>
    BY <1>1 DEF BeginQuickPay
  <2>3. SessionSound(s)'
    BY <1>1, <2>1, <2>2 DEF SessionSound, Paying, At, TypeOK
  <2>4. ASSUME NEW t \in Sessions \ {s} PROVE SessionSound(t)'
    BY <1>0, <2>1, <2>2, OthersSound DEF TypeOK
  <2> QED
    BY <2>3, <2>4 DEF SessionsSound
<1>2. ASSUME NEW s \in Sessions, NEW i \in Installments, "repair" \in Ways, BeginRepair(s, i)
      PROVE  SessionsSound'
  <2>1. PICK e \in Entries, r \in Entries \cup {None} :
            session' = [session EXCEPT ![s] =
                           At("begun", "repair", i, e, entry[inst[i].last].amount, TRUE, inst[i].paid, r)]
    BY <1>2 DEF BeginRepair, FreshEntries, TypeOK, InstRows
  <2>2. /\ instLock[i] = None /\ instLock' = [instLock EXCEPT ![i] = s]
        /\ UNCHANGED <<inst, contraLock>>
    BY <1>2 DEF BeginRepair
  <2>3. SessionSound(s)'
    BY <1>2, <2>1, <2>2 DEF SessionSound, Paying, At, TypeOK
  <2>4. ASSUME NEW t \in Sessions \ {s} PROVE SessionSound(t)'
    BY <1>0, <2>1, <2>2, OthersSound DEF TypeOK
  <2> QED
    BY <2>3, <2>4 DEF SessionsSound
<1>3. ASSUME NEW s \in Sessions, NEW way \in Ways \cap {"cancel", "delete"}, JudgeDebt(s, way)
      PROVE  SessionsSound'
  <2>1. session'[s].pc = "judged"
    BY <1>3 DEF JudgeDebt, At, TypeOK
  <2>2. ASSUME NEW t \in Sessions \ {s} PROVE SessionSound(t)'
    BY <1>0, <1>3, OthersSound DEF JudgeDebt, TypeOK
  <2> QED
    BY <2>1, <2>2 DEF SessionsSound, SessionSound, Paying
<1>4. ASSUME NEW s \in Sessions, LockContra(s)
      PROVE  SessionsSound'
  <2>1. SessionSound(s)'
    BY <1>4 DEF LockContra, SessionsSound, SessionSound, Paying, TypeOK, SessionStates
  <2>2. ASSUME NEW t \in Sessions \ {s} PROVE SessionSound(t)'
    BY <1>0, <1>4, OthersSound DEF LockContra, TypeOK
  <2> QED
    BY <2>1, <2>2 DEF SessionsSound
<1>5. ASSUME NEW s \in Sessions, UpdateInstallment(s)
      PROVE  SessionsSound'
  <2> DEFINE i == session[s].inst
  <2>1. /\ i \in Installments /\ instLock[i] \in {None, s}
        /\ instLock' = [instLock EXCEPT ![i] = s]
        /\ UNCHANGED <<inst, contraLock>>
    BY <1>5 DEF UpdateInstallment, SessionsSound, SessionSound, Paying
  <2>2. /\ session'[s].pc = "updated" /\ session'[s].last = AllPaid(WithPayment(s))
        /\ session'[s].inst = session[s].inst /\ session'[s].new = session[s].new
        /\ session'[s].way = session[s].way /\ session'[s].amount = session[s].amount
        /\ session'[s].total = session[s].total
        /\ \A t \in Sessions \ {s} : session'[t] = session[t]
    BY <1>5 DEF UpdateInstallment, TypeOK, SessionStates
  <2>3. WithPayment(s)' = WithPayment(s)
    BY <2>1, <2>2 DEF WithPayment
  <2>4. SessionSound(s)'
    <3>1. SessionSound(s) /\ session[s].pc = "posting" /\ session[s].way # "repair"
      BY <1>5 DEF UpdateInstallment, SessionsSound
    <3>2. instLock'[session'[s].inst] = s
      BY <2>1, <2>2 DEF TypeOK
    <3>3. AllPaid(WithPayment(s))' = AllPaid(WithPayment(s))
      BY <2>3 DEF AllPaid
    <3> QED
      BY <2>1, <2>2, <3>1, <3>2, <3>3 DEF SessionSound, Paying
  <2>5. ASSUME NEW t \in Sessions \ {s} PROVE SessionSound(t)'
    BY <1>0, <2>1, <2>2, OthersSound DEF TypeOK
  <2> QED
    BY <2>4, <2>5 DEF SessionsSound
<1>6. ASSUME NEW s \in Sessions, Ended(s),
             \A t \in Sessions \ {s} :
                /\ \A i \in Installments : instLock[i] = t => inst'[i].paid = inst[i].paid
                /\ contraLock = t => \A i \in Installments : inst'[i].paid = inst[i].paid
      PROVE  SessionsSound'
  <2>1. SessionSound(s)'
    BY <1>6 DEF Ended, Idle, At, SessionSound, Paying, TypeOK
  <2>2. ASSUME NEW t \in Sessions \ {s} PROVE SessionSound(t)'
    <3>1. /\ session'[t] = session[t]
          /\ contraLock = t => contraLock' = t
          /\ \A i \in Installments : instLock[i] = t => instLock'[i] = t
      BY <1>6 DEF Ended, TypeOK
    <3> QED
      BY <1>0, <1>6, <3>1, OthersSound DEF TypeOK
  <2> QED
    BY <2>1, <2>2 DEF SessionsSound
<1>7. ASSUME NEW s \in Sessions, Abort(s)
      PROVE  SessionsSound'
  BY <1>6, <1>7 DEF Abort
<1>8. ASSUME NEW s \in Sessions, CommitPayment(s)
      PROVE  SessionsSound'
  <2>1. /\ session[s].inst \in Installments /\ instLock[session[s].inst] = s /\ contraLock = s
        /\ inst' = WithPayment(s) /\ Ended(s)
    BY <1>8 DEF CommitPayment, SessionsSound, SessionSound, Paying
  <2>2. \A i \in Installments \ {session[s].inst} : inst'[i].paid = inst[i].paid
    BY <2>1 DEF WithPayment, TypeOK
  <2> QED
    BY <1>6, <2>1, <2>2
<1>9. ASSUME NEW s \in Sessions, CommitRepair(s), ~Abort(s)
      PROVE  SessionsSound'
  <2>1. Ended(s) /\ inst' = [inst EXCEPT ![session[s].inst].last = session[s].new]
    BY <1>9 DEF CommitRepair
  <2>2. \A i \in Installments : inst'[i].paid = inst[i].paid
    BY <2>1 DEF TypeOK, InstRows
  <2> QED
    BY <1>6, <2>1, <2>2
<1>10. ASSUME NEW s \in Sessions, WriteDebt(s)
       PROVE  SessionsSound'
  <2>1. session'[s].pc = "idle"
    BY <1>10 DEF WriteDebt, At, Idle, TypeOK
  <2>2. ASSUME NEW t \in Sessions \ {s} PROVE SessionSound(t)'
    BY <1>0, <1>10, OthersSound DEF WriteDebt, TypeOK
  <2> QED
    BY <2>1, <2>2 DEF SessionsSound, SessionSound, Paying
<1>11. CASE UNCHANGED <<session, inst, instLock, contraLock>>
  <2>1. ASSUME NEW t \in Sessions
        PROVE  Paying(t)' = Paying(t) /\ AllPaid(WithPayment(t))' = AllPaid(WithPayment(t))
    BY <1>11 DEF Paying, WithPayment, AllPaid
  <2>2. ASSUME NEW t \in Sessions PROVE SessionSound(t)'
    BY <1>11, <2>1 DEF SessionsSound, SessionSound
  <2> QED
    BY <2>2 DEF SessionsSound
<1> QED
  BY <1>1, <1>2, <1>3, <1>4, <1>5, <1>7, <1>8, <1>9, <1>10, <1>11
  DEF Next, Begin, Continue, Reverse, Rollback, BreakDeadlock, vars

LEMMA NextSettled ==
  ASSUME "form" \notin Ways, DebtInv, [Next]_vars
  PROVE  SettledWhenPaid'
<1> USE InstallmentsAssumption DEF DebtInv
<1>1. ASSUME NEW s \in Sessions, CommitPayment(s)
      PROVE  SettledWhenPaid'
  <2> DEFINE i == session[s].inst
  <2>1. /\ i \in Installments /\ session[s].way = "quick"
        /\ session[s].amount > 0 /\ session[s].total = inst[i].paid + session[s].amount
        /\ session[s].last = AllPaid(WithPayment(s))
    BY <1>1 DEF CommitPayment, SessionsSound, SessionSound, Paying
  <2>2. ~Paid(i)
    BY <2>1 DEF Paid, TypeOK, InstRows, SessionStates
  <2>3. debt.status # "settled"
    BY <2>1, <2>2 DEF SettledWhenPaid
  <2>4. (\A j \in Installments : Paid(j)') <=> session[s].last
    BY <1>1, <2>1 DEF CommitPayment, AllPaid, Paid
  <2>5. debt' = IF session[s].last THEN [debt EXCEPT !.status = "settled"] ELSE debt
    BY <1>1 DEF CommitPayment
  <2>6. (debt'.status = "settled") <=> session[s].last
    BY <2>3, <2>5 DEF TypeOK, DebtRows
  <2> QED
    BY <2>4, <2>6 DEF SettledWhenPaid
<1>2. ASSUME NEW s \in Sessions, CommitRepair(s)
      PROVE  SettledWhenPaid'
  <2>1. debt' = debt /\ \A i \in Installments : inst'[i].paid = inst[i].paid
    BY <1>2 DEF CommitRepair, Abort, TypeOK, InstRows
  <2> QED
    BY <2>1 DEF SettledWhenPaid, Paid
<1>3. ASSUME NEW s \in Sessions, WriteDebt(s)
      PROVE  SettledWhenPaid'
  BY <1>3 DEF WriteDebt, SettledWhenPaid, Paid, TypeOK, DebtRows
<1>4. CASE UNCHANGED <<inst, debt>>
  BY <1>4 DEF SettledWhenPaid, Paid
<1>5. ASSUME NEW s \in Sessions,
             Begin(s) \/ LockContra(s) \/ UpdateInstallment(s) \/ BreakDeadlock(s) \/ Rollback(s)
      PROVE  UNCHANGED <<inst, debt>>
  <2>1. CASE Begin(s)
    BY <2>1 DEF Begin, BeginQuickPay, BeginForm, BeginRepair, Reverse, JudgeDebt
  <2>2. CASE LockContra(s) \/ UpdateInstallment(s)
    BY <2>2 DEF LockContra, UpdateInstallment
  <2>3. CASE BreakDeadlock(s) \/ Rollback(s)
    BY <2>3 DEF BreakDeadlock, Rollback, Abort
  <2> QED
    BY <1>5, <2>1, <2>2, <2>3
<1>6. CASE UNCHANGED vars
  BY <1>4, <1>6 DEF vars
<1> QED
  BY <1>1, <1>2, <1>3, <1>4, <1>5, <1>6 DEF Next, Continue

-----------------------------------------------------------------------------
\* Every variable keeps its type, in every deployment: no running total exceeds
\* the contractual amount.
THEOREM InstallmentsTypeCorrect == Spec => []TypeOK
<1>1. Init => TypeOK
  BY InstallmentsAssumption
  DEF Init, TypeOK, At, Idle, NoEntry, InstRows, DebtRows, EntryRows, SessionStates
<1> QED
  BY <1>1, NextType, PTL DEF Spec

\* Paid in two tabs, repaired, reversed, cancelled: the debt is settled by the
\* payment after which nothing is outstanding, and by no other.
THEOREM SettledByTheLastPayment ==
  ASSUME "form" \notin Ways, Installments # {}
  PROVE  Spec => []SettledWhenPaid
<1>1. Init => DebtInv
  BY InitInv
<1>2. DebtInv /\ [Next]_vars => DebtInv'
  BY NextType, NextSessions, NextSettled DEF DebtInv
<1>3. DebtInv => SettledWhenPaid
  BY DEF DebtInv
<1> QED
  BY <1>1, <1>2, <1>3, PTL DEF Spec

-----------------------------------------------------------------------------
(* That payments implement DebtBook rests on the ids requests have taken, and on *)
(* what a repair remembers of the payment it replaces.                           *)

\* The entry a session will post is free; only a repair replaces one: the last of
\* its installment, void already if there is none to reverse.
IdsSound(s) ==
    Paying(s) =>
        /\ entry[session[s].new].status = "free"
        /\ session[s].way # "repair" => session[s].replaces = None
        /\ session[s].way = "repair" =>
              LET old == inst[session[s].inst].last
              IN  /\ old # None
                  /\ session[s].amount = entry[old].amount
                  /\ session[s].replaces \in {None, old}
                  /\ session[s].replaces = None => entry[old].status = "void"

OwnIds == \A s, t \in Sessions : s # t /\ Paying(s) /\ Paying(t) => session[s].new # session[t].new

LastSound ==
    \A i \in Installments : inst[i].last # None =>
        entry[inst[i].last].status # "free" /\ entry[inst[i].last].inst = i

BookInv == (\A s \in Sessions : IdsSound(s)) /\ OwnIds /\ LastSound

LEMMA InitBook == Init => BookInv
  BY InstallmentsAssumption DEF Init, BookInv, IdsSound, OwnIds, LastSound, Paying, At, Idle

\* What an entry is to the book stays, but that a posted one may become void.
Kept(e) ==
    /\ entry'[e].inst = entry[e].inst /\ entry'[e].amount = entry[e].amount
    /\ \/ entry'[e].status = entry[e].status
       \/ entry[e].status = "posted" /\ entry'[e].status = "void"

SameIds(s) ==
    /\ Paying(s) /\ session'[s].new = session[s].new /\ session'[s].way = session[s].way
    /\ session'[s].inst = session[s].inst /\ session'[s].amount = session[s].amount
    /\ session'[s].replaces = session[s].replaces

\* The second statement of a payment moves its own session on, and writes no row.
LEMMA UpdateInstallmentIs ==
  ASSUME TypeOK, NEW s \in Sessions, UpdateInstallment(s)
  PROVE  /\ session[s].pc = "posting" /\ session'[s].pc = "updated"
         /\ session'[s].new = session[s].new /\ session'[s].way = session[s].way
         /\ session'[s].inst = session[s].inst /\ session'[s].amount = session[s].amount
         /\ session'[s].replaces = session[s].replaces
         /\ \A t \in Sessions \ {s} : session'[t] = session[t]
         /\ UNCHANGED <<inst, debt, entry, contraLock>>
<1> DEFINE place == [session[s] EXCEPT !.pc = "updated", !.last = AllPaid(WithPayment(s))]
<1>1. session[s] \in SessionStates /\ session \in [Sessions -> SessionStates]
  BY DEF TypeOK
<1>2. /\ place.pc = "updated"
      /\ place.new = session[s].new /\ place.way = session[s].way
      /\ place.inst = session[s].inst /\ place.amount = session[s].amount
      /\ place.replaces = session[s].replaces
  BY <1>1 DEF SessionStates
<1>3. /\ session[s].pc = "posting"
      /\ session' = [session EXCEPT ![s] = place]
      /\ UNCHANGED <<inst, debt, entry, contraLock>>
  BY DEF UpdateInstallment
<1> HIDE DEF place
<1>4. session'[s] = place /\ \A t \in Sessions \ {s} : session'[t] = session[t]
  BY <1>1, <1>3
<1> QED
  BY <1>2, <1>3, <1>4

\* A step that posts nothing and begins nothing.
LEMMA QuietSound ==
  ASSUME DebtInv, BookInv, inst' = inst, \A e \in Entries : Kept(e),
         \A s \in Sessions : Paying(s)' => SameIds(s)
  PROVE  BookInv'
<1> USE InstallmentsAssumption DEF DebtInv, BookInv
<1>1. ASSUME NEW s \in Sessions PROVE IdsSound(s)'
  <2> SUFFICES ASSUME Paying(s)' PROVE IdsSound(s)'
    BY DEF IdsSound
  <2>1. SameIds(s) /\ IdsSound(s) /\ session[s].new \in Entries /\ session[s].inst \in Installments
    BY DEF SameIds, SessionsSound, SessionSound
  <2>2. inst[session[s].inst].last \in Entries \cup {None}
    BY <2>1 DEF TypeOK, InstRows
  <2> QED
    BY <2>1, <2>2 DEF IdsSound, SameIds, Kept
<1>2. OwnIds'
  BY DEF OwnIds, SameIds
<1>3. LastSound'
  BY DEF LastSound, Kept, TypeOK, InstRows
<1> QED
  BY <1>1, <1>2, <1>3

\* A request begins with an id that nobody has.
LEMMA BeginSound ==
  ASSUME DebtInv, BookInv, UNCHANGED <<inst, entry>>, NEW s \in Sessions,
         \A t \in Sessions \ {s} : session'[t] = session[t],
         session'[s].new \in FreshEntries, IdsSound(s)'
  PROVE  BookInv'
<1> USE InstallmentsAssumption DEF DebtInv, BookInv
<1>1. ASSUME NEW t \in Sessions \ {s} PROVE IdsSound(t)'
  BY DEF IdsSound, Paying
<1>2. OwnIds'
  BY DEF OwnIds, Paying, FreshEntries
<1>3. LastSound'
  BY DEF LastSound
<1> QED
  BY <1>1, <1>2, <1>3

\* A payment or a repair that commits posts its own entry, and writes its own row.
Commits(s) ==
    /\ Paying(s) /\ Ended(s)
    /\ entry' = Booked(s)
    /\ inst'[session[s].inst].last = session[s].new
    /\ \A j \in Installments \ {session[s].inst} : inst'[j] = inst[j]
    /\ session[s].replaces # None => entry[session[s].replaces].status = "posted"

LEMMA CommitEntries ==
  ASSUME DebtInv, BookInv, NEW s \in Sessions, Commits(s)
  PROVE  LET new == session[s].new
         IN  /\ new \in Entries /\ entry[new].status = "free"
             /\ entry'[new].status = "posted" /\ entry'[new].inst = session[s].inst
             /\ entry'[new].amount = session[s].amount
             /\ \A e \in Entries \ {new} :
                   /\ Kept(e)
                   /\ e = session[s].replaces => entry'[e].status = "void"
                   /\ e # session[s].replaces => entry'[e] = entry[e]
<1>1. session[s].new \in Entries /\ entry[session[s].new].status = "free"
  BY DEF Commits, DebtInv, SessionsSound, SessionSound, BookInv, IdsSound
<1>2. /\ entry'[session[s].new].status = "posted"
      /\ entry'[session[s].new].inst = session[s].inst
      /\ entry'[session[s].new].amount = session[s].amount
  <2>1. Booked(s)[session[s].new] = [status |-> "posted", inst |-> session[s].inst,
                                     amount |-> session[s].amount, bank |-> session[s].bank]
    <3>1. session[s].replaces # session[s].new
      BY <1>1, InstallmentsAssumption DEF Commits
    <3> QED
      BY <1>1, <3>1 DEF Booked
  <2> QED
    BY <2>1 DEF Commits
<1>3. ASSUME NEW e \in Entries \ {session[s].new}
      PROVE  entry'[e] = IF e = session[s].replaces THEN [entry[e] EXCEPT !.status = "void"] ELSE entry[e]
  BY DEF Commits, Booked
<1>4. \A e \in Entries : entry[e] \in EntryRows
  BY DEF DebtInv, TypeOK
<1>5. ASSUME NEW e \in Entries \ {session[s].new}
      PROVE  /\ Kept(e)
             /\ e = session[s].replaces => entry'[e].status = "void"
             /\ e # session[s].replaces => entry'[e] = entry[e]
  <2>1. CASE e = session[s].replaces
    <3>1. entry'[e] = [entry[e] EXCEPT !.status = "void"] /\ entry[e].status = "posted"
      BY <1>3, <2>1, InstallmentsAssumption DEF Commits
    <3> QED
      BY <1>4, <3>1, <2>1 DEF Kept, EntryRows
  <2>2. CASE e # session[s].replaces
    BY <1>3, <2>2 DEF Kept
  <2> QED
    BY <2>1, <2>2
<1> QED
  BY <1>1, <1>2, <1>5

LEMMA CommitSound ==
  ASSUME "form" \notin Ways, DebtInv, BookInv, TypeOK', NEW s \in Sessions, Commits(s)
  PROVE  BookInv'
<1> USE InstallmentsAssumption DEF DebtInv, BookInv
<1> DEFINE i == session[s].inst
           new == session[s].new
<1>1. /\ new \in Entries /\ entry[new].status = "free"
      /\ entry'[new].status = "posted" /\ entry'[new].inst = i
      /\ \A e \in Entries \ {new} : Kept(e)
  BY CommitEntries
<1>2. i \in Installments /\ instLock[i] = s
  BY DEF Commits, SessionsSound, SessionSound
<1>3. /\ ~Paying(s)'
      /\ \A t \in Sessions \ {s} : session'[t] = session[t]
  BY DEF Commits, Ended, Idle, At, Paying, TypeOK
<1>4. ASSUME NEW t \in Sessions \ {s}, Paying(t)
      PROVE  IdsSound(t)'
  <2>1. /\ IdsSound(t) /\ session[t].new \in Entries /\ session[t].inst \in Installments
        /\ instLock[session[t].inst] = t /\ session[t].new # new
    BY <1>4 DEF SessionsSound, SessionSound, OwnIds, Commits
  <2>2. inst'[session[t].inst] = inst[session[t].inst]
    BY <1>2, <2>1 DEF Commits
  <2>3. inst[session[t].inst].last \in Entries \cup {None}
    BY <2>1 DEF TypeOK, InstRows
  <2>4. inst[session[t].inst].last # None => inst[session[t].inst].last # new
    BY <1>1, <2>1 DEF LastSound
  <2> QED
    BY <1>1, <1>3, <2>1, <2>2, <2>3, <2>4 DEF IdsSound, Kept, Paying
<1>5. \A t \in Sessions : IdsSound(t)'
  BY <1>3, <1>4 DEF IdsSound, Paying
<1>6. OwnIds'
  BY <1>3 DEF OwnIds, Paying
<1>7. LastSound'
  <2>1. ASSUME NEW j \in Installments \ {i}, inst'[j].last # None
        PROVE  entry'[inst'[j].last].status # "free" /\ entry'[inst'[j].last].inst = j
    <3>1. inst'[j] = inst[j] /\ inst[j].last \in Entries
      BY <2>1 DEF Commits, TypeOK, InstRows
    <3>2. inst[j].last # new /\ entry[inst[j].last].status # "free" /\ entry[inst[j].last].inst = j
      BY <1>1, <2>1, <3>1 DEF LastSound
    <3> QED
      BY <1>1, <3>1, <3>2 DEF Kept
  <2> QED
    BY <1>1, <2>1 DEF LastSound, Commits
<1> QED
  BY <1>5, <1>6, <1>7

\* Every step is one of these.
LEMMA StepKinds ==
  ASSUME "form" \notin Ways, DebtInv, BookInv, TypeOK', Next
  PROVE  \/ \E s \in Sessions : Commits(s) /\ (CommitPayment(s) \/ CommitRepair(s))
         \/ \E s \in Sessions :
                /\ UNCHANGED <<inst, entry, debt>>
                /\ \A t \in Sessions \ {s} : session'[t] = session[t]
                /\ session'[s].new \in FreshEntries /\ IdsSound(s)'
         \/ /\ inst' = inst
            /\ \A e \in Entries : Kept(e)
            /\ \A s \in Sessions : Paying(s)' => SameIds(s)
            /\ \/ UNCHANGED <<entry, debt>>
               \/ \E s \in Sessions, e \in Entries : Reverse(s, e)
               \/ \E s \in Sessions : WriteDebt(s)
<1> USE InstallmentsAssumption DEF DebtInv, BookInv
<1> DEFINE Starts(s) == /\ UNCHANGED <<inst, entry, debt>>
                        /\ \A t \in Sessions \ {s} : session'[t] = session[t]
                        /\ session'[s].new \in FreshEntries /\ IdsSound(s)'
           Quiet == /\ inst' = inst
                    /\ \A e \in Entries : Kept(e)
                    /\ \A t \in Sessions : Paying(t)' => SameIds(t)
<1>1. ASSUME NEW s \in Sessions, NEW i \in Installments, NEW amount \in 1 .. Amount, NEW bank \in BOOLEAN,
             BeginQuickPay(s, i, amount, bank)
      PROVE  Starts(s)
  <2>1. PICK e \in FreshEntries :
            session' = [session EXCEPT ![s] =
                           At("begun", "quick", i, e, amount, bank, inst[i].paid + amount, None)]
    BY <1>1 DEF BeginQuickPay
  <2>2. session'[s] = At("begun", "quick", i, e, amount, bank, inst[i].paid + amount, None)
    BY <2>1 DEF TypeOK
  <2> QED
    BY <1>1, <2>1, <2>2 DEF BeginQuickPay, IdsSound, FreshEntries, At, TypeOK
<1>2. ASSUME NEW s \in Sessions, NEW i \in Installments, BeginRepair(s, i)
      PROVE  Starts(s)
  <2> DEFINE old == inst[i].last
             r == IF entry[old].status = "void" THEN None ELSE old
  <2>1. PICK e \in FreshEntries :
            session' = [session EXCEPT ![s] =
                           At("begun", "repair", i, e, entry[old].amount, TRUE, inst[i].paid, r)]
    BY <1>2 DEF BeginRepair
  <2>2. /\ session'[s] = At("begun", "repair", i, e, entry[old].amount, TRUE, inst[i].paid, r)
        /\ \A t \in Sessions \ {s} : session'[t] = session[t]
    BY <2>1 DEF TypeOK
  <2>3. /\ session'[s].way = "repair" /\ session'[s].inst = i /\ session'[s].new = e
        /\ session'[s].amount = entry[old].amount /\ session'[s].replaces = r
    BY <2>2 DEF At
  <2>4. UNCHANGED <<inst, entry, debt>> /\ old # None /\ entry[e].status = "free"
    BY <1>2, <2>1 DEF BeginRepair, FreshEntries
  <2>5. r \in {None, old} /\ (r = None => entry[old].status = "void")
    BY <2>4
  <2> HIDE DEF r
  <2>6. IdsSound(s)'
    BY <2>3, <2>4, <2>5 DEF IdsSound
  <2> QED
    BY <2>2, <2>3, <2>4, <2>6
<1>3. ASSUME NEW s \in Sessions, CommitPayment(s)
      PROVE  Commits(s)
  <2>1. Paying(s) /\ session[s].way = "quick" /\ session[s].replaces = None
    BY <1>3 DEF CommitPayment, Paying, SessionsSound, SessionSound, IdsSound
  <2>2. session[s].inst \in Installments
    BY <2>1 DEF SessionsSound, SessionSound
  <2> QED
    BY <1>3, <2>1, <2>2 DEF CommitPayment, Commits, WithPayment, TypeOK
<1>4. ASSUME NEW s \in Sessions, CommitRepair(s)
      PROVE  Commits(s) \/ Abort(s)
  <2>1. Paying(s) /\ session[s].inst \in Installments
    BY <1>4 DEF CommitRepair, Paying, SessionsSound, SessionSound
  <2>2. inst[session[s].inst] \in InstRows
    BY <2>1 DEF TypeOK
  <2> QED
    BY <1>4, <2>1, <2>2 DEF CommitRepair, Commits, InstRows, TypeOK
<1>5. ASSUME NEW s \in Sessions, Abort(s)
      PROVE  Quiet /\ UNCHANGED <<entry, debt>>
  BY <1>5 DEF Abort, Ended, Kept, SameIds, Paying, Idle, At, TypeOK
<1>6. ASSUME NEW s \in Sessions, NEW e \in Entries, Reverse(s, e)
      PROVE  Quiet
  BY <1>6 DEF Reverse, Kept, SameIds, Paying, TypeOK, EntryRows
<1>7. ASSUME NEW s \in Sessions, NEW way, JudgeDebt(s, way)
      PROVE  Quiet /\ UNCHANGED <<entry, debt>>
  BY <1>7 DEF JudgeDebt, Kept, SameIds, Paying, At, TypeOK
<1>8. ASSUME NEW s \in Sessions, LockContra(s) \/ UpdateInstallment(s)
      PROVE  Quiet /\ UNCHANGED <<entry, debt>>
  <2>1. CASE LockContra(s)
    BY <2>1 DEF LockContra, Kept, SameIds, Paying, TypeOK, SessionStates
  <2>2. CASE UpdateInstallment(s)
    BY <2>2, UpdateInstallmentIs DEF Kept, SameIds, Paying
  <2>3. QED
    BY <1>8, <2>1, <2>2
<1>9. ASSUME NEW s \in Sessions, WriteDebt(s)
      PROVE  Quiet
  BY <1>9 DEF WriteDebt, Kept, SameIds, Paying, Idle, At, TypeOK
<1> QED
  BY <1>1, <1>2, <1>3, <1>4, <1>5, <1>6, <1>7, <1>8, <1>9
  DEF Next, Begin, Continue, BreakDeadlock, Rollback

LEMMA NextBook ==
  ASSUME "form" \notin Ways, DebtInv, BookInv, TypeOK', [Next]_vars
  PROVE  BookInv'
<1>1. CASE Next
  BY <1>1, StepKinds, CommitSound, BeginSound, QuietSound
<1>2. CASE UNCHANGED vars
  BY <1>2 DEF vars, BookInv, IdsSound, OwnIds, LastSound, Paying
<1> QED
  BY <1>1, <1>2

-----------------------------------------------------------------------------
LEMMA PayStep ==
  ASSUME DebtInv, BookInv, TypeOK', NEW s \in Sessions, CommitPayment(s), Commits(s), session[s].way = "quick"
  PROVE  Book!Next
<1> USE InstallmentsAssumption DEF DebtInv
<1>0. PICK i \in Installments, e \in Entries, amount \in 1 .. Amount :
          i = session[s].inst /\ e = session[s].new /\ amount = session[s].amount
  BY DEF Commits, SessionsSound, SessionSound, TypeOK, SessionStates
<1> USE <1>0
<1> DEFINE payment == [status |-> "posted", inst |-> i, amount |-> amount]
           book == [x \in Entries |->
                      [status |-> entry[x].status, inst |-> entry[x].inst, amount |-> entry[x].amount]]
           paid == [j \in Installments |-> inst[j].paid]
           last == [j \in Installments |-> inst[j].last]
<1>1. /\ i \in Installments /\ e \in Entries /\ amount \in 1 .. Amount
      /\ session[s].total = inst[i].paid + amount /\ session[s].replaces = None
  BY DEF Commits, SessionsSound, SessionSound, BookInv, IdsSound, TypeOK, SessionStates
<1>2. inst' = [inst EXCEPT ![i] = [paid |-> inst[i].paid + amount, last |-> e]]
  BY <1>1 DEF CommitPayment, WithPayment
<1>3. inst[i].paid + amount <= Amount
  BY <1>1 DEF TypeOK, SessionStates
<1>4. entry[e].status = "free" /\ entry'[e].status = "posted" /\ entry'[e].inst = i /\ entry'[e].amount = amount
      /\ \A x \in Entries \ {e} : entry'[x] = entry[x]
  BY <1>1, CommitEntries
<1>5. book[e].status = "free" /\ book' = [book EXCEPT ![e] = payment]
  BY <1>1, <1>4
<1>6. paid' = [paid EXCEPT ![i] = @ + amount]
  BY <1>1, <1>2 DEF TypeOK
<1>7. last' = [last EXCEPT ![i] = e]
  BY <1>1, <1>2 DEF TypeOK
<1>8. session[s].last <=> \A j \in Installments : paid'[j] = Amount
  <2>1. session[s].last <=> \A j \in Installments : inst'[j].paid = Amount
    BY DEF CommitPayment, SessionsSound, SessionSound, AllPaid
  <2> QED
    BY <2>1
<1>9. debt' = IF \A j \in Installments : paid'[j] = Amount THEN [debt EXCEPT !.status = "settled"] ELSE debt
  BY <1>8 DEF CommitPayment
<1>10. paid[i] + amount <= Amount
  BY <1>1, <1>3
<1>11. Book!Pay(i, e, amount)
  BY <1>1, <1>5, <1>6, <1>7, <1>9, <1>10 DEF Book!Pay, Book!Payment
<1> QED
  BY <1>1, <1>11 DEF Book!Next

\* A repair in the ledger: one row is voided and another written.
LEMMA VoidAndWrite ==
  ASSUME NEW f, NEW g, NEW a \in Entries, NEW b \in Entries, a # b, NEW r,
         f = [x \in Entries |-> f[x]], g = [x \in Entries |-> g[x]],
         g[a] = [f[a] EXCEPT !.status = "void"], g[b] = r, \A x \in Entries \ {a, b} : g[x] = f[x]
  PROVE  g = [x \in Entries |->
                IF x = b THEN r ELSE IF x = a THEN [f[x] EXCEPT !.status = "void"] ELSE f[x]]
<1> DEFINE gone(x) == [f[x] EXCEPT !.status = "void"]
<1>1. g[a] = gone(a)
  OBVIOUS
<1> HIDE DEF gone
<1>2. \A x \in Entries : g[x] = IF x = b THEN r ELSE IF x = a THEN gone(x) ELSE f[x]
  BY <1>1
<1>3. g = [x \in Entries |-> IF x = b THEN r ELSE IF x = a THEN gone(x) ELSE f[x]]
  BY <1>2
<1> QED
  BY <1>3 DEF gone

LEMMA RepairStep ==
  ASSUME DebtInv, BookInv, TypeOK', NEW s \in Sessions, CommitRepair(s), Commits(s)
  PROVE  Book!Next
<1> USE InstallmentsAssumption DEF DebtInv
<1>0. PICK i \in Installments, e \in Entries : i = session[s].inst /\ e = session[s].new
  BY DEF Commits, SessionsSound, SessionSound
<1> USE <1>0
<1> DEFINE old == inst[i].last
           payment == [status |-> "posted", inst |-> i, amount |-> entry[old].amount]
           book == [x \in Entries |->
                      [status |-> entry[x].status, inst |-> entry[x].inst, amount |-> entry[x].amount]]
           paid == [j \in Installments |-> inst[j].paid]
           last == [j \in Installments |-> inst[j].last]
<1>1. i \in Installments /\ e \in Entries
  OBVIOUS
<1>2. /\ old \in Entries /\ old # None
      /\ session[s].amount = entry[old].amount
      /\ session[s].replaces \in {None, old}
      /\ session[s].replaces = None => entry[old].status = "void"
  BY <1>1 DEF Commits, CommitRepair, BookInv, IdsSound, TypeOK, InstRows
<1>3. /\ entry[e].status = "free" /\ entry'[e].status = "posted" /\ entry'[e].inst = i
      /\ entry'[e].amount = entry[old].amount
      /\ \A x \in Entries \ {e} :
            /\ entry'[x].inst = entry[x].inst /\ entry'[x].amount = entry[x].amount
            /\ x = session[s].replaces => entry'[x].status = "void"
            /\ x # session[s].replaces => entry'[x] = entry[x]
  BY <1>1, <1>2, CommitEntries DEF Kept
<1>4. old # e
  BY <1>1, <1>2, <1>3 DEF BookInv, LastSound
<1> HIDE DEF old, payment, book, paid, last
<1>5. entry'[old].status = "void" /\ \A x \in Entries \ {e, old} : entry'[x] = entry[x]
  <2>1. CASE session[s].replaces = None
    <3>1. entry[old].status = "void" /\ \A x \in Entries \ {e} : entry'[x] = entry[x]
      BY <1>2, <1>3, <2>1
    <3> QED
      BY <1>2, <1>4, <3>1
  <2>2. CASE session[s].replaces = old
    BY <1>2, <1>3, <1>4, <2>2
  <2> QED
    BY <1>2, <2>1, <2>2
<1>6. book' = [x \in Entries |->
                 IF x = e THEN payment
                 ELSE IF x = old THEN [book[x] EXCEPT !.status = "void"] ELSE book[x]]
  <2>1. book'[e] = payment
    BY <1>3 DEF book, payment
  <2>2. book'[old] = [status |-> "void", inst |-> entry[old].inst, amount |-> entry[old].amount]
    BY <1>2, <1>3, <1>4, <1>5 DEF book
  <2>3. \A x \in Entries \ {old, e} : book'[x] = book[x]
    BY <1>5, Zenon DEF book
  <2>4. book[old] = [status |-> entry[old].status, inst |-> entry[old].inst, amount |-> entry[old].amount]
    BY <1>2 DEF book
  <2>5. book'[old] = [book[old] EXCEPT !.status = "void"]
    BY <2>2, <2>4
  <2>6. book = [x \in Entries |-> book[x]] /\ book' = [x \in Entries |-> book'[x]]
    BY DEF book
  <2> QED
    BY <1>1, <1>2, <1>4, <2>1, <2>3, <2>5, <2>6, VoidAndWrite
<1>7. inst' = [inst EXCEPT ![i].last = e] /\ debt' = debt
  <2>1. CASE Abort(s)
    BY <2>1, <1>3, <1>1 DEF Abort
  <2> QED
    BY <2>1 DEF CommitRepair
<1>8. inst[i] \in InstRows
  BY <1>1 DEF TypeOK
<1>9. \A j \in Installments : inst'[j].paid = inst[j].paid /\ (j # i => inst'[j].last = inst[j].last)
  BY <1>1, <1>7, <1>8 DEF TypeOK, InstRows
<1>10. inst'[i].last = e
  BY <1>1, <1>7, <1>8 DEF TypeOK, InstRows
<1>11. paid' = paid
  BY <1>9 DEF paid
<1>12. last' = [last EXCEPT ![i] = e]
  BY <1>1, <1>9, <1>10 DEF last
<1>13. last[i] = old /\ old # None
  BY <1>1, <1>2 DEF last, old
<1>14. book[e].status = "free" /\ book[old].amount = entry[old].amount
  BY <1>1, <1>2, <1>3 DEF book
<1>15. Book!Repair(i, e)
  <2>1. Book!Payment(i, book[old].amount) = payment
    BY <1>14 DEF Book!Payment, payment
  <2>2. book' = [x \in Entries |->
                   IF x = e THEN Book!Payment(i, book[last[i]].amount)
                   ELSE IF x = last[i] THEN [book[x] EXCEPT !.status = "void"] ELSE book[x]]
    BY <1>6, <1>13, <2>1
  <2> QED
    BY <1>7, <1>11, <1>12, <1>13, <1>14, <2>2, Zenon DEF Book!Repair, book, paid, last
<1> QED
  BY <1>1, <1>15 DEF Book!Next

LEMMA VoidStep ==
  ASSUME DebtInv, NEW s \in Sessions, NEW e \in Entries, Reverse(s, e)
  PROVE  Book!Next
<1> DEFINE book == [x \in Entries |->
                      [status |-> entry[x].status, inst |-> entry[x].inst, amount |-> entry[x].amount]]
<1>1. entry \in [Entries -> EntryRows] /\ entry' = [entry EXCEPT ![e].status = "void"]
  BY DEF DebtInv, TypeOK, Reverse
<1>2. /\ entry'[e].status = "void" /\ entry'[e].inst = entry[e].inst /\ entry'[e].amount = entry[e].amount
      /\ \A x \in Entries \ {e} : entry'[x] = entry[x]
  BY <1>1 DEF EntryRows
<1>3. book' = [book EXCEPT ![e].status = "void"] /\ book[e].status = "posted"
  BY <1>2 DEF Reverse
<1>4. Book!Void(e)
  BY <1>3 DEF Book!Void, Reverse
<1> QED
  BY <1>4 DEF Book!Next

LEMMA NextInvs ==
  ASSUME "form" \notin Ways, DebtInv, BookInv, [Next]_vars
  PROVE  DebtInv' /\ BookInv'
<1>1. DebtInv'
  BY NextType, NextSessions, NextSettled DEF DebtInv
<1>2. TypeOK'
  BY <1>1 DEF DebtInv
<1> QED
  BY <1>1, <1>2, NextBook

LEMMA BookStep ==
  ASSUME "form" \notin Ways, DebtInv, BookInv, [Next]_vars
  PROVE  [Book!Next]_Book!bookVars
<1>0. TypeOK'
  BY NextInvs DEF DebtInv
<1>1. ASSUME NEW s \in Sessions, Commits(s), CommitPayment(s)
      PROVE  Book!Next
  <2>1. session[s].way = "quick"
    BY <1>1 DEF CommitPayment, Commits, DebtInv, SessionsSound, SessionSound
  <2> QED
    BY <1>0, <1>1, <2>1, PayStep
<1>2. ASSUME NEW s \in Sessions, WriteDebt(s)
      PROVE  Book!Next
  BY <1>2 DEF WriteDebt, Book!Next, Book!Close
<1>3. CASE UNCHANGED <<inst, entry, debt>>
  BY <1>3 DEF Book!bookVars
<1>4. CASE Next
  BY <1>0, <1>1, <1>2, <1>3, <1>4, StepKinds, RepairStep, VoidStep
<1> QED
  BY <1>3, <1>4 DEF vars

\* Paid, repaired, reversed, cancelled, in however many tabs: without the form a
\* running total grows by what the entry of a payment posts, in the step that
\* posts it, the last of them settles the debt, and a repair voids the payment it
\* posts again.
THEOREM PaymentsImplementBook ==
  ASSUME "form" \notin Ways, Installments # {}
  PROVE  Spec => BookSpec
<1>1. Init => DebtInv /\ BookInv
  BY InitInv, InitBook
<1>2. DebtInv /\ BookInv /\ [Next]_vars => DebtInv' /\ BookInv'
  BY NextInvs
<1>3. Init => Book!Init
  BY DEF Init, Book!Init, NoEntry
<1>4. DebtInv /\ BookInv /\ [Next]_vars => [Book!Next]_Book!bookVars
  BY BookStep
<1> QED
  BY <1>1, <1>2, <1>3, <1>4, PTL DEF Spec, BookSpec, Book!Spec

-----------------------------------------------------------------------------
(* Sums over finite sets.  What CHOOSE picks first does not matter. *)

\* What the entries of S in the table f add up to.
Sum(f, S) == MapThenSumSet(LAMBDA e : f[e].amount, S)

\* Induction over the subsets of a finite set.
LEMMA SubsetInduction ==
  ASSUME NEW S, IsFiniteSet(S), NEW Good,
         \A T \in SUBSET S : (\A U \in SUBSET T : U # T => U \in Good) => T \in Good
  PROVE  SUBSET S \subseteq Good
<1> DEFINE Bad == {T \in SUBSET S : T \notin Good}
<1> SUFFICES ASSUME Bad # {} PROVE FALSE
  OBVIOUS
<1>1. IsWellFoundedOn(StrictSubsetOrdering(S), SUBSET S)
  <2>1. IsWellFoundedOn(StrictSubsetOrdering(S), FiniteSubsetsOf(S))
    BY FS_StrictSubsetOrderingWellFounded
  <2>2. FiniteSubsetsOf(S) = SUBSET S
    BY FS_FiniteSubsetsOfFinite
  <2> QED
    BY <2>1, <2>2
<1>2. Bad \subseteq SUBSET S
  OBVIOUS
<1>3. PICK T \in Bad : \A U \in Bad : <<U, T>> \notin StrictSubsetOrdering(S)
  <2> HIDE DEF Bad
  <2> QED
    BY <1>1, <1>2, WFMin
<1>4. ASSUME NEW U \in SUBSET T, U # T PROVE U \in Good
  BY <1>3, <1>4 DEF StrictSubsetOrdering
<1> QED
  BY <1>3, <1>4

\* The function by which it is defined.
IsSum(g, f, S) ==
    g = [s \in SUBSET S |->
            IF s = {} THEN 0 ELSE LET x == CHOOSE x \in s : TRUE IN f[x].amount + g[s \ {x}]]

LEMMA SumIsFold ==
  ASSUME NEW f, NEW S
  PROVE  Sum(f, S) = (CHOOSE g : IsSum(g, f, S))[S]
BY DEF Sum, MapThenSumSet, MapThenFoldSet, IsSum

\* Two such functions agree on the sets both are defined on.
LEMMA SumIsUnique ==
  ASSUME NEW f, NEW S, IsFiniteSet(S), NEW T, NEW g, IsSum(g, f, S), NEW h, IsSum(h, f, T)
  PROVE  \A U \in SUBSET S : U \subseteq T => g[U] = h[U]
<1> DEFINE Good == {U \in SUBSET S : U \subseteq T => g[U] = h[U]}
<1>1. ASSUME NEW U \in SUBSET S, \A V \in SUBSET U : V # U => V \in Good, U \subseteq T
      PROVE  g[U] = h[U]
  <2>1. CASE U = {}
    BY <2>1, <1>1 DEF IsSum
  <2>2. CASE U # {}
    <3> DEFINE x == CHOOSE x \in U : TRUE
    <3>1. x \in U
      BY <2>2
    <3>2. g[U] = f[x].amount + g[U \ {x}] /\ h[U] = f[x].amount + h[U \ {x}]
      BY <2>2, <1>1 DEF IsSum
    <3> HIDE DEF x
    <3>3. g[U \ {x}] = h[U \ {x}]
      BY <3>1, <1>1
    <3> QED
      BY <3>2, <3>3
  <2> QED
    BY <2>1, <2>2
<1>2. \A U \in SUBSET S : (\A V \in SUBSET U : V # U => V \in Good) => U \in Good
  BY <1>1
<1>3. SUBSET S \subseteq Good
  <2> HIDE DEF Good
  <2> QED
    BY <1>2, SubsetInduction
<1> QED
  BY <1>3

\* It exists on every finite set.
LEMMA SumExists ==
  ASSUME NEW f, NEW S, IsFiniteSet(S)
  PROVE  \E g : IsSum(g, f, S)
<1> DEFINE Good == {U \in SUBSET S : \E g : IsSum(g, f, U)}
           val(W) == (CHOOSE g : IsSum(g, f, W))[W]
<1>1. ASSUME NEW U \in SUBSET S, \A V \in SUBSET U : V # U => V \in Good
      PROVE  \E g : IsSum(g, f, U)
  <2>0. IsFiniteSet(U)
    BY FS_Subset
  <2> DEFINE k == [V \in SUBSET U |->
                      IF V = {} THEN 0 ELSE LET x == CHOOSE x \in V : TRUE IN f[x].amount + val(V \ {x})]
  <2>1. ASSUME NEW W \in SUBSET U, W # U
        PROVE  k[W] = val(W)
    <3> DEFINE g == CHOOSE g : IsSum(g, f, W)
    <3>1. IsSum(g, f, W)
      BY <1>1, <2>1
    <3>2. CASE W = {}
      BY <3>1, <3>2 DEF IsSum
    <3>3. CASE W # {}
      <4> DEFINE x == CHOOSE x \in W : TRUE
      <4>1. x \in W
        BY <3>3
      <4>2. g[W] = f[x].amount + g[W \ {x}]
        <5> HIDE DEF g
        <5> QED
          BY <3>1, <3>3 DEF IsSum
      <4>3. k[W] = f[x].amount + val(W \ {x})
        <5> HIDE DEF val
        <5> QED
          BY <3>3
      <4> DEFINE h == CHOOSE h : IsSum(h, f, W \ {x})
      <4> HIDE DEF x
      <4>4. W \ {x} \in Good
        BY <4>1, <1>1
      <4>5. IsSum(h, f, W \ {x})
        BY <4>4
      <4>6. g[W \ {x}] = h[W \ {x}]
        <5> HIDE DEF g, h
        <5>1. IsFiniteSet(W)
          BY <2>0, FS_Subset
        <5> QED
          BY <5>1, <3>1, <4>5, SumIsUnique
      <4> QED
        BY <4>2, <4>3, <4>6
    <3> QED
      BY <3>2, <3>3
  <2>2. k = [V \in SUBSET U |->
                IF V = {} THEN 0 ELSE LET x == CHOOSE x \in V : TRUE IN f[x].amount + k[V \ {x}]]
    <3>1. ASSUME NEW V \in SUBSET U, V # {}
          PROVE  k[V \ {CHOOSE x \in V : TRUE}] = val(V \ {CHOOSE x \in V : TRUE})
      <4>1. (CHOOSE x \in V : TRUE) \in V
        BY <3>1
      <4> HIDE DEF k, val
      <4> QED
        BY <4>1, <2>1
    <3> HIDE DEF val
    <3>2. k = [V \in SUBSET U |-> k[V]]
      OBVIOUS
    <3>3. \A V \in SUBSET U : k[V] = IF V = {} THEN 0
                                     ELSE LET x == CHOOSE x \in V : TRUE IN f[x].amount + k[V \ {x}]
      <4>1. \A V \in SUBSET U : k[V] = IF V = {} THEN 0
                                       ELSE LET x == CHOOSE x \in V : TRUE IN f[x].amount + val(V \ {x})
        OBVIOUS
      <4> HIDE DEF k
      <4> QED
        BY <3>1, <4>1
    <3> HIDE DEF k
    <3> QED
      BY <3>2, <3>3
  <2> HIDE DEF k
  <2> QED
    BY <2>2 DEF IsSum
<1>2. \A U \in SUBSET S : (\A V \in SUBSET U : V # U => V \in Good) => U \in Good
  BY <1>1
<1>3. SUBSET S \subseteq Good
  <2> HIDE DEF Good
  <2> QED
    BY <1>2, SubsetInduction
<1> QED
  BY <1>3

LEMMA SumOfNone == ASSUME NEW f PROVE Sum(f, {}) = 0
<1>1. IsFiniteSet({})
  BY FS_EmptySet
<1>2. PICK g : IsSum(g, f, {})
  BY <1>1, SumExists
<1> DEFINE h == CHOOSE h : IsSum(h, f, {})
<1>3. IsSum(h, f, {})
  BY <1>2
<1> HIDE DEF h
<1>4. h[{}] = 0
  BY <1>3 DEF IsSum
<1> QED
  BY <1>4, SumIsFold DEF h

\* Adding up a set begins with the element that CHOOSE picks.
LEMMA SumOfSome ==
  ASSUME NEW f, NEW S, IsFiniteSet(S), S # {}
  PROVE  LET x == CHOOSE x \in S : TRUE IN Sum(f, S) = f[x].amount + Sum(f, S \ {x})
<1> DEFINE x == CHOOSE x \in S : TRUE
           g == CHOOSE g : IsSum(g, f, S)
           h == CHOOSE h : IsSum(h, f, S \ {x})
<1>1. IsFiniteSet(S \ {x})
  BY FS_RemoveElement
<1>2. IsSum(g, f, S)
  BY SumExists
<1>3. IsSum(h, f, S \ {x})
  <2> HIDE DEF x
  <2> QED
    BY <1>1, SumExists
<1>4. Sum(f, S) = g[S] /\ Sum(f, S \ {x}) = h[S \ {x}]
  <2> HIDE DEF x
  <2> QED
    BY SumIsFold
<1> HIDE DEF g, h
<1>5. g[S] = f[x].amount + g[S \ {x}]
  BY <1>2 DEF IsSum
<1>6. g[S \ {x}] = h[S \ {x}]
  <2> HIDE DEF x
  <2>1. \A U \in SUBSET S : U \subseteq S \ {x} => g[U] = h[U]
    BY <1>2, <1>3, SumIsUnique
  <2>2. S \ {x} \in SUBSET S
    OBVIOUS
  <2> QED
    BY <2>1, <2>2
<1> QED
  BY <1>4, <1>5, <1>6

LEMMA SumIsInt ==
  ASSUME NEW f, NEW S, IsFiniteSet(S), \A x \in S : f[x].amount \in Int
  PROVE  Sum(f, S) \in Int
<1> DEFINE Good == {U \in SUBSET S : Sum(f, U) \in Int}
<1>1. ASSUME NEW U \in SUBSET S, \A V \in SUBSET U : V # U => V \in Good
      PROVE  Sum(f, U) \in Int
  <2>1. CASE U = {}
    BY <2>1, SumOfNone
  <2>2. CASE U # {}
    <3> DEFINE x == CHOOSE x \in U : TRUE
    <3>1. x \in U /\ IsFiniteSet(U)
      BY <2>2, FS_Subset
    <3>2. Sum(f, U) = f[x].amount + Sum(f, U \ {x})
      BY <2>2, <3>1, SumOfSome
    <3> HIDE DEF x
    <3>3. Sum(f, U \ {x}) \in Int
      BY <1>1, <3>1
    <3> QED
      BY <3>1, <3>2, <3>3
  <2> QED
    BY <2>1, <2>2
<1>2. \A U \in SUBSET S : (\A V \in SUBSET U : V # U => V \in Good) => U \in Good
  BY <1>1
<1>3. SUBSET S \subseteq Good
  <2> HIDE DEF Good
  <2> QED
    BY <1>2, SubsetInduction
<1> QED
  BY <1>3

\* The order does not matter: any element can be taken first.
LEMMA SumTakes ==
  ASSUME NEW f, NEW S, IsFiniteSet(S), \A x \in S : f[x].amount \in Int, NEW y \in S
  PROVE  Sum(f, S) = f[y].amount + Sum(f, S \ {y})
<1> DEFINE Good == {U \in SUBSET S : \A z \in U : Sum(f, U) = f[z].amount + Sum(f, U \ {z})}
<1>1. ASSUME NEW U \in SUBSET S, \A V \in SUBSET U : V # U => V \in Good, NEW z \in U
      PROVE  Sum(f, U) = f[z].amount + Sum(f, U \ {z})
  <2> DEFINE x == CHOOSE x \in U : TRUE
  <2>1. x \in U /\ IsFiniteSet(U) /\ U # {}
    BY FS_Subset
  <2>2. Sum(f, U) = f[x].amount + Sum(f, U \ {x})
    BY <2>1, SumOfSome
  <2> HIDE DEF x
  <2>3. CASE z = x
    BY <2>2, <2>3
  <2>4. CASE z # x
    <3>1. Sum(f, U \ {x}) = f[z].amount + Sum(f, (U \ {x}) \ {z})
      BY <1>1, <2>1, <2>4
    <3>2. Sum(f, U \ {z}) = f[x].amount + Sum(f, (U \ {z}) \ {x})
      BY <1>1, <2>1, <2>4
    <3>3. (U \ {x}) \ {z} = (U \ {z}) \ {x}
      OBVIOUS
    <3> DEFINE rest == Sum(f, (U \ {z}) \ {x})
    <3>4. rest \in Int
      <4>1. IsFiniteSet((U \ {z}) \ {x})
        BY <2>1, FS_Subset
      <4> QED
        BY <4>1, SumIsInt
    <3>5. f[x].amount \in Int /\ f[z].amount \in Int
      BY <2>1
    <3>6. Sum(f, U) = f[x].amount + (f[z].amount + rest) /\ Sum(f, U \ {z}) = f[x].amount + rest
      BY <2>2, <3>1, <3>2, <3>3
    <3> HIDE DEF rest
    <3> QED
      BY <3>4, <3>5, <3>6
  <2> QED
    BY <2>3, <2>4
<1>2. \A U \in SUBSET S : (\A V \in SUBSET U : V # U => V \in Good) => U \in Good
  BY <1>1
<1>3. SUBSET S \subseteq Good
  <2> HIDE DEF Good
  <2> QED
    BY <1>2, SubsetInduction
<1> QED
  BY <1>3

\* Only the values on the set count.
LEMMA SumAgrees ==
  ASSUME NEW f, NEW h, NEW S, IsFiniteSet(S), \A x \in S : f[x].amount = h[x].amount
  PROVE  Sum(f, S) = Sum(h, S)
<1> DEFINE Good == {U \in SUBSET S : Sum(f, U) = Sum(h, U)}
<1>1. ASSUME NEW U \in SUBSET S, \A V \in SUBSET U : V # U => V \in Good
      PROVE  Sum(f, U) = Sum(h, U)
  <2>1. CASE U = {}
    BY <2>1, SumOfNone
  <2>2. CASE U # {}
    <3> DEFINE x == CHOOSE x \in U : TRUE
    <3>1. x \in U /\ IsFiniteSet(U)
      BY <2>2, FS_Subset
    <3>2. Sum(f, U) = f[x].amount + Sum(f, U \ {x}) /\ Sum(h, U) = h[x].amount + Sum(h, U \ {x})
      BY <2>2, <3>1, SumOfSome
    <3> HIDE DEF x
    <3>3. Sum(f, U \ {x}) = Sum(h, U \ {x})
      BY <1>1, <3>1
    <3> QED
      BY <3>1, <3>2, <3>3
  <2> QED
    BY <2>1, <2>2
<1>2. \A U \in SUBSET S : (\A V \in SUBSET U : V # U => V \in Good) => U \in Good
  BY <1>1
<1>3. SUBSET S \subseteq Good
  <2> HIDE DEF Good
  <2> QED
    BY <1>2, SubsetInduction
<1> QED
  BY <1>3

-----------------------------------------------------------------------------
(* The running total.  Seen as steps of DebtBook, a payment adds one entry to those *)
(* of its installment, a repair exchanges one or adds one in place of a void one,   *)
(* and a reversal takes one away.                                                   *)

Payments(i) == {e \in Entries : entry[e].status = "posted" /\ entry[e].inst = i}

FinitelyPosted == IsFiniteSet({e \in Entries : entry[e].status = "posted"})

\* What a repair would still post of the last payment: nothing while it stands.
Lost(i) ==
    IF inst[i].last # None /\ entry[inst[i].last].status = "void" THEN entry[inst[i].last].amount ELSE 0

\* A payment that was voided leaves room for the repair that posts it again.
TotalSound(i) ==
    /\ Ledger(i) + Lost(i) <= inst[i].paid
    /\ Voided(i) = {} => Ledger(i) = inst[i].paid

TotalsInv == FinitelyPosted /\ \A i \in Installments : TotalSound(i)

\* An entry is to the book what it was, and so is an installment.
SameEntry(x) ==
    /\ entry'[x].status = entry[x].status
    /\ entry'[x].inst = entry[x].inst
    /\ entry'[x].amount = entry[x].amount

SameInst(i) == inst'[i].paid = inst[i].paid /\ inst'[i].last = inst[i].last

PostedBy(e, i, amount) ==
    /\ entry[e].status = "free"
    /\ entry'[e].status = "posted" /\ entry'[e].inst = i /\ entry'[e].amount = amount
    /\ inst'[i].last = e
    /\ \A j \in Installments \ {i} : SameInst(j)

Pays(i, e, amount) ==
    /\ PostedBy(e, i, amount)
    /\ inst'[i].paid = inst[i].paid + amount
    /\ \A x \in Entries \ {e} : SameEntry(x)

Repairs(i, e) ==
    LET old == inst[i].last
    IN  /\ old # None
        /\ PostedBy(e, i, entry[old].amount)
        /\ inst'[i].paid = inst[i].paid
        /\ entry'[old].status = "void" /\ entry'[old].inst = entry[old].inst
        /\ entry'[old].amount = entry[old].amount
        /\ \A x \in Entries \ {e, old} : SameEntry(x)

Voids(e) ==
    /\ entry[e].status = "posted"
    /\ entry'[e].status = "void" /\ entry'[e].inst = entry[e].inst /\ entry'[e].amount = entry[e].amount
    /\ \A x \in Entries \ {e} : SameEntry(x)
    /\ \A i \in Installments : SameInst(i)

\* What the steps of DebtBook say of the rows.
LEMMA BookRows ==
  ASSUME TypeOK, LastSound, [Book!Next]_Book!bookVars
  PROVE  \/ \E i \in Installments, e \in Entries, amount \in 1 .. Amount : Pays(i, e, amount)
         \/ \E i \in Installments, e \in Entries : Repairs(i, e)
         \/ \E e \in Entries : Voids(e)
         \/ (\A x \in Entries : SameEntry(x)) /\ (\A i \in Installments : SameInst(i))
<1> USE InstallmentsAssumption
<1> DEFINE paid   == [i \in Installments |-> inst[i].paid]
           last   == [i \in Installments |-> inst[i].last]
           ledger == [x \in Entries |->
                        [status |-> entry[x].status, inst |-> entry[x].inst, amount |-> entry[x].amount]]
<1>a. /\ \A i \in Installments : paid[i] = inst[i].paid /\ last[i] = inst[i].last
      /\ \A i \in Installments : paid'[i] = inst'[i].paid /\ last'[i] = inst'[i].last
      /\ \A x \in Entries : /\ ledger[x].status = entry[x].status /\ ledger[x].inst = entry[x].inst
                            /\ ledger[x].amount = entry[x].amount
      /\ \A x \in Entries : /\ ledger'[x].status = entry'[x].status /\ ledger'[x].inst = entry'[x].inst
                            /\ ledger'[x].amount = entry'[x].amount
      /\ DOMAIN paid = Installments /\ DOMAIN last = Installments /\ DOMAIN ledger = Entries
  OBVIOUS
<1>1. ASSUME NEW i \in Installments, NEW e \in Entries, NEW amount \in 1 .. Amount, Book!Pay(i, e, amount)
      PROVE  Pays(i, e, amount)
  <2>1. /\ ledger[e].status = "free"
        /\ ledger' = [ledger EXCEPT ![e] = [status |-> "posted", inst |-> i, amount |-> amount]]
        /\ paid' = [paid EXCEPT ![i] = paid[i] + amount]
        /\ last' = [last EXCEPT ![i] = e]
    BY <1>1 DEF Book!Pay, Book!Payment
  <2> HIDE DEF paid, last, ledger
  <2> QED
    BY <1>a, <2>1 DEF Pays, PostedBy, SameEntry, SameInst
<1>2. ASSUME NEW i \in Installments, NEW e \in Entries, Book!Repair(i, e)
      PROVE  Repairs(i, e)
  <2> DEFINE old == last[i]
  <2>1. /\ old # None
        /\ ledger[e].status = "free"
        /\ ledger' = [x \in Entries |->
                         IF x = e THEN [status |-> "posted", inst |-> i, amount |-> ledger[old].amount]
                         ELSE IF x = old THEN [ledger[x] EXCEPT !.status = "void"] ELSE ledger[x]]
        /\ last' = [last EXCEPT ![i] = e]
        /\ paid' = paid
    BY <1>2 DEF Book!Repair, Book!Payment
  <2>2. old = inst[i].last /\ old \in Entries /\ old # e
    BY <1>a, <2>1 DEF TypeOK, InstRows, LastSound
  <2> DEFINE gone == [ledger[old] EXCEPT !.status = "void"]
  <2>3. gone.status = "void" /\ gone.inst = entry[old].inst /\ gone.amount = entry[old].amount
    BY <2>2
  <2>4. ledger' = [x \in Entries |->
                     IF x = e THEN [status |-> "posted", inst |-> i, amount |-> ledger[old].amount]
                     ELSE IF x = old THEN gone ELSE ledger[x]]
    BY <2>1, <2>2
  <2> HIDE DEF paid, last, ledger, gone
  <2>5. ledger'[old] = gone /\ ledger'[e] = [status |-> "posted", inst |-> i, amount |-> ledger[old].amount]
    BY <1>a, <2>2, <2>4
  <2>6. \A x \in Entries \ {e, old} : ledger'[x] = ledger[x]
    BY <1>a, <2>4
  <2>7. \A x \in Entries \ {e, old} : SameEntry(x)
    BY <1>a, <2>6 DEF SameEntry
  <2>8. /\ entry'[e].status = "posted" /\ entry'[e].inst = i /\ entry'[e].amount = entry[old].amount
        /\ entry'[old].status = "void" /\ entry'[old].inst = entry[old].inst
        /\ entry'[old].amount = entry[old].amount
        /\ entry[e].status = "free"
    <3>1. entry'[e].status = "posted" /\ entry'[e].inst = i /\ entry'[e].amount = ledger[old].amount
      BY <1>a, <2>5
    <3>2. /\ entry'[old].status = "void" /\ entry'[old].inst = entry[old].inst
          /\ entry'[old].amount = entry[old].amount
      BY <1>a, <2>2, <2>3, <2>5
    <3>3. entry[e].status = "free" /\ ledger[old].amount = entry[old].amount
      BY <1>a, <2>1, <2>2
    <3> QED
      BY <3>1, <3>2, <3>3
  <2>9. inst'[i].last = e /\ inst'[i].paid = inst[i].paid /\ \A j \in Installments \ {i} : SameInst(j)
    BY <1>a, <2>1 DEF SameInst
  <2> HIDE DEF old
  <2> QED
    BY <2>1, <2>2, <2>7, <2>8, <2>9 DEF Repairs, PostedBy
<1>3. ASSUME NEW e \in Entries, Book!Void(e)
      PROVE  Voids(e)
  <2> DEFINE gone == [ledger[e] EXCEPT !.status = "void"]
  <2>1. /\ ledger[e].status = "posted"
        /\ ledger' = [ledger EXCEPT ![e] = gone]
        /\ paid' = paid /\ last' = last
    BY <1>3 DEF Book!Void
  <2>2. gone.status = "void" /\ gone.inst = entry[e].inst /\ gone.amount = entry[e].amount
    OBVIOUS
  <2> HIDE DEF paid, last, ledger, gone
  <2> QED
    BY <1>a, <2>1, <2>2 DEF Voids, SameEntry, SameInst
<1>4. ASSUME ledger' = ledger, paid' = paid, last' = last
      PROVE  (\A x \in Entries : SameEntry(x)) /\ (\A i \in Installments : SameInst(i))
  <2> HIDE DEF paid, last, ledger
  <2> QED
    BY <1>a, <1>4 DEF SameEntry, SameInst
<1> QED
  BY <1>1, <1>2, <1>3, <1>4 DEF Book!Next, Book!Close, Book!bookVars

\* One more element, one more summand.
LEMMA SumWith ==
  ASSUME NEW f, NEW S, IsFiniteSet(S), NEW y, y \notin S, \A x \in S \cup {y} : f[x].amount \in Int
  PROVE  Sum(f, S \cup {y}) = f[y].amount + Sum(f, S)
<1>1. IsFiniteSet(S \cup {y}) /\ (S \cup {y}) \ {y} = S
  BY FS_AddElement
<1> QED
  BY <1>1, SumTakes

\* Ledger is such a sum, before and after a step.
LEMMA LedgerIsSum ==
  ASSUME NEW i
  PROVE  Ledger(i) = Sum(entry, Payments(i)) /\ Ledger(i)' = Sum(entry', Payments(i)')
BY Zenon DEF Ledger, Sum, Payments, MapThenSumSet, MapThenFoldSet

LEMMA PaymentsSummed ==
  ASSUME TypeOK, FinitelyPosted, NEW i
  PROVE  /\ IsFiniteSet(Payments(i))
         /\ \A x \in Entries : entry[x].amount \in Nat
         /\ Ledger(i) \in Int
<1> USE InstallmentsAssumption
<1>1. IsFiniteSet(Payments(i))
  <2>1. Payments(i) \subseteq {e \in Entries : entry[e].status = "posted"}
    BY DEF Payments
  <2> QED
    BY <2>1, FS_Subset DEF FinitelyPosted
<1>2. \A x \in Entries : entry[x].amount \in Nat
  BY DEF TypeOK, EntryRows
<1>3. \A x \in Payments(i) : entry[x].amount \in Int
  BY <1>2 DEF Payments
<1>4. Ledger(i) \in Int
  BY <1>1, <1>3, SumIsInt, LedgerIsSum
<1> QED
  BY <1>1, <1>2, <1>4

\* Where no entry comes or goes, the total is as sound as it was.
LEMMA SameTotal ==
  ASSUME TypeOK, LastSound, FinitelyPosted, NEW j \in Installments, TotalSound(j), SameInst(j),
         \A x \in Entries : \/ SameEntry(x)
                            \/ /\ entry[x].status = "free" \/ entry[x].inst # j
                               /\ entry'[x].status = "free" \/ entry'[x].inst # j
  PROVE  TotalSound(j)'
<1>1. Payments(j)' = Payments(j) /\ \A x \in Payments(j) : entry[x].amount = entry'[x].amount
  BY DEF Payments, SameEntry
<1>2. Voided(j)' = Voided(j)
  BY DEF Voided, SameEntry
<1>3. Lost(j)' = Lost(j)
  BY InstallmentsAssumption DEF Lost, SameInst, SameEntry, LastSound, TypeOK, InstRows
<1>4. Ledger(j)' = Ledger(j)
  BY <1>1, PaymentsSummed, LedgerIsSum, SumAgrees
<1> QED
  BY <1>2, <1>3, <1>4 DEF TotalSound, SameInst

LEMMA PaysSound ==
  ASSUME TypeOK, LastSound, FinitelyPosted, NEW i \in Installments, NEW e \in Entries, NEW amount \in 1 .. Amount,
         Pays(i, e, amount), TotalSound(i)
  PROVE  TotalSound(i)'
<1> USE InstallmentsAssumption DEF Pays, PostedBy
<1>1. Payments(i)' = Payments(i) \cup {e} /\ e \notin Payments(i)
  BY DEF Payments, SameEntry
<1>2. \A x \in Payments(i) : entry'[x].amount = entry[x].amount
  BY DEF Payments, SameEntry
<1>a. amount \in Int /\ inst[i].paid \in Int
  BY DEF TypeOK, InstRows
<1>b. /\ IsFiniteSet(Payments(i)) /\ Ledger(i) \in Int
      /\ \A x \in Entries : entry[x].amount \in Nat
  BY PaymentsSummed
<1>3. /\ IsFiniteSet(Payments(i)) /\ Ledger(i) \in Int
      /\ \A x \in Payments(i) : entry[x].amount \in Int
      /\ amount \in Int /\ inst[i].paid \in Int
  BY <1>a, <1>b DEF Payments
<1>4. Sum(entry', Payments(i)) = Sum(entry, Payments(i))
  BY <1>2, <1>3, SumAgrees
<1>5. Sum(entry', Payments(i) \cup {e}) = amount + Sum(entry', Payments(i))
  <2>1. \A x \in Payments(i) \cup {e} : entry'[x].amount \in Int
    BY <1>2, <1>3
  <2> QED
    BY <1>1, <1>3, <2>1, SumWith
<1>6. Ledger(i)' = amount + Ledger(i)
  BY <1>1, <1>4, <1>5, LedgerIsSum
<1>7. Lost(i)' = 0
  BY DEF Lost
<1>8. Lost(i) \in Nat
  <2>1. inst[i].last # None => inst[i].last \in Entries
    BY DEF TypeOK, InstRows
  <2> QED
    BY <2>1, PaymentsSummed DEF Lost
<1>9. Voided(i)' = Voided(i)
  BY DEF Voided, SameEntry
<1>10. /\ Ledger(i) + Lost(i) <= inst[i].paid
       /\ Voided(i) = {} => Ledger(i) = inst[i].paid
  BY DEF TotalSound
<1>11. inst'[i].paid = inst[i].paid + amount
  OBVIOUS
<1>12. Ledger(i)' + Lost(i)' <= inst'[i].paid
  BY <1>3, <1>6, <1>7, <1>8, <1>10, <1>11
<1> QED
  BY <1>3, <1>6, <1>9, <1>10, <1>11, <1>12 DEF TotalSound

LEMMA RepairsSound ==
  ASSUME TypeOK, LastSound, FinitelyPosted, NEW i \in Installments, NEW e \in Entries,
         Repairs(i, e), TotalSound(i)
  PROVE  TotalSound(i)'
<1> USE InstallmentsAssumption
<1>0. PICK old \in Entries : old = inst[i].last
  BY DEF Repairs, TypeOK, InstRows
<1>1. /\ entry[e].status = "free" /\ old # e
      /\ entry[old].status \in {"posted", "void"} /\ entry[old].inst = i
      /\ entry'[e].status = "posted" /\ entry'[e].inst = i /\ entry'[e].amount = entry[old].amount
      /\ entry'[old].status = "void" /\ entry'[old].inst = i
      /\ inst'[i].paid = inst[i].paid /\ inst'[i].last = e
      /\ \A x \in Entries \ {e, old} : SameEntry(x)
  BY <1>0 DEF Repairs, PostedBy, LastSound, TypeOK, EntryRows
<1>a. inst[i].paid \in Int
  BY DEF TypeOK, InstRows
<1>2. /\ IsFiniteSet(Payments(i)) /\ Ledger(i) \in Int
      /\ \A x \in Entries : entry[x].amount \in Int
      /\ inst[i].paid \in Int
  BY <1>a, PaymentsSummed
<1>3. Lost(i)' = 0
  BY <1>1 DEF Lost
<1>4. Voided(i)' # {}
  BY <1>1 DEF Voided
<1>5. Ledger(i) + Lost(i) <= inst[i].paid
  BY DEF TotalSound
\* What neither entry is concerned with.
<1> DEFINE rest == Payments(i) \ {old}
<1>6. Payments(i)' = rest \cup {e} /\ e \notin rest
  BY <1>1 DEF Payments, SameEntry
<1>7. IsFiniteSet(rest) /\ \A x \in rest : entry'[x].amount = entry[x].amount /\ entry[x].amount \in Int
  BY <1>1, <1>2, FS_RemoveElement DEF Payments, SameEntry
<1>8. Ledger(i)' = entry[old].amount + Sum(entry, rest)
  <2> HIDE DEF rest
  <2>1. Sum(entry', rest) = Sum(entry, rest)
    BY <1>7, SumAgrees
  <2>2. \A x \in rest \cup {e} : entry'[x].amount \in Int
    BY <1>1, <1>2, <1>7
  <2>3. Sum(entry', rest \cup {e}) = entry[old].amount + Sum(entry', rest)
    BY <1>1, <1>6, <1>7, <2>2, SumWith
  <2> QED
    BY <1>6, <2>1, <2>3, LedgerIsSum
<1>9. Ledger(i)' <= inst[i].paid
  <2>1. CASE entry[old].status = "posted"
    <3>1. old \in Payments(i) /\ Lost(i) = 0
      BY <1>0, <1>1, <2>1 DEF Payments, Lost
    <3>2. \A x \in Payments(i) : entry[x].amount \in Int
      BY <1>2 DEF Payments
    <3>3. Ledger(i) = entry[old].amount + Sum(entry, rest)
      BY <1>2, <3>1, <3>2, SumTakes, LedgerIsSum
    <3> QED
      BY <1>2, <1>5, <1>8, <3>1, <3>3
  <2>2. CASE entry[old].status = "void"
    <3>1. rest = Payments(i) /\ Lost(i) = entry[old].amount
      BY <1>0, <1>1, <2>2 DEF Payments, Lost
    <3>2. Ledger(i)' = entry[old].amount + Ledger(i)
      BY <1>8, <3>1, LedgerIsSum
    <3> QED
      BY <1>2, <1>5, <3>1, <3>2
  <2> QED
    BY <1>1, <2>1, <2>2
<1>10. Ledger(i)' \in Int
  <2>1. Sum(entry, rest) \in Int
    <3> HIDE DEF rest
    <3> QED
      BY <1>7, SumIsInt
  <2> QED
    BY <1>2, <1>8, <2>1
<1> HIDE DEF rest
<1> QED
  BY <1>1, <1>3, <1>4, <1>9, <1>10 DEF TotalSound

LEMMA VoidsSound ==
  ASSUME TypeOK, LastSound, FinitelyPosted, NEW i \in Installments, NEW e \in Entries,
         Voids(e), entry[e].inst = i, TotalSound(i)
  PROVE  TotalSound(i)'
<1> USE InstallmentsAssumption
<1>1. /\ entry[e].status = "posted" /\ entry'[e].status = "void" /\ entry'[e].inst = i
      /\ entry'[e].amount = entry[e].amount
      /\ inst'[i].paid = inst[i].paid /\ inst'[i].last = inst[i].last
      /\ \A x \in Entries \ {e} : SameEntry(x)
  BY DEF Voids, SameInst
<1>a. inst[i].paid \in Int /\ inst[i].last \in Entries \cup {None}
  BY DEF TypeOK, InstRows
<1>2. /\ IsFiniteSet(Payments(i)) /\ Ledger(i) \in Int
      /\ \A x \in Entries : entry[x].amount \in Nat
      /\ inst[i].paid \in Int /\ inst[i].last \in Entries \cup {None}
  BY <1>a, PaymentsSummed
<1>3. e \in Payments(i) /\ Payments(i)' = Payments(i) \ {e}
  BY <1>1 DEF Payments, SameEntry
<1>4. Voided(i)' # {}
  BY <1>1 DEF Voided
<1> DEFINE rest == Payments(i) \ {e}
<1>5. IsFiniteSet(rest) /\ \A x \in rest : entry'[x].amount = entry[x].amount /\ entry[x].amount \in Int
  <2>1. IsFiniteSet(rest)
    BY <1>2, FS_RemoveElement
  <2>2. rest \subseteq Entries \ {e}
    BY DEF Payments
  <2> HIDE DEF rest
  <2>3. \A x \in rest : entry'[x].amount = entry[x].amount
    BY <1>1, <2>2 DEF SameEntry
  <2> QED
    BY <1>2, <2>1, <2>2, <2>3
<1>6. \A x \in Payments(i) : entry[x].amount \in Int
  BY <1>2 DEF Payments
<1>7. Ledger(i) = entry[e].amount + Sum(entry, rest)
  BY <1>2, <1>3, <1>6, SumTakes, LedgerIsSum
<1> HIDE DEF rest
<1>8. Ledger(i)' = Sum(entry, rest) /\ Sum(entry, rest) \in Int
  <2>1. Sum(entry', rest) = Sum(entry, rest)
    BY <1>5, SumAgrees
  <2> QED
    BY <1>3, <1>5, <2>1, SumIsInt, LedgerIsSum DEF rest
<1>9. \/ Lost(i) = 0 /\ Lost(i)' = entry[e].amount
      \/ Lost(i)' = Lost(i)
  BY <1>1, <1>2 DEF Lost, SameEntry
<1>10. Lost(i) \in Nat /\ Ledger(i) + Lost(i) <= inst[i].paid
  BY <1>2 DEF Lost, TotalSound
<1>11. Ledger(i)' + Lost(i)' <= inst[i].paid
  BY <1>2, <1>7, <1>8, <1>9, <1>10
<1> QED
  BY <1>1, <1>4, <1>11 DEF TotalSound

LEMMA StillFinite ==
  ASSUME FinitelyPosted, NEW e, \A x \in Entries \ {e} : entry'[x].status = "posted" => entry[x].status = "posted"
  PROVE  FinitelyPosted'
<1> DEFINE posted == {x \in Entries : entry[x].status = "posted"}
<1>1. posted' \subseteq posted \cup {e}
  OBVIOUS
<1>2. IsFiniteSet(posted \cup {e})
  BY FS_AddElement DEF FinitelyPosted
<1>3. IsFiniteSet(posted')
  BY <1>1, <1>2, FS_Subset
<1> QED
  BY <1>3 DEF FinitelyPosted

LEMMA NextTotals ==
  ASSUME TypeOK, LastSound, TotalsInv, [Book!Next]_Book!bookVars
  PROVE  TotalsInv'
<1> USE InstallmentsAssumption DEF TotalsInv
<1>1. ASSUME NEW i \in Installments, NEW e \in Entries, NEW amount \in 1 .. Amount, Pays(i, e, amount)
      PROVE  TotalsInv'
  <2>1. ASSUME NEW j \in Installments \ {i} PROVE TotalSound(j)'
    <3>1. /\ SameInst(j)
          /\ \A x \in Entries : \/ SameEntry(x)
                                \/ /\ entry[x].status = "free" \/ entry[x].inst # j
                                   /\ entry'[x].status = "free" \/ entry'[x].inst # j
      BY <1>1 DEF Pays, PostedBy
    <3> QED
      BY <3>1, SameTotal
  <2>2. TotalSound(i)'
    BY <1>1, PaysSound
  <2>3. FinitelyPosted'
    BY <1>1, StillFinite DEF Pays, SameEntry
  <2> QED
    BY <2>1, <2>2, <2>3
<1>2. ASSUME NEW i \in Installments, NEW e \in Entries, Repairs(i, e)
      PROVE  TotalsInv'
  <2>0. PICK old \in Entries : old = inst[i].last
    BY <1>2 DEF Repairs, TypeOK, InstRows
  <2>a. /\ entry[old].inst = i /\ entry'[old].inst = i /\ entry'[old].status = "void"
        /\ entry[e].status = "free" /\ entry'[e].inst = i
        /\ \A x \in Entries \ {e, old} : SameEntry(x)
        /\ \A j \in Installments \ {i} : SameInst(j)
    BY <1>2, <2>0 DEF Repairs, PostedBy, LastSound
  <2>1. ASSUME NEW j \in Installments \ {i} PROVE TotalSound(j)'
    <3>1. /\ SameInst(j)
          /\ \A x \in Entries : \/ SameEntry(x)
                                \/ /\ entry[x].status = "free" \/ entry[x].inst # j
                                   /\ entry'[x].status = "free" \/ entry'[x].inst # j
      BY <2>a
    <3> QED
      BY <3>1, SameTotal
  <2>2. TotalSound(i)'
    BY <1>2, RepairsSound
  <2>3. FinitelyPosted'
    <3>1. \A x \in Entries \ {e} : entry'[x].status = "posted" => entry[x].status = "posted"
      BY <2>a DEF SameEntry
    <3> QED
      BY <3>1, StillFinite
  <2> QED
    BY <2>1, <2>2, <2>3
<1>3. ASSUME NEW e \in Entries, Voids(e)
      PROVE  TotalsInv'
  <2>1. ASSUME NEW j \in Installments, entry[e].inst # j PROVE TotalSound(j)'
    <3>1. /\ SameInst(j)
          /\ \A x \in Entries : \/ SameEntry(x)
                                \/ /\ entry[x].status = "free" \/ entry[x].inst # j
                                   /\ entry'[x].status = "free" \/ entry'[x].inst # j
      BY <1>3, <2>1 DEF Voids
    <3> QED
      BY <3>1, SameTotal
  <2>2. ASSUME NEW j \in Installments, entry[e].inst = j PROVE TotalSound(j)'
    BY <1>3, <2>2, VoidsSound
  <2>3. FinitelyPosted'
    BY <1>3, StillFinite DEF Voids, SameEntry
  <2> QED
    BY <2>1, <2>2, <2>3
<1>4. ASSUME \A x \in Entries : SameEntry(x), \A i \in Installments : SameInst(i)
      PROVE  TotalsInv'
  <2>1. ASSUME NEW j \in Installments PROVE TotalSound(j)'
    BY <1>4, SameTotal
  <2>2. FinitelyPosted'
    BY <1>4, StillFinite DEF SameEntry
  <2> QED
    BY <2>1, <2>2
<1> QED
  BY <1>1, <1>2, <1>3, <1>4, BookRows

LEMMA InitTotals == Init => TotalsInv
<1> SUFFICES ASSUME Init PROVE TotalsInv
  OBVIOUS
<1>1. FinitelyPosted
  <2>1. {e \in Entries : entry[e].status = "posted"} = {}
    BY DEF Init, NoEntry
  <2> QED
    BY <2>1, FS_EmptySet DEF FinitelyPosted
<1>2. ASSUME NEW i \in Installments PROVE TotalSound(i)
  <2>1. Payments(i) = {} /\ Lost(i) = 0 /\ inst[i].paid = 0
    BY DEF Init, NoEntry, Payments, Lost
  <2>2. Ledger(i) = 0
    BY <2>1, LedgerIsSum, SumOfNone
  <2> QED
    BY <2>1, <2>2 DEF TotalSound
<1> QED
  BY <1>1, <1>2 DEF TotalsInv

LEMMA TotalsHold ==
  ASSUME TypeOK, TotalsInv
  PROVE  RunningTotal
<1> USE InstallmentsAssumption
<1>1. ASSUME NEW i \in Installments
      PROVE  Ledger(i) <= inst[i].paid /\ (Voided(i) = {} => Ledger(i) = inst[i].paid)
  <2>1. Lost(i) \in Nat
    BY PaymentsSummed DEF Lost, TotalsInv, TypeOK, InstRows
  <2>2. Ledger(i) \in Int /\ inst[i].paid \in Int
    BY PaymentsSummed DEF TotalsInv, TypeOK, InstRows
  <2> QED
    BY <2>1, <2>2 DEF TotalsInv, TotalSound
<1> QED
  BY <1>1 DEF RunningTotal

\* However payments are made, reversed by hand and repaired, and by however many
\* sessions: the ledger never holds more of an installment than its running total,
\* and exactly that while none of its payments was voided.  The row's lock keeps
\* two payments from adding to the same total, and a repair posts once what it voids.
THEOREM RunningTotalIsPosted ==
  ASSUME "form" \notin Ways, Installments # {}
  PROVE  Spec => []RunningTotal
<1>1. Init => DebtInv /\ BookInv /\ TotalsInv
  BY InitInv, InitBook, InitTotals
<1>2. DebtInv /\ BookInv /\ TotalsInv /\ [Next]_vars => DebtInv' /\ BookInv' /\ TotalsInv'
  <2> SUFFICES ASSUME DebtInv, BookInv, TotalsInv, [Next]_vars
               PROVE  DebtInv' /\ BookInv' /\ TotalsInv'
    OBVIOUS
  <2>1. TypeOK /\ LastSound
    BY DEF DebtInv, BookInv
  <2>2. [Book!Next]_Book!bookVars
    BY BookStep
  <2>3. TotalsInv'
    BY <2>1, <2>2, NextTotals
  <2> QED
    BY <2>3, NextInvs
<1>3. DebtInv /\ TotalsInv => RunningTotal
  BY TotalsHold DEF DebtInv
<1> QED
  BY <1>1, <1>2, <1>3, PTL DEF Spec
-----------------------------------------------------------------------------
(* Planning and ledger are linked (integrity/service.ts:68-74): what a session writes *)
(* into an installment is the entry it posts with it.                                 *)

PostsAnEntry == \A s \in Sessions : session[s].pc \in {"begun", "posting", "updated"} => session[s].new \in Entries

PaidNamesItsEntry ==
    \A i \in Installments :
        inst[i].paid > 0 => /\ inst[i].last \in Entries
                            /\ entry[inst[i].last].status # "free"

PaidInv == TypeOK /\ PostsAnEntry /\ PaidNamesItsEntry

LEMMA NextPostsAnEntry ==
  ASSUME TypeOK, PostsAnEntry, [Next]_vars
  PROVE  PostsAnEntry'
<1> USE InstallmentsAssumption DEF PostsAnEntry
<1>1. ASSUME NEW s \in Sessions, NEW row, row.pc \in {"begun", "posting", "updated"} => row.new \in Entries,
             session' = [session EXCEPT ![s] = row]
      PROVE  PostsAnEntry'
  BY <1>1 DEF TypeOK
<1>2. ASSUME NEW s \in Sessions, NEW i \in Installments, NEW amount, NEW bank,
             BeginQuickPay(s, i, amount, bank) \/ BeginForm(s, i, amount, bank) \/ BeginRepair(s, i)
      PROVE  PostsAnEntry'
  BY <1>1, <1>2 DEF BeginQuickPay, BeginForm, BeginRepair, FreshEntries, At
<1>3. ASSUME NEW s \in Sessions, Abort(s) \/ Ended(s)
      PROVE  PostsAnEntry'
  BY <1>1, <1>3 DEF Abort, Ended, Idle, At
<1>4. ASSUME NEW s \in Sessions, NEW way, JudgeDebt(s, way) \/ WriteDebt(s)
      PROVE  PostsAnEntry'
  BY <1>1, <1>4 DEF JudgeDebt, WriteDebt, Idle, At
<1>5. ASSUME NEW s \in Sessions, LockContra(s) \/ UpdateInstallment(s)
      PROVE  PostsAnEntry'
  <2>1. CASE LockContra(s)
    BY <2>1 DEF LockContra, TypeOK, SessionStates
  <2>2. CASE UpdateInstallment(s)
    BY <2>2, UpdateInstallmentIs
  <2>3. QED
    BY <1>5, <2>1, <2>2
<1>6. ASSUME NEW s \in Sessions, NEW e \in Entries, Reverse(s, e)
      PROVE  PostsAnEntry'
  BY <1>6 DEF Reverse
<1>7. ASSUME NEW s \in Sessions, CommitPayment(s) \/ CommitRepair(s)
      PROVE  PostsAnEntry'
  BY <1>3, <1>7 DEF CommitPayment, CommitRepair
<1> QED
  BY <1>2, <1>3, <1>4, <1>5, <1>6, <1>7 DEF vars, Next, Begin, Continue, BreakDeadlock, Rollback

\* What a commit posts, and what was posted before it, is posted or void.
LEMMA BookedStays ==
  ASSUME TypeOK, NEW s \in Sessions, NEW e \in Entries, e = session[s].new \/ entry[e].status # "free"
  PROVE  Booked(s)[e].status # "free"
BY DEF Booked, TypeOK, EntryRows

LEMMA NextPaidNamesItsEntry ==
  ASSUME PaidInv, [Next]_vars
  PROVE  PaidNamesItsEntry'
<1> USE InstallmentsAssumption DEF PaidInv
<1> DEFINE Named(i) == inst[i].last \in Entries /\ entry[inst[i].last].status # "free"
<1>1. ASSUME inst' = inst, \A e \in Entries : entry[e].status # "free" => entry'[e].status # "free"
      PROVE  PaidNamesItsEntry'
  BY <1>1 DEF PaidNamesItsEntry
<1>2. ASSUME NEW s \in Sessions, entry' = Booked(s), session[s].new \in Entries,
             \A i \in Installments : \/ inst'[i] = inst[i]
                                     \/ inst'[i].last = session[s].new
      PROVE  PaidNamesItsEntry'
  <2>1. SUFFICES ASSUME NEW i \in Installments, inst'[i].paid > 0
                 PROVE  Named(i)'
    BY DEF PaidNamesItsEntry
  <2>2. CASE inst'[i] = inst[i]
    <3>1. Named(i)
      BY <2>1, <2>2 DEF PaidNamesItsEntry
    <3> QED
      BY <1>2, <2>2, <3>1, BookedStays
  <2>3. CASE inst'[i].last = session[s].new
    BY <1>2, <2>3, BookedStays
  <2> QED
    BY <1>2, <2>2, <2>3
<1>3. ASSUME NEW s \in Sessions, CommitPayment(s) \/ CommitRepair(s)
      PROVE  PaidNamesItsEntry'
  <2>1. CASE Abort(s)
    BY <1>1, <2>1 DEF Abort
  <2>2. CASE ~Abort(s)
    <3>1. entry' = Booked(s) /\ session[s].new \in Entries
      BY <1>3, <2>2 DEF CommitPayment, CommitRepair, PostsAnEntry
    <3>2. ASSUME NEW i \in Installments
          PROVE  inst'[i] = inst[i] \/ inst'[i].last = session[s].new
      <4>1. inst[i] \in InstRows
        BY DEF TypeOK
      <4>2. CASE CommitPayment(s)
        BY <4>1, <4>2 DEF CommitPayment, WithPayment, TypeOK
      <4>3. CASE CommitRepair(s)
        BY <2>2, <4>1, <4>3 DEF CommitRepair, TypeOK, InstRows
      <4> QED
        BY <1>3, <4>2, <4>3
    <3> QED
      BY <1>2, <3>1, <3>2
  <2> QED
    BY <2>1, <2>2
<1>4. ASSUME NEW s \in Sessions, NEW e \in Entries, Reverse(s, e)
      PROVE  PaidNamesItsEntry'
  BY <1>1, <1>4 DEF Reverse, TypeOK, EntryRows
<1>5. CASE UNCHANGED <<inst, entry>>
  BY <1>1, <1>5
<1>6. ASSUME NEW s \in Sessions, NEW i, NEW amount, NEW bank,
             BeginQuickPay(s, i, amount, bank) \/ BeginForm(s, i, amount, bank) \/ BeginRepair(s, i)
      PROVE  UNCHANGED <<inst, entry>>
  BY <1>6 DEF BeginQuickPay, BeginForm, BeginRepair
<1>7. ASSUME NEW s \in Sessions, NEW way,
             JudgeDebt(s, way) \/ WriteDebt(s) \/ LockContra(s) \/ UpdateInstallment(s) \/ Abort(s)
      PROVE  UNCHANGED <<inst, entry>>
  BY <1>7 DEF JudgeDebt, WriteDebt, LockContra, UpdateInstallment, Abort
<1>8. CASE Next
  <2>1. PICK s \in Sessions : Begin(s) \/ Continue(s) \/ BreakDeadlock(s) \/ Rollback(s)
    BY <1>8 DEF Next
  <2>2. CASE Begin(s)
    BY <1>4, <1>5, <1>6, <1>7, <2>2 DEF Begin
  <2>3. CASE Continue(s)
    BY <1>3, <1>5, <1>7, <2>3 DEF Continue
  <2>4. CASE BreakDeadlock(s) \/ Rollback(s)
    BY <1>5, <1>7, <2>4 DEF BreakDeadlock, Rollback
  <2> QED
    BY <2>1, <2>2, <2>3, <2>4
<1> QED
  BY <1>5, <1>8 DEF vars

\* In every deployment, the form's included: an installment on which anything was
\* paid names an entry that was posted, as runIntegrityChecks asks of the paid ones
\* (integrity/service.ts:68-74), whatever is reversed and repaired since.
THEOREM PaidInstallmentsNameTheirEntry == Spec => []PaidNamesItsEntry
<1>1. Init => PaidInv
  BY InstallmentsAssumption
  DEF Init, PaidInv, PostsAnEntry, PaidNamesItsEntry, TypeOK, At, Idle, NoEntry, InstRows, DebtRows, EntryRows,
      SessionStates
<1>2. PaidInv /\ [Next]_vars => PaidInv'
  BY NextType, NextPostsAnEntry, NextPaidNamesItsEntry DEF PaidInv
<1>3. PaidInv => PaidNamesItsEntry
  BY DEF PaidInv
<1> QED
  BY <1>1, <1>2, <1>3, PTL DEF Spec
=============================================================================
