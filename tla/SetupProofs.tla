----------------------------- MODULE SetupProofs -----------------------------
(***************************************************************************)
(* The set-up's safety for every set of sessions, items, vehicles, data    *)
(* and requests, and any number of failures.                               *)
(*                                                                         *)
(* The argument is about the copies.  The attempt whose token is on the    *)
(* row has the row's progress in its memory, so the receipt it adds takes  *)
(* none away, and the receipts tell what has been recorded; an attempt     *)
(* that lost the row may hold anything, and writes nothing.                *)
(***************************************************************************)
EXTENDS Setup, TLAPS

Early == {"checked", "leased", "base", "posting"}
Late == {"items", "creating", "valuing"}

\* A receipt for each thing recorded, and for nothing else; the accounts come first.
ReceiptsSound ==
    /\ \A j \in Jobs : made[j] = IF row.progress[j] = None THEN <<>> ELSE <<row.progress[j]>>
    /\ row.progress[Base] = None => \A j \in Jobs : row.progress[j] = None

\* The attempt that holds the lease has the row's progress.
CopySound ==
    \A s \in Sessions : Holds(s) /\ Running(s) => session[s].progress = row.progress

\* What an attempt's place in the request says of its progress.
AttemptSound(a) ==
    /\ a.pc \in Early \cup Late => a.request \in Requests
    /\ a.pc \in Early => a.todo = JobsOf(a.request)
    /\ a.pc \in {"base", "posting"} => a.progress[Base] = None
    /\ a.pc \in {"creating", "valuing"} => a.job \in JobsOf(a.request) \ a.todo
    /\ a.pc = "creating" => a.progress[a.job] = None
    /\ a.pc = "valuing" => a.job \in Vehicles
    /\ a.pc \in Late =>
          /\ a.todo \subseteq JobsOf(a.request)
          /\ a.progress[Base] = a.request[Base]
          /\ \A i \in JobsOf(a.request) \ a.todo :
                ~(a.pc = "creating" /\ i = a.job) => a.progress[i] = a.request[i]

AttemptsSound == \A s \in Sessions : AttemptSound(session[s])

\* The vehicles an attempt is done with have their value.
ValuesSound ==
    \A s \in Sessions : session[s].pc \in Late =>
        \A i \in (JobsOf(session[s].request) \ session[s].todo) \cap Vehicles :
            i \in valued \/ (session[s].pc # "items" /\ i = session[s].job)

\* Once the wizard is done, the attempt that holds the lease does not go on.
Sealed ==
    completed.how = "finished" =>
        \A s \in Sessions : Holds(s) => session[s].pc \notin {"base", "posting"} \cup Late

\* Nothing is recorded for a user who had accounts.
LegacySound ==
    legacy =>
        /\ row.progress = NoProgress
        /\ \A s \in Sessions :
              /\ session[s].progress = NoProgress
              /\ session[s].pc \notin {"posting"} \cup Late

\* A confirmation under way has the row locked, with nothing begun on it.
LockSound ==
    \A s \in Sessions :
        rowLock = s =>
            /\ session[s].pc = "confirming"
            /\ row.progress[Base] = None
            /\ row.lease = None

SetupInv ==
    /\ TypeOK /\ ReceiptsSound /\ CopySound /\ AttemptsSound /\ ValuesSound
    /\ Sealed /\ LegacySound /\ LockSound /\ CompletedWhole

-----------------------------------------------------------------------------
LEMMA InitInv == Init => SetupInv
<1> SUFFICES ASSUME Init PROVE SetupInv
  OBVIOUS
<1> USE SetupAssumption DEF Init, Base, Jobs, NoRow, Idle, NoProgress
<1>1. TypeOK
  <2>1. row \in SessionRows /\ session \in [Sessions -> AttemptStates]
    BY DEF SessionRows, AttemptStates, Progresses
  <2>2. made \in [Jobs -> Seq(Versions)]
    OBVIOUS
  <2>3. completed \in Completions
    BY DEF Completions
  <2>4. rowLock \in Sessions \cup {None} /\ valued \subseteq Vehicles /\ legacy \in BOOLEAN
    OBVIOUS
  <2>5. faults \in 0..MaxFaults
    OBVIOUS
  <2> HIDE DEF Init, Base, Jobs, NoRow, Idle, NoProgress
  <2>6. QED
    BY <2>1, <2>2, <2>3, <2>4, <2>5 DEF TypeOK
<1>2. ReceiptsSound
  BY DEF ReceiptsSound
<1>3. CopySound /\ Sealed /\ LockSound
  BY DEF CopySound, Sealed, LockSound, Running, Early, Late
<1>4. AttemptsSound /\ ValuesSound /\ LegacySound
  BY DEF AttemptsSound, AttemptSound, ValuesSound, LegacySound, Early, Late
<1>5. CompletedWhole
  BY DEF CompletedWhole
<1>6. QED
  BY <1>1, <1>2, <1>3, <1>4, <1>5 DEF SetupInv

-----------------------------------------------------------------------------
Places ==
    {"idle", "checked", "leased", "base", "posting", "items", "creating", "valuing", "ending", "confirming"}

\* The types of what the steps write.
LEMMA GoesType ==
  ASSUME TypeOK, NEW s \in Sessions, NEW pc \in Places, Goes(s, pc)
  PROVE  session' \in [Sessions -> AttemptStates]
<1> DEFINE gone == [session[s] EXCEPT !.pc = pc]
<1>1. session \in [Sessions -> AttemptStates] /\ session[s] \in AttemptStates
  BY DEF TypeOK
<1>2. gone \in AttemptStates
  BY <1>1, Zenon DEF AttemptStates, Places
<1>3. session' = [session EXCEPT ![s] = gone]
  BY <1>1 DEF Goes
<1> HIDE DEF gone
<1>4. QED
  BY <1>1, <1>2, <1>3

LEMMA StopsType ==
  ASSUME TypeOK, NEW s \in Sessions, session' = [session EXCEPT ![s] = Idle]
  PROVE  session' \in [Sessions -> AttemptStates]
<1>1. Idle \in AttemptStates
  BY DEF Idle, AttemptStates, NoProgress, Progresses, Jobs
<1>2. QED
  BY <1>1 DEF TypeOK

LEMMA RequestType ==
  ASSUME SetupInv, NEW s \in Sessions, session[s].pc \in Early \cup Late
  PROVE  /\ session[s].request \in Requests
         /\ session[s].request[Base] \in Versions
         /\ session[s].pc \in {"creating", "valuing"} =>
               session[s].job \in Items /\ session[s].request[session[s].job] \in Versions
BY SetupAssumption DEF SetupInv, AttemptsSound, AttemptSound, JobsOf, Jobs

\* What a transaction that records job j changes, of the row, the books and the attempt.
Records(s, j, pc) ==
    /\ row' \in SessionRows
    /\ session' \in [Sessions -> AttemptStates]
    /\ made' \in [Jobs -> Seq(Versions)]
    /\ row.lease = s /\ row'.lease = s
    /\ row'.draft = row.draft
    /\ row'.progress = [row.progress EXCEPT ![j] = session[s].request[j]]
    /\ row.progress[j] = None
    /\ session[s].progress = row.progress
    /\ session'[s].progress = row'.progress
    /\ session'[s].pc = pc
    /\ session'[s].request = session[s].request
    /\ session'[s].todo = session[s].todo
    /\ session'[s].job = session[s].job
    /\ \A t \in Sessions \ {s} : session'[t] = session[t]
    /\ made[j] = <<>> /\ made'[j] = <<session[s].request[j]>>
    /\ \A k \in Jobs \ {j} : made'[k] = made[k]

LEMMA RecordedCases ==
  ASSUME SetupInv, NEW s \in Sessions, NEW j \in Jobs, session[s].request[j] \in Versions,
         session[s].progress[j] = None, session[s].pc \in {"posting", "creating"},
         NEW pc \in Places, Recorded(s, j, pc)
  PROVE  Records(s, j, pc)
<1> DEFINE p == [session[s].progress EXCEPT ![j] = session[s].request[j]]
           r == [row EXCEPT !.expired = FALSE, !.progress = p]
           a == [session[s] EXCEPT !.pc = pc, !.progress = p]
<1>1. session[s] \in AttemptStates /\ row \in SessionRows
  BY DEF SetupInv, TypeOK
<1>2. p \in Progresses
  BY <1>1 DEF AttemptStates, Progresses
<1>3. row.lease = s /\ session[s].progress = row.progress
  BY DEF Recorded, Holds, SetupInv, CopySound, Running, Early, Late
<1>4. row' = r /\ session' = [session EXCEPT ![s] = a]
  BY <1>1 DEF Recorded, AttemptStates
<1> HIDE DEF p
<1>5. r \in SessionRows /\ r.progress = p /\ r.lease = row.lease /\ r.draft = row.draft
  BY <1>1, <1>2 DEF SessionRows
<1>6. a \in AttemptStates /\ a.progress = p /\ a.pc = pc /\ a.request = session[s].request
      /\ a.todo = session[s].todo /\ a.job = session[s].job
  BY <1>1, <1>2 DEF AttemptStates, Places
<1> HIDE DEF r, a
<1>7. session' \in [Sessions -> AttemptStates] /\ session'[s] = a
      /\ \A t \in Sessions \ {s} : session'[t] = session[t]
  BY <1>4, <1>6 DEF SetupInv, TypeOK
<1>8. made[j] = <<>>
  BY <1>3 DEF SetupInv, ReceiptsSound
<1>9. made' \in [Jobs -> Seq(Versions)] /\ made'[j] = <<session[s].request[j]>>
      /\ \A k \in Jobs \ {j} : made'[k] = made[k]
  BY <1>8 DEF Recorded, SetupInv, TypeOK
<1>10. p = [row.progress EXCEPT ![j] = session[s].request[j]]
  BY <1>3 DEF p
<1>11. QED
  BY <1>3, <1>4, <1>5, <1>6, <1>7, <1>8, <1>9, <1>10 DEF Records

LEMMA BeginInv ==
  ASSUME SetupInv, NEW s \in Sessions, NEW r \in Requests, Begin(s, r)
  PROVE  SetupInv'
<1> USE SetupAssumption DEF SetupInv, Base, Jobs, books
<1>1. TypeOK'
  <2>1. [Idle EXCEPT !.pc = "checked", !.request = r, !.todo = JobsOf(r)] \in AttemptStates
    BY DEF Idle, AttemptStates, NoProgress, Progresses, JobsOf
  <2>2. session' \in [Sessions -> AttemptStates]
    BY <2>1 DEF Begin, TypeOK
  <2>3. QED
    BY <2>2 DEF Begin, Fault, TypeOK
<1>2. ReceiptsSound'
  BY DEF Begin, Fault, JobsOf, Completed, ReceiptsSound, TypeOK
<1>3. CopySound'
  BY DEF Begin, Fault, JobsOf, Completed, CopySound, Holds, Running, TypeOK, SessionRows, AttemptStates, Idle
<1>4. AttemptsSound'
  BY DEF Begin, Fault, JobsOf, Completed, AttemptsSound, AttemptSound, Early, Late, TypeOK, AttemptStates, Idle
<1>5. ValuesSound'
  BY DEF Begin, Fault, JobsOf, Completed, ValuesSound, Late, TypeOK, AttemptStates, Idle
<1>6. Sealed'
  BY DEF Begin, Fault, JobsOf, Completed, Sealed, Holds, Late, TypeOK, SessionRows, AttemptStates, Completions, Idle
<1>7. LegacySound'
  BY DEF Begin, Fault, JobsOf, Completed, LegacySound, Late, TypeOK, SessionRows, AttemptStates, Idle
<1>8. LockSound'
  BY DEF Begin, Fault, JobsOf, Completed, LockSound, TypeOK, SessionRows, AttemptStates, Idle
<1>9. CompletedWhole'
  BY DEF Begin, Fault, JobsOf, Completed, CompletedWhole, TypeOK, SessionRows, Completions
<1>10. QED
  BY <1>1, <1>2, <1>3, <1>4, <1>5, <1>6, <1>7, <1>8, <1>9

LEMMA TakeLeaseInv ==
  ASSUME SetupInv, NEW s \in Sessions, TakeLease(s)
  PROVE  SetupInv'
<1> USE SetupAssumption DEF SetupInv, Base, Jobs, books
<1>a. CASE ~Free
  <2>1. session' = [session EXCEPT ![s] = Idle] /\ UNCHANGED <<row, rowLock, made, valued, legacy, completed, faults>>
    BY <1>a DEF TakeLease
  <2>2. session' \in [Sessions -> AttemptStates]
    BY <2>1, StopsType
  <2>3. TypeOK'
    BY <2>1, <2>2 DEF TypeOK
  <2>4. session'[s] = Idle /\ \A t \in Sessions \ {s} : session'[t] = session[t]
    BY <2>1 DEF TypeOK
  <2>5. ReceiptsSound' /\ CompletedWhole'
    BY <2>1 DEF ReceiptsSound, CompletedWhole
  <2>6. CopySound' /\ AttemptsSound' /\ ValuesSound'
    BY <2>1, <2>4 DEF CopySound, Holds, Running, AttemptsSound, AttemptSound, ValuesSound, Early, Late, Idle
  <2>7. Sealed' /\ LegacySound' /\ LockSound'
    BY <2>1, <2>4 DEF TakeLease, Sealed, Holds, LegacySound, LockSound, Early, Late, Idle
  <2>8. QED
    BY <2>3, <2>5, <2>6, <2>7
<1>b. ASSUME Free
      PROVE  /\ row' \in SessionRows
             /\ row'.lease = s /\ row'.progress = row.progress /\ row'.draft = row.draft
             /\ UNCHANGED <<rowLock, made, valued, legacy, completed, faults>>
             /\ rowLock = None
  <2>1. /\ row' = [row EXCEPT !.exists = TRUE, !.lease = s, !.expired = FALSE]
        /\ UNCHANGED <<rowLock, made, valued, legacy, completed, faults>>
        /\ rowLock = None
    BY <1>b DEF TakeLease
  <2>2. row \in SessionRows
    BY DEF TypeOK
  <2>3. /\ row' \in SessionRows
        /\ row'.lease = s /\ row'.progress = row.progress /\ row'.draft = row.draft
    BY <2>1, <2>2 DEF SessionRows
  <2>4. QED
    BY <2>1, <2>3
<1>c. ASSUME Free
      PROVE  /\ session' \in [Sessions -> AttemptStates]
             /\ session[s].pc = "checked" /\ session'[s].pc = "leased"
             /\ session'[s].progress = row.progress
             /\ session'[s].request = session[s].request
             /\ session'[s].todo = session[s].todo
             /\ session'[s].job = session[s].job
             /\ \A t \in Sessions \ {s} : session'[t] = session[t]
  <2> DEFINE a == [session[s] EXCEPT !.pc = "leased", !.progress = row.progress]
  <2>1. session[s] \in AttemptStates /\ row.progress \in Progresses
    BY DEF TypeOK, SessionRows
  <2>2. a \in AttemptStates /\ a.pc = "leased" /\ a.progress = row.progress
        /\ a.request = session[s].request /\ a.todo = session[s].todo /\ a.job = session[s].job
    BY <2>1 DEF AttemptStates
  <2>3. session' = [session EXCEPT ![s] = [@ EXCEPT !.pc = "leased", !.progress = row.progress]]
    BY <1>c DEF TakeLease
  <2>4. session' = [session EXCEPT ![s] = a]
    BY <2>3
  <2>5. session[s].pc = "checked"
    BY DEF TakeLease
  <2> HIDE DEF a
  <2>6. QED
    BY <2>2, <2>4, <2>5 DEF TypeOK
<1>d. CASE Free
  <2>1. TypeOK'
    BY <1>b, <1>c, <1>d DEF TypeOK
  <2>2. ReceiptsSound' /\ CompletedWhole'
    BY <1>b, <1>d DEF ReceiptsSound, CompletedWhole
  <2>3. CopySound'
    BY <1>b, <1>c, <1>d DEF CopySound, Holds, Running
  <2>4. AttemptsSound'
    BY <1>b, <1>c, <1>d DEF AttemptsSound, AttemptSound, Early, Late
  <2>5. ValuesSound' /\ Sealed'
    BY <1>b, <1>c, <1>d DEF ValuesSound, Sealed, Holds, Late
  <2>6. LegacySound'
    BY <1>b, <1>c, <1>d DEF LegacySound, Late
  <2>7. LockSound'
    BY <1>b, <1>c, <1>d DEF LockSound
  <2>8. QED
    BY <2>1, <2>2, <2>3, <2>4, <2>5, <2>6, <2>7
<1>e. QED
  BY <1>a, <1>d

LEMMA RecheckInv ==
  ASSUME SetupInv, NEW s \in Sessions, Recheck(s)
  PROVE  SetupInv'
<1> USE SetupAssumption DEF SetupInv, Base, Jobs, books
<1>1. TypeOK'
  <2>1. session' \in [Sessions -> AttemptStates]
    BY GoesType DEF Recheck, Places, Completed
  <2>2. QED
    BY <2>1 DEF Recheck, TypeOK
<1>2. ReceiptsSound'
  BY DEF Recheck, Goes, Completed, ReceiptsSound, TypeOK
<1>3. CopySound'
  BY DEF Recheck, Goes, Completed, CopySound, Holds, Running, TypeOK, SessionRows, AttemptStates, Idle
<1>4. AttemptsSound'
  BY DEF Recheck, Goes, Completed, AttemptsSound, AttemptSound, Early, Late, TypeOK, AttemptStates, Idle
<1>5. ValuesSound'
  <2>1. session'[s].pc \in Late => session[s].todo = JobsOf(session[s].request)
    BY DEF Recheck, AttemptsSound, AttemptSound, Early
  <2>2. /\ session'[s].todo = session[s].todo
        /\ session'[s].request = session[s].request
        /\ \A t \in Sessions \ {s} : session'[t] = session[t]
    BY DEF Recheck, Goes, TypeOK, AttemptStates
  <2>3. UNCHANGED valued
    BY DEF Recheck
  <2>4. session'[s].pc \in Late => JobsOf(session'[s].request) \ session'[s].todo = {}
    BY <2>1, <2>2
  <2>5. QED
    BY <2>2, <2>3, <2>4 DEF ValuesSound
<1>6. Sealed'
  BY DEF Recheck, Goes, Completed, Sealed, Holds, Late, TypeOK, SessionRows, AttemptStates, Completions, Idle
<1>7. LegacySound'
  <2>1. CASE legacy
    <3>1. session[s].progress[Base] = None
      BY <2>1 DEF LegacySound, NoProgress
    <3>2. session[s].request[Base] # None
      BY RequestType DEF Recheck, Early
    <3>3. session'[s].pc \in {"base", "ending"}
      BY <3>1, <3>2 DEF Recheck, Goes, TypeOK, AttemptStates
    <3>4. /\ session'[s].progress = session[s].progress
          /\ \A t \in Sessions \ {s} : session'[t] = session[t]
          /\ UNCHANGED row
      BY DEF Recheck, Goes, TypeOK, AttemptStates
    <3>5. QED
      BY <2>1, <3>3, <3>4 DEF LegacySound, Late
  <2>2. QED
    BY <2>1 DEF Recheck, LegacySound
<1>8. LockSound'
  BY DEF Recheck, Goes, Completed, LockSound, TypeOK, SessionRows, AttemptStates, Idle
<1>9. CompletedWhole'
  BY DEF Recheck, Goes, Completed, CompletedWhole, TypeOK, SessionRows, Completions
<1>10. QED
  BY <1>1, <1>2, <1>3, <1>4, <1>5, <1>6, <1>7, <1>8, <1>9

LEMMA CheckAccountsInv ==
  ASSUME SetupInv, NEW s \in Sessions, CheckAccounts(s)
  PROVE  SetupInv'
<1> USE SetupAssumption DEF SetupInv, Base, Jobs, books
<1>1. TypeOK'
  <2>1. session' \in [Sessions -> AttemptStates]
    BY GoesType DEF CheckAccounts, Places, Completed
  <2>2. QED
    BY <2>1 DEF CheckAccounts, TypeOK
<1>2. ReceiptsSound'
  BY DEF CheckAccounts, Goes, Completed, ReceiptsSound, TypeOK
<1>3. CopySound'
  BY DEF CheckAccounts, Goes, Completed, CopySound, Holds, Running, TypeOK, SessionRows, AttemptStates, Idle
<1>4. AttemptsSound'
  BY DEF CheckAccounts, Goes, Completed, AttemptsSound, AttemptSound, Early, Late, TypeOK, AttemptStates, Idle
<1>5. ValuesSound'
  BY DEF CheckAccounts, Goes, Completed, ValuesSound, Late, TypeOK, AttemptStates, Idle
<1>6. Sealed'
  BY DEF CheckAccounts, Goes, Completed, Sealed, Holds, Late, TypeOK, SessionRows, AttemptStates, Completions, Idle
<1>7. LegacySound'
  BY DEF CheckAccounts, Goes, Completed, LegacySound, Late, TypeOK, SessionRows, AttemptStates, Idle
<1>8. LockSound'
  BY DEF CheckAccounts, Goes, Completed, LockSound, TypeOK, SessionRows, AttemptStates, Idle
<1>9. CompletedWhole'
  BY DEF CheckAccounts, Goes, Completed, CompletedWhole, TypeOK, SessionRows, Completions
<1>10. QED
  BY <1>1, <1>2, <1>3, <1>4, <1>5, <1>6, <1>7, <1>8, <1>9

LEMMA PostBaseInv ==
  ASSUME SetupInv, NEW s \in Sessions, PostBase(s)
  PROVE  SetupInv'
<1> USE SetupAssumption DEF SetupInv, Base, Jobs, books
<1> DEFINE j == Base
<1>a. /\ j \in Jobs
      /\ session[s].pc = "posting"
      /\ session[s].request[j] \in Versions
      /\ session[s].progress[j] = None
  BY RequestType DEF PostBase, SetupInv, AttemptsSound, AttemptSound, Early, Late
<1>b. "items" \in Places /\ Recorded(s, j, "items")
  BY DEF PostBase, Places, After
<1>c. Records(s, j, "items")
  <2>1. session[s].pc \in {"posting", "creating"}
    BY <1>a
  <2>2. QED
    BY <1>a, <1>b, <2>1, RecordedCases, Zenon
<1>d. rowLock = None /\ UNCHANGED <<rowLock, valued, legacy, completed, faults>>
  BY <1>b DEF Recorded
<1>e. row.progress \in Progresses /\ row'.progress \in Progresses
  BY <1>c DEF Records, SetupInv, TypeOK, SessionRows
<1> HIDE DEF j
<1>1. TypeOK'
  BY <1>c, <1>d DEF Records, TypeOK
<1>2. ReceiptsSound'
  <2>1. session[s].request[Base] \in Versions
    BY <1>a, RequestType DEF Early, Late
  <2>2. row'.progress[Base] = session[s].request[Base]
    BY <1>a, <1>c, <1>e DEF Records, AttemptsSound, AttemptSound, Late, Progresses, j
  <2>3. QED
    BY <1>a, <1>c, <1>e, <2>1, <2>2 DEF Records, ReceiptsSound, Progresses
<1>3. CopySound'
  BY <1>c DEF Records, CopySound, Holds, Running
<1>4. AttemptsSound'
  <2>1. AttemptSound(session[s])
    BY DEF AttemptsSound
  <2>2. AttemptSound(session'[s])
    BY <1>a, <1>c, <1>e, <2>1 DEF Records, AttemptSound, Early, Late, Progresses, JobsOf, After, j
  <2>3. QED
    BY <1>c, <2>2 DEF Records, AttemptsSound
<1>5. ValuesSound'
  <2>1. AttemptSound(session[s])
    BY DEF AttemptsSound
  <2>2. \A i \in (JobsOf(session[s].request) \ session[s].todo) \cap Vehicles :
           i \in valued \/ (session'[s].pc # "items" /\ i = session[s].job)
    BY <1>a, <1>c, <2>1 DEF Records, ValuesSound, AttemptSound, Early, Late, After, j
  <2>3. QED
    BY <1>c, <1>d, <2>2 DEF Records, ValuesSound
<1>6. Sealed'
  <2>1. completed.how # "finished"
    BY <1>a, <1>c DEF Records, Sealed, Holds, Late
  <2>2. QED
    BY <1>d, <2>1 DEF Sealed
<1>7. LegacySound'
  <2>1. ~legacy
    BY <1>a DEF LegacySound, Late
  <2>2. QED
    BY <1>d, <2>1 DEF LegacySound
<1>8. LockSound'
  BY <1>c, <1>d DEF Records, LockSound
<1>9. CompletedWhole'
  <2>1. completed.how # "finished"
    BY <1>a, <1>c DEF Records, Sealed, Holds, Late
  <2>2. completed.how # "confirmed"
    BY <1>a DEF CompletedWhole, LegacySound, Late
  <2>3. QED
    BY <1>d, <2>1, <2>2 DEF CompletedWhole
<1>10. QED
  BY <1>1, <1>2, <1>3, <1>4, <1>5, <1>6, <1>7, <1>8, <1>9

LEMMA BeginItemInv ==
  ASSUME SetupInv, NEW s \in Sessions, NEW i \in Items, BeginItem(s, i)
  PROVE  SetupInv'
<1> USE SetupAssumption DEF SetupInv, Base, Jobs, books
<1> DEFINE pc == CASE session[s].progress[i] = None -> "creating"
                  [] session[s].progress[i] = session[s].request[i] -> After(i)
                  [] OTHER -> "ending"
           a == [session[s] EXCEPT !.todo = session[s].todo \ {i}, !.job = i, !.pc = pc]
<1>a. /\ session[s] \in AttemptStates
      /\ pc \in Places
      /\ session[s].pc = "items"
      /\ i \in session[s].todo /\ i \in JobsOf(session[s].request)
      /\ rowLock = None /\ row.lease = s
      /\ UNCHANGED <<rowLock, made, valued, legacy, completed, faults>>
  BY DEF BeginItem, TypeOK, After, Places, Holds, AttemptsSound, AttemptSound, Late
<1>b. session' = [session EXCEPT ![s] = [@ EXCEPT !.todo = session[s].todo \ {i}, !.job = i, !.pc = pc]]
  BY DEF BeginItem
<1>c. session[s].progress = row.progress
  BY <1>a DEF CopySound, Holds, Running
<1>d. row' \in SessionRows /\ row'.progress = row.progress /\ row'.lease = row.lease /\ row'.draft = row.draft
  BY <1>c DEF BeginItem, TypeOK, SessionRows
<1>e. /\ pc = "creating" => session[s].progress[i] = None
      /\ pc \in {"valuing", "items"} => session[s].progress[i] = session[s].request[i]
      /\ pc = "valuing" <=> (i \in Vehicles /\ pc \in {"valuing", "items"})
      /\ pc \in {"creating", "valuing", "items", "ending"}
  BY DEF After
<1> HIDE DEF pc
<1>f. /\ a \in AttemptStates
      /\ a.pc = pc /\ a.job = i /\ a.todo = session[s].todo \ {i}
      /\ a.request = session[s].request /\ a.progress = session[s].progress
  BY <1>a DEF AttemptStates, Places
<1> HIDE DEF a
<1>g. session' \in [Sessions -> AttemptStates] /\ session'[s] = a
      /\ \A t \in Sessions \ {s} : session'[t] = session[t]
  <2>1. session' = [session EXCEPT ![s] = a]
    BY <1>a, <1>b DEF a, AttemptStates
  <2>2. QED
    BY <1>f, <2>1 DEF TypeOK
<1>1. TypeOK'
  BY <1>a, <1>d, <1>g DEF TypeOK
<1>2. ReceiptsSound'
  BY <1>a, <1>d DEF ReceiptsSound
<1>3. CopySound'
  BY <1>a, <1>c, <1>d, <1>f, <1>g DEF CopySound, Holds, Running
<1>4. AttemptsSound'
  <2>1. AttemptSound(session[s])
    BY DEF AttemptsSound
  <2>2. AttemptSound(a)
    BY <1>a, <1>e, <1>f, <2>1 DEF AttemptSound, Early, Late
  <2>3. QED
    BY <1>g, <2>2 DEF AttemptsSound
<1>5. ValuesSound'
  BY <1>a, <1>e, <1>f, <1>g DEF ValuesSound, Late
<1>6. Sealed'
  <2>1. completed.how # "finished"
    BY <1>a DEF Sealed, Holds, Late
  <2>2. QED
    BY <1>a, <2>1 DEF Sealed
<1>7. LegacySound'
  <2>1. ~legacy
    BY <1>a DEF LegacySound, Late
  <2>2. QED
    BY <1>a, <2>1 DEF LegacySound
<1>8. LockSound'
  BY <1>a, <1>d, <1>g DEF LockSound
<1>9. CompletedWhole'
  BY <1>a, <1>d DEF CompletedWhole
<1>10. QED
  BY <1>1, <1>2, <1>3, <1>4, <1>5, <1>6, <1>7, <1>8, <1>9

LEMMA CreateItemInv ==
  ASSUME SetupInv, NEW s \in Sessions, CreateItem(s)
  PROVE  SetupInv'
<1> USE SetupAssumption DEF SetupInv, Base, Jobs, books
<1> DEFINE j == session[s].job
<1>a. /\ j \in Jobs
      /\ session[s].pc = "creating"
      /\ session[s].request[j] \in Versions
      /\ session[s].progress[j] = None
  BY RequestType DEF CreateItem, SetupInv, AttemptsSound, AttemptSound, Early, Late
<1>b. After(session[s].job) \in Places /\ Recorded(s, j, After(session[s].job))
  BY DEF CreateItem, Places, After
<1>c. Records(s, j, After(session[s].job))
  <2>1. session[s].pc \in {"posting", "creating"}
    BY <1>a
  <2>2. QED
    BY <1>a, <1>b, <2>1, RecordedCases, Zenon
<1>d. rowLock = None /\ UNCHANGED <<rowLock, valued, legacy, completed, faults>>
  BY <1>b DEF Recorded
<1>e. row.progress \in Progresses /\ row'.progress \in Progresses
  BY <1>c DEF Records, SetupInv, TypeOK, SessionRows
<1> HIDE DEF j
<1>1. TypeOK'
  BY <1>c, <1>d DEF Records, TypeOK
<1>2. ReceiptsSound'
  <2>1. session[s].request[Base] \in Versions
    BY <1>a, RequestType DEF Early, Late
  <2>2. row'.progress[Base] = session[s].request[Base]
    BY <1>a, <1>c, <1>e DEF Records, AttemptsSound, AttemptSound, Late, Progresses, j
  <2>3. QED
    BY <1>a, <1>c, <1>e, <2>1, <2>2 DEF Records, ReceiptsSound, Progresses
<1>3. CopySound'
  BY <1>c DEF Records, CopySound, Holds, Running
<1>4. AttemptsSound'
  <2>1. AttemptSound(session[s])
    BY DEF AttemptsSound
  <2>2. AttemptSound(session'[s])
    BY <1>a, <1>c, <1>e, <2>1 DEF Records, AttemptSound, Early, Late, Progresses, JobsOf, After, j
  <2>3. QED
    BY <1>c, <2>2 DEF Records, AttemptsSound
<1>5. ValuesSound'
  <2>1. AttemptSound(session[s])
    BY DEF AttemptsSound
  <2>2. \A i \in (JobsOf(session[s].request) \ session[s].todo) \cap Vehicles :
           i \in valued \/ (session'[s].pc # "items" /\ i = session[s].job)
    BY <1>a, <1>c, <2>1 DEF Records, ValuesSound, AttemptSound, Early, Late, After, j
  <2>3. QED
    BY <1>c, <1>d, <2>2 DEF Records, ValuesSound
<1>6. Sealed'
  <2>1. completed.how # "finished"
    BY <1>a, <1>c DEF Records, Sealed, Holds, Late
  <2>2. QED
    BY <1>d, <2>1 DEF Sealed
<1>7. LegacySound'
  <2>1. ~legacy
    BY <1>a DEF LegacySound, Late
  <2>2. QED
    BY <1>d, <2>1 DEF LegacySound
<1>8. LockSound'
  BY <1>c, <1>d DEF Records, LockSound
<1>9. CompletedWhole'
  <2>1. completed.how # "finished"
    BY <1>a, <1>c DEF Records, Sealed, Holds, Late
  <2>2. completed.how # "confirmed"
    BY <1>a DEF CompletedWhole, LegacySound, Late
  <2>3. QED
    BY <1>d, <2>1, <2>2 DEF CompletedWhole
<1>10. QED
  BY <1>1, <1>2, <1>3, <1>4, <1>5, <1>6, <1>7, <1>8, <1>9

LEMMA ValueInv ==
  ASSUME SetupInv, NEW s \in Sessions, Value(s)
  PROVE  SetupInv'
<1> USE SetupAssumption DEF SetupInv, Base, Jobs, books
<1>1. TypeOK'
  <2>1. session' \in [Sessions -> AttemptStates]
    BY GoesType DEF Value, Places
  <2>2. session[s].job \in Vehicles
    BY DEF Value, AttemptsSound, AttemptSound
  <2>3. QED
    BY <2>1, <2>2 DEF Value, TypeOK
<1>2. ReceiptsSound'
  BY DEF Value, Goes, ReceiptsSound, TypeOK
<1>3. CopySound'
  BY DEF Value, Goes, CopySound, Holds, Running, TypeOK, SessionRows, AttemptStates, Idle
<1>4. AttemptsSound'
  BY DEF Value, Goes, AttemptsSound, AttemptSound, Early, Late, TypeOK, AttemptStates, Idle
<1>5. ValuesSound'
  BY DEF Value, Goes, ValuesSound, Late, TypeOK, AttemptStates, Idle
<1>6. Sealed'
  BY DEF Value, Goes, Sealed, Holds, Late, TypeOK, SessionRows, AttemptStates, Completions, Idle
<1>7. LegacySound'
  BY DEF Value, Goes, LegacySound, Late, TypeOK, SessionRows, AttemptStates, Idle
<1>8. LockSound'
  BY DEF Value, Goes, LockSound, TypeOK, SessionRows, AttemptStates, Idle
<1>9. CompletedWhole'
  BY DEF Value, Goes, CompletedWhole, TypeOK, SessionRows, Completions, Completed
<1>10. QED
  BY <1>1, <1>2, <1>3, <1>4, <1>5, <1>6, <1>7, <1>8, <1>9

LEMMA FinishInv ==
  ASSUME SetupInv, NEW s \in Sessions, Finish(s)
  PROVE  SetupInv'
<1> USE SetupAssumption DEF SetupInv, Base, Jobs, books
<1>a. row'.progress = row.progress /\ row'.lease = row.lease /\ row.lease = s
  BY DEF Finish, Holds, CopySound, Running, TypeOK, SessionRows
<1>1. TypeOK'
  <2>1. session' \in [Sessions -> AttemptStates]
    BY GoesType DEF Finish, Places
  <2>2. session[s].progress \in Progresses
    BY DEF TypeOK, AttemptStates
  <2>3. row' \in SessionRows
    BY <2>2 DEF Finish, TypeOK, SessionRows
  <2>4. completed' \in Completions
    BY RequestType DEF Finish, Completions, Late
  <2>5. QED
    BY <2>1, <2>3, <2>4 DEF Finish, TypeOK
<1>2. ReceiptsSound'
  BY <1>a DEF Finish, ReceiptsSound
<1>3. CopySound'
  BY DEF Finish, Goes, CopySound, Holds, Running, TypeOK, SessionRows, AttemptStates, Idle
<1>4. AttemptsSound'
  BY DEF Finish, Goes, AttemptsSound, AttemptSound, Early, Late, TypeOK, AttemptStates, Idle
<1>5. ValuesSound'
  BY DEF Finish, Goes, ValuesSound, Late, TypeOK, AttemptStates, Idle
<1>6. Sealed'
  BY DEF Finish, Goes, Sealed, Holds, Late, TypeOK, SessionRows, AttemptStates, Completions, Idle
<1>7. LegacySound'
  BY DEF Finish, Goes, LegacySound, Late, TypeOK, SessionRows, AttemptStates, Idle
<1>8. LockSound'
  BY DEF Finish, Goes, LockSound, TypeOK, SessionRows, AttemptStates, Idle
<1>9. CompletedWhole'
  <2>1. session[s].request \in Requests /\ session[s].progress = row.progress
    BY <1>a, RequestType DEF Finish, Late, CopySound, Holds, Running
  <2>2. row.progress[Base] = session[s].request[Base]
    BY <2>1 DEF Finish, AttemptsSound, AttemptSound, Late
  <2>3. \A i \in JobsOf(session[s].request) :
           row.progress[i] = session[s].request[i] /\ (i \in Vehicles => i \in valued)
    BY <2>1 DEF Finish, AttemptsSound, AttemptSound, ValuesSound, Late
  <2>4. \A j \in Jobs : session[s].request[j] # None =>
           row.progress[j] = session[s].request[j] /\ (j \in Vehicles => j \in valued)
    BY <2>2, <2>3 DEF JobsOf
  <2>5. \A j \in Jobs : session[s].request[j] # None =>
           made[j] = <<session[s].request[j]>> /\ (j \in Vehicles => j \in valued)
    BY <2>4 DEF ReceiptsSound
  <2>6. ~row'.draft
    BY DEF Finish, TypeOK, SessionRows
  <2>7. QED
    BY <2>5, <2>6 DEF Finish, CompletedWhole
<1>10. QED
  BY <1>1, <1>2, <1>3, <1>4, <1>5, <1>6, <1>7, <1>8, <1>9

LEMMA LoseLeaseInv ==
  ASSUME SetupInv, NEW s \in Sessions, LoseLease(s)
  PROVE  SetupInv'
<1> USE SetupAssumption DEF SetupInv, Base, Jobs, books
<1>1. TypeOK'
  <2>1. session' \in [Sessions -> AttemptStates]
    BY GoesType DEF LoseLease, Places, Completed
  <2>2. QED
    BY <2>1 DEF LoseLease, TypeOK
<1>2. ReceiptsSound'
  BY DEF LoseLease, Goes, ReceiptsSound, TypeOK
<1>3. CopySound'
  BY DEF LoseLease, Goes, CopySound, Holds, Running, TypeOK, SessionRows, AttemptStates, Idle
<1>4. AttemptsSound'
  BY DEF LoseLease, Goes, AttemptsSound, AttemptSound, Early, Late, TypeOK, AttemptStates, Idle
<1>5. ValuesSound'
  BY DEF LoseLease, Goes, ValuesSound, Late, TypeOK, AttemptStates, Idle
<1>6. Sealed'
  BY DEF LoseLease, Goes, Sealed, Holds, Late, TypeOK, SessionRows, AttemptStates, Completions, Idle
<1>7. LegacySound'
  BY DEF LoseLease, Goes, LegacySound, Late, TypeOK, SessionRows, AttemptStates, Idle
<1>8. LockSound'
  BY DEF LoseLease, Goes, LockSound, TypeOK, SessionRows, AttemptStates, Idle
<1>9. CompletedWhole'
  BY DEF LoseLease, Goes, CompletedWhole, TypeOK, SessionRows, Completions, Completed
<1>10. QED
  BY <1>1, <1>2, <1>3, <1>4, <1>5, <1>6, <1>7, <1>8, <1>9

LEMMA EndInv ==
  ASSUME SetupInv, NEW s \in Sessions, End(s)
  PROVE  SetupInv'
<1> USE SetupAssumption DEF SetupInv, Base, Jobs, books
<1>1. TypeOK'
  BY DEF End, TypeOK, SessionRows, Progresses, AttemptStates, Completions, Idle, NoProgress
<1>2. ReceiptsSound'
  BY DEF End, ReceiptsSound, TypeOK
<1>3. CopySound'
  BY DEF End, CopySound, Holds, Running, TypeOK, SessionRows, AttemptStates, Idle
<1>4. AttemptsSound'
  BY DEF End, AttemptsSound, AttemptSound, Early, Late, TypeOK, AttemptStates, Idle
<1>5. ValuesSound'
  BY DEF End, ValuesSound, Late, TypeOK, AttemptStates, Idle
<1>6. Sealed'
  BY DEF End, Sealed, Holds, Late, TypeOK, SessionRows, AttemptStates, Completions, Idle
<1>7. LegacySound'
  BY DEF End, LegacySound, Late, TypeOK, SessionRows, AttemptStates, Idle
<1>8. LockSound'
  BY DEF End, LockSound, TypeOK, SessionRows, AttemptStates, Idle
<1>9. CompletedWhole'
  BY DEF End, CompletedWhole, TypeOK, SessionRows, Completions, Completed
<1>10. QED
  BY <1>1, <1>2, <1>3, <1>4, <1>5, <1>6, <1>7, <1>8, <1>9

LEMMA SaveDraftInv ==
  ASSUME SetupInv, SaveDraft
  PROVE  SetupInv'
<1> USE SetupAssumption DEF SetupInv, Base, Jobs, books
<1>1. TypeOK'
  BY DEF SaveDraft, Completed, TypeOK, SessionRows, Progresses, AttemptStates, Completions, Idle, NoProgress
<1>2. ReceiptsSound'
  BY DEF SaveDraft, Completed, ReceiptsSound, TypeOK
<1>3. CopySound'
  BY DEF SaveDraft, Completed, CopySound, Holds, Running, TypeOK, SessionRows, AttemptStates, Idle
<1>4. AttemptsSound'
  BY DEF SaveDraft, Completed, AttemptsSound, AttemptSound, Early, Late, TypeOK, AttemptStates, Idle
<1>5. ValuesSound'
  BY DEF SaveDraft, Completed, ValuesSound, Late, TypeOK, AttemptStates, Idle
<1>6. Sealed'
  BY DEF SaveDraft, Completed, Sealed, Holds, Late, TypeOK, SessionRows, AttemptStates, Completions, Idle
<1>7. LegacySound'
  BY DEF SaveDraft, Completed, LegacySound, Late, TypeOK, SessionRows, AttemptStates, Idle
<1>8. LockSound'
  BY DEF SaveDraft, Completed, LockSound, TypeOK, SessionRows, AttemptStates, Idle
<1>9. CompletedWhole'
  BY DEF SaveDraft, Completed, CompletedWhole, TypeOK, SessionRows, Completions
<1>10. QED
  BY <1>1, <1>2, <1>3, <1>4, <1>5, <1>6, <1>7, <1>8, <1>9

LEMMA ReadRowInv ==
  ASSUME SetupInv, NEW s \in Sessions, ReadRow(s)
  PROVE  SetupInv'
<1> USE SetupAssumption DEF SetupInv, Base, Jobs, books
<1>1. TypeOK'
  BY DEF ReadRow, Goes, TypeOK, SessionRows, Progresses, AttemptStates, Completions, Idle, NoProgress
<1>2. ReceiptsSound'
  BY DEF ReadRow, Goes, ReceiptsSound, TypeOK
<1>3. CopySound'
  BY DEF ReadRow, Goes, CopySound, Holds, Running, TypeOK, SessionRows, AttemptStates, Idle
<1>4. AttemptsSound'
  BY DEF ReadRow, Goes, AttemptsSound, AttemptSound, Early, Late, TypeOK, AttemptStates, Idle
<1>5. ValuesSound'
  BY DEF ReadRow, Goes, ValuesSound, Late, TypeOK, AttemptStates, Idle
<1>6. Sealed'
  BY DEF ReadRow, Goes, Sealed, Holds, Late, TypeOK, SessionRows, AttemptStates, Completions, Idle
<1>7. LegacySound'
  BY DEF ReadRow, Goes, LegacySound, Late, TypeOK, SessionRows, AttemptStates, Idle
<1>8. LockSound'
  BY DEF ReadRow, Goes, LockSound, TypeOK, SessionRows, AttemptStates, Idle
<1>9. CompletedWhole'
  BY DEF ReadRow, Goes, CompletedWhole, TypeOK, SessionRows, Completions, Completed
<1>10. QED
  BY <1>1, <1>2, <1>3, <1>4, <1>5, <1>6, <1>7, <1>8, <1>9

LEMMA ConfirmInv ==
  ASSUME SetupInv, NEW s \in Sessions, Confirm(s)
  PROVE  SetupInv'
<1> USE SetupAssumption DEF SetupInv, Base, Jobs, books
<1>1. TypeOK'
  BY DEF Confirm, Completed, TypeOK, SessionRows, Progresses, AttemptStates, Completions, Idle, NoProgress
<1>2. ReceiptsSound'
  BY DEF Confirm, Completed, ReceiptsSound, TypeOK
<1>3. CopySound'
  BY DEF Confirm, Completed, CopySound, Holds, Running, TypeOK, SessionRows, AttemptStates, Idle
<1>4. AttemptsSound'
  BY DEF Confirm, Completed, AttemptsSound, AttemptSound, Early, Late, TypeOK, AttemptStates, Idle
<1>5. ValuesSound'
  BY DEF Confirm, Completed, ValuesSound, Late, TypeOK, AttemptStates, Idle
<1>6. Sealed'
  BY DEF Confirm, Completed, Sealed, Holds, Late, TypeOK, SessionRows, AttemptStates, Completions, Idle
<1>7. LegacySound'
  BY DEF Confirm, Completed, LegacySound, Late, TypeOK, SessionRows, AttemptStates, Idle
<1>8. LockSound'
  BY DEF Confirm, Completed, LockSound, TypeOK, SessionRows, AttemptStates, Idle
<1>9. CompletedWhole'
  <2>1. CASE completed'.how = "confirmed" /\ completed.how # "confirmed"
    <3>1. rowLock = s /\ (legacy \/ made[Base] # <<>>)
      BY <2>1 DEF Confirm
    <3>2. \A j \in Jobs : made[j] = <<>>
      BY <3>1 DEF LockSound, ReceiptsSound
    <3>3. QED
      BY <2>1, <3>1, <3>2 DEF Confirm, CompletedWhole
  <2>2. CASE completed'.how = "unseen"
    BY <2>2 DEF CompletedWhole
  <2>3. CASE completed' = completed
    BY <2>3 DEF Confirm, CompletedWhole
  <2>4. QED
    BY <2>1, <2>2, <2>3 DEF Confirm, TypeOK, Completions, CompletedWhole, Completed
<1>10. QED
  BY <1>1, <1>2, <1>3, <1>4, <1>5, <1>6, <1>7, <1>8, <1>9

LEMMA ThrowInv ==
  ASSUME SetupInv, NEW s \in Sessions, Throw(s)
  PROVE  SetupInv'
<1> USE SetupAssumption DEF SetupInv, Base, Jobs, books
<1>1. TypeOK'
  <2>1. session' \in [Sessions -> AttemptStates]
    BY GoesType DEF Throw, Places, Completed
  <2>2. QED
    BY <2>1 DEF Throw, TypeOK, Fault
<1>2. ReceiptsSound'
  BY DEF Throw, Goes, Fault, ReceiptsSound, TypeOK
<1>3. CopySound'
  BY DEF Throw, Goes, Fault, CopySound, Holds, Running, TypeOK, SessionRows, AttemptStates, Idle
<1>4. AttemptsSound'
  BY DEF Throw, Goes, Fault, AttemptsSound, AttemptSound, Early, Late, TypeOK, AttemptStates, Idle
<1>5. ValuesSound'
  BY DEF Throw, Goes, Fault, ValuesSound, Late, TypeOK, AttemptStates, Idle
<1>6. Sealed'
  BY DEF Throw, Goes, Fault, Sealed, Holds, Late, TypeOK, SessionRows, AttemptStates, Completions, Idle
<1>7. LegacySound'
  BY DEF Throw, Goes, Fault, LegacySound, Late, TypeOK, SessionRows, AttemptStates, Idle
<1>8. LockSound'
  BY DEF Throw, Goes, Fault, LockSound, TypeOK, SessionRows, AttemptStates, Idle
<1>9. CompletedWhole'
  BY DEF Throw, Goes, Fault, CompletedWhole, TypeOK, SessionRows, Completions, Completed
<1>10. QED
  BY <1>1, <1>2, <1>3, <1>4, <1>5, <1>6, <1>7, <1>8, <1>9

LEMMA CrashInv ==
  ASSUME SetupInv, NEW s \in Sessions, Crash(s)
  PROVE  SetupInv'
<1> USE SetupAssumption DEF SetupInv, Base, Jobs, books
<1>1. TypeOK'
  <2>1. session' \in [Sessions -> AttemptStates]
    BY StopsType DEF Crash
  <2>2. QED
    BY <2>1 DEF Crash, Fault, TypeOK
<1>2. ReceiptsSound'
  BY DEF Crash, Fault, ReceiptsSound, TypeOK
<1>3. CopySound'
  BY DEF Crash, Fault, CopySound, Holds, Running, TypeOK, SessionRows, AttemptStates, Idle
<1>4. AttemptsSound'
  BY DEF Crash, Fault, AttemptsSound, AttemptSound, Early, Late, TypeOK, AttemptStates, Idle
<1>5. ValuesSound'
  BY DEF Crash, Fault, ValuesSound, Late, TypeOK, AttemptStates, Idle
<1>6. Sealed'
  BY DEF Crash, Fault, Sealed, Holds, Late, TypeOK, SessionRows, AttemptStates, Completions, Idle
<1>7. LegacySound'
  BY DEF Crash, Fault, LegacySound, Late, TypeOK, SessionRows, AttemptStates, Idle
<1>8. LockSound'
  BY DEF Crash, Fault, LockSound, TypeOK, SessionRows, AttemptStates, Idle
<1>9. CompletedWhole'
  BY DEF Crash, Fault, CompletedWhole, TypeOK, SessionRows, Completions, Completed
<1>10. QED
  BY <1>1, <1>2, <1>3, <1>4, <1>5, <1>6, <1>7, <1>8, <1>9

LEMMA LapseInv ==
  ASSUME SetupInv, Lapse
  PROVE  SetupInv'
<1> USE SetupAssumption DEF SetupInv, Base, Jobs, books
<1>1. TypeOK'
  <2>1. row' \in SessionRows
    BY DEF Lapse, TypeOK, SessionRows
  <2>2. QED
    BY <2>1 DEF Lapse, Fault, TypeOK
<1>2. ReceiptsSound'
  BY DEF Lapse, Fault, ReceiptsSound, TypeOK
<1>3. CopySound'
  BY DEF Lapse, Fault, CopySound, Holds, Running, TypeOK, SessionRows, AttemptStates, Idle
<1>4. AttemptsSound'
  BY DEF Lapse, Fault, AttemptsSound, AttemptSound, Early, Late, TypeOK, AttemptStates, Idle
<1>5. ValuesSound'
  BY DEF Lapse, Fault, ValuesSound, Late, TypeOK, AttemptStates, Idle
<1>6. Sealed'
  BY DEF Lapse, Fault, Sealed, Holds, Late, TypeOK, SessionRows, AttemptStates, Completions, Idle
<1>7. LegacySound'
  BY DEF Lapse, Fault, LegacySound, Late, TypeOK, SessionRows, AttemptStates, Idle
<1>8. LockSound'
  BY DEF Lapse, Fault, LockSound, TypeOK, SessionRows, AttemptStates, Idle
<1>9. CompletedWhole'
  BY DEF Lapse, Fault, CompletedWhole, TypeOK, SessionRows, Completions, Completed
<1>10. QED
  BY <1>1, <1>2, <1>3, <1>4, <1>5, <1>6, <1>7, <1>8, <1>9

-----------------------------------------------------------------------------
LEMMA NextInv == SetupInv /\ [Next]_vars => SetupInv'
<1> SUFFICES ASSUME SetupInv, [Next]_vars PROVE SetupInv'
  OBVIOUS
<1>1. ASSUME NEW s \in Sessions, Continue(s) PROVE SetupInv'
  BY <1>1, TakeLeaseInv, RecheckInv, CheckAccountsInv, PostBaseInv, BeginItemInv, CreateItemInv,
     ValueInv, FinishInv, LoseLeaseInv, EndInv, ConfirmInv DEF Continue
<1>2. CASE UNCHANGED vars
  BY <1>2 DEF vars, SetupInv, TypeOK, ReceiptsSound, CopySound, AttemptsSound, ValuesSound,
     Sealed, LegacySound, LockSound, CompletedWhole, Holds, Running
<1>3. QED
  BY <1>1, <1>2, BeginInv, ReadRowInv, ThrowInv, CrashInv, SaveDraftInv, LapseInv DEF Next

LEMMA AlwaysInv == Spec => []SetupInv
BY InitInv, NextInv, PTL DEF Spec

\* Every variable of the wizard keeps its type.
THEOREM SetupTypeCorrect == Spec => []TypeOK
<1>1. SetupInv => TypeOK
  BY DEF SetupInv
<1>2. QED
  BY <1>1, AlwaysInv, PTL

\* A completed set-up is whole, whatever failed, stalled or was edited before
\* (features/setup/workflow.ts, finishSetup and confirmExistingSetupAction).
THEOREM WholeWhenCompleted == Spec => []CompletedWhole
<1>1. SetupInv => CompletedWhole
  BY DEF SetupInv
<1>2. QED
  BY <1>1, AlwaysInv, PTL

\* A step records nothing, or one thing that was not recorded, before the wizard is done.
LEMMA StepRecords ==
  ASSUME SetupInv, [Next]_vars, made' # made
  PROVE  \E j \in Jobs, v \in Versions :
            /\ made[j] = <<>> /\ made'[j] = <<v>>
            /\ \A k \in Jobs \ {j} : made'[k] = made[k]
            /\ DOMAIN made' = Jobs
            /\ completed.how # "finished"
<1>1. ASSUME NEW s \in Sessions, NEW j \in Jobs, NEW pc \in Places, Recorded(s, j, pc),
             session[s].request[j] \in Versions, session[s].progress[j] = None,
             session[s].pc \in {"posting", "creating"}
      PROVE  /\ made[j] = <<>> /\ made'[j] = <<session[s].request[j]>>
             /\ \A k \in Jobs \ {j} : made'[k] = made[k]
             /\ DOMAIN made' = Jobs
             /\ completed.how # "finished"
  <2>1. /\ made[j] = <<>> /\ made'[j] = <<session[s].request[j]>>
        /\ \A k \in Jobs \ {j} : made'[k] = made[k]
        /\ made' \in [Jobs -> Seq(Versions)]
        /\ row.lease = s
    <3>1. Records(s, j, pc)
      BY <1>1, RecordedCases
    <3>2. QED
      BY <3>1 DEF Records
  <2>2. completed.how # "finished"
    BY <1>1, <2>1 DEF SetupInv, Sealed, Holds, Late
  <2>3. QED
    BY <2>1, <2>2
<1>2. ASSUME NEW s \in Sessions, PostBase(s)
      PROVE  /\ session[s].request[Base] \in Versions /\ session[s].progress[Base] = None
             /\ session[s].pc = "posting" /\ Recorded(s, Base, "items")
             /\ Base \in Jobs /\ "items" \in Places
  BY <1>2, RequestType DEF PostBase, SetupInv, AttemptsSound, AttemptSound, Early, Jobs, Places
<1>3. ASSUME NEW s \in Sessions, CreateItem(s)
      PROVE  /\ session[s].request[session[s].job] \in Versions
             /\ session[s].progress[session[s].job] = None
             /\ session[s].pc = "creating"
             /\ Recorded(s, session[s].job, After(session[s].job))
             /\ session[s].job \in Jobs /\ After(session[s].job) \in Places
  BY <1>3, RequestType DEF CreateItem, SetupInv, AttemptsSound, AttemptSound, Late, Jobs, Places, After
<1>4. \E s \in Sessions : PostBase(s) \/ CreateItem(s)
  <2>1. ASSUME NEW s \in Sessions, Continue(s)
        PROVE  PostBase(s) \/ CreateItem(s)
    BY <2>1, Zenon DEF Continue, books, TakeLease, Recheck, CheckAccounts, BeginItem, Value, Finish, LoseLease, End,
       Confirm
  <2>2. ASSUME NEW s \in Sessions
        PROVE  /\ \A r \in Requests : ~Begin(s, r)
               /\ ~ReadRow(s) /\ ~Throw(s) /\ ~Crash(s)
    BY Zenon DEF books, Begin, ReadRow, Throw, Crash
  <2>3. ~SaveDraft /\ ~Lapse /\ ~UNCHANGED vars
    BY DEF books, SaveDraft, Lapse, vars
  <2>4. QED
    BY <2>1, <2>2, <2>3, Zenon DEF Next
<1>5. CASE \E s \in Sessions : PostBase(s)
  <2>1. PICK s \in Sessions : PostBase(s)
    BY <1>5
  <2>2. QED
    BY <1>1, <1>2, <2>1
<1>6. CASE \E s \in Sessions : CreateItem(s)
  <2>1. PICK s \in Sessions : CreateItem(s)
    BY <1>6
  <2>2. QED
    BY <1>1, <1>3, <2>1
<1>7. QED
  BY <1>4, <1>5, <1>6

\* Nothing is recorded once the wizard is done, whatever attempt is still running
\* (the second look at user_setup_state, under the lease).
THEOREM SilentAfterwards == Spec => NothingAfterwards
<1>1. SetupInv /\ [Next]_vars => [completed.how = "finished" => made' = made]_vars
  BY StepRecords
<1>2. QED
  BY <1>1, AlwaysInv, PTL DEF Spec, NothingAfterwards

\* The wizard implements the promise that each thing is recorded once.
THEOREM SetupRecordsOnce == Spec => RecordedOnce
<1> DEFINE Recs == [j \in Jobs |-> IF made[j] = <<>> THEN None ELSE made[j]]
<1>1. Init => Books!Init
  BY DEF Init, Books!Init
<1>2. SetupInv /\ [Next]_vars => [Books!Next]_Recs
  <2> SUFFICES ASSUME SetupInv, [Next]_vars, made' # made PROVE Books!Next
    BY DEF Recs
  <2>1. PICK j \in Jobs, v \in Versions :
            /\ made[j] = <<>> /\ made'[j] = <<v>>
            /\ \A k \in Jobs \ {j} : made'[k] = made[k]
            /\ DOMAIN made' = Jobs
    BY StepRecords
  <2>2. Recs[j] = None /\ Recs'[j] = <<v>> /\ \A k \in Jobs \ {j} : Recs'[k] = Recs[k]
    BY <2>1
  <2>3. Recs' = [Recs EXCEPT ![j] = <<v>>]
    BY <2>2
  <2>4. QED
    BY <2>2, <2>3 DEF Books!Next, Books!Record
<1>3. QED
  BY <1>1, <1>2, AlwaysInv, PTL DEF Spec, RecordedOnce, Books!Spec
=============================================================================
