----------------------------- MODULE InboxProofs -----------------------------
(***************************************************************************)
(* The inbox's safety for every set of sessions, telephones, messages and  *)
(* entries, and every limit.                                               *)
(*                                                                         *)
(* OneEntryPerMessage is not inductive.  What makes it so is what a claim  *)
(* is worth: of an undisturbed message, the entry bearing its key is the   *)
(* one it is being recorded or was confirmed by, and a session about to    *)
(* post holds the claim of a message nobody has posted.                    *)
(***************************************************************************)
EXTENDS Inbox, FiniteSetTheorems, TLAPS

Receiving(s) == session[s].pc \in {"connected", "counted"}

\* What a session is about, and the locks that make what it knows stay true.
SessionsSound ==
    \A s \in Sessions :
        /\ session[s].pc # "idle" => session[s].message \in Messages
        /\ Receiving(s) =>
              /\ session[s].device \in Devices
              /\ connectionLock[session[s].device] = s
              /\ connection[session[s].device] = "active"
        /\ session[s].pc = "counted" =>
              /\ userLock = s
              /\ inbox[session[s].message].status = "absent"
        /\ session[s].pc \in {"read", "unposted", "claimed", "posted", "failed"} =>
              inbox[session[s].message].status # "absent"
        /\ session[s].pc = "posted" => \E e \in Entries : entry[e].key = session[s].message

\* A message's key is borne by one entry, posted after the message came.
KeysSound ==
    /\ \A e \in Entries :
          entry[e].key # None =>
              entry[e].status = "posted" /\ inbox[entry[e].key].status # "absent"
    /\ \A e, f \in Entries : entry[e].key # None /\ entry[e].key = entry[f].key => e = f

\* A confirmation that has not been disturbed owns the message it works on.
ClaimsSound ==
    \A m \in Messages \ disturbed :
        /\ \A s \in Sessions :
              session[s].message = m /\ session[s].pc \in {"claimed", "failed"} =>
                  /\ inbox[m].status = "processing"
                  /\ inbox[m].claim = s
                  /\ \A e \in Entries : entry[e].key # m
        /\ \A e \in Entries :
              entry[e].key = m =>
                  /\ inbox[m].status \in {"processing", "confirmed"}
                  /\ inbox[m].status = "confirmed" => inbox[m].entry = e

\* There is room for the message a session is about to insert.
RoomSound == \A s \in Sessions : session[s].pc = "counted" => Cardinality(Waiting) < MaxWaiting

InboxInv ==
    /\ TypeOK /\ SessionsSound /\ KeysSound /\ ClaimsSound /\ RoomSound
    /\ DecidedWithItsText /\ InboxBounded

-----------------------------------------------------------------------------
LEMMA InitInv == Init => InboxInv
<1> SUFFICES ASSUME Init PROVE InboxInv
  OBVIOUS
<1> USE InboxAssumption DEF Init
<1>1. TypeOK
  BY DEF TypeOK, InboxRows, EntryRows, SessionStates, NoMessage, NoEntry, Idle, At
<1>2. Waiting = {}
  BY DEF Waiting, NoMessage
<1>3. InboxBounded
  BY <1>2, FS_EmptySet DEF InboxBounded
<1>4. QED
  BY <1>1, <1>2, <1>3
  DEF InboxInv, SessionsSound, KeysSound, ClaimsSound, RoomSound, DecidedWithItsText, Receiving,
      NoMessage, NoEntry, Idle, At

\* InboxBounded and the count a receiving session remembers, at every step but the one
\* that inserts a message: no other lets one more message wait.
LEMMA NoneMoreWaiting ==
  ASSUME InboxInv, Waiting' \subseteq Waiting
  PROVE  Cardinality(Waiting') <= Cardinality(Waiting) /\ Cardinality(Waiting) \in Nat /\ Cardinality(Waiting') \in Nat
<1>1. IsFiniteSet(Waiting)
  BY InboxAssumption, FS_Subset DEF Waiting
<1>2. IsFiniteSet(Waiting')
  BY <1>1, FS_Subset
<1>3. QED
  BY <1>1, <1>2, FS_Subset, FS_CardinalityType

\* The updates of an inbox row: what its fields become, and that they leave a row.
LEMMA RowFields ==
  ASSUME NEW r \in InboxRows, NEW s \in Sessions
  PROVE  /\ [r EXCEPT !.status = "processing", !.claim = s, !.lapsed = FALSE].status = "processing"
         /\ [r EXCEPT !.status = "processing", !.claim = s, !.lapsed = FALSE].claim = s
         /\ [r EXCEPT !.status = "processing", !.claim = s, !.lapsed = FALSE].text = r.text
         /\ [r EXCEPT !.status = "processing", !.claim = s, !.lapsed = FALSE].entry = r.entry
         /\ [r EXCEPT !.status = "pending", !.claim = None, !.lapsed = FALSE].status = "pending"
         /\ [r EXCEPT !.status = "pending", !.claim = None, !.lapsed = FALSE].text = r.text
         /\ [r EXCEPT !.status = "pending", !.claim = None, !.lapsed = FALSE].entry = r.entry
  BY DEF InboxRows

LEMMA RowUpdates ==
  ASSUME NEW r \in InboxRows
  PROVE  /\ \A s \in Sessions : [r EXCEPT !.status = "processing", !.claim = s, !.lapsed = FALSE] \in InboxRows
         /\ [r EXCEPT !.status = "pending", !.claim = None, !.lapsed = FALSE] \in InboxRows
         /\ [r EXCEPT !.lapsed = TRUE] \in InboxRows
         /\ [r EXCEPT !.status = "rejected", !.text = FALSE] \in InboxRows
  BY Zenon DEF InboxRows

\* An update of some fields of one row is an update of that row.
LEMMA RowEdits ==
  ASSUME NEW m \in Messages, NEW s \in Sessions, inbox \in [Messages -> InboxRows]
  PROVE  /\ [inbox EXCEPT ![m] = [@ EXCEPT !.status = "processing", !.claim = s, !.lapsed = FALSE]]
               = [inbox EXCEPT ![m] = [inbox[m] EXCEPT !.status = "processing", !.claim = s, !.lapsed = FALSE]]
         /\ [inbox EXCEPT ![m] = [@ EXCEPT !.status = "pending", !.claim = None, !.lapsed = FALSE]]
               = [inbox EXCEPT ![m] = [inbox[m] EXCEPT !.status = "pending", !.claim = None, !.lapsed = FALSE]]
         /\ [inbox EXCEPT ![m].lapsed = TRUE] = [inbox EXCEPT ![m] = [inbox[m] EXCEPT !.lapsed = TRUE]]
         /\ [inbox EXCEPT ![m] = [@ EXCEPT !.status = "rejected", !.text = FALSE]]
               = [inbox EXCEPT ![m] = [inbox[m] EXCEPT !.status = "rejected", !.text = FALSE]]
<1>1. inbox[m] \in InboxRows /\ DOMAIN inbox = Messages
  OBVIOUS
<1>2. DOMAIN inbox[m] = {"status", "text", "entry", "claim", "lapsed"}
  BY <1>1 DEF InboxRows
<1> QED
  BY <1>1, <1>2

\* A transaction's end and a step of a request keep the types of locks and sessions.
LEMMA EndedTyped ==
  ASSUME TypeOK, NEW s \in Sessions, Ended(s)
  PROVE  /\ connectionLock' \in [Devices -> Sessions \cup {None}]
         /\ userLock' \in Sessions \cup {None}
         /\ session' \in [Sessions -> SessionStates]
<1>1. Idle \in SessionStates
  BY DEF Idle, At, SessionStates
<1>2. connectionLock' \in [Devices -> Sessions \cup {None}]
  BY DEF Ended, TypeOK
<1>3. userLock' \in Sessions \cup {None}
  BY DEF Ended, TypeOK
<1>4. session' \in [Sessions -> SessionStates]
  BY <1>1 DEF Ended, TypeOK
<1> QED
  BY <1>2, <1>3, <1>4

LEMMA SessionMoves ==
  ASSUME TypeOK, NEW s \in Sessions,
         NEW pc \in {"idle", "connected", "counted", "read", "unposted", "claimed", "posted", "failed"},
         session' = [session EXCEPT ![s].pc = pc]
  PROVE  session' \in [Sessions -> SessionStates]
<1> DEFINE moved == [session[s] EXCEPT !.pc = pc]
<1>1. session \in [Sessions -> SessionStates] /\ session[s] \in SessionStates
  BY DEF TypeOK
<1>2. moved \in SessionStates
  BY <1>1 DEF SessionStates
<1>3. session' = [session EXCEPT ![s] = moved]
  BY <1>1
<1> HIDE DEF moved
<1> QED
  BY <1>1, <1>2, <1>3

LEMMA SessionBegins ==
  ASSUME TypeOK, NEW s \in Sessions, NEW m \in Messages, NEW d \in Devices \cup {None},
         NEW pc \in {"connected", "read"}, session' = [session EXCEPT ![s] = At(pc, m, d)]
  PROVE  session' \in [Sessions -> SessionStates]
<1>1. At(pc, m, d) \in SessionStates
  BY DEF At, SessionStates
<1> QED
  BY <1>1 DEF TypeOK

LEMMA NextType == InboxInv /\ [Next]_vars => TypeOK'
<1> SUFFICES ASSUME InboxInv, [Next]_vars PROVE TypeOK'
  OBVIOUS
<1>t. TypeOK /\ SessionsSound
  BY DEF InboxInv
<1>i. inbox \in [Messages -> InboxRows]
  BY <1>t DEF TypeOK
<1>m. \A s \in Sessions : session[s].pc # "idle" => session[s].message \in Messages
  BY <1>t DEF SessionsSound
<1>c. ASSUME NEW m \in Messages, NEW e \in Entries PROVE Confirmed(m, e) \in [Messages -> InboxRows]
  <2>1. [status |-> "confirmed", text |-> FALSE, entry |-> e, claim |-> None, lapsed |-> FALSE] \in InboxRows
    BY DEF InboxRows
  <2> QED
    BY <1>i, <2>1 DEF Confirmed
<1>1. ASSUME NEW s \in Sessions, NEW d \in Devices, NEW m \in Messages, Connect(s, d, m) PROVE TypeOK'
  <2>1. session' \in [Sessions -> SessionStates]
    BY <1>1, <1>t, SessionBegins DEF Connect
  <2> QED
    BY <1>1, <1>t, <2>1 DEF Connect, TypeOK
<1>2. ASSUME NEW s \in Sessions, CountInbox(s) PROVE TypeOK'
  <2>1. CASE Ended(s)
    BY <1>2, <1>t, <2>1, EndedTyped DEF CountInbox, TypeOK
  <2>2. CASE /\ session' = [session EXCEPT ![s].pc = "counted"]
             /\ userLock' = s /\ connectionLock' = connectionLock
    <3>1. session' \in [Sessions -> SessionStates]
      BY <1>t, <2>2, SessionMoves
    <3> QED
      BY <1>2, <1>t, <2>2, <3>1 DEF CountInbox, TypeOK
  <2> QED
    BY <1>2, <2>1, <2>2 DEF CountInbox
<1>3. ASSUME NEW s \in Sessions, InsertMessage(s) PROVE TypeOK'
  <2>1. Received \in InboxRows
    BY DEF Received, InboxRows
  <2>2. inbox' \in [Messages -> InboxRows]
    BY <1>3, <1>i, <2>1 DEF InsertMessage
  <2> QED
    BY <1>3, <1>t, <2>2, EndedTyped DEF InsertMessage, TypeOK
<1>4. ASSUME NEW s \in Sessions, NEW m \in Messages, ReadMessage(s, m) PROVE TypeOK'
  <2>1. session' \in [Sessions -> SessionStates]
    BY <1>4, <1>t, SessionBegins DEF ReadMessage
  <2> QED
    BY <1>4, <1>t, <2>1 DEF ReadMessage, TypeOK
<1>5. ASSUME NEW s \in Sessions, Replay(s) PROVE TypeOK'
  <2>1. session[s].message \in Messages
    BY <1>5, <1>m DEF Replay
  <2>2. ASSUME NEW e \in KeyedEntries(session[s].message), inbox' = Confirmed(session[s].message, e), Ended(s)
        PROVE  TypeOK'
    <3>1. inbox' \in [Messages -> InboxRows]
      BY <1>c, <2>1, <2>2 DEF KeyedEntries
    <3> QED
      BY <1>5, <1>t, <2>2, <3>1, EndedTyped DEF Replay, TypeOK
  <2>3. ASSUME Moved(s, "unposted"), UNCHANGED inbox PROVE TypeOK'
    <3>1. session' \in [Sessions -> SessionStates]
      BY <1>t, <2>3, SessionMoves DEF Moved
    <3> QED
      BY <1>5, <1>t, <2>3, <3>1 DEF Replay, Moved, TypeOK
  <2> QED
    BY <1>5, <2>2, <2>3 DEF Replay
<1>6. ASSUME NEW s \in Sessions, RefuseSimilar(s) PROVE TypeOK'
  BY <1>6, <1>t, EndedTyped DEF RefuseSimilar, TypeOK
<1>7. ASSUME NEW s \in Sessions, Claim(s) PROVE TypeOK'
  <2> DEFINE m == session[s].message
             row == [inbox[m] EXCEPT !.status = "processing", !.claim = s, !.lapsed = FALSE]
  <2>1. m \in Messages
    BY <1>7, <1>m DEF Claim
  <2>2. row \in InboxRows
    BY <1>i, <2>1, RowUpdates, Zenon
  <2>3. CASE Ended(s) /\ UNCHANGED <<inbox, disturbed>>
    BY <1>7, <1>t, <2>3, EndedTyped DEF Claim, TypeOK
  <2>4. CASE /\ inbox' = [inbox EXCEPT ![m] = [@ EXCEPT !.status = "processing", !.claim = s, !.lapsed = FALSE]]
             /\ disturbed' \in {disturbed, disturbed \cup {m}}
             /\ Moved(s, "claimed")
    <3>1. inbox' = [inbox EXCEPT ![m] = row]
      BY <1>i, <2>1, <2>4, RowEdits, Zenon
    <3>2. session' \in [Sessions -> SessionStates]
      BY <1>t, <2>4, SessionMoves DEF Moved
    <3> HIDE DEF row
    <3>3. inbox' \in [Messages -> InboxRows]
      BY <1>i, <2>1, <2>2, <3>1
    <3>4. disturbed' \subseteq Messages
      BY <1>t, <2>1, <2>4 DEF TypeOK
    <3> QED
      BY <1>7, <1>t, <2>4, <3>2, <3>3, <3>4 DEF Claim, Moved, TypeOK
  <2> QED
    BY <1>7, <2>3, <2>4 DEF Claim
<1>8. ASSUME NEW s \in Sessions, Post(s) PROVE TypeOK'
  <2>1. session[s].message \in Messages
    BY <1>8, <1>m DEF Post
  <2>2. [status |-> "posted", key |-> session[s].message] \in EntryRows
    BY <2>1 DEF EntryRows
  <2>3. entry' \in [Entries -> EntryRows]
    BY <1>8, <1>t, <2>2 DEF Post, TypeOK
  <2>4. session' \in [Sessions -> SessionStates]
    BY <1>8, <1>t, SessionMoves DEF Post, Moved
  <2> QED
    BY <1>8, <1>t, <2>3, <2>4 DEF Post, Moved, TypeOK
<1>9. ASSUME NEW s \in Sessions, PostFails(s) PROVE TypeOK'
  <2>1. session' \in [Sessions -> SessionStates]
    BY <1>9, <1>t, SessionMoves DEF PostFails, Moved
  <2> QED
    BY <1>9, <1>t, <2>1 DEF PostFails, Moved, TypeOK
<1>10. ASSUME NEW s \in Sessions, Settle(s) PROVE TypeOK'
  <2>1. session[s].message \in Messages
    BY <1>10, <1>m DEF Settle
  <2>2. inbox' \in [Messages -> InboxRows]
    BY <1>10, <1>c, <2>1 DEF Settle, KeyedEntries
  <2> QED
    BY <1>10, <1>t, <2>2, EndedTyped DEF Settle, TypeOK
<1>11. ASSUME NEW s \in Sessions, Release(s) PROVE TypeOK'
  <2> DEFINE m == session[s].message
             row == [inbox[m] EXCEPT !.status = "pending", !.claim = None, !.lapsed = FALSE]
  <2>1. m \in Messages
    BY <1>11, <1>m DEF Release
  <2>2. row \in InboxRows
    BY <1>i, <2>1, RowUpdates, Zenon
  <2>3. inbox' = inbox \/ inbox' = [inbox EXCEPT ![m] = row]
    BY <1>11, <1>i, <2>1, RowEdits, Zenon DEF Release
  <2> HIDE DEF row
  <2>4. inbox' \in [Messages -> InboxRows]
    BY <1>i, <2>2, <2>3
  <2> QED
    BY <1>11, <1>t, <2>4, EndedTyped DEF Release, TypeOK
<1>12. ASSUME NEW s \in Sessions, Crash(s) PROVE TypeOK'
  BY <1>12, <1>t, EndedTyped DEF Crash, TypeOK
<1>13. ASSUME NEW m \in Messages, Lapse(m) PROVE TypeOK'
  <2> DEFINE row == [inbox[m] EXCEPT !.lapsed = TRUE]
  <2>1. row \in InboxRows
    BY <1>i, RowUpdates, Zenon
  <2>2. inbox' = [inbox EXCEPT ![m] = row]
    BY <1>13 DEF Lapse
  <2> HIDE DEF row
  <2>3. inbox' \in [Messages -> InboxRows]
    BY <1>i, <2>1, <2>2
  <2> QED
    BY <1>13, <1>t, <2>3 DEF Lapse, TypeOK
<1>14. ASSUME NEW m \in Messages, NEW e \in Entries, Link(m, e) PROVE TypeOK'
  BY <1>14, <1>t, <1>c DEF Link, TypeOK
<1>15. ASSUME NEW m \in Messages, Reject(m) PROVE TypeOK'
  <2> DEFINE row == [inbox[m] EXCEPT !.status = "rejected", !.text = FALSE]
  <2>1. row \in InboxRows
    BY <1>i, RowUpdates, Zenon
  <2>2. inbox' = [inbox EXCEPT ![m] = row]
    BY <1>15 DEF Reject
  <2> HIDE DEF row
  <2>3. inbox' \in [Messages -> InboxRows]
    BY <1>i, <2>1, <2>2
  <2> QED
    BY <1>15, <1>t, <2>3 DEF Reject, TypeOK
<1>16. ASSUME NEW e \in Entries, RecordTransfer(e) PROVE TypeOK'
  <2>1. entry' \in [Entries -> EntryRows]
    BY <1>16, <1>t DEF RecordTransfer, TypeOK, EntryRows
  <2> QED
    BY <1>16, <1>t, <2>1 DEF RecordTransfer, TypeOK
<1>17. ASSUME NEW d \in Devices, Revoke(d) PROVE TypeOK'
  BY <1>17, <1>t DEF Revoke, TypeOK
<1>18. CASE UNCHANGED vars
  BY <1>18, <1>t DEF vars, TypeOK
<1>19. ASSUME NEW s \in Sessions, SettleFails(s) PROVE TypeOK'
  <2>1. session[s].message \in Messages
    BY <1>19, <1>m DEF SettleFails
  <2>2. session' \in [Sessions -> SessionStates]
    BY <1>19, <1>t, SessionMoves DEF SettleFails, Moved
  <2> QED
    BY <1>19, <1>t, <2>1, <2>2 DEF SettleFails, Moved, TypeOK
<1>20. QED
  BY <1>1, <1>2, <1>3, <1>4, <1>5, <1>6, <1>7, <1>8, <1>9, <1>10, <1>11, <1>12, <1>13, <1>14, <1>15, <1>16, <1>17, <1>18, <1>19 DEF Next, Begin, Continue, AtOnce

\* What the actions with a choice in them come to, one case at a time: the message is
\* marked with the entry bearing its key, or the transaction only ends.
Marks(s, e) ==
    LET m == session[s].message
    IN  /\ m \in Messages
        /\ entry[e].key = m
        /\ session[s].pc \in {"read", "posted"}
        /\ \A n \in Messages : n # m => inbox'[n] = inbox[n]
        /\ inbox'[m].status = "confirmed"
        /\ inbox'[m].text = FALSE
        /\ inbox'[m].entry = e
        /\ Ended(s)
        /\ UNCHANGED <<entry, connection, disturbed>>

OnlyEnded(s) == Ended(s) /\ UNCHANGED <<inbox, entry, connection, disturbed>>

LEMMA ConfirmedMarks ==
  ASSUME InboxInv, NEW s \in Sessions, NEW e \in KeyedEntries(session[s].message),
         session[s].pc \in {"read", "posted"}, inbox' = Confirmed(session[s].message, e), Ended(s),
         UNCHANGED <<entry, connection, disturbed>>
  PROVE  e \in Entries /\ Marks(s, e)
<1> DEFINE m == session[s].message
           row == [status |-> "confirmed", text |-> FALSE, entry |-> e, claim |-> None, lapsed |-> FALSE]
<1>1. m \in Messages /\ e \in Entries /\ entry[e].key = m
  BY DEF InboxInv, SessionsSound, KeyedEntries
<1>2. inbox' = [inbox EXCEPT ![m] = row] /\ DOMAIN inbox = Messages
  BY DEF Confirmed, InboxInv, TypeOK
<1>3. inbox'[m] = row /\ \A n \in Messages : n # m => inbox'[n] = inbox[n]
  BY <1>1, <1>2
<1> QED
  BY <1>1, <1>3 DEF Marks

ReplayGoesOn(s) ==
    /\ session[s].message \in Messages
    /\ session[s].pc = "read"
    /\ Moved(s, "unposted")
    /\ UNCHANGED <<inbox, entry, connection, disturbed>>

LEMMA ReplayCases ==
  ASSUME InboxInv, NEW s \in Sessions, Replay(s)
  PROVE  (\E e \in Entries : Marks(s, e)) \/ ReplayGoesOn(s)
<1>1. session[s].message \in Messages
  BY DEF Replay, InboxInv, SessionsSound
<1>2. ASSUME NEW e \in KeyedEntries(session[s].message), inbox' = Confirmed(session[s].message, e), Ended(s)
      PROVE  e \in Entries /\ Marks(s, e)
  BY <1>2, ConfirmedMarks DEF Replay
<1>3. QED
  BY <1>1, <1>2 DEF Replay, ReplayGoesOn

LEMMA SettleCases ==
  ASSUME InboxInv, NEW s \in Sessions, Settle(s)
  PROVE  \E e \in Entries : Marks(s, e)
<1>1. PICK e \in KeyedEntries(session[s].message) : inbox' = Confirmed(session[s].message, e)
  BY DEF Settle
<1> QED
  BY <1>1, ConfirmedMarks DEF Settle

LEMMA CountCases ==
  ASSUME NEW s \in Sessions, CountInbox(s)
  PROVE  \/ OnlyEnded(s)
         \/ /\ session[s].pc = "connected" /\ userLock = None /\ userLock' = s
            /\ inbox[session[s].message].status = "absent" /\ Cardinality(Waiting) < MaxWaiting
            /\ session' = [session EXCEPT ![s].pc = "counted"]
            /\ UNCHANGED <<inbox, entry, connection, connectionLock, disturbed>>
  BY DEF CountInbox, OnlyEnded

ClaimTakes(s) ==
    LET m == session[s].message
    IN  /\ m \in Messages
        /\ session[s].pc = "unposted"
        /\ inbox' \in [Messages -> InboxRows]
        /\ \A n \in Messages : n # m => inbox'[n] = inbox[n]
        /\ inbox[m].status \in {"pending", "processing"}
        /\ inbox[m].status = "processing" => inbox[m].lapsed
        /\ inbox'[m].status = "processing"
        /\ inbox'[m].claim = s
        /\ inbox'[m].text = inbox[m].text
        /\ inbox'[m].entry = inbox[m].entry
        /\ disturbed \subseteq disturbed'
        /\ inbox[m].lapsed /\ (Confirming(m) # {} \/ KeyedEntries(m) # {}) => m \in disturbed'
        /\ Moved(s, "claimed")
        /\ UNCHANGED <<entry, connection>>

LEMMA ClaimCases ==
  ASSUME InboxInv, NEW s \in Sessions, Claim(s)
  PROVE  ClaimTakes(s) \/ OnlyEnded(s)
<1> DEFINE m == session[s].message
           row == [inbox[m] EXCEPT !.status = "processing", !.claim = s, !.lapsed = FALSE]
<1>1. m \in Messages
  BY DEF Claim, InboxInv, SessionsSound
<1>2. inbox \in [Messages -> InboxRows] /\ inbox[m] \in InboxRows
  BY <1>1 DEF InboxInv, TypeOK
<1>3. /\ row \in InboxRows
      /\ row.status = "processing" /\ row.claim = s /\ row.text = inbox[m].text /\ row.entry = inbox[m].entry
  <2>1. row \in InboxRows
    BY <1>2, RowUpdates, Zenon
  <2>2. row.status = "processing" /\ row.claim = s /\ row.text = inbox[m].text /\ row.entry = inbox[m].entry
    <3>1. row.status = "processing" /\ row.claim = s
      BY <1>2 DEF InboxRows
    <3>2. row.text = inbox[m].text /\ row.entry = inbox[m].entry
      BY <1>2 DEF InboxRows
    <3> QED
      BY <3>1, <3>2, Zenon
  <2> QED
    BY <2>1, <2>2, Zenon
<1>4. CASE OnlyEnded(s)
  BY <1>4, Zenon
<1>5. ASSUME Claimable(m), Moved(s, "claimed"),
             inbox' = [inbox EXCEPT ![m] = [@ EXCEPT !.status = "processing", !.claim = s, !.lapsed = FALSE]],
             disturbed' = IF inbox[m].lapsed /\ (Confirming(m) # {} \/ KeyedEntries(m) # {})
                          THEN disturbed \cup {m} ELSE disturbed
      PROVE  ClaimTakes(s)
  <2>1. inbox' = [inbox EXCEPT ![m] = row]
    BY <1>1, <1>2, <1>5, RowEdits, Zenon
  <2>2. /\ disturbed \subseteq disturbed'
        /\ inbox[m].lapsed /\ (Confirming(m) # {} \/ KeyedEntries(m) # {}) => m \in disturbed'
    BY <1>5
  <2>3. session[s].pc = "unposted" /\ UNCHANGED <<entry, connection>>
    BY DEF Claim
  <2>4. inbox[m].status \in {"pending", "processing"} /\ (inbox[m].status = "processing" => inbox[m].lapsed)
    BY <1>5 DEF Claimable
  <2> HIDE DEF row
  <2>5. /\ inbox' \in [Messages -> InboxRows]
        /\ \A n \in Messages : n # m => inbox'[n] = inbox[n]
        /\ inbox'[m] = row
    BY <1>1, <1>2, <1>3, <2>1
  <2>6. QED
    BY <1>1, <1>3, <1>5, <2>2, <2>3, <2>4, <2>5, Zenon DEF ClaimTakes
<1>6. QED
  BY <1>4, <1>5 DEF Claim, OnlyEnded

ReleaseFrees(s) ==
    LET m == session[s].message
    IN  /\ m \in Messages
        /\ session[s].pc = "failed"
        /\ \A n \in Messages : n # m => inbox'[n] = inbox[n]
        /\ inbox[m].status = "processing"
        /\ inbox[m].claim = s
        /\ inbox'[m].status = "pending"
        /\ inbox'[m].text = inbox[m].text
        /\ inbox'[m].entry = inbox[m].entry
        /\ Ended(s)
        /\ UNCHANGED <<entry, connection, disturbed>>

LEMMA ReleaseCases ==
  ASSUME InboxInv, NEW s \in Sessions, Release(s)
  PROVE  ReleaseFrees(s) \/ OnlyEnded(s)
<1> DEFINE m == session[s].message
           row == [inbox[m] EXCEPT !.status = "pending", !.claim = None, !.lapsed = FALSE]
<1>1. m \in Messages
  BY DEF Release, InboxInv, SessionsSound
<1>2. inbox \in [Messages -> InboxRows] /\ inbox[m] \in InboxRows
  BY <1>1 DEF InboxInv, TypeOK
<1>3. row.status = "pending" /\ row.text = inbox[m].text /\ row.entry = inbox[m].entry
  BY <1>2, RowFields, Zenon
<1>4. CASE ClaimedBy(m, s)
  <2>1. inbox' = [inbox EXCEPT ![m] = row]
    BY <1>1, <1>2, <1>4, RowEdits, Zenon DEF Release
  <2> HIDE DEF row
  <2>2. inbox'[m] = row /\ \A n \in Messages : n # m => inbox'[n] = inbox[n]
    BY <1>1, <1>2, <2>1
  <2> QED
    <3>1. /\ session[s].pc = "failed" /\ Ended(s) /\ UNCHANGED <<entry, connection, disturbed>>
          /\ inbox[m].status = "processing" /\ inbox[m].claim = s
      BY <1>4 DEF Release, ClaimedBy
    <3> QED
      BY <1>1, <1>3, <2>2, <3>1, Zenon DEF ReleaseFrees
<1>5. CASE ~ClaimedBy(m, s)
  BY <1>5 DEF OnlyEnded, Release
<1> QED
  BY <1>4, <1>5, Zenon

PostFinds(s) ==
    /\ \E e \in Entries : entry[e].key = session[s].message
    /\ session[s].message \in Messages
    /\ session[s].pc = "claimed"
    /\ Moved(s, "posted")
    /\ UNCHANGED <<inbox, entry, connection, disturbed>>

PostWrites(s, e) ==
    /\ \A f \in Entries : entry[f].key # session[s].message
    /\ session[s].message \in Messages
    /\ session[s].pc = "claimed"
    /\ entry[e].status = "free"
    /\ \A f \in Entries : f # e => entry'[f] = entry[f]
    /\ entry'[e].status = "posted"
    /\ entry'[e].key = session[s].message
    /\ Moved(s, "posted")
    /\ UNCHANGED <<inbox, connection, disturbed>>

LEMMA PostCases ==
  ASSUME InboxInv, NEW s \in Sessions, Post(s)
  PROVE  PostFinds(s) \/ \E e \in Entries : PostWrites(s, e)
<1>1. session[s].message \in Messages
  BY DEF Post, InboxInv, SessionsSound
<1>2. CASE KeyedEntries(session[s].message) # {}
  BY <1>1, <1>2 DEF Post, PostFinds, KeyedEntries
<1>3. CASE KeyedEntries(session[s].message) = {}
  <2>1. PICK e \in Entries : /\ entry[e].status = "free"
                             /\ entry' = [entry EXCEPT ![e] = [status |-> "posted", key |-> session[s].message]]
    BY <1>3 DEF Post
  <2>2. /\ \A f \in Entries : f # e => entry'[f] = entry[f]
        /\ entry'[e].status = "posted" /\ entry'[e].key = session[s].message
    BY <2>1 DEF InboxInv, TypeOK
  <2>3. session[s].pc = "claimed" /\ Moved(s, "posted") /\ UNCHANGED <<inbox, connection, disturbed>>
    BY DEF Post
  <2>4. \A f \in Entries : entry[f].key # session[s].message
    BY <1>3, Zenon DEF KeyedEntries
  <2>5. QED
    BY <1>1, <2>1, <2>2, <2>3, <2>4 DEF PostWrites
<1>4. QED
  BY <1>2, <1>3

\* A message already received is marked, and only the marking session ends.
LEMMA MarksSessions ==
  ASSUME InboxInv, NEW s \in Sessions, NEW e \in Entries, Marks(s, e)
  PROVE  SessionsSound'
<1>1. TypeOK /\ SessionsSound
  BY DEF InboxInv
<1>2. session'[s].pc = "idle" /\ \A t \in Sessions \ {s} : session'[t] = session[t]
  BY <1>1 DEF Marks, Ended, Idle, At, TypeOK
<1>3. /\ \A d \in Devices : connectionLock[d] # s => connectionLock'[d] = connectionLock[d]
      /\ userLock # s => userLock' = userLock
  BY DEF Marks, Ended
<1>4. \A n \in Messages : inbox'[n].status = "absent" <=> inbox[n].status = "absent"
  <2>1. inbox[session[s].message].status # "absent"
    BY <1>1 DEF Marks, SessionsSound
  <2> QED
    BY <2>1 DEF Marks
<1>5. UNCHANGED <<entry, connection>>
  BY DEF Marks
<1> QED
  BY <1>1, <1>2, <1>3, <1>4, <1>5 DEF SessionsSound, Receiving

\* The locks a session holds keep what it has read true until it ends.
LEMMA NextSessions == InboxInv /\ [Next]_vars => SessionsSound'
<1> SUFFICES ASSUME InboxInv, [Next]_vars PROVE SessionsSound'
  OBVIOUS
<1> USE InboxAssumption DEF InboxInv, TypeOK, InboxRows, EntryRows, SessionStates, SessionsSound, Receiving
<1>1. ASSUME NEW s \in Sessions, NEW d \in Devices, NEW m \in Messages, Connect(s, d, m) PROVE SessionsSound'
  BY <1>1 DEF Connect, At, Idle
<1>2. ASSUME NEW s \in Sessions, CountInbox(s) PROVE SessionsSound'
  <2>1. ASSUME OnlyEnded(s) PROVE SessionsSound'
    BY <2>1 DEF OnlyEnded, Ended, Idle, At
  <2>2. ASSUME /\ session[s].pc = "connected" /\ userLock = None /\ userLock' = s
               /\ inbox[session[s].message].status = "absent"
               /\ session' = [session EXCEPT ![s].pc = "counted"]
               /\ UNCHANGED <<inbox, entry, connection, connectionLock, disturbed>>
        PROVE  SessionsSound'
    BY <2>2
  <2>3. QED
    BY <1>2, <2>1, <2>2, CountCases
<1>3. ASSUME NEW s \in Sessions, InsertMessage(s) PROVE SessionsSound'
  BY <1>3 DEF InsertMessage, Ended, Received, Idle, At
<1>4. ASSUME NEW s \in Sessions, NEW m \in Messages, ReadMessage(s, m) PROVE SessionsSound'
  BY <1>4 DEF ReadMessage, Idle, At
<1>5. ASSUME NEW s \in Sessions, Replay(s) PROVE SessionsSound'
  <2>1. ASSUME NEW e \in Entries, Marks(s, e) PROVE SessionsSound'
    BY <2>1, MarksSessions
  <2>2. ASSUME ReplayGoesOn(s) PROVE SessionsSound'
    BY <2>2 DEF ReplayGoesOn, Moved
  <2>3. QED
    BY <1>5, <2>1, <2>2, ReplayCases
<1>6. ASSUME NEW s \in Sessions, RefuseSimilar(s) PROVE SessionsSound'
  BY <1>6 DEF RefuseSimilar, Ended, Idle, At
<1>7. ASSUME NEW s \in Sessions, Claim(s) PROVE SessionsSound'
  <2>1. ASSUME ClaimTakes(s) PROVE SessionsSound'
    BY <2>1 DEF ClaimTakes, Moved, Confirming, KeyedEntries
  <2>2. ASSUME OnlyEnded(s) PROVE SessionsSound'
    BY <2>2 DEF OnlyEnded, Ended, Idle, At
  <2>3. QED
    BY <1>7, <2>1, <2>2, ClaimCases
<1>8. ASSUME NEW s \in Sessions, Post(s) PROVE SessionsSound'
  <2>1. ASSUME PostFinds(s) PROVE SessionsSound'
    BY <2>1 DEF PostFinds, Moved
  <2>2. ASSUME NEW e \in Entries, PostWrites(s, e) PROVE SessionsSound'
    <3>1. /\ \A f \in Entries : f # e => entry'[f] = entry[f]
          /\ entry[e].status = "free" /\ entry'[e].key = session[s].message
          /\ session' = [session EXCEPT ![s].pc = "posted"] /\ session[s].pc = "claimed"
          /\ UNCHANGED <<inbox, connection, connectionLock, userLock>>
      BY <2>2 DEF PostWrites, Moved
    <3>2. ASSUME NEW t \in Sessions, t # s, session[t].pc = "posted"
          PROVE  \E f \in Entries : entry'[f].key = session[t].message
      <4>1. PICK f \in Entries : entry[f].key = session[t].message /\ session[t].message # None
        BY <3>2
      <4>2. f # e
        BY <3>1, <4>1 DEF KeysSound
      <4>3. QED
        BY <3>1, <4>1, <4>2
    <3>3. /\ \A t \in Sessions : t # s => session'[t] = session[t]
          /\ session'[s].pc = "posted" /\ session'[s].message = session[s].message
          /\ \E f \in Entries : entry'[f].key = session[s].message
      BY <3>1
    <3>4. QED
      BY <3>1, <3>2, <3>3
  <2>3. QED
    BY <1>8, <2>1, <2>2, PostCases
<1>9. ASSUME NEW s \in Sessions, PostFails(s) PROVE SessionsSound'
  BY <1>9 DEF PostFails, Moved
<1>10. ASSUME NEW s \in Sessions, Settle(s) PROVE SessionsSound'
  <2>1. PICK e \in Entries : Marks(s, e)
    BY <1>10, SettleCases
  <2>2. QED
    BY <2>1, MarksSessions
<1>11. ASSUME NEW s \in Sessions, Release(s) PROVE SessionsSound'
  <2>1. ASSUME ReleaseFrees(s) PROVE SessionsSound'
    BY <2>1 DEF ReleaseFrees, Ended, Idle, At
  <2>2. ASSUME OnlyEnded(s) PROVE SessionsSound'
    BY <2>2 DEF OnlyEnded, Ended, Idle, At
  <2>3. QED
    BY <1>11, <2>1, <2>2, ReleaseCases
<1>12. ASSUME NEW s \in Sessions, Crash(s) PROVE SessionsSound'
  BY <1>12 DEF Crash, Ended, Idle, At
<1>13. ASSUME NEW m \in Messages, Lapse(m) PROVE SessionsSound'
  BY <1>13 DEF Lapse
<1>14. ASSUME NEW m \in Messages, NEW e \in Entries, Link(m, e) PROVE SessionsSound'
  BY <1>14 DEF Link, Confirmed
<1>15. ASSUME NEW m \in Messages, Reject(m) PROVE SessionsSound'
  BY <1>15 DEF Reject
<1>16. ASSUME NEW e \in Entries, RecordTransfer(e) PROVE SessionsSound'
  BY <1>16 DEF RecordTransfer
<1>17. ASSUME NEW d \in Devices, Revoke(d) PROVE SessionsSound'
  BY <1>17 DEF Revoke
<1>18. CASE UNCHANGED vars
  BY <1>18 DEF vars
<1>19. ASSUME NEW s \in Sessions, SettleFails(s) PROVE SessionsSound'
  BY <1>19 DEF SettleFails, Moved
<1> HIDE DEF InboxInv, TypeOK, InboxRows, EntryRows, SessionStates, SessionsSound, Receiving
<1>20. QED
  BY <1>1, <1>2, <1>3, <1>4, <1>5, <1>6, <1>7, <1>8, <1>9, <1>10, <1>11, <1>12, <1>13, <1>14, <1>15, <1>16, <1>17, <1>18, <1>19 DEF Next, Begin, Continue, AtOnce

\* A key is posted once: whoever posts it has seen that no entry bears it.
LEMMA NextKeys == InboxInv /\ [Next]_vars => KeysSound'
<1> SUFFICES ASSUME InboxInv, [Next]_vars PROVE KeysSound'
  OBVIOUS
<1> USE InboxAssumption DEF InboxInv, TypeOK, InboxRows, EntryRows, SessionStates, SessionsSound, KeysSound
<1>1. ASSUME NEW s \in Sessions, NEW d \in Devices, NEW m \in Messages, Connect(s, d, m) PROVE KeysSound'
  BY <1>1 DEF Connect, At, Idle
<1>2. ASSUME NEW s \in Sessions, CountInbox(s) PROVE KeysSound'
  <2>1. ASSUME OnlyEnded(s) PROVE KeysSound'
    BY <2>1 DEF OnlyEnded, Ended, Idle, At
  <2>2. ASSUME /\ session[s].pc = "connected" /\ userLock = None /\ userLock' = s
               /\ inbox[session[s].message].status = "absent"
               /\ session' = [session EXCEPT ![s].pc = "counted"]
               /\ UNCHANGED <<inbox, entry, connection, connectionLock, disturbed>>
        PROVE  KeysSound'
    BY <2>2
  <2>3. QED
    BY <1>2, <2>1, <2>2, CountCases
<1>3. ASSUME NEW s \in Sessions, InsertMessage(s) PROVE KeysSound'
  BY <1>3 DEF InsertMessage, Ended, Received, Idle, At
<1>4. ASSUME NEW s \in Sessions, NEW m \in Messages, ReadMessage(s, m) PROVE KeysSound'
  BY <1>4 DEF ReadMessage, Idle, At
<1>5. ASSUME NEW s \in Sessions, Replay(s) PROVE KeysSound'
  <2>1. ASSUME NEW e \in Entries, Marks(s, e) PROVE KeysSound'
    BY <2>1 DEF Marks, Ended, Idle, At
  <2>2. ASSUME ReplayGoesOn(s) PROVE KeysSound'
    BY <2>2 DEF ReplayGoesOn, Moved
  <2>3. QED
    BY <1>5, <2>1, <2>2, ReplayCases
<1>6. ASSUME NEW s \in Sessions, RefuseSimilar(s) PROVE KeysSound'
  BY <1>6 DEF RefuseSimilar, Ended, Idle, At
<1>7. ASSUME NEW s \in Sessions, Claim(s) PROVE KeysSound'
  <2>1. ASSUME ClaimTakes(s) PROVE KeysSound'
    BY <2>1 DEF ClaimTakes, Moved, Confirming, KeyedEntries
  <2>2. ASSUME OnlyEnded(s) PROVE KeysSound'
    BY <2>2 DEF OnlyEnded, Ended, Idle, At
  <2>3. QED
    BY <1>7, <2>1, <2>2, ClaimCases
<1>8. ASSUME NEW s \in Sessions, Post(s) PROVE KeysSound'
  <2>1. ASSUME PostFinds(s) PROVE KeysSound'
    BY <2>1 DEF PostFinds, Moved
  <2>2. ASSUME NEW e \in Entries, PostWrites(s, e) PROVE KeysSound'
    <3>1. \A f \in Entries : entry'[f].key = session[s].message => f = e
      BY <2>2 DEF PostWrites
    <3>2. \A f \in Entries : f # e => entry'[f] = entry[f]
      BY <2>2 DEF PostWrites
    <3>3. /\ entry'[e].status = "posted" /\ entry'[e].key = session[s].message
          /\ inbox' = inbox /\ inbox[session[s].message].status # "absent"
      BY <2>2 DEF PostWrites
    <3>4. ASSUME NEW f \in Entries, entry'[f].key # None
          PROVE  entry'[f].status = "posted" /\ inbox'[entry'[f].key].status # "absent"
      <4>1. CASE f = e
        BY <3>3, <4>1
      <4>2. CASE f # e
        BY <3>2, <3>3, <3>4, <4>2
      <4> QED
        BY <4>1, <4>2
    <3>5. ASSUME NEW f \in Entries, NEW g \in Entries, entry'[f].key # None, entry'[f].key = entry'[g].key
          PROVE  f = g
      <4>1. CASE f = e \/ g = e
        BY <3>1, <3>3, <3>5, <4>1
      <4>2. CASE f # e /\ g # e
        BY <3>2, <3>5, <4>2
      <4> QED
        BY <4>1, <4>2
    <3>6. QED
      BY <3>4, <3>5
  <2>3. QED
    BY <1>8, <2>1, <2>2, PostCases
<1>9. ASSUME NEW s \in Sessions, PostFails(s) PROVE KeysSound'
  BY <1>9 DEF PostFails, Moved
<1>10. ASSUME NEW s \in Sessions, Settle(s) PROVE KeysSound'
  <2>1. PICK e \in Entries : Marks(s, e)
    BY <1>10, SettleCases
  <2>2. QED
    BY <2>1 DEF Marks, Ended, Idle, At
<1>11. ASSUME NEW s \in Sessions, Release(s) PROVE KeysSound'
  <2>1. ASSUME ReleaseFrees(s) PROVE KeysSound'
    BY <2>1 DEF ReleaseFrees, Ended, Idle, At
  <2>2. ASSUME OnlyEnded(s) PROVE KeysSound'
    BY <2>2 DEF OnlyEnded, Ended, Idle, At
  <2>3. QED
    BY <1>11, <2>1, <2>2, ReleaseCases
<1>12. ASSUME NEW s \in Sessions, Crash(s) PROVE KeysSound'
  BY <1>12 DEF Crash, Ended, Idle, At
<1>13. ASSUME NEW m \in Messages, Lapse(m) PROVE KeysSound'
  BY <1>13 DEF Lapse
<1>14. ASSUME NEW m \in Messages, NEW e \in Entries, Link(m, e) PROVE KeysSound'
  BY <1>14 DEF Link, Confirmed
<1>15. ASSUME NEW m \in Messages, Reject(m) PROVE KeysSound'
  BY <1>15 DEF Reject
<1>16. ASSUME NEW e \in Entries, RecordTransfer(e) PROVE KeysSound'
  BY <1>16 DEF RecordTransfer
<1>17. ASSUME NEW d \in Devices, Revoke(d) PROVE KeysSound'
  BY <1>17 DEF Revoke
<1>18. CASE UNCHANGED vars
  BY <1>18 DEF vars
<1>19. ASSUME NEW s \in Sessions, SettleFails(s) PROVE KeysSound'
  BY <1>19 DEF SettleFails, Moved
<1> HIDE DEF InboxInv, TypeOK, InboxRows, EntryRows, SessionStates, SessionsSound, KeysSound
<1>20. QED
  BY <1>1, <1>2, <1>3, <1>4, <1>5, <1>6, <1>7, <1>8, <1>9, <1>10, <1>11, <1>12, <1>13, <1>14, <1>15, <1>16, <1>17, <1>18, <1>19 DEF Next, Begin, Continue, AtOnce

\* A claim that is not disturbed stays what it is worth.
LEMMA NextClaims == InboxInv /\ [Next]_vars => ClaimsSound'
<1> SUFFICES ASSUME InboxInv, [Next]_vars PROVE ClaimsSound'
  OBVIOUS
<1> USE InboxAssumption DEF InboxInv, TypeOK, InboxRows, EntryRows, SessionStates, SessionsSound, KeysSound, ClaimsSound
<1>1. ASSUME NEW s \in Sessions, NEW d \in Devices, NEW m \in Messages, Connect(s, d, m) PROVE ClaimsSound'
  BY <1>1 DEF Connect, At, Idle
<1>2. ASSUME NEW s \in Sessions, CountInbox(s) PROVE ClaimsSound'
  <2>1. ASSUME OnlyEnded(s) PROVE ClaimsSound'
    BY <2>1 DEF OnlyEnded, Ended, Idle, At
  <2>2. ASSUME /\ session[s].pc = "connected" /\ userLock = None /\ userLock' = s
               /\ inbox[session[s].message].status = "absent"
               /\ session' = [session EXCEPT ![s].pc = "counted"]
               /\ UNCHANGED <<inbox, entry, connection, connectionLock, disturbed>>
        PROVE  ClaimsSound'
    BY <2>2
  <2>3. QED
    BY <1>2, <2>1, <2>2, CountCases
<1>3. ASSUME NEW s \in Sessions, InsertMessage(s) PROVE ClaimsSound'
  BY <1>3 DEF InsertMessage, Ended, Received, Idle, At
<1>4. ASSUME NEW s \in Sessions, NEW m \in Messages, ReadMessage(s, m) PROVE ClaimsSound'
  BY <1>4 DEF ReadMessage, Idle, At
<1>5. ASSUME NEW s \in Sessions, Replay(s) PROVE ClaimsSound'
  <2>1. ASSUME NEW e \in Entries, Marks(s, e) PROVE ClaimsSound'
    BY <2>1 DEF Marks, Ended, Idle, At
  <2>2. ASSUME ReplayGoesOn(s) PROVE ClaimsSound'
    BY <2>2 DEF ReplayGoesOn, Moved
  <2>3. QED
    BY <1>5, <2>1, <2>2, ReplayCases
<1>6. ASSUME NEW s \in Sessions, RefuseSimilar(s) PROVE ClaimsSound'
  BY <1>6 DEF RefuseSimilar, Ended, Idle, At
<1>7. ASSUME NEW s \in Sessions, Claim(s) PROVE ClaimsSound'
  <2>1. ASSUME ClaimTakes(s) PROVE ClaimsSound'
    BY <2>1 DEF ClaimTakes, Moved, Confirming, KeyedEntries
  <2>2. ASSUME OnlyEnded(s) PROVE ClaimsSound'
    BY <2>2 DEF OnlyEnded, Ended, Idle, At
  <2>3. QED
    BY <1>7, <2>1, <2>2, ClaimCases
<1>8. ASSUME NEW s \in Sessions, Post(s) PROVE ClaimsSound'
  <2>1. ASSUME PostFinds(s) PROVE ClaimsSound'
    BY <2>1 DEF PostFinds, Moved
  <2>2. ASSUME NEW e \in Entries, PostWrites(s, e) PROVE ClaimsSound'
    <3>1. \A f \in Entries : f # e => entry'[f] = entry[f]
      BY <2>2 DEF PostWrites
    <3>2. /\ entry'[e].key = session[s].message /\ session[s].pc = "claimed"
          /\ inbox' = inbox /\ disturbed' = disturbed
          /\ session' = [session EXCEPT ![s].pc = "posted"]
      BY <2>2 DEF PostWrites, Moved
    <3>3. \A t \in Sessions : t # s => session'[t] = session[t]
      BY <3>2
    <3>4. session'[s].pc = "posted"
      BY <3>2
    <3>5. ASSUME NEW m \in Messages, m \notin disturbed, m = session[s].message
          PROVE  inbox[m].status = "processing" /\ inbox[m].claim = s
      BY <3>2, <3>5
    <3>6. ASSUME NEW m \in Messages \ disturbed, NEW t \in Sessions,
                 session'[t].message = m, session'[t].pc \in {"claimed", "failed"}
          PROVE  /\ inbox[m].status = "processing"
                 /\ inbox[m].claim = t
                 /\ m # session[s].message
                 /\ \A f \in Entries : entry'[f].key # m
      <4>1. t # s /\ session[t].message = m /\ session[t].pc \in {"claimed", "failed"}
        BY <3>3, <3>4, <3>6
      <4>2. inbox[m].status = "processing" /\ inbox[m].claim = t /\ \A f \in Entries : entry[f].key # m
        BY <4>1
      <4>3. m # session[s].message
        BY <3>5, <4>1, <4>2
      <4>4. QED
        <5>1. \A f \in Entries : entry'[f].key # m
          BY <3>1, <3>2, <4>2, <4>3
        <5>2. QED
          BY <4>2, <4>3, <5>1
    <3>7. ASSUME NEW m \in Messages \ disturbed, NEW f \in Entries, entry'[f].key = m
          PROVE  /\ inbox[m].status \in {"processing", "confirmed"}
                 /\ inbox[m].status = "confirmed" => inbox[m].entry = f
      <4>1. CASE f = e
        BY <3>2, <3>5, <3>7, <4>1
      <4>2. CASE f # e
        BY <3>1, <3>7, <4>2
      <4>3. QED
        BY <4>1, <4>2
    <3>8. QED
      BY <3>2, <3>6, <3>7
  <2>3. QED
    BY <1>8, <2>1, <2>2, PostCases
<1>9. ASSUME NEW s \in Sessions, PostFails(s) PROVE ClaimsSound'
  BY <1>9 DEF PostFails, Moved
<1>10. ASSUME NEW s \in Sessions, Settle(s) PROVE ClaimsSound'
  <2>1. PICK e \in Entries : Marks(s, e)
    BY <1>10, SettleCases
  <2>2. QED
    BY <2>1 DEF Marks, Ended, Idle, At
<1>11. ASSUME NEW s \in Sessions, Release(s) PROVE ClaimsSound'
  <2>1. ASSUME ReleaseFrees(s) PROVE ClaimsSound'
    BY <2>1 DEF ReleaseFrees, Ended, Idle, At
  <2>2. ASSUME OnlyEnded(s) PROVE ClaimsSound'
    BY <2>2 DEF OnlyEnded, Ended, Idle, At
  <2>3. QED
    BY <1>11, <2>1, <2>2, ReleaseCases
<1>12. ASSUME NEW s \in Sessions, Crash(s) PROVE ClaimsSound'
  BY <1>12 DEF Crash, Ended, Idle, At
<1>13. ASSUME NEW m \in Messages, Lapse(m) PROVE ClaimsSound'
  BY <1>13 DEF Lapse
<1>14. ASSUME NEW m \in Messages, NEW e \in Entries, Link(m, e) PROVE ClaimsSound'
  BY <1>14 DEF Link, Confirmed
<1>15. ASSUME NEW m \in Messages, Reject(m) PROVE ClaimsSound'
  BY <1>15 DEF Reject
<1>16. ASSUME NEW e \in Entries, RecordTransfer(e) PROVE ClaimsSound'
  BY <1>16 DEF RecordTransfer
<1>17. ASSUME NEW d \in Devices, Revoke(d) PROVE ClaimsSound'
  BY <1>17 DEF Revoke
<1>18. CASE UNCHANGED vars
  BY <1>18 DEF vars
<1>19. ASSUME NEW s \in Sessions, SettleFails(s) PROVE ClaimsSound'
  BY <1>19 DEF SettleFails, Moved
<1> HIDE DEF InboxInv, TypeOK, InboxRows, EntryRows, SessionStates, SessionsSound, KeysSound, ClaimsSound
<1>20. QED
  BY <1>1, <1>2, <1>3, <1>4, <1>5, <1>6, <1>7, <1>8, <1>9, <1>10, <1>11, <1>12, <1>13, <1>14, <1>15, <1>16, <1>17, <1>18, <1>19 DEF Next, Begin, Continue, AtOnce

\* What confirms a message names its entry and drops its text.
LEMMA NextDecided == InboxInv /\ [Next]_vars => DecidedWithItsText'
<1> SUFFICES ASSUME InboxInv, [Next]_vars PROVE DecidedWithItsText'
  OBVIOUS
<1> USE InboxAssumption DEF InboxInv, TypeOK, InboxRows, EntryRows, SessionStates, SessionsSound, KeysSound, DecidedWithItsText, Waiting
<1>1. ASSUME NEW s \in Sessions, NEW d \in Devices, NEW m \in Messages, Connect(s, d, m) PROVE DecidedWithItsText'
  BY <1>1 DEF Connect, At, Idle
<1>2. ASSUME NEW s \in Sessions, CountInbox(s) PROVE DecidedWithItsText'
  <2>1. ASSUME OnlyEnded(s) PROVE DecidedWithItsText'
    BY <2>1 DEF OnlyEnded, Ended, Idle, At
  <2>2. ASSUME /\ session[s].pc = "connected" /\ userLock = None /\ userLock' = s
               /\ inbox[session[s].message].status = "absent"
               /\ session' = [session EXCEPT ![s].pc = "counted"]
               /\ UNCHANGED <<inbox, entry, connection, connectionLock, disturbed>>
        PROVE  DecidedWithItsText'
    BY <2>2
  <2>3. QED
    BY <1>2, <2>1, <2>2, CountCases
<1>3. ASSUME NEW s \in Sessions, InsertMessage(s) PROVE DecidedWithItsText'
  BY <1>3 DEF InsertMessage, Ended, Received, Idle, At
<1>4. ASSUME NEW s \in Sessions, NEW m \in Messages, ReadMessage(s, m) PROVE DecidedWithItsText'
  BY <1>4 DEF ReadMessage, Idle, At
<1>5. ASSUME NEW s \in Sessions, Replay(s) PROVE DecidedWithItsText'
  <2>1. ASSUME NEW e \in Entries, Marks(s, e) PROVE DecidedWithItsText'
    BY <2>1 DEF Marks, Ended, Idle, At
  <2>2. ASSUME ReplayGoesOn(s) PROVE DecidedWithItsText'
    BY <2>2 DEF ReplayGoesOn, Moved
  <2>3. QED
    BY <1>5, <2>1, <2>2, ReplayCases
<1>6. ASSUME NEW s \in Sessions, RefuseSimilar(s) PROVE DecidedWithItsText'
  BY <1>6 DEF RefuseSimilar, Ended, Idle, At
<1>7. ASSUME NEW s \in Sessions, Claim(s) PROVE DecidedWithItsText'
  <2>1. ASSUME ClaimTakes(s) PROVE DecidedWithItsText'
    BY <2>1 DEF ClaimTakes, Moved, Confirming, KeyedEntries
  <2>2. ASSUME OnlyEnded(s) PROVE DecidedWithItsText'
    BY <2>2 DEF OnlyEnded, Ended, Idle, At
  <2>3. QED
    BY <1>7, <2>1, <2>2, ClaimCases
<1>8. ASSUME NEW s \in Sessions, Post(s) PROVE DecidedWithItsText'
  <2>1. ASSUME PostFinds(s) PROVE DecidedWithItsText'
    BY <2>1 DEF PostFinds, Moved
  <2>2. ASSUME NEW e \in Entries, PostWrites(s, e) PROVE DecidedWithItsText'
    <3>1. /\ \A f \in Entries : f # e => entry'[f] = entry[f]
          /\ entry'[e].status = "posted" /\ inbox' = inbox
      BY <2>2 DEF PostWrites
    <3>2. QED
      BY <3>1
  <2>3. QED
    BY <1>8, <2>1, <2>2, PostCases
<1>9. ASSUME NEW s \in Sessions, PostFails(s) PROVE DecidedWithItsText'
  BY <1>9 DEF PostFails, Moved
<1>10. ASSUME NEW s \in Sessions, Settle(s) PROVE DecidedWithItsText'
  <2>1. PICK e \in Entries : Marks(s, e)
    BY <1>10, SettleCases
  <2>2. QED
    BY <2>1 DEF Marks, Ended, Idle, At
<1>11. ASSUME NEW s \in Sessions, Release(s) PROVE DecidedWithItsText'
  <2>1. ASSUME ReleaseFrees(s) PROVE DecidedWithItsText'
    BY <2>1 DEF ReleaseFrees, Ended, Idle, At
  <2>2. ASSUME OnlyEnded(s) PROVE DecidedWithItsText'
    BY <2>2 DEF OnlyEnded, Ended, Idle, At
  <2>3. QED
    BY <1>11, <2>1, <2>2, ReleaseCases
<1>12. ASSUME NEW s \in Sessions, Crash(s) PROVE DecidedWithItsText'
  BY <1>12 DEF Crash, Ended, Idle, At
<1>13. ASSUME NEW m \in Messages, Lapse(m) PROVE DecidedWithItsText'
  BY <1>13 DEF Lapse
<1>14. ASSUME NEW m \in Messages, NEW e \in Entries, Link(m, e) PROVE DecidedWithItsText'
  BY <1>14 DEF Link, Confirmed
<1>15. ASSUME NEW m \in Messages, Reject(m) PROVE DecidedWithItsText'
  BY <1>15 DEF Reject
<1>16. ASSUME NEW e \in Entries, RecordTransfer(e) PROVE DecidedWithItsText'
  BY <1>16 DEF RecordTransfer
<1>17. ASSUME NEW d \in Devices, Revoke(d) PROVE DecidedWithItsText'
  BY <1>17 DEF Revoke
<1>18. CASE UNCHANGED vars
  BY <1>18 DEF vars
<1>19. ASSUME NEW s \in Sessions, SettleFails(s) PROVE DecidedWithItsText'
  BY <1>19 DEF SettleFails, Moved
<1> HIDE DEF InboxInv, TypeOK, InboxRows, EntryRows, SessionStates, SessionsSound, KeysSound, DecidedWithItsText, Waiting
<1>20. QED
  BY <1>1, <1>2, <1>3, <1>4, <1>5, <1>6, <1>7, <1>8, <1>9, <1>10, <1>11, <1>12, <1>13, <1>14, <1>15, <1>16, <1>17, <1>18, <1>19 DEF Next, Begin, Continue, AtOnce

\* No session comes to know of room that is not there.
NoNewCount ==
    \A t \in Sessions :
        session'[t].pc = "counted" => session[t].pc = "counted" \/ Cardinality(Waiting) < MaxWaiting

\* Every step but the insertion lets no further message wait.
LEMMA NoneArrives ==
  ASSUME InboxInv, [Next]_vars, ~\E s \in Sessions : InsertMessage(s)
  PROVE  Waiting' \subseteq Waiting /\ NoNewCount
<1> USE InboxAssumption DEF InboxInv, TypeOK, InboxRows, SessionStates, SessionsSound, Waiting, NoNewCount
<1>1. ASSUME NEW s \in Sessions, NEW d \in Devices, NEW m \in Messages, Connect(s, d, m) PROVE (Waiting' \subseteq Waiting /\ NoNewCount)
  BY <1>1 DEF Connect, At, Idle
<1>2. ASSUME NEW s \in Sessions, CountInbox(s) PROVE (Waiting' \subseteq Waiting /\ NoNewCount)
  <2>1. inbox' = inbox
    BY <1>2 DEF CountInbox
  <2>2. CASE Cardinality(Waiting) < MaxWaiting
    BY <2>1, <2>2
  <2>3. CASE ~(Cardinality(Waiting) < MaxWaiting)
    <3>1. Ended(s)
      BY <1>2, <2>3 DEF CountInbox
    <3>2. NoNewCount
      BY <3>1 DEF Ended, Idle, At
    <3>3. QED
      BY <2>1, <3>2
  <2>4. QED
    BY <2>2, <2>3
<1>3. ASSUME NEW s \in Sessions, NEW m \in Messages, ReadMessage(s, m) PROVE (Waiting' \subseteq Waiting /\ NoNewCount)
  BY <1>3 DEF ReadMessage, At, Idle
<1>4. ASSUME NEW s \in Sessions, Replay(s) PROVE (Waiting' \subseteq Waiting /\ NoNewCount)
  <2>1. ASSUME NEW e \in Entries, Marks(s, e) PROVE (Waiting' \subseteq Waiting /\ NoNewCount)
    BY <2>1 DEF Marks, Ended, Idle, At
  <2>2. ASSUME ReplayGoesOn(s) PROVE (Waiting' \subseteq Waiting /\ NoNewCount)
    BY <2>2 DEF ReplayGoesOn, Moved
  <2>3. QED
    BY <1>4, <2>1, <2>2, ReplayCases
<1>5. ASSUME NEW s \in Sessions, RefuseSimilar(s) PROVE (Waiting' \subseteq Waiting /\ NoNewCount)
  BY <1>5 DEF RefuseSimilar, Ended, Idle, At
<1>6. ASSUME NEW s \in Sessions, Claim(s) PROVE (Waiting' \subseteq Waiting /\ NoNewCount)
  <2>1. ASSUME ClaimTakes(s) PROVE (Waiting' \subseteq Waiting /\ NoNewCount)
    BY <2>1 DEF ClaimTakes, Moved
  <2>2. ASSUME OnlyEnded(s) PROVE (Waiting' \subseteq Waiting /\ NoNewCount)
    BY <2>2 DEF OnlyEnded, Ended, Idle, At
  <2>3. QED
    BY <1>6, <2>1, <2>2, ClaimCases
<1>7. ASSUME NEW s \in Sessions, Post(s) PROVE (Waiting' \subseteq Waiting /\ NoNewCount)
  BY <1>7 DEF Post, Moved
<1>8. ASSUME NEW s \in Sessions, PostFails(s) PROVE (Waiting' \subseteq Waiting /\ NoNewCount)
  BY <1>8 DEF PostFails, Moved
<1>9. ASSUME NEW s \in Sessions, Settle(s) PROVE (Waiting' \subseteq Waiting /\ NoNewCount)
  <2>1. PICK e \in Entries : Marks(s, e)
    BY <1>9, SettleCases
  <2>2. QED
    BY <2>1 DEF Marks, Ended, Idle, At
<1>10. ASSUME NEW s \in Sessions, Release(s) PROVE (Waiting' \subseteq Waiting /\ NoNewCount)
  <2>1. ASSUME ReleaseFrees(s) PROVE (Waiting' \subseteq Waiting /\ NoNewCount)
    BY <2>1 DEF ReleaseFrees, Ended, Idle, At
  <2>2. ASSUME OnlyEnded(s) PROVE (Waiting' \subseteq Waiting /\ NoNewCount)
    BY <2>2 DEF OnlyEnded, Ended, Idle, At
  <2>3. QED
    BY <1>10, <2>1, <2>2, ReleaseCases
<1>11. ASSUME NEW s \in Sessions, Crash(s) PROVE (Waiting' \subseteq Waiting /\ NoNewCount)
  BY <1>11 DEF Crash, Ended, Idle, At
<1>12. ASSUME NEW m \in Messages, Lapse(m) PROVE (Waiting' \subseteq Waiting /\ NoNewCount)
  BY <1>12 DEF Lapse
<1>13. ASSUME NEW m \in Messages, NEW e \in Entries, Link(m, e) PROVE (Waiting' \subseteq Waiting /\ NoNewCount)
  BY <1>13 DEF Link, Confirmed
<1>14. ASSUME NEW m \in Messages, Reject(m) PROVE (Waiting' \subseteq Waiting /\ NoNewCount)
  BY <1>14 DEF Reject
<1>15. ASSUME NEW e \in Entries, RecordTransfer(e) PROVE (Waiting' \subseteq Waiting /\ NoNewCount)
  BY <1>15 DEF RecordTransfer
<1>16. ASSUME NEW d \in Devices, Revoke(d) PROVE (Waiting' \subseteq Waiting /\ NoNewCount)
  BY <1>16 DEF Revoke
<1>17. CASE UNCHANGED vars
  BY <1>17 DEF vars
<1>18. ASSUME NEW s \in Sessions, SettleFails(s) PROVE (Waiting' \subseteq Waiting /\ NoNewCount)
  BY <1>18 DEF SettleFails, Moved
<1>19. QED
  BY <1>1, <1>2, <1>3, <1>4, <1>5, <1>6, <1>7, <1>8, <1>9, <1>10, <1>11, <1>12, <1>13, <1>14, <1>15, <1>16, <1>17, <1>18 DEF Next, Begin, Continue, AtOnce

\* The session that inserts holds the user's row, so what it has counted is still so,
\* and no other session has counted anything.
LEMMA NextBounded == InboxInv /\ [Next]_vars => RoomSound' /\ InboxBounded'
<1> SUFFICES ASSUME InboxInv, [Next]_vars PROVE RoomSound' /\ InboxBounded'
  OBVIOUS
<1>1. MaxWaiting \in Nat /\ Cardinality(Waiting) \in Nat /\ Cardinality(Waiting) <= MaxWaiting /\ IsFiniteSet(Waiting)
  BY InboxAssumption, FS_Subset, FS_CardinalityType DEF Waiting, InboxInv, InboxBounded
<1>2. ASSUME NEW s \in Sessions, InsertMessage(s) PROVE RoomSound' /\ InboxBounded'
  <2>1. /\ session[s].pc = "counted" /\ userLock = s
        /\ session[s].message \in Messages
        /\ Cardinality(Waiting) < MaxWaiting
    BY <1>2 DEF InsertMessage, InboxInv, SessionsSound, RoomSound
  <2>2. Waiting' \subseteq Waiting \cup {session[s].message}
    BY <1>2, <2>1 DEF InsertMessage, Waiting, InboxInv, TypeOK
  <2>3. /\ IsFiniteSet(Waiting \cup {session[s].message})
        /\ Cardinality(Waiting \cup {session[s].message}) <= Cardinality(Waiting) + 1
        /\ Cardinality(Waiting \cup {session[s].message}) \in Nat
    <3> DEFINE more == Waiting \cup {session[s].message}
    <3>1. IsFiniteSet(more) /\ (Cardinality(more) = Cardinality(Waiting) \/ Cardinality(more) = Cardinality(Waiting) + 1)
      BY <1>1, FS_AddElement
    <3> HIDE DEF more
    <3>2. Cardinality(more) <= Cardinality(Waiting) + 1 /\ Cardinality(more) \in Nat
      BY <1>1, <3>1
    <3>3. QED
      BY <3>1, <3>2 DEF more
  <2>4. Cardinality(Waiting') <= Cardinality(Waiting \cup {session[s].message}) /\ Cardinality(Waiting') \in Nat
    BY <2>2, <2>3, FS_Subset, FS_CardinalityType
  <2>5. \A t \in Sessions : session'[t].pc # "counted"
    BY <1>2, <2>1, InboxAssumption DEF InsertMessage, Ended, Idle, At, InboxInv, TypeOK, SessionsSound
  <2>6. QED
    BY <1>1, <2>1, <2>3, <2>4, <2>5 DEF RoomSound, InboxBounded
<1>3. CASE ~\E s \in Sessions : InsertMessage(s)
  <2>1. Waiting' \subseteq Waiting /\ NoNewCount
    BY <1>3, NoneArrives
  <2>2. Cardinality(Waiting') <= Cardinality(Waiting) /\ Cardinality(Waiting') \in Nat
    BY <2>1, NoneMoreWaiting
  <2>3. InboxBounded'
    BY <1>1, <2>2 DEF InboxBounded
  <2>4. ASSUME NEW t \in Sessions, session'[t].pc = "counted" PROVE Cardinality(Waiting) < MaxWaiting
    BY <2>1, <2>4 DEF NoNewCount, InboxInv, RoomSound
  <2>5. RoomSound'
    BY <1>1, <2>2, <2>4 DEF RoomSound
  <2>6. QED
    BY <2>3, <2>5
<1>4. QED
  BY <1>2, <1>3

LEMMA NextInv == InboxInv /\ [Next]_vars => InboxInv'
  BY NextType, NextSessions, NextKeys, NextClaims, NextDecided, NextBounded DEF InboxInv

-----------------------------------------------------------------------------
LEMMA AlwaysInv == Spec => []InboxInv
  BY InitInv, NextInv, PTL DEF Spec

\* Every row and every session keeps its type, for any number of them.
THEOREM InboxTypeCorrect == Spec => []TypeOK
<1>1. InboxInv => TypeOK
  BY DEF InboxInv
<1>2. QED
  BY <1>1, AlwaysInv, PTL

\* A message comes to one entry, unless a confirmation of it outlived its five minutes.
THEOREM MessageOnce == Spec => []OneEntryPerMessage
<1>1. InboxInv => OneEntryPerMessage
  <2> SUFFICES ASSUME InboxInv, NEW m \in Messages \ disturbed
               PROVE  Cardinality(EntriesOf(m)) <= 1
    BY DEF OneEntryPerMessage
  <2>1. ASSUME NEW e \in EntriesOf(m), NEW f \in EntriesOf(m) PROVE e = f
    <3>1. \A g \in EntriesOf(m) : g \in KeyedEntries(m) \/ (g = inbox[m].entry /\ g # None)
      BY DEF EntriesOf
    <3>2. \A g, h \in KeyedEntries(m) : g = h
      BY InboxAssumption DEF KeyedEntries, InboxInv, KeysSound
    <3>3. inbox[m].entry # None => inbox[m].status = "confirmed"
      BY DEF InboxInv, DecidedWithItsText
    <3>4. \A g \in KeyedEntries(m) : inbox[m].status = "confirmed" => inbox[m].entry = g
      BY DEF KeyedEntries, InboxInv, ClaimsSound
    <3>5. QED
      BY <2>1, <3>1, <3>2, <3>3, <3>4
  <2>2. CASE EntriesOf(m) = {}
    BY <2>2, FS_EmptySet
  <2>3. ASSUME NEW e \in EntriesOf(m) PROVE Cardinality(EntriesOf(m)) <= 1
    <3>1. EntriesOf(m) = {e}
      BY <2>1, <2>3
    <3>2. QED
      BY <3>1, FS_Singleton
  <2>4. QED
    BY <2>2, <2>3
<1>2. QED
  BY <1>1, AlwaysInv, PTL

\* No message is lost undecided or decided without its entry.
THEOREM TextUntilDecided == Spec => []DecidedWithItsText
<1>1. InboxInv => DecidedWithItsText
  BY DEF InboxInv
<1>2. QED
  BY <1>1, AlwaysInv, PTL

\* The limit holds for every number of telephones sending at once.
THEOREM LimitHolds == Spec => []InboxBounded
<1>1. InboxInv => InboxBounded
  BY DEF InboxInv
<1>2. QED
  BY <1>1, AlwaysInv, PTL

\* A connection being received over is not revoked.
THEOREM Silent == Spec => []RevokedStaysSilent
<1>1. InboxInv => RevokedStaysSilent
  <2>1. SessionsSound => RevokedStaysSilent
    BY DEF SessionsSound, Receiving, RevokedStaysSilent
  <2> QED
    BY <2>1 DEF InboxInv
<1>2. QED
  BY <1>1, AlwaysInv, PTL

-----------------------------------------------------------------------------
Undone(m) ==
    inbox[m].status \in {"confirmed", "rejected"} =>
        inbox'[m].status = inbox[m].status /\ inbox'[m].entry = inbox[m].entry

LEMMA NextDecisions == InboxInv /\ [Next]_vars => \A m \in Messages \ disturbed' : Undone(m)
<1> SUFFICES ASSUME InboxInv, [Next]_vars, NEW n \in Messages, n \notin disturbed'
             PROVE  Undone(n)
  OBVIOUS
<1> USE InboxAssumption DEF InboxInv, TypeOK, InboxRows, SessionsSound, Undone
<1>1. ASSUME NEW s \in Sessions, InsertMessage(s) PROVE Undone(n)
  BY <1>1 DEF InsertMessage
<1>2. ASSUME NEW s \in Sessions, Replay(s) PROVE Undone(n)
  <2>1. ASSUME NEW e \in Entries, Marks(s, e) PROVE Undone(n)
    BY <2>1 DEF Marks, ClaimsSound
  <2>2. ASSUME ReplayGoesOn(s) PROVE Undone(n)
    BY <2>2 DEF ReplayGoesOn
  <2>3. QED
    BY <1>2, <2>1, <2>2, ReplayCases
<1>3. ASSUME NEW s \in Sessions, Claim(s) PROVE Undone(n)
  <2>1. ASSUME ClaimTakes(s) PROVE Undone(n)
    BY <2>1 DEF ClaimTakes
  <2>2. ASSUME OnlyEnded(s) PROVE Undone(n)
    BY <2>2 DEF OnlyEnded
  <2>3. QED
    BY <1>3, <2>1, <2>2, ClaimCases
<1>4. ASSUME NEW s \in Sessions, Settle(s) PROVE Undone(n)
  <2>1. PICK e \in Entries : Marks(s, e)
    BY <1>4, SettleCases
  <2>2. QED
    BY <2>1 DEF Marks, ClaimsSound
<1>5. ASSUME NEW s \in Sessions, Release(s) PROVE Undone(n)
  <2>1. ASSUME ReleaseFrees(s) PROVE Undone(n)
    BY <2>1 DEF ReleaseFrees
  <2>2. ASSUME OnlyEnded(s) PROVE Undone(n)
    BY <2>2 DEF OnlyEnded
  <2>3. QED
    BY <1>5, <2>1, <2>2, ReleaseCases
<1>6. ASSUME NEW m \in Messages, Lapse(m) PROVE Undone(n)
  BY <1>6 DEF Lapse
<1>7. ASSUME NEW m \in Messages, NEW e \in Entries, Link(m, e) PROVE Undone(n)
  BY <1>7 DEF Link, Confirmed
<1>8. ASSUME NEW m \in Messages, Reject(m) PROVE Undone(n)
  BY <1>8 DEF Reject
<1>9. CASE inbox' = inbox
  BY <1>9
<1> HIDE DEF InboxInv, TypeOK, InboxRows, SessionsSound, Undone
<1>10. QED
  BY <1>1, <1>2, <1>3, <1>4, <1>5, <1>6, <1>7, <1>8, <1>9
  DEF Next, Begin, Continue, AtOnce, vars, Connect, CountInbox, ReadMessage, RefuseSimilar, Post, PostFails,
      Crash, RecordTransfer, Revoke, SettleFails

\* What is decided stays decided, by the same entry, whatever comes late.
THEOREM DecisionsStay == Spec => DecisionsStand
<1>1. InboxInv /\ [Next]_vars =>
        [\A m \in Messages \ disturbed' :
            inbox[m].status \in {"confirmed", "rejected"} =>
                inbox'[m].status = inbox[m].status /\ inbox'[m].entry = inbox[m].entry]_vars
  BY NextDecisions DEF Undone
<1>2. QED
  BY <1>1, AlwaysInv, PTL DEF Spec, DecisionsStand

-----------------------------------------------------------------------------
\* The entry bearing a key is the one found by it.
LEMMA KeyedEntryIs ==
  ASSUME InboxInv, NEW m \in Messages
  PROVE  /\ \A e \in Entries : entry[e].key = m => KeyedEntry(m) = e
         /\ (\A e \in Entries : entry[e].key # m) => KeyedEntry(m) = None
         /\ KeyedEntry(m) \in Entries \cup {None}
<1>1. \A e, f \in Entries : entry[e].key = m /\ entry[f].key = m => e = f
  <2>1. KeysSound /\ m # None
    BY InboxAssumption DEF InboxInv
  <2> QED
    BY <2>1 DEF KeysSound
<1>2. QED
  BY <1>1 DEF KeyedEntry, KeyedEntries

LEMMA KeyedEntryIsNext ==
  ASSUME InboxInv', NEW m \in Messages
  PROVE  /\ \A e \in Entries : entry'[e].key = m => KeyedEntry(m)' = e
         /\ (\A e \in Entries : entry'[e].key # m) => KeyedEntry(m)' = None
<1>1. \A e, f \in Entries : entry'[e].key = m /\ entry'[f].key = m => e = f
  <2>1. KeysSound'
    BY DEF InboxInv
  <2>2. m # None
    BY InboxAssumption
  <2> QED
    BY <2>1, <2>2 DEF KeysSound
<1>2. QED
  BY <1>1 DEF KeyedEntry, KeyedEntries

\* Every step but the posting of a key leaves every entry its key.
KeysKept == \A e \in Entries : entry'[e].key = entry[e].key

LEMMA KeysKeptOrPosted ==
  ASSUME InboxInv, [Next]_vars
  PROVE  KeysKept \/ \E s \in Sessions, e \in Entries : PostWrites(s, e)
<1> USE DEF InboxInv, TypeOK, EntryRows, KeysKept
<1>1. ASSUME NEW s \in Sessions, Post(s)
      PROVE  KeysKept \/ \E e \in Entries : PostWrites(s, e)
  <2>1. CASE PostFinds(s)
    BY <2>1 DEF PostFinds
  <2>2. QED
    BY <1>1, <2>1, PostCases
<1>2. ASSUME NEW e \in Entries, RecordTransfer(e) PROVE KeysKept
  BY <1>2 DEF RecordTransfer
<1>3. CASE entry' = entry
  BY <1>3
<1>4. QED
  BY <1>1, <1>2, <1>3, Zenon
  DEF Next, Begin, Continue, AtOnce, vars, Connect, CountInbox, InsertMessage, ReadMessage, Replay, RefuseSimilar,
      Claim, PostFails, Settle, SettleFails, Release, Crash, Lapse, Link, Reject, Revoke

Record == [m \in Messages |-> KeyedEntry(m)]

LEMMA StepRecords == InboxInv /\ InboxInv' /\ [Next]_vars => [Books!Next]_Record
<1> SUFFICES ASSUME InboxInv, InboxInv', [Next]_vars
             PROVE  Books!Next \/ Record' = Record
  OBVIOUS
<1>1. CASE KeysKept
  <2>1. ASSUME NEW m \in Messages PROVE KeyedEntry(m)' = KeyedEntry(m)
    <3>1. CASE \E e \in Entries : entry[e].key = m
      <4>1. PICK e \in Entries : entry[e].key = m
        BY <3>1
      <4>2. QED
        BY <1>1, <4>1, KeyedEntryIs, KeyedEntryIsNext DEF KeysKept
    <3>2. CASE \A e \in Entries : entry[e].key # m
      BY <1>1, <3>2, KeyedEntryIs, KeyedEntryIsNext DEF KeysKept
    <3>3. QED
      BY <3>1, <3>2
  <2>2. QED
    BY <2>1 DEF Record
<1>2. ASSUME NEW s \in Sessions, NEW e \in Entries, PostWrites(s, e) PROVE Books!Next
  <2>1. PICK n \in Messages :
           /\ entry'[e].key = n
           /\ \A f \in Entries : f # e => entry'[f] = entry[f]
           /\ \A f \in Entries : entry[f].key # n
    BY <1>2 DEF PostWrites
  <2>2. entry[e].key = None
    BY <1>2 DEF PostWrites, InboxInv, KeysSound
  <2>3. KeyedEntry(n) = None /\ KeyedEntry(n)' = e
    BY <2>1, KeyedEntryIs, KeyedEntryIsNext
  <2>4. ASSUME NEW m \in Messages, m # n PROVE KeyedEntry(m)' = KeyedEntry(m)
    <3>1. \A f \in Entries : entry'[f].key = m <=> entry[f].key = m
      BY <2>1, <2>2, <2>4, InboxAssumption
    <3>2. CASE \E f \in Entries : entry[f].key = m
      <4>1. PICK f \in Entries : entry[f].key = m
        BY <3>2
      <4>2. QED
        BY <3>1, <4>1, KeyedEntryIs, KeyedEntryIsNext
    <3>3. CASE \A f \in Entries : entry[f].key # m
      BY <3>1, <3>3, KeyedEntryIs, KeyedEntryIsNext
    <3>4. QED
      BY <3>2, <3>3
  <2>5. Record[n] = None /\ Record' = [Record EXCEPT ![n] = e]
    BY <2>1, <2>3, <2>4 DEF Record
  <2>6. QED
    BY <2>1, <2>5 DEF Books!Next, Books!Record, Record
<1>3. QED
  BY <1>1, <1>2, KeysKeptOrPosted

\* The inbox implements the promise that each message is recorded in the books once.
THEOREM InboxRecordsOnce == Spec => RecordedOnce
<1>1. Init => Books!Init
  <2> SUFFICES ASSUME Init PROVE \A m \in Messages : KeyedEntry(m) = None
    BY DEF Books!Init
  <2>1. \A m \in Messages, e \in Entries : entry[e].key # m
    BY InboxAssumption DEF Init, NoEntry
  <2>2. QED
    BY <2>1, InitInv, KeyedEntryIs
<1>2. InboxInv /\ InboxInv' /\ [Next]_vars => [Books!Next]_Record
  BY StepRecords
<1>3. QED
  BY <1>1, <1>2, AlwaysInv, PTL DEF Spec, RecordedOnce, Books!Spec, Record

=============================================================================
