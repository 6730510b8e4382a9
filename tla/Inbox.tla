-------------------------------- MODULE Inbox --------------------------------
(***************************************************************************)
(* Bank messages: a telephone sends them over a connection that can be     *)
(* revoked, they wait in bank_sms_inbox, and the user turns each into an   *)
(* entry (confirmBankImportAction), links it to a transfer already in the  *)
(* ledger, or rejects it.                                                  *)
(*                                                                         *)
(* A confirmation claims the message for five minutes, posts the entry     *)
(* under the message's key in a transaction of its own, and then marks the *)
(* message; the server may die between any two of these statements.        *)
(***************************************************************************)
EXTENDS Naturals, FiniteSets

CONSTANTS
    Sessions,     \* concurrent requests' database sessions
    Devices,      \* ids of connections
    Messages,     \* fingerprints of messages, and the ids of their inbox rows
    Entries,      \* journal entry ids
    MaxWaiting,   \* messages that may wait in the inbox: 100
    None          \* SQL NULL

ASSUME InboxAssumption ==
    /\ MaxWaiting \in Nat
    /\ IsFiniteSet(Messages)
    /\ None \notin Sessions \cup Devices \cup Messages \cup Entries

VARIABLES
    inbox,           \* committed rows of bank_sms_inbox
    entry,           \* committed journal entries
    connection,      \* committed rows of bank_sms_connections
    connectionLock,  \* session holding a connection FOR UPDATE
    userLock,        \* session holding the user's row FOR UPDATE
    session,         \* what each session is doing
    disturbed        \* history: messages a confirmation of which took more than five minutes, or
                     \* posted its entry and then could not reach the database

vars == <<inbox, entry, connection, connectionLock, userLock, session, disturbed>>

-----------------------------------------------------------------------------
\* text: the encrypted message is still stored.  claim: whose processing_at the row
\* bears.  lapsed: that is more than five minutes ago.
InboxRows ==
    [status : {"absent", "pending", "processing", "confirmed", "rejected"}, text : BOOLEAN,
     entry : Entries \cup {None}, claim : Sessions \cup {None}, lapsed : BOOLEAN]

\* key: the message whose idempotency key the entry bears.  An entry without a key
\* is a transfer the user has recorded by hand.  Voiding an entry takes it neither its
\* key nor its message, and is left out.
EntryRows == [status : {"free", "posted"}, key : Messages \cup {None}]

NoMessage == [status |-> "absent", text |-> FALSE, entry |-> None, claim |-> None, lapsed |-> FALSE]
Received  == [status |-> "pending", text |-> TRUE, entry |-> None, claim |-> None, lapsed |-> FALSE]
NoEntry   == [status |-> "free", key |-> None]

At(pc, m, d) == [pc |-> pc, message |-> m, device |-> d]

Idle == At("idle", None, None)

SessionStates ==
    [pc : {"idle", "connected", "counted", "read", "unposted", "claimed", "posted", "failed"},
     message : Messages \cup {None}, device : Devices \cup {None}]

TypeOK ==
    /\ inbox \in [Messages -> InboxRows]
    /\ entry \in [Entries -> EntryRows]
    /\ connection \in [Devices -> {"active", "revoked"}]
    /\ connectionLock \in [Devices -> Sessions \cup {None}]
    /\ userLock \in Sessions \cup {None}
    /\ session \in [Sessions -> SessionStates]
    /\ disturbed \subseteq Messages

\* The telephones have been given their tokens.
Init ==
    /\ inbox = [m \in Messages |-> NoMessage]
    /\ entry = [e \in Entries |-> NoEntry]
    /\ connection = [d \in Devices |-> "active"]
    /\ connectionLock = [d \in Devices |-> None]
    /\ userLock = None
    /\ session = [s \in Sessions |-> Idle]
    /\ disturbed = {}

-----------------------------------------------------------------------------
Waiting       == {m \in Messages : inbox[m].status \in {"pending", "processing"}}
KeyedEntries(m) == {e \in Entries : entry[e].key = m}

\* The session's transaction ends: its locks are released.
Ended(s) ==
    /\ connectionLock' = [d \in Devices |-> IF connectionLock[d] = s THEN None ELSE connectionLock[d]]
    /\ userLock' = IF userLock = s THEN None ELSE userLock
    /\ session' = [session EXCEPT ![s] = Idle]

Moved(s, pc) ==
    /\ session' = [session EXCEPT ![s].pc = pc]
    /\ UNCHANGED <<connectionLock, userLock>>

-----------------------------------------------------------------------------
(* revokeIphoneConnectionAction *)

\* The UPDATE waits for a message being received over the connection.
Revoke(d) ==
    /\ connection[d] = "active"
    /\ connectionLock[d] = None
    /\ connection' = [connection EXCEPT ![d] = "revoked"]
    /\ UNCHANGED <<inbox, entry, connectionLock, userLock, session, disturbed>>

-----------------------------------------------------------------------------
(* receiveSms *)

\* Mutant of Connect: the connection is read without FOR UPDATE.
ConnectUnlocked(s, d, m) ==
    /\ session[s] = Idle
    /\ connection[d] = "active"
    /\ session' = [session EXCEPT ![s] = At("connected", m, d)]
    /\ UNCHANGED <<inbox, entry, connection, connectionLock, userLock, disturbed>>

\* The telephone's token finds its connection, not revoked, FOR UPDATE.
Connect(s, d, m) ==
    /\ session[s] = Idle
    /\ connection[d] = "active"
    /\ connectionLock[d] = None
    /\ connectionLock' = [connectionLock EXCEPT ![d] = s]
    /\ session' = [session EXCEPT ![s] = At("connected", m, d)]
    /\ UNCHANGED <<inbox, entry, connection, userLock, disturbed>>

\* Mutant of CountInbox: the user's row is not locked.
CountInboxUnlocked(s) ==
    /\ session[s].pc = "connected"
    /\ IF inbox[session[s].message].status = "absent" /\ Cardinality(Waiting) < MaxWaiting
       THEN /\ session' = [session EXCEPT ![s].pc = "counted"]
            /\ UNCHANGED <<connectionLock, userLock>>
       ELSE Ended(s)
    /\ UNCHANGED <<inbox, entry, connection, disturbed>>

\* The user's row is locked; a message sent again, or one too many, is refused.
CountInbox(s) ==
    /\ session[s].pc = "connected"
    /\ userLock = None
    /\ IF inbox[session[s].message].status = "absent" /\ Cardinality(Waiting) < MaxWaiting
       THEN /\ userLock' = s
            /\ session' = [session EXCEPT ![s].pc = "counted"]
            /\ UNCHANGED connectionLock
       ELSE Ended(s)
    /\ UNCHANGED <<inbox, entry, connection, disturbed>>

InsertMessage(s) ==
    /\ session[s].pc = "counted"
    /\ inbox' = [inbox EXCEPT ![session[s].message] = Received]
    /\ Ended(s)
    /\ UNCHANGED <<entry, connection, disturbed>>

-----------------------------------------------------------------------------
(* confirmBankImportAction *)

\* Mutant of ReadMessage: a message that is being recorded is refused too.
ReadMessageUnclaimed(s, m) ==
    /\ session[s] = Idle
    /\ inbox[m].status \in {"pending", "confirmed"}
    /\ session' = [session EXCEPT ![s] = At("read", m, None)]
    /\ UNCHANGED <<inbox, entry, connection, connectionLock, userLock, disturbed>>

\* The row is read, unlocked.  Only a rejected one is refused here.
ReadMessage(s, m) ==
    /\ session[s] = Idle
    /\ inbox[m].status \notin {"absent", "rejected"}
    /\ session' = [session EXCEPT ![s] = At("read", m, None)]
    /\ UNCHANGED <<inbox, entry, connection, connectionLock, userLock, disturbed>>

\* Mutant of Confirmed: the text is kept.
ConfirmedKeepingText(m, e) ==
    [inbox EXCEPT ![m] = [status |-> "confirmed", text |-> inbox[m].text, entry |-> e,
                          claim |-> None, lapsed |-> FALSE]]

Confirmed(m, e) ==
    [inbox EXCEPT ![m] = [status |-> "confirmed", text |-> FALSE, entry |-> e, claim |-> None,
                          lapsed |-> FALSE]]

\* The message's key is looked up; the message whose entry exists already is marked, by
\* its id alone.
Replay(s) ==
    LET m == session[s].message
    IN  /\ session[s].pc = "read"
        /\ \/ \E e \in KeyedEntries(m) : inbox' = Confirmed(m, e) /\ Ended(s)
           \/ /\ KeyedEntries(m) = {}
              /\ Moved(s, "unposted")
              /\ UNCHANGED inbox
        /\ UNCHANGED <<entry, connection, disturbed>>

\* A movement of the same amount is already in the ledger, and the user has not allowed it.
RefuseSimilar(s) ==
    /\ session[s].pc = "unposted"
    /\ \E e \in Entries : entry[e].status = "posted"
    /\ Ended(s)
    /\ UNCHANGED <<inbox, entry, connection, disturbed>>

\* Mutant of Claimable: a message being recorded can be claimed at once.
ClaimableAtOnce(m) == inbox[m].status \in {"pending", "processing"}

Claimable(m) ==
    \/ inbox[m].status = "pending"
    \/ inbox[m].status = "processing" /\ inbox[m].lapsed

\* Confirmations of the message that have claimed it and are still under way.
Confirming(m) == {t \in Sessions : session[t].message = m /\ session[t].pc \in {"claimed", "posted", "failed"}}

\* One conditional UPDATE claims the message for five minutes.  Taking it over from a
\* confirmation that still runs, or after it was posted since this session looked, shows
\* that one of the two has taken longer than that.
Claim(s) ==
    LET m == session[s].message
    IN  /\ session[s].pc = "unposted"
        /\ IF Claimable(m)
           THEN /\ inbox' = [inbox EXCEPT ![m] =
                                 [@ EXCEPT !.status = "processing", !.claim = s, !.lapsed = FALSE]]
                /\ disturbed' = IF inbox[m].lapsed /\ (Confirming(m) # {} \/ KeyedEntries(m) # {})
                              THEN disturbed \cup {m} ELSE disturbed
                /\ Moved(s, "claimed")
           ELSE /\ Ended(s)
                /\ UNCHANGED <<inbox, disturbed>>
        /\ UNCHANGED <<entry, connection>>

\* Mutant of Post: the entry is posted without looking for the key.
PostAgain(s) ==
    /\ session[s].pc = "claimed"
    /\ \E e \in Entries :
          /\ entry[e].status = "free"
          /\ entry' = [entry EXCEPT ![e] = [status |-> "posted", key |-> session[s].message]]
    /\ Moved(s, "posted")
    /\ UNCHANGED <<inbox, connection, disturbed>>

\* createTransactionAction under the message's key: a new entry, or the one that has it.
Post(s) ==
    LET m == session[s].message
    IN  /\ session[s].pc = "claimed"
        /\ IF KeyedEntries(m) # {}
           THEN UNCHANGED entry
           ELSE \E e \in Entries :
                   /\ entry[e].status = "free"
                   /\ entry' = [entry EXCEPT ![e] = [status |-> "posted", key |-> m]]
        /\ Moved(s, "posted")
        /\ UNCHANGED <<inbox, connection, disturbed>>

\* createTransactionAction refuses, what it had begun is rolled back, and no entry has
\* the key.
PostFails(s) ==
    /\ session[s].pc = "claimed"
    /\ KeyedEntries(session[s].message) = {}
    /\ Moved(s, "failed")
    /\ UNCHANGED <<inbox, entry, connection, disturbed>>

\* The message is marked by its id alone, whoever holds the claim by now; the claim of
\* a confirmed message has nothing left to release.
Settle(s) ==
    LET m == session[s].message
    IN  /\ session[s].pc = "posted"
        /\ \E e \in KeyedEntries(m) : inbox' = Confirmed(m, e)
        /\ Ended(s)
        /\ UNCHANGED <<entry, connection, disturbed>>

\* The entry cannot be read back, or the message not marked: the statement throws.
SettleFails(s) ==
    /\ session[s].pc = "posted"
    /\ disturbed' = disturbed \cup {session[s].message}
    /\ Moved(s, "failed")
    /\ UNCHANGED <<inbox, entry, connection>>

\* The row bears this session's own processing_at.
ClaimedBy(m, s) == inbox[m].status = "processing" /\ inbox[m].claim = s

\* The finally block: back to pending, if the claim is still this session's.
Release(s) ==
    LET m == session[s].message
    IN  /\ session[s].pc = "failed"
        /\ inbox' = IF ClaimedBy(m, s)
                    THEN [inbox EXCEPT ![m] =
                             [@ EXCEPT !.status = "pending", !.claim = None, !.lapsed = FALSE]]
                    ELSE inbox
        /\ Ended(s)
        /\ UNCHANGED <<entry, connection, disturbed>>

\* Five minutes pass, whether or not the request that claimed the message still runs.
Lapse(m) ==
    /\ inbox[m].status = "processing"
    /\ ~inbox[m].lapsed
    /\ inbox' = [inbox EXCEPT ![m].lapsed = TRUE]
    /\ UNCHANGED <<entry, connection, connectionLock, userLock, session, disturbed>>

-----------------------------------------------------------------------------
\* The message is linked to a posted transfer: one transaction, its row and the
\* transfer's locked.
Link(m, e) ==
    /\ inbox[m].status = "pending"
    /\ entry[e].status = "posted"
    /\ inbox' = Confirmed(m, e)
    /\ UNCHANGED <<entry, connection, connectionLock, userLock, session, disturbed>>

\* Mutant of Reject: a message being recorded is rejected too.
RejectClaimed(m) ==
    /\ inbox[m].status \in {"pending", "processing"}
    /\ inbox' = [inbox EXCEPT ![m] =
                    [@ EXCEPT !.status = "rejected", !.text = FALSE, !.claim = None, !.lapsed = FALSE]]
    /\ UNCHANGED <<entry, connection, connectionLock, userLock, session, disturbed>>

Reject(m) ==
    /\ inbox[m].status = "pending"
    /\ inbox' = [inbox EXCEPT ![m] = [@ EXCEPT !.status = "rejected", !.text = FALSE]]
    /\ UNCHANGED <<entry, connection, connectionLock, userLock, session, disturbed>>

\* The transfer is recorded by hand, without a message.
RecordTransfer(e) ==
    /\ entry[e].status = "free"
    /\ entry' = [entry EXCEPT ![e].status = "posted"]
    /\ UNCHANGED <<inbox, connection, connectionLock, userLock, session, disturbed>>

-----------------------------------------------------------------------------
\* The server dies: the transaction is rolled back, what was committed stays, a claim too.
Crash(s) ==
    /\ session[s] # Idle
    /\ Ended(s)
    /\ UNCHANGED <<inbox, entry, connection, disturbed>>

Begin(s) ==
    \/ \E d \in Devices, m \in Messages : Connect(s, d, m)
    \/ \E m \in Messages : ReadMessage(s, m)

Continue(s) ==
    \/ CountInbox(s) \/ InsertMessage(s)
    \/ Replay(s) \/ Claim(s) \/ Post(s) \/ PostFails(s) \/ Settle(s) \/ Release(s)

AtOnce ==
    \/ \E d \in Devices : Revoke(d)
    \/ \E m \in Messages : Reject(m) \/ \E e \in Entries : Link(m, e)
    \/ \E e \in Entries : RecordTransfer(e)

Next ==
    \/ \E s \in Sessions : Begin(s) \/ Continue(s) \/ RefuseSimilar(s) \/ SettleFails(s) \/ Crash(s)
    \/ AtOnce
    \/ \E m \in Messages : Lapse(m)

\* A request that has begun is carried on.  The user comes back to a message that still
\* waits in the inbox, and not every attempt dies before it has looked up the message's key.
Fairness ==
    /\ \A s \in Sessions : WF_vars(Continue(s))
    /\ \A m \in Messages :
          /\ SF_vars(\E s \in Sessions : ReadMessage(s, m))
          /\ SF_vars(\E s \in Sessions : session[s].message = m /\ Replay(s))

Spec == Init /\ [][Next]_vars /\ Fairness

-----------------------------------------------------------------------------
(* Properties *)

\* The entries a message has come to: those bearing its key, and the one it is marked with.
EntriesOf(m) == KeyedEntries(m) \cup ({inbox[m].entry} \ {None})

\* "The committed entry wins" (bankImport.ts:184): however often a message is
\* confirmed, claimed anew after a crash or linked, it comes to one entry at most,
\* unless a confirmation outlived its five minutes or lost the database in between.
OneEntryPerMessage == \A m \in Messages \ disturbed : Cardinality(EntriesOf(m)) <= 1

\* A message is confirmed exactly when it is marked with an entry, and its text is kept
\* exactly as long as it has not been decided: no crash loses a message nobody recorded.
DecidedWithItsText ==
    \A m \in Messages :
        /\ inbox[m].status = "confirmed" <=> inbox[m].entry # None
        /\ inbox[m].text <=> m \in Waiting
        /\ inbox[m].entry # None => entry[inbox[m].entry].status # "free"

\* What is decided stays decided, by the same entry: a late confirmation, a replay or a
\* released claim brings no confirmed or rejected message back.
DecisionsStand ==
    [][\A m \in Messages \ disturbed' :
          inbox[m].status \in {"confirmed", "rejected"} =>
              inbox'[m].status = inbox[m].status /\ inbox'[m].entry = inbox[m].entry]_vars

\* However many telephones send at once, no more messages wait than receiveSms admits.
InboxBounded == Cardinality(Waiting) <= MaxWaiting

\* No message arrives over a connection that has been revoked: only one over which
\* nothing is being received can be revoked.
RevokedStaysSilent ==
    \A s \in Sessions :
        session[s].pc \in {"connected", "counted"} => connection[session[s].device] = "active"

\* A message whose entry is in the books does not wait in the inbox for ever, whoever died
\* between the entry and the mark, and whatever claim is left: confirmed again it finds its
\* entry and is marked, unless it has been rejected.
RecordedIsMarked ==
    \A m \in Messages : KeyedEntries(m) # {} ~> inbox[m].status \in {"confirmed", "rejected"}

\* The books record each message once: what bears its key is posted in one step and
\* never replaced, disturbed or not.
KeyedEntry(m) == IF KeyedEntries(m) = {} THEN None ELSE CHOOSE e \in Entries : entry[e].key = m

Books == INSTANCE Once WITH
    Jobs <- Messages, Records <- Entries, recorded <- [m \in Messages |-> KeyedEntry(m)]

RecordedOnce == Books!Spec
=============================================================================
