------------------------------ MODULE Accounts ------------------------------
(***************************************************************************)
(* The money accounts of one user: registering one at a place with an      *)
(* opening balance, deleting it (from the page, or through the API), and   *)
(* reconciling it with the balance the bank reports                        *)
(* (features/accounts/service.ts, app/api/accounts, features/reconcile).   *)
(*                                                                         *)
(* Registering and deleting take no lock before they judge, and are one    *)
(* step each here: what their races do is outside this module.  Adjusting  *)
(* an account to a reported balance locks the checkpoint, reads the        *)
(* ledger and posts the difference, while everything else goes on.         *)
(***************************************************************************)
EXTENDS Integers, FiniteSets, FiniteSetsExt, Functions

CONSTANTS
    Sessions,     \* requests that adjust an account
    Accounts,     \* ids of accounts, and of the wallets made for them
    Setup,        \* the accounts the set-up opened in Toman, by one opening entry
    SetupPlace,   \* where: None for a bank account or cash, which have no wallet
    Names,        \* names of wallets: of exchanges, brokers and other places, or of an account
    Currencies,
    Entries,      \* journal entry ids
    Checkpoints,  \* ids of reported balances, in the order they are observed
    Links,        \* bound: the accounts that plans and goals may name
    Moves,        \* bound: the pairs <<from, to>> between which money may move
    Amounts,      \* opening balances, other than zero, and amounts moved
    Days,
    Rates,        \* base value of a unit of money, when an entry is recorded
    Reports,      \* what banks may report: of an account, the balance at the end of a day
    None          \* SQL NULL

ASSUME AccountsAssumption ==
    /\ IsFiniteSet(Accounts) /\ IsFiniteSet(Entries) /\ Setup \subseteq Accounts
    /\ SetupPlace \in [Setup -> Names \cup {None}]
    /\ \A a, b \in Setup : SetupPlace[a] = SetupPlace[b] /\ SetupPlace[a] # None => a = b
    /\ Amounts \subseteq Nat \ {0}
    /\ Days \subseteq Nat /\ Days # {} /\ Checkpoints \subseteq Nat
    /\ Rates \subseteq Nat \ {0} /\ Rates # {}
    /\ Reports \subseteq [account : Accounts, day : Days, balance : Int] /\ Links \subseteq Accounts
    /\ None \notin Sessions \cup Accounts \cup Entries \cup Names \cup Currencies \cup Checkpoints

VARIABLES
    account,        \* committed rows of accounts
    wallet,         \* committed rows of wallets
    entry,          \* committed journal entries, with the postings on money accounts
    checkpoint,     \* committed rows of balance_checkpoints
    linked,         \* accounts that a pending plan, a goal or a fund names
    checkpointLock, \* session holding a checkpoint FOR UPDATE
    session         \* what each adjusting request is doing

vars == <<account, wallet, entry, checkpoint, linked, checkpointLock, session>>

-----------------------------------------------------------------------------
\* code: the number of the code in the series nextAssetCode hands out; the codes of the
\* set-up come before the series.  "gone": the row was removed.
AccountRows ==
    [status : {"none", "live", "hidden", "gone"}, code : Nat, currency : Currencies \cup {None},
     wallet : Accounts \cup {None}]

WalletRows == [status : {"none", "live", "hidden"}, name : Names \cup {None}]

\* legs: what the entry posts, in native quantity; rate: the base value of a unit it was
\* booked at.  key: the checkpoint whose idempotency key the entry bears.  What an entry
\* posts on other accounts (equity, income, expense) is what is missing to zero.
EntryRows ==
    [status : {"free", "posted", "void"}, type : {"opening", "transaction", "adjustment"},
     legs : [Accounts -> Int], rate : Rates, day : Days, key : Checkpoints \cup {None}]

CheckpointRows ==
    [account : Accounts \cup {None}, day : Days, balance : Int, resolution : Entries \cup {None}]

\* read: the ledger balance the difference was computed from.
SessionStates == [checkpoint : Checkpoints \cup {None}, read : Int]

Idle == [checkpoint |-> None, read |-> 0]

TypeOK ==
    /\ account \in [Accounts -> AccountRows]
    /\ wallet \in [Accounts -> WalletRows]
    /\ entry \in [Entries -> EntryRows]
    /\ checkpoint \in [Checkpoints -> CheckpointRows]
    /\ linked \subseteq Accounts
    /\ checkpointLock \in [Checkpoints -> Sessions \cup {None}]
    /\ session \in [Sessions -> SessionStates]

-----------------------------------------------------------------------------
NoLegs == [a \in Accounts |-> 0]

FirstDay == CHOOSE d \in Days : \A e \in Days : d <= e

SomeRate == CHOOSE r \in Rates : TRUE

FreeEntry ==
    [status |-> "free", type |-> "transaction", legs |-> NoLegs, rate |-> SomeRate, day |-> FirstDay,
     key |-> None]

Posted(type, legs, rate, day, key) ==
    [status |-> "posted", type |-> type, legs |-> legs, rate |-> rate, day |-> day, key |-> key]

Live(a) == account[a].status = "live"

\* Posted entries that touch the account.
History(a) == {e \in Entries : entry[e].status = "posted" /\ entry[e].legs[a] # 0}

BalanceAsOf(a, day) == SumFunction([e \in {x \in History(a) : entry[x].day <= day} |-> entry[e].legs[a]])

\* The native quantity of the account, and its base value (summarizeAccountHistory).
Balance(a) == SumFunction([e \in History(a) |-> entry[e].legs[a]])

BaseValue(a) == SumFunction([e \in History(a) |-> entry[e].legs[a] * entry[e].rate])

NoCheckpoint == [account |-> None, day |-> FirstDay, balance |-> 0, resolution |-> None]

Init ==
    /\ \E toman \in Currencies, opening \in [Setup -> Amounts], rate \in Rates, first \in Entries :
          /\ account = [a \in Accounts |->
                IF a \in Setup
                THEN [status |-> "live", code |-> 0, currency |-> toman,
                      wallet |-> IF SetupPlace[a] = None THEN None ELSE a]
                ELSE [status |-> "none", code |-> 0, currency |-> None, wallet |-> None]]
          /\ wallet = [a \in Accounts |->
                IF a \in Setup /\ SetupPlace[a] # None
                THEN [status |-> "live", name |-> SetupPlace[a]]
                ELSE [status |-> "none", name |-> None]]
          /\ entry = [e \in Entries |->
                IF e = first /\ Setup # {}
                THEN Posted("opening", [a \in Accounts |-> IF a \in Setup THEN opening[a] ELSE 0],
                            rate, FirstDay, None)
                ELSE FreeEntry]
    /\ checkpoint = [c \in Checkpoints |-> NoCheckpoint]
    /\ linked = {}
    /\ checkpointLock = [c \in Checkpoints |-> None]
    /\ session = [s \in Sessions |-> Idle]

adjusting == <<checkpoint, checkpointLock, session>>

-----------------------------------------------------------------------------
(* registerMoneyAccount *)

\* Mutant of LiveWallets: wallets that were deleted are found too.
LiveWalletsEver(place) == {w \in Accounts : wallet[w].status # "none" /\ wallet[w].name = place}

LiveWallets(place) == {w \in Accounts : wallet[w].status = "live" /\ wallet[w].name = place}

Taken(w, currency) == \E b \in Accounts : Live(b) /\ account[b].wallet = w /\ account[b].currency = currency

\* The code after the highest of the live accounts.
NextCode == 1 + Max({0} \cup {account[b].code : b \in {x \in Accounts : Live(x)}})

\* The unique index on (user_id, code) knows deleted accounts too.
CodeFree(code) ==
    \A b \in Accounts : account[b].status \in {"live", "hidden"} => account[b].code # code

Opened(a, currency, w) ==
    [account EXCEPT ![a] = [status |-> "live", code |-> NextCode, currency |-> currency, wallet |-> w]]

\* A new wallet bears the name of the place; where none is picked, that of the account.
InNewWallet(a, name, currency) ==
    /\ account' = Opened(a, currency, a)
    /\ wallet' = [wallet EXCEPT ![a] = [status |-> "live", name |-> name]]

\* The picked place has a wallet, with no account of that currency.
InKnownWallet(a, place, currency) ==
    \E w \in LiveWallets(place) :
        /\ ~Taken(w, currency)
        /\ account' = Opened(a, currency, w)
        /\ UNCHANGED wallet

\* With no opening balance there is no entry.
Register(a, name, currency, opening) ==
    /\ account[a].status = "none"
    /\ CodeFree(NextCode)
    /\ \/ InNewWallet(a, name, currency)
       \/ InKnownWallet(a, name, currency)
    /\ \/ opening = 0 /\ UNCHANGED entry
       \/ /\ opening # 0
          /\ \E e \in Entries, rate \in Rates, d \in Days :
                /\ entry[e].status = "free"
                /\ entry' = [entry EXCEPT ![e] =
                      Posted("opening", [NoLegs EXCEPT ![a] = opening], rate, d, None)]
    /\ UNCHANGED <<linked, adjusting>>

-----------------------------------------------------------------------------
(* deleteMoneyAccount *)

\* Mutant of OwnOpening: an opening entry shared with other accounts counts.
AnyOpening(a, e) == History(a) = {e} /\ entry[e].type = "opening"

\* The account's whole history is the opening entry that registering it wrote.
OwnOpening(a, e) ==
    /\ History(a) = {e}
    /\ entry[e].type = "opening"
    /\ \A b \in Accounts \ {a} : entry[e].legs[b] = 0

WalletEmptied(a) ==
    /\ account[a].wallet # None
    /\ \A b \in Accounts \ {a} : Live(b) => account[b].wallet # account[a].wallet

\* Its own opening entry is reversed; or else its native balance has to be zero, whatever
\* base value its entries leave.  Nothing goes on naming it, and the wallet goes with its
\* last account.
Delete(a) ==
    /\ Live(a)
    /\ \/ \E e \in Entries :
             OwnOpening(a, e) /\ entry' = [entry EXCEPT ![e].status = "void"]
       \/ /\ \A e \in Entries : ~OwnOpening(a, e)
          /\ Balance(a) = 0
          /\ UNCHANGED entry
    /\ linked' = linked \ {a}
    /\ account' = [account EXCEPT ![a].status = "hidden"]
    /\ wallet' = IF WalletEmptied(a) THEN [wallet EXCEPT ![account[a].wallet].status = "hidden"] ELSE wallet
    /\ UNCHANGED adjusting

Used(a) == \E e \in Entries : entry[e].legs[a] # 0

\* DELETE /api/accounts asks for no balance.  An account with postings, or one that another
\* row refers to (a cancelled plan too), is hidden; else its row is removed, with its
\* reports.  The wallet stays, and so do the links.
DeleteByApi(a) ==
    /\ account[a].status \in {"live", "hidden"}
    /\ \/ /\ account' = [account EXCEPT ![a].status = "hidden"]
          /\ UNCHANGED checkpoint
       \/ /\ ~Used(a)
          /\ a \notin linked
          /\ \A c \in Checkpoints : checkpoint[c].account = a => checkpointLock[c] = None
          /\ account' = [account EXCEPT ![a].status = "gone"]
          /\ checkpoint' = [c \in Checkpoints |->
                IF checkpoint[c].account = a THEN NoCheckpoint ELSE checkpoint[c]]
    /\ UNCHANGED <<wallet, entry, linked, checkpointLock, session>>

-----------------------------------------------------------------------------
(* recordBalanceCheckpoint and adjustToReported *)

Recorded == {c \in Checkpoints : checkpoint[c].account # None}

RecordCheckpoint(c, report) ==
    /\ c \notin Recorded
    /\ \A k \in Checkpoints : k < c => k \in Recorded
    /\ Live(report.account)
    /\ checkpoint' = [checkpoint EXCEPT ![c] =
          [account |-> report.account, day |-> report.day, balance |-> report.balance, resolution |-> None]]
    /\ UNCHANGED <<account, wallet, entry, linked, checkpointLock, session>>

\* The account's checkpoint of the latest day, of those the one observed last.
Latest(c) ==
    \A k \in Recorded :
        checkpoint[k].account = checkpoint[c].account =>
            \/ checkpoint[k].day < checkpoint[c].day
            \/ checkpoint[k].day = checkpoint[c].day /\ k <= c

\* Mutant of LedgerBalance: the balance of today.
LedgerBalanceNow(c) == Balance(checkpoint[c].account)

\* ledgerBalanceAsOf the checkpoint's day.
LedgerBalance(c) == BalanceAsOf(checkpoint[c].account, checkpoint[c].day)

\* The checkpoint is locked; it must be unresolved, the latest, of a live account, and
\* differ from the books.
BeginAdjust(s, c) ==
    /\ session[s] = Idle
    /\ c \in Recorded
    /\ checkpointLock[c] = None
    /\ checkpoint[c].resolution = None
    /\ Latest(c)
    /\ Live(checkpoint[c].account)
    /\ LedgerBalance(c) # checkpoint[c].balance
    /\ checkpointLock' = [checkpointLock EXCEPT ![c] = s]
    /\ session' = [session EXCEPT ![s] = [checkpoint |-> c, read |-> LedgerBalance(c)]]
    /\ UNCHANGED <<account, wallet, entry, checkpoint, linked>>

\* The difference is posted on the checkpoint's day, at the rate of now, under the
\* checkpoint's key, and the checkpoint names the entry.
CommitAdjust(s) ==
    LET c    == session[s].checkpoint
        cp   == checkpoint[c]
        legs == [NoLegs EXCEPT ![cp.account] = cp.balance - session[s].read]
    IN  /\ c # None
        /\ \E e \in Entries, rate \in Rates :
              /\ IF \E k \in Entries : entry[k].key = c
                 THEN entry[e].key = c /\ UNCHANGED entry
                 ELSE /\ entry[e].status = "free"
                      /\ entry' = [entry EXCEPT ![e] = Posted("adjustment", legs, rate, cp.day, c)]
              /\ checkpoint' = [checkpoint EXCEPT ![c].resolution = e]
        /\ checkpointLock' = [checkpointLock EXCEPT ![c] = None]
        /\ session' = [session EXCEPT ![s] = Idle]
        /\ UNCHANGED <<account, wallet, linked>>

\* The request fails, or the server dies.
Rollback(s) ==
    /\ session[s] # Idle
    /\ checkpointLock' = [checkpointLock EXCEPT ![session[s].checkpoint] = None]
    /\ session' = [session EXCEPT ![s] = Idle]
    /\ UNCHANGED <<account, wallet, entry, checkpoint, linked>>

-----------------------------------------------------------------------------
(* What the rest of the program does with the accounts *)

\* validateAccountOwnership finds deleted accounts too: a page opened before the deletion
\* may still name one.
Known(a) == account[a].status \in {"live", "hidden"}

\* Money is received (from None), paid (to None) or transferred, at the rate of now.
Transact(from, to, amount, day) ==
    /\ <<from, to>> \in Moves /\ from # to
    /\ \A a \in {from, to} \ {None} : Known(a)
    /\ \E e \in Entries, rate \in Rates :
          /\ entry[e].status = "free"
          /\ entry' = [entry EXCEPT ![e] =
                Posted("transaction",
                       [a \in Accounts |-> CASE a = from -> -amount [] a = to -> amount [] OTHER -> 0],
                       rate, day, None)]
    /\ UNCHANGED <<account, wallet, linked, adjusting>>

\* The entry and its mirror are void: no balance counts them.
Reverse(e) ==
    /\ entry[e].status = "posted"
    /\ entry' = [entry EXCEPT ![e].status = "void"]
    /\ UNCHANGED <<account, wallet, linked, adjusting>>

\* A payment is planned from the account, or a goal saved in it.
LinkTo(a) ==
    /\ a \in Links
    /\ Known(a)
    /\ linked' = linked \cup {a}
    /\ UNCHANGED <<account, wallet, entry, adjusting>>

Next ==
    \/ \E a \in Accounts :
          \/ \E name \in Names, currency \in Currencies, opening \in Amounts \cup {0} :
                Register(a, name, currency, opening)
          \/ Delete(a) \/ DeleteByApi(a)
          \/ LinkTo(a)
    \/ \E c \in Checkpoints, report \in Reports : RecordCheckpoint(c, report)
    \/ \E s \in Sessions :
          \/ \E c \in Checkpoints : BeginAdjust(s, c)
          \/ CommitAdjust(s) \/ Rollback(s)
    \/ \E from, to \in Accounts \cup {None}, amount \in Amounts, day \in Days : Transact(from, to, amount, day)
    \/ \E e \in Entries : Reverse(e)

Spec == Init /\ [][Next]_vars

-----------------------------------------------------------------------------
(* Properties *)

\* deleteMoneyAccount takes nothing out of the books but the account's own opening: the
\* deleted account holds a quantity of zero, of which the base value is what it was, or
\* zero; every other account keeps its quantity and its base value.
DeletionKeepsBooks ==
    [][\A a \in Accounts :
          Delete(a) =>
              /\ Balance(a)' = 0
              /\ BaseValue(a)' \in {BaseValue(a), 0}
              /\ \A b \in Accounts \ {a} :
                    Balance(b)' = Balance(b) /\ BaseValue(b)' = BaseValue(b)]_vars

\* The control sum of deleteMoneyAccount over base values ("either the opening entry is
\* reversed (both legs return to zero) or the account's balance is already zero before it
\* is hidden"), at the deletion: not so, see the README.
DeletedWorthNothing == [][\A a \in Accounts : Delete(a) => BaseValue(a)' = 0]_vars

\* No live account is in a wallet that was deleted, and a wallet has one account of a
\* currency, whatever is registered and deleted, by which door, in what order.
WalletsMatch ==
    /\ \A a \in Accounts :
          Live(a) /\ account[a].wallet # None => wallet[account[a].wallet].status = "live"
    /\ \A a, b \in Accounts :
          /\ Live(a) /\ Live(b)
          /\ account[a].wallet # None
          /\ account[a].wallet = account[b].wallet
          /\ account[a].currency = account[b].currency
          => a = b

\* "the same place is one wallet holding several currencies" (registerMoneyAccount): not so,
\* see the README.
OneWalletOfPlace == \A place \in Names : Cardinality(LiveWallets(place)) <= 1

\* "It only goes when this was its last live account", and so goes: not by the other door,
\* see the README.
NoEmptyWallet ==
    \A w \in Accounts :
        wallet[w].status = "live" => \E a \in Accounts : Live(a) /\ account[a].wallet = w

\* The native quantity of zero that a deletion leaves, for good: not so, see the README.
HiddenHoldsNothing == \A a \in Accounts : account[a].status = "hidden" => Balance(a) = 0

\* nextAssetCode generates a "tenant-unique asset account code": not so, see the README.
NextCodeIsFree == CodeFree(NextCode)

\* After an adjustment the books agree with what the bank reported for the end of that day,
\* unless the balance it read is no longer that of the ledger when it posts.
ReportedReached ==
    [][\A s \in Sessions, c \in Checkpoints :
          /\ checkpoint[c].resolution = None /\ checkpoint'[c].resolution # None
          /\ session[s].checkpoint = c
          /\ session[s].read = LedgerBalance(c)
          => BalanceAsOf(checkpoint[c].account, checkpoint[c].day)' = checkpoint[c].balance]_vars
=============================================================================
