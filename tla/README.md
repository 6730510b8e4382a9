# Verification of the personal wealth operating system

TLA+ models of the write paths of the application, checked with TLC, and
proofs about all of them, checked with TLAPS. Paths below are relative to
`src/src/` unless they begin with `src/`. The sources of each definition, to the
line, are in `PROJECT.json` under "map".

## 1. The system

One Next.js server, any number of concurrent requests, one PostgreSQL database.
A request is a server action, an API route or a page load; it keeps no state of
its own between requests, so the state of the system is the rows of the
database. The order in which statements of different requests reach the database
is what makes the system hard. The tests run on PGlite, which executes one
transaction at a time, so no test reaches an interleaving.

| Component | State | Operations | What makes it correct |
|---|---|---|---|
| Ledger write path (`features/ledger/service.ts`, `domain/accounting.ts`) | `journal_entries`, `postings` | `postEntry`, `reverseEntry`; `recordIncome/Expense/Transfer/Fx` build legs for `postEntry` | entries balance; a guarded entry never overdraws; a key records one entry; an entry is voided once, by a mirror that cancels it; requests are answered |
| FIFO lots (`features/ledger/service.ts`, `domain/fifo.ts`) | `lots`, `lot_consumptions` | `recordBuy`, `recordSell`, the lot half of `postEntry` and `reverseEntry` | no unit is lost or sold twice; the oldest lot goes first; the asset's accounts together hold what the open lots cost |
| Cheque book (`features/cheques/service.ts`) | `cheques` | create, mark (bounced, cancelled, pending), delete, clear with an entry, revert with its reversal | a cheque is cleared exactly when a live entry cleared it |
| Debts and installments (`features/planning/service.ts`, `repairPayments.ts`, `planItems.ts`) | `debts`, `installments` | quick payment, payment by the form, repair, cancel, delete | `paid_toman` is what the ledger says; the debt is settled exactly when nothing is outstanding; nothing is posted twice; a payment is one step |
| Planned transactions (`features/planning`, `income`, `insurance`, `deposits`) | `planned_transactions`, the deposit or policy they belong to | record by the form, skip, stop, close, `executePlanned` | an occurrence is paid once; exactly one reminder is pending until the payment ends, and none after it |
| Transaction form (`app/actions.ts`) | none of its own | `createTransactionAction`, `reverseEntryAction` | the entry and what it pays change together or not at all |
| Money accounts (`features/accounts/service.ts`, `app/api/accounts`) | `accounts`, `wallets`, opening entries | register, rename, delete from the page or through the API | no live account is in a deleted wallet; a wallet has one account of a currency; a deletion takes only the account's own opening out of the books, in quantity and in base value |
| Reconciliation (`features/reconcile`) | `balance_checkpoints`, adjustment entries | record a reported balance, adjust the account to it | the books agree with the bank at the end of the reported day; a report is adjusted once |
| Registries (`features/rwa/realEstate`, `vehicle`) | `real_estate_properties`, `vehicle_assets`, `prices`, the entries of purchases and sales | register (bought or held before), value, sell from the form or the page, delete | registry and ledger agree on what was sold, and for how much; a sale takes out what the account holds; a property that is gone has no price |
| Bank import (`features/bankImport`, `app/actions/bankImport.ts`, `bankSms.ts`) | `bank_sms_inbox`, `bank_sms_connections` | receive, confirm (claim, post, mark), link to a transfer, reject, revoke a connection | a message becomes at most one entry; decisions stand; what is in the books is marked in the end; the inbox has a limit; a revoked telephone is silent |
| Backup and restore (`app/api/backup`, `restore`) | all rows of a user | dump, replace | a restore is all or nothing |
| Setup (`features/setup`, `app/actions/setupDraft.ts`) | `setup_sessions` (lease, receipts, draft), `user_setup_state` | `finishSetup`, save the draft, confirm existing accounts | everything is recorded once, however often it is retried; a completed set-up is whole; nothing follows it |
| Schedules and amounts (`features/planning/obligations.ts`, `domain/decimal.ts`) | none | split of a principal, due dates, decimals | parts add up to the whole |
| Integrity checks, forecast, reports | none | read-only queries | |
| Pricing and FX, authentication, user interface | caches, sessions | | |

Interactions: the form, `payInstallment`, `repostInstallmentPayment`,
`executePlanned` and the registries all call `postEntry`, most of them inside
their own transaction, and then write their own rows. `reverseEntry` is reached
through three doors: `reverseEntryAction`, `DELETE /api/transactions` and the
repair of a payment. Components share no memory: what couples them is the
journal entry's id and the row locks of its accounts.

Hard behaviours, at their lines, are the "hazards" of `PROJECT.json`: checks
made on rows read before a lock is held; locks taken in two different orders; a
unique index hit in the middle of a transaction; an operation made of several
transactions that dies between two of them, or outlives the lease it took; an
UPDATE whose only condition is the id.

## 2. How the database is modelled

* A **session** is one request's connection. Its record holds the program
  counter and what the request has read and will write. A request begins, its
  statements run one at a time, interleaved with other sessions', and it commits
  or is rolled back.
* **READ COMMITTED** (the pool sets no other level): a variable such as `entry`
  or `cheque` holds committed rows, a read sees them as they are at that moment,
  and uncommitted writes live in the session until its commit.
* **Row locks** are variables (`updateLock`, `chequeLock`, ...). `SELECT ... FOR
  UPDATE`, an UPDATE, and the `FOR KEY SHARE` a foreign key takes all wait for a
  conflicting holder, and locks are released when the transaction ends.
* `Rollback` may strike at any point after a request has begun: a statement
  throws, the connection drops, the process dies. `BreakDeadlock` is PostgreSQL
  aborting a member of a circle.
* **Leases** (a message's claim, the wizard's lease) last five minutes and outlive
  the request that took them. The clock is an action of its own, `Lapse`, which
  may come at any time: a request may be slow enough to lose its lease while it
  runs, and wake up afterwards. `Crash` ends a request and leaves what it has
  committed, its lease included.
* Statements are merged into one action only when nothing they read is written
  by others in between (a lock is held) or when nobody sees the difference.
* **Ids are never reused**: a request takes a fresh entry or occurrence id when
  it begins, so the number of ids bounds the number of operations. When they run
  out the system may stop, which is why the configurations say `CHECK_DEADLOCK
  FALSE`. Deadlock between requests is what `RequestsEnd` and
  `PostsNeverDeadlock` are about.

In the modules, an operator whose comment begins with "Mutant of" is a plausible
mistake in the definition that follows it (a dropped guard, a swapped order).
Nothing in the specifications uses it. Substituted for that definition, it must
make TLC report the property it is paired with in `PROJECT.json`: this shows
that the property depends on the code.

## 3. Modules

`Ledger` - one action for each wait of `postEntry`: `BeginPost` (validation and
the key's first look-up), `LockAccount` (one account, ascending),
`CheckOverdraft`, `InsertEntry` (the unique index on the key), `CommitPost`;
`AnswerKnownKey` is the early return. `reverseEntry` is `BeginReverse`,
`ShareAccount` (one mirror posting) and `CommitReverse`. Balances are never
stored: `Balance` sums the posted legs, as the probe's query does. Abstracted: one signed
amount per account stands for base value and native quantity; the tolerance of
the probe (1e-6) is zero; the payload comparison by hash is equality of legs;
fees, FX freezing and audit events write rows nothing here reads.
`LedgerBook` is the abstract ledger: `Post` and `Reverse`, one step each. `Ledger` implements it with `entry` mapped to
itself.

`Lots` - one asset; `Trades` are the journal entries that trade it, `journal` their
rows. The asset has an account at each of `Places`, as `placedHoldingAccount`
makes them, but its lots belong to no place: a sale takes the oldest of the asset,
wherever they were bought. `Buy` is one step (nothing it writes depends on what it reads), which
waits for the account of its place. A sale is `PreviewSell` (what the account of
its place holds, and the FIFO cost, unlocked), `LockAccount` (of its place),
`FindLots` and `LockLots` (the open lots FOR UPDATE), `Allocate` (a second SELECT, which may find lots
that are not locked), `CommitSell`; a reversal is
`BeginReverse`, `ReadLot`/`WriteLot` per lot, `CommitReverse`. `Allocation` is
`consumeFifo`'s loop in closed form: a lot gives what is left of the quantity
after all older lots have given theirs. The entry's id is its place in the
consumption order, so a backdated buy takes a small id late. The history variable
`raced` names the lots that two sessions had to write at once when one of them had read
the lot without a lock; the promises except those. Abstracted: the other accounts of a
posting (cash, fee, 4100) are locked by the code too, so that the model has
interleavings that a common cash account prevents; the rows of a FOR UPDATE are
granted in one step, and the writes of a sale wait for all its lots at once;
a place's account exists from the start.

`Cheques` - `ReadStatus`/`WriteStatus` are `setChequeStatus` (read and judge,
then a conditional UPDATE), `FormPost`/`ClearCheque`/`FormCommit` the form with
`clearChequeInTx`, `ReverseLock`/`ReverseCommit` a reversal through a given door;
`RevertingDoors` are the doors that call `revertClearedChequeInTx`. `ChequeBook`
is the abstract book, where paying and un-paying a cheque is one step.

`Installments` - one debt. `BeginQuickPay` (row locked, then read), `BeginForm` (row read
before the transaction), `BeginRepair`; then `LockContra` (the counter account
in `postEntry`), `UpdateInstallment` (write the row, count the outstanding
ones), `CommitPayment` or `CommitRepair`. `JudgeDebt`/`WriteDebt` are
`cancelDebt` and `deleteDebt`. `Reverse` is `reverseEntry`, which does not know
of installments. The two accounts of a payment are represented by the one that
serialises payments of a debt, its counter account. `DebtBook` is the abstract
book of a debt: `Pay` adds to the running total what it posts, and settles the debt
if nothing is left; `Repair` posts the last payment again; `Void` is a reversal;
`Close` the owner's decision. `Installments` implements it with the rows mapped to
themselves.

`Plans` - the occurrences of one recurring payment. `FormPost`, `FormFind`,
`FormClose`, `FormCommit` are the form's transaction; `SkipFind`, `SkipClose`,
`SkipSchedule` and `ExecuteRead`, `ExecutePost`, `ExecuteMark`,
`ExecuteSchedule` commit one by one, as the code does; `WithNext` is
what follows an occurrence: nothing after the deposit or policy was closed, nothing
after the last of the term. Dates are not modelled: whether an occurrence is the
last (its column `last`: the next date would fall after the maturity or the policy's
term, or the row names no category or account to carry on with) is chosen freely when it
is scheduled. `Detached` is the next occurrence as `executePlanned` writes it,
without category, deposit or policy (`bound`), so that a closing does not find it; `StopPlan` is one
conditional UPDATE; `BeginClose`, `CancelPending`, `CommitClose` close the
deposit or policy (in `CancelPending` the rows the UPDATE will wait for are
chosen, in `CommitClose` each is judged again). Idempotency keys of the form
are modelled in `Ledger`, not here.

`Inbox` - `Connect`, `CountInbox`, `InsertMessage` are `receiveSms` (connection
row, then user row, locked; each refusal ends the transaction). A confirmation is
`ReadMessage`, `Replay`, `RefuseSimilar`, `Claim`, `Post` or `PostFails`, `Settle`
or `SettleFails`, `Release`: each a transaction of its own, as in
`confirmBankImportAction`, whose last statement is the `finally` block. `Link`,
`Reject` and `Revoke` are one conditional statement or one locked transaction. `Post`
stands for `createTransactionAction` under the message's key, which `Ledger`
models. The history variable `disturbed` names the messages a confirmation of
which outlived its five minutes, or lost the database between its entry and the
mark; the promise that a message has one entry, and that decisions stand, is about the others.
That a message whose entry is in the books is marked is about all.

`Setup` - `Begin`, `TakeLease`, `Recheck`, `CheckAccounts`, `PostBase`,
`BeginItem`, `CreateItem`, `Value`, `Finish`, `End` are `finishSetup` from top to
bottom; `LoseLease` is the UPDATE that no longer finds the row under the
attempt's token. `SaveDraft`, `ReadRow` and `Confirm` are the two actions of
`setupDraft.ts`. What a transaction inserts is one thing, `made[j]`, recorded
with the version of the data it was sent with; a hash is that version. An
attempt keeps its own copy of the receipts and writes the whole of it, as the
code does.

`Once` is what both promise: each job is recorded in one step, once. `Inbox` maps it to
messages and the entries that bear their keys, `Setup` to the wizard's items and the versions they
were recorded with.

`Accounts` - an entry has its legs in native quantity and the rate, the base value of a
unit, it was booked at: `Balance` and `BaseValue` are the two sums of
`summarizeAccountHistory`, and the code judges a deletion by the first alone. Any
currency may be booked at any of `Rates`, which allows more than the code does for dollars. `Register` is `registerMoneyAccount` (wallet found or made, code,
opening entry), `Delete` `deleteMoneyAccount`, `DeleteByApi` the other door;
`RecordCheckpoint`, `BeginAdjust` and `CommitAdjust` are reconciliation, where
everything else may happen between the balance that is read and the entry that is
posted. `Transact`, `Reverse` and `LinkTo` are what the rest of the program does
to accounts: neither `validateAccountOwnership` nor `postEntry` minds that an
account has been deleted, so a page opened earlier may still name it. A wallet's
id is that of the account it was made for; its name may coincide with another's,
because without a place it is the account's.

`Registry` - properties and vehicles. `ReadProperty` is the look-up that valuing,
selling and deleting begin with, before their transaction; `InsertSnapshot` and
`CommitValuation` are the valuation (the snapshot's foreign key keeps the property
until the price is written), `LookUpKey` and `CommitSale` the sale (the key's first
look-up; then entry, row and prices, in one commit), `CommitDeletion` the deletion.
A vehicle's sale is `JudgeVehicle` (by the form, which refuses one already sold, or the
page, which does not), `WriteVehicle` (the UPDATE of the row, and the carrying
value read from the account) and `CommitVehicle` (the entry under the vehicle's
key: posted, replayed or in conflict); `SellAside` is the sale that names no
account. `ReversePurchase` and `ReverseSale` are `reverseEntry`, which does not know of
registries. The payload that the key's hash compares is the price and the carrying
value; the posting into the bank and the result on 4100 are what balances them. The
locks of the bank's and 4100's accounts are not modelled: the sales of one
property meet at the unique key, those of one vehicle at its row.

`MCLedger`, `MCLots`, `MCCheques`, `MCInstallments`, `MCPlans`, `MCInbox`,
`MCSetup`, `MCAccounts` and `MCRegistry` give instances and symmetry sets.
`LedgerProofs`, `ChequesProofs`, `InstallmentsProofs`, `PlansProofs`, `InboxProofs`,
`SetupProofs`, `RegistryProofs` and `HoldingsProofs` hold the theorems; the last is
about `Accounts` and `Lots`, whose proofs share the lemmas on sums. Updates of several
fields of a session's record are written `[session EXCEPT ![s] = [@ EXCEPT !.a = ..., !.b = ...]]`,
one update per place: the SMT translation of TLAPS 1.4.5 treats several updates
of one function as independent of each other, and proofs should not rest on that.

## 4. Runs

| Run | Properties | What it shows |
|---|---|---|
| `ledger` | `VoidedOnce` `ProbeStillHolds` `PostsNeverDeadlock` `BookSpec` `RequestsEnd` | Racing posts (guarded or not, retried, conflicting, unbalanced) and reversals act as an atomic ledger. The overdraft probe is still true when the entry commits. A circle of waits always involves a reversal. Every request is answered. |
| `lots_sequential` | `LotsConserved` `SalesMatched` `BookEqualsLots` | Any sequence of buys, sales and reversals at two places, one at a time, failing anywhere: units are conserved, the accounts of both places together are what the open lots cost. |
| `lots_concurrent` | `TradesConserve` `FirstInFirstOut` `RequestsEnd` | Concurrent buys, backdated ones included, sales and reversals of sales at two places: no update of a lot is lost but of those that `raced`, the oldest lot of the sale's own place goes first, and requests that deadlock over accounts and lots are still answered. Reversals of buys are in `lots_sequential` only, and in the theorems. |
| `cheques` | `EntryWithItsCheque` `ClearedWithItsEntry` `BookSpec` `RequestsEnd` | With reversals through `reverseEntryAction`, cheque and entry change as one. |
| `debts` | `RunningTotal` `SettledWhenPaid` `BookSpec` | Quick payments, manual reversals, repairs, cancelling and deleting, concurrently: each acts as one step. |
| `debts_ends` | `RequestsEnd` | The same with the form, whose lock order is the opposite of the quick payment's. |
| `plans_form` | `PaidOnce` `OneReminder` | The form against stopping and closing, on one account, with a term that may end after any occurrence: paid once, one reminder until the payment ends, none after the last. |
| `plans_all` | `ExecutedHasItsEntry` `RequestsEnd` | Everything at once, on two accounts, failing anywhere. |
| `inbox` | `OneEntryPerMessage` `DecidedWithItsText` `InboxBounded` `RevokedStaysSilent` `DecisionsStand` `RecordedOnce` `RecordedIsMarked` | Telephones that send and are revoked, messages that are confirmed (twice, late, after a crash), linked and rejected: one entry each, no message is lost before it is decided, the limit holds, what is in the books is marked. |
| `setup` | `CompletedWhole` `NothingAfterwards` `RecordedOnce` `SetupCompletes` | The wizard sent twice at a time, with edited data, after failures, stalls and crashes, against the draft and the confirmation. |
| `accounts` | `WalletsMatch` `DeletionKeepsBooks` `ReportedReached` | Registering, deleting by both doors and reconciling, with entries, at two rates, backdated and reversed, in between. |
| `registry` | `SoldAsBooked` `GoneWithItsPrice` `RemovedExactly` | A property and two vehicles, one of them also sold without an account: valuations against removals, sales sent twice or at another price, entries reversed at any moment. |

`BookSpec` and `RecordedOnce` are refinements: the abstract specification as a
property. The type invariant of every module is proved
(section 6), so the runs do not list it.

### Bounds, and why they are enough

* **Two sessions** (three in `plans_form`, so that two submissions meet a stop or
  a close): every race described here is between a reader and a writer, or two
  writers, of the same row. The theorems of section 6 remove the bound from every
  safety property the runs check that holds with any number of them;
  `LotsConserved` and `BookEqualsLots` are the code's promises for one request at a
  time. `TradesConserve` says of any number of them what is left of the first (with one,
  `raced` is empty and the two are the same); the second is lost with two (section 5).
* **Places**: two, so that a sale can take lots bought elsewhere, and a buy or a sale
  elsewhere waits for other accounts.
* **Entries**: three in `ledger` let an entry be posted and two requests race for
  what follows (two posts, a post and a reversal, two reversals). Four in the lots
  runs allow two buys and two sales, with reversals of any of them, in any order. Four
  in `debts` pay two installments in part and repair one payment.
* **Amounts**: wallet, bank and income accounts with amounts 1 and 2, so that a
  balance covers one withdrawal and not two. Quantities 1 and 2 make a sale take
  part of a lot, all of it, or span two; two unit costs tell lots apart where the
  book value is at stake (`lots_sequential`). An installment of 2
  or 3 can be paid in parts.
* **Occurrences**: with four, a chain can be carried on three times; the third
  id of `plans_all` suffices for a fork.
* **`inbox`**: two telephones and one place in the inbox (the code's 100), so that
  they race for the last one; two messages and two entries, so that an entry can
  belong to the other message, or to none.
* **`setup`**: a vehicle, one more item and the accounts, each with two versions
  of its data; four different requests, so that a retry agrees, is edited
  before or after what was recorded, or leaves something out. `MaxFaults` is
  three: an attempt crashes, a second stalls, a third is sent with data that
  do not fit.
* **`accounts`**: a bank account and Toman at an exchange from the set-up, which
  share their opening entry, and a third account to register, in the exchange's wallet or
  another of that name; two currencies. Three entries are the opening, and two of:
  another opening, a transaction on either of two days, an adjustment. Two rates are
  enough for an account to be emptied at another rate than it was filled at. `Moves`
  bounds the movements of money to one from each account of the set-up, one from the
  account registered later and one to it. One
  session adjusts, because with one report (`Checkpoints`) a second one only waits for its row; everything
  else happens between that session's two steps. One balance is
  reported, of day 1: an entry of day 2 is not to be counted. A newer report that
  supersedes it, which `adjustToReported` refuses, is beyond this instance.
  Plans and goals may name the third account (`Links`).
* **`registry`**: one property, a vehicle that is sold to an account only and one that
  is also sold aside; what is bought costs 1 and is sold for 1 or 2, so that a retry is
  the same sale or another one.
* **Symmetry** (sessions; ids where they are not ordered) is used only in runs
  with no liveness property.

### Fairness

`SF_vars(Continue(s))`: the server carries on a request that has begun, and
PostgreSQL's lock queues hand a row to each waiter in turn. Strong fairness is
needed because a lock is taken and released repeatedly by others while a waiter
is queued; a queue does not let newcomers overtake for ever. Nothing makes a
request begin, and nothing makes `Rollback` happen. `WF` of `BreakDeadlock`: the
deadlock detector runs after `deadlock_timeout`. In
`Inbox` weak fairness of `Continue` is enough, and the user comes back to a message
that still waits: the inbox lists it, pending or being recorded
(`features/bankImport/sms.ts:99`). That is strong fairness of `ReadMessage`, because
between two attempts the message may be decided otherwise; and strong fairness of `Replay`,
because a server that dies at every attempt, before it has looked up the message's key, marks nothing. In `Setup`
the user also comes back, as the wizard's page asks for after a failure: with
data that fit what has been recorded (`Fits`), or to confirm the accounts
(`ReadRow`). That is strong fairness because both are possible again and again
only between attempts; that no failure goes on for ever is the bound `MaxFaults`.

## 5. Divergences

None of the runs expects a violation. What comments and tests say and the code does
not keep was met while modelling, and can be reproduced by changing a
configuration:

| What a comment or test says | What the model shows | How to see it |
|---|---|---|
| "Lock account rows FOR UPDATE in ascending ID order to prevent deadlocks" (`features/ledger/service.ts:214`) | a reversal's mirror postings lock accounts in the order they were read, and can deadlock with a post | `ledger` with `INVARIANT NoDeadlock` |
| a duplicate key returns the existing entry (`src/tests/stage3-integrity-safety.test.ts:206`) | two simultaneous requests: nothing is posted twice, but the second fails, its fallback SELECT running in an aborted transaction | `ledger` with `INVARIANT DuplicateReturnsExisting` |
| "Selling the position in full therefore returns the asset account to exactly zero" (`features/ledger/service.ts:914`) | lots belong to no place: a sale at one place takes the cost of an older lot bought at another, and leaves the difference in both accounts | `lots_sequential` with `INVARIANT SoldOutIsZero` |
| the same, of the accounts of all places | the cost of a sale comes from an unlocked preview; lots changed in between leave a difference | `lots_concurrent` with two unit costs and `BookEqualsLots` |
| "Selling more than is held would leave a negative position" (`app/actions.ts:1637`) | the form reads what is held before the account is locked, and the lots that postEntry counts may be another place's: two sales of one place leave it short | `lots_concurrent` with `INVARIANT NoShortPosition` |
| opened = remaining + consumed (`features/integrity/service.ts:56`) | a reversal reads a lot's remainder unlocked and writes a sum: two reversals, or a reversal and a sale, lose units; a buy can be voided while it is being sold; a sale writes a lot that its `FOR UPDATE` did not find and its second SELECT did | `lots_concurrent` with `LotsConserved` |
| "Consume open lots in FIFO order" (`domain/fifo.ts:28`) | a buy that is backdated, or a sale that is reversed, at another place does not wait for the seller: a lot older than those it takes is open when it commits | `lots_concurrent` with `FirstInFirstOut` for lots of all places, or without its condition on reversed sales |
| the same check | reversing a buy zeroes the lot without a consumption, so the check reports it from then on | `lots_sequential` with `FifoCheckPasses` |
| a debt with a payment "can only be cancelled" (`features/planning/planItems.ts:259`) | the debt is judged unpaid and deleted while a payment commits | `debts` with `DeletedDebtUnpaid` |
| "one reminder can never be paid twice" (`features/insurance/service.ts:591`) | the reminder is judged unlocked; only the lock of a common account keeps two submissions apart | `plans_form` with two accounts |
| "only this user's pending row qualifies" (`features/income/service.ts:152`) | the UPDATE is by id alone: a skip overwrites an execution | `plans_all` with `OnlyPendingCloses` |
| a deposit's interest "stops once it is closed or past maturity" (`features/income/service.ts:182`) | the next occurrence that `executePlanned` inserts carries neither category nor deposit or policy: the closing does not cancel it, and no maturity ends it | `plans_all` with `Ways = {"close", "execute"}` and `NothingPendingAfterClose` |
| "nothing new is scheduled" after a stop (`features/income/service.ts:211`) | a form that read the occurrence before executes it and schedules the next | `plans_form` with `StopIsFinal` |
| the pending reminder goes with the deposit (`features/deposits/service.ts:204`) | the form reads the deposit before the closing commits, and the closing's UPDATE does not see the new row | `plans_form` with `NothingPendingAfterClose` |
| "Inside a reversal: the cheque that entry cleared is pending again." (`features/cheques/service.ts:272`) | `DELETE /api/transactions` reverses the entry and leaves the cheque cleared | `cheques` with `Doors = {"action", "api"}` and `ClearedWithItsEntry` |
| an installment changes "within same transaction (Transactional Integrity)" (`app/actions.ts:1789`) | the form computes its running total from a row read before its transaction, and forgets a payment in between | `debts` with `"form"` among the `Ways` and `RunningTotal` |
| "Execution is idempotent: an already-executed plan is never posted twice." (`features/planning/service.ts:1014`) | `executePlanned` posts in one transaction and marks in another: after a failure in between the plan is executed again | `plans_all` with `PaidOnce` |
| "the committed entry wins" (`app/actions/bankImport.ts:184`) | a confirmation that outlives its five minutes posts its entry although the message has been rejected or linked to another since | `inbox` with `OneEntryPerMessage` for all of `Messages` |
| a set-up recorded in part is completed from its draft, as the error of the confirmation asks (`app/actions/setupDraft.ts:23`) | the confirmation refuses while there is a lease, also one that has run out, and nothing clears that of an attempt that died | `setup` with `<>[]Completed` |
| a set-up recorded in part is not confirmed: the row is locked and judged (`app/actions/setupDraft.ts:22`) | with no row there is nothing to lock: an attempt may insert it, and record the accounts, before the confirmation commits (`"unseen"`) | `setup` with `CompletedWhole` for `"unseen"` too |
| "either the opening entry is reversed (both legs return to zero) or the account's balance is already zero before it is hidden" (`features/accounts/service.ts:913`) | a transaction of a page opened earlier, a reversal or an adjustment under way puts money on the hidden account; `DELETE /api/accounts` asks for no balance at all | `accounts` with `HiddenHoldsNothing` |
| the sum of base values over live accounts "stays zero" when an account is deleted (`features/accounts/service.ts:911`; `src/tests/money-account-delete.test.ts:86`) | only the native quantity is judged: an account filled at one rate and emptied at another has a quantity of zero and keeps a base value, which goes out of the sum with it | `accounts` with `PROPERTY DeletedWorthNothing` |
| the wallet goes when "this was its last live account" (`features/accounts/service.ts:973`) | the API's door leaves the wallet of the last account behind | `accounts` with `NoEmptyWallet` |
| "the same place is one wallet holding several currencies" (`features/accounts/service.ts:444`) | an account without a place gets a wallet of its own name, which may be the place's | `accounts` with `OneWalletOfPlace` |
| "The loser recomputes after the winner commits" a code that no account has (`features/accounts/service.ts:486`) | `nextAssetCode` ignores deleted accounts and the unique index does not: after the account with the highest code is deleted, registering fails until another code is used | `accounts` with `NextCodeIsFree` |
| "A transaction posted between preview and confirm is seen here" (`features/accounts/service.ts:925`) | no row is locked: an entry, or a second registration at the place, that commits after the judgement is not seen | by reading; `Accounts` registers and deletes in one step |
| "so a double tap can never post twice" (`features/reconcile/service.ts:227`) | true of one report; two reports of one account lock two rows, so that one is adjusted while a newer one is recorded and adjusted, and the difference is posted twice | two `Sessions` and two `Checkpoints`, and `ReportedReached` without its second condition |
| the carrying value "is that account's own posted balance and is removed exactly" (`features/ledger/service.ts:1119`) | it is read before the entry locks the account: a purchase reversed in between leaves the account at minus its cost | `registry` without symmetry, with `RemovedAtSale` |
| "A sale can therefore never exist in the registry while being invisible in the ledger" (`features/rwa/vehicle/service.ts:409`) | after the reversal of a sale, which leaves the vehicle sold, selling it again at that price finds the void entry under the key and posts nothing | `registry` without symmetry, with `SaleIsPosted` |

## 6. Proofs

Assumptions, each stated in the module that declares the constants:
`LedgerAssumption` (accounts are numbers, so that they are ordered; requests are
well formed; the sessions are finitely many, as the pool's connections are; `None` is
no id), `ChequeAssumption`, `InboxAssumption` (finitely many messages),
`SetupAssumption` (the accounts are job 0, and every request names them),
`AccountsAssumption` (finitely many accounts and entries; a place has one account in
the set-up; amounts and rates are positive; `None` is no id), `PlansAssumption`,
`InstallmentsAssumption` (the contractual amount is positive), `LotsAssumption`
(finitely many trades, numbered in the order in which lots are consumed; quantities are positive) and
`RegistryAssumption` (cost and prices are positive; no property is a vehicle).
Sessions, entries, cheques, messages, items, accounts and requests are otherwise
arbitrary sets.

Each invariant says what a program counter means: which locks a session holds at
it, and what of the rows it has read is still so.

* **`LedgerTypeCorrect`**, **`LedgerVoidsOnce`**, **`LedgerProbeHolds`**. The
  invariant is `LedgerInv`: a session past `locking` holds FOR UPDATE every
  account its entry moves; one that is mirroring holds the entry it voids, and
  the share locks of the accounts it has passed; ids in use by sessions are fresh
  and distinct. `ProbeStillHolds` is not inductive without it: a commit of
  another session changes only balances of accounts on which that session holds a
  lock, exclusive or shared; those are not the accounts the probing session
  holds, so their movements, and the sum over them, are the same
  (`LockedBalance`).
* **`LedgerPostsNeverDeadlock`**. The argument is the code's: a post locks its
  accounts in ascending order, so that the account it waits for is above all it holds
  (`OrderSound`). A post therefore waits for a reversal, or for a post that is
  `Further`, which is a strict order: no chain of posts leads back to its start.
  Reversals lock in another order, and are out of the property.
* **`LedgerEntriesBalance`**, **`LedgerTrialBalance`** are the first two of
  `runIntegrityChecks` (`features/integrity/service.ts:36-55`), for finitely many
  accounts. `EntriesBalance`: debits equal credits in every entry, a mirror's
  included. `TrialBalance`: the balances of all accounts add up to zero. A post
  adds to every balance the leg it has there, a reversal takes it away again
  (`BalanceWith`), and the legs add up to zero (`TrialMoves`).
* **`LedgerImplementsBook`**. Initial states map to initial states; `CommitPost`
  maps to `Post`, whose guards are what the session has checked before and
  `LedgerInv` and `ProbeStillHolds` say is still so; `CommitReverse` maps to
  `Reverse`; every other action stutters.
* **`ChequesTypeCorrect`**, **`EntryKeepsItsCheque`**. `ChequeInv` adds that a
  session past `ClearCheque` holds its cheque's lock and that the cheque is still
  pending, that a cheque that names an entry is that entry's cheque, and that
  session entries are fresh. The theorems hold whatever the doors.
* **`ClearedChequeKeepsItsEntry`** needs `Doors \subseteq RevertingDoors`: the
  condition the API's door does not meet.
* **`ClearedUntilReversed`** and **`ChequesImplementBook`** follow from
  `RowSteps`: every step leaves the rows alone, marks a cheque, pays one or voids
  an entry. The refinement needs the same condition on the doors; that only a
  reversal takes a cheque out of "cleared" does not.
* **`PlansTypeCorrect`**, **`ExecutedKeepsItsEntry`**. `PlansInv` says whose the
  ids are that requests have taken: an entry about to be posted is nobody else's,
  and the row of the next occurrence is still free. A step moves its own session
  and changes only what bears its own ids (`StepKeepsRows`, `StepMovesSession`),
  so that the others stay sound (`OthersSound`).
* **`FormPaysOnce`**, **`FormKeepsOneReminder`** hold `OnOneAccount`: payments by
  the form, on one account, with stops and closings. `ChainInv` is the reason: the
  form holds the account from its first statement to its commit, so that nobody
  else can execute the occurrence it found pending, or schedule one; a stop or a
  closing only cancels. What follows an occurrence is a set of rows (`WithNext`): a
  reminder, which may be the last, or nothing. The second theorem therefore holds whenever the
  term ends: with the last occurrence executed nothing is pending, and nothing will be. With a second account, or with skips and `executePlanned`,
  both properties fail (section 5).
* **`InstallmentsTypeCorrect`** holds in every deployment.
  **`SettledByTheLastPayment`** needs `"form" \notin Ways` and a debt with an
  installment. `DebtInv`: a quick payment or a repair holds its row from the start, so that the
  total it will write is still the row's plus its amount; a session that has
  counted the outstanding installments holds the counter account, without which no
  running total changes, so that the count is still right when it commits.
  **`PaymentsImplementBook`**, under the same conditions, needs no sum: `CommitPayment` maps to `Pay`, `CommitRepair` to
  `Repair`, `Reverse` to `Void`, `WriteDebt` to `Close`, all else stutters.
  `IdsSound` and `OwnIds` say whose the entry is that a session is about to post,
  `LastSound` that a repair's entry is still the installment's last, and
  `StepKinds` lists the ways in which a step can change the rows.
* **`RunningTotalIsPosted`**, under the same conditions, is about the steps of
  `DebtBook` rather than those of the sessions: `BookStep` makes every step one of
  them. `TotalsInv` adds to `RunningTotal` that finitely many entries are posted, and
  that a voided payment leaves room for the repair that posts it again (`Lost`):
  without it a repair could take the ledger above the total.
* **`PaidInstallmentsNameTheirEntry`** is the fourth of `runIntegrityChecks`
  (`features/integrity/service.ts:68-74`), in every deployment: an installment on
  which anything was paid names an entry that was posted, whatever is reversed and
  repaired since.
* **`InboxTypeCorrect`**, **`MessageOnce`**, **`TextUntilDecided`**,
  **`LimitHolds`**, **`Silent`**. `InboxInv` has three parts beside the types and
  the properties themselves. `RoomSound`: a session that has counted holds the
  user's row, so that nothing arrives between its count and its insert, and every
  other change leaves no more of them waiting (`NoneArrives`). `KeysSound`: an entry's
  key is the message it was posted for, and no two entries have the same.
  `ClaimsSound`: the session that is confirming an undisturbed message is the one
  whose claim the row bears, so that nobody else may decide the message; it is
  broken by `Lapse` alone, which puts the message among the disturbed.
* **`DecisionsStay`** is an action property: of each step, `Undone(m)` for the
  messages still undisturbed after it. **`InboxRecordsOnce`** is the refinement of
  `Once`: `Post` is the only step that adds an entry, and its key was free
  (`KeysKeptOrPosted`).
* **`SetupTypeCorrect`**, **`WholeWhenCompleted`**, **`SilentAfterwards`**. The
  heart of `SetupInv` is `CopySound`: while an attempt holds the lease, its own
  copy of the receipts is the row's, although it writes the whole copy each time;
  an attempt that has lost the lease has a stale copy, and no statement of it
  finds the row. `ReceiptsSound` ties a receipt to what was made, `AttemptsSound`
  and `ValuesSound` say how far a program counter has come, `Sealed` that no lease
  is of use after the completion, `LegacySound` that nothing is recorded for a user
  who had accounts, `LockSound` what the confirmation has judged under its lock.
  **`SetupRecordsOnce`** maps `PostBase` and `CreateItem` to `Record`.
* **`AccountsWalletsMatch`**. `AccountsInv` is `WalletsMatch` with `RowsSound`
  (what the rows of accounts and wallets look like) and `MadeTogether` (a wallet
  exists only once the account it was made for does). One lemma for each way to
  change the rows: into a new wallet, into a known one, a deletion by each door.
  Every other action leaves accounts and wallets alone.
* **`AccountsDeletionKeepsBooks`**, **`AccountsReportedReached`**,
  **`AccountsTypeCorrect`**. No balance is stored: each is a sum over the posted
  entries. `BooksInv` says that a checkpoint's key is on an entry only once the
  checkpoint is resolved, so that an adjustment posts instead of finding an entry under
  its key. A step then adds one summand or takes one out, and an adjustment, which
  posts the difference of what was reported and a sum, makes that sum what was reported. A
  deletion is about two sums at once, the quantity and the base value of an account,
  each entry at its own rate. The types say that the code of a new
  account exists (`GreatestNumber`), and that an adjustment's amount is an integer,
  being a difference of sums.
* **`RegistryTypeCorrect`**, **`RegistrySoldAsBooked`**,
  **`RegistryGoneWithItsPrice`**, **`RegistryRemovedExactly`**. `RegistryInv` adds two parts.
  `SessionSound`: a property that a session has read was bought at its cost, one
  that is being valued is still there, and a session that has written a vehicle's row
  holds it, and knows what the vehicle's account holds unless a sale was posted or
  the purchase reversed since. `ItemSound`: what is not registered was not sold, a
  registered property was bought, and a posted sale carries what was bought. `RemovedExactly`
  follows from the last.

* **`LotsTypeCorrect`**, **`LotsSalesMatched`**. `LotsInv`
  is inductive for any number of requests and places. `SalesApart`: a sale that is under way has an
  entry of its own, which nothing has written. `LocksHeld`: it holds the account of its
  place, and the lots that it asked for and found open. `PlansSound`: what it takes
  adds up to what it sells, and only lots that a buy has opened are written.
  `ReversalsHold`: a reversal holds its entry, which stays posted, and has to write just
  the lots the entry wrote. `OwnRows`: only a buy has a lot, only a sale has consumptions. What
  `Allocation` takes of a lot is a closed form of `consumeFifo`'s loop; `AllocationIs` says
  it by cases, and the lemmas after it that the parts add up to the quantity when the lots suffice, and that a
  lot is touched only once the older ones are exhausted. Although
  `lots_sequential` checks `SalesMatched` for one request, it holds for any number.
* **`LotsTradesConserve`**. `Unraced`: a lot that has not raced has at most one session
  with a write of it to make or to commit (`Alone`), and that write still is what the
  session would compute now (`UpToDate`). Nothing assumes that the lots are locked: a sale
  that had asked for a lot holds it, and every other way for two sessions to get hold of one puts it among
  the `raced`. `LotsKept`: each commit then moves the units of a lot between its
  remainder and the consumptions, and a reversed buy leaves an empty lot.
* **`LotsFirstInFirstOut`**. `OldestFirst` (`OlderSpent`): from its allocation on, a sale
  will leave, or has found, nothing in a lot that is older than one it takes and was
  bought at its own place. The account of the place is what keeps it so, since a buy, a sale's
  commit and a reversal's commit at that place need it; a reversed sale of another place,
  which may give units back to a lot of this one, is excepted by the property.

The last step of each is temporal (`PTL`); everything before is first-order.

The sums of `Ledger`, `Accounts`, `Lots` and `Installments` are over finite sets of any
size, and need induction. The library's induction theorems take an operator as
a parameter, which the provers cannot instantiate; instead, the lemmas of the
sections on sums take a minimal counterexample (`WFMin`) in the strict subset ordering of a
finite set (`FS_StrictSubsetOrderingWellFounded`), as a set of sets.
`SumExists` builds the recursive function that the community modules' folds choose,
`SumIsUnique` shows that it does not matter which they choose, and `SumOfSome`, that a sum is
one summand and the sum of the others, is what all else cites. The function
`PostsNeverDeadlock` follows, recursive in the number of sessions, is treated in
the same way along the natural numbers (`NatLessThanWellFounded`).

Only model-checked:

* `RequestsEnd`, `RecordedIsMarked`, `SetupCompletes`: liveness under fairness is outside
  the prover's reach.
* `LotsConserved` and `BookEqualsLots`, which the code promises for one request at a
  time only. For the first, `LotsTradesConserve` is the theorem without that restriction.

## 7. Not modelled, and the plan

Not modelled: other users' data (every query is restricted to one user); prices
and FX rates, which are inputs; fees and denominations; dates beyond their
order (a term ends after an occurrence chosen freely); wording and layout; reports, which change no state; authentication and
rate limits; the user interface. Of the modelled components:

* Accounts: renaming, the edits of notes and icons; accounts a placed holding gets
  by itself; two registrations or deletions that overlap (each is one step here;
  the row of section 5 on "A transaction posted between preview and confirm" says what
  that hides).
* Bank import: the encryption, parsing and matching of messages, whose results are
  inputs; the limit on connections, counted under the lock of
  the user's row as the messages are.
* Setup: the draft's contents, which are a version here.
* Ledger: fees, frozen rates, audit events; entries posted by valuations, such as
  the mark of a trading account (`features/trading/service.ts:168`), which reads a
  balance and posts the difference, as an adjustment in `Accounts` does, but holds no
  row meanwhile.
* Registries: symbols and per-user counters, given out under the lock of the asset
  class; valuations and details of a vehicle, which none of these steps reads; the
  repair of orphans (`repairOrphanedRealEstate`), which only finds work in rows of
  former versions; the back-fills; the registry's former services
  (`features/vehicles/service.ts`).
* Restore: one transaction that replaces all rows, beside requests that have read
  the rows it deletes.

The order of the work, and what is left of it:

1. Ledger, lots, cheques, installments, plans - done, with theorems.
2. Inbox, set-up, accounts with reconciliation, registries, and the abstract `Once`
   and `DebtBook` - done, with the theorems above.
3. `Schedules` - `splitPrincipal`, due dates, and `consumeFifo` as the loop the
   code has against `Allocation`, over bounded inputs.
4. `Marks` - a valuation that reads, computes and posts.
5. Abstract specifications: a chain of reminders for plans, refined by the form on
   one account.
