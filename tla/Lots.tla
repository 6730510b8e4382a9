-------------------------------- MODULE Lots --------------------------------
(***************************************************************************)
(* FIFO lots of one asset: recordBuy and recordSell, the lot half of       *)
(* postEntry and of reverseEntry (features/ledger/service.ts), and         *)
(* consumeFifo (domain/fifo.ts).                                           *)
(*                                                                         *)
(* The asset is held in an account at each place it was bought at          *)
(* (placedHoldingAccount), and a posting locks the account of its place    *)
(* only; but a sale takes the oldest lots of the asset, wherever they were *)
(* bought.  It computes its cost from the open lots before it takes a      *)
(* lock; then it locks the account of its place, locks the open lots FOR   *)
(* UPDATE, and reads the open lots again, which may be more than those it  *)
(* locked.  A reversal reads a lot without a lock, then writes its new     *)
(* remainder; it cannot commit while a sale holds the account of its place,*)
(* because the foreign key of its mirror postings needs a KEY SHARE lock.  *)
(*                                                                         *)
(* An entry is identified by its place in the order in which lots are      *)
(* consumed: by opened_at, and for lots of one day whatever order the      *)
(* query returns them in.  A backdated buy takes a smaller id than a lot   *)
(* recorded before it.                                                     *)
(*                                                                         *)
(* The names do not meet those of Accounts: what is proved of both is in   *)
(* HoldingsProofs.                                                         *)
(***************************************************************************)
EXTENDS Integers, FiniteSets, Functions, FiniteSetsExt

CONSTANTS
    Traders,     \* concurrent requests' database sessions
    Trades,      \* journal entries, and the lot a buy opens
    Places,      \* where the asset is held, in an account each
    Bought,      \* units bought at a time
    Sold,        \* units sold at a time
    UnitCosts,   \* cost of a unit
    Reversible,  \* kinds of entries that are reversed
    Null         \* SQL NULL

ASSUME LotsAssumption ==
    /\ Trades \subseteq Nat
    /\ IsFiniteSet(Trades)
    /\ Bought \subseteq Nat \ {0} /\ Sold \subseteq Nat \ {0}
    /\ UnitCosts \subseteq Nat
    /\ Reversible \subseteq {"buy", "sell"}
    /\ Null \notin Traders \cup Trades \cup Places \cup Nat

VARIABLES
    journal,      \* committed journal entries that trade the asset
    lot,          \* committed lots, under the id of the buy that opened them
    consumed,     \* lot_consumptions: units of a lot that a sale took
    accountLock,  \* session holding a place's account FOR UPDATE
    lotLock,      \* session holding a lot FOR UPDATE, or that wrote it
    entryLock,    \* session holding an entry FOR UPDATE
    trader,       \* what each session is doing
    raced         \* history: lots that two sessions had to write at once, when one
                  \* of them had read the lot without a lock

rows == <<journal, lot, consumed>>
lotsVars == <<journal, lot, consumed, accountLock, lotLock, entryLock, trader, raced>>

-----------------------------------------------------------------------------
\* book: what the entry's posting puts in the asset's account at the place.
JournalRows ==
    [status : {"free", "posted", "void"}, kind : {"buy", "sell"}, place : Places \cup {Null},
     qty : Nat, book : Int]

LotRows == [opened : Nat, remaining : Nat, unitCost : Nat]

NoEntry == [status |-> "free", kind |-> "buy", place |-> Null, qty |-> 0, book |-> 0]
NoLot   == [opened |-> 0, remaining |-> 0, unitCost |-> 0]

\* entry: the one to record or to void.  cost: of the preview.  locked: the lots a
\* sale asks for FOR UPDATE, then holds.  todo: lots a reversal has still to write.
\* lot, value: the lot it has read, and what it will write.  written: the remainders
\* a sale will write, or a reversal wrote, uncommitted.  taken: what the sale takes.
Trading(pc, e, place, qty, cost, todo) ==
    [pc |-> pc, entry |-> e, place |-> place, qty |-> qty, cost |-> cost, locked |-> {},
     todo |-> todo, lot |-> Null, value |-> 0,
     written |-> [l \in Trades |-> Null], taken |-> [l \in Trades |-> 0]]

NoTrade == Trading("idle", Null, Null, 0, 0, {})

TraderStates ==
    [pc : {"idle", "previewed", "selling", "locking", "locked", "allocated", "reversing"},
     entry : Trades \cup {Null}, place : Places \cup {Null}, qty : Nat, cost : Nat,
     locked : SUBSET Trades, todo : SUBSET Trades, lot : Trades \cup {Null}, value : Nat,
     written : [Trades -> Nat \cup {Null}], taken : [Trades -> Nat]]

LotsTypeOK ==
    /\ journal \in [Trades -> JournalRows]
    /\ lot \in [Trades -> LotRows]
    /\ consumed \in [Trades -> [Trades -> Nat]]
    /\ accountLock \in [Places -> Traders \cup {Null}]
    /\ lotLock \in [Trades -> Traders \cup {Null}]
    /\ entryLock \in [Trades -> Traders \cup {Null}]
    /\ trader \in [Traders -> TraderStates]
    /\ raced \subseteq Trades

LotsInit ==
    /\ journal = [e \in Trades |-> NoEntry]
    /\ lot = [l \in Trades |-> NoLot]
    /\ consumed = [l \in Trades |-> [e \in Trades |-> 0]]
    /\ accountLock = [p \in Places |-> Null]
    /\ lotLock = [l \in Trades |-> Null]
    /\ entryLock = [e \in Trades |-> Null]
    /\ trader = [s \in Traders |-> NoTrade]
    /\ raced = {}

-----------------------------------------------------------------------------
(* consumeFifo *)

Remaining == [l \in Trades |-> lot[l].remaining]

OpenLots == {l \in Trades : lot[l].remaining > 0}

\* Lots consumed before l.
Older(l) == {k \in Trades : k < l}

\* Units a sale of qty takes of each lot.
Allocation(remaining, qty) ==
    [l \in Trades |->
        Max({0, Min({remaining[l], qty - SumFunctionOnSet(remaining, Older(l))})})]

CostOf(allocation) == SumFunction([l \in Trades |-> allocation[l] * lot[l].unitCost])

-----------------------------------------------------------------------------
FreshEntries ==
    {e \in Trades : journal[e].status = "free" /\ \A s \in Traders : trader[s].entry # e}

\* The end of a transaction, committed or not.
TradeEnded(s) ==
    /\ accountLock' = [p \in Places |-> IF accountLock[p] = s THEN Null ELSE accountLock[p]]
    /\ lotLock' = [l \in Trades |-> IF lotLock[l] = s THEN Null ELSE lotLock[l]]
    /\ entryLock' = [e \in Trades |-> IF entryLock[e] = s THEN Null ELSE entryLock[e]]
    /\ trader' = [trader EXCEPT ![s] = NoTrade]
    /\ UNCHANGED raced

TradeAborted(s) == TradeEnded(s) /\ UNCHANGED rows

\* The session has a write of the lot to make or to commit, from what it read of it.
Plans(s, l) == trader[s].lot = l \/ trader[s].written[l] # Null

\* Of the lots that s reads now: those another session has a write of, unless each of
\* the two had asked for the lot FOR UPDATE before it read it.
Overtaken(s, ls) ==
    {l \in ls : \E t \in Traders \ {s} :
        Plans(t, l) /\ ~(l \in trader[s].locked /\ l \in trader[t].locked)}

-----------------------------------------------------------------------------
\* recordBuy at a place: nothing it writes depends on what it reads, so one step from
\* the moment it is granted the account of the place.
Buy(s, e, p, qty, unitCost) ==
    /\ trader[s] = NoTrade
    /\ e \in FreshEntries
    /\ accountLock[p] = Null
    /\ journal' = [journal EXCEPT ![e] =
                    [status |-> "posted", kind |-> "buy", place |-> p, qty |-> qty,
                     book |-> qty * unitCost]]
    /\ lot' = [lot EXCEPT ![e] = [opened |-> qty, remaining |-> qty, unitCost |-> unitCost]]
    /\ UNCHANGED <<consumed, accountLock, lotLock, entryLock, trader, raced>>

PostedAt(p) == {e \in Trades : journal[e].status = "posted" /\ journal[e].place = p}

\* Units the posted entries put in the account of a place.
Held(p) ==
    SumFunction([e \in PostedAt(p) |->
        IF journal[e].kind = "buy" THEN journal[e].qty ELSE -journal[e].qty])

\* Mutant of PreviewSell: every unit is valued at the cost of the newest lot.
PreviewSellAtNewestCost(s, e, p, qty) ==
    /\ trader[s] = NoTrade
    /\ e \in FreshEntries
    /\ qty <= Held(p)
    /\ trader' = [trader EXCEPT ![s] =
                      Trading("previewed", e, p, qty, qty * lot[Max(OpenLots)].unitCost, {})]
    /\ UNCHANGED <<rows, accountLock, lotLock, entryLock, raced>>

\* The form refuses to sell more than is held at the place; recordSell computes the cost
\* from the open lots of every place.  Both read before any lock is taken.
PreviewSell(s, e, p, qty) ==
    /\ trader[s] = NoTrade
    /\ e \in FreshEntries
    /\ qty <= Held(p)
    /\ trader' = [trader EXCEPT ![s] =
                      Trading("previewed", e, p, qty, CostOf(Allocation(Remaining, qty)), {})]
    /\ UNCHANGED <<rows, accountLock, lotLock, entryLock, raced>>

\* Mutant of LockAccount: the account is not locked.
LockNoAccount(s) ==
    /\ trader[s].pc = "previewed"
    /\ trader' = [trader EXCEPT ![s].pc = "selling"]
    /\ UNCHANGED <<rows, accountLock, lotLock, entryLock, raced>>

\* postEntry: the account of the place is locked FOR UPDATE.
LockAccount(s) ==
    LET p == trader[s].place
    IN  /\ trader[s].pc = "previewed"
        /\ accountLock[p] = Null
        /\ accountLock' = [accountLock EXCEPT ![p] = s]
        /\ trader' = [trader EXCEPT ![s].pc = "selling"]
        /\ UNCHANGED <<rows, lotLock, entryLock, raced>>

\* SELECT ... FOR UPDATE finds the open lots,
FindLots(s) ==
    /\ trader[s].pc = "selling"
    /\ trader' = [trader EXCEPT ![s] = [@ EXCEPT !.pc = "locking", !.locked = OpenLots]]
    /\ UNCHANGED <<rows, accountLock, lotLock, entryLock, raced>>

\* Mutant of LockLots: a plain SELECT.
ReadLotsUnlocked(s) ==
    /\ trader[s].pc = "locking"
    /\ trader' = [trader EXCEPT ![s] =
                      [@ EXCEPT !.pc = "locked", !.locked = trader[s].locked \cap OpenLots]]
    /\ UNCHANGED <<rows, accountLock, lotLock, entryLock, raced>>

\* waits until each is free, and holds those that are still open.
LockLots(s) ==
    LET found == trader[s].locked \cap OpenLots
    IN  /\ trader[s].pc = "locking"
        /\ \A l \in trader[s].locked : lotLock[l] = Null
        /\ lotLock' = [l \in Trades |-> IF l \in found THEN s ELSE lotLock[l]]
        /\ trader' = [trader EXCEPT ![s] = [@ EXCEPT !.pc = "locked", !.locked = found]]
        /\ UNCHANGED <<rows, accountLock, entryLock, raced>>

\* The sale as the units of the open lots allow it: what it takes, and what it will write.
Allocated(s, allocation) ==
    [trader[s] EXCEPT
        !.pc = "allocated",
        !.taken = allocation,
        !.written = [l \in Trades |->
                        IF allocation[l] > 0 THEN lot[l].remaining - allocation[l] ELSE Null]]

\* Mutant of Allocate: a sale that the lots do not cover waits for units.
AllocateMatched(s) ==
    LET allocation == Allocation(Remaining, trader[s].qty)
    IN  /\ trader[s].pc = "locked"
        /\ SumFunction(allocation) = trader[s].qty
        /\ trader' = [trader EXCEPT ![s] = Allocated(s, allocation)]
        /\ raced' = raced \cup Overtaken(s, {l \in Trades : allocation[l] > 0})
        /\ UNCHANGED <<rows, accountLock, lotLock, entryLock>>

\* postEntry: the open lots are read again, by a SELECT of their own, and the units
\* allocated.  Too few units roll it all back.
Allocate(s) ==
    LET allocation == Allocation(Remaining, trader[s].qty)
        matched == SumFunction(allocation) = trader[s].qty
    IN  /\ trader[s].pc = "locked"
        /\ \/ /\ matched
              /\ trader' = [trader EXCEPT ![s] = Allocated(s, allocation)]
              /\ raced' = raced \cup Overtaken(s, {l \in Trades : allocation[l] > 0})
              /\ UNCHANGED <<rows, accountLock, lotLock, entryLock>>
           \/ /\ ~matched
              /\ TradeAborted(s)

\* The lots after the writes of a session.
WithWritesOf(s) ==
    [l \in Trades |->
        IF trader[s].written[l] = Null THEN lot[l]
        ELSE [lot[l] EXCEPT !.remaining = trader[s].written[l]]]

\* Lots that the sale takes units of.
TakenLots(s) == {l \in Trades : trader[s].taken[l] > 0}

SoldEntry(s) ==
    [status |-> "posted", kind |-> "sell", place |-> trader[s].place, qty |-> trader[s].qty,
     book |-> -trader[s].cost]

\* Mutant of CommitSell: each lot's consumption records the quantity of the sale.
CommitSellInFull(s) ==
    LET e == trader[s].entry
    IN  /\ trader[s].pc = "allocated"
        /\ \A l \in TakenLots(s) : lotLock[l] \in {Null, s}
        /\ journal' = [journal EXCEPT ![e] = SoldEntry(s)]
        /\ lot' = WithWritesOf(s)
        /\ consumed' = [l \in Trades |->
                [consumed[l] EXCEPT ![e] = IF l \in TakenLots(s) THEN trader[s].qty ELSE 0]]
        /\ TradeEnded(s)

\* The sale writes each lot, waiting for those it does not hold, and commits; its posting
\* carries the cost of the preview.
CommitSell(s) ==
    LET e == trader[s].entry
    IN  /\ trader[s].pc = "allocated"
        /\ \A l \in TakenLots(s) : lotLock[l] \in {Null, s}
        /\ journal' = [journal EXCEPT ![e] = SoldEntry(s)]
        /\ lot' = WithWritesOf(s)
        /\ consumed' = [l \in Trades |-> [consumed[l] EXCEPT ![e] = trader[s].taken[l]]]
        /\ TradeEnded(s)

-----------------------------------------------------------------------------
\* Lots that reversing an entry writes: the one a buy opened, or those a sale took.
WrittenBy(e) ==
    IF journal[e].kind = "buy" THEN {e} ELSE {l \in Trades : consumed[l][e] > 0}

\* reverseEntry: the entry is locked and found posted.
BeginReverse(s, e) ==
    /\ trader[s] = NoTrade
    /\ journal[e].status = "posted"
    /\ journal[e].kind \in Reversible
    /\ entryLock[e] = Null
    /\ entryLock' = [entryLock EXCEPT ![e] = s]
    /\ trader' = [trader EXCEPT ![s] = Trading("reversing", e, journal[e].place, 0, 0, WrittenBy(e))]
    /\ UNCHANGED <<rows, accountLock, lotLock, raced>>

\* Mutant of ReadLot: a buy is reversed whether or not its units were sold.
ReadLotUnjudged(s, l) ==
    LET e == trader[s].entry
    IN  /\ trader[s].pc = "reversing"
        /\ trader[s].lot = Null
        /\ l \in trader[s].todo
        /\ trader' = [trader EXCEPT ![s] =
                        [@ EXCEPT !.lot = l, !.todo = trader[s].todo \ {l},
                                  !.value = IF journal[e].kind = "buy" THEN 0
                                            ELSE lot[l].remaining + consumed[l][e]]]
        /\ raced' = raced \cup Overtaken(s, {l})
        /\ UNCHANGED <<rows, accountLock, lotLock, entryLock>>

\* A lot is read without a lock.  A buy whose units were sold is not reversed; a
\* sale's units come back.
ReadLot(s, l) ==
    LET e == trader[s].entry
        sold == lot[l].remaining < lot[l].opened
        restored == lot[l].remaining + consumed[l][e]
    IN  /\ trader[s].pc = "reversing"
        /\ trader[s].lot = Null
        /\ l \in trader[s].todo
        /\ \/ /\ journal[e].kind = "buy" /\ sold
              /\ TradeAborted(s)
           \/ /\ journal[e].kind = "buy" => ~sold
              /\ trader' = [trader EXCEPT ![s] =
                              [@ EXCEPT !.lot = l, !.todo = trader[s].todo \ {l},
                                        !.value = IF journal[e].kind = "buy" THEN 0 ELSE restored]]
              /\ raced' = raced \cup Overtaken(s, {l})
              /\ UNCHANGED <<rows, accountLock, lotLock, entryLock>>

\* UPDATE lots SET qty_remaining: waits for the row, then writes the planned value.
WriteLot(s) ==
    LET l == trader[s].lot
    IN  /\ l # Null
        /\ lotLock[l] \in {Null, s}
        /\ lotLock' = [lotLock EXCEPT ![l] = s]
        /\ trader' = [trader EXCEPT ![s] = [@ EXCEPT !.written[l] = trader[s].value, !.lot = Null]]
        /\ UNCHANGED <<rows, accountLock, entryLock, raced>>

\* Mutant of CommitReverse: the consumptions of the sale are kept.
CommitReverseKeepingConsumptions(s) ==
    LET e == trader[s].entry
    IN  /\ trader[s].pc = "reversing"
        /\ trader[s].todo = {} /\ trader[s].lot = Null
        /\ accountLock[trader[s].place] = Null
        /\ journal' = [journal EXCEPT ![e].status = "void"]
        /\ lot' = WithWritesOf(s)
        /\ UNCHANGED consumed
        /\ TradeEnded(s)

\* The consumptions are deleted, the mirror is posted (which needs the account of the place)
\* and the entry is void.
CommitReverse(s) ==
    LET e == trader[s].entry
    IN  /\ trader[s].pc = "reversing"
        /\ trader[s].todo = {} /\ trader[s].lot = Null
        /\ accountLock[trader[s].place] = Null
        /\ journal' = [journal EXCEPT ![e].status = "void"]
        /\ lot' = WithWritesOf(s)
        /\ consumed' = [l \in Trades |-> [consumed[l] EXCEPT ![e] = 0]]
        /\ TradeEnded(s)

-----------------------------------------------------------------------------
(* Failure *)

RollbackTrade(s) == trader[s] # NoTrade /\ TradeAborted(s)

\* Sessions that the next statement of s waits for.
WaitsFor(s) ==
    LET of == trader[s]
        holders == CASE of.pc = "previewed" -> {accountLock[of.place]}
                     [] of.pc = "locking" -> {lotLock[l] : l \in of.locked}
                     [] of.pc = "allocated" -> {lotLock[l] : l \in TakenLots(s)}
                     [] of.pc = "reversing" /\ of.lot # Null -> {lotLock[of.lot]}
                     [] of.pc = "reversing" /\ of.lot = Null /\ of.todo = {} -> {accountLock[of.place]}
                     [] OTHER -> {}
    IN  holders \ {Null, s}

\* The sessions that s waits for, directly or through others.
Blockers(s) ==
    LET reach[n \in 0 .. Cardinality(Traders)] ==
            IF n = 0 THEN WaitsFor(s)
            ELSE reach[n - 1] \cup UNION {WaitsFor(t) : t \in reach[n - 1]}
    IN  reach[Cardinality(Traders)]

\* PostgreSQL finds a circle and rolls one of its members back.
BreakDeadlock(s) == s \in Blockers(s) /\ TradeAborted(s)

-----------------------------------------------------------------------------
BeginTrade(s) ==
    \/ \E e \in Trades, p \in Places :
          \/ \E qty \in Bought, unitCost \in UnitCosts : Buy(s, e, p, qty, unitCost)
          \/ \E qty \in Sold : PreviewSell(s, e, p, qty)
    \/ \E e \in Trades : BeginReverse(s, e)

ContinueTrade(s) ==
    \/ LockAccount(s)
    \/ FindLots(s)
    \/ LockLots(s)
    \/ Allocate(s)
    \/ CommitSell(s)
    \/ \E l \in Trades : ReadLot(s, l)
    \/ WriteLot(s)
    \/ CommitReverse(s)

LotsNext == \E s \in Traders : BeginTrade(s) \/ ContinueTrade(s) \/ BreakDeadlock(s) \/ RollbackTrade(s)

\* A request that has begun is carried on by the server, PostgreSQL hands a lock
\* to its waiters in turn, and finds a deadlock after deadlock_timeout.
LotsFairness ==
    /\ \A s \in Traders : SF_lotsVars(ContinueTrade(s))
    /\ WF_lotsVars(\E s \in Traders : BreakDeadlock(s))

LotsSpec == LotsInit /\ [][LotsNext]_lotsVars /\ LotsFairness

-----------------------------------------------------------------------------
(* Properties *)

ConsumedOf(l) == SumFunction(consumed[l])

\* Every unit of a live buy is either still open or taken by a sale, and a
\* reversed buy leaves nothing to sell and nothing sold ("opened = remaining +
\* consumed, per lot", integrity/service.ts:56, for the lots whose buy is live).
Conserved(l) ==
    /\ journal[l].status = "posted" => lot[l].opened = lot[l].remaining + ConsumedOf(l)
    /\ journal[l].status = "void" => lot[l].remaining = 0 /\ ConsumedOf(l) = 0

LotsConserved == \A l \in Trades : Conserved(l)

\* No update of a lot is lost, whatever buys, sales and reversals overlap, at one place
\* or at several, and whatever is rolled back: but for a lot that two sessions had to
\* write at once when one of them had read it without a lock.  The FOR UPDATE of a
\* sale protects every lot it found.
TradesConserve == \A l \in Trades \ raced : Conserved(l)

\* What a live sale took from the lots is what it sold, and a reversed one took
\* nothing.
SalesMatched ==
    \A e \in Trades :
        journal[e].kind = "sell" =>
            SumFunction([l \in Trades |-> consumed[l][e]])
                = (IF journal[e].status = "posted" THEN journal[e].qty ELSE 0)

BookAt(p) == SumFunction([e \in PostedAt(p) |-> journal[e].book])

\* The accounts of all places together hold what the open lots cost, so that selling
\* the whole position returns them to exactly zero (service.ts:911-918): together, not
\* each of them.
BookEqualsLots ==
    SumFunction([p \in Places |-> BookAt(p)]) = CostOf(Remaining)

\* First in, first out: a sale that takes a lot leaves nothing in an older one bought
\* at its own place, whatever was bought, sold, backdated or reversed between its
\* preview and its commit; unless a sale of another place was reversed, or that lot
\* has raced.
FirstInFirstOut ==
    [][\A e, l \in Trades :
          /\ journal[e].status = "free" /\ journal'[e].status = "posted"
          /\ consumed'[l][e] > 0
          /\ \A v \in Trades :
                journal'[v].kind = "sell" /\ journal'[v].status = "void" =>
                    journal'[v].place = journal'[e].place
          => \A k \in Older(l) \ raced' :
                journal'[k].place = journal'[e].place => lot'[k].remaining = 0]_lotsVars

\* Every request that has begun is answered.
RequestsEnd ==
    \A s \in Traders : trader[s].pc # "idle" ~> trader[s].pc = "idle"

-----------------------------------------------------------------------------
(* What a comment or a test of the source says, and a run shows it does not keep: *)
(* see "Divergences" in the README.                                              *)

\* "opened = remaining + consumed, per lot" (integrity/service.ts:56): the query
\* that reports a lot as inconsistent, which looks at every lot.
FifoCheckPasses == \A l \in Trades : lot[l].opened = lot[l].remaining + ConsumedOf(l)

\* "Selling the position in full therefore returns the asset account to exactly zero"
\* (service.ts:911-918), of the account of one place.
SoldOutIsZero == \A p \in Places : Held(p) = 0 => BookAt(p) = 0

\* "Selling more than is held would leave a negative position" (actions.ts:1637).
NoShortPosition == \A p \in Places : Held(p) >= 0
=============================================================================
