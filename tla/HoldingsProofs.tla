--------------------------- MODULE HoldingsProofs ---------------------------
(***************************************************************************)
(* What is held on accounts and in lots: both are sums over the entries.   *)
(*                                                                         *)
(* That wallets and accounts match (WalletsMatch), that a deletion takes   *)
(* nothing out of the books (DeletionKeepsBooks) and that an adjustment    *)
(* reaches the reported balance (ReportedReached), for any accounts,       *)
(* names, currencies, rates, entries and reports.                          *)
(*                                                                         *)
(* A wallet is found or made when an account is registered and judged      *)
(* empty when one is deleted.  What the invariant adds to WalletsMatch is  *)
(* that an id no account has been registered under has no wallet either,   *)
(* so that the wallet made with a new account is new.  The books need that *)
(* the key of a checkpoint is on an entry only once it is resolved, and    *)
(* what the sum of a finite set of entries is (no balance is stored), as   *)
(* the types do: an adjustment posts a difference of sums.                 *)
(*                                                                         *)
(* That a sale takes what it sells (SalesMatched), that no update of a lot *)
(* is lost (TradesConserve) and that the oldest lot goes first             *)
(* (FirstInFirstOut), for any trades, places and number of concurrent      *)
(* requests, backdated buys and reversals among them, with the exceptions  *)
(* that the properties name.  A lot that two sessions have to write is     *)
(* held by the one that found it FOR UPDATE, so that it is still as that   *)
(* session read it when it commits, unless the other read it unlocked.     *)
(***************************************************************************)
EXTENDS Accounts, Lots, FiniteSetTheorems, TLAPS

\* The rows have their columns: no more is needed of an account's code.
RowsSound ==
    /\ account = [a \in Accounts |->
          [status |-> account[a].status, code |-> account[a].code,
           currency |-> account[a].currency, wallet |-> account[a].wallet]]
    /\ \A a \in Accounts : account[a].status \in {"none", "live", "hidden", "gone"}
    /\ \A a \in Accounts : account[a].status # "none" => account[a].wallet \in Accounts \cup {None}
    /\ wallet \in [Accounts -> WalletRows]

\* A wallet is made together with the account of its id.
MadeTogether == \A a \in Accounts : account[a].status = "none" => wallet[a].status = "none"

AccountsInv == RowsSound /\ MadeTogether /\ WalletsMatch

-----------------------------------------------------------------------------
\* The accounts the set-up opens are in no wallet or in one of their own.
LEMMA InitSound == Init => AccountsInv
<1> SUFFICES ASSUME Init PROVE AccountsInv
  OBVIOUS
<1> USE AccountsAssumption
<1>1. PICK toman \in Currencies :
          /\ account = [a \in Accounts |->
                IF a \in Setup
                THEN [status |-> "live", code |-> 0, currency |-> toman,
                      wallet |-> IF SetupPlace[a] = None THEN None ELSE a]
                ELSE [status |-> "none", code |-> 0, currency |-> None, wallet |-> None]]
          /\ wallet = [a \in Accounts |->
                IF a \in Setup /\ SetupPlace[a] # None
                THEN [status |-> "live", name |-> SetupPlace[a]]
                ELSE [status |-> "none", name |-> None]]
  BY DEF Init
<1>2. \A a \in Accounts :
          /\ account[a].status = IF a \in Setup THEN "live" ELSE "none"
          /\ account[a].wallet = IF a \in Setup /\ SetupPlace[a] # None THEN a ELSE None
          /\ wallet[a].status = IF a \in Setup /\ SetupPlace[a] # None THEN "live" ELSE "none"
  BY <1>1
<1>3. RowsSound
  BY <1>1, <1>2 DEF RowsSound, WalletRows
<1>4. MadeTogether
  BY <1>2 DEF MadeTogether
<1>5. WalletsMatch
  BY <1>2 DEF WalletsMatch, Live
<1> QED
  BY <1>3, <1>4, <1>5 DEF AccountsInv

\* What registering an account in the wallet w writes in its row.
LEMMA OpenedRow ==
    ASSUME AccountsInv, NEW a \in Accounts, NEW currency \in Currencies, NEW w \in Accounts,
           account' = Opened(a, currency, w)
    PROVE  /\ account'[a].status = "live" /\ account'[a].currency = currency /\ account'[a].wallet = w
           /\ \A b \in Accounts \ {a} : account'[b] = account[b]
           /\ account' = [b \in Accounts |->
                 [status |-> account'[b].status, code |-> account'[b].code,
                  currency |-> account'[b].currency, wallet |-> account'[b].wallet]]
           /\ \A b \in Accounts : account'[b].status \in {"none", "live", "hidden", "gone"}
           /\ \A b \in Accounts : account'[b].status # "none" => account'[b].wallet \in Accounts \cup {None}
<1>1. DOMAIN account = Accounts
  BY DEF AccountsInv, RowsSound
<1>2. account' = [account EXCEPT ![a] =
          [status |-> "live", code |-> NextCode, currency |-> currency, wallet |-> w]]
  BY DEF Opened
<1>3. /\ account'[a] = [status |-> "live", code |-> NextCode, currency |-> currency, wallet |-> w]
      /\ \A b \in Accounts \ {a} : account'[b] = account[b]
  BY <1>1, <1>2
<1>4. \A b \in Accounts :
          account'[b] = [status |-> account'[b].status, code |-> account'[b].code,
                         currency |-> account'[b].currency, wallet |-> account'[b].wallet]
  BY <1>3 DEF AccountsInv, RowsSound
<1>5. account' = [b \in Accounts |->
          [status |-> account'[b].status, code |-> account'[b].code,
           currency |-> account'[b].currency, wallet |-> account'[b].wallet]]
  BY <1>1, <1>2, <1>4
<1>6. ASSUME NEW b \in Accounts
      PROVE  /\ account'[b].status \in {"none", "live", "hidden", "gone"}
             /\ account'[b].status # "none" => account'[b].wallet \in Accounts \cup {None}
  <2>1. CASE b = a
    BY <1>3, <2>1
  <2>2. CASE b # a
    <3>1. /\ account[b].status \in {"none", "live", "hidden", "gone"}
          /\ account[b].status # "none" => account[b].wallet \in Accounts \cup {None}
      BY DEF AccountsInv, RowsSound
    <3>2. account'[b] = account[b]
      BY <1>3, <2>2
    <3> QED
      BY <3>1, <3>2
  <2> QED
    BY <2>1, <2>2
<1> QED
  BY <1>3, <1>5, <1>6

\* Registering an account in a wallet made for it: no live account can be in that wallet.
LEMMA InNewWalletSound ==
    ASSUME AccountsInv, NEW a \in Accounts, NEW name \in Names, NEW currency \in Currencies,
           account[a].status = "none", InNewWallet(a, name, currency)
    PROVE  AccountsInv'
<1> USE AccountsAssumption
<1>1. /\ account' = Opened(a, currency, a)
      /\ wallet' = [wallet EXCEPT ![a] = [status |-> "live", name |-> name]]
  BY DEF InNewWallet
<1>2. /\ wallet'[a].status = "live"
      /\ \A v \in Accounts \ {a} : wallet'[v] = wallet[v]
      /\ wallet' \in [Accounts -> WalletRows]
  BY <1>1 DEF AccountsInv, RowsSound, WalletRows
<1>3. /\ account'[a].status = "live" /\ account'[a].wallet = a
      /\ \A b \in Accounts \ {a} : account'[b] = account[b]
  BY <1>1, OpenedRow
<1>4. \A b \in Accounts : Live(b) => account[b].wallet \in (Accounts \ {a}) \cup {None}
  <2>1. \A b \in Accounts : Live(b) => account[b].wallet \in Accounts \cup {None}
    BY DEF AccountsInv, RowsSound, Live
  <2>2. \A b \in Accounts : Live(b) => account[b].wallet # a
    BY DEF AccountsInv, MadeTogether, WalletsMatch
  <2> QED
    BY <2>1, <2>2
<1>5. RowsSound'
  BY <1>1, <1>2, OpenedRow DEF RowsSound
<1>6. MadeTogether'
  BY <1>2, <1>3 DEF AccountsInv, MadeTogether
<1>7. WalletsMatch'
  <2>1. \A b \in Accounts :
            Live(b)' /\ account'[b].wallet # None => wallet'[account'[b].wallet].status = "live"
    BY <1>2, <1>3, <1>4 DEF AccountsInv, WalletsMatch, Live
  <2>2. \A b, c \in Accounts :
            /\ Live(b)' /\ Live(c)' /\ account'[b].wallet # None
            /\ account'[b].wallet = account'[c].wallet
            /\ account'[b].currency = account'[c].currency
            => b = c
    BY <1>3, <1>4 DEF AccountsInv, WalletsMatch, Live
  <2> QED
    BY <2>1, <2>2 DEF WalletsMatch
<1> QED
  BY <1>5, <1>6, <1>7 DEF AccountsInv

\* Registering an account in a wallet that the place has.
LEMMA InKnownWalletSound ==
    ASSUME AccountsInv, NEW a \in Accounts, NEW place \in Names, NEW currency \in Currencies,
           account[a].status = "none", InKnownWallet(a, place, currency)
    PROVE  AccountsInv'
<1>1. PICK w \in Accounts :
          /\ wallet[w].status = "live"
          /\ ~Taken(w, currency)
          /\ account' = Opened(a, currency, w)
          /\ wallet' = wallet
  BY DEF InKnownWallet, LiveWallets
<1>2. /\ account'[a].status = "live" /\ account'[a].currency = currency /\ account'[a].wallet = w
      /\ \A b \in Accounts \ {a} : account'[b] = account[b]
  BY <1>1, OpenedRow
<1>3. RowsSound'
  <2>1. wallet' \in [Accounts -> WalletRows]
    BY <1>1 DEF AccountsInv, RowsSound
  <2> QED
    BY <1>1, <2>1, OpenedRow DEF RowsSound
<1>4. MadeTogether'
  BY <1>1, <1>2 DEF AccountsInv, MadeTogether
<1>5. WalletsMatch'
  BY <1>1, <1>2 DEF AccountsInv, WalletsMatch, Live, Taken
<1> QED
  BY <1>3, <1>4, <1>5 DEF AccountsInv

\* What taking an account out of use writes in its row.
LEMMA RetiredRow ==
    ASSUME AccountsInv, NEW a \in Accounts, NEW status \in {"hidden", "gone"},
           account' = [account EXCEPT ![a].status = status],
           account[a].status # "none"
    PROVE  /\ account'[a].status = status
           /\ \A b \in Accounts \ {a} : account'[b] = account[b]
           /\ account' = [b \in Accounts |->
                 [status |-> account'[b].status, code |-> account'[b].code,
                  currency |-> account'[b].currency, wallet |-> account'[b].wallet]]
           /\ \A b \in Accounts : account'[b].status \in {"none", "live", "hidden", "gone"}
           /\ \A b \in Accounts : account'[b].status # "none" => account'[b].wallet \in Accounts \cup {None}
<1>1. DOMAIN account = Accounts /\ DOMAIN account[a] = {"status", "code", "currency", "wallet"}
  BY DEF AccountsInv, RowsSound
<1>2. /\ account'[a].status = status /\ account'[a].wallet = account[a].wallet
      /\ account'[a].code = account[a].code /\ account'[a].currency = account[a].currency
      /\ \A b \in Accounts \ {a} : account'[b] = account[b]
  <2> DEFINE retired == [account[a] EXCEPT !.status = status]
  <2>1. /\ retired.status = status /\ retired.wallet = account[a].wallet
        /\ retired.code = account[a].code /\ retired.currency = account[a].currency
    BY <1>1
  <2>2. account' = [account EXCEPT ![a] = retired]
    OBVIOUS
  <2> HIDE DEF retired
  <2>3. account'[a] = retired /\ \A b \in Accounts \ {a} : account'[b] = account[b]
    BY <1>1, <2>2, Zenon
  <2> QED
    BY <2>1, <2>3
<1>3. account' = [b \in Accounts |->
          [status |-> account'[b].status, code |-> account'[b].code,
           currency |-> account'[b].currency, wallet |-> account'[b].wallet]]
  <2> DEFINE row(b) == [status |-> account[b].status, code |-> account[b].code,
                        currency |-> account[b].currency, wallet |-> account[b].wallet]
             written(b) == [status |-> account'[b].status, code |-> account'[b].code,
                            currency |-> account'[b].currency, wallet |-> account'[b].wallet]
  <2>1. account = [b \in Accounts |-> row(b)]
    BY DEF AccountsInv, RowsSound
  <2>2. \A b \in Accounts : account[b] = row(b)
    BY <2>1
  <2>3. account' = [b \in Accounts |-> account'[b]]
    BY <1>1
  <2>4. account'[a] = [row(a) EXCEPT !.status = status]
    <3> HIDE DEF row
    <3> QED
      BY <1>1, <2>2
  <2>5. account'[a] = written(a)
    BY <1>2, <2>4
  <2>6. \A b \in Accounts \ {a} : account'[b] = written(b)
    BY <1>2, <2>2
  <2>7. \A b \in Accounts : account'[b] = written(b)
    BY <2>5, <2>6
  <2> HIDE DEF row, written
  <2>8. account' = [b \in Accounts |-> written(b)]
    BY <2>3, <2>7
  <2> QED
    BY <2>8 DEF written
<1>4. \A b \in Accounts : account'[b].status \in {"none", "live", "hidden", "gone"}
  BY <1>2 DEF AccountsInv, RowsSound
<1>5. \A b \in Accounts : account'[b].status # "none" => account'[b].wallet \in Accounts \cup {None}
  BY <1>2 DEF AccountsInv, RowsSound
<1> QED
  BY <1>2, <1>3, <1>4, <1>5

\* deleteMoneyAccount: the wallet goes only if no other live account is in it.
LEMMA DeleteSound ==
    ASSUME AccountsInv, NEW a \in Accounts, Delete(a)
    PROVE  AccountsInv'
<1> USE AccountsAssumption
<1> DEFINE w == account[a].wallet
<1>1. /\ Live(a) /\ account[a].status # "none"
      /\ account' = [account EXCEPT ![a].status = "hidden"]
      /\ wallet' = IF WalletEmptied(a) THEN [wallet EXCEPT ![w].status = "hidden"] ELSE wallet
  BY DEF Delete, Live
<1>2. /\ account'[a].status = "hidden"
      /\ \A b \in Accounts \ {a} : account'[b] = account[b]
  BY <1>1, RetiredRow
<1>3. CASE WalletEmptied(a)
  <2>1. /\ w \in Accounts
        /\ \A b \in Accounts \ {a} : Live(b) => account[b].wallet # w
    BY <1>1, <1>3 DEF AccountsInv, RowsSound, WalletEmptied
  <2>2. /\ \A v \in Accounts \ {w} : wallet'[v] = wallet[v]
        /\ wallet' \in [Accounts -> WalletRows]
    <3> DEFINE gone == [wallet[w] EXCEPT !.status = "hidden"]
    <3>1. wallet \in [Accounts -> WalletRows]
      BY DEF AccountsInv, RowsSound
    <3>2. gone \in WalletRows
      BY <2>1, <3>1 DEF WalletRows
    <3>3. wallet' = [wallet EXCEPT ![w] = gone]
      BY <1>1, <1>3
    <3> HIDE DEF gone, w
    <3> QED
      BY <2>1, <3>1, <3>2, <3>3
  <2>3. wallet[w].status = "live"
    BY <1>1, <2>1 DEF AccountsInv, WalletsMatch
  <2> HIDE DEF w
  <2>4. RowsSound'
    BY <1>1, <2>2, RetiredRow DEF RowsSound
  <2>5. MadeTogether'
    BY <1>2, <2>1, <2>2, <2>3 DEF AccountsInv, MadeTogether
  <2>6. WalletsMatch'
    <3>1. \A b \in Accounts : Live(b)' => /\ b # a /\ Live(b) /\ account'[b] = account[b]
                                         /\ account[b].wallet \in (Accounts \ {w}) \cup {None}
      BY <1>2, <2>1 DEF AccountsInv, RowsSound, Live
    <3>2. \A b \in Accounts :
              Live(b)' /\ account'[b].wallet # None => wallet'[account'[b].wallet].status = "live"
      BY <2>2, <3>1 DEF AccountsInv, WalletsMatch
    <3>3. \A b, c \in Accounts :
              /\ Live(b)' /\ Live(c)' /\ account'[b].wallet # None
              /\ account'[b].wallet = account'[c].wallet
              /\ account'[b].currency = account'[c].currency
              => b = c
      BY <3>1 DEF AccountsInv, WalletsMatch
    <3> QED
      BY <3>2, <3>3 DEF WalletsMatch
  <2> QED
    BY <2>4, <2>5, <2>6 DEF AccountsInv
<1>4. CASE ~WalletEmptied(a)
  <2>1. wallet' = wallet /\ wallet' \in [Accounts -> WalletRows]
    BY <1>1, <1>4 DEF AccountsInv, RowsSound
  <2>2. RowsSound'
    BY <1>1, <2>1, RetiredRow DEF RowsSound
  <2>3. MadeTogether'
    BY <1>2, <2>1 DEF AccountsInv, MadeTogether
  <2>4. WalletsMatch'
    BY <1>2, <2>1 DEF AccountsInv, WalletsMatch, Live
  <2> QED
    BY <2>2, <2>3, <2>4 DEF AccountsInv
<1> QED
  BY <1>3, <1>4

\* The API's door leaves the wallet as it is.
LEMMA DeleteByApiSound ==
    ASSUME AccountsInv, NEW a \in Accounts, DeleteByApi(a)
    PROVE  AccountsInv'
<1>1. PICK status \in {"hidden", "gone"} : account' = [account EXCEPT ![a].status = status]
  BY DEF DeleteByApi
<1>2. account[a].status # "none" /\ wallet' = wallet
  BY DEF DeleteByApi
<1>3. /\ account'[a].status = status
      /\ \A b \in Accounts \ {a} : account'[b] = account[b]
  BY <1>1, <1>2, RetiredRow
<1>4. RowsSound'
  <2>1. wallet' \in [Accounts -> WalletRows]
    BY <1>2 DEF AccountsInv, RowsSound
  <2> QED
    BY <1>1, <1>2, <2>1, RetiredRow DEF RowsSound
<1>5. MadeTogether'
  BY <1>2, <1>3 DEF AccountsInv, MadeTogether
<1>6. WalletsMatch'
  BY <1>2, <1>3 DEF AccountsInv, WalletsMatch, Live
<1> QED
  BY <1>4, <1>5, <1>6 DEF AccountsInv

-----------------------------------------------------------------------------
LEMMA SpecAccounts == Spec => []AccountsInv
<1>1. AccountsInv /\ [Next]_vars => AccountsInv'
  <2> SUFFICES ASSUME AccountsInv, [Next]_vars PROVE AccountsInv'
    OBVIOUS
  <2>1. ASSUME NEW a \in Accounts, NEW name \in Names, NEW currency \in Currencies,
               NEW opening \in Amounts \cup {0}, Register(a, name, currency, opening)
        PROVE  AccountsInv'
    BY <2>1, InNewWalletSound, InKnownWalletSound DEF Register
  <2>2. ASSUME NEW a \in Accounts, Delete(a) PROVE AccountsInv'
    BY <2>2, DeleteSound
  <2>3. ASSUME UNCHANGED <<account, wallet>> PROVE AccountsInv'
    <3>1. account' = account /\ wallet' = wallet
      BY <2>3
    <3>2. RowsSound'
      BY <3>1 DEF AccountsInv, RowsSound
    <3>3. MadeTogether'
      BY <3>1 DEF AccountsInv, MadeTogether
    <3>4. WalletsMatch'
      BY <3>1 DEF AccountsInv, WalletsMatch, Live
    <3> QED
      BY <3>2, <3>3, <3>4 DEF AccountsInv
  <2>4. ASSUME NEW c \in Checkpoints, NEW report \in Reports, RecordCheckpoint(c, report)
        PROVE  AccountsInv'
    BY <2>3, <2>4 DEF RecordCheckpoint
  <2>5. ASSUME NEW a \in Accounts, LinkTo(a) PROVE AccountsInv'
    BY <2>3, <2>5 DEF LinkTo
  <2>6. ASSUME NEW s \in Sessions, NEW c \in Checkpoints, BeginAdjust(s, c) PROVE AccountsInv'
    BY <2>3, <2>6 DEF BeginAdjust
  <2>7. ASSUME NEW s \in Sessions, CommitAdjust(s) PROVE AccountsInv'
    BY <2>3, <2>7 DEF CommitAdjust
  <2>8. ASSUME NEW s \in Sessions, Rollback(s) PROVE AccountsInv'
    BY <2>3, <2>8 DEF Rollback
  <2>9. ASSUME NEW from \in Accounts \cup {None}, NEW to \in Accounts \cup {None},
               NEW amount \in Amounts, NEW day \in Days, Transact(from, to, amount, day)
        PROVE  AccountsInv'
    BY <2>3, <2>9 DEF Transact
  <2>10. ASSUME NEW e \in Entries, Reverse(e) PROVE AccountsInv'
    BY <2>3, <2>10 DEF Reverse
  <2>11. ASSUME NEW a \in Accounts, DeleteByApi(a) PROVE AccountsInv'
    BY <2>11, DeleteByApiSound
  <2>12. CASE UNCHANGED vars
    BY <2>3, <2>12 DEF vars
  <2> QED
    BY <2>1, <2>2, <2>4, <2>5, <2>6, <2>7, <2>8, <2>9, <2>10, <2>11, <2>12 DEF Next
<1> QED
  BY InitSound, <1>1, PTL DEF Spec

\* No live account is in a deleted wallet, and a wallet has one live account of a currency:
\* the look-up and the check in registerMoneyAccount, and walletBecomesEmpty in
\* deleteMoneyAccount, whatever the API's door deletes.
THEOREM AccountsWalletsMatch == Spec => []WalletsMatch
<1>1. AccountsInv => WalletsMatch
  BY DEF AccountsInv
<1> QED
  BY <1>1, SpecAccounts, PTL

-----------------------------------------------------------------------------
(* Sums over finite sets.  The library's induction theorems take an operator; a    *)
(* minimal counterexample (WFMin) does without.                                     *)

\* Induction over the subsets of a finite set.
LEMMA SubsetInduction ==
  ASSUME NEW S, IsFiniteSet(S), NEW Good,
         \A T \in SUBSET S : (\A U \in SUBSET T : U # T => U \in Good) => T \in Good
  PROVE  SUBSET S \subseteq Good
<1> DEFINE Bad == {T \in SUBSET S : T \notin Good}
<1> SUFFICES ASSUME Bad # {} PROVE FALSE
  OBVIOUS
<1>1. IsWellFoundedOn(StrictSubsetOrdering(S), SUBSET S)
  <2>1. IsWellFoundedOn(StrictSubsetOrdering(S), FiniteSubsetsOf(S))
    BY FS_StrictSubsetOrderingWellFounded
  <2>2. FiniteSubsetsOf(S) = SUBSET S
    BY FS_FiniteSubsetsOfFinite
  <2> QED
    BY <2>1, <2>2
<1>2. Bad \subseteq SUBSET S
  OBVIOUS
<1>3. PICK T \in Bad : \A U \in Bad : <<U, T>> \notin StrictSubsetOrdering(S)
  <2> HIDE DEF Bad
  <2> QED
    BY <1>1, <1>2, WFMin
<1>4. ASSUME NEW U \in SUBSET T, U # T PROVE U \in Good
  BY <1>3, <1>4 DEF StrictSubsetOrdering
<1> QED
  BY <1>3, <1>4

\* The function by which SumFunctionOnSet is defined.
IsSum(g, f, S) ==
    g = [s \in SUBSET S |->
            IF s = {} THEN 0 ELSE LET x == CHOOSE x \in s : TRUE IN f[x] + g[s \ {x}]]

LEMMA SumIsFold ==
  ASSUME NEW f, NEW S
  PROVE  SumFunctionOnSet(f, S) = (CHOOSE g : IsSum(g, f, S))[S]
BY DEF SumFunctionOnSet, FoldFunctionOnSet, MapThenFoldSet, IsSum

\* Two such functions agree on the sets both are defined on.
LEMMA SumIsUnique ==
  ASSUME NEW f, NEW S, IsFiniteSet(S), NEW T, NEW g, IsSum(g, f, S), NEW h, IsSum(h, f, T)
  PROVE  \A U \in SUBSET S : U \subseteq T => g[U] = h[U]
<1> DEFINE Good == {U \in SUBSET S : U \subseteq T => g[U] = h[U]}
<1>1. ASSUME NEW U \in SUBSET S, \A V \in SUBSET U : V # U => V \in Good, U \subseteq T
      PROVE  g[U] = h[U]
  <2>1. CASE U = {}
    BY <2>1, <1>1 DEF IsSum
  <2>2. CASE U # {}
    <3> DEFINE x == CHOOSE x \in U : TRUE
    <3>1. x \in U
      BY <2>2
    <3>2. g[U] = f[x] + g[U \ {x}] /\ h[U] = f[x] + h[U \ {x}]
      BY <2>2, <1>1 DEF IsSum
    <3> HIDE DEF x
    <3>3. g[U \ {x}] = h[U \ {x}]
      BY <3>1, <1>1
    <3> QED
      BY <3>2, <3>3
  <2> QED
    BY <2>1, <2>2
<1>2. \A U \in SUBSET S : (\A V \in SUBSET U : V # U => V \in Good) => U \in Good
  BY <1>1
<1>3. SUBSET S \subseteq Good
  <2> HIDE DEF Good
  <2> QED
    BY <1>2, SubsetInduction
<1> QED
  BY <1>3

\* It exists on every finite set.
LEMMA SumExists ==
  ASSUME NEW f, NEW S, IsFiniteSet(S)
  PROVE  \E g : IsSum(g, f, S)
<1> DEFINE Good == {U \in SUBSET S : \E g : IsSum(g, f, U)}
           val(W) == (CHOOSE g : IsSum(g, f, W))[W]
<1>1. ASSUME NEW U \in SUBSET S, \A V \in SUBSET U : V # U => V \in Good
      PROVE  \E g : IsSum(g, f, U)
  <2>0. IsFiniteSet(U)
    BY FS_Subset
  <2> DEFINE k == [V \in SUBSET U |->
                      IF V = {} THEN 0 ELSE LET x == CHOOSE x \in V : TRUE IN f[x] + val(V \ {x})]
  <2>1. ASSUME NEW W \in SUBSET U, W # U
        PROVE  k[W] = val(W)
    <3> DEFINE g == CHOOSE g : IsSum(g, f, W)
    <3>1. IsSum(g, f, W)
      BY <1>1, <2>1
    <3>2. CASE W = {}
      BY <3>1, <3>2 DEF IsSum
    <3>3. CASE W # {}
      <4> DEFINE x == CHOOSE x \in W : TRUE
      <4>1. x \in W
        BY <3>3
      <4>2. g[W] = f[x] + g[W \ {x}]
        <5> HIDE DEF g
        <5> QED
          BY <3>1, <3>3 DEF IsSum
      <4>3. k[W] = f[x] + val(W \ {x})
        <5> HIDE DEF val
        <5> QED
          BY <3>3
      <4> DEFINE h == CHOOSE h : IsSum(h, f, W \ {x})
      <4> HIDE DEF x
      <4>4. W \ {x} \in Good
        BY <4>1, <1>1
      <4>5. IsSum(h, f, W \ {x})
        BY <4>4
      <4>6. g[W \ {x}] = h[W \ {x}]
        <5> HIDE DEF g, h
        <5>1. IsFiniteSet(W)
          BY <2>0, FS_Subset
        <5> QED
          BY <5>1, <3>1, <4>5, SumIsUnique
      <4> QED
        BY <4>2, <4>3, <4>6
    <3> QED
      BY <3>2, <3>3
  <2>2. k = [V \in SUBSET U |->
                IF V = {} THEN 0 ELSE LET x == CHOOSE x \in V : TRUE IN f[x] + k[V \ {x}]]
    <3>1. ASSUME NEW V \in SUBSET U, V # {}
          PROVE  k[V \ {CHOOSE x \in V : TRUE}] = val(V \ {CHOOSE x \in V : TRUE})
      <4>1. (CHOOSE x \in V : TRUE) \in V
        BY <3>1
      <4> HIDE DEF k, val
      <4> QED
        BY <4>1, <2>1
    <3> HIDE DEF val
    <3>2. k = [V \in SUBSET U |-> k[V]]
      OBVIOUS
    <3>3. \A V \in SUBSET U : k[V] = IF V = {} THEN 0
                                     ELSE LET x == CHOOSE x \in V : TRUE IN f[x] + k[V \ {x}]
      <4>1. \A V \in SUBSET U : k[V] = IF V = {} THEN 0
                                       ELSE LET x == CHOOSE x \in V : TRUE IN f[x] + val(V \ {x})
        OBVIOUS
      <4> HIDE DEF k
      <4> QED
        BY <3>1, <4>1
    <3> HIDE DEF k
    <3> QED
      BY <3>2, <3>3
  <2> HIDE DEF k
  <2> QED
    BY <2>2 DEF IsSum
<1>2. \A U \in SUBSET S : (\A V \in SUBSET U : V # U => V \in Good) => U \in Good
  BY <1>1
<1>3. SUBSET S \subseteq Good
  <2> HIDE DEF Good
  <2> QED
    BY <1>2, SubsetInduction
<1> QED
  BY <1>3

LEMMA SumOfNone == ASSUME NEW f PROVE SumFunctionOnSet(f, {}) = 0
<1>1. IsFiniteSet({})
  BY FS_EmptySet
<1>2. PICK g : IsSum(g, f, {})
  BY <1>1, SumExists
<1> DEFINE h == CHOOSE h : IsSum(h, f, {})
<1>3. IsSum(h, f, {})
  BY <1>2
<1> HIDE DEF h
<1>4. h[{}] = 0
  BY <1>3 DEF IsSum
<1> QED
  BY <1>4, SumIsFold DEF h

\* Adding up a set begins with the element that CHOOSE picks.
LEMMA SumOfSome ==
  ASSUME NEW f, NEW S, IsFiniteSet(S), S # {}
  PROVE  LET x == CHOOSE x \in S : TRUE IN SumFunctionOnSet(f, S) = f[x] + SumFunctionOnSet(f, S \ {x})
<1> DEFINE x == CHOOSE x \in S : TRUE
           g == CHOOSE g : IsSum(g, f, S)
           h == CHOOSE h : IsSum(h, f, S \ {x})
<1>1. IsFiniteSet(S \ {x})
  BY FS_RemoveElement
<1>2. IsSum(g, f, S)
  BY SumExists
<1>3. IsSum(h, f, S \ {x})
  <2> HIDE DEF x
  <2> QED
    BY <1>1, SumExists
<1>4. SumFunctionOnSet(f, S) = g[S] /\ SumFunctionOnSet(f, S \ {x}) = h[S \ {x}]
  <2> HIDE DEF x
  <2> QED
    BY SumIsFold
<1> HIDE DEF g, h
<1>5. g[S] = f[x] + g[S \ {x}]
  BY <1>2 DEF IsSum
<1>6. g[S \ {x}] = h[S \ {x}]
  <2> HIDE DEF x
  <2>1. \A U \in SUBSET S : U \subseteq S \ {x} => g[U] = h[U]
    BY <1>2, <1>3, SumIsUnique
  <2>2. S \ {x} \in SUBSET S
    OBVIOUS
  <2> QED
    BY <2>1, <2>2
<1> QED
  BY <1>4, <1>5, <1>6

LEMMA SumIsInt ==
  ASSUME NEW f, NEW S, IsFiniteSet(S), \A x \in S : f[x] \in Int
  PROVE  SumFunctionOnSet(f, S) \in Int
<1> DEFINE Good == {U \in SUBSET S : SumFunctionOnSet(f, U) \in Int}
<1>1. ASSUME NEW U \in SUBSET S, \A V \in SUBSET U : V # U => V \in Good
      PROVE  SumFunctionOnSet(f, U) \in Int
  <2>1. CASE U = {}
    BY <2>1, SumOfNone
  <2>2. CASE U # {}
    <3> DEFINE x == CHOOSE x \in U : TRUE
    <3>1. x \in U /\ IsFiniteSet(U)
      BY <2>2, FS_Subset
    <3>2. SumFunctionOnSet(f, U) = f[x] + SumFunctionOnSet(f, U \ {x})
      BY <2>2, <3>1, SumOfSome
    <3> HIDE DEF x
    <3>3. SumFunctionOnSet(f, U \ {x}) \in Int
      BY <1>1, <3>1
    <3> QED
      BY <3>1, <3>2, <3>3
  <2> QED
    BY <2>1, <2>2
<1>2. \A U \in SUBSET S : (\A V \in SUBSET U : V # U => V \in Good) => U \in Good
  BY <1>1
<1>3. SUBSET S \subseteq Good
  <2> HIDE DEF Good
  <2> QED
    BY <1>2, SubsetInduction
<1> QED
  BY <1>3

\* The order does not matter: any element can be taken first.
LEMMA SumTakes ==
  ASSUME NEW f, NEW S, IsFiniteSet(S), \A x \in S : f[x] \in Int, NEW y \in S
  PROVE  SumFunctionOnSet(f, S) = f[y] + SumFunctionOnSet(f, S \ {y})
<1> DEFINE Good == {U \in SUBSET S : \A z \in U : SumFunctionOnSet(f, U) = f[z] + SumFunctionOnSet(f, U \ {z})}
<1>1. ASSUME NEW U \in SUBSET S, \A V \in SUBSET U : V # U => V \in Good, NEW z \in U
      PROVE  SumFunctionOnSet(f, U) = f[z] + SumFunctionOnSet(f, U \ {z})
  <2> DEFINE x == CHOOSE x \in U : TRUE
  <2>1. x \in U /\ IsFiniteSet(U) /\ U # {}
    BY FS_Subset
  <2>2. SumFunctionOnSet(f, U) = f[x] + SumFunctionOnSet(f, U \ {x})
    BY <2>1, SumOfSome
  <2> HIDE DEF x
  <2>3. CASE z = x
    BY <2>2, <2>3
  <2>4. CASE z # x
    <3>1. SumFunctionOnSet(f, U \ {x}) = f[z] + SumFunctionOnSet(f, (U \ {x}) \ {z})
      BY <1>1, <2>1, <2>4
    <3>2. SumFunctionOnSet(f, U \ {z}) = f[x] + SumFunctionOnSet(f, (U \ {z}) \ {x})
      BY <1>1, <2>1, <2>4
    <3>3. (U \ {x}) \ {z} = (U \ {z}) \ {x}
      OBVIOUS
    <3> DEFINE rest == SumFunctionOnSet(f, (U \ {z}) \ {x})
    <3>4. rest \in Int
      <4>1. IsFiniteSet((U \ {z}) \ {x})
        BY <2>1, FS_Subset
      <4> QED
        BY <4>1, SumIsInt
    <3>5. f[x] \in Int /\ f[z] \in Int
      BY <2>1
    <3>6. SumFunctionOnSet(f, U) = f[x] + (f[z] + rest) /\ SumFunctionOnSet(f, U \ {z}) = f[x] + rest
      BY <2>2, <3>1, <3>2, <3>3
    <3> HIDE DEF rest
    <3> QED
      BY <3>4, <3>5, <3>6
  <2> QED
    BY <2>3, <2>4
<1>2. \A U \in SUBSET S : (\A V \in SUBSET U : V # U => V \in Good) => U \in Good
  BY <1>1
<1>3. SUBSET S \subseteq Good
  <2> HIDE DEF Good
  <2> QED
    BY <1>2, SubsetInduction
<1> QED
  BY <1>3

\* Only the values on the set count.
LEMMA SumAgrees ==
  ASSUME NEW f, NEW h, NEW S, IsFiniteSet(S), \A x \in S : f[x] = h[x]
  PROVE  SumFunctionOnSet(f, S) = SumFunctionOnSet(h, S)
<1> DEFINE Good == {U \in SUBSET S : SumFunctionOnSet(f, U) = SumFunctionOnSet(h, U)}
<1>1. ASSUME NEW U \in SUBSET S, \A V \in SUBSET U : V # U => V \in Good
      PROVE  SumFunctionOnSet(f, U) = SumFunctionOnSet(h, U)
  <2>1. CASE U = {}
    BY <2>1, SumOfNone
  <2>2. CASE U # {}
    <3> DEFINE x == CHOOSE x \in U : TRUE
    <3>1. x \in U /\ IsFiniteSet(U)
      BY <2>2, FS_Subset
    <3>2. SumFunctionOnSet(f, U) = f[x] + SumFunctionOnSet(f, U \ {x}) /\ SumFunctionOnSet(h, U) = h[x] + SumFunctionOnSet(h, U \ {x})
      BY <2>2, <3>1, SumOfSome
    <3> HIDE DEF x
    <3>3. SumFunctionOnSet(f, U \ {x}) = SumFunctionOnSet(h, U \ {x})
      BY <1>1, <3>1
    <3> QED
      BY <3>1, <3>2, <3>3
  <2> QED
    BY <2>1, <2>2
<1>2. \A U \in SUBSET S : (\A V \in SUBSET U : V # U => V \in Good) => U \in Good
  BY <1>1
<1>3. SUBSET S \subseteq Good
  <2> HIDE DEF Good
  <2> QED
    BY <1>2, SubsetInduction
<1> QED
  BY <1>3

\* Two tables are added up together or each by itself.
LEMMA SumPlus ==
  ASSUME NEW f, NEW g, NEW h, NEW S, IsFiniteSet(S),
         \A x \in S : f[x] \in Int /\ g[x] \in Int /\ h[x] = f[x] + g[x]
  PROVE  SumFunctionOnSet(h, S) = SumFunctionOnSet(f, S) + SumFunctionOnSet(g, S)
<1> DEFINE Good == {U \in SUBSET S :
                      SumFunctionOnSet(h, U) = SumFunctionOnSet(f, U) + SumFunctionOnSet(g, U)}
<1>1. ASSUME NEW U \in SUBSET S, \A V \in SUBSET U : V # U => V \in Good
      PROVE  SumFunctionOnSet(h, U) = SumFunctionOnSet(f, U) + SumFunctionOnSet(g, U)
  <2>1. CASE U = {}
    BY <2>1, SumOfNone
  <2>2. CASE U # {}
    <3> DEFINE x == CHOOSE x \in U : TRUE
    <3>1. x \in U /\ IsFiniteSet(U)
      BY <2>2, FS_Subset
    <3>2. /\ SumFunctionOnSet(f, U) = f[x] + SumFunctionOnSet(f, U \ {x})
          /\ SumFunctionOnSet(g, U) = g[x] + SumFunctionOnSet(g, U \ {x})
          /\ SumFunctionOnSet(h, U) = h[x] + SumFunctionOnSet(h, U \ {x})
      BY <2>2, <3>1, SumOfSome
    <3> HIDE DEF x
    <3> DEFINE F == SumFunctionOnSet(f, U \ {x})
               G == SumFunctionOnSet(g, U \ {x})
    <3>3. SumFunctionOnSet(h, U \ {x}) = F + G
      BY <1>1, <3>1
    <3>4. F \in Int /\ G \in Int
      <4>1. IsFiniteSet(U \ {x})
        BY <3>1, FS_RemoveElement
      <4> QED
        BY <4>1, SumIsInt
    <3>5. f[x] \in Int /\ g[x] \in Int /\ h[x] = f[x] + g[x]
      BY <3>1
    <3> HIDE DEF F, G
    <3>6. SumFunctionOnSet(h, U) = (f[x] + F) + (g[x] + G)
      BY <3>2, <3>3, <3>4, <3>5 DEF F, G
    <3> QED
      BY <3>2, <3>6 DEF F, G
  <2> QED
    BY <2>1, <2>2
<1>2. \A U \in SUBSET S : (\A V \in SUBSET U : V # U => V \in Good) => U \in Good
  BY <1>1
<1>3. SUBSET S \subseteq Good
  <2> HIDE DEF Good
  <2> QED
    BY <1>2, SubsetInduction
<1> QED
  BY <1>3

LEMMA SumOfZeros ==
  ASSUME NEW f, NEW S, IsFiniteSet(S), \A x \in S : f[x] = 0
  PROVE  SumFunctionOnSet(f, S) = 0
<1> DEFINE sum == SumFunctionOnSet(f, S)
<1>1. sum = sum + sum
  BY SumPlus
<1>2. sum \in Int
  BY SumIsInt
<1>3. sum = 0
  <2> HIDE DEF sum
  <2> QED
    BY <1>1, <1>2
<1> QED
  BY <1>3

\* A row that comes with v adds v, and one that is not counted, because v is zero, nothing.
LEMMA SumOfOneMore ==
  ASSUME NEW f, NEW g, NEW S, IsFiniteSet(S), NEW e, e \notin S, NEW v \in Int,
         \A x \in S : f[x] \in Int /\ g[x] = f[x],
         NEW T, v = 0 => T = S, v # 0 => T = S \cup {e} /\ g[e] = v
  PROVE  SumFunctionOnSet(g, T) = v + SumFunctionOnSet(f, S)
<1>1. SumFunctionOnSet(g, S) = SumFunctionOnSet(f, S)
  BY SumAgrees
<1>2. SumFunctionOnSet(f, S) \in Int
  BY SumIsInt
<1>3. CASE v = 0
  BY <1>1, <1>2, <1>3
<1>4. CASE v # 0
  <2>1. IsFiniteSet(T) /\ T \ {e} = S /\ e \in T
    BY <1>4, FS_AddElement
  <2>2. \A x \in T : g[x] \in Int
    BY <1>4
  <2>3. SumFunctionOnSet(g, T) = g[e] + SumFunctionOnSet(g, T \ {e})
    BY <2>1, <2>2, SumTakes
  <2> QED
    BY <1>1, <1>4, <2>1, <2>3
<1> QED
  BY <1>3, <1>4

-----------------------------------------------------------------------------
(* Sums of natural numbers. *)

LEMMA SumIsNat ==
  ASSUME NEW f, NEW S, IsFiniteSet(S), \A x \in S : f[x] \in Nat
  PROVE  SumFunctionOnSet(f, S) \in Nat
<1> DEFINE Good == {U \in SUBSET S : SumFunctionOnSet(f, U) \in Nat}
<1>1. ASSUME NEW U \in SUBSET S, \A V \in SUBSET U : V # U => V \in Good
      PROVE  SumFunctionOnSet(f, U) \in Nat
  <2>1. CASE U = {}
    BY <2>1, SumOfNone
  <2>2. CASE U # {}
    <3> DEFINE x == CHOOSE x \in U : TRUE
    <3>1. x \in U /\ IsFiniteSet(U)
      BY <2>2, FS_Subset
    <3>2. SumFunctionOnSet(f, U) = f[x] + SumFunctionOnSet(f, U \ {x})
      BY <2>2, <3>1, SumOfSome
    <3> HIDE DEF x
    <3>3. SumFunctionOnSet(f, U \ {x}) \in Nat
      BY <1>1, <3>1
    <3> QED
      BY <3>1, <3>2, <3>3
  <2> QED
    BY <2>1, <2>2
<1>2. \A U \in SUBSET S : (\A V \in SUBSET U : V # U => V \in Good) => U \in Good
  BY <1>1
<1>3. SUBSET S \subseteq Good
  <2> HIDE DEF Good
  <2> QED
    BY <1>2, SubsetInduction
<1> QED
  BY <1>3

\* A part adds up to no more than the whole.
LEMMA SumOfPart ==
  ASSUME NEW f, NEW S, IsFiniteSet(S), \A x \in S : f[x] \in Nat, NEW P \in SUBSET S
  PROVE  SumFunctionOnSet(f, P) <= SumFunctionOnSet(f, S)
<1> DEFINE Good == {U \in SUBSET S : P \subseteq U => SumFunctionOnSet(f, P) <= SumFunctionOnSet(f, U)}
<1>1. ASSUME NEW U \in SUBSET S, \A V \in SUBSET U : V # U => V \in Good, P \subseteq U
      PROVE  SumFunctionOnSet(f, P) <= SumFunctionOnSet(f, U)
  <2>1. IsFiniteSet(U) /\ IsFiniteSet(P)
    BY FS_Subset
  <2>2. CASE U = P
    <3>1. SumFunctionOnSet(f, P) \in Nat
      BY <2>1, SumIsNat
    <3> QED
      BY <2>2, <3>1
  <2>3. CASE U # P
    <3>1. PICK y \in U : y \notin P
      BY <1>1, <2>3
    <3>2. SumFunctionOnSet(f, U) = f[y] + SumFunctionOnSet(f, U \ {y})
      BY <2>1, SumTakes
    <3>3. SumFunctionOnSet(f, P) <= SumFunctionOnSet(f, U \ {y})
      BY <1>1, <3>1
    <3>4. SumFunctionOnSet(f, U \ {y}) \in Nat /\ SumFunctionOnSet(f, P) \in Nat
      <4>1. IsFiniteSet(U \ {y})
        BY <2>1, FS_RemoveElement
      <4> QED
        BY <2>1, <4>1, SumIsNat
    <3>5. f[y] \in Nat
      OBVIOUS
    <3> QED
      BY <3>2, <3>3, <3>4, <3>5
  <2> QED
    BY <2>2, <2>3
<1>2. \A U \in SUBSET S : (\A V \in SUBSET U : V # U => V \in Good) => U \in Good
  BY <1>1
<1>3. SUBSET S \subseteq Good
  <2> HIDE DEF Good
  <2> QED
    BY <1>2, SubsetInduction
<1> QED
  BY <1>3

\* Nothing is zero in all without being zero everywhere.
LEMMA ZeroSum ==
  ASSUME NEW f, NEW S, IsFiniteSet(S), \A x \in S : f[x] \in Nat, SumFunctionOnSet(f, S) = 0
  PROVE  \A x \in S : f[x] = 0
<1> SUFFICES ASSUME NEW x \in S PROVE f[x] = 0
  OBVIOUS
<1>1. SumFunctionOnSet(f, S) = f[x] + SumFunctionOnSet(f, S \ {x})
  BY SumTakes
<1>2. SumFunctionOnSet(f, S \ {x}) \in Nat
  <2>1. IsFiniteSet(S \ {x})
    BY FS_RemoveElement
  <2> QED
    BY <2>1, SumIsNat
<1>3. f[x] \in Nat
  OBVIOUS
<1> QED
  BY <1>1, <1>2, <1>3

\* A table that differs in one place differs by as much in its sum.
LEMMA SumMoves ==
  ASSUME NEW f, NEW h, NEW S, IsFiniteSet(S), NEW y \in S, NEW v \in Int,
         \A x \in S : f[x] \in Int, \A x \in S : x # y => h[x] = f[x], h[y] = f[y] + v
  PROVE  SumFunctionOnSet(h, S) = SumFunctionOnSet(f, S) + v
<1>1. IsFiniteSet(S \ {y})
  BY FS_RemoveElement
<1>2. SumFunctionOnSet(f, S \ {y}) = SumFunctionOnSet(h, S \ {y})
  BY <1>1, SumAgrees
<1>3. SumFunctionOnSet(f, S) = f[y] + SumFunctionOnSet(f, S \ {y})
  BY SumTakes
<1>4. \A x \in S : h[x] \in Int
  OBVIOUS
<1>5. SumFunctionOnSet(h, S) = h[y] + SumFunctionOnSet(h, S \ {y})
  BY <1>4, SumTakes
<1>6. SumFunctionOnSet(f, S \ {y}) \in Int
  BY <1>1, SumIsInt
<1>7. f[y] \in Int
  OBVIOUS
<1> QED
  BY <1>2, <1>3, <1>5, <1>6, <1>7

-----------------------------------------------------------------------------
(* The books *)

\* A set of natural numbers has a least.
LEMMA LeastNumber ==
  ASSUME NEW S, S \subseteq Nat, S # {}
  PROVE  \E n \in S : \A m \in S : n <= m
<1> DEFINE Less == {p \in Nat \X Nat : p[1] < p[2]}
<1>1. IsWellFoundedOn(Less, Nat)
  BY NatLessThanWellFounded DEF OpToRel
<1>2. PICK n \in S : \A m \in S : <<m, n>> \notin Less
  BY <1>1, WFMin
<1>3. \A m \in S : ~(m < n)
  BY <1>2
<1> QED
  BY <1>3

\* Entries, reports and the requests that adjust have their columns.
BooksTyped ==
    /\ entry \in [Entries -> EntryRows]
    /\ checkpoint \in [Checkpoints -> CheckpointRows]
    /\ checkpointLock \in [Checkpoints -> Sessions \cup {None}]
    /\ session \in [Sessions -> SessionStates]

\* A request that adjusts holds its checkpoint, which is recorded and unresolved, and has
\* read a balance that differs from the report.
AdjustSound ==
    \A s \in Sessions :
        LET c == session[s].checkpoint
        IN  c # None =>
              /\ checkpointLock[c] = s
              /\ checkpoint[c].account # None
              /\ checkpoint[c].resolution = None
              /\ session[s].read # checkpoint[c].balance

\* An entry posted under a checkpoint's key has resolved it, and moves its account: the
\* checkpoint is never removed with the account.
KeysSound ==
    /\ \A e \in Entries : entry[e].status = "free" => entry[e].key = None
    /\ \A e \in Entries :
          LET c == entry[e].key
          IN  c # None =>
                /\ checkpoint[c].account # None
                /\ checkpoint[c].resolution # None
                /\ entry[e].legs[checkpoint[c].account] # 0

BooksInv == BooksTyped /\ AdjustSound /\ KeysSound

LEMMA InitBooks == Init => BooksInv
<1> SUFFICES ASSUME Init PROVE BooksInv
  OBVIOUS
<1> USE AccountsAssumption
<1>1. FirstDay \in Days
  <2>1. \E d \in Days : \A e \in Days : d <= e
    BY LeastNumber
  <2> QED
    BY <2>1 DEF FirstDay
<1>2. NoLegs \in [Accounts -> Int]
  BY DEF NoLegs
<1>3. FreeEntry \in EntryRows /\ FreeEntry.key = None
  <2>1. SomeRate \in Rates
    BY DEF SomeRate
  <2> QED
    BY <1>1, <1>2, <2>1 DEF FreeEntry, EntryRows
<1>4. PICK toman \in Currencies, opening \in [Setup -> Amounts], rate \in Rates, first \in Entries :
          /\ account = [a \in Accounts |->
                IF a \in Setup
                THEN [status |-> "live", code |-> 0, currency |-> toman,
                      wallet |-> IF SetupPlace[a] = None THEN None ELSE a]
                ELSE [status |-> "none", code |-> 0, currency |-> None, wallet |-> None]]
          /\ wallet = [a \in Accounts |->
                IF a \in Setup /\ SetupPlace[a] # None
                THEN [status |-> "live", name |-> SetupPlace[a]]
                ELSE [status |-> "none", name |-> None]]
          /\ entry = [e \in Entries |->
                IF e = first /\ Setup # {}
                THEN Posted("opening", [a \in Accounts |-> IF a \in Setup THEN opening[a] ELSE 0],
                            rate, FirstDay, None)
                ELSE FreeEntry]
  BY Zenon DEF Init
<1>5. [a \in Accounts |-> IF a \in Setup THEN opening[a] ELSE 0] \in [Accounts -> Int]
  <2>1. Amounts \subseteq Int
    BY AccountsAssumption
  <2>2. \A a \in Setup : opening[a] \in Int
    BY <2>1
  <2> QED
    BY <2>2
<1>6. /\ entry \in [Entries -> EntryRows]
      /\ \A e \in Entries : entry[e].key = None
  BY <1>1, <1>3, <1>4, <1>5 DEF Posted, EntryRows
<1>7. checkpoint \in [Checkpoints -> CheckpointRows]
  BY <1>1 DEF Init, NoCheckpoint, CheckpointRows
<1>8. /\ checkpointLock \in [Checkpoints -> Sessions \cup {None}]
      /\ session \in [Sessions -> SessionStates]
      /\ \A s \in Sessions : session[s].checkpoint = None
  BY DEF Init, Idle, SessionStates
<1> QED
  BY <1>6, <1>7, <1>8 DEF BooksInv, BooksTyped, AdjustSound, KeysSound

\* Posting an entry under no key, or voiding one, leaves reports and requests alone.
LEMMA RowPosted ==
  ASSUME BooksInv, NEW e \in Entries, entry[e].status = "free",
         NEW type \in {"opening", "transaction", "adjustment"}, NEW legs \in [Accounts -> Int],
         NEW rate \in Rates, NEW day \in Days,
         entry' = [entry EXCEPT ![e] = Posted(type, legs, rate, day, None)],
         UNCHANGED adjusting
  PROVE  BooksInv'
<1> USE AccountsAssumption
<1>1. Posted(type, legs, rate, day, None) \in EntryRows /\ Posted(type, legs, rate, day, None).key = None
      /\ Posted(type, legs, rate, day, None).status = "posted"
  BY DEF Posted, EntryRows
<1>2. \A x \in Entries : entry'[x] = IF x = e THEN Posted(type, legs, rate, day, None) ELSE entry[x]
  BY DEF BooksInv, BooksTyped
<1>3. BooksTyped'
  BY <1>1 DEF BooksInv, BooksTyped, adjusting
<1>4. AdjustSound'
  BY DEF BooksInv, AdjustSound, adjusting
<1>5. KeysSound'
  BY <1>1, <1>2 DEF BooksInv, KeysSound, adjusting
<1> QED
  BY <1>3, <1>4, <1>5 DEF BooksInv

LEMMA RowVoided ==
  ASSUME BooksInv, NEW e \in Entries, entry[e].status = "posted",
         entry' = [entry EXCEPT ![e].status = "void"], UNCHANGED adjusting
  PROVE  BooksInv'
<1> DEFINE row == [entry[e] EXCEPT !.status = "void"]
<1>1. entry[e] \in EntryRows
  BY DEF BooksInv, BooksTyped
<1>2. row \in EntryRows /\ row.key = entry[e].key /\ row.legs = entry[e].legs /\ row.status = "void"
  BY <1>1 DEF EntryRows
<1>3. entry' = [entry EXCEPT ![e] = row]
  OBVIOUS
<1> HIDE DEF row
<1>4. \A x \in Entries : entry'[x] = IF x = e THEN row ELSE entry[x]
  BY <1>3 DEF BooksInv, BooksTyped
<1>5. BooksTyped'
  BY <1>2, <1>3 DEF BooksInv, BooksTyped, adjusting
<1>6. AdjustSound'
  BY DEF BooksInv, AdjustSound, adjusting
<1>7. KeysSound'
  BY <1>2, <1>4 DEF BooksInv, KeysSound, adjusting
<1> QED
  BY <1>5, <1>6, <1>7 DEF BooksInv

\* A request ends and lets go of its checkpoint.
LEMMA LetGo ==
  ASSUME BooksInv, NEW s \in Sessions, session[s].checkpoint # None,
         NEW cp \in CheckpointRows,
         checkpoint' = [checkpoint EXCEPT ![session[s].checkpoint] = cp],
         checkpointLock' = [checkpointLock EXCEPT ![session[s].checkpoint] = None],
         session' = [session EXCEPT ![s] = Idle]
  PROVE  AdjustSound' /\ checkpoint' \in [Checkpoints -> CheckpointRows]
         /\ checkpointLock' \in [Checkpoints -> Sessions \cup {None}]
         /\ session' \in [Sessions -> SessionStates]
<1> USE AccountsAssumption
<1> DEFINE c == session[s].checkpoint
<1>1. c \in Checkpoints
  BY DEF BooksInv, BooksTyped, SessionStates
<1>2. Idle \in SessionStates /\ Idle.checkpoint = None
  BY DEF Idle, SessionStates
<1>3. /\ checkpoint' \in [Checkpoints -> CheckpointRows]
      /\ checkpointLock' \in [Checkpoints -> Sessions \cup {None}]
      /\ session' \in [Sessions -> SessionStates]
  BY <1>1, <1>2 DEF BooksInv, BooksTyped
<1>4. ASSUME NEW t \in Sessions, session'[t].checkpoint # None
      PROVE  LET k == session'[t].checkpoint
             IN  /\ checkpointLock'[k] = t
                 /\ checkpoint'[k].account # None
                 /\ checkpoint'[k].resolution = None
                 /\ session'[t].read # checkpoint'[k].balance
  <2> DEFINE k == session[t].checkpoint
  <2>1. t # s /\ session'[t] = session[t]
    BY <1>2, <1>4 DEF BooksInv, BooksTyped
  <2>2. /\ checkpointLock[c] = s /\ checkpointLock[k] = t
        /\ checkpoint[k].account # None /\ checkpoint[k].resolution = None
        /\ session[t].read # checkpoint[k].balance
    BY <1>4, <2>1 DEF BooksInv, AdjustSound
  <2>3. k # c /\ k \in Checkpoints
    BY <1>4, <2>1, <2>2 DEF BooksInv, BooksTyped, SessionStates
  <2>4. checkpoint'[k] = checkpoint[k] /\ checkpointLock'[k] = checkpointLock[k]
    BY <1>1, <2>3 DEF BooksInv, BooksTyped
  <2> QED
    BY <2>1, <2>2, <2>4
<1> QED
  BY <1>3, <1>4 DEF AdjustSound

LEMMA CommitAdjustBooks ==
  ASSUME BooksInv, NEW s \in Sessions, CommitAdjust(s)
  PROVE  BooksInv'
<1> USE AccountsAssumption
<1> DEFINE c == session[s].checkpoint
           cp == checkpoint[c]
           legs == [NoLegs EXCEPT ![cp.account] = cp.balance - session[s].read]
           posted(rate) == Posted("adjustment", legs, rate, cp.day, c)
<1>1. PICK e \in Entries, rate \in Rates :
          /\ c # None
          /\ IF \E k \in Entries : entry[k].key = c
             THEN entry[e].key = c /\ UNCHANGED entry
             ELSE entry[e].status = "free" /\ entry' = [entry EXCEPT ![e] = posted(rate)]
          /\ checkpoint' = [checkpoint EXCEPT ![c].resolution = e]
          /\ checkpointLock' = [checkpointLock EXCEPT ![c] = None]
          /\ session' = [session EXCEPT ![s] = Idle]
  BY DEF CommitAdjust
<1>2. /\ c \in Checkpoints /\ session[s].read \in Int
      /\ cp \in CheckpointRows
  BY <1>1 DEF BooksInv, BooksTyped, SessionStates
<1>3. /\ cp.account \in Accounts /\ cp.resolution = None /\ session[s].read # cp.balance
      /\ cp.balance \in Int /\ cp.day \in Days
  BY <1>1, <1>2 DEF BooksInv, AdjustSound, CheckpointRows
<1> DEFINE resolved == [cp EXCEPT !.resolution = e]
<1>4. /\ resolved \in CheckpointRows /\ resolved.account = cp.account /\ resolved.resolution = e
  BY <1>2 DEF CheckpointRows
<1>5. checkpoint' = [checkpoint EXCEPT ![c] = resolved]
  BY <1>1
<1>6. legs \in [Accounts -> Int] /\ legs[cp.account] # 0
  BY <1>2, <1>3 DEF NoLegs
\* No entry bears the key of an unresolved checkpoint.
<1>7. \A k \in Entries : entry[k].key # c
  BY <1>1, <1>3 DEF BooksInv, KeysSound
<1> DEFINE row == posted(rate)
<1>8. entry[e].status = "free" /\ entry' = [entry EXCEPT ![e] = row]
  BY <1>1, <1>7
<1>9. row \in EntryRows /\ row.status = "posted" /\ row.key = c /\ row.legs = legs
  <2> HIDE DEF legs, cp, c
  <2> QED
    BY <1>2, <1>3, <1>6 DEF Posted, EntryRows
<1> HIDE DEF row, posted, legs, resolved
<1>10. \A x \in Entries : entry'[x] = IF x = e THEN row ELSE entry[x]
  BY <1>8 DEF BooksInv, BooksTyped
<1>11. \A k \in Checkpoints : checkpoint'[k] = IF k = c THEN resolved ELSE checkpoint[k]
  BY <1>5 DEF BooksInv, BooksTyped
<1>12. BooksTyped' /\ AdjustSound'
  <2>1. entry' \in [Entries -> EntryRows]
    BY <1>8, <1>9 DEF BooksInv, BooksTyped
  <2> QED
    BY <1>1, <1>4, <1>5, <2>1, LetGo DEF BooksTyped
<1>13. KeysSound'
  <2>1. \A x \in Entries : entry'[x].status = "free" => entry'[x].key = None
    BY <1>9, <1>10 DEF BooksInv, KeysSound
  <2>2. ASSUME NEW x \in Entries, entry'[x].key # None
        PROVE  /\ checkpoint'[entry'[x].key].account # None
               /\ checkpoint'[entry'[x].key].resolution # None
               /\ entry'[x].legs[checkpoint'[entry'[x].key].account] # 0
    <3>1. CASE x = e
      <4>1. entry'[x].key = c /\ entry'[x].legs = legs
        BY <3>1, <1>9, <1>10
      <4>2. checkpoint'[c] = resolved
        BY <1>2, <1>11
      <4>3. resolved.account = cp.account /\ resolved.resolution = e
        BY <1>4
      <4>4. cp.account # None /\ e # None /\ legs[cp.account] # 0
        BY <1>3, <1>6
      <4> HIDE DEF c, cp
      <4> QED
        BY <4>1, <4>2, <4>3, <4>4
    <3>2. CASE x # e
      <4>1. /\ entry'[x] = entry[x] /\ entry[x].key # None /\ entry[x].key # c
            /\ entry[x].key \in Checkpoints
        BY <3>2, <2>2, <1>7, <1>10 DEF BooksInv, BooksTyped, EntryRows
      <4>2. checkpoint'[entry[x].key] = checkpoint[entry[x].key]
        BY <4>1, <1>11
      <4> QED
        BY <4>1, <4>2 DEF BooksInv, KeysSound
    <3> QED
      BY <3>1, <3>2
  <2> QED
    BY <2>1, <2>2 DEF KeysSound
<1> QED
  BY <1>12, <1>13 DEF BooksInv

LEMMA RollbackBooks ==
  ASSUME BooksInv, NEW s \in Sessions, Rollback(s)
  PROVE  BooksInv'
<1> USE AccountsAssumption
<1> DEFINE c == session[s].checkpoint
<1>1. CASE c = None
  <2>1. UNCHANGED <<checkpoint, entry>> /\ session' = [session EXCEPT ![s] = Idle]
        /\ checkpointLock' = checkpointLock
    BY <1>1 DEF Rollback, BooksInv, BooksTyped
  <2>2. \A t \in Sessions : session'[t] = session[t] \/ session'[t].checkpoint = None
    BY <2>1 DEF BooksInv, BooksTyped, Idle
  <2>3. BooksTyped'
    BY <2>1 DEF BooksInv, BooksTyped, Idle, SessionStates
  <2> QED
    BY <2>1, <2>2, <2>3 DEF BooksInv, AdjustSound, KeysSound
<1>2. CASE c # None
  <2>1. c \in Checkpoints /\ checkpoint[c] \in CheckpointRows
    BY <1>2 DEF BooksInv, BooksTyped, SessionStates
  <2>2. /\ UNCHANGED <<checkpoint, entry>>
        /\ checkpointLock' = [checkpointLock EXCEPT ![c] = None]
        /\ session' = [session EXCEPT ![s] = Idle]
    BY DEF Rollback
  <2>3. checkpoint' = [checkpoint EXCEPT ![c] = checkpoint[c]]
    BY <2>1, <2>2 DEF BooksInv, BooksTyped
  <2>4. BooksTyped' /\ AdjustSound'
    BY <1>2, <2>1, <2>2, <2>3, LetGo DEF BooksInv, BooksTyped
  <2>5. KeysSound'
    BY <2>2 DEF BooksInv, KeysSound
  <2> QED
    BY <2>4, <2>5 DEF BooksInv
<1> QED
  BY <1>1, <1>2

LEMMA BeginAdjustBooks ==
  ASSUME BooksInv, NEW s \in Sessions, NEW c \in Checkpoints, BeginAdjust(s, c),
         LedgerBalance(c) \in Int
  PROVE  BooksInv'
<1> USE AccountsAssumption
<1> DEFINE begun == [checkpoint |-> c, read |-> LedgerBalance(c)]
<1>1. /\ checkpointLock[c] = None /\ checkpoint[c].account # None /\ checkpoint[c].resolution = None
      /\ LedgerBalance(c) # checkpoint[c].balance
      /\ checkpointLock' = [checkpointLock EXCEPT ![c] = s]
      /\ session' = [session EXCEPT ![s] = begun]
      /\ UNCHANGED <<entry, checkpoint>>
  BY DEF BeginAdjust, Recorded
<1>2. begun \in SessionStates /\ begun.checkpoint = c /\ begun.read = LedgerBalance(c)
  BY DEF SessionStates
<1> HIDE DEF begun
<1>3. BooksTyped'
  BY <1>1, <1>2 DEF BooksInv, BooksTyped
<1>4. \A t \in Sessions : session'[t] = IF t = s THEN begun ELSE session[t]
  BY <1>1 DEF BooksInv, BooksTyped
<1>5. ASSUME NEW t \in Sessions, session'[t].checkpoint # None
      PROVE  LET k == session'[t].checkpoint
             IN  /\ checkpointLock'[k] = t
                 /\ checkpoint'[k].account # None
                 /\ checkpoint'[k].resolution = None
                 /\ session'[t].read # checkpoint'[k].balance
  <2>1. CASE t = s
    BY <2>1, <1>1, <1>2, <1>4 DEF BooksInv, BooksTyped
  <2>2. CASE t # s
    <3>1. session'[t] = session[t]
      BY <2>2, <1>4
    <3>2. /\ checkpointLock[session[t].checkpoint] = t
          /\ checkpoint[session[t].checkpoint].account # None
          /\ checkpoint[session[t].checkpoint].resolution = None
          /\ session[t].read # checkpoint[session[t].checkpoint].balance
      BY <3>1, <1>5 DEF BooksInv, AdjustSound
    <3>3. session[t].checkpoint \in Checkpoints /\ session[t].checkpoint # c
      BY <3>1, <3>2, <1>1, <1>5 DEF BooksInv, BooksTyped, SessionStates
    <3>4. checkpointLock'[session[t].checkpoint] = checkpointLock[session[t].checkpoint]
      BY <3>3, <1>1 DEF BooksInv, BooksTyped
    <3> QED
      BY <3>1, <3>2, <3>4, <1>1
  <2> QED
    BY <2>1, <2>2
<1>6. KeysSound'
  BY <1>1 DEF BooksInv, KeysSound
<1> QED
  BY <1>3, <1>5, <1>6 DEF BooksInv, AdjustSound

LEMMA RecordBooks ==
  ASSUME BooksInv, NEW c \in Checkpoints, NEW report \in Reports, RecordCheckpoint(c, report)
  PROVE  BooksInv'
<1> USE AccountsAssumption
<1> DEFINE row == [account |-> report.account, day |-> report.day, balance |-> report.balance,
                   resolution |-> None]
<1>1. /\ checkpoint[c].account = None
      /\ checkpoint' = [checkpoint EXCEPT ![c] = row]
      /\ UNCHANGED <<entry, checkpointLock, session>>
  BY DEF RecordCheckpoint, Recorded
<1>2. row \in CheckpointRows
  <2>1. report \in [account : Accounts, day : Days, balance : Int]
    OBVIOUS
  <2> QED
    BY <2>1 DEF CheckpointRows
<1> HIDE DEF row
<1>3. \A k \in Checkpoints : checkpoint'[k] = IF k = c THEN row ELSE checkpoint[k]
  BY <1>1 DEF BooksInv, BooksTyped
<1>4. BooksTyped'
  BY <1>1, <1>2 DEF BooksInv, BooksTyped
<1>5. AdjustSound'
  <2>1. \A t \in Sessions : session[t].checkpoint # None =>
            session[t].checkpoint \in Checkpoints /\ session[t].checkpoint # c
    BY <1>1 DEF BooksInv, BooksTyped, AdjustSound, SessionStates
  <2> QED
    BY <1>1, <1>3, <2>1 DEF BooksInv, AdjustSound
<1>6. KeysSound'
  <2>1. \A e \in Entries : entry[e].key # None => entry[e].key \in Checkpoints /\ entry[e].key # c
    BY <1>1 DEF BooksInv, BooksTyped, KeysSound, EntryRows
  <2> QED
    BY <1>1, <1>3, <2>1 DEF BooksInv, KeysSound
<1> QED
  BY <1>4, <1>5, <1>6 DEF BooksInv

\* The reports removed with an account are locked by no one and resolved by no entry.
LEMMA DeleteByApiBooks ==
  ASSUME BooksInv, NEW a \in Accounts, DeleteByApi(a)
  PROVE  BooksInv'
<1> USE AccountsAssumption
<1>1. CASE checkpoint' = checkpoint
  <2>1. UNCHANGED <<entry, checkpoint, checkpointLock, session>>
    BY <1>1 DEF DeleteByApi
  <2> QED
    BY <2>1 DEF BooksInv, BooksTyped, AdjustSound, KeysSound
<1>2. CASE checkpoint' # checkpoint
  <2>1. /\ ~Used(a)
        /\ \A c \in Checkpoints : checkpoint[c].account = a => checkpointLock[c] = None
        /\ checkpoint' = [c \in Checkpoints |->
                IF checkpoint[c].account = a THEN NoCheckpoint ELSE checkpoint[c]]
        /\ UNCHANGED <<entry, checkpointLock, session>>
    BY <1>2 DEF DeleteByApi
  <2>2. FirstDay \in Days
    <3>1. \E d \in Days : \A e \in Days : d <= e
      BY LeastNumber
    <3> QED
      BY <3>1 DEF FirstDay
  <2>3. BooksTyped'
    BY <2>1, <2>2 DEF BooksInv, BooksTyped, NoCheckpoint, CheckpointRows
  <2>4. AdjustSound'
    <3>1. ASSUME NEW t \in Sessions, session[t].checkpoint # None
          PROVE  /\ session[t].checkpoint \in Checkpoints
                 /\ checkpoint[session[t].checkpoint].account # a
      <4>1. session[t].checkpoint \in Checkpoints
        BY <3>1 DEF BooksInv, BooksTyped, SessionStates
      <4>2. checkpointLock[session[t].checkpoint] = t /\ t # None
        BY <3>1 DEF BooksInv, AdjustSound
      <4> QED
        BY <4>1, <4>2, <2>1
    <3> QED
      BY <2>1, <3>1 DEF BooksInv, AdjustSound
  <2>5. KeysSound'
    <3>1. \A e \in Entries : entry[e].key # None =>
              entry[e].key \in Checkpoints /\ checkpoint[entry[e].key].account # a
      BY <2>1 DEF BooksInv, BooksTyped, KeysSound, EntryRows, Used
    <3> QED
      BY <2>1, <3>1 DEF BooksInv, KeysSound
  <2> QED
    BY <2>3, <2>4, <2>5 DEF BooksInv
<1> QED
  BY <1>1, <1>2

\* What entries add up to is a number.
LEMMA BalanceAsOfType ==
  ASSUME BooksTyped, NEW a \in Accounts, NEW d
  PROVE  BalanceAsOf(a, d) \in Int
<1> DEFINE S == {x \in History(a) : entry[x].day <= d}
           f == [e \in S |-> entry[e].legs[a]]
<1>1. IsFiniteSet(S)
  BY AccountsAssumption, FS_Subset DEF History
<1>2. \A e \in S : f[e] \in Int
  BY DEF BooksTyped, EntryRows, History
<1>3. BalanceAsOf(a, d) = SumFunctionOnSet(f, S)
  BY DEF BalanceAsOf, SumFunction
<1> HIDE DEF f, S
<1> QED
  BY <1>1, <1>2, <1>3, SumIsInt

LEMMA NextBooks == BooksInv /\ [Next]_vars => BooksInv'
<1> SUFFICES ASSUME BooksInv, [Next]_vars PROVE BooksInv'
  OBVIOUS
<1>0. Amounts \cup {0} \subseteq Int
  BY AccountsAssumption
<1> USE AccountsAssumption
<1>1. ASSUME UNCHANGED <<entry, adjusting>> PROVE BooksInv'
  BY <1>1 DEF adjusting, BooksInv, BooksTyped, AdjustSound, KeysSound
<1>2. ASSUME NEW a \in Accounts, NEW name \in Names, NEW currency \in Currencies,
             NEW opening \in Amounts \cup {0}, Register(a, name, currency, opening)
      PROVE  BooksInv'
  <2>1. UNCHANGED adjusting
    BY <1>2 DEF Register
  <2>2. CASE entry' = entry
    BY <1>1, <2>1, <2>2
  <2>3. CASE entry' # entry
    <3>1. PICK e \in Entries, rate \in Rates, d \in Days :
              /\ entry[e].status = "free"
              /\ entry' = [entry EXCEPT ![e] =
                    Posted("opening", [NoLegs EXCEPT ![a] = opening], rate, d, None)]
      BY <1>2, <2>3 DEF Register
    <3>2. opening \in Int
      BY <1>0, Zenon
    <3>3. [NoLegs EXCEPT ![a] = opening] \in [Accounts -> Int]
      BY <3>2 DEF NoLegs
    <3> QED
      BY <2>1, <3>1, <3>3, RowPosted
  <2> QED
    BY <2>2, <2>3
<1>3. ASSUME NEW a \in Accounts, Delete(a) PROVE BooksInv'
  <2>1. UNCHANGED adjusting
    BY <1>3 DEF Delete
  <2>2. CASE entry' = entry
    BY <1>1, <2>1, <2>2
  <2>3. CASE entry' # entry
    <3>1. PICK e \in Entries : OwnOpening(a, e) /\ entry' = [entry EXCEPT ![e].status = "void"]
      BY <1>3, <2>3 DEF Delete
    <3>2. entry[e].status = "posted"
      BY <3>1 DEF OwnOpening, History
    <3> QED
      BY <2>1, <3>1, <3>2, RowVoided
  <2> QED
    BY <2>2, <2>3
<1>4. ASSUME NEW a \in Accounts, DeleteByApi(a) PROVE BooksInv'
  BY <1>4, DeleteByApiBooks
<1>5. ASSUME NEW a \in Accounts, LinkTo(a) PROVE BooksInv'
  BY <1>1, <1>5 DEF LinkTo
<1>6. ASSUME NEW c \in Checkpoints, NEW report \in Reports, RecordCheckpoint(c, report) PROVE BooksInv'
  BY <1>6, RecordBooks
<1>7. ASSUME NEW s \in Sessions, NEW c \in Checkpoints, BeginAdjust(s, c) PROVE BooksInv'
  <2>1. checkpoint[c].account \in Accounts
    BY <1>7 DEF BeginAdjust, Recorded, BooksInv, BooksTyped, CheckpointRows
  <2>2. LedgerBalance(c) \in Int
    BY <2>1, BalanceAsOfType DEF BooksInv, LedgerBalance
  <2> QED
    BY <1>7, <2>2, BeginAdjustBooks
<1>8. ASSUME NEW s \in Sessions, CommitAdjust(s) PROVE BooksInv'
  BY <1>8, CommitAdjustBooks
<1>9. ASSUME NEW s \in Sessions, Rollback(s) PROVE BooksInv'
  BY <1>9, RollbackBooks
<1>10. ASSUME NEW from \in Accounts \cup {None}, NEW to \in Accounts \cup {None},
              NEW amount \in Amounts, NEW day \in Days, Transact(from, to, amount, day)
       PROVE  BooksInv'
  <2> DEFINE legs == [a \in Accounts |-> CASE a = from -> -amount [] a = to -> amount [] OTHER -> 0]
  <2>1. PICK e \in Entries, rate \in Rates :
            /\ entry[e].status = "free"
            /\ entry' = [entry EXCEPT ![e] = Posted("transaction", legs, rate, day, None)]
    BY <1>10 DEF Transact
  <2>2. amount \in Int
    BY <1>0, Zenon
  <2>3. legs \in [Accounts -> Int]
    BY <2>2
  <2>4. UNCHANGED adjusting
    BY <1>10 DEF Transact
  <2> HIDE DEF legs
  <2> QED
    BY <2>1, <2>3, <2>4, RowPosted
<1>11. ASSUME NEW e \in Entries, Reverse(e) PROVE BooksInv'
  BY <1>11, RowVoided DEF Reverse
<1>12. CASE UNCHANGED vars
  BY <1>1, <1>12 DEF vars, adjusting
<1> QED
  BY <1>2, <1>3, <1>4, <1>5, <1>6, <1>7, <1>8, <1>9, <1>10, <1>11, <1>12 DEF Next

LEMMA SpecBooks == Spec => []BooksInv
BY InitBooks, NextBooks, PTL DEF Spec

-----------------------------------------------------------------------------
(* Types.  The code of a new account is a number: the next after a largest. *)

\* A finite set of natural numbers has a greatest.
LEMMA GreatestNumber ==
  ASSUME NEW S, S \subseteq Nat, IsFiniteSet(S), S # {}
  PROVE  \E n \in S : \A m \in S : n >= m
<1> DEFINE Good == {T \in SUBSET S : T # {} => \E n \in T : \A m \in T : n >= m}
<1>1. ASSUME NEW T \in SUBSET S, \A U \in SUBSET T : U # T => U \in Good, T # {}
      PROVE  \E n \in T : \A m \in T : n >= m
  <2>1. PICK x \in T : TRUE
    BY <1>1
  <2>2. x \in Nat /\ T \subseteq Nat
    OBVIOUS
  <2>3. T \ {x} \in Good
    BY <1>1
  <2>4. CASE T = {x}
    BY <2>2, <2>4
  <2>5. CASE T # {x}
    <3>1. PICK n \in T \ {x} : \A m \in T \ {x} : n >= m
      BY <2>1, <2>3, <2>5
    <3>2. n \in Nat
      BY <2>2
    <3>3. CASE n >= x
      BY <3>1, <3>3
    <3>4. CASE x >= n
      <4>1. ASSUME NEW m \in T PROVE x >= m
        BY <2>2, <3>1, <3>2, <3>4
      <4> QED
        BY <4>1
    <3> QED
      BY <2>2, <3>2, <3>3, <3>4
  <2> QED
    BY <2>4, <2>5
<1>2. \A T \in SUBSET S : (\A U \in SUBSET T : U # T => U \in Good) => T \in Good
  BY <1>1
<1>3. SUBSET S \subseteq Good
  <2> HIDE DEF Good
  <2> QED
    BY <1>2, SubsetInduction
<1> QED
  BY <1>3

AccountsTyped == account \in [Accounts -> AccountRows] /\ linked \subseteq Accounts

LEMMA NextCodeType ==
  ASSUME AccountsTyped
  PROVE  NextCode \in Nat
<1> DEFINE live == {x \in Accounts : Live(x)}
           codes == {account[b].code : b \in live}
<1>1. codes \subseteq Nat
  BY DEF AccountsTyped, AccountRows
<1>2. IsFiniteSet(codes)
  <2>1. IsFiniteSet(live)
    BY FS_Subset, AccountsAssumption
  <2>2. [b \in live |-> account[b].code] \in Surjection(live, codes)
    BY DEF Surjection
  <2> HIDE DEF live, codes
  <2> QED
    BY <2>1, <2>2, FS_Surjection
<1>3. IsFiniteSet({0} \cup codes)
  <2> HIDE DEF codes
  <2>1. IsFiniteSet(codes \cup {0})
    BY <1>2, FS_AddElement
  <2>2. codes \cup {0} = {0} \cup codes
    OBVIOUS
  <2> QED
    BY <2>1, <2>2
<1> DEFINE all == {0} \cup codes
<1>4. Max(all) \in Nat
  <2>1. all \subseteq Nat /\ all # {} /\ IsFiniteSet(all)
    BY <1>1, <1>3
  <2> HIDE DEF all
  <2>2. PICK n \in all : \A m \in all : n >= m
    BY <2>1, GreatestNumber
  <2>3. Max(all) \in all
    BY <2>2 DEF Max
  <2> QED
    BY <2>1, <2>3
<1>5. NextCode = 1 + Max(all)
  BY DEF NextCode
<1> HIDE DEF all
<1> QED
  BY <1>4, <1>5

LEMMA NextAccountsTyped ==
  ASSUME AccountsTyped, [Next]_vars
  PROVE  AccountsTyped'
<1> USE AccountsAssumption
<1>1. CASE UNCHANGED <<account, linked>>
  BY <1>1 DEF AccountsTyped
<1>2. ASSUME NEW a \in Accounts, NEW name \in Names, NEW currency \in Currencies,
             NEW opening \in Amounts \cup {0}, Register(a, name, currency, opening)
      PROVE  AccountsTyped'
  <2>1. PICK w \in Accounts : account' = Opened(a, currency, w)
    BY <1>2 DEF Register, InNewWallet, InKnownWallet, LiveWallets
  <2>2. account' \in [Accounts -> AccountRows]
    BY <2>1, NextCodeType DEF AccountsTyped, Opened, AccountRows
  <2> QED
    BY <1>2, <2>2 DEF Register, AccountsTyped
<1>3. ASSUME NEW a \in Accounts, Delete(a) \/ DeleteByApi(a)
      PROVE  AccountsTyped'
  <2>1. PICK status \in {"hidden", "gone"} : account' = [account EXCEPT ![a].status = status]
    BY <1>3 DEF Delete, DeleteByApi
  <2>2. account' \in [Accounts -> AccountRows]
    BY <2>1 DEF AccountsTyped, AccountRows
  <2> QED
    BY <1>3, <2>2 DEF Delete, DeleteByApi, AccountsTyped
<1>4. ASSUME NEW a \in Accounts, LinkTo(a)
      PROVE  AccountsTyped'
  BY <1>4 DEF LinkTo, AccountsTyped
<1>5. ASSUME NEW c \in Checkpoints, NEW report \in Reports, RecordCheckpoint(c, report)
      PROVE  AccountsTyped'
  BY <1>1, <1>5 DEF RecordCheckpoint
<1>6. ASSUME NEW s \in Sessions, NEW c \in Checkpoints, BeginAdjust(s, c)
      PROVE  AccountsTyped'
  BY <1>1, <1>6 DEF BeginAdjust
<1>7. ASSUME NEW s \in Sessions, CommitAdjust(s) \/ Rollback(s)
      PROVE  AccountsTyped'
  BY <1>1, <1>7 DEF CommitAdjust, Rollback
<1>8. ASSUME NEW from \in Accounts \cup {None}, NEW to \in Accounts \cup {None},
             NEW amount \in Amounts, NEW day \in Days, Transact(from, to, amount, day)
      PROVE  AccountsTyped'
  BY <1>1, <1>8 DEF Transact
<1>9. ASSUME NEW e \in Entries, Reverse(e)
      PROVE  AccountsTyped'
  BY <1>1, <1>9 DEF Reverse
<1>10. CASE UNCHANGED vars
  BY <1>1, <1>10 DEF vars
<1> QED
  BY <1>2, <1>3, <1>4, <1>5, <1>6, <1>7, <1>8, <1>9, <1>10 DEF Next

\* Rows keep their columns, with the code that nextAssetCode computes and the balance that
\* an adjusting request has read, which are a greatest number and a sum.
THEOREM AccountsTypeCorrect == Spec => []TypeOK
<1>1. Init => AccountsTyped
  BY AccountsAssumption DEF Init, AccountsTyped, AccountRows
<1>2. AccountsTyped /\ [Next]_vars => AccountsTyped'
  BY NextAccountsTyped
<1>3. AccountsTyped /\ AccountsInv /\ BooksInv => TypeOK
  BY DEF AccountsTyped, AccountsInv, RowsSound, BooksInv, BooksTyped, TypeOK
<1> QED
  BY <1>1, <1>2, <1>3, SpecAccounts, SpecBooks, PTL DEF Spec

-----------------------------------------------------------------------------
\* An account whose posted entries, and what they put in it at which rate, stay the same
\* keeps its quantity and its base value.
LEMMA SameBalance ==
  ASSUME NEW a \in Accounts, History(a)' = History(a),
         \A e \in History(a) : entry'[e].legs[a] = entry[e].legs[a] /\ entry'[e].rate = entry[e].rate
  PROVE  Balance(a)' = Balance(a) /\ BaseValue(a)' = BaseValue(a)
<1>1. [e \in History(a)' |-> entry'[e].legs[a]] = [e \in History(a) |-> entry[e].legs[a]]
  OBVIOUS
<1>2. [e \in History(a)' |-> entry'[e].legs[a] * entry'[e].rate]
        = [e \in History(a) |-> entry[e].legs[a] * entry[e].rate]
  OBVIOUS
<1> QED
  BY <1>1, <1>2 DEF Balance, BaseValue

\* An account with no posted entries holds nothing, and is worth nothing.
LEMMA NoHistory ==
  ASSUME NEW a \in Accounts, History(a)' = {}
  PROVE  Balance(a)' = 0 /\ BaseValue(a)' = 0
<1> DEFINE f == [x \in {} |-> entry'[x].legs[a]]
           g == [x \in {} |-> entry'[x].legs[a] * entry'[x].rate]
<1>1. Balance(a)' = SumFunctionOnSet(f, {}) /\ BaseValue(a)' = SumFunctionOnSet(g, {})
  BY DEF Balance, BaseValue, SumFunction
<1> HIDE DEF f, g
<1> QED
  BY <1>1, SumOfNone

\* deleteMoneyAccount, whatever happened before and at whatever rates: the deleted account
\* ends with a quantity of zero, its base value as it was or reversed with its own opening,
\* and every other account keeps both.
THEOREM AccountsDeletionKeepsBooks == Spec => DeletionKeepsBooks
<1>1. ASSUME BooksInv, NEW a \in Accounts, Delete(a)
      PROVE  /\ Balance(a)' = 0
             /\ BaseValue(a)' \in {BaseValue(a), 0}
             /\ \A b \in Accounts \ {a} : Balance(b)' = Balance(b) /\ BaseValue(b)' = BaseValue(b)
  <2>1. CASE entry' = entry /\ Balance(a) = 0
    <3>1. \A b \in Accounts : Balance(b)' = Balance(b) /\ BaseValue(b)' = BaseValue(b)
      BY <2>1, SameBalance DEF History
    <3> QED
      BY <2>1, <3>1
  <2>2. ASSUME NEW e \in Entries, OwnOpening(a, e), entry' = [entry EXCEPT ![e].status = "void"]
        PROVE  /\ Balance(a)' = 0
               /\ BaseValue(a)' \in {BaseValue(a), 0}
               /\ \A b \in Accounts \ {a} : Balance(b)' = Balance(b) /\ BaseValue(b)' = BaseValue(b)
    <3> DEFINE row == [entry[e] EXCEPT !.status = "void"]
    <3>1. row.status = "void" /\ row.legs = entry[e].legs /\ row.rate = entry[e].rate
      BY <1>1 DEF BooksInv, BooksTyped, EntryRows
    <3>2. \A x \in Entries : entry'[x] = IF x = e THEN row ELSE entry[x]
      BY <1>1, <2>2 DEF BooksInv, BooksTyped
    <3> HIDE DEF row
    <3>3. History(a)' = {}
      BY <2>2, <3>1, <3>2 DEF OwnOpening, History
    <3>4. Balance(a)' = 0 /\ BaseValue(a)' = 0
      BY <3>3, NoHistory
    <3>5. ASSUME NEW b \in Accounts \ {a}
          PROVE  Balance(b)' = Balance(b) /\ BaseValue(b)' = BaseValue(b)
      <4>1. entry[e].legs[b] = 0
        BY <2>2 DEF OwnOpening
      <4>2. History(b)' = History(b)
        BY <3>1, <3>2, <4>1 DEF History
      <4>3. \A x \in History(b) : entry'[x].legs[b] = entry[x].legs[b] /\ entry'[x].rate = entry[x].rate
        BY <3>1, <3>2 DEF History
      <4> QED
        BY <4>2, <4>3, SameBalance
    <3> QED
      BY <3>4, <3>5
  <2> QED
    BY <1>1, <2>1, <2>2 DEF Delete
<1>2. BooksInv /\ [Next]_vars =>
          [\A a \in Accounts :
              Delete(a) =>
                  /\ Balance(a)' = 0
                  /\ BaseValue(a)' \in {BaseValue(a), 0}
                  /\ \A b \in Accounts \ {a} :
                        Balance(b)' = Balance(b) /\ BaseValue(b)' = BaseValue(b)]_vars
  BY <1>1
<1> QED
  BY <1>2, SpecBooks, PTL DEF Spec, DeletionKeepsBooks

\* adjustToReported: once a checkpoint is resolved, the books hold at the end of its day what
\* the bank reported, if the balance the difference was computed from is still the ledger's.
THEOREM AccountsReportedReached == Spec => ReportedReached
<1>a. Days \subseteq Int /\ None \notin Sessions
  BY AccountsAssumption
<1>1. ASSUME BooksInv, [Next]_vars, NEW s \in Sessions, NEW c \in Checkpoints,
             checkpoint[c].resolution = None, checkpoint'[c].resolution # None,
             session[s].checkpoint = c, session[s].read = LedgerBalance(c)
      PROVE  BalanceAsOf(checkpoint[c].account, checkpoint[c].day)' = checkpoint[c].balance
  <2>0. PICK a, d, b : a = checkpoint[c].account /\ d = checkpoint[c].day /\ b = checkpoint[c].balance
    OBVIOUS
  <2>1. /\ c # None /\ checkpointLock[c] = s
        /\ a # None
        /\ session[s].read # b
    BY <1>1, <2>0, AccountsAssumption DEF BooksInv, AdjustSound
  <2>2. checkpoint[c] \in CheckpointRows /\ session[s].read \in Int
    BY <1>1 DEF BooksInv, BooksTyped, SessionStates
  <2>3. a \in Accounts /\ d \in Int /\ b \in Int
    BY <1>a, <2>0, <2>1, <2>2 DEF CheckpointRows
\* Only the request that holds the checkpoint resolves it.
  <2>4. CommitAdjust(s)
    <3>1. checkpoint' # checkpoint
      BY <1>1
    <3>2. ASSUME NEW x \in Accounts PROVE ~DeleteByApi(x)
      <4>1. SUFFICES ASSUME DeleteByApi(x) PROVE FALSE
        OBVIOUS
      <4>2. checkpoint' = [k \in Checkpoints |->
                  IF checkpoint[k].account = x THEN NoCheckpoint ELSE checkpoint[k]]
        BY <3>1, <4>1 DEF DeleteByApi
      <4> QED
        BY <1>1, <4>2 DEF NoCheckpoint
    <3>3. ASSUME NEW k \in Checkpoints, NEW report \in Reports PROVE ~RecordCheckpoint(k, report)
      <4>1. SUFFICES ASSUME RecordCheckpoint(k, report) PROVE FALSE
        OBVIOUS
      <4>2. k # c
        BY <2>0, <2>1, <4>1 DEF RecordCheckpoint, Recorded
      <4> QED
        BY <1>1, <4>1, <4>2 DEF RecordCheckpoint, BooksInv, BooksTyped
    <3>4. ASSUME NEW t \in Sessions, CommitAdjust(t)
          PROVE  t = s
      <4>1. /\ session[t].checkpoint # None
            /\ \E e : checkpoint' = [checkpoint EXCEPT ![session[t].checkpoint].resolution = e]
        BY <3>4 DEF CommitAdjust
      <4>2. session[t].checkpoint = c
        BY <1>1, <4>1 DEF BooksInv, BooksTyped
      <4>3. checkpointLock[c] = t
        BY <1>1, <4>1, <4>2 DEF BooksInv, AdjustSound
      <4> QED
        BY <2>1, <4>3
    <3>5. /\ \A x \in Accounts : ~Delete(x) /\ ~LinkTo(x)
          /\ \A x \in Accounts, name \in Names, currency \in Currencies, opening \in Amounts \cup {0} :
                ~Register(x, name, currency, opening)
          /\ \A t \in Sessions : ~Rollback(t) /\ \A k \in Checkpoints : ~BeginAdjust(t, k)
          /\ \A from, to \in Accounts \cup {None}, amount \in Amounts, day \in Days :
                ~Transact(from, to, amount, day)
          /\ \A e \in Entries : ~Reverse(e)
      BY <3>1 DEF Delete, LinkTo, Register, Rollback, BeginAdjust, Transact, Reverse, adjusting
    <3> QED
      BY <1>1, <3>1, <3>2, <3>3, <3>4, <3>5 DEF Next, vars
  <2> DEFINE legs == [NoLegs EXCEPT ![a] = b - session[s].read]
             row(rate) == Posted("adjustment", legs, rate, d, c)
  <2>5. PICK e \in Entries, rate \in Rates :
            IF \E k \in Entries : entry[k].key = c
            THEN entry[e].key = c /\ UNCHANGED entry
            ELSE entry[e].status = "free" /\ entry' = [entry EXCEPT ![e] = row(rate)]
    BY <1>1, <2>0, <2>4 DEF CommitAdjust
  <2>6. \A k \in Entries : entry[k].key # c
    BY <1>1, <2>1 DEF BooksInv, KeysSound
  <2> DEFINE posted == row(rate)
  <2>7. entry[e].status = "free" /\ entry' = [entry EXCEPT ![e] = posted]
    BY <2>5, <2>6
  <2>8. /\ legs[a] = b - session[s].read /\ b - session[s].read # 0
        /\ posted.status = "posted" /\ posted.day = d /\ posted.legs = legs
    BY <2>1, <2>2, <2>3 DEF NoLegs, Posted
  <2> HIDE DEF posted, row, legs
  <2>9. /\ entry'[e] = posted
        /\ \A x \in Entries \ {e} : entry'[x] = entry[x]
    BY <1>1, <2>7 DEF BooksInv, BooksTyped
  <2> DEFINE S == {x \in History(a) : entry[x].day <= d}
             f == [x \in S |-> entry[x].legs[a]]
             g == [x \in S \cup {e} |-> entry'[x].legs[a]]
  <2>10. /\ {x \in Entries : entry'[x].status = "posted" /\ entry'[x].legs[a] # 0 /\ entry'[x].day <= d}
               = S \cup {e}
         /\ e \notin S
    <3>1. entry'[e].status = "posted" /\ entry'[e].legs[a] # 0 /\ entry'[e].day <= d
      BY <2>3, <2>8, <2>9
    <3>2. ASSUME NEW x \in Entries \ {e}
          PROVE  entry'[x].status = "posted" /\ entry'[x].legs[a] # 0 /\ entry'[x].day <= d <=> x \in S
      BY <2>9 DEF History
    <3>3. S \subseteq Entries /\ e \notin S
      BY <2>7 DEF History
    <3> HIDE DEF S
    <3> QED
      BY <3>1, <3>2, <3>3
  <2>11. SumFunctionOnSet(f, S) = session[s].read
    BY <1>1, <2>0 DEF LedgerBalance, BalanceAsOf, SumFunction
  <2>12. BalanceAsOf(checkpoint[c].account, checkpoint[c].day)' = SumFunctionOnSet(g, S \cup {e})
    <3>1. checkpoint'[c].account = a /\ checkpoint'[c].day = d
      <4>1. \E r : checkpoint' = [checkpoint EXCEPT ![c].resolution = r]
        BY <1>1, <2>4 DEF CommitAdjust
      <4> QED
        BY <1>1, <2>0, <2>2, <4>1 DEF BooksInv, BooksTyped, CheckpointRows
    <3>2. BalanceAsOf(checkpoint[c].account, checkpoint[c].day)' =
            SumFunction([x \in {y \in Entries : entry'[y].status = "posted" /\ entry'[y].legs[a] # 0
                                                /\ entry'[y].day <= d} |-> entry'[x].legs[a]])
      <4>1. {x \in {y \in Entries : entry'[y].status = "posted" /\ entry'[y].legs[a] # 0} : entry'[x].day <= d}
              = {y \in Entries : entry'[y].status = "posted" /\ entry'[y].legs[a] # 0 /\ entry'[y].day <= d}
        OBVIOUS
      <4> QED
        BY <3>1, <4>1 DEF BalanceAsOf, History
    <3>3. BalanceAsOf(checkpoint[c].account, checkpoint[c].day)' = SumFunction(g)
      BY <2>10, <3>2
    <3>4. DOMAIN g = S \cup {e}
      OBVIOUS
    <3> HIDE DEF g, S
    <3> QED
      BY <3>3, <3>4 DEF SumFunction
  <2>13. SumFunctionOnSet(g, S \cup {e}) = g[e] + SumFunctionOnSet(g, (S \cup {e}) \ {e})
    <3>1. IsFiniteSet(S \cup {e})
      BY AccountsAssumption, FS_Subset DEF History
    <3>2. \A x \in S \cup {e} : g[x] \in Int
      <4>1. \A x \in S \cup {e} : entry'[x] \in EntryRows
        BY <1>1, NextBooks DEF BooksInv, BooksTyped, History
      <4> QED
        BY <2>3, <4>1 DEF EntryRows
    <3>3. e \in S \cup {e}
      OBVIOUS
    <3> HIDE DEF g, S
    <3> QED
      BY <3>1, <3>2, <3>3, SumTakes
  <2>14. SumFunctionOnSet(g, (S \cup {e}) \ {e}) = SumFunctionOnSet(f, S)
    <3>1. IsFiniteSet(S)
      BY AccountsAssumption, FS_Subset DEF History
    <3>2. \A x \in S : g[x] = f[x]
      BY <2>9, <2>10 DEF History
    <3>3. (S \cup {e}) \ {e} = S
      BY <2>10
    <3> HIDE DEF f, g, S
    <3> QED
      BY <3>1, <3>2, <3>3, SumAgrees
  <2>15. g[e] = b - session[s].read
    BY <2>8, <2>9
  <2> HIDE DEF f, g, S
  <2>16. SumFunctionOnSet(g, S \cup {e}) = b
    BY <2>2, <2>3, <2>11, <2>13, <2>14, <2>15
  <2> QED
    BY <2>0, <2>12, <2>16
<1>2. BooksInv /\ [Next]_vars =>
          [\A s \in Sessions, c \in Checkpoints :
              /\ checkpoint[c].resolution = None /\ checkpoint'[c].resolution # None
              /\ session[s].checkpoint = c
              /\ session[s].read = LedgerBalance(c)
              => BalanceAsOf(checkpoint[c].account, checkpoint[c].day)' = checkpoint[c].balance]_vars
  BY <1>1
<1> QED
  BY <1>2, SpecBooks, PTL DEF Spec, ReportedReached

-----------------------------------------------------------------------------
(* What consumeFifo takes of each lot. *)

LEMMA GreaterOfTwo ==
  ASSUME NEW a \in Int, NEW b \in Int
  PROVE  Max({a, b}) = IF a >= b THEN a ELSE b
<1> DEFINE IsMax(x) == x \in {a, b} /\ \A y \in {a, b} : x >= y
<1>1. \E x : IsMax(x)
  BY DEF IsMax
<1>2. Max({a, b}) = CHOOSE x : IsMax(x)
  BY DEF Max
<1>3. IsMax(Max({a, b}))
  <2> HIDE DEF IsMax
  <2> QED
    BY <1>1, <1>2
<1> QED
  BY <1>3

LEMMA LesserOfTwo ==
  ASSUME NEW a \in Int, NEW b \in Int
  PROVE  Min({a, b}) = IF a <= b THEN a ELSE b
<1> DEFINE IsMin(x) == x \in {a, b} /\ \A y \in {a, b} : x <= y
<1>1. \E x : IsMin(x)
  BY DEF IsMin
<1>2. Min({a, b}) = CHOOSE x : IsMin(x)
  BY DEF Min
<1>3. IsMin(Min({a, b}))
  <2> HIDE DEF IsMin
  <2> QED
    BY <1>1, <1>2
<1> QED
  BY <1>3

\* The units in the lots before l, which are finitely many whatever Trades is.
LEMMA OlderUnits ==
  ASSUME NEW remaining \in [Trades -> Nat], NEW l \in Trades
  PROVE  IsFiniteSet(Older(l)) /\ SumFunctionOnSet(remaining, Older(l)) \in Nat
<1>1. IsFiniteSet(Older(l))
  BY LotsAssumption, FS_Subset DEF Older
<1>2. \A k \in Older(l) : remaining[k] \in Nat
  BY DEF Older
<1> QED
  BY <1>1, <1>2, SumIsNat

\* A sale takes of a lot what the older ones leave to take, and no more than it has.
LEMMA AllocationIs ==
  ASSUME NEW remaining \in [Trades -> Nat], NEW qty \in Nat, NEW l \in Trades
  PROVE  LET left == qty - SumFunctionOnSet(remaining, Older(l))
         IN  Allocation(remaining, qty)[l] =
                IF left <= 0 THEN 0 ELSE IF left <= remaining[l] THEN left ELSE remaining[l]
<1> DEFINE left == qty - SumFunctionOnSet(remaining, Older(l))
<1>1. left \in Int
  BY OlderUnits
<1>2. remaining[l] \in Nat
  OBVIOUS
<1>3. Allocation(remaining, qty)[l] = Max({0, Min({remaining[l], left})})
  BY DEF Allocation
<1> HIDE DEF left
<1>4. Min({remaining[l], left}) = IF remaining[l] <= left THEN remaining[l] ELSE left
  BY <1>1, <1>2, LesserOfTwo
<1> DEFINE taken == Min({remaining[l], left})
<1>5. taken \in Int
  BY <1>1, <1>2, <1>4
<1>6. Allocation(remaining, qty)[l] = IF 0 >= taken THEN 0 ELSE taken
  <2> HIDE DEF taken
  <2>1. Max({0, taken}) = IF 0 >= taken THEN 0 ELSE taken
    BY <1>5, GreaterOfTwo
  <2> QED
    BY <1>3, <2>1 DEF taken
<1>7. Allocation(remaining, qty)[l] =
         IF left <= 0 THEN 0 ELSE IF left <= remaining[l] THEN left ELSE remaining[l]
  BY <1>1, <1>2, <1>4, <1>6
<1> QED
  BY <1>7 DEF left

LEMMA AllocationFits ==
  ASSUME NEW remaining \in [Trades -> Nat], NEW qty \in Nat
  PROVE  /\ Allocation(remaining, qty) \in [Trades -> Nat]
         /\ \A l \in Trades : Allocation(remaining, qty)[l] <= remaining[l]
<1>1. ASSUME NEW l \in Trades
      PROVE  Allocation(remaining, qty)[l] \in Nat /\ Allocation(remaining, qty)[l] <= remaining[l]
  <2> DEFINE left == qty - SumFunctionOnSet(remaining, Older(l))
  <2>1. left \in Int
    BY OlderUnits
  <2>2. remaining[l] \in Nat
    OBVIOUS
  <2>3. Allocation(remaining, qty)[l] =
           IF left <= 0 THEN 0 ELSE IF left <= remaining[l] THEN left ELSE remaining[l]
    BY AllocationIs
  <2> HIDE DEF left
  <2> QED
    BY <2>1, <2>2, <2>3
<1>2. Allocation(remaining, qty) = [l \in Trades |-> Allocation(remaining, qty)[l]]
  BY DEF Allocation
<1> QED
  BY <1>1, <1>2

\* A lot that is taken from leaves nothing in an older one.
LEMMA OlderFirst ==
  ASSUME NEW remaining \in [Trades -> Nat], NEW qty \in Nat, NEW l \in Trades,
         Allocation(remaining, qty)[l] > 0, NEW k \in Older(l)
  PROVE  Allocation(remaining, qty)[k] = remaining[k]
<1> DEFINE before(x) == SumFunctionOnSet(remaining, Older(x))
<1>1. k \in Trades /\ Older(k) \cup {k} \subseteq Older(l) /\ k \notin Older(k)
  <2>1. k \in Trades /\ k < l
    BY DEF Older
  <2>2. \A x \in Trades : x \in Nat
    BY LotsAssumption
  <2>3. ASSUME NEW x \in Trades, x < k
        PROVE  x < l
    <3>1. x \in Nat /\ k \in Nat /\ l \in Nat
      BY <2>1, <2>2
    <3> QED
      BY <2>1, <2>3, <3>1
  <2>4. ~(k < k)
    BY <2>1, <2>2
  <2> QED
    BY <2>1, <2>3, <2>4 DEF Older
<1>2. before(l) \in Nat /\ before(k) \in Nat /\ remaining[k] \in Nat /\ remaining[l] \in Nat
  BY <1>1, OlderUnits
<1>3. before(k) + remaining[k] <= before(l)
  <2> DEFINE both == Older(k) \cup {k}
  <2>1. IsFiniteSet(both) /\ IsFiniteSet(Older(l))
    BY <1>1, OlderUnits, FS_AddElement
  <2>2. \A x \in Older(l) : remaining[x] \in Nat
    BY DEF Older
  <2>3. SumFunctionOnSet(remaining, both) <= SumFunctionOnSet(remaining, Older(l))
    BY <1>1, <2>1, <2>2, SumOfPart
  <2>4. both \ {k} = Older(k) /\ k \in both
    BY <1>1
  <2>5. \A x \in both : remaining[x] \in Int
    BY <1>1, <2>2
  <2> HIDE DEF both
  <2>6. SumFunctionOnSet(remaining, both) = remaining[k] + SumFunctionOnSet(remaining, Older(k))
    BY <2>1, <2>4, <2>5, SumTakes
  <2> QED
    BY <1>2, <2>3, <2>6
<1>4. /\ Allocation(remaining, qty)[l] =
            IF qty - before(l) <= 0 THEN 0
            ELSE IF qty - before(l) <= remaining[l] THEN qty - before(l) ELSE remaining[l]
      /\ Allocation(remaining, qty)[k] =
            IF qty - before(k) <= 0 THEN 0
            ELSE IF qty - before(k) <= remaining[k] THEN qty - before(k) ELSE remaining[k]
  BY <1>1, AllocationIs
<1> HIDE DEF before
<1> QED
  BY <1>2, <1>3, <1>4

-----------------------------------------------------------------------------
(* What sales, reversals and rows keep while any number of sessions trade. *)

Selling(s) == trader[s].pc \in {"previewed", "selling", "locking", "locked", "allocated"}

\* A sale has an entry of its own, which nothing has written yet.
SalesApart ==
    /\ \A s \in Traders : trader[s].pc = "idle" => trader[s].entry = Null
    /\ \A s \in Traders : Selling(s) =>
          trader[s].entry \in Trades /\ journal[trader[s].entry].status = "free"
    /\ \A s, t \in Traders :
          Selling(s) /\ Selling(t) /\ trader[s].entry = trader[t].entry => s = t

\* A sale holds the account of its place, and the lots that it asked for and found open.
LocksHeld ==
    \A s \in Traders :
        /\ Selling(s) => trader[s].place \in Places
        /\ Selling(s) /\ trader[s].pc # "previewed" => accountLock[trader[s].place] = s
        /\ trader[s].pc \in {"locked", "allocated"} => \A l \in trader[s].locked : lotLock[l] = s

\* Only a sale that has allocated its units, and a reversal, has writes to make; what the
\* sale takes is what it sells.  They are writes of lots that a buy has opened.
PlansSound ==
    \A s \in Traders :
        /\ trader[s].lot # Null => trader[s].pc = "reversing"
        /\ trader[s].pc = "reversing" => trader[s].locked = {}
        /\ trader[s].pc \notin {"allocated", "reversing"} => \A l \in Trades : trader[s].written[l] = Null
        /\ trader[s].pc = "allocated" =>
              /\ SumFunction(trader[s].taken) = trader[s].qty
              /\ \A l \in Trades : trader[s].written[l] # Null <=> trader[s].taken[l] > 0
        /\ \A l \in Trades : Plans(s, l) => journal[l].status # "free" /\ journal[l].kind = "buy"

\* Lots that a reversal has to write, is writing or has written.
Touched(s) == {l \in Trades : l \in trader[s].todo \/ Plans(s, l)}

\* A reversal holds its entry, which stays posted, and has to write the lots the entry wrote.
ReversalsHold ==
    \A s \in Traders :
        trader[s].pc = "reversing" =>
            /\ trader[s].entry \in Trades
            /\ entryLock[trader[s].entry] = s
            /\ journal[trader[s].entry].status = "posted"
            /\ trader[s].place = journal[trader[s].entry].place
            /\ Touched(s) = WrittenBy(trader[s].entry)

\* A free entry has no row, only a buy has a lot, and only sales consume.
OwnRows ==
    \A e \in Trades :
        /\ journal[e].status = "free" => journal[e] = NoEntry
        /\ journal[e].status = "free" \/ journal[e].kind = "sell" =>
              lot[e] = NoLot /\ \A x \in Trades : consumed[e][x] = 0
        /\ journal[e].kind = "buy" => \A l \in Trades : consumed[l][e] = 0

LotsInv == LotsTypeOK /\ SalesApart /\ LocksHeld /\ PlansSound /\ ReversalsHold /\ OwnRows

LEMMA NoTradeIs ==
  /\ NoTrade \in TraderStates
  /\ NoTrade.pc = "idle" /\ NoTrade.entry = Null /\ NoTrade.todo = {} /\ NoTrade.lot = Null
  /\ NoTrade.written = [l \in Trades |-> Null] /\ NoTrade.locked = {}
BY DEF NoTrade, Trading, TraderStates

LEMMA LotsInitInv == LotsInit => LotsInv
<1> SUFFICES ASSUME LotsInit PROVE LotsInv
  OBVIOUS
<1>1. NoEntry \in JournalRows /\ NoLot \in LotRows /\ NoEntry.status = "free" /\ NoEntry.kind = "buy"
  BY DEF NoEntry, NoLot, JournalRows, LotRows
<1>2. LotsTypeOK
  BY <1>1, NoTradeIs DEF LotsInit, LotsTypeOK
<1>3. \A s \in Traders : trader[s] = NoTrade
  BY DEF LotsInit
<1>4. SalesApart /\ LocksHeld /\ ReversalsHold
  BY <1>3, NoTradeIs DEF SalesApart, Selling, LocksHeld, ReversalsHold
<1>5. PlansSound
  <2>1. Null \notin Trades
    BY LotsAssumption
  <2> QED
    BY <1>3, <2>1, NoTradeIs DEF PlansSound, Plans
<1>6. OwnRows
  BY <1>1 DEF LotsInit, OwnRows
<1> QED
  BY <1>2, <1>4, <1>5, <1>6 DEF LotsInv

LEMMA RemainingType ==
  ASSUME LotsTypeOK
  PROVE  Remaining \in [Trades -> Nat] /\ \A l \in Trades : Remaining[l] = lot[l].remaining
BY DEF LotsTypeOK, LotRows, Remaining

\* The lots after the writes of a session keep what they were opened with, and those it has
\* no write of stay as they are.
LEMMA WritesAre ==
  ASSUME LotsTypeOK, NEW s \in Traders
  PROVE  /\ WithWritesOf(s) \in [Trades -> LotRows]
         /\ \A l \in Trades :
               /\ trader[s].written[l] = Null => WithWritesOf(s)[l] = lot[l]
               /\ trader[s].written[l] # Null => WithWritesOf(s)[l].remaining = trader[s].written[l]
               /\ WithWritesOf(s)[l].opened = lot[l].opened
               /\ WithWritesOf(s)[l].unitCost = lot[l].unitCost
<1>1. ASSUME NEW l \in Trades
      PROVE  /\ WithWritesOf(s)[l] \in LotRows
             /\ trader[s].written[l] = Null => WithWritesOf(s)[l] = lot[l]
             /\ trader[s].written[l] # Null => WithWritesOf(s)[l].remaining = trader[s].written[l]
             /\ WithWritesOf(s)[l].opened = lot[l].opened
             /\ WithWritesOf(s)[l].unitCost = lot[l].unitCost
  <2>1. lot[l] \in LotRows /\ trader[s].written[l] \in Nat \cup {Null}
    BY DEF LotsTypeOK, TraderStates
  <2>2. WithWritesOf(s)[l] = IF trader[s].written[l] = Null THEN lot[l]
                             ELSE [lot[l] EXCEPT !.remaining = trader[s].written[l]]
    BY DEF WithWritesOf
  <2> QED
    BY <2>1, <2>2 DEF LotRows
<1>2. WithWritesOf(s) = [l \in Trades |-> WithWritesOf(s)[l]]
  BY DEF WithWritesOf
<1> QED
  BY <1>1, <1>2

\* What the sale of s writes.
LEMMA CommitSellWrites ==
  ASSUME LotsInv, NEW s \in Traders, CommitSell(s)
  PROVE  LET e == trader[s].entry
         IN  /\ e \in Trades /\ journal[e] = NoEntry /\ trader[s].qty \in Nat
             /\ trader[s].pc = "allocated"
             /\ SoldEntry(s) \in JournalRows /\ SoldEntry(s).status = "posted"
             /\ SoldEntry(s).kind = "sell" /\ SoldEntry(s).qty = trader[s].qty
             /\ SoldEntry(s).place = trader[s].place
             /\ journal' = [journal EXCEPT ![e] = SoldEntry(s)]
             /\ trader[s].taken \in [Trades -> Nat]
             /\ SumFunctionOnSet(trader[s].taken, Trades) = trader[s].qty
             /\ \A l \in Trades : trader[s].written[l] # Null <=> trader[s].taken[l] > 0
             /\ \A l \in Trades :
                   trader[s].taken[l] > 0 => journal[l].status # "free" /\ journal[l].kind = "buy"
             /\ lot' = WithWritesOf(s)
             /\ \A l \in Trades : consumed'[l] = [consumed[l] EXCEPT ![e] = trader[s].taken[l]]
             /\ consumed' = [l \in Trades |-> consumed'[l]]
             /\ UNCHANGED raced
<1> DEFINE e == trader[s].entry
           taken == trader[s].taken
<1>1. trader[s].pc = "allocated" /\ trader[s] \in TraderStates /\ LotsTypeOK
  BY DEF CommitSell, LotsInv, LotsTypeOK
<1>2. e \in Trades /\ journal[e] = NoEntry /\ trader[s].place \in Places
  BY <1>1 DEF LotsInv, SalesApart, LocksHeld, Selling, OwnRows
<1>3. trader[s].qty \in Nat /\ taken \in [Trades -> Nat] /\ trader[s].cost \in Nat
  BY <1>1 DEF TraderStates
<1>4. /\ SumFunction(taken) = trader[s].qty
      /\ \A l \in Trades : trader[s].written[l] # Null <=> taken[l] > 0
      /\ \A l \in Trades : taken[l] > 0 => journal[l].status # "free" /\ journal[l].kind = "buy"
  BY <1>1 DEF LotsInv, PlansSound, Plans
<1>5. SumFunctionOnSet(taken, Trades) = trader[s].qty
  <2>1. DOMAIN taken = Trades
    BY <1>3
  <2> QED
    BY <1>4, <2>1 DEF SumFunction
<1>6. /\ SoldEntry(s) \in JournalRows /\ SoldEntry(s).status = "posted"
      /\ SoldEntry(s).kind = "sell" /\ SoldEntry(s).qty = trader[s].qty
      /\ SoldEntry(s).place = trader[s].place
  <2>1. -trader[s].cost \in Int
    BY <1>3
  <2> QED
    BY <1>2, <1>3, <2>1 DEF SoldEntry, JournalRows
<1>7. /\ journal' = [journal EXCEPT ![e] = SoldEntry(s)] /\ lot' = WithWritesOf(s)
      /\ consumed' = [l \in Trades |-> [consumed[l] EXCEPT ![e] = taken[l]]]
      /\ UNCHANGED raced
  BY DEF CommitSell, TradeEnded
<1> HIDE DEF e, taken
<1>8. /\ \A l \in Trades : consumed'[l] = [consumed[l] EXCEPT ![e] = taken[l]]
      /\ consumed' = [l \in Trades |-> consumed'[l]]
  BY <1>7
<1> QED
  BY <1>1, <1>2, <1>3, <1>4, <1>5, <1>6, <1>7, <1>8 DEF e, taken

\* A reversal voids its entry, and rewrites the lots that the entry wrote.
LEMMA CommitReverseWrites ==
  ASSUME LotsInv, NEW s \in Traders, CommitReverse(s)
  PROVE  LET e == trader[s].entry
         IN  /\ e \in Trades /\ journal[e].status = "posted" /\ journal' = [journal EXCEPT ![e].status = "void"]
             /\ trader[s].pc = "reversing" /\ entryLock[e] = s
             /\ trader[s].place = journal[e].place /\ accountLock[journal[e].place] = Null
             /\ lot' = WithWritesOf(s)
             /\ \A l \in Trades : l \in WrittenBy(e) <=> trader[s].written[l] # Null
             /\ \A l \in WrittenBy(e) : journal[l].status # "free" /\ journal[l].kind = "buy"
             /\ consumed' = [l \in Trades |-> [consumed[l] EXCEPT ![e] = 0]]
             /\ UNCHANGED raced
<1> DEFINE e == trader[s].entry
<1>1. /\ trader[s].pc = "reversing" /\ trader[s].todo = {} /\ trader[s].lot = Null
      /\ accountLock[trader[s].place] = Null
      /\ journal' = [journal EXCEPT ![e].status = "void"] /\ lot' = WithWritesOf(s)
      /\ consumed' = [l \in Trades |-> [consumed[l] EXCEPT ![e] = 0]]
      /\ UNCHANGED raced
  BY DEF CommitReverse, TradeEnded
<1>2. /\ e \in Trades /\ entryLock[e] = s /\ journal[e].status = "posted"
      /\ trader[s].place = journal[e].place /\ Touched(s) = WrittenBy(e)
  BY <1>1 DEF LotsInv, ReversalsHold
<1>3. \A l \in Trades : l \in WrittenBy(e) <=> trader[s].written[l] # Null
  <2>1. Null \notin Trades
    BY LotsAssumption
  <2> QED
    BY <1>1, <1>2, <2>1 DEF Touched, Plans
<1>4. WrittenBy(e) \subseteq Trades
  BY <1>2 DEF WrittenBy
<1>5. \A l \in WrittenBy(e) : journal[l].status # "free" /\ journal[l].kind = "buy"
  BY <1>3, <1>4 DEF LotsInv, PlansSound, Plans
<1> QED
  BY <1>1, <1>2, <1>3, <1>5

\* Only the commits of the three requests write rows.
LEMMA RowsWritten ==
  ASSUME [LotsNext]_lotsVars
  PROVE  \/ UNCHANGED rows
         \/ \E s \in Traders, e \in Trades, p \in Places, qty \in Bought, unitCost \in UnitCosts :
               Buy(s, e, p, qty, unitCost)
         \/ \E s \in Traders : CommitSell(s)
         \/ \E s \in Traders : CommitReverse(s)
<1>1. CASE UNCHANGED lotsVars
  BY <1>1 DEF lotsVars, rows
<1>2. ASSUME NEW s \in Traders, BeginTrade(s)
      PROVE  \/ UNCHANGED rows
             \/ \E e \in Trades, p \in Places, qty \in Bought, unitCost \in UnitCosts :
                   Buy(s, e, p, qty, unitCost)
  <2>1. ASSUME NEW e \in Trades, NEW p \in Places, NEW qty \in Sold, PreviewSell(s, e, p, qty)
        PROVE  UNCHANGED rows
    BY <2>1, Zenon DEF PreviewSell, rows
  <2>2. ASSUME NEW e \in Trades, BeginReverse(s, e)
        PROVE  UNCHANGED rows
    BY <2>2, Zenon DEF BeginReverse, rows
  <2> QED
    BY <1>2, <2>1, <2>2 DEF BeginTrade
<1>3. ASSUME NEW s \in Traders, ContinueTrade(s)
      PROVE  UNCHANGED rows \/ CommitSell(s) \/ CommitReverse(s)
  BY <1>3 DEF ContinueTrade, LockAccount, FindLots, LockLots, Allocate, ReadLot, WriteLot, TradeAborted, rows
<1>4. ASSUME NEW s \in Traders, BreakDeadlock(s) \/ RollbackTrade(s)
      PROVE  UNCHANGED rows
  BY <1>4 DEF BreakDeadlock, RollbackTrade, TradeAborted
<1> QED
  BY <1>1, <1>2, <1>3, <1>4 DEF LotsNext

\* The end of a transaction keeps the locks of the others.
LEMMA TradeEndedKeeps ==
  ASSUME LotsTypeOK, NEW s \in Traders, TradeEnded(s)
  PROVE  /\ trader' \in [Traders -> TraderStates]
         /\ trader'[s] = NoTrade /\ \A t \in Traders : t # s => trader'[t] = trader[t]
         /\ accountLock' \in [Places -> Traders \cup {Null}]
         /\ lotLock' \in [Trades -> Traders \cup {Null}]
         /\ entryLock' \in [Trades -> Traders \cup {Null}]
         /\ \A t \in Traders : t # s =>
               /\ \A p \in Places : accountLock[p] = t => accountLock'[p] = t
               /\ \A l \in Trades : lotLock[l] = t => lotLock'[l] = t
               /\ \A e \in Trades : entryLock[e] = t => entryLock'[e] = t
         /\ UNCHANGED raced
BY NoTradeIs DEF TradeEnded, LotsTypeOK

LEMMA TradingType ==
  ASSUME NEW pc \in {"previewed", "reversing"}, NEW e \in Trades, NEW p \in Places \cup {Null},
         NEW qty \in Nat, NEW cost \in Nat, NEW todo \in SUBSET Trades
  PROVE  /\ Trading(pc, e, p, qty, cost, todo) \in TraderStates
         /\ Trading(pc, e, p, qty, cost, todo).pc = pc /\ Trading(pc, e, p, qty, cost, todo).entry = e
         /\ Trading(pc, e, p, qty, cost, todo).place = p /\ Trading(pc, e, p, qty, cost, todo).locked = {}
         /\ Trading(pc, e, p, qty, cost, todo).todo = todo /\ Trading(pc, e, p, qty, cost, todo).lot = Null
         /\ Trading(pc, e, p, qty, cost, todo).written = [l \in Trades |-> Null]
BY DEF Trading, TraderStates

LEMMA CostIsNat ==
  ASSUME LotsTypeOK, NEW allocation \in [Trades -> Nat]
  PROVE  CostOf(allocation) \in Nat
<1> DEFINE costs == [l \in Trades |-> allocation[l] * lot[l].unitCost]
<1>1. \A l \in Trades : costs[l] \in Nat
  <2>1. \A l \in Trades : allocation[l] \in Nat /\ lot[l].unitCost \in Nat
    BY DEF LotsTypeOK, LotRows
  <2>2. \A a, b \in Nat : a * b \in Nat
    OBVIOUS
  <2> QED
    BY <2>1, <2>2
<1>2. CostOf(allocation) = SumFunctionOnSet(costs, Trades)
  BY DEF CostOf, SumFunction
<1> HIDE DEF costs
<1>3. IsFiniteSet(Trades)
  BY LotsAssumption
<1>4. SumFunctionOnSet(costs, Trades) \in Nat
  BY <1>1, <1>3, SumIsNat
<1> QED
  BY <1>2, <1>4

\* What recordBuy writes.
LEMMA BuyWrites ==
  ASSUME LotsInv, NEW s \in Traders, NEW e \in Trades, NEW p \in Places, NEW qty \in Bought,
         NEW unitCost \in UnitCosts, Buy(s, e, p, qty, unitCost)
  PROVE  /\ qty \in Nat /\ unitCost \in Nat /\ journal[e] = NoEntry /\ accountLock[p] = Null
         /\ \A t \in Traders : trader[t].entry # e
         /\ \A x \in Trades : x # e => journal'[x] = journal[x] /\ lot'[x] = lot[x]
         /\ journal'[e].status = "posted" /\ journal'[e].kind = "buy" /\ journal'[e].place = p
         /\ lot'[e].opened = qty /\ lot'[e].remaining = qty
         /\ journal' \in [Trades -> JournalRows] /\ lot' \in [Trades -> LotRows]
         /\ UNCHANGED <<consumed, accountLock, lotLock, entryLock, trader, raced>>
<1> DEFINE row == [status |-> "posted", kind |-> "buy", place |-> p, qty |-> qty, book |-> qty * unitCost]
           opened == [opened |-> qty, remaining |-> qty, unitCost |-> unitCost]
<1>1. qty \in Nat /\ unitCost \in Nat
  BY LotsAssumption
<1>2. qty * unitCost \in Int
  BY <1>1
<1>3. row \in JournalRows /\ row.status = "posted" /\ row.kind = "buy" /\ row.place = p
  BY <1>1, <1>2 DEF JournalRows
<1>4. opened \in LotRows /\ opened.opened = qty /\ opened.remaining = qty
  BY <1>1 DEF LotRows
<1>5. /\ journal' = [journal EXCEPT ![e] = row] /\ lot' = [lot EXCEPT ![e] = opened]
      /\ accountLock[p] = Null /\ journal[e].status = "free" /\ \A t \in Traders : trader[t].entry # e
      /\ UNCHANGED <<consumed, accountLock, lotLock, entryLock, trader, raced>>
  BY DEF Buy, FreshEntries
<1>6. journal[e] = NoEntry
  BY <1>5 DEF LotsInv, OwnRows
<1> HIDE DEF row, opened
<1>7. /\ \A x \in Trades : x # e => journal'[x] = journal[x] /\ lot'[x] = lot[x]
      /\ journal'[e] = row /\ lot'[e] = opened
      /\ journal' \in [Trades -> JournalRows] /\ lot' \in [Trades -> LotRows]
  BY <1>3, <1>4, <1>5 DEF LotsInv, LotsTypeOK
<1> QED
  BY <1>1, <1>3, <1>4, <1>5, <1>6, <1>7

LEMMA RowsStep ==
  ASSUME LotsInv, [LotsNext]_lotsVars
  PROVE  /\ journal' \in [Trades -> JournalRows]
         /\ lot' \in [Trades -> LotRows]
         /\ consumed' \in [Trades -> [Trades -> Nat]]
<1>0. LotsTypeOK
  BY DEF LotsInv
<1>1. CASE UNCHANGED rows
  BY <1>0, <1>1 DEF LotsTypeOK, rows
<1>2. ASSUME NEW s \in Traders, NEW e \in Trades, NEW p \in Places, NEW qty \in Bought,
             NEW unitCost \in UnitCosts, Buy(s, e, p, qty, unitCost)
      PROVE  /\ journal' \in [Trades -> JournalRows] /\ lot' \in [Trades -> LotRows]
             /\ consumed' \in [Trades -> [Trades -> Nat]]
  BY <1>0, <1>2, BuyWrites DEF LotsTypeOK
<1>3. ASSUME NEW s \in Traders, CommitSell(s)
      PROVE  /\ journal' \in [Trades -> JournalRows] /\ lot' \in [Trades -> LotRows]
             /\ consumed' \in [Trades -> [Trades -> Nat]]
  <2> DEFINE e == trader[s].entry
             taken == trader[s].taken
             row == SoldEntry(s)
  <2>1. /\ e \in Trades /\ row \in JournalRows /\ journal' = [journal EXCEPT ![e] = row]
        /\ taken \in [Trades -> Nat] /\ lot' = WithWritesOf(s)
        /\ \A l \in Trades : consumed'[l] = [consumed[l] EXCEPT ![e] = taken[l]]
        /\ consumed' = [l \in Trades |-> consumed'[l]]
    BY <1>3, CommitSellWrites
  <2> HIDE DEF e, taken, row
  <2>2. journal' \in [Trades -> JournalRows]
    BY <1>0, <2>1 DEF LotsTypeOK
  <2>3. ASSUME NEW l \in Trades
        PROVE  consumed'[l] \in [Trades -> Nat]
    <3>1. consumed[l] \in [Trades -> Nat] /\ taken[l] \in Nat
      BY <1>0, <2>1 DEF LotsTypeOK
    <3> QED
      BY <2>1, <3>1
  <2>4. consumed' \in [Trades -> [Trades -> Nat]]
    BY <2>1, <2>3
  <2> QED
    BY <1>0, <2>1, <2>2, <2>4, WritesAre
<1>4. ASSUME NEW s \in Traders, CommitReverse(s)
      PROVE  /\ journal' \in [Trades -> JournalRows] /\ lot' \in [Trades -> LotRows]
             /\ consumed' \in [Trades -> [Trades -> Nat]]
  <2> DEFINE e == trader[s].entry
  <2>1. /\ e \in Trades /\ journal' = [journal EXCEPT ![e].status = "void"] /\ lot' = WithWritesOf(s)
        /\ consumed' = [l \in Trades |-> [consumed[l] EXCEPT ![e] = 0]]
    BY <1>4, CommitReverseWrites
  <2>2. journal' \in [Trades -> JournalRows]
    <3> DEFINE voided == [journal[e] EXCEPT !.status = "void"]
    <3>1. journal[e] \in JournalRows /\ journal \in [Trades -> JournalRows]
      BY <1>0, <2>1 DEF LotsTypeOK
    <3>2. voided \in JournalRows
      BY <3>1 DEF JournalRows
    <3>3. journal' = [journal EXCEPT ![e] = voided]
      BY <2>1
    <3> HIDE DEF voided
    <3> QED
      BY <3>1, <3>2, <3>3
  <2>3. consumed' \in [Trades -> [Trades -> Nat]]
    BY <1>0, <2>1 DEF LotsTypeOK
  <2> QED
    BY <1>0, <2>1, <2>2, <2>3, WritesAre
<1> QED
  BY <1>1, <1>2, <1>3, <1>4, RowsWritten

\* What a lot is left with once an entry that wrote it is reversed.
Restored(e, l) == IF journal[e].kind = "buy" THEN 0 ELSE lot[l].remaining + consumed[l][e]

\* The steps of a session that has begun, one by one.
LEMMA PreviewIs ==
  ASSUME LotsTypeOK, NEW s \in Traders, NEW e \in Trades, NEW p \in Places, NEW qty \in Sold,
         PreviewSell(s, e, p, qty)
  PROVE  /\ trader' \in [Traders -> TraderStates]
         /\ trader[s] = NoTrade /\ e \in FreshEntries
         /\ trader'[s].pc = "previewed" /\ trader'[s].entry = e /\ trader'[s].place = p
         /\ trader'[s].locked = {} /\ trader'[s].lot = Null
         /\ trader'[s].written = [l \in Trades |-> Null]
         /\ \A t \in Traders : t # s => trader'[t] = trader[t]
         /\ UNCHANGED <<rows, accountLock, lotLock, entryLock, raced>>
<1> DEFINE cost == CostOf(Allocation(Remaining, qty))
           row == Trading("previewed", e, p, qty, cost, {})
<1>1. qty \in Nat
  BY LotsAssumption
<1>2. cost \in Nat
  BY <1>1, RemainingType, AllocationFits, CostIsNat
<1>3. /\ trader[s] = NoTrade /\ e \in FreshEntries /\ trader' = [trader EXCEPT ![s] = row]
      /\ UNCHANGED <<rows, accountLock, lotLock, entryLock, raced>>
  BY DEF PreviewSell
<1> HIDE DEF cost
<1>4. /\ row \in TraderStates /\ row.pc = "previewed" /\ row.entry = e /\ row.place = p
      /\ row.locked = {} /\ row.lot = Null /\ row.written = [l \in Trades |-> Null]
  BY <1>1, <1>2 DEF Trading, TraderStates
<1> HIDE DEF row
<1> QED
  BY <1>3, <1>4 DEF LotsTypeOK

\* Taking the account, finding the lots and locking them: the plan does not change.
LEMMA LockingIs ==
  ASSUME LotsInv, NEW s \in Traders, LockAccount(s) \/ FindLots(s) \/ LockLots(s)
  PROVE  /\ trader' \in [Traders -> TraderStates]
         /\ accountLock' \in [Places -> Traders \cup {Null}]
         /\ lotLock' \in [Trades -> Traders \cup {Null}]
         /\ Selling(s) /\ trader[s].pc # "allocated"
         /\ trader'[s].pc \in {"selling", "locking", "locked"}
         /\ trader'[s].entry = trader[s].entry /\ trader'[s].place = trader[s].place
         /\ trader'[s].lot = trader[s].lot /\ trader'[s].written = trader[s].written
         /\ accountLock'[trader[s].place] = s
         /\ trader'[s].pc = "locked" => \A l \in trader'[s].locked : lotLock'[l] = s
         /\ \A t \in Traders : t # s =>
               /\ trader'[t] = trader[t]
               /\ \A p \in Places : accountLock[p] = t => accountLock'[p] = t
               /\ \A l \in Trades : lotLock[l] = t => lotLock'[l] = t
         /\ UNCHANGED <<rows, entryLock, raced>>
<1>0. /\ LotsTypeOK /\ trader \in [Traders -> TraderStates] /\ trader[s] \in TraderStates
      /\ Null \notin Traders
  BY LotsAssumption DEF LotsInv, LotsTypeOK
<1>1. CASE LockAccount(s)
  <2> DEFINE row == [trader[s] EXCEPT !.pc = "selling"]
             p == trader[s].place
  <2>1. Selling(s) /\ trader[s].pc = "previewed" /\ p \in Places /\ accountLock[p] = Null
    BY <1>1 DEF LockAccount, Selling, LotsInv, LocksHeld
  <2>2. /\ row \in TraderStates /\ row.pc = "selling" /\ row.entry = trader[s].entry
        /\ row.place = p /\ row.lot = trader[s].lot /\ row.written = trader[s].written
    BY <1>0 DEF TraderStates
  <2>3. /\ trader' = [trader EXCEPT ![s] = row] /\ accountLock' = [accountLock EXCEPT ![p] = s]
        /\ UNCHANGED <<rows, lotLock, entryLock, raced>>
    BY <1>1 DEF LockAccount
  <2> HIDE DEF row, p
  <2>4. trader'[s] = row /\ accountLock'[p] = s
    BY <1>0, <2>1, <2>3 DEF LotsTypeOK
  <2> QED
    BY <1>0, <2>1, <2>2, <2>3, <2>4 DEF LotsTypeOK, p
<1>2. CASE FindLots(s)
  <2> DEFINE row == [trader[s] EXCEPT !.pc = "locking", !.locked = OpenLots]
  <2>1. Selling(s) /\ trader[s].pc = "selling"
    BY <1>2 DEF FindLots, Selling
  <2>2. OpenLots \in SUBSET Trades
    BY DEF OpenLots
  <2>3. /\ row \in TraderStates /\ row.pc = "locking" /\ row.entry = trader[s].entry
        /\ row.place = trader[s].place /\ row.lot = trader[s].lot /\ row.written = trader[s].written
    BY <1>0, <2>2 DEF TraderStates
  <2>4. trader' = [trader EXCEPT ![s] = row] /\ UNCHANGED <<rows, accountLock, lotLock, entryLock, raced>>
    BY <1>2 DEF FindLots
  <2>5. accountLock[trader[s].place] = s
    BY <2>1 DEF LotsInv, LocksHeld
  <2> HIDE DEF row
  <2>6. trader'[s] = row
    BY <1>0, <2>4
  <2> QED
    BY <1>0, <2>1, <2>3, <2>4, <2>5, <2>6 DEF LotsTypeOK
<1>3. CASE LockLots(s)
  <2> DEFINE found == trader[s].locked \cap OpenLots
             row == [trader[s] EXCEPT !.pc = "locked", !.locked = found]
  <2>1. Selling(s) /\ trader[s].pc = "locking" /\ \A l \in trader[s].locked : lotLock[l] = Null
    BY <1>3 DEF LockLots, Selling
  <2>2. found \in SUBSET Trades
    BY DEF OpenLots
  <2>3. \A l \in found : lotLock[l] = Null
    BY <2>1
  <2>4. /\ trader' = [trader EXCEPT ![s] = row]
        /\ lotLock' = [l \in Trades |-> IF l \in found THEN s ELSE lotLock[l]]
        /\ UNCHANGED <<rows, accountLock, entryLock, raced>>
    BY <1>3 DEF LockLots
  <2>5. accountLock[trader[s].place] = s
    BY <2>1 DEF LotsInv, LocksHeld
  <2> HIDE DEF found
  <2>6. /\ row \in TraderStates /\ row.pc = "locked" /\ row.entry = trader[s].entry /\ row.locked = found
        /\ row.place = trader[s].place /\ row.lot = trader[s].lot /\ row.written = trader[s].written
    BY <1>0, <2>2 DEF TraderStates
  <2> HIDE DEF row
  <2>7. trader'[s] = row
    BY <1>0, <2>4
  <2>8. /\ lotLock' \in [Trades -> Traders \cup {Null}]
        /\ \A l \in found : lotLock'[l] = s
        /\ \A t \in Traders, l \in Trades : t # s /\ lotLock[l] = t => lotLock'[l] = t
    BY <1>0, <2>2, <2>3, <2>4 DEF LotsTypeOK
  <2> QED
    BY <1>0, <2>1, <2>4, <2>5, <2>6, <2>7, <2>8 DEF LotsTypeOK
<1> QED
  BY <1>1, <1>2, <1>3

LEMMA OvertakenAre ==
  ASSUME NEW s \in Traders, NEW ls \in SUBSET Trades
  PROVE  Overtaken(s, ls) \in SUBSET Trades
BY DEF Overtaken

LEMMA AllocateIs ==
  ASSUME LotsInv, NEW s \in Traders, Allocate(s), ~TradeAborted(s)
  PROVE  LET allocation == Allocation(Remaining, trader[s].qty)
         IN  /\ trader' \in [Traders -> TraderStates]
             /\ trader[s].pc = "locked" /\ trader'[s].pc = "allocated"
             /\ trader'[s].entry = trader[s].entry /\ trader'[s].place = trader[s].place
             /\ trader'[s].qty = trader[s].qty /\ trader'[s].lot = trader[s].lot
             /\ trader'[s].locked = trader[s].locked
             /\ trader[s].qty \in Nat
             /\ trader'[s].taken = allocation /\ allocation \in [Trades -> Nat]
             /\ SumFunction(allocation) = trader[s].qty
             /\ \A l \in Trades :
                   /\ allocation[l] <= lot[l].remaining /\ lot[l].remaining \in Nat
                   /\ trader'[s].written[l] =
                         IF allocation[l] > 0 THEN lot[l].remaining - allocation[l] ELSE Null
                   /\ trader'[s].written[l] # Null <=> allocation[l] > 0
             /\ raced' = raced \cup Overtaken(s, {l \in Trades : allocation[l] > 0})
             /\ \A t \in Traders : t # s => trader'[t] = trader[t]
             /\ UNCHANGED <<rows, accountLock, lotLock, entryLock>>
<1> DEFINE allocation == Allocation(Remaining, trader[s].qty)
           written == [l \in Trades |->
                          IF allocation[l] > 0 THEN lot[l].remaining - allocation[l] ELSE Null]
           row == [trader[s] EXCEPT !.pc = "allocated", !.taken = allocation, !.written = written]
<1>0. LotsTypeOK /\ trader[s] \in TraderStates /\ trader \in [Traders -> TraderStates]
  BY DEF LotsInv, LotsTypeOK
<1>1. row = Allocated(s, allocation)
  BY DEF Allocated
<1>2. /\ trader[s].pc = "locked" /\ SumFunction(allocation) = trader[s].qty
      /\ trader' = [trader EXCEPT ![s] = Allocated(s, allocation)]
      /\ raced' = raced \cup Overtaken(s, {l \in Trades : allocation[l] > 0})
      /\ UNCHANGED <<rows, accountLock, lotLock, entryLock>>
  BY DEF Allocate
<1>3. trader[s].qty \in Nat
  BY <1>0 DEF TraderStates
<1>4. allocation \in [Trades -> Nat] /\ \A l \in Trades : allocation[l] <= lot[l].remaining
  BY <1>0, <1>3, RemainingType, AllocationFits
<1> HIDE DEF allocation
<1>5. ASSUME NEW l \in Trades
      PROVE  /\ lot[l].remaining \in Nat /\ written[l] \in Nat \cup {Null}
             /\ written[l] # Null <=> allocation[l] > 0
  <2>1. lot[l].remaining \in Nat /\ allocation[l] \in Nat
    BY <1>0, <1>4 DEF LotsTypeOK, LotRows
  <2>2. lot[l].remaining - allocation[l] \in Nat
    BY <1>4, <2>1
  <2>3. Null \notin Nat
    BY LotsAssumption
  <2> QED
    BY <2>1, <2>2, <2>3
<1>6. /\ written \in [Trades -> Nat \cup {Null}]
      /\ \A l \in Trades : written[l] = IF allocation[l] > 0 THEN lot[l].remaining - allocation[l] ELSE Null
  BY <1>5
<1> HIDE DEF written
<1>7. /\ row \in TraderStates /\ row.pc = "allocated" /\ row.entry = trader[s].entry
      /\ row.place = trader[s].place /\ row.qty = trader[s].qty /\ row.lot = trader[s].lot
      /\ row.locked = trader[s].locked /\ row.taken = allocation /\ row.written = written
  BY <1>0, <1>4, <1>6 DEF TraderStates
<1>8. trader' = [trader EXCEPT ![s] = row]
  BY <1>1, <1>2
<1> HIDE DEF row
<1>9. /\ trader'[s] = row /\ trader' \in [Traders -> TraderStates]
      /\ \A t \in Traders : t # s => trader'[t] = trader[t]
  BY <1>0, <1>7, <1>8
<1>10. \A l \in Trades :
          /\ allocation[l] <= lot[l].remaining /\ lot[l].remaining \in Nat
          /\ trader'[s].written[l] = IF allocation[l] > 0 THEN lot[l].remaining - allocation[l] ELSE Null
          /\ trader'[s].written[l] # Null <=> allocation[l] > 0
  BY <1>4, <1>5, <1>6, <1>7, <1>9
<1> QED
  BY <1>2, <1>3, <1>4, <1>7, <1>9, <1>10 DEF allocation

LEMMA BeginReverseIs ==
  ASSUME LotsInv, NEW s \in Traders, NEW e \in Trades, BeginReverse(s, e)
  PROVE  /\ trader' \in [Traders -> TraderStates] /\ entryLock' \in [Trades -> Traders \cup {Null}]
         /\ trader'[s].pc = "reversing" /\ trader'[s].entry = e /\ trader'[s].place = journal[e].place
         /\ trader'[s].locked = {} /\ trader'[s].todo = WrittenBy(e) /\ trader'[s].lot = Null
         /\ trader'[s].written = [l \in Trades |-> Null]
         /\ entryLock'[e] = s /\ journal[e].status = "posted"
         /\ \A t \in Traders : t # s =>
               /\ trader'[t] = trader[t]
               /\ \A x \in Trades : entryLock[x] = t => entryLock'[x] = t
         /\ UNCHANGED <<rows, accountLock, lotLock, raced>>
<1> DEFINE p == journal[e].place
           todo == WrittenBy(e)
           row == Trading("reversing", e, p, 0, 0, todo)
<1>0. LotsTypeOK /\ Null \notin Traders
  BY LotsAssumption DEF LotsInv
<1>1. p \in Places \cup {Null} /\ todo \in SUBSET Trades
  BY <1>0 DEF LotsTypeOK, JournalRows, WrittenBy
<1>2. /\ entryLock[e] = Null /\ entryLock' = [entryLock EXCEPT ![e] = s] /\ journal[e].status = "posted"
      /\ trader' = [trader EXCEPT ![s] = row]
      /\ UNCHANGED <<rows, accountLock, lotLock, raced>>
  BY DEF BeginReverse
<1> HIDE DEF p, todo
<1>3. /\ row \in TraderStates /\ row.pc = "reversing" /\ row.entry = e /\ row.place = p
      /\ row.locked = {} /\ row.todo = todo /\ row.lot = Null /\ row.written = [l \in Trades |-> Null]
  BY <1>1, TradingType
<1> HIDE DEF row
<1>4. /\ trader' \in [Traders -> TraderStates] /\ trader'[s] = row
      /\ entryLock' \in [Trades -> Traders \cup {Null}] /\ entryLock'[e] = s
      /\ \A t \in Traders : t # s =>
            /\ trader'[t] = trader[t]
            /\ \A x \in Trades : entryLock[x] = t => entryLock'[x] = t
  BY <1>0, <1>2, <1>3 DEF LotsTypeOK
<1> QED
  BY <1>2, <1>3, <1>4 DEF p, todo

LEMMA ReadLotIs ==
  ASSUME LotsInv, NEW s \in Traders, NEW l \in Trades, ReadLot(s, l), ~TradeAborted(s)
  PROVE  /\ trader' \in [Traders -> TraderStates]
         /\ trader[s].pc = "reversing" /\ trader'[s].pc = "reversing"
         /\ trader'[s].entry = trader[s].entry /\ trader'[s].place = trader[s].place
         /\ trader'[s].locked = trader[s].locked
         /\ trader'[s].lot = l /\ l \in trader[s].todo /\ trader[s].lot = Null
         /\ trader'[s].todo = trader[s].todo \ {l} /\ trader'[s].written = trader[s].written
         /\ trader'[s].value = Restored(trader[s].entry, l)
         /\ journal[trader[s].entry].kind = "buy" => ~(lot[l].remaining < lot[l].opened)
         /\ raced' = raced \cup Overtaken(s, {l})
         /\ \A t \in Traders : t # s => trader'[t] = trader[t]
         /\ UNCHANGED <<rows, accountLock, lotLock, entryLock>>
<1> DEFINE value == Restored(trader[s].entry, l)
           row == [trader[s] EXCEPT !.lot = l, !.todo = trader[s].todo \ {l}, !.value = value]
<1>0. LotsTypeOK /\ trader[s] \in TraderStates /\ trader \in [Traders -> TraderStates]
  BY DEF LotsInv, LotsTypeOK
<1>1. /\ trader[s].pc = "reversing" /\ l \in trader[s].todo /\ trader[s].lot = Null
      /\ trader' = [trader EXCEPT ![s] = row]
      /\ raced' = raced \cup Overtaken(s, {l})
      /\ UNCHANGED <<rows, accountLock, lotLock, entryLock>>
      /\ journal[trader[s].entry].kind = "buy" => ~(lot[l].remaining < lot[l].opened)
  BY DEF ReadLot, Restored
<1>2. value \in Nat
  <2>1. trader[s].entry \in Trades
    BY <1>1 DEF LotsInv, ReversalsHold
  <2>2. lot[l].remaining \in Nat /\ consumed[l][trader[s].entry] \in Nat
    BY <1>0, <2>1 DEF LotsTypeOK, LotRows
  <2> QED
    BY <2>2 DEF Restored
<1> HIDE DEF value
<1>3. /\ row \in TraderStates /\ row.pc = trader[s].pc /\ row.entry = trader[s].entry /\ row.lot = l
      /\ row.place = trader[s].place /\ row.locked = trader[s].locked
      /\ row.todo = trader[s].todo \ {l} /\ row.written = trader[s].written /\ row.value = value
  BY <1>0, <1>2 DEF TraderStates
<1> HIDE DEF row
<1>4. /\ trader'[s] = row /\ trader' \in [Traders -> TraderStates]
      /\ \A t \in Traders : t # s => trader'[t] = trader[t]
  BY <1>0, <1>1, <1>3
<1> QED
  BY <1>1, <1>3, <1>4 DEF value

LEMMA WriteLotIs ==
  ASSUME LotsInv, NEW s \in Traders, WriteLot(s)
  PROVE  /\ trader' \in [Traders -> TraderStates] /\ lotLock' \in [Trades -> Traders \cup {Null}]
         /\ trader[s].pc = "reversing" /\ trader'[s].pc = "reversing"
         /\ trader'[s].entry = trader[s].entry /\ trader'[s].place = trader[s].place
         /\ trader'[s].locked = trader[s].locked
         /\ trader[s].lot \in Trades /\ trader'[s].lot = Null
         /\ trader'[s].todo = trader[s].todo
         /\ \A l \in Trades : l # trader[s].lot => trader'[s].written[l] = trader[s].written[l]
         /\ trader'[s].written[trader[s].lot] = trader[s].value /\ trader[s].value \in Nat
         /\ \A t \in Traders : t # s =>
               /\ trader'[t] = trader[t]
               /\ \A l \in Trades : lotLock[l] = t => lotLock'[l] = t
         /\ UNCHANGED <<rows, accountLock, entryLock, raced>>
<1> DEFINE l == trader[s].lot
           row == [trader[s] EXCEPT !.written[l] = trader[s].value, !.lot = Null]
<1>0. trader[s] \in TraderStates /\ trader \in [Traders -> TraderStates] /\ Null \notin Traders
  BY LotsAssumption DEF LotsInv, LotsTypeOK
<1>1. /\ trader' = [trader EXCEPT ![s] = row] /\ l # Null
      /\ lotLock[l] \in {Null, s} /\ lotLock' = [lotLock EXCEPT ![l] = s]
      /\ UNCHANGED <<rows, accountLock, entryLock, raced>>
  BY DEF WriteLot
<1>2. trader[s].pc = "reversing" /\ l \in Trades /\ trader[s].value \in Nat
  BY <1>0, <1>1 DEF LotsInv, PlansSound, TraderStates
<1>3. /\ row \in TraderStates /\ row.pc = trader[s].pc /\ row.entry = trader[s].entry /\ row.lot = Null
      /\ row.place = trader[s].place /\ row.locked = trader[s].locked /\ row.todo = trader[s].todo
      /\ \A k \in Trades : k # l => row.written[k] = trader[s].written[k]
      /\ row.written[l] = trader[s].value
  BY <1>0, <1>2 DEF TraderStates
<1> HIDE DEF row
<1>4. /\ trader'[s] = row /\ trader' \in [Traders -> TraderStates]
      /\ \A t \in Traders : t # s => trader'[t] = trader[t]
  BY <1>0, <1>1, <1>3
<1> HIDE DEF l
<1>5. /\ lotLock' \in [Trades -> Traders \cup {Null}]
      /\ \A t \in Traders, k \in Trades : t # s /\ lotLock[k] = t => lotLock'[k] = t
  BY <1>0, <1>1, <1>2 DEF LotsInv, LotsTypeOK
<1> QED
  BY <1>1, <1>2, <1>3, <1>4, <1>5 DEF l

LEMMA SomebodySteps ==
  ASSUME [LotsNext]_lotsVars
  PROVE  UNCHANGED lotsVars \/ \E s \in Traders : BeginTrade(s) \/ ContinueTrade(s) \/ TradeAborted(s)
BY DEF LotsNext, BreakDeadlock, RollbackTrade

\* The steps of a session, in the form in which its own state is followed.
LEMMA OwnStep ==
  ASSUME LotsInv, NEW s \in Traders, BeginTrade(s) \/ ContinueTrade(s) \/ TradeAborted(s)
  PROVE  \/ \E e \in Trades, p \in Places, qty \in Bought, unitCost \in UnitCosts :
               Buy(s, e, p, qty, unitCost)
         \/ TradeEnded(s) /\ (CommitSell(s) \/ CommitReverse(s) \/ UNCHANGED rows)
         \/ \E e \in Trades, p \in Places, qty \in Sold : PreviewSell(s, e, p, qty)
         \/ LockAccount(s) \/ FindLots(s) \/ LockLots(s)
         \/ Allocate(s) /\ ~TradeAborted(s)
         \/ \E e \in Trades : BeginReverse(s, e)
         \/ \E l \in Trades : ReadLot(s, l) /\ ~TradeAborted(s)
         \/ WriteLot(s)
<1>1. CASE BeginTrade(s)
  BY <1>1 DEF BeginTrade
<1>2. TradeAborted(s) => TradeEnded(s) /\ UNCHANGED rows
  BY DEF TradeAborted
<1>3. CommitSell(s) \/ CommitReverse(s) => TradeEnded(s)
  BY DEF CommitSell, CommitReverse
<1>4. CASE ContinueTrade(s)
  BY <1>2, <1>3, <1>4 DEF ContinueTrade
<1> QED
  BY <1>1, <1>2, <1>4

\* A step of one session takes nothing from another.
LEMMA OtherTradersKeep ==
  ASSUME LotsInv, NEW s \in Traders, BeginTrade(s) \/ ContinueTrade(s) \/ TradeAborted(s)
  PROVE  /\ trader' \in [Traders -> TraderStates]
         /\ accountLock' \in [Places -> Traders \cup {Null}]
         /\ lotLock' \in [Trades -> Traders \cup {Null}]
         /\ entryLock' \in [Trades -> Traders \cup {Null}]
         /\ raced \subseteq raced' /\ raced' \subseteq Trades
         /\ \A t \in Traders : t # s =>
               /\ trader'[t] = trader[t]
               /\ \A p \in Places : accountLock[p] = t => accountLock'[p] = t
               /\ \A l \in Trades : lotLock[l] = t => lotLock'[l] = t
               /\ \A e \in Trades : entryLock[e] = t => entryLock'[e] = t
<1> DEFINE Goal == /\ trader' \in [Traders -> TraderStates]
                   /\ accountLock' \in [Places -> Traders \cup {Null}]
                   /\ lotLock' \in [Trades -> Traders \cup {Null}]
                   /\ entryLock' \in [Trades -> Traders \cup {Null}]
                   /\ raced \subseteq raced' /\ raced' \subseteq Trades
                   /\ \A t \in Traders : t # s =>
                         /\ trader'[t] = trader[t]
                         /\ \A p \in Places : accountLock[p] = t => accountLock'[p] = t
                         /\ \A l \in Trades : lotLock[l] = t => lotLock'[l] = t
                         /\ \A e \in Trades : entryLock[e] = t => entryLock'[e] = t
<1>0. /\ LotsTypeOK /\ raced \subseteq Trades /\ trader \in [Traders -> TraderStates]
      /\ accountLock \in [Places -> Traders \cup {Null}] /\ lotLock \in [Trades -> Traders \cup {Null}]
      /\ entryLock \in [Trades -> Traders \cup {Null}]
  BY DEF LotsInv, LotsTypeOK
<1>1. CASE TradeEnded(s)
  BY <1>0, <1>1, TradeEndedKeeps
<1>2. ASSUME NEW e \in Trades, NEW p \in Places, NEW qty \in Bought, NEW unitCost \in UnitCosts,
             Buy(s, e, p, qty, unitCost)
      PROVE  Goal
  BY <1>0, <1>2 DEF Buy
<1>3. ASSUME NEW e \in Trades, NEW p \in Places, NEW qty \in Sold, PreviewSell(s, e, p, qty)
      PROVE  Goal
  BY <1>0, <1>3, PreviewIs
<1>4. CASE LockAccount(s) \/ FindLots(s) \/ LockLots(s)
  BY <1>0, <1>4, LockingIs
<1>5. CASE Allocate(s) /\ ~TradeAborted(s)
  <2> DEFINE allocation == Allocation(Remaining, trader[s].qty)
             takes == {l \in Trades : allocation[l] > 0}
  <2>1. /\ trader' \in [Traders -> TraderStates] /\ raced' = raced \cup Overtaken(s, takes)
        /\ \A t \in Traders : t # s => trader'[t] = trader[t]
        /\ UNCHANGED <<accountLock, lotLock, entryLock>>
    BY <1>5, AllocateIs
  <2>2. Overtaken(s, takes) \in SUBSET Trades
    BY OvertakenAre
  <2> HIDE DEF takes
  <2> QED
    BY <1>0, <2>1, <2>2
<1>6. ASSUME NEW e \in Trades, BeginReverse(s, e)
      PROVE  Goal
  BY <1>0, <1>6, BeginReverseIs
<1>7. ASSUME NEW l \in Trades, ReadLot(s, l), ~TradeAborted(s)
      PROVE  Goal
  <2>1. /\ trader' \in [Traders -> TraderStates] /\ raced' = raced \cup Overtaken(s, {l})
        /\ \A t \in Traders : t # s => trader'[t] = trader[t]
        /\ UNCHANGED <<accountLock, lotLock, entryLock>>
    BY <1>7, ReadLotIs
  <2>2. Overtaken(s, {l}) \in SUBSET Trades
    BY OvertakenAre
  <2> QED
    BY <1>0, <2>1, <2>2
<1>8. CASE WriteLot(s)
  BY <1>0, <1>8, WriteLotIs
<1> HIDE DEF Goal
<1>9. Goal
  BY <1>1, <1>2, <1>3, <1>4, <1>5, <1>6, <1>7, <1>8, OwnStep DEF Goal
<1> QED
  BY <1>9 DEF Goal

LEMMA LotsTypeStep == LotsInv /\ [LotsNext]_lotsVars => LotsTypeOK'
<1> SUFFICES ASSUME LotsInv, [LotsNext]_lotsVars PROVE LotsTypeOK'
  OBVIOUS
<1>1. CASE UNCHANGED lotsVars
  BY <1>1 DEF LotsInv, LotsTypeOK, lotsVars
<1>2. ASSUME NEW s \in Traders, BeginTrade(s) \/ ContinueTrade(s) \/ TradeAborted(s)
      PROVE  LotsTypeOK'
  BY <1>2, RowsStep, OtherTradersKeep DEF LotsTypeOK
<1> QED
  BY <1>1, <1>2, SomebodySteps

\* What a recorded entry is, and took of the lots, stays as it is until it is reversed.
LEMMA RecordedStep ==
  ASSUME LotsInv, [LotsNext]_lotsVars, NEW e \in Trades, journal[e].status # "free"
  PROVE  \/ journal'[e] = journal[e] /\ \A l \in Trades : consumed'[l][e] = consumed[l][e]
         \/ /\ \E s \in Traders : CommitReverse(s) /\ e = trader[s].entry
            /\ journal[e].status = "posted" /\ journal'[e].status = "void"
            /\ journal'[e].kind = journal[e].kind /\ journal'[e].place = journal[e].place
            /\ \A l \in Trades : consumed'[l][e] = 0
<1> DEFINE Keeps == journal'[e] = journal[e] /\ \A l \in Trades : consumed'[l][e] = consumed[l][e]
           Ends == /\ \E s \in Traders : CommitReverse(s) /\ e = trader[s].entry
                   /\ journal[e].status = "posted" /\ journal'[e].status = "void"
                   /\ journal'[e].kind = journal[e].kind /\ journal'[e].place = journal[e].place
                   /\ \A l \in Trades : consumed'[l][e] = 0
<1>0. LotsTypeOK /\ \A l \in Trades : consumed[l] \in [Trades -> Nat]
  BY DEF LotsInv, LotsTypeOK
<1>1. CASE UNCHANGED rows
  BY <1>1 DEF rows
<1>2. ASSUME NEW s \in Traders, NEW x \in Trades, NEW p \in Places, NEW qty \in Bought,
             NEW unitCost \in UnitCosts, Buy(s, x, p, qty, unitCost)
      PROVE  Keeps
  <2>1. x # e
    BY <1>2, BuyWrites DEF NoEntry
  <2> QED
    BY <1>2, <2>1, BuyWrites
<1>3. ASSUME NEW s \in Traders, CommitSell(s)
      PROVE  Keeps
  <2> DEFINE x == trader[s].entry
             row == SoldEntry(s)
  <2>1. /\ x \in Trades /\ journal[x] = NoEntry /\ journal' = [journal EXCEPT ![x] = row]
        /\ \A l \in Trades : consumed'[l] = [consumed[l] EXCEPT ![x] = trader[s].taken[l]]
    BY <1>3, CommitSellWrites
  <2>2. x # e
    BY <2>1 DEF NoEntry
  <2> HIDE DEF x, row
  <2> QED
    BY <1>0, <2>1, <2>2 DEF LotsTypeOK
<1>4. ASSUME NEW s \in Traders, CommitReverse(s)
      PROVE  Keeps \/ Ends
  <2> DEFINE x == trader[s].entry
  <2>1. /\ x \in Trades /\ journal[x].status = "posted" /\ journal' = [journal EXCEPT ![x].status = "void"]
        /\ consumed' = [l \in Trades |-> [consumed[l] EXCEPT ![x] = 0]]
    BY <1>4, CommitReverseWrites
  <2>2. CASE x = e
    <3>1. /\ journal[e] \in JournalRows
          /\ journal'[e] = [journal[e] EXCEPT !.status = "void"]
      BY <1>0, <2>1, <2>2 DEF LotsTypeOK
    <3>2. \A l \in Trades : consumed'[l][e] = 0
      BY <1>0, <2>1, <2>2
    <3> QED
      BY <1>4, <2>1, <2>2, <3>1, <3>2 DEF JournalRows
  <2>3. CASE x # e
    <3> HIDE DEF x
    <3> QED
      BY <1>0, <2>1, <2>3 DEF LotsTypeOK
  <2> QED
    BY <2>2, <2>3
<1> HIDE DEF Keeps, Ends
<1>5. Keeps \/ Ends
  BY <1>1, <1>2, <1>3, <1>4, RowsWritten DEF Keeps
<1> QED
  BY <1>5 DEF Keeps, Ends

\* Whatever happens to it afterwards, a recorded entry keeps its kind and its place.
LEMMA EntryStep ==
  ASSUME LotsInv, [LotsNext]_lotsVars, NEW e \in Trades, journal[e].status # "free"
  PROVE  /\ journal'[e].status # "free" /\ journal'[e].kind = journal[e].kind
         /\ journal'[e].place = journal[e].place
         /\ journal[e].status = "void" => journal'[e].status = "void"
BY RecordedStep

\* The entry a session is reversing is written by no other.
LEMMA ReversingKeeps ==
  ASSUME LotsInv, [LotsNext]_lotsVars, NEW t \in Traders, trader[t].pc = "reversing",
         trader'[t].pc = "reversing"
  PROVE  LET e == trader[t].entry
         IN  /\ e \in Trades /\ journal[e].status = "posted" /\ journal'[e] = journal[e]
             /\ \A l \in Trades : consumed'[l][e] = consumed[l][e]
<1> DEFINE e == trader[t].entry
<1>1. e \in Trades /\ entryLock[e] = t /\ journal[e].status = "posted"
  BY DEF LotsInv, ReversalsHold
<1>2. ~CommitReverse(t)
  <2>1. trader \in [Traders -> TraderStates]
    BY DEF LotsInv, LotsTypeOK
  <2> QED
    BY <2>1, NoTradeIs DEF CommitReverse, TradeEnded
<1>3. ASSUME NEW s \in Traders, CommitReverse(s), e = trader[s].entry
      PROVE  FALSE
  <2>1. entryLock[trader[s].entry] = s
    BY <1>3, CommitReverseWrites
  <2> HIDE DEF e
  <2> QED
    BY <1>1, <1>2, <1>3, <2>1
<1> HIDE DEF e
<1>4. journal'[e] = journal[e] /\ \A l \in Trades : consumed'[l][e] = consumed[l][e]
  BY <1>1, <1>3, RecordedStep
<1> QED
  BY <1>1, <1>4 DEF e

LEMMA OwnRowsStep == LotsInv /\ [LotsNext]_lotsVars => OwnRows'
<1> SUFFICES ASSUME LotsInv, [LotsNext]_lotsVars PROVE OwnRows'
  OBVIOUS
<1>0. LotsTypeOK /\ OwnRows /\ \A l \in Trades : consumed[l] \in [Trades -> Nat]
  BY DEF LotsInv, LotsTypeOK
<1>1. CASE UNCHANGED rows
  BY <1>0, <1>1 DEF OwnRows, rows
<1>2. ASSUME NEW s \in Traders, NEW e \in Trades, NEW p \in Places, NEW qty \in Bought,
             NEW unitCost \in UnitCosts, Buy(s, e, p, qty, unitCost)
      PROVE  OwnRows'
  <2>1. /\ journal[e] = NoEntry /\ consumed' = consumed
        /\ \A x \in Trades : x # e => journal'[x] = journal[x] /\ lot'[x] = lot[x]
        /\ journal'[e].status = "posted" /\ journal'[e].kind = "buy"
    BY <1>2, BuyWrites
  <2>2. journal[e].kind = "buy"
    BY <2>1 DEF NoEntry
  <2> QED
    BY <1>0, <2>1, <2>2 DEF OwnRows
<1>3. ASSUME NEW s \in Traders, CommitSell(s)
      PROVE  OwnRows'
  <2> DEFINE e == trader[s].entry
             row == SoldEntry(s)
             taken == trader[s].taken
  <2>1. /\ e \in Trades /\ journal[e] = NoEntry
        /\ journal' = [journal EXCEPT ![e] = row] /\ row.status = "posted" /\ row.kind = "sell"
        /\ taken \in [Trades -> Nat] /\ lot' = WithWritesOf(s)
        /\ \A l \in Trades : trader[s].written[l] # Null <=> taken[l] > 0
        /\ \A l \in Trades : taken[l] > 0 => journal[l].status # "free" /\ journal[l].kind = "buy"
        /\ \A l \in Trades : consumed'[l] = [consumed[l] EXCEPT ![e] = taken[l]]
    BY <1>3, CommitSellWrites
  <2> HIDE DEF row, taken
  <2>2. /\ \A x \in Trades : x # e => journal'[x] = journal[x]
        /\ journal'[e].status = "posted" /\ journal'[e].kind = "sell"
        /\ journal[e].status = "free" /\ journal[e].kind = "buy"
    BY <1>0, <2>1 DEF LotsTypeOK, NoEntry
  <2>3. ASSUME NEW x \in Trades, journal[x].status = "free" \/ journal[x].kind = "sell"
        PROVE  lot'[x] = NoLot /\ \A y \in Trades : consumed'[x][y] = 0
    <3>1. lot[x] = NoLot /\ \A y \in Trades : consumed[x][y] = 0
      BY <1>0, <2>3 DEF OwnRows
    <3>2. taken[x] \in Nat /\ ~(taken[x] > 0)
      BY <2>1, <2>3
    <3>3. taken[x] = 0 /\ trader[s].written[x] = Null
      BY <2>1, <3>2
    <3>4. lot'[x] = NoLot
      BY <1>0, <2>1, <3>1, <3>3, WritesAre
    <3>5. consumed'[x] = [consumed[x] EXCEPT ![e] = 0]
      BY <2>1, <3>3
    <3> QED
      BY <1>0, <3>1, <3>4, <3>5
  <2>4. ASSUME NEW x \in Trades, x # e, \A l \in Trades : consumed[l][x] = 0
        PROVE  \A l \in Trades : consumed'[l][x] = 0
    BY <1>0, <2>1, <2>4
  <2> HIDE DEF e
  <2>5. ASSUME NEW x \in Trades
        PROVE  /\ journal'[x].status = "free" => journal'[x] = NoEntry
               /\ journal'[x].status = "free" \/ journal'[x].kind = "sell" =>
                     lot'[x] = NoLot /\ \A y \in Trades : consumed'[x][y] = 0
               /\ journal'[x].kind = "buy" => \A l \in Trades : consumed'[l][x] = 0
    <3>1. CASE x = e
      BY <2>2, <2>3, <3>1
    <3>2. CASE x # e
      BY <1>0, <2>2, <2>3, <2>4, <3>2 DEF OwnRows
    <3> QED
      BY <3>1, <3>2
  <2> QED
    BY <2>5 DEF OwnRows
<1>4. ASSUME NEW s \in Traders, CommitReverse(s)
      PROVE  OwnRows'
  <2> DEFINE e == trader[s].entry
  <2>1. /\ e \in Trades /\ journal[e].status = "posted" /\ journal' = [journal EXCEPT ![e].status = "void"]
        /\ lot' = WithWritesOf(s)
        /\ \A l \in Trades : l \in WrittenBy(e) <=> trader[s].written[l] # Null
        /\ \A l \in WrittenBy(e) : journal[l].status # "free" /\ journal[l].kind = "buy"
        /\ consumed' = [l \in Trades |-> [consumed[l] EXCEPT ![e] = 0]]
    BY <1>4, CommitReverseWrites
  <2>2. ASSUME NEW x \in Trades, NEW y \in Trades
        PROVE  consumed'[x][y] = IF y = e THEN 0 ELSE consumed[x][y]
    BY <1>0, <2>1
  <2>3. ASSUME NEW x \in Trades
        PROVE  /\ journal'[x].kind = journal[x].kind
               /\ journal'[x].status = "free" => journal'[x] = journal[x]
    BY <1>0, <2>1 DEF LotsTypeOK, JournalRows
  <2>4. ASSUME NEW x \in Trades, journal[x].status = "free" \/ journal[x].kind = "sell"
        PROVE  lot'[x] = lot[x]
    <3>1. trader[s].written[x] = Null
      BY <2>1, <2>4
    <3> QED
      BY <1>0, <2>1, <3>1, WritesAre
  <2> HIDE DEF e
  <2> QED
    BY <1>0, <2>2, <2>3, <2>4 DEF OwnRows
<1> QED
  BY <1>1, <1>2, <1>3, <1>4, RowsWritten

\* A free entry that a sale has taken stays free until that sale commits.
LEMMA TakenStaysFree ==
  ASSUME LotsInv, NEW s \in Traders, BeginTrade(s) \/ ContinueTrade(s) \/ TradeAborted(s),
         NEW t \in Traders, Selling(t), t # s \/ ~CommitSell(s)
  PROVE  journal'[trader[t].entry].status = "free"
<1> DEFINE x == trader[t].entry
<1>0. LotsTypeOK /\ x \in Trades /\ journal[x].status = "free"
  BY DEF LotsInv, SalesApart
<1>1. ASSUME NEW e \in Trades, NEW p \in Places, NEW qty \in Bought, NEW unitCost \in UnitCosts,
             Buy(s, e, p, qty, unitCost)
      PROVE  journal'[x] = journal[x]
  BY <1>0, <1>1, BuyWrites
<1>2. CASE CommitSell(s)
  <2> DEFINE e == trader[s].entry
             row == SoldEntry(s)
  <2>1. t # s /\ Selling(s)
    BY <1>2 DEF CommitSell, Selling
  <2>2. x # e
    BY <2>1 DEF LotsInv, SalesApart
  <2>3. e \in Trades /\ journal' = [journal EXCEPT ![e] = row]
    BY <1>2, CommitSellWrites
  <2> HIDE DEF e, row, x
  <2> QED
    BY <1>0, <2>2, <2>3 DEF LotsTypeOK, x
<1>3. CASE CommitReverse(s)
  BY <1>0, <1>3, CommitReverseWrites DEF LotsTypeOK
<1>4. CASE UNCHANGED rows
  BY <1>0, <1>4 DEF rows
<1>5. \/ \E e \in Trades, p \in Places, qty \in Bought, unitCost \in UnitCosts : Buy(s, e, p, qty, unitCost)
      \/ CommitSell(s) \/ CommitReverse(s) \/ UNCHANGED rows
  <2>1. (LockAccount(s) \/ FindLots(s) \/ LockLots(s)) => UNCHANGED rows
    BY LockingIs
  <2>2. \A l \in Trades : ReadLot(s, l) => UNCHANGED rows
    BY DEF ReadLot, TradeAborted, rows
  <2>3. Allocate(s) \/ WriteLot(s) => UNCHANGED rows
    BY DEF Allocate, WriteLot, TradeAborted
  <2>4. /\ \A e \in Trades : BeginReverse(s, e) => UNCHANGED rows
        /\ \A e \in Trades, p \in Places, qty \in Sold : PreviewSell(s, e, p, qty) => UNCHANGED rows
    BY Zenon DEF BeginReverse, PreviewSell
  <2> QED
    BY <2>1, <2>2, <2>3, <2>4, OwnStep
<1> HIDE DEF x
<1> QED
  BY <1>0, <1>1, <1>2, <1>3, <1>4, <1>5 DEF x

\* A session's step, as SalesApart sees it.
LEMMA SaleMoves ==
  ASSUME LotsInv, NEW s \in Traders, BeginTrade(s) \/ ContinueTrade(s) \/ TradeAborted(s)
  PROVE  /\ trader'[s].pc = "idle" => trader'[s].entry = Null
         /\ Selling(s)' =>
               \/ trader'[s].entry = trader[s].entry /\ Selling(s) /\ ~CommitSell(s)
               \/ /\ trader'[s].entry \in FreshEntries
                  /\ journal'[trader'[s].entry].status = "free"
<1>0. LotsTypeOK
  BY DEF LotsInv
<1>1. CASE TradeEnded(s)
  BY <1>0, <1>1, TradeEndedKeeps, NoTradeIs DEF Selling
<1>2. CASE \E e \in Trades, p \in Places, qty \in Bought, unitCost \in UnitCosts :
              Buy(s, e, p, qty, unitCost)
  <2>1. trader' = trader /\ trader[s] = NoTrade
    BY <1>2 DEF Buy
  <2> QED
    BY <2>1, NoTradeIs DEF Selling
<1>3. CASE \E e \in Trades, p \in Places, qty \in Sold : PreviewSell(s, e, p, qty)
  <2>1. PICK e \in Trades, p \in Places, qty \in Sold : PreviewSell(s, e, p, qty)
    BY <1>3
  <2>2. /\ trader'[s].pc = "previewed" /\ trader'[s].entry = e /\ e \in FreshEntries
        /\ journal' = journal
    BY <1>0, <2>1, PreviewIs DEF rows
  <2> QED
    BY <2>2 DEF FreshEntries
<1>4. CASE LockAccount(s) \/ FindLots(s) \/ LockLots(s)
  <2>1. /\ trader'[s].entry = trader[s].entry /\ Selling(s) /\ trader[s].pc # "allocated"
        /\ trader'[s].pc \in {"selling", "locking", "locked"}
    BY <1>4, LockingIs
  <2> QED
    BY <2>1 DEF CommitSell
<1>5. CASE Allocate(s) /\ ~TradeAborted(s)
  BY <1>5, AllocateIs DEF Selling, CommitSell
<1>6. CASE \E e \in Trades : BeginReverse(s, e)
  BY <1>6, BeginReverseIs DEF Selling
<1>7. CASE \E l \in Trades : ReadLot(s, l) /\ ~TradeAborted(s)
  BY <1>7, ReadLotIs DEF Selling
<1>8. CASE WriteLot(s)
  BY <1>8, WriteLotIs DEF Selling
<1> QED
  BY <1>1, <1>2, <1>3, <1>4, <1>5, <1>6, <1>7, <1>8, OwnStep

LEMMA SalesApartStep == LotsInv /\ [LotsNext]_lotsVars => SalesApart'
<1> SUFFICES ASSUME LotsInv, [LotsNext]_lotsVars PROVE SalesApart'
  OBVIOUS
<1>1. CASE UNCHANGED lotsVars
  BY <1>1 DEF LotsInv, SalesApart, Selling, lotsVars
<1>2. ASSUME NEW s \in Traders, BeginTrade(s) \/ ContinueTrade(s) \/ TradeAborted(s)
      PROVE  SalesApart'
  <2>1. \A t \in Traders : t # s => trader'[t] = trader[t]
    BY <1>2, OtherTradersKeep
  <2>2. SalesApart
    BY DEF LotsInv
  <2>3. ASSUME NEW t \in Traders, Selling(t)'
        PROVE  /\ trader'[t].entry \in Trades /\ journal'[trader'[t].entry].status = "free"
               /\ \/ Selling(t) /\ trader'[t].entry = trader[t].entry
                  \/ t = s /\ trader'[t].entry \in FreshEntries
    <3>1. CASE t # s
      BY <1>2, <2>1, <2>2, <2>3, <3>1, TakenStaysFree DEF SalesApart, Selling
    <3>2. CASE t = s
      BY <1>2, <2>2, <2>3, <3>2, SaleMoves, TakenStaysFree DEF SalesApart, FreshEntries
    <3> QED
      BY <3>1, <3>2
  <2>4. ASSUME NEW t \in Traders, trader'[t].pc = "idle"
        PROVE  trader'[t].entry = Null
    BY <1>2, <2>1, <2>2, <2>4, SaleMoves DEF SalesApart
  <2>5. ASSUME NEW t \in Traders, NEW u \in Traders, Selling(t)', Selling(u)', trader'[t].entry = trader'[u].entry
        PROVE  t = u
    <3>1. CASE Selling(t) /\ trader'[t].entry = trader[t].entry /\ Selling(u) /\ trader'[u].entry = trader[u].entry
      BY <2>2, <2>5, <3>1 DEF SalesApart
    <3>2. CASE ~(Selling(t) /\ trader'[t].entry = trader[t].entry) /\ u # s
      BY <2>1, <2>3, <2>5, <3>2 DEF FreshEntries
    <3>3. CASE ~(Selling(u) /\ trader'[u].entry = trader[u].entry) /\ t # s
      BY <2>1, <2>3, <2>5, <3>3 DEF FreshEntries
    <3> QED
      BY <2>3, <2>5, <3>1, <3>2, <3>3
  <2> QED
    BY <2>3, <2>4, <2>5 DEF SalesApart
<1> QED
  BY <1>1, <1>2, SomebodySteps

LEMMA LocksHeldStep == LotsInv /\ [LotsNext]_lotsVars => LocksHeld'
<1> SUFFICES ASSUME LotsInv, [LotsNext]_lotsVars PROVE LocksHeld'
  OBVIOUS
<1> DEFINE Holds(t) == /\ Selling(t) => trader[t].place \in Places
                       /\ Selling(t) /\ trader[t].pc # "previewed" => accountLock[trader[t].place] = t
                       /\ trader[t].pc \in {"locked", "allocated"} =>
                             \A l \in trader[t].locked : lotLock[l] = t
<1>0. LotsTypeOK /\ \A t \in Traders : Holds(t) /\ trader[t] \in TraderStates
  BY DEF LotsInv, LocksHeld, LotsTypeOK
<1>1. CASE UNCHANGED lotsVars
  BY <1>0, <1>1 DEF LocksHeld, Selling, lotsVars
<1>2. ASSUME NEW s \in Traders, BeginTrade(s) \/ ContinueTrade(s) \/ TradeAborted(s)
      PROVE  LocksHeld'
  <2>1. ASSUME NEW t \in Traders, t # s
        PROVE  Holds(t)'
    <3>1. /\ trader'[t] = trader[t]
          /\ \A p \in Places : accountLock[p] = t => accountLock'[p] = t
          /\ \A l \in Trades : lotLock[l] = t => lotLock'[l] = t
      BY <1>2, <2>1, OtherTradersKeep
    <3>2. trader[t].locked \in SUBSET Trades
      BY <1>0 DEF TraderStates
    <3> QED
      BY <1>0, <3>1, <3>2 DEF Selling
  <2>2. Holds(s)'
    <3>1. CASE TradeEnded(s)
      BY <1>0, <3>1, TradeEndedKeeps, NoTradeIs DEF Selling
    <3>2. CASE \E e \in Trades, p \in Places, qty \in Bought, unitCost \in UnitCosts :
                  Buy(s, e, p, qty, unitCost)
      <4>1. trader' = trader /\ trader[s] = NoTrade
        BY <3>2 DEF Buy
      <4> QED
        BY <4>1, NoTradeIs DEF Selling
    <3>3. CASE \E e \in Trades, p \in Places, qty \in Sold : PreviewSell(s, e, p, qty)
      <4>1. trader'[s].pc = "previewed" /\ trader'[s].place \in Places
        BY <1>0, <3>3, PreviewIs
      <4> QED
        BY <4>1 DEF Selling
    <3>4. CASE LockAccount(s) \/ FindLots(s) \/ LockLots(s)
      <4>1. /\ trader'[s].pc \in {"selling", "locking", "locked"} /\ Selling(s)
            /\ trader'[s].place = trader[s].place /\ accountLock'[trader[s].place] = s
            /\ trader'[s].pc = "locked" => \A l \in trader'[s].locked : lotLock'[l] = s
        BY <3>4, LockingIs
      <4> QED
        BY <1>0, <4>1 DEF Selling
    <3>5. CASE Allocate(s) /\ ~TradeAborted(s)
      <4>1. /\ trader[s].pc = "locked" /\ trader'[s].pc = "allocated"
            /\ trader'[s].place = trader[s].place /\ trader'[s].locked = trader[s].locked
            /\ UNCHANGED <<accountLock, lotLock>>
        BY <3>5, AllocateIs
      <4> QED
        BY <1>0, <4>1 DEF Selling
    <3>6. CASE \E e \in Trades : BeginReverse(s, e)
      BY <3>6, BeginReverseIs DEF Selling
    <3>7. CASE \E l \in Trades : ReadLot(s, l) /\ ~TradeAborted(s)
      BY <3>7, ReadLotIs DEF Selling
    <3>8. CASE WriteLot(s)
      BY <3>8, WriteLotIs DEF Selling
    <3> HIDE DEF Holds
    <3> QED
      BY <1>2, <3>1, <3>2, <3>3, <3>4, <3>5, <3>6, <3>7, <3>8, OwnStep
  <2> QED
    BY <2>1, <2>2 DEF LocksHeld
<1> QED
  BY <1>1, <1>2, SomebodySteps

\* The lots that a reversal has to write are those that buys opened.
LEMMA ReversedAreBuys ==
  ASSUME LotsInv, NEW s \in Traders, trader[s].pc = "reversing"
  PROVE  \A l \in Touched(s) : journal[l].status # "free" /\ journal[l].kind = "buy"
<1> DEFINE e == trader[s].entry
<1>1. /\ e \in Trades /\ journal[e].status = "posted" /\ Touched(s) = WrittenBy(e)
  BY DEF LotsInv, ReversalsHold
<1>2. SUFFICES ASSUME NEW l \in WrittenBy(e)
               PROVE  journal[l].status # "free" /\ journal[l].kind = "buy"
  BY <1>1
<1>3. CASE journal[e].kind = "buy"
  BY <1>1, <1>2, <1>3 DEF WrittenBy
<1>4. CASE journal[e].kind # "buy"
  <2>1. l \in Trades /\ consumed[l][e] > 0
    BY <1>2, <1>4 DEF WrittenBy
  <2>2. journal[l].kind \in {"buy", "sell"}
    BY <2>1 DEF LotsInv, LotsTypeOK, JournalRows
  <2>3. ~(journal[l].status = "free" \/ journal[l].kind = "sell")
    BY <1>1, <2>1 DEF LotsInv, OwnRows
  <2> QED
    BY <2>2, <2>3
<1> QED
  BY <1>3, <1>4

\* Only the sale that commits records an entry of a sale.
LEMMA SaleRecorded ==
  ASSUME LotsInv, [LotsNext]_lotsVars, NEW e \in Trades, journal[e].status = "free", journal'[e].kind = "sell"
  PROVE  \E s \in Traders : CommitSell(s) /\ e = trader[s].entry
<1>0. LotsTypeOK /\ journal[e].kind = "buy"
  BY DEF LotsInv, OwnRows, NoEntry
<1>1. ~UNCHANGED rows
  BY <1>0 DEF rows
<1>2. ASSUME NEW s \in Traders, NEW x \in Trades, NEW p \in Places, NEW qty \in Bought,
             NEW unitCost \in UnitCosts, Buy(s, x, p, qty, unitCost)
      PROVE  FALSE
  BY <1>0, <1>2, BuyWrites
<1>3. ASSUME NEW s \in Traders, CommitSell(s)
      PROVE  e = trader[s].entry
  <2> DEFINE x == trader[s].entry
             row == SoldEntry(s)
  <2>1. x \in Trades /\ journal' = [journal EXCEPT ![x] = row]
    BY <1>3, CommitSellWrites
  <2> HIDE DEF x, row
  <2>2. x # e => journal'[e] = journal[e]
    BY <1>0, <2>1 DEF LotsTypeOK
  <2> QED
    BY <1>0, <2>2 DEF x
<1>4. ASSUME NEW s \in Traders, CommitReverse(s)
      PROVE  FALSE
  <2> DEFINE x == trader[s].entry
  <2>1. x \in Trades /\ journal[x].status = "posted" /\ journal' = [journal EXCEPT ![x].status = "void"]
    BY <1>4, CommitReverseWrites
  <2> HIDE DEF x
  <2>2. journal'[e] = journal[e]
    BY <1>0, <2>1 DEF LotsTypeOK
  <2> QED
    BY <1>0, <2>2
<1> QED
  BY <1>1, <1>2, <1>3, <1>4, RowsWritten

LEMMA PlansSoundStep == LotsInv /\ [LotsNext]_lotsVars => PlansSound'
<1> SUFFICES ASSUME LotsInv, [LotsNext]_lotsVars PROVE PlansSound'
  OBVIOUS
<1> DEFINE Sound(t) ==
              /\ trader[t].lot # Null => trader[t].pc = "reversing"
              /\ trader[t].pc = "reversing" => trader[t].locked = {}
              /\ trader[t].pc \notin {"allocated", "reversing"} => \A l \in Trades : trader[t].written[l] = Null
              /\ trader[t].pc = "allocated" =>
                    /\ SumFunction(trader[t].taken) = trader[t].qty
                    /\ \A l \in Trades : trader[t].written[l] # Null <=> trader[t].taken[l] > 0
           BuyDone(l) == journal[l].status # "free" /\ journal[l].kind = "buy"
           Written(t) == \A l \in Trades : Plans(t, l) => BuyDone(l)
<1>0. /\ LotsTypeOK /\ Null \notin Trades
      /\ \A t \in Traders : Sound(t) /\ Written(t) /\ trader[t] \in TraderStates
  BY LotsAssumption DEF LotsInv, PlansSound, LotsTypeOK
<1>1. CASE UNCHANGED lotsVars
  BY <1>0, <1>1 DEF PlansSound, Plans, lotsVars
<1>2. ASSUME NEW s \in Traders, BeginTrade(s) \/ ContinueTrade(s) \/ TradeAborted(s)
      PROVE  PlansSound'
  <2>1. ASSUME NEW t \in Traders, t # s
        PROVE  Sound(t)' /\ Written(t)'
    <3>1. trader'[t] = trader[t]
      BY <1>2, <2>1, OtherTradersKeep
    <3>2. Sound(t)'
      BY <1>0, <3>1
    <3>3. Written(t)'
      BY <1>0, <3>1, EntryStep DEF Plans
    <3> QED
      BY <3>2, <3>3
  <2>2. ASSUME trader'[s].lot = Null, trader'[s].written = [l \in Trades |-> Null]
        PROVE  Written(s)'
    BY <1>0, <2>2 DEF Plans
  <2>3. ASSUME NEW ls \in SUBSET Trades, \A l \in ls : BuyDone(l),
               \A l \in Trades : Plans(s, l)' => l \in ls
        PROVE  Written(s)'
    BY <2>3, EntryStep
  <2>4. Sound(s)' /\ Written(s)'
    <3>1. CASE TradeEnded(s)
      <4>1. trader'[s] = NoTrade
        BY <1>0, <3>1, TradeEndedKeeps
      <4>2. Sound(s)'
        BY <4>1, NoTradeIs
      <4>3. Written(s)'
        BY <2>2, <4>1, NoTradeIs
      <4> QED
        BY <4>2, <4>3
    <3>2. CASE \E e \in Trades, p \in Places, qty \in Bought, unitCost \in UnitCosts :
                  Buy(s, e, p, qty, unitCost)
      <4>1. trader'[s] = NoTrade
        BY <3>2 DEF Buy
      <4>2. Sound(s)'
        BY <4>1, NoTradeIs
      <4>3. Written(s)'
        BY <2>2, <4>1, NoTradeIs
      <4> QED
        BY <4>2, <4>3
    <3>3. CASE \E e \in Trades, p \in Places, qty \in Sold : PreviewSell(s, e, p, qty)
      <4>1. /\ trader'[s].pc = "previewed" /\ trader'[s].lot = Null
            /\ trader'[s].written = [l \in Trades |-> Null]
        BY <1>0, <3>3, PreviewIs
      <4>2. Sound(s)'
        BY <4>1
      <4> QED
        BY <2>2, <4>1, <4>2
    <3>4. CASE LockAccount(s) \/ FindLots(s) \/ LockLots(s)
      <4>1. /\ trader'[s].pc \in {"selling", "locking", "locked"} /\ Selling(s) /\ trader[s].pc # "allocated"
            /\ trader'[s].lot = trader[s].lot /\ trader'[s].written = trader[s].written
        BY <3>4, LockingIs
      <4>2. trader[s].lot = Null /\ \A l \in Trades : trader[s].written[l] = Null
        BY <1>0, <4>1 DEF Selling
      <4>3. Sound(s)'
        BY <4>1, <4>2
      <4>4. Written(s)'
        BY <1>0, <4>1, <4>2 DEF Plans
      <4> QED
        BY <4>3, <4>4
    <3>5. CASE Allocate(s) /\ ~TradeAborted(s)
      <4> DEFINE allocation == Allocation(Remaining, trader[s].qty)
      <4>1. /\ trader[s].pc = "locked" /\ trader'[s].pc = "allocated"
            /\ trader'[s].qty = trader[s].qty /\ trader'[s].lot = trader[s].lot
            /\ trader'[s].taken = allocation /\ SumFunction(allocation) = trader[s].qty
            /\ \A l \in Trades :
                  /\ allocation[l] <= lot[l].remaining /\ lot[l].remaining \in Nat
                  /\ trader'[s].written[l] # Null <=> allocation[l] > 0
            /\ allocation \in [Trades -> Nat]
        BY <3>5, AllocateIs
      <4> HIDE DEF allocation
      <4>2. trader[s].lot = Null
        BY <1>0, <4>1
      <4>3. Sound(s)'
        BY <4>1, <4>2
      <4>4. \A l \in Trades : allocation[l] > 0 => BuyDone(l)
        <5> SUFFICES ASSUME NEW l \in Trades, allocation[l] > 0 PROVE BuyDone(l)
          OBVIOUS
        <5>1. lot[l].remaining # 0
          BY <4>1
        <5>2. journal[l].kind \in {"buy", "sell"} /\ NoLot.remaining = 0
          BY <1>0 DEF LotsTypeOK, JournalRows, NoLot
        <5> QED
          BY <5>1, <5>2 DEF LotsInv, OwnRows
      <4>5. Written(s)'
        <5>1. \A l \in Trades : Plans(s, l)' => allocation[l] > 0
          BY <1>0, <4>1, <4>2 DEF Plans
        <5> QED
          BY <4>4, <5>1, EntryStep
      <4> QED
        BY <4>3, <4>5
    <3>6. CASE \E e \in Trades : BeginReverse(s, e)
      <4>1. /\ trader'[s].pc = "reversing" /\ trader'[s].lot = Null /\ trader'[s].locked = {}
            /\ trader'[s].written = [l \in Trades |-> Null]
        BY <3>6, BeginReverseIs
      <4>2. Sound(s)'
        BY <4>1
      <4> QED
        BY <2>2, <4>1, <4>2
    <3>7. CASE \E l \in Trades : ReadLot(s, l) /\ ~TradeAborted(s)
      <4>1. PICK l \in Trades : ReadLot(s, l) /\ ~TradeAborted(s)
        BY <3>7
      <4>2. /\ trader[s].pc = "reversing" /\ trader'[s].pc = "reversing"
            /\ trader'[s].locked = trader[s].locked
            /\ trader'[s].lot = l /\ l \in trader[s].todo /\ trader'[s].written = trader[s].written
        BY <4>1, ReadLotIs
      <4>3. Sound(s)'
        BY <1>0, <4>2
      <4>4. \A k \in Touched(s) : BuyDone(k)
        BY <1>0, <4>2, ReversedAreBuys
      <4>5. \A k \in Trades : Plans(s, k)' => k \in Touched(s)
        BY <4>2 DEF Plans, Touched
      <4>6. Written(s)'
        BY <4>4, <4>5, EntryStep
      <4> QED
        BY <4>3, <4>6
    <3>8. CASE WriteLot(s)
      <4>1. /\ trader[s].pc = "reversing" /\ trader'[s].pc = "reversing"
            /\ trader'[s].locked = trader[s].locked
            /\ trader[s].lot \in Trades /\ trader'[s].lot = Null
            /\ \A l \in Trades : l # trader[s].lot => trader'[s].written[l] = trader[s].written[l]
        BY <3>8, WriteLotIs
      <4>2. Sound(s)'
        BY <1>0, <4>1
      <4>3. \A k \in Trades : Plans(s, k)' => Plans(s, k)
        BY <1>0, <4>1 DEF Plans
      <4>4. Written(s)'
        BY <1>0, <4>3, EntryStep
      <4> QED
        BY <4>2, <4>4
    <3> HIDE DEF Sound, Written
    <3> QED
      BY <1>2, <3>1, <3>2, <3>3, <3>4, <3>5, <3>6, <3>7, <3>8, OwnStep
  <2>5. \A t \in Traders : Sound(t)' /\ Written(t)'
    BY <2>1, <2>4
  <2> QED
    BY <2>5 DEF PlansSound
<1> QED
  BY <1>1, <1>2, SomebodySteps

\* What a reversal still has to write stays what its entry wrote.
LEMMA ReversalsStep == LotsInv /\ [LotsNext]_lotsVars => ReversalsHold'
<1> SUFFICES ASSUME LotsInv, [LotsNext]_lotsVars PROVE ReversalsHold'
  OBVIOUS
<1> DEFINE Holds(t) ==
              /\ trader[t].entry \in Trades
              /\ entryLock[trader[t].entry] = t
              /\ journal[trader[t].entry].status = "posted"
              /\ trader[t].place = journal[trader[t].entry].place
              /\ Touched(t) = WrittenBy(trader[t].entry)
<1>0. LotsTypeOK /\ Null \notin Trades /\ \A t \in Traders : trader[t].pc = "reversing" => Holds(t)
  BY LotsAssumption DEF LotsInv, ReversalsHold
<1>1. CASE UNCHANGED lotsVars
  BY <1>0, <1>1 DEF ReversalsHold, Touched, Plans, WrittenBy, lotsVars
<1>2. ASSUME NEW s \in Traders, BeginTrade(s) \/ ContinueTrade(s) \/ TradeAborted(s)
      PROVE  ReversalsHold'
  <2>1. ASSUME NEW t \in Traders, trader[t].pc = "reversing", trader'[t].pc = "reversing",
               trader'[t].entry = trader[t].entry, trader'[t].place = trader[t].place,
               entryLock[trader[t].entry] = t => entryLock'[trader[t].entry] = t,
               Touched(t)' = Touched(t)
        PROVE  Holds(t)'
    <3> DEFINE e == trader[t].entry
    <3>1. /\ e \in Trades /\ journal'[e] = journal[e]
          /\ \A l \in Trades : consumed'[l][e] = consumed[l][e]
      BY <2>1, ReversingKeeps
    <3>2. WrittenBy(trader[t].entry)' = WrittenBy(e)
      BY <2>1, <3>1 DEF WrittenBy
    <3> QED
      BY <1>0, <2>1, <3>1, <3>2
  <2>2. ASSUME NEW t \in Traders, t # s, trader'[t].pc = "reversing"
        PROVE  Holds(t)'
    <3>1. /\ trader'[t] = trader[t]
          /\ \A e \in Trades : entryLock[e] = t => entryLock'[e] = t
      BY <1>2, <2>2, OtherTradersKeep
    <3>2. Touched(t)' = Touched(t)
      BY <3>1 DEF Touched, Plans
    <3> QED
      BY <1>0, <2>1, <2>2, <3>1, <3>2
  <2>3. ASSUME trader'[s].pc = "reversing"
        PROVE  Holds(s)'
    <3>1. CASE TradeEnded(s)
      BY <1>0, <2>3, <3>1, TradeEndedKeeps, NoTradeIs
    <3>2. CASE \E e \in Trades, p \in Places, qty \in Bought, unitCost \in UnitCosts :
                  Buy(s, e, p, qty, unitCost)
      <4>1. trader'[s] = NoTrade
        BY <3>2 DEF Buy
      <4> QED
        BY <2>3, <4>1, NoTradeIs
    <3>3. CASE \E e \in Trades, p \in Places, qty \in Sold : PreviewSell(s, e, p, qty)
      BY <1>0, <2>3, <3>3, PreviewIs
    <3>4. CASE LockAccount(s) \/ FindLots(s) \/ LockLots(s)
      BY <2>3, <3>4, LockingIs
    <3>5. CASE Allocate(s) /\ ~TradeAborted(s)
      BY <2>3, <3>5, AllocateIs
    <3>6. CASE \E e \in Trades : BeginReverse(s, e)
      <4>1. PICK e \in Trades : BeginReverse(s, e)
        BY <3>6
      <4>2. /\ trader'[s].entry = e /\ trader'[s].place = journal[e].place
            /\ trader'[s].todo = WrittenBy(e) /\ trader'[s].lot = Null
            /\ trader'[s].written = [l \in Trades |-> Null]
            /\ entryLock'[e] = s /\ journal[e].status = "posted"
            /\ journal' = journal /\ consumed' = consumed
        BY <4>1, BeginReverseIs DEF rows
      <4>3. WrittenBy(e)' = WrittenBy(e) /\ WrittenBy(e) \subseteq Trades
        BY <4>2 DEF WrittenBy
      <4>4. Touched(s)' = WrittenBy(e)
        BY <1>0, <4>2, <4>3 DEF Touched, Plans
      <4> QED
        BY <4>2, <4>3, <4>4
    <3>7. CASE \E l \in Trades : ReadLot(s, l) /\ ~TradeAborted(s)
      <4>1. PICK l \in Trades : ReadLot(s, l) /\ ~TradeAborted(s)
        BY <3>7
      <4>2. /\ trader[s].pc = "reversing" /\ trader'[s].entry = trader[s].entry
            /\ trader'[s].place = trader[s].place /\ trader[s].lot = Null
            /\ trader'[s].lot = l /\ l \in trader[s].todo
            /\ trader'[s].todo = trader[s].todo \ {l} /\ trader'[s].written = trader[s].written
            /\ entryLock' = entryLock
        BY <4>1, ReadLotIs
      <4>3. Touched(s)' = Touched(s)
        BY <1>0, <4>2 DEF Touched, Plans
      <4> QED
        BY <2>1, <2>3, <4>2, <4>3
    <3>8. CASE WriteLot(s)
      <4>1. /\ trader[s].pc = "reversing" /\ trader'[s].entry = trader[s].entry
            /\ trader'[s].place = trader[s].place
            /\ trader[s].lot \in Trades /\ trader'[s].lot = Null
            /\ trader'[s].todo = trader[s].todo
            /\ \A l \in Trades : l # trader[s].lot => trader'[s].written[l] = trader[s].written[l]
            /\ trader'[s].written[trader[s].lot] = trader[s].value /\ trader[s].value \in Nat
            /\ entryLock' = entryLock
        BY <3>8, WriteLotIs
      <4>2. trader'[s].written[trader[s].lot] # Null
        BY <4>1, LotsAssumption
      <4>3. Touched(s)' = Touched(s)
        BY <1>0, <4>1, <4>2 DEF Touched, Plans
      <4> QED
        BY <2>1, <2>3, <4>1, <4>3
    <3> HIDE DEF Holds
    <3> QED
      BY <1>2, <3>1, <3>2, <3>3, <3>4, <3>5, <3>6, <3>7, <3>8, OwnStep
  <2>4. \A t \in Traders : trader'[t].pc = "reversing" => Holds(t)'
    BY <2>2, <2>3
  <2> QED
    BY <2>4 DEF ReversalsHold
<1> QED
  BY <1>1, <1>2, SomebodySteps

LEMMA LotsInvStep == LotsInv /\ [LotsNext]_lotsVars => LotsInv'
BY LotsTypeStep, SalesApartStep, LocksHeldStep, PlansSoundStep, ReversalsStep, OwnRowsStep DEF LotsInv

\* Every row, lock and session state keeps its shape; the entry a sale takes, and
\* the lots a reversal writes, are those of the request.
THEOREM LotsTypeCorrect == LotsSpec => []LotsTypeOK
<1>1. LotsInv => LotsTypeOK
  BY DEF LotsInv
<1> QED
  BY <1>1, LotsInitInv, LotsInvStep, PTL DEF LotsSpec

-----------------------------------------------------------------------------
(* What was sold. *)

LEMMA ColumnSum ==
  ASSUME LotsTypeOK, NEW e \in Trades
  PROVE  SumFunction([l \in Trades |-> consumed[l][e]])
            = SumFunctionOnSet([l \in Trades |-> consumed[l][e]], Trades)
BY DEF SumFunction

LEMMA MatchedStep == LotsInv /\ SalesMatched /\ [LotsNext]_lotsVars => SalesMatched'
<1> SUFFICES ASSUME LotsInv, SalesMatched, [LotsNext]_lotsVars PROVE SalesMatched'
  OBVIOUS
<1> DEFINE taken(e) == [l \in Trades |-> consumed[l][e]]
           after(e) == [l \in Trades |-> consumed'[l][e]]
           due(e) == IF journal[e].status = "posted" THEN journal[e].qty ELSE 0
           dueAfter(e) == IF journal'[e].status = "posted" THEN journal'[e].qty ELSE 0
<1>0. LotsTypeOK /\ IsFiniteSet(Trades)
  BY LotsAssumption DEF LotsInv
<1>a. SUFFICES ASSUME NEW e \in Trades, journal'[e].kind = "sell"
               PROVE  SumFunctionOnSet(after(e), Trades) = dueAfter(e)
  <2>1. ASSUME NEW e \in Trades
        PROVE  SumFunction(after(e)) = SumFunctionOnSet(after(e), Trades)
    BY DEF SumFunction
  <2> HIDE DEF after
  <2>2. \A e \in Trades : journal'[e].kind = "sell" => SumFunction(after(e)) = dueAfter(e)
    BY <1>a, <2>1
  <2> QED
    BY <2>2 DEF SalesMatched, after
<1>1. CASE journal[e].status # "free"
  <2>1. CASE journal'[e] = journal[e] /\ \A l \in Trades : consumed'[l][e] = consumed[l][e]
    <3>1. after(e) = taken(e) /\ journal[e].kind = "sell" /\ dueAfter(e) = due(e)
      BY <1>a, <2>1
    <3>2. SumFunctionOnSet(taken(e), Trades) = due(e)
      BY <1>0, <3>1, ColumnSum DEF SalesMatched
    <3> HIDE DEF after, taken, due, dueAfter
    <3> QED
      BY <3>1, <3>2
  <2>2. CASE journal'[e].status = "void" /\ \A l \in Trades : consumed'[l][e] = 0
    <3>1. dueAfter(e) = 0 /\ \A l \in Trades : after(e)[l] = 0
      BY <2>2
    <3> HIDE DEF after, dueAfter
    <3> QED
      BY <1>0, <3>1, SumOfZeros
  <2> QED
    BY <1>1, <2>1, <2>2, RecordedStep
<1>2. CASE journal[e].status = "free"
  <2>1. journal[e] = NoEntry /\ NoEntry.kind = "buy"
    BY <1>2 DEF LotsInv, OwnRows, NoEntry
  <2>2. PICK s \in Traders : CommitSell(s) /\ e = trader[s].entry
    BY <1>a, <1>2, SaleRecorded
  <2> DEFINE row == SoldEntry(s)
             sold == trader[s].taken
  <2>3. /\ journal' = [journal EXCEPT ![e] = row] /\ row.status = "posted" /\ row.qty = trader[s].qty
        /\ sold \in [Trades -> Nat] /\ SumFunctionOnSet(sold, Trades) = trader[s].qty
        /\ \A l \in Trades : consumed'[l] = [consumed[l] EXCEPT ![e] = sold[l]]
    BY <2>2, CommitSellWrites
  <2> HIDE DEF row, sold
  <2>4. \A l \in Trades : consumed'[l][e] = sold[l]
    <3>1. \A l \in Trades : consumed[l] \in [Trades -> Nat]
      BY <1>0 DEF LotsTypeOK
    <3> QED
      BY <2>3, <3>1
  <2>5. after(e) = sold
    BY <2>3, <2>4
  <2>6. dueAfter(e) = trader[s].qty
    BY <1>0, <2>3 DEF LotsTypeOK
  <2> HIDE DEF after, dueAfter
  <2> QED
    BY <2>3, <2>5, <2>6
<1> QED
  BY <1>1, <1>2

\* What a live sale took of the lots is what it sold, and a reversed one took nothing:
\* a sale commits the allocation it computed under the lock of its account.
THEOREM LotsSalesMatched == LotsSpec => []SalesMatched
<1>1. LotsInit => SalesMatched
  BY DEF LotsInit, SalesMatched, NoEntry
<1> QED
  BY <1>1, MatchedStep, LotsInitInv, LotsInvStep, PTL DEF LotsSpec

-----------------------------------------------------------------------------
(* What is left. *)

\* A lot that is not there holds nothing and nothing has been taken of it.
LEMMA NothingConsumed ==
  ASSUME LotsTypeOK, NEW l \in Trades, \A x \in Trades : consumed[l][x] = 0
  PROVE  ConsumedOf(l) = 0
<1>1. IsFiniteSet(Trades) /\ DOMAIN consumed[l] = Trades
  BY LotsAssumption DEF LotsTypeOK
<1>2. SumFunctionOnSet(consumed[l], Trades) = 0
  BY <1>1, SumOfZeros
<1> QED
  BY <1>1, <1>2 DEF ConsumedOf, SumFunction

\* What an entry takes of a lot is part of what is consumed of it, and the rest stays.
LEMMA ConsumedMoves ==
  ASSUME LotsTypeOK, NEW l \in Trades, NEW e \in Trades, NEW units \in Nat,
         consumed'[l] = [consumed[l] EXCEPT ![e] = units]
  PROVE  /\ ConsumedOf(l) \in Nat /\ ConsumedOf(l)' = ConsumedOf(l) + (units - consumed[l][e])
         /\ consumed[l][e] \in Nat
         /\ ConsumedOf(l) = 0 => consumed[l][e] = 0
<1> DEFINE f == consumed[l]
           h == consumed'[l]
           v == units - consumed[l][e]
<1>1. IsFiniteSet(Trades) /\ f \in [Trades -> Nat] /\ h = [f EXCEPT ![e] = units]
  BY LotsAssumption DEF LotsTypeOK
<1>2. ConsumedOf(l) = SumFunctionOnSet(f, Trades) /\ ConsumedOf(l)' = SumFunctionOnSet(h, Trades)
  <2>1. DOMAIN f = Trades /\ DOMAIN h = Trades
    BY <1>1
  <2> QED
    BY <2>1 DEF ConsumedOf, SumFunction
<1> HIDE DEF h
<1>3. /\ \A x \in Trades : f[x] \in Nat
      /\ \A x \in Trades : x # e => h[x] = f[x]
      /\ h[e] = f[e] + v /\ v \in Int
  BY <1>1
<1>4. SumFunctionOnSet(h, Trades) = SumFunctionOnSet(f, Trades) + v
  <2>1. IsFiniteSet(Trades) /\ \A x \in Trades : f[x] \in Int
    BY <1>1, <1>3
  <2> HIDE DEF f, v
  <2> QED
    BY <1>3, <2>1, SumMoves
<1>5. SumFunctionOnSet(f, Trades) \in Nat
  <2> HIDE DEF f
  <2> QED
    BY <1>1, <1>3, SumIsNat
<1>6. SumFunctionOnSet(f, Trades) = 0 => f[e] = 0
  <2> HIDE DEF f
  <2> QED
    BY <1>1, <1>3, ZeroSum
<1> QED
  BY <1>2, <1>3, <1>4, <1>5, <1>6

\* A lot is rewritten only by the commit of a session that had a write of it to make.
LEMMA LotWriter ==
  ASSUME LotsInv, [LotsNext]_lotsVars, NEW l \in Trades, lot'[l] # lot[l], journal[l].status # "free"
  PROVE  \E s \in Traders :
            /\ CommitSell(s) \/ CommitReverse(s)
            /\ Plans(s, l) /\ trader'[s] = NoTrade
            /\ trader[s].written[l] # Null /\ lot'[l].remaining = trader[s].written[l]
<1>0. LotsTypeOK
  BY DEF LotsInv
<1>1. ~UNCHANGED rows
  BY DEF rows
<1>2. ASSUME NEW s \in Traders, NEW e \in Trades, NEW p \in Places, NEW qty \in Bought,
             NEW unitCost \in UnitCosts, Buy(s, e, p, qty, unitCost)
      PROVE  FALSE
  BY <1>2, BuyWrites DEF NoEntry
<1>3. ASSUME NEW s \in Traders, CommitSell(s) \/ CommitReverse(s)
      PROVE  /\ Plans(s, l) /\ trader'[s] = NoTrade
             /\ trader[s].written[l] # Null /\ lot'[l].remaining = trader[s].written[l]
  <2>1. lot' = WithWritesOf(s) /\ TradeEnded(s)
    BY <1>3 DEF CommitSell, CommitReverse
  <2>2. trader[s].written[l] # Null
    BY <1>0, <2>1, WritesAre
  <2> QED
    BY <1>0, <2>1, <2>2, WritesAre, TradeEndedKeeps DEF Plans
<1> QED
  BY <1>1, <1>2, <1>3, RowsWritten

\* A lot that has not raced is written by one session at a time, from what it read of it.
Alone(l) == \A s, t \in Traders : Plans(s, l) /\ Plans(t, l) => s = t

UpToDate(s, l) ==
    /\ trader[s].pc = "allocated" /\ trader[s].written[l] # Null =>
          /\ trader[s].taken[l] <= lot[l].remaining
          /\ trader[s].written[l] = lot[l].remaining - trader[s].taken[l]
    /\ trader[s].pc = "reversing" =>
          /\ trader[s].lot = l => trader[s].value = Restored(trader[s].entry, l)
          /\ trader[s].written[l] # Null => trader[s].written[l] = Restored(trader[s].entry, l)
          /\ trader[s].entry = l /\ journal[l].kind = "buy" /\ l \notin trader[s].todo =>
                ~(lot[l].remaining < lot[l].opened)

Unraced == \A l \in Trades \ raced : Alone(l) /\ \A s \in Traders : UpToDate(s, l)

\* A session that comes to write a lot comes alone, or the lot has raced.
LEMMA PlanBegins ==
  ASSUME LotsInv, NEW s \in Traders, BeginTrade(s) \/ ContinueTrade(s) \/ TradeAborted(s),
         NEW l \in Trades \ raced', Plans(s, l)', ~Plans(s, l), NEW t \in Traders, t # s
  PROVE  ~Plans(t, l)
<1>0. LotsTypeOK /\ Null \notin Trades /\ PlansSound /\ LocksHeld
  BY LotsAssumption DEF LotsInv
<1>1. ASSUME trader'[s].lot = Null, trader'[s].written = [x \in Trades |-> Null]
      PROVE  FALSE
  BY <1>0, <1>1 DEF Plans
<1>2. ASSUME NEW ls \in SUBSET Trades, l \in ls, raced' = raced \cup Overtaken(s, ls), Plans(t, l),
             l \in trader[s].locked => lotLock[l] = s
      PROVE  FALSE
  <2>1. l \notin Overtaken(s, ls)
    BY <1>2
  <2>2. l \in trader[s].locked /\ l \in trader[t].locked
    BY <1>2, <2>1 DEF Overtaken
  <2>3. trader[t].pc = "allocated"
    BY <1>0, <1>2, <2>2 DEF PlansSound, Plans
  <2>4. lotLock[l] = t
    BY <1>0, <2>2, <2>3 DEF LocksHeld
  <2> QED
    BY <1>2, <2>2, <2>4
<1>3. CASE TradeEnded(s)
  BY <1>0, <1>1, <1>3, TradeEndedKeeps, NoTradeIs
<1>4. CASE \E e \in Trades, p \in Places, qty \in Bought, unitCost \in UnitCosts :
              Buy(s, e, p, qty, unitCost)
  BY <1>4 DEF Buy, Plans
<1>5. CASE \E e \in Trades, p \in Places, qty \in Sold : PreviewSell(s, e, p, qty)
  BY <1>0, <1>1, <1>5, PreviewIs
<1>6. CASE LockAccount(s) \/ FindLots(s) \/ LockLots(s)
  BY <1>6, LockingIs DEF Plans
<1>7. CASE Allocate(s) /\ ~TradeAborted(s)
  <2> DEFINE allocation == Allocation(Remaining, trader[s].qty)
             takes == {x \in Trades : allocation[x] > 0}
  <2>1. /\ trader[s].pc = "locked" /\ trader'[s].lot = trader[s].lot
        /\ trader'[s].written[l] # Null <=> allocation[l] > 0
        /\ raced' = raced \cup Overtaken(s, takes)
    BY <1>7, AllocateIs
  <2> HIDE DEF allocation
  <2>2. trader[s].lot = Null
    BY <1>0, <2>1 DEF PlansSound
  <2>3. l \in takes /\ takes \in SUBSET Trades
    BY <1>0, <2>1, <2>2 DEF Plans
  <2>4. l \in trader[s].locked => lotLock[l] = s
    BY <1>0, <2>1 DEF LocksHeld
  <2> HIDE DEF takes
  <2> QED
    BY <1>2, <2>1, <2>3, <2>4
<1>8. CASE \E e \in Trades : BeginReverse(s, e)
  BY <1>1, <1>8, BeginReverseIs
<1>9. CASE \E x \in Trades : ReadLot(s, x) /\ ~TradeAborted(s)
  <2>1. PICK x \in Trades : ReadLot(s, x) /\ ~TradeAborted(s)
    BY <1>9
  <2>2. /\ trader[s].pc = "reversing" /\ trader'[s].lot = x /\ trader'[s].written = trader[s].written
        /\ raced' = raced \cup Overtaken(s, {x})
    BY <2>1, ReadLotIs
  <2>3. l = x /\ trader[s].locked = {}
    BY <1>0, <2>2 DEF Plans, PlansSound
  <2> QED
    BY <1>2, <2>2, <2>3
<1>10. CASE WriteLot(s)
  BY <1>0, <1>10, WriteLotIs DEF Plans
<1> QED
  BY <1>3, <1>4, <1>5, <1>6, <1>7, <1>8, <1>9, <1>10, OwnStep

\* The lot of a plan is not written by another session.
LEMMA PlannedLotKeeps ==
  ASSUME LotsInv, [LotsNext]_lotsVars, NEW l \in Trades, Alone(l),
         NEW t \in Traders, Plans(t, l), trader'[t] = trader[t]
  PROVE  lot'[l] = lot[l]
<1>1. journal[l].status # "free" /\ Null \notin Trades
  BY LotsAssumption DEF LotsInv, PlansSound
<1>2. ASSUME lot'[l] # lot[l] PROVE FALSE
  <2>1. PICK s \in Traders : Plans(s, l) /\ trader'[s] = NoTrade
    BY <1>1, <1>2, LotWriter
  <2>2. trader[t] = NoTrade
    BY <2>1 DEF Alone
  <2> QED
    BY <1>1, <2>2, NoTradeIs DEF Plans
<1> QED
  BY <1>2

LEMMA UpToDateStays ==
  ASSUME LotsInv, [LotsNext]_lotsVars, NEW l \in Trades, Alone(l),
         NEW t \in Traders, UpToDate(t, l), trader'[t] = trader[t]
  PROVE  UpToDate(t, l)'
<1> DEFINE e == trader[t].entry
<1>1. CASE Plans(t, l)
  <2>1. lot'[l] = lot[l]
    BY <1>1, PlannedLotKeeps
  <2>2. journal'[l].kind = journal[l].kind
    <3>1. journal[l].status # "free"
      BY <1>1 DEF LotsInv, PlansSound
    <3> QED
      BY <3>1, EntryStep
  <2>3. trader[t].pc = "reversing" => Restored(trader[t].entry, l)' = Restored(e, l)
    <3>1. SUFFICES ASSUME trader[t].pc = "reversing"
                   PROVE  Restored(trader[t].entry, l)' = Restored(e, l)
      OBVIOUS
    <3>2. journal'[e] = journal[e] /\ consumed'[l][e] = consumed[l][e]
      BY <3>1, ReversingKeeps
    <3> QED
      BY <2>1, <3>2 DEF Restored
  <2> QED
    BY <2>1, <2>2, <2>3 DEF UpToDate
<1>2. CASE ~Plans(t, l)
  <2>1. ~(trader[t].lot = l) /\ trader[t].written[l] = Null
    BY <1>2 DEF Plans
  <2>2. ~(trader'[t].pc = "reversing" /\ trader'[t].entry = l /\ journal'[l].kind = "buy" /\ l \notin trader'[t].todo)
    <3>1. SUFFICES ASSUME trader[t].pc = "reversing", e = l, journal'[l].kind = "buy", l \notin trader[t].todo
                   PROVE  FALSE
      OBVIOUS
    <3>2. journal[l].kind = "buy"
      BY <3>1, ReversingKeeps
    <3>3. Touched(t) = WrittenBy(l)
      BY <3>1 DEF LotsInv, ReversalsHold
    <3> QED
      BY <1>2, <3>1, <3>2, <3>3 DEF WrittenBy, Touched
  <2> QED
    BY <2>1, <2>2 DEF UpToDate
<1> QED
  BY <1>1, <1>2

LEMMA UnracedStep == LotsInv /\ Unraced /\ [LotsNext]_lotsVars => Unraced'
<1> SUFFICES ASSUME LotsInv, Unraced, [LotsNext]_lotsVars, NEW l \in Trades, l \notin raced'
             PROVE  Alone(l)' /\ \A t \in Traders : UpToDate(t, l)'
  BY DEF Unraced
<1>0. LotsTypeOK /\ Null \notin Trades /\ PlansSound
  BY LotsAssumption DEF LotsInv
<1>1. CASE UNCHANGED lotsVars
  BY <1>1 DEF Unraced, Alone, UpToDate, Restored, Plans, lotsVars
<1>2. ASSUME NEW s \in Traders, BeginTrade(s) \/ ContinueTrade(s) \/ TradeAborted(s)
      PROVE  Alone(l)' /\ \A t \in Traders : UpToDate(t, l)'
  <2>1. l \notin raced /\ \A t \in Traders : t # s => trader'[t] = trader[t]
    BY <1>2, OtherTradersKeep
  <2>2. Alone(l) /\ \A t \in Traders : UpToDate(t, l)
    BY <2>1 DEF Unraced
  <2>3. \A t \in Traders : t # s => UpToDate(t, l)'
    BY <2>1, <2>2, UpToDateStays
  <2>4. Alone(l)'
    <3>1. ASSUME NEW t \in Traders, t # s, Plans(t, l), Plans(s, l)'
          PROVE  FALSE
      <4>1. Plans(s, l)
        BY <1>2, <3>1, PlanBegins
      <4> QED
        BY <2>2, <3>1, <4>1 DEF Alone
    <3>2. \A t \in Traders : t # s => (Plans(t, l)' <=> Plans(t, l))
      BY <2>1 DEF Plans
    <3> QED
      BY <2>2, <3>1, <3>2 DEF Alone
  <2>5. UpToDate(s, l)'
    <3>1. ASSUME trader'[s].pc \notin {"allocated", "reversing"}
          PROVE  UpToDate(s, l)'
      BY <3>1 DEF UpToDate
    <3>2. CASE TradeEnded(s)
      BY <1>0, <3>1, <3>2, TradeEndedKeeps, NoTradeIs
    <3>3. CASE \E e \in Trades, p \in Places, qty \in Bought, unitCost \in UnitCosts :
                  Buy(s, e, p, qty, unitCost)
      <4>1. trader'[s] = NoTrade
        BY <3>3 DEF Buy
      <4> QED
        BY <3>1, <4>1, NoTradeIs
    <3>4. CASE \E e \in Trades, p \in Places, qty \in Sold : PreviewSell(s, e, p, qty)
      BY <1>0, <3>1, <3>4, PreviewIs
    <3>5. CASE LockAccount(s) \/ FindLots(s) \/ LockLots(s)
      BY <3>1, <3>5, LockingIs
    <3>6. CASE Allocate(s) /\ ~TradeAborted(s)
      <4> DEFINE allocation == Allocation(Remaining, trader[s].qty)
      <4>1. /\ trader'[s].pc = "allocated" /\ trader'[s].taken = allocation
            /\ allocation[l] <= lot[l].remaining
            /\ trader'[s].written[l] =
                  IF allocation[l] > 0 THEN lot[l].remaining - allocation[l] ELSE Null
            /\ lot' = lot
        BY <3>6, AllocateIs DEF rows
      <4> HIDE DEF allocation
      <4> QED
        BY <4>1 DEF UpToDate
    <3>7. CASE \E e \in Trades : BeginReverse(s, e)
      <4>1. PICK e \in Trades : BeginReverse(s, e)
        BY <3>7
      <4>2. /\ trader'[s].pc = "reversing" /\ trader'[s].entry = e /\ trader'[s].todo = WrittenBy(e)
            /\ trader'[s].lot = Null /\ trader'[s].written = [x \in Trades |-> Null]
            /\ journal' = journal
        BY <4>1, BeginReverseIs DEF rows
      <4>3. journal[e].kind = "buy" => e \in trader'[s].todo
        BY <4>2 DEF WrittenBy
      <4> QED
        BY <1>0, <4>2, <4>3 DEF UpToDate
    <3>8. CASE \E x \in Trades : ReadLot(s, x) /\ ~TradeAborted(s)
      <4>1. PICK x \in Trades : ReadLot(s, x) /\ ~TradeAborted(s)
        BY <3>8
      <4> DEFINE e == trader[s].entry
      <4>2. /\ trader[s].pc = "reversing" /\ trader'[s].pc = "reversing" /\ trader'[s].entry = e
            /\ trader'[s].lot = x /\ trader'[s].todo = trader[s].todo \ {x}
            /\ trader'[s].written = trader[s].written /\ trader'[s].value = Restored(e, x)
            /\ journal[e].kind = "buy" => ~(lot[x].remaining < lot[x].opened)
            /\ journal' = journal /\ lot' = lot /\ consumed' = consumed
        BY <4>1, ReadLotIs DEF rows
      <4>3. Restored(trader[s].entry, l)' = Restored(e, l)
        BY <4>2 DEF Restored
      <4>4. trader'[s].written[l] # Null => trader'[s].written[l] = Restored(e, l)
        BY <2>2, <4>2 DEF UpToDate
      <4>5. trader'[s].entry = l /\ journal'[l].kind = "buy" /\ l \notin trader'[s].todo =>
               ~(lot'[l].remaining < lot'[l].opened)
        <5>1. CASE l = x
          BY <4>2, <5>1
        <5>2. CASE l # x
          BY <2>2, <4>2, <5>2 DEF UpToDate
        <5> QED
          BY <5>1, <5>2
      <4> HIDE DEF e
      <4> QED
        BY <4>2, <4>3, <4>4, <4>5 DEF UpToDate
    <3>9. CASE WriteLot(s)
      <4> DEFINE e == trader[s].entry
                 x == trader[s].lot
      <4>1. /\ trader[s].pc = "reversing" /\ trader'[s].pc = "reversing" /\ trader'[s].entry = e
            /\ x \in Trades /\ trader'[s].lot = Null /\ trader'[s].todo = trader[s].todo
            /\ \A k \in Trades : k # x => trader'[s].written[k] = trader[s].written[k]
            /\ trader'[s].written[x] = trader[s].value
            /\ journal' = journal /\ lot' = lot /\ consumed' = consumed
        BY <3>9, WriteLotIs DEF rows
      <4>2. Restored(trader[s].entry, l)' = Restored(e, l)
        BY <4>1 DEF Restored
      <4>3. trader'[s].written[l] # Null => trader'[s].written[l] = Restored(e, l)
        BY <2>2, <4>1 DEF UpToDate
      <4>4. trader'[s].entry = l /\ journal'[l].kind = "buy" /\ l \notin trader'[s].todo =>
               ~(lot'[l].remaining < lot'[l].opened)
        BY <2>2, <4>1 DEF UpToDate
      <4> HIDE DEF e, x
      <4> QED
        BY <1>0, <4>1, <4>2, <4>3, <4>4 DEF UpToDate
    <3> QED
      BY <1>2, <3>2, <3>3, <3>4, <3>5, <3>6, <3>7, <3>8, <3>9, OwnStep
  <2> QED
    BY <2>3, <2>4, <2>5
<1> QED
  BY <1>1, <1>2, SomebodySteps

\* Every unit of a lot is open or taken by a sale; a reversed buy leaves nothing.
Kept(l) == /\ journal[l].status # "void" => lot[l].opened = lot[l].remaining + ConsumedOf(l)
           /\ journal[l].status = "void" => lot[l].remaining = 0 /\ ConsumedOf(l) = 0

LotsKept == \A l \in Trades \ raced : Kept(l)

LEMMA KeptStep == LotsInv /\ Unraced /\ LotsKept /\ [LotsNext]_lotsVars => LotsKept'
<1> SUFFICES ASSUME LotsInv, Unraced, LotsKept, [LotsNext]_lotsVars, NEW l \in Trades, l \notin raced'
             PROVE  Kept(l)'
  BY DEF LotsKept
<1>0. LotsTypeOK
  BY DEF LotsInv
<1>a. l \notin raced /\ Kept(l)
  <2>1. raced \subseteq raced'
    <3>1. UNCHANGED lotsVars => raced' = raced
      BY DEF lotsVars
    <3> QED
      BY <3>1, SomebodySteps, OtherTradersKeep
  <2> QED
    BY <2>1 DEF LotsKept
<1>b. lot[l].remaining \in Nat /\ lot[l].opened \in Nat
  BY <1>0 DEF LotsTypeOK, LotRows
<1>1. CASE UNCHANGED rows
  BY <1>1, <1>a DEF Kept, rows, ConsumedOf
<1>2. ASSUME NEW s \in Traders, NEW e \in Trades, NEW p \in Places, NEW qty \in Bought,
             NEW unitCost \in UnitCosts, Buy(s, e, p, qty, unitCost)
      PROVE  Kept(l)'
  <2>1. /\ consumed' = consumed /\ journal[e] = NoEntry /\ qty \in Nat
        /\ l # e => journal'[l] = journal[l] /\ lot'[l] = lot[l]
        /\ journal'[e].status = "posted" /\ lot'[e].opened = qty /\ lot'[e].remaining = qty
    BY <1>2, BuyWrites
  <2>2. ConsumedOf(l)' = ConsumedOf(l)
    BY <2>1 DEF ConsumedOf
  <2>3. CASE l = e
    <3>1. ConsumedOf(l) = 0
      BY <1>0, <2>1, <2>3, NothingConsumed DEF LotsInv, OwnRows, NoEntry
    <3> QED
      BY <2>1, <2>2, <2>3, <3>1 DEF Kept
  <2>4. CASE l # e
    BY <1>a, <2>1, <2>2, <2>4 DEF Kept
  <2> QED
    BY <2>3, <2>4
<1>3. ASSUME NEW s \in Traders, CommitSell(s)
      PROVE  Kept(l)'
  <2> DEFINE e == trader[s].entry
             units == trader[s].taken[l]
             row == SoldEntry(s)
  <2>1. /\ e \in Trades /\ journal[e] = NoEntry /\ trader[s].pc = "allocated"
        /\ journal' = [journal EXCEPT ![e] = row] /\ row.status = "posted"
        /\ trader[s].taken \in [Trades -> Nat]
        /\ trader[s].written[l] # Null <=> units > 0
        /\ lot' = WithWritesOf(s)
        /\ consumed'[l] = [consumed[l] EXCEPT ![e] = units]
    BY <1>3, CommitSellWrites
  <2>2. consumed[l][e] = 0
    BY <2>1 DEF LotsInv, OwnRows, NoEntry
  <2>3. units \in Nat
    BY <2>1
  <2> HIDE DEF units, e, row
  <2>4. ConsumedOf(l) \in Nat /\ ConsumedOf(l)' = ConsumedOf(l) + (units - 0)
    BY <1>0, <2>1, <2>2, <2>3, ConsumedMoves
  <2>5. units <= lot[l].remaining /\ lot'[l].remaining = lot[l].remaining - units /\ lot'[l].opened = lot[l].opened
    <3>1. CASE trader[s].written[l] = Null
      <4>1. units = 0 /\ lot'[l] = lot[l]
        BY <1>0, <2>1, <2>3, <3>1, WritesAre
      <4> QED
        BY <1>b, <4>1
    <3>2. CASE trader[s].written[l] # Null
      <4>1. UpToDate(s, l)
        BY <1>a DEF Unraced
      <4>2. units <= lot[l].remaining /\ trader[s].written[l] = lot[l].remaining - units
        BY <2>1, <3>2, <4>1 DEF UpToDate, units
      <4>3. lot'[l].remaining = trader[s].written[l] /\ lot'[l].opened = lot[l].opened
        BY <1>0, <2>1, <3>2, WritesAre
      <4> QED
        BY <4>2, <4>3
    <3> QED
      BY <3>1, <3>2
  <2>6. journal'[l].status = "void" <=> journal[l].status = "void"
    BY <1>0, <2>1 DEF LotsTypeOK, NoEntry
  <2>7. ASSUME journal[l].status # "void"
        PROVE  lot'[l].opened = lot'[l].remaining + ConsumedOf(l)'
    <3>1. lot[l].opened = lot[l].remaining + ConsumedOf(l)
      BY <1>a, <2>7 DEF Kept
    <3> QED
      BY <1>b, <2>3, <2>4, <2>5, <3>1
  <2>8. ASSUME journal[l].status = "void"
        PROVE  lot'[l].remaining = 0 /\ ConsumedOf(l)' = 0
    <3>1. lot[l].remaining = 0 /\ ConsumedOf(l) = 0
      BY <1>a, <2>8 DEF Kept
    <3>2. units = 0
      BY <2>3, <2>5, <3>1
    <3> QED
      BY <2>4, <2>5, <3>1, <3>2
  <2> QED
    BY <2>6, <2>7, <2>8 DEF Kept
<1>4. ASSUME NEW s \in Traders, CommitReverse(s)
      PROVE  Kept(l)'
  <2> DEFINE e == trader[s].entry
             units == consumed[l][e]
  <2>1. /\ e \in Trades /\ journal[e].status = "posted" /\ journal' = [journal EXCEPT ![e].status = "void"]
        /\ trader[s].pc = "reversing" /\ trader[s].todo = {}
        /\ lot' = WithWritesOf(s)
        /\ l \in WrittenBy(e) <=> trader[s].written[l] # Null
        /\ consumed' = [x \in Trades |-> [consumed[x] EXCEPT ![e] = 0]]
    BY <1>4, CommitReverseWrites DEF CommitReverse
  <2>2. /\ journal'[l].status = IF l = e THEN "void" ELSE journal[l].status
        /\ journal[e].kind \in {"buy", "sell"}
    BY <1>0, <2>1 DEF LotsTypeOK, JournalRows
  <2>3. consumed'[l] = [consumed[l] EXCEPT ![e] = 0] /\ 0 \in Nat
    BY <2>1
  <2>4. /\ ConsumedOf(l) \in Nat /\ ConsumedOf(l)' = ConsumedOf(l) + (0 - units) /\ units \in Nat
        /\ ConsumedOf(l) = 0 => units = 0
    <3> HIDE DEF e
    <3> QED
      BY <1>0, <2>1, <2>3, ConsumedMoves
  <2>5. UpToDate(s, l)
    BY <1>a DEF Unraced
  <2>6. CASE l \in WrittenBy(e)
    <3>1. lot'[l].remaining = Restored(e, l) /\ lot'[l].opened = lot[l].opened
      <4>1. lot'[l].remaining = trader[s].written[l] /\ lot'[l].opened = lot[l].opened
        BY <1>0, <2>1, <2>6, WritesAre
      <4>2. trader[s].written[l] = Restored(e, l)
        BY <2>1, <2>5, <2>6 DEF UpToDate
      <4> QED
        BY <4>1, <4>2
    <3>2. CASE journal[e].kind = "buy"
      <4>1. l = e /\ lot'[l].remaining = 0
        BY <2>6, <3>1, <3>2 DEF WrittenBy, Restored
      <4>2. ~(lot[l].remaining < lot[l].opened)
        BY <2>1, <2>5, <3>2, <4>1 DEF UpToDate
      <4>3. lot[l].opened = lot[l].remaining + ConsumedOf(l)
        BY <1>a, <2>1, <4>1 DEF Kept
      <4>4. ConsumedOf(l) = 0
        BY <1>b, <2>4, <4>2, <4>3
      <4>5. ConsumedOf(l)' = 0
        BY <2>4, <4>4
      <4> QED
        BY <2>2, <4>1, <4>5 DEF Kept
    <3>3. CASE journal[e].kind = "sell"
      <4>1. units > 0 /\ lot'[l].remaining = lot[l].remaining + units
        BY <2>6, <3>1, <3>3 DEF WrittenBy, Restored
      <4>2. l # e
        BY <2>1, <3>3, <4>1 DEF LotsInv, OwnRows
      <4>3. journal[l].status # "void"
        BY <1>a, <2>4, <4>1 DEF Kept
      <4>4. lot[l].opened = lot[l].remaining + ConsumedOf(l)
        BY <1>a, <4>3 DEF Kept
      <4> HIDE DEF units
      <4>5. lot'[l].opened = lot'[l].remaining + ConsumedOf(l)'
        BY <1>b, <2>4, <3>1, <4>1, <4>4
      <4> QED
        BY <2>2, <4>2, <4>3, <4>5 DEF Kept
    <3> QED
      BY <2>2, <3>2, <3>3
  <2>7. CASE l \notin WrittenBy(e)
    <3>1. lot'[l] = lot[l]
      BY <1>0, <2>1, <2>7, WritesAre
    <3>2. units = 0
      <4>1. CASE journal[e].kind = "buy"
        BY <2>1, <4>1 DEF LotsInv, OwnRows
      <4>2. CASE journal[e].kind = "sell"
        BY <2>4, <2>7, <4>2 DEF WrittenBy
      <4> QED
        BY <2>2, <4>1, <4>2
    <3>3. ConsumedOf(l)' = ConsumedOf(l)
      BY <2>4, <3>2
    <3>4. l = e => lot[l].remaining = 0 /\ ConsumedOf(l) = 0
      <4>1. SUFFICES ASSUME l = e PROVE lot[l].remaining = 0 /\ ConsumedOf(l) = 0
        OBVIOUS
      <4>2. journal[e].kind = "sell"
        BY <2>2, <2>7, <4>1 DEF WrittenBy
      <4>3. lot[l] = NoLot /\ \A x \in Trades : consumed[l][x] = 0
        BY <4>1, <4>2 DEF LotsInv, OwnRows
      <4> QED
        BY <1>0, <4>3, NothingConsumed DEF NoLot
    <3> HIDE DEF e
    <3> QED
      BY <1>a, <2>2, <3>1, <3>3, <3>4 DEF Kept
  <2> QED
    BY <2>6, <2>7
<1> QED
  BY <1>1, <1>2, <1>3, <1>4, RowsWritten

LEMMA KeptInit == LotsInit => Unraced /\ LotsKept
<1> SUFFICES ASSUME LotsInit PROVE Unraced /\ LotsKept
  OBVIOUS
<1>1. LotsTypeOK /\ Null \notin Trades
  BY LotsInitInv, LotsAssumption DEF LotsInv
<1>2. \A l \in Trades : ConsumedOf(l) = 0
  BY <1>1, NothingConsumed DEF LotsInit
<1>3. LotsKept
  BY <1>2 DEF LotsInit, LotsKept, Kept, NoLot, NoEntry
<1>4. \A s \in Traders : trader[s] = NoTrade
  BY DEF LotsInit
<1>5. Unraced
  BY <1>1, <1>4, NoTradeIs DEF Unraced, Alone, UpToDate, Plans
<1> QED
  BY <1>3, <1>5

\* Whatever buys, sales and reversals overlap, at however many places, every unit of a
\* live buy is open or taken by a live sale, and a reversed buy leaves nothing to sell and
\* nothing sold: but for the lots that two sessions had to write at once when one of
\* them had read the lot without a lock.
THEOREM LotsTradesConserve == LotsSpec => []TradesConserve
<1> DEFINE Inv == LotsInv /\ Unraced /\ LotsKept
<1>1. LotsInit => Inv
  BY LotsInitInv, KeptInit
<1>2. Inv /\ [LotsNext]_lotsVars => Inv'
  BY LotsInvStep, UnracedStep, KeptStep
<1>3. Inv => TradesConserve
  BY DEF LotsKept, Kept, TradesConserve, Conserved
<1> HIDE DEF Inv
<1> QED
  BY <1>1, <1>2, <1>3, PTL DEF LotsSpec

-----------------------------------------------------------------------------
(* First in, first out. *)

SalesElsewhereStand(p) ==
    \A v \in Trades : journal[v].kind = "sell" /\ journal[v].status = "void" => journal[v].place = p

\* A sale that takes a lot will leave, or has found, nothing in an older one bought at its
\* own place; unless that lot has raced, or a sale of another place was reversed.
OlderSpent(s, l, k) ==
    /\ trader[s].pc = "allocated" /\ trader[s].taken[l] > 0
    /\ journal[k].place = trader[s].place
    /\ SalesElsewhereStand(trader[s].place)
    => \/ trader[s].written[k] = 0
       \/ trader[s].written[k] = Null /\ lot[k].remaining = 0

OldestFirst == \A s \in Traders, l \in Trades : \A k \in Older(l) \ raced : OlderSpent(s, l, k)

\* Nobody but the sale that holds the account of a place takes from a lot bought there
\* that it leaves nothing of, or gives anything back to it.
LEMMA SpentStays ==
  ASSUME LotsInv, Unraced, [LotsNext]_lotsVars, NEW s \in Traders, NEW l \in Trades,
         NEW k \in Trades, k \notin raced, OlderSpent(s, l, k), trader'[s] = trader[s]
  PROVE  OlderSpent(s, l, k)'
<1> DEFINE p == trader[s].place
<1> SUFFICES ASSUME trader[s].pc = "allocated", trader[s].taken[l] > 0, journal'[k].place = p,
                    \A v \in Trades :
                       journal'[v].kind = "sell" /\ journal'[v].status = "void" => journal'[v].place = p
             PROVE  \/ trader[s].written[k] = 0
                    \/ trader[s].written[k] = Null /\ lot'[k].remaining = 0
  BY DEF OlderSpent, SalesElsewhereStand
<1>0. LotsTypeOK /\ p \in Places /\ accountLock[p] = s /\ s # Null
  BY LotsAssumption DEF LotsInv, LocksHeld, Selling
<1>1. ~\E t \in Traders : trader'[t] = NoTrade /\ t = s
  BY NoTradeIs
<1>2. ASSUME journal[k].status = "free" PROVE FALSE
  <2>1. journal[k] = NoEntry /\ Null \notin Places
    BY <1>2, LotsAssumption DEF LotsInv, OwnRows
  <2>2. journal[k].place = Null /\ journal'[k] # journal[k]
    BY <1>0, <2>1 DEF NoEntry
  <2>3. ~UNCHANGED rows
    BY <2>2 DEF rows
  <2>4. ASSUME NEW t \in Traders, NEW e \in Trades, NEW q \in Places, NEW qty \in Bought,
               NEW unitCost \in UnitCosts, Buy(t, e, q, qty, unitCost)
        PROVE  FALSE
    <3>1. e = k /\ q = p
      BY <2>2, <2>4, BuyWrites
    <3> QED
      BY <1>0, <2>4, <3>1, BuyWrites
  <2>5. ASSUME NEW t \in Traders, CommitSell(t)
        PROVE  FALSE
    <3> DEFINE e == trader[t].entry
               row == SoldEntry(t)
    <3>1. /\ e \in Trades /\ journal' = [journal EXCEPT ![e] = row] /\ row.place = trader[t].place
          /\ trader[t].pc = "allocated"
      BY <2>5, CommitSellWrites
    <3> HIDE DEF e, row
    <3>2. e = k
      BY <1>0, <2>2, <3>1 DEF LotsTypeOK
    <3>3. trader[t].place = p
      BY <1>0, <3>1, <3>2 DEF LotsTypeOK
    <3>4. t = s
      BY <1>0, <3>1, <3>3 DEF LotsInv, LocksHeld, Selling
    <3>5. trader'[t] = NoTrade
      BY <1>0, <2>5, TradeEndedKeeps DEF CommitSell
    <3> QED
      BY <1>1, <3>4, <3>5
  <2>6. ASSUME NEW t \in Traders, CommitReverse(t)
        PROVE  FALSE
    <3> DEFINE e == trader[t].entry
    <3>1. e \in Trades /\ journal[e].status = "posted" /\ journal' = [journal EXCEPT ![e].status = "void"]
      BY <2>6, CommitReverseWrites
    <3> HIDE DEF e
    <3> QED
      BY <1>0, <1>2, <2>2, <3>1 DEF LotsTypeOK
  <2> QED
    BY <2>3, <2>4, <2>5, <2>6, RowsWritten
<1>3. journal[k].status # "free" /\ journal[k].place = p
  BY <1>2, EntryStep
<1>4. SalesElsewhereStand(p)
  <2> SUFFICES ASSUME NEW v \in Trades, journal[v].kind = "sell", journal[v].status = "void"
               PROVE  journal[v].place = p
    BY DEF SalesElsewhereStand
  <2>1. journal[v].status # "free"
    OBVIOUS
  <2> QED
    BY <2>1, EntryStep
<1>5. trader[s].written[k] = 0 \/ (trader[s].written[k] = Null /\ lot[k].remaining = 0)
  BY <1>3, <1>4 DEF OlderSpent
<1>6. ASSUME lot'[k] # lot[k], lot[k].remaining = 0
      PROVE  lot'[k].remaining = 0
  <2>1. PICK t \in Traders : /\ CommitSell(t) \/ CommitReverse(t)
                             /\ trader'[t] = NoTrade /\ trader[t].written[k] # Null
                             /\ lot'[k].remaining = trader[t].written[k]
    BY <1>3, <1>6, LotWriter
  <2>2. UpToDate(t, k)
    BY DEF Unraced
  <2>3. CASE CommitSell(t)
    <3>1. trader[t].pc = "allocated" /\ trader[t].taken[k] > 0 /\ trader[t].taken[k] \in Nat
      BY <2>1, <2>3, CommitSellWrites
    <3>2. trader[t].taken[k] <= 0
      BY <1>6, <2>1, <2>2, <3>1 DEF UpToDate
    <3> QED
      BY <3>1, <3>2
  <2>4. CASE CommitReverse(t)
    <3> DEFINE e == trader[t].entry
    <3>1. /\ e \in Trades /\ journal[e].status = "posted" /\ journal' = [journal EXCEPT ![e].status = "void"]
          /\ trader[t].pc = "reversing" /\ accountLock[journal[e].place] = Null
      BY <2>4, CommitReverseWrites
    <3>2. lot'[k].remaining = Restored(e, k)
      BY <2>1, <2>2, <3>1 DEF UpToDate
    <3>3. journal[e].kind \in {"buy", "sell"}
      BY <1>0, <3>1 DEF LotsTypeOK, JournalRows
    <3>4. journal[e].place # p
      BY <1>0, <3>1
    <3> HIDE DEF e
    <3>5. journal'[e].status = "void" /\ journal'[e].kind = journal[e].kind /\ journal'[e].place = journal[e].place
      BY <1>0, <3>1 DEF LotsTypeOK, JournalRows
    <3>6. journal[e].kind = "buy"
      BY <3>1, <3>3, <3>4, <3>5
    <3> QED
      BY <3>2, <3>6 DEF Restored
  <2> QED
    BY <2>1, <2>3, <2>4
<1> QED
  BY <1>5, <1>6

LEMMA OldestFirstStep == LotsInv /\ Unraced /\ OldestFirst /\ [LotsNext]_lotsVars => OldestFirst'
<1> SUFFICES ASSUME LotsInv, Unraced, OldestFirst, [LotsNext]_lotsVars, NEW t \in Traders, NEW l \in Trades,
                    NEW k \in Older(l), k \notin raced'
             PROVE  OlderSpent(t, l, k)'
  BY DEF OldestFirst, Older
<1>0. LotsTypeOK /\ k \in Trades
  BY DEF LotsInv, Older
<1>1. CASE UNCHANGED lotsVars
  <2>1. k \notin raced /\ trader'[t] = trader[t]
    BY <1>1 DEF lotsVars
  <2>2. OlderSpent(t, l, k)
    BY <2>1 DEF OldestFirst
  <2> QED
    BY <1>0, <2>1, <2>2, SpentStays
<1>2. ASSUME NEW s \in Traders, BeginTrade(s) \/ ContinueTrade(s) \/ TradeAborted(s)
      PROVE  OlderSpent(t, l, k)'
  <2>1. k \notin raced /\ \A u \in Traders : u # s => trader'[u] = trader[u]
    BY <1>2, OtherTradersKeep
  <2>2. OlderSpent(t, l, k)
    BY <2>1 DEF OldestFirst
  <2>3. CASE t # s
    BY <1>0, <2>1, <2>2, <2>3, SpentStays
  <2>4. CASE t = s
    <3>1. ASSUME trader'[s].pc # "allocated"
          PROVE  OlderSpent(s, l, k)'
      BY <3>1 DEF OlderSpent
    <3>2. CASE TradeEnded(s)
      BY <1>0, <2>4, <3>1, <3>2, TradeEndedKeeps, NoTradeIs
    <3>3. CASE \E e \in Trades, p \in Places, qty \in Bought, unitCost \in UnitCosts :
                  Buy(s, e, p, qty, unitCost)
      <4>1. trader'[s] = NoTrade
        BY <3>3 DEF Buy
      <4> QED
        BY <2>4, <3>1, <4>1, NoTradeIs
    <3>4. CASE \E e \in Trades, p \in Places, qty \in Sold : PreviewSell(s, e, p, qty)
      BY <1>0, <2>4, <3>1, <3>4, PreviewIs
    <3>5. CASE LockAccount(s) \/ FindLots(s) \/ LockLots(s)
      BY <2>4, <3>1, <3>5, LockingIs
    <3>6. CASE Allocate(s) /\ ~TradeAborted(s)
      <4> DEFINE qty == trader[s].qty
                 allocation == Allocation(Remaining, qty)
      <4>1. /\ qty \in Nat /\ trader'[s].taken = allocation
            /\ allocation \in [Trades -> Nat]
            /\ lot[k].remaining \in Nat
            /\ trader'[s].written[k] =
                  IF allocation[k] > 0 THEN lot[k].remaining - allocation[k] ELSE Null
            /\ lot' = lot
        BY <1>0, <3>6, AllocateIs DEF rows
      <4>2. Remaining \in [Trades -> Nat] /\ Remaining[k] = lot[k].remaining
        BY <1>0, RemainingType
      <4>3. allocation[l] > 0 => allocation[k] = lot[k].remaining
        BY <4>1, <4>2, OlderFirst
      <4> HIDE DEF qty, allocation
      <4>4. allocation[l] > 0 =>
               trader'[s].written[k] = 0 \/ (trader'[s].written[k] = Null /\ lot'[k].remaining = 0)
        BY <4>1, <4>3
      <4> QED
        BY <2>4, <4>1, <4>4 DEF OlderSpent
    <3>7. CASE \E e \in Trades : BeginReverse(s, e)
      BY <2>4, <3>1, <3>7, BeginReverseIs
    <3>8. CASE \E x \in Trades : ReadLot(s, x) /\ ~TradeAborted(s)
      BY <2>4, <3>1, <3>8, ReadLotIs
    <3>9. CASE WriteLot(s)
      BY <2>4, <3>1, <3>9, WriteLotIs
    <3> QED
      BY <1>2, <3>2, <3>3, <3>4, <3>5, <3>6, <3>7, <3>8, <3>9, OwnStep
  <2> QED
    BY <2>3, <2>4
<1> QED
  BY <1>1, <1>2, SomebodySteps

\* A sale that takes a lot leaves nothing in an older one bought at its own place, whatever
\* was bought, sold, backdated or reversed since its preview; unless a sale of another
\* place was reversed, or that lot has raced.
THEOREM LotsFirstInFirstOut == LotsSpec => FirstInFirstOut
<1> DEFINE Inv == LotsInv /\ Unraced /\ OldestFirst
           Sells(e, l) == /\ journal[e].status = "free" /\ journal'[e].status = "posted"
                          /\ consumed'[l][e] > 0
                          /\ \A v \in Trades :
                                journal'[v].kind = "sell" /\ journal'[v].status = "void" =>
                                    journal'[v].place = journal'[e].place
           Spends(e, l) == \A k \in Older(l) \ raced' :
                              journal'[k].place = journal'[e].place => lot'[k].remaining = 0
<1>1. ASSUME Inv, [LotsNext]_lotsVars, NEW e \in Trades, NEW l \in Trades, Sells(e, l),
             NEW k \in Older(l), k \notin raced', journal'[k].place = journal'[e].place
      PROVE  lot'[k].remaining = 0
  <2>0. /\ LotsInv /\ LotsTypeOK /\ k \in Trades /\ consumed[l] \in [Trades -> Nat]
        /\ LotsInv'
    BY <1>1, LotsInvStep DEF LotsInv, LotsTypeOK, Older
  <2>1. journal'[e].kind = "sell"
    <3>1. journal'[e].kind = "buy" => consumed'[l][e] = 0
      BY <2>0 DEF LotsInv, OwnRows
    <3>2. journal'[e].kind \in {"buy", "sell"}
      BY <2>0 DEF LotsInv, LotsTypeOK, JournalRows
    <3> QED
      BY <1>1, <3>1, <3>2
  <2>2. PICK s \in Traders : CommitSell(s) /\ e = trader[s].entry
    BY <1>1, <2>0, <2>1, SaleRecorded
  <2> DEFINE row == SoldEntry(s)
             p == trader[s].place
  <2>3. /\ journal[e] = NoEntry /\ trader[s].pc = "allocated"
        /\ journal' = [journal EXCEPT ![e] = row]
        /\ row.place = p /\ row.status = "posted"
        /\ consumed'[l] = [consumed[l] EXCEPT ![e] = trader[s].taken[l]]
        /\ lot' = WithWritesOf(s) /\ raced' = raced
    BY <2>0, <2>2, CommitSellWrites
  <2>4. trader[s].taken[l] > 0
    BY <1>1, <2>0, <2>3
  <2> HIDE DEF row, p
  <2>5. journal'[e].place = p /\ journal'[e].status = "posted" /\ \A x \in Trades : x # e => journal'[x] = journal[x]
    BY <2>0, <2>3 DEF LotsTypeOK
  <2>6. CASE k = e
    <3>1. lot'[k] = NoLot
      BY <2>0, <2>1, <2>6 DEF LotsInv, OwnRows
    <3> QED
      BY <3>1 DEF NoLot
  <2>7. CASE k # e
    <3>1. journal[k].place = p
      BY <1>1, <2>0, <2>5, <2>7
    <3>2. SalesElsewhereStand(p)
      <4> SUFFICES ASSUME NEW v \in Trades, journal[v].kind = "sell", journal[v].status = "void"
                   PROVE  journal[v].place = p
        BY DEF SalesElsewhereStand
      <4>1. v # e
        BY <2>3 DEF NoEntry
      <4>2. journal'[v] = journal[v]
        BY <2>5, <4>1
      <4> QED
        BY <1>1, <2>5, <4>2
    <3>3. OlderSpent(s, l, k)
      BY <1>1, <2>3 DEF OldestFirst
    <3>4. trader[s].written[k] = 0 \/ (trader[s].written[k] = Null /\ lot[k].remaining = 0)
      BY <2>3, <2>4, <3>1, <3>2, <3>3 DEF OlderSpent, p
    <3>5. 0 # Null
      BY LotsAssumption
    <3> QED
      BY <2>0, <2>3, <3>4, <3>5, WritesAre
  <2> QED
    BY <2>6, <2>7
<1>2. Inv /\ [LotsNext]_lotsVars => [\A e, l \in Trades : Sells(e, l) => Spends(e, l)]_lotsVars
  <2> HIDE DEF Inv, Sells
  <2> QED
    BY <1>1
<1>3. LotsInit => Inv
  <2>1. ASSUME LotsInit PROVE OldestFirst
    <3>1. \A s \in Traders : trader[s].pc = "idle"
      BY <2>1, NoTradeIs DEF LotsInit
    <3> QED
      BY <3>1 DEF OldestFirst, OlderSpent
  <2> QED
    BY <2>1, LotsInitInv, KeptInit
<1>4. Inv /\ [LotsNext]_lotsVars => Inv'
  BY LotsInvStep, UnracedStep, OldestFirstStep
<1>5. [\A e, l \in Trades : Sells(e, l) => Spends(e, l)]_lotsVars =>
         [\A e, l \in Trades :
            /\ journal[e].status = "free" /\ journal'[e].status = "posted"
            /\ consumed'[l][e] > 0
            /\ \A v \in Trades :
                  journal'[v].kind = "sell" /\ journal'[v].status = "void" =>
                      journal'[v].place = journal'[e].place
            => \A k \in Older(l) \ raced' :
                  journal'[k].place = journal'[e].place => lot'[k].remaining = 0]_lotsVars
  OBVIOUS
<1> HIDE DEF Inv, Sells, Spends
<1> QED
  BY <1>2, <1>3, <1>4, <1>5, PTL DEF LotsSpec, FirstInFirstOut
=============================================================================
