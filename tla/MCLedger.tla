------------------------------ MODULE MCLedger ------------------------------
(***************************************************************************)
(* Ledger on small instances.  Account 1 is a wallet, 2 a bank account and *)
(* 3 the income account, which no guard protects.                          *)
(***************************************************************************)
EXTENDS Ledger, TLC

Request(wallet, bank, income, guard, key) ==
    [legs |-> <<wallet, bank, income>>, guard |-> guard, key |-> key]

Salary    == Request(1, 0, -1, FALSE, "k1")    \* and its retry
Bonus     == Request(2, 0, -2, FALSE, "k1")    \* another payload under the same key
Deposit   == Request(-1, 1, 0, TRUE, None)
Withdraw  == Request(1, -1, 0, TRUE, None)
OneLegged == Request(1, 0, 0, FALSE, None)
Lopsided  == Request(1, 1, -1, FALSE, None)

AllRequests == {Salary, Bonus, Deposit, Withdraw, OneLegged, Lopsided}
FewRequests == {Salary, Deposit, Withdraw}

Symmetry == Permutations(Sessions) \cup Permutations(Entries)
=============================================================================
