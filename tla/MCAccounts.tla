----------------------------- MODULE MCAccounts -----------------------------
(***************************************************************************)
(* Money accounts on a small instance: a bank account and Toman at an      *)
(* exchange from the set-up, which share an opening entry, and one more    *)
(* account to register.                                                    *)
(***************************************************************************)
EXTENDS Accounts, TLC

CONSTANTS a1, a2, a3, p1

SetupAccounts == {a1, a2}

PlaceOfSetup == [a \in SetupAccounts |-> IF a = a1 THEN None ELSE p1]

Report(a, d, b) == [account |-> a, day |-> d, balance |-> b]

BankReports == {Report(a1, 1, 0), Report(a3, 1, 0)}

Payments == {<<a1, a2>>, <<a2, None>>, <<a3, None>>, <<None, a3>>}

Symmetry == Permutations(Entries) \cup Permutations(Currencies) \cup Permutations(Sessions)
=============================================================================
