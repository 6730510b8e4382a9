SPECIFICATION Spec
CONSTANTS
    Sessions = {s1}
    a1 = a1
    a2 = a2
    a3 = a3
    Accounts = {a1, a2, a3}
    p1 = p1
    Setup <- SetupAccounts
    SetupPlace <- PlaceOfSetup
    Names = {p1}
    Currencies = {irt, usdt}
    Entries = {e1, e2, e3}
    Checkpoints = {1}
    Links = {a3}
    Moves <- Payments
    Amounts = {1}
    Days = {1, 2}
    Rates = {1, 2}
    Reports <- BankReports
    None = None
SYMMETRY Symmetry
INVARIANT WalletsMatch
PROPERTIES DeletionKeepsBooks ReportedReached
CHECK_DEADLOCK FALSE
