SPECIFICATION LotsSpec
CONSTANTS
    Traders = {s1, s2}
    Trades = {1, 2, 3, 4}
    Places = {p1, p2}
    Bought = {2}
    Sold = {1, 2}
    UnitCosts = {1}
    Reversible = {"sell"}
    Null = Null
INVARIANT TradesConserve
PROPERTIES FirstInFirstOut RequestsEnd
CHECK_DEADLOCK FALSE
