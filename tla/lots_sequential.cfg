SPECIFICATION LotsSpec
CONSTANTS
    Traders = {s1}
    Trades = {1, 2, 3, 4}
    Places = {p1, p2}
    Bought = {1, 2}
    Sold = {1, 2}
    UnitCosts = {1, 2}
    Reversible = {"buy", "sell"}
    Null = Null
INVARIANTS LotsConserved SalesMatched BookEqualsLots
CHECK_DEADLOCK FALSE
