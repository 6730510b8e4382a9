SPECIFICATION Spec
CONSTANTS
    Sessions = {s1, s2}
    Properties = {p1}
    Vehicles = {v1, v2}
    Aside = {v2}
    Cost = 1
    Prices = {1, 2}
    None = None
SYMMETRY Symmetry
INVARIANTS SoldAsBooked GoneWithItsPrice 
