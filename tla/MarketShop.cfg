\* One athlete who orders twice from a stock of two; the admin, repeated events and a
\* webhook that stops act between any two awaits.
SPECIFICATION Spec
CONSTANTS
    Buyers = {u1}
    Products = {a}
    Rows = {c1}
    Orders = {o1, o2}
    Requests = {r1}
    Hooks = {h1}
    None = None
    Stock = 2
    Quantities = {1}
    StockEdits = {1}
    StatusEdits = {"CANCELLED"}
    ShelfEdits = {}
    Declines = FALSE
    MaxSold = 3
    Redeliver = TRUE
    Faults = TRUE
SYMMETRY Symm
INVARIANTS
    MarketTypeOK
    NeverOversold
    SoldOnce
CHECK_DEADLOCK FALSE
