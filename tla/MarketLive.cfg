\* Two orders for the last piece of a product: declined cards, repeated events, fair webhooks.
SPECIFICATION FairSpec
CONSTANTS
    Buyers = {u1}
    Products = {a}
    Rows = {c1}
    Orders = {o1, o2}
    Requests = {r1}
    Hooks = {h1}
    None = None
    Stock = 2
    Quantities = {1, 2}
    StockEdits = {}
    StatusEdits = {}
    ShelfEdits = {"active", "deleted"}
    Declines = TRUE
    MaxSold = 4
    Redeliver = TRUE
    Faults = FALSE
INVARIANTS
    ConfirmedIsPaid
PROPERTIES
    PaidIsConfirmed
CHECK_DEADLOCK FALSE
