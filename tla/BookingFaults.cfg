\* Handlers stop or throw between any two awaits; Stripe repeats and reorders events.
SPECIFICATION Spec
CONSTANTS
    Slots = {s1}
    Bookings = {b1}
    Payments = {p1}
    Requests = {r1}
    Hooks = {h1}
    Cron = cron
    None = None
    Sizes <- MCSingles
    Price <- MCPrice
    MaxUses = 1
    Mishaps = {"payment_failed", "lapse"}
    Edits = {}
    SlotMoves = {}
    Overlap = TRUE
    Redeliver = TRUE
    InOrder = FALSE
    Faults = TRUE
SYMMETRY Symm
INVARIANTS
    TransfersBacked
    LedgerTellsTruth
CHECK_DEADLOCK FALSE
