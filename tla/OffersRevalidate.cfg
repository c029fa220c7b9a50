\* An offer is paid after its booking was validated.
SPECIFICATION OfferSpec
CONSTANTS
    Slots = {s1}
    Bookings = {b1}
    Payments = {p1, p2}
    Requests = {r1}
    Hooks = {h1}
    Cron = cron
    None = None
    Sizes <- MCSingles
    Price <- MCPrice
    MaxUses = 2
    Mishaps = {}
    Edits = {}
    SlotMoves = {}
    Overlap = FALSE
    Redeliver = FALSE
    InOrder = FALSE
    Faults = FALSE
    Offers = {o1}
    OfferRequests = {x1}
    OfferHooks = {y1}
    Totals = {1, 4}
SYMMETRY Symm
INVARIANTS
    SingleValidatedOnce
CHECK_DEADLOCK FALSE
