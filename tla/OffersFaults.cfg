\* Handlers stop or throw between any two awaits; Stripe repeats and reorders events.
SPECIFICATION OfferSpec
CONSTANTS
    Slots = {s1}
    Bookings = {b1}
    Payments = {p1, p2}
    Requests = {r1}
    Hooks = {h1}
    Cron = cron
    None = None
    Sizes <- MCSingles
    Price <- MCPrice
    MaxUses = 1
    Mishaps = {}
    Edits = {}
    SlotMoves = {}
    Overlap = FALSE
    Redeliver = TRUE
    InOrder = FALSE
    Faults = TRUE
    Offers = {o1}
    OfferRequests = {x1}
    OfferHooks = {y1}
    Totals = {1}
SYMMETRY Symm
INVARIANTS
    AcceptedOffersHeld
    DeclinedNeverCharged
CHECK_DEADLOCK FALSE
