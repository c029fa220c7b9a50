\* A custom offer is sent, answered and paid while the booking is booked, validated and cancelled.
SPECIFICATION OfferSpec
CONSTANTS
    Slots = {s1}
    Bookings = {b1}
    Payments = {p1, p2}
    Requests = {r1}
    Hooks = {h1}
    Cron = cron
    None = None
    Sizes <- MCSingles
    Price <- MCPrice
    MaxUses = 1
    Mishaps = {}
    Edits = {}
    SlotMoves = {}
    Overlap = TRUE
    Redeliver = FALSE
    InOrder = FALSE
    Faults = FALSE
    Offers = {o1}
    OfferRequests = {x1}
    OfferHooks = {y1}
    Totals = {1}
SYMMETRY Symm
CONSTRAINT AtMostMaxInFlight
INVARIANTS
    OfferChargedWithBooking
    OfferBalances
PROPERTIES
    ImplementsEscrow
CHECK_DEADLOCK FALSE
