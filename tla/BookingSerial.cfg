\* One handler at a time; cards fail, holds lapse, events are reordered;
\* the coach moves bookings to other dates.
SPECIFICATION Spec
CONSTANTS
    Slots = {s1, s2}
    Bookings = {b1, b2}
    Payments = {p1, p2}
    Requests = {r1}
    Hooks = {h1}
    Cron = cron
    None = None
    Sizes <- MCSizes
    Price <- MCPrice
    MaxUses = 3
    Mishaps = {"requires_action", "lapse"}
    Edits = {}
    SlotMoves <- MCMoves
    Overlap = FALSE
    Redeliver = FALSE
    InOrder = FALSE
    Faults = FALSE
SYMMETRY Symm
CONSTRAINT MovedUntilValidated
INVARIANTS
    PayoutConserved
    PayoutNeedsToken
    OneBookingPerSlot
    PaymentsLinked
PROPERTIES
    SupersededNeverCharged
CHECK_DEADLOCK FALSE
