\* Fair, one handler at a time, events in order.
SPECIFICATION FairSpec
CONSTANTS
    Slots = {s1}
    Bookings = {b1}
    Payments = {p1, p2}
    Requests = {r1}
    Hooks = {h1}
    Cron = cron
    None = None
    Sizes <- MCSizes
    Price <- MCPrice
    MaxUses = 2
    Mishaps = {"requires_action", "lapse"}
    Edits = {}
    SlotMoves = {}
    Overlap = FALSE
    Redeliver = FALSE
    InOrder = TRUE
    Faults = FALSE
PROPERTIES
    ExpiredHoldReleased
    NoHoldBehindCancelled
CHECK_DEADLOCK FALSE
