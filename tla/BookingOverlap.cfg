\* Two API calls, a webhook and the job, interleaved at every await, on one booking;
\* the coach or the admin edits its status at any moment.
SPECIFICATION Spec
CONSTANTS
    Slots = {s1}
    Bookings = {b1}
    Payments = {p1}
    Requests = {r1, r2}
    Hooks = {h1}
    Cron = cron
    None = None
    Sizes <- MCSizes
    Price <- MCPrice
    MaxUses = 2
    Mishaps = {}
    Edits = {"COMPLETED", "CONFIRMED"}
    SlotMoves = {}
    Overlap = TRUE
    Redeliver = FALSE
    InOrder = FALSE
    Faults = FALSE
SYMMETRY Symm
INVARIANTS
    TypeOK
    NoSessionWithoutPayout
    CompletedMeansPaid
CHECK_DEADLOCK FALSE
