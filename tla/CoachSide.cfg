\* A coach: his subscriptions (one handler at a time, events in order and repeated, fair webhooks),
\* and his account at Stripe Connect.
SPECIFICATION MCSpec
CONSTANTS
    Coaches = {c1}
    Athletes = {}
    Plans = {p1}
    Subs = {s1, s2}
    Requests = {r1}
    Hooks = {h1}
    None = None
    Endpoints = {"coach"}
    PlanKinds = {"COACH"}
    MaxEvents = 3
    Overlap = FALSE
    InOrder = TRUE
    Redeliver = TRUE
    Faults = TRUE
    Payees = {k1}
    Accounts = {a1, a2}
    Calls = {x1, x2}
    NoAccount = NoAccount
    TwoOnboardings = FALSE
INVARIANTS
    CoachTypeOK
    RowsFollowStripe
    FeeWasCharged
    OnboardedAccountIsPaid
PROPERTIES
    ProfileCatchesUp
CHECK_DEADLOCK FALSE
