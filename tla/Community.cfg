\* Presence, conversations, notifications, goals, badges, reviews, lists.
SPECIFICATION MCSpec
CONSTANTS
    People = {u1, u2}
    Sockets = {s1, s2, s3}
    Threads = {c1, c2}
    Texts = {m1}
    Prefs = {p1, p2}
    Chats = {x1, x2}
    Nowhere = Nowhere
    GoalIds = {g1, g2}
    Titles = {t1, t2}
    Mentors = {h1}
    Amounts = {0, 1, 2}
    MaxGoals = 1
    MaxEntries = 2
    GoalCalls = {y1, y2}
    NoGoal = NoGoal
    Unsaid = Unsaid
    BadgeIds = {b1, b2}
    Criteria <- MCCriteria
    Roots <- MCRoots
    Points = {1}
    Jobs = {j1, j2}
    MaxAge = 2
    MaxGoalCount = 1
    BadgeCalls = {z1, z2}
    NoBadge = NoBadge
    Bookings = {k1, k2}
    Ratings = {0, 3, 5}
    Writers = {w1, w2}
    NoBooking = NoBooking
    WritesFail = TRUE
    Lists = {"athlete", "coach", "bookings", "users", "products", "orders", "unread",
             "notifications", "progress", "reviews", "videos"}
    MaxRows = 3
    PageDates = {1, 2}
    Asked = {1, 3}
    Cap = 2
INVARIANTS
    CommunityTypeOK
    PresenceSettles
    SilenceKept
    MadeOnce
    FiguresFollow
    ShowsEverything
SYMMETRY MCSymmetry
CHECK_DEADLOCK FALSE
