\* Accounts and sign-in, codes by e-mail, the times of sessions, the coach's calendar.
SPECIFICATION MCSpec
CONSTANTS
    e1 = e1
    e2 = e2
    A = A
    B = B
    Ids = {i1, i2}
    Emails = {e1, e2}
    Apps = {A, B}
    AppEmail <- MCAppEmail
    GoogleIds = {g}
    AppleIds = {p}
    SocialEmail <- MCSocialEmail
    Requests = {r1, r2}
    None = None
    CallsStop = TRUE
    Users = {u1, u2}
    Addresses = {m1, m2}
    UcodeIds = {k1}
    Tokens = {n1}
    Calls = {x1, x2}
    Nil = Nil
    CallsOverlap = TRUE
    Trainers = {c1, c2}
    Trainees = {a1}
    Appointments = {b1, b2}
    Proposals = {s1}
    Dates = {d1, d2}
    Hours = 2
    Editors = {v1}
    Nobody = Nobody
    TwoEditors = FALSE
    Statuses = {"PENDING", "CONFIRMED", "CANCELLED"}
    WeekLength = 3
    LastDay = 3
    LastToday = 1
    MaxAsked = 1
    Times = {t1}
    MaxSlots = 1
    SlotDays = {1}
    DatesOff = {2}
    Writers = {w1}
    Cron = cron
    Dated = {f1, f2}
    HoursPerDay = 2
    LastDate = 1
    Filters = {"CONFIRMED"}
    Bundles = {q1}
    SoldRows = {o1}
    Charges = {h1, h2}
    Buyers = {y1, y2}
    PackageTerms <- MCPackageTerms
    Single <- MCSingle
    MaxTerms = 2
    NoKey = NoKey
INVARIANTS
    PeopleTypeOK
    RegisteredAsMailed
    SocialLoginStable
    PasswordKeepsToOwner
    
    CalendarsAreTrue
PROPERTIES
    OnlyStaleWritesOpen
CONSTRAINT SessionBound
SYMMETRY MCSymmetry
CHECK_DEADLOCK FALSE
