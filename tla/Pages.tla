-------------------------------- MODULE Pages --------------------------------
(***************************************************************************)
(* The lists that a client reads page by page while others write to them.  *)
(*   getAthleteBookings, getCoachBookings   modules/bookings               *)
(*   findAll of bookings and of users       modules/admin                  *)
(*   findAll and getAllOrders of the shop   modules/admin                  *)
(*   getUnreadNotifications, getAllNotifications                           *)
(*   listProgress, getCoachReviews, listVideos                             *)
(* A page is an offset into the rows there are at that moment; most lists  *)
(* also count the rows, by a second query.  A row of the model is known by *)
(* its place in the order of creation.                                     *)
(***************************************************************************)
EXTENDS Integers, Sequences, FiniteSets

CONSTANTS
    Lists,          \* the lists of the run
    MaxRows,        \* bound on the rows
    PageDates,      \* dates of appointments
    Asked,          \* rows a client asks for on a page
    Cap             \* rows a page may have, 100 in the code

PagedLists == {"athlete", "coach", "bookings", "users", "products", "orders", "unread",
               "notifications", "progress", "reviews", "videos"}

ASSUME ListsKnown == Lists \subseteq PagedLists
ASSUME PageBounds == MaxRows \in Nat /\ Cap \in Nat \ {0} /\ Asked \subseteq Nat \ {0} /\ Asked # {}
ASSUME PageDatesAreInt == PageDates \subseteq Int /\ PageDates # {}

VARIABLES
    list,       \* the list the behaviour is about
    table,      \* its rows, as they were created
    reader      \* the client who reads it

pageVars == <<list, table, reader>>

\* on: the status the client asks for, unread, or free of charge
TableRow == [on : BOOLEAN, date : PageDates, there : BOOLEAN]

Reader == [pc    : {"idle", "asking", "done"},
           asked : Asked,
           only  : BOOLEAN,                     \* asks for one status; is no subscriber
           page  : Nat,
           todo  : SUBSET {"count", "rows"},    \* queries of this page still to run
           total : Nat,                         \* the count
           full  : BOOLEAN,                     \* the page had as many rows as it may
           got   : SUBSET (1..MaxRows),         \* rows received so far
           sure  : SUBSET (1..MaxRows),         \* rows in the list ever since the first page
           odd   : BOOLEAN]                     \* history, see below

NoReader(n) == [pc |-> "idle", asked |-> n, only |-> FALSE, page |-> 0, todo |-> {}, total |-> 0,
                full |-> FALSE, got |-> {}, sure |-> {}, odd |-> FALSE]

SomeDate == CHOOSE d \in PageDates : TRUE
LeastAsked == CHOOSE n \in Asked : \A m \in Asked : n <= m

PageInit == /\ list \in Lists
            /\ table = << >>
            /\ reader = NoReader(LeastAsked)

-----------------------------------------------------------------------------
(* Which rows a list has, and in which order.                              *)

Asking(t, only) == {i \in DOMAIN t : only => t[i].on}
There(t) == {i \in DOMAIN t : t[i].there}

\* The list of an athlete or a coach also has the bookings the admin removed.
AthleteBookings(t, only) == Asking(t, only)
CoachBookings(t, only) == Asking(t, only)
AllBookings(t, only) == There(t) \cap Asking(t, only)
AllUsers(t, only) == There(t) \cap Asking(t, only)
Products(t, only) == There(t) \cap Asking(t, only)
AllOrders(t) == There(t)
UnreadNotifications(t) == There(t) \cap Asking(t, TRUE)
AllNotifications(t) == There(t)
GoalEntries(t) == DOMAIN t
CoachReviews(t) == DOMAIN t
Videos(t, only) == Asking(t, only)

ListOf(t, only) == CASE list = "athlete"       -> AthleteBookings(t, only)
                     [] list = "coach"         -> CoachBookings(t, only)
                     [] list = "bookings"      -> AllBookings(t, only)
                     [] list = "users"         -> AllUsers(t, only)
                     [] list = "products"      -> Products(t, only)
                     [] list = "orders"        -> AllOrders(t)
                     [] list = "unread"        -> UnreadNotifications(t)
                     [] list = "notifications" -> AllNotifications(t)
                     [] list = "progress"      -> GoalEntries(t)
                     [] list = "reviews"       -> CoachReviews(t)
                     [] list = "videos"        -> Videos(t, only)

Listed == ListOf(table, reader.only)

ByDate == {"athlete", "coach"}
Filtered == {"athlete", "coach", "bookings", "users", "products", "videos"}
NotCounted == {"unread", "notifications"}
NotCapped == {"unread", "notifications", "videos"}
Rewritable == {"athlete", "coach", "bookings", "users", "products", "unread"}
Removable == {"bookings", "users", "products", "unread", "notifications"}

\* Rows of one date come in any order, at every query anew.
Before(i, j) == IF list \in ByDate THEN table[i].date >= table[j].date ELSE i > j

Sortings(S) == {s \in [1..Cardinality(S) -> S] :
                   \A m, n \in DOMAIN s : m < n => s[m] # s[n] /\ Before(s[m], s[n])}

-----------------------------------------------------------------------------
(* One page: its count and its rows.                                       *)

Take == IF list \in NotCapped \/ reader.asked < Cap THEN reader.asked ELSE Cap

\* Mutant: the first page is page 0.
SkipFromZero == reader.page * Take

\* The lists of the admin leave out as many rows as were asked for, although a
\* page has no more than the cap.
Skip == (reader.page - 1) * (IF list \in {"bookings", "users"} THEN reader.asked ELSE Take)

Pages == (reader.total + Take - 1) \div Take

HasNextPage == IF list \in NotCounted THEN reader.full ELSE reader.page < Pages

Queries == IF list \in NotCounted THEN {"rows"} ELSE {"count", "rows"}

\* Progress refuses a page that is too large.
ReadFirst(n, only) ==
    /\ reader.pc = "idle"
    /\ list = "progress" => n <= Cap
    /\ only => list \in Filtered
    /\ reader' = [NoReader(n) EXCEPT !.pc = "asking", !.only = only, !.page = 1,
                                     !.todo = Queries, !.sure = ListOf(table, only)]
    /\ UNCHANGED <<list, table>>

CountRows ==
    /\ "count" \in reader.todo /\ ~reader.odd
    /\ reader' = [reader EXCEPT !.total = Cardinality(Listed), !.todo = @ \ {"count"}]
    /\ UNCHANGED <<list, table>>

\* Dates that two rows share leave their order to the database.
Tied == list \in ByDate /\ \E i \in reader.sure, j \in Listed : i # j /\ table[i].date = table[j].date

\* A booking list is counted first; the others run both queries at once.
FindRows ==
    /\ "rows" \in reader.todo /\ ~reader.odd
    /\ list \in ByDate => "count" \notin reader.todo
    /\ \E s \in Sortings(Listed) :
          LET rows == SubSeq(s, Skip + 1, IF Skip + Take < Len(s) THEN Skip + Take ELSE Len(s))
          IN  reader' = [reader EXCEPT !.got = @ \cup {rows[i] : i \in DOMAIN rows},
                                       !.full = Len(rows) = Take, !.todo = @ \ {"rows"},
                                       !.odd = @ \/ Tied]
    /\ UNCHANGED <<list, table>>

ReadNext ==
    /\ reader.pc = "asking" /\ reader.todo = {} /\ ~reader.odd
    /\ reader' = IF HasNextPage
                 THEN [reader EXCEPT !.page = @ + 1, !.todo = Queries]
                 ELSE [reader EXCEPT !.pc = "done"]
    /\ UNCHANGED <<list, table>>

-----------------------------------------------------------------------------
(* What others do meanwhile.  Odd: a row left the list or moved in it, or  *)
(* the two queries of one page saw different rows; or the page came while  *)
(* two rows had one date.  Bounds: the rows rest once the list is read,    *)
(* and an odd reading is not followed.                                     *)

HalfRead == reader.todo # {} /\ reader.todo # Queries

\* The list becomes the one of table t and filter only.
Becomes(t, only, moved) ==
    LET rows == ListOf(t, only)
    IN  [reader EXCEPT !.only = only, !.sure = @ \cap rows,
                       !.odd = @ \/ moved \/ Listed \ rows # {} \/ (HalfRead /\ rows # Listed)]

Meanwhile(t, moved) ==
    /\ reader.pc # "done" /\ ~reader.odd
    /\ table' = t
    /\ reader' = IF reader.pc = "asking" THEN Becomes(t, reader.only, moved) ELSE reader
    /\ UNCHANGED list

MakeRow(on, date) ==
    /\ Len(table) < MaxRows
    /\ on => list \in Filtered \cup {"unread"}
    /\ list \notin ByDate => date = SomeDate
    /\ Meanwhile(Append(table, [on |-> on, date |-> date, there |-> TRUE]), FALSE)

\* A status is written, a notification is read.
RewriteRow(i) ==
    /\ list \in Rewritable
    /\ list = "unread" => table[i].on
    /\ Meanwhile([table EXCEPT ![i].on = ~@], FALSE)

MoveRow(i, date) ==
    /\ list \in ByDate
    /\ table[i].date # date
    /\ Meanwhile([table EXCEPT ![i].date = date], TRUE)

RemoveRow(i) ==
    /\ list \in Removable
    /\ table[i].there
    /\ Meanwhile([table EXCEPT ![i].there = FALSE], FALSE)

ClearAll ==
    /\ list \in NotCounted
    /\ table # << >>
    /\ Meanwhile([i \in DOMAIN table |-> [table[i] EXCEPT !.there = FALSE]], FALSE)

\* The subscription of the client of a video list begins or ends.
Subscribed ==
    /\ list = "videos"
    /\ reader.pc = "asking" /\ ~reader.odd
    /\ reader' = Becomes(table, ~reader.only, FALSE)
    /\ UNCHANGED <<list, table>>

PageNext ==
    \/ \E n \in Asked, only \in BOOLEAN : ReadFirst(n, only)
    \/ CountRows \/ FindRows \/ ReadNext
    \/ \E on \in BOOLEAN, date \in PageDates : MakeRow(on, date)
    \/ \E i \in DOMAIN table :
          RewriteRow(i) \/ RemoveRow(i) \/ (\E date \in PageDates : MoveRow(i, date))
    \/ ClearAll \/ Subscribed

PageSpec == PageInit /\ [][PageNext]_pageVars

-----------------------------------------------------------------------------
PageTypeOK ==
    /\ list \in Lists
    /\ table \in Seq(TableRow) /\ Len(table) <= MaxRows
    /\ reader \in Reader

\* A page is not longer than was asked for.
AsAsked == list \in {"bookings", "users"} => reader.asked <= Cap

\* A client who reads a list to its end received every row that was in it from
\* his first page on, also when rows are added between his calls and push the
\* others to later pages; unless a row left the list or changed its date, a row
\* was added between the two queries of one page, two rows have one date, or he
\* asked the admin's lists for more rows than a page may have.
PagesMissNothing ==
    reader.pc = "done" /\ ~reader.odd /\ AsAsked => reader.sure \subseteq reader.got
=============================================================================
