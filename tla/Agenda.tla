-------------------------------- MODULE Agenda -------------------------------
(***************************************************************************)
(* The bookings as a coach or an athlete looks them up by time, in         *)
(*   src/src/modules/bookings/bookings.service.ts:                         *)
(* a calendar day by day (getAthleteBookingsByDate, getCoachBookingsByDate)*)
(* and the tabs of his screen (getNextUpcomingSession, getUpcomingBookings,*)
(* getCompletedBookings, getCancelledBookings).  Each call is one query;   *)
(* between the calls the clock goes on and others write the bookings.      *)
(* The model has the bookings of one person.                               *)
(***************************************************************************)
EXTENDS Integers, FiniteSets

CONSTANTS
    Dated,          \* the bookings
    HoursPerDay,    \* moments of a day
    LastDate,       \* bound on the dates
    Filters         \* statuses a client asks his calendar for

PlanStates == {"PENDING", "CONFIRMED", "CANCELLED", "COMPLETED"}

ASSUME DayHasHours == HoursPerDay \in Nat \ {0} /\ LastDate \in Nat
ASSUME FiltersKnown == Filters \subseteq PlanStates

VARIABLES
    hour,       \* the clock
    plan,       \* the bookings
    look        \* the client who looks them up

agendaVars == <<hour, plan, look>>

Moments == 0..((LastDate + 1) * HoursPerDay - 1)

DateOf(t) == t \div HoursPerDay

PlanRow == [state : PlanStates \cup {"ABSENT"}, at : Moments]

Tabs == {"next", "upcoming", "completed", "cancelled"}

Look == [pc    : {"idle", "days", "done"} \cup Tabs,
         only  : SUBSET Filters,
         date  : 0..(LastDate + 1),     \* the date he asks for
         shown : [Dated -> Nat],        \* on how many dates, or tabs, a booking was
         first : SUBSET Moments,        \* when his next session begins
         sure  : SUBSET Dated]          \* history: see below

NoLook == [pc |-> "idle", only |-> {}, date |-> 0, shown |-> [b \in Dated |-> 0],
           first |-> {}, sure |-> {}]

AgendaInit ==
    /\ hour = 0
    /\ plan = [b \in Dated |-> [state |-> "ABSENT", at |-> 0]]
    /\ look = NoLook

Planned == {b \in Dated : plan[b].state # "ABSENT"}

-----------------------------------------------------------------------------
(* The queries.  None of them leaves out bookings that the admin removed.  *)

Wanted(only) == {b \in Planned : only = {} \/ plan[b].state \in only}

\* Mutant: the end of the day belongs to it.
AthleteOnDateInclusive(d, only) ==
    {b \in Wanted(only) : /\ d * HoursPerDay <= plan[b].at
                          /\ plan[b].at <= (d + 1) * HoursPerDay}

AthleteOnDate(d, only) ==
    {b \in Wanted(only) : /\ d * HoursPerDay <= plan[b].at
                          /\ plan[b].at < (d + 1) * HoursPerDay}

\* The coach's bookings name his profile, too, which he has had ever since.
CoachOnDate(d, only) == AthleteOnDate(d, only)

\* Mutant: a session that begins now is not ahead any more.
UpcomingLater == {b \in Planned : plan[b].at > hour}

\* The status of a session is not asked for: a cancelled one is upcoming too.
UpcomingTab == {b \in Planned : plan[b].at >= hour}

CompletedTab == {b \in Dated : plan[b].state = "COMPLETED"}

CancelledTab == {b \in Dated : plan[b].state = "CANCELLED"}

\* Mutant: the sessions are sorted the other way round.
NextDescending == {t \in {plan[b].at : b \in UpcomingTab} :
                      \A b \in UpcomingTab : plan[b].at <= t}

NextSession == {t \in {plan[b].at : b \in UpcomingTab} : \A b \in UpcomingTab : t <= plan[b].at}

-----------------------------------------------------------------------------
(* The client: through the dates of his calendar, or through his tabs.     *)

Also(rows) == [b \in Dated |-> look.shown[b] + IF b \in rows THEN 1 ELSE 0]

\* On some tab: ahead, completed or cancelled.
OnSomeTab(b, p, t) == /\ p[b].state # "ABSENT"
                      /\ p[b].at >= t \/ p[b].state \in {"COMPLETED", "CANCELLED"}

LookUpDates(only) ==
    /\ look.pc = "idle"
    /\ look' = [NoLook EXCEPT !.pc = "days", !.only = only, !.sure = Wanted(only)]
    /\ UNCHANGED <<hour, plan>>

ReadDate ==
    /\ look.pc = "days"
    /\ \E rows \in {AthleteOnDate(look.date, look.only), CoachOnDate(look.date, look.only)} :
          look' = [look EXCEPT !.shown = Also(rows), !.date = @ + 1,
                               !.pc = IF look.date = LastDate THEN "done" ELSE @]
    /\ UNCHANGED <<hour, plan>>

LookUpTabs ==
    /\ look.pc = "idle"
    /\ look' = [NoLook EXCEPT !.pc = "next", !.sure = {b \in Dated : OnSomeTab(b, plan, hour)}]
    /\ UNCHANGED <<hour, plan>>

ReadNextSession ==
    /\ look.pc = "next"
    /\ look' = [look EXCEPT !.first = NextSession, !.pc = "upcoming"]
    /\ UNCHANGED <<hour, plan>>

ReadUpcoming ==
    /\ look.pc = "upcoming"
    /\ look' = [look EXCEPT !.shown = Also(UpcomingTab), !.pc = "completed"]
    /\ UNCHANGED <<hour, plan>>

ReadCompleted ==
    /\ look.pc = "completed"
    /\ look' = [look EXCEPT !.shown = Also(CompletedTab), !.pc = "cancelled"]
    /\ UNCHANGED <<hour, plan>>

ReadCancelled ==
    /\ look.pc = "cancelled"
    /\ look' = [look EXCEPT !.shown = Also(CancelledTab), !.pc = "done"]
    /\ UNCHANGED <<hour, plan>>

-----------------------------------------------------------------------------
(* What happens meanwhile.  Sure are the bookings that were wanted, or on  *)
(* some tab, ever since the client began; not those that were moved, nor   *)
(* those that were cancelled and are not any more.  Bound: the bookings    *)
(* rest once the client is done.                                           *)

StaysSure(b, p, t) ==
    /\ p[b].at = plan[b].at
    /\ IF look.pc = "days" THEN look.only = {} \/ p[b].state \in look.only
       ELSE /\ OnSomeTab(b, p, t)
            /\ plan[b].state = "CANCELLED" => p[b].state = "CANCELLED"

Elapses(p, t) ==
    /\ look.pc # "done"
    /\ plan' = p /\ hour' = t
    /\ look' = [look EXCEPT !.sure = {b \in @ : StaysSure(b, p, t)}]

Passes == hour + 1 \in Moments /\ Elapses(plan, hour + 1)

\* bookAppointment refuses past dates, though not a moment of today.
Appointed(b, t) ==
    /\ plan[b].state = "ABSENT"
    /\ DateOf(t) >= DateOf(hour)
    /\ Elapses([plan EXCEPT ![b] = [state |-> "PENDING", at |-> t]], hour)

\* The webhook, the expiry job, a cancellation, a validation; updateBooking and
\* the admin write any status.
Restated(b, s) ==
    /\ b \in Planned /\ plan[b].state # s
    /\ Elapses([plan EXCEPT ![b].state = s], hour)

\* updateBooking, the admin, an accepted custom offer: to any date.
Moved(b, t) ==
    /\ b \in Planned /\ plan[b].at # t
    /\ Elapses([plan EXCEPT ![b].at = t], hour)

AgendaNext ==
    \/ \E only \in {{}} \cup {{s} : s \in Filters} : LookUpDates(only)
    \/ ReadDate \/ LookUpTabs \/ ReadNextSession \/ ReadUpcoming \/ ReadCompleted \/ ReadCancelled
    \/ Passes
    \/ \E b \in Dated, t \in Moments : Appointed(b, t) \/ Moved(b, t)
    \/ \E b \in Dated, s \in PlanStates : Restated(b, s)

AgendaSpec == AgendaInit /\ [][AgendaNext]_agendaVars

-----------------------------------------------------------------------------
AgendaTypeOK == hour \in Moments /\ plan \in [Dated -> PlanRow] /\ look \in Look

LookedThrough(dates) == look.pc = "done" /\ (dates <=> look.date > LastDate)

\* A booking that had a wanted status all the time and was not moved is on
\* exactly one date of the calendar, whatever moment of the day it begins at.
CalendarShowsOnce == LookedThrough(TRUE) => \A b \in look.sure : look.shown[b] = 1

\* A client who reads his tabs in this order misses no booking that was ahead,
\* completed or cancelled at every moment meanwhile, though sessions begin, are
\* completed and are cancelled between his calls.  (A session that has begun and is
\* not completed is on no tab.)
TabsMissNothing == LookedThrough(FALSE) => \A b \in look.sure : look.shown[b] > 0

\* No session of the upcoming tab begins before the one he was shown as his next,
\* unless it was booked, or moved, in between.
NextIsFirst ==
    look.pc = "completed" =>
        \A b \in look.sure : look.shown[b] > 0 => \E t \in look.first : t <= plan[b].at
=============================================================================
