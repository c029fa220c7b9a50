---------------------------- MODULE CoachCalendar ----------------------------
(***************************************************************************)
(* The calendar of one coach: blocked days, blocked time slots, the weekly *)
(* day off and the stored list of available weekdays.                      *)
(*   src/src/modules/bookings/bookings.service.ts (lines 54-823),          *)
(*   src/src/cron/bookings-cleanup.cron.ts.                                *)
(*                                                                         *)
(* blocked_days is an array that every writer reads, changes and writes    *)
(* back whole.  The week has WeekLength days; a day is a number and its    *)
(* weekday is that number modulo WeekLength.                               *)
(***************************************************************************)
EXTENDS Integers, FiniteSets, FiniteSetsExt

CONSTANTS
    WeekLength,     \* 7 in the code
    LastDay,        \* bound on the calendar
    LastToday,      \* bound on the clock
    MaxAsked,       \* bound on the days one call blocks
    Times,          \* pairs of start_time and end_time
    MaxSlots,       \* bound on the blocked slots
    SlotDays,       \* days the coach blocks a slot of
    DatesOff,       \* dates the coach sets as his day off
    Writers,        \* API calls that may be in flight at one time
    Cron            \* the hourly clean-up

Workers == Writers \cup {Cron}

ASSUME WeekHasDays == WeekLength \in Nat \ {0}
ASSUME CalendarBounds == {LastDay, LastToday, MaxAsked, MaxSlots} \subseteq Nat
ASSUME DatesAreDays == SlotDays \cup DatesOff \subseteq 0..LastDay
ASSUME CronIsNoWriter == Cron \notin Writers

VARIABLES
    today,      \* the clock
    blocked,    \* coach_profiles.blocked_days
    weekend,    \* coach_profiles.weekend_days: one weekday, one date, or nothing
    available,  \* coach_profiles.available_days
    slots,      \* blocked_time_slots
    work        \* the calls in flight

calVars == <<today, blocked, weekend, available, slots, work>>

Days == 0..LastDay

WeekDays == 0..(WeekLength - 1)

WeekDay(d) == d % WeekLength

Sunday == 0

Weekend == [weekdays : SUBSET WeekDays, dates : SUBSET DatesOff]

Slot == [day : SlotDays, time : Times]

Job == [pc : {"idle", "clean_read", "clean_write", "available_read",
              "available_write", "block_write", "slot_create"},
        asks : BOOLEAN,             \* the caller wants the available weekdays
        days : SUBSET Days,         \* blocked_days as it was read
        asked: SUBSET Days,         \* what setBlockedDays was given, or cleaning drops
        week : SUBSET WeekDays,
        slot : SUBSET Slot]

NoJob == [pc |-> "idle", asks |-> FALSE, days |-> {}, asked |-> {}, week |-> {}, slot |-> {}]

CalInit ==
    /\ today = 0
    /\ blocked = {}
    /\ weekend = [weekdays |-> {}, dates |-> {}]
    /\ available = {}
    /\ slots = {}
    /\ work = [x \in Workers |-> NoJob]

Doing(x, pc) == work[x].pc = pc

GoOn(x, j, pc) == work' = [work EXCEPT ![x] = [j EXCEPT !.pc = pc]]

Done(x) == work' = [work EXCEPT ![x] = NoJob]

-----------------------------------------------------------------------------
(* setBlockedDays.  Dates may lie in the past; a date that is blocked       *)
(* already makes the whole call fail; an empty list writes back what was    *)
(* read.                                                                    *)

SetBlockedDays(x, asked) ==
    /\ Doing(x, "idle")
    /\ asked \cap blocked = {}
    /\ GoOn(x, [NoJob EXCEPT !.days = blocked, !.asked = asked], "block_write")
    /\ UNCHANGED <<today, blocked, weekend, available, slots>>

WriteBlockedDays(x) ==
    /\ Doing(x, "block_write")
    /\ blocked' = work[x].days \cup work[x].asked
    /\ Done(x)
    /\ UNCHANGED <<today, weekend, available, slots>>

-----------------------------------------------------------------------------
(* setBlockedTimeSlots and setWeekendDays. *)

SetBlockedTimeSlot(x, s) ==
    /\ Doing(x, "idle")
    /\ s \notin slots
    /\ GoOn(x, [NoJob EXCEPT !.slot = {s}], "slot_create")
    /\ UNCHANGED <<today, blocked, weekend, available, slots>>

CreateSlot(x) ==
    /\ Doing(x, "slot_create")
    /\ Cardinality(slots) < MaxSlots
    /\ slots' = slots \cup work[x].slot
    /\ Done(x)
    /\ UNCHANGED <<today, blocked, weekend, available>>

\* The day off is replaced: by a weekday, or by a single date.
SetWeekendDay ==
    /\ weekend' \in {[weekdays |-> {w}, dates |-> {}] : w \in WeekDays}
                    \cup {[weekdays |-> {}, dates |-> {d}] : d \in DatesOff}
    /\ UNCHANGED <<today, blocked, available, slots, work>>

-----------------------------------------------------------------------------
(* cleanupExpiredBlocked: by the hourly job, before a list is answered, and *)
(* in every booking.  The two parts run side by side.                       *)

\* Mutant: a day ends when it begins.
StillBlockedWithoutToday(days) == {d \in days : d > today}

StillBlocked(days) == {d \in days : d >= today}

CleanBegin(x, asks) ==
    /\ Doing(x, "idle")
    /\ asks => x \in Writers
    /\ slots' = {s \in slots : s.day >= today}
    /\ GoOn(x, [NoJob EXCEPT !.asks = asks], "clean_read")
    /\ UNCHANGED <<today, blocked, weekend, available>>

AfterCleaning(x) == IF work[x].asks THEN GoOn(x, [NoJob EXCEPT !.asks = TRUE], "available_read")
                    ELSE Done(x)

CleanRead(x) ==
    /\ Doing(x, "clean_read")
    /\ IF StillBlocked(blocked) # blocked
       THEN GoOn(x, [work[x] EXCEPT !.days = StillBlocked(blocked),
                                    !.asked = blocked \ StillBlocked(blocked)], "clean_write")
       ELSE AfterCleaning(x)
    /\ UNCHANGED <<today, blocked, weekend, available, slots>>

CleanWrite(x) ==
    /\ Doing(x, "clean_write")
    /\ blocked' = work[x].days
    /\ AfterCleaning(x)
    /\ UNCHANGED <<today, weekend, available, slots>>

-----------------------------------------------------------------------------
(* getAvailableDays: the weekdays of the next week that are neither the day *)
(* off nor the weekday of a date blocked within the week after this moment. *)

DaysOff == IF weekend.weekdays \cup weekend.dates = {} THEN {Sunday} ELSE weekend.weekdays

\* Mutant: the window ends a day early.
UpcomingShort == {d \in blocked : today + 1 <= d /\ d < today + WeekLength - 1}

\* A date counts from its midnight: that of today has passed, that of the same
\* weekday next week is within the window.
Upcoming == {d \in blocked : today + 1 <= d /\ d <= today + WeekLength}

AvailableNow == WeekDays \ ({WeekDay(d) : d \in Upcoming} \cup DaysOff)

AvailableRead(x) ==
    /\ Doing(x, "available_read")
    /\ GoOn(x, [work[x] EXCEPT !.week = AvailableNow], "available_write")
    /\ UNCHANGED <<today, blocked, weekend, available, slots>>

AvailableWrite(x) ==
    /\ Doing(x, "available_write")
    /\ available' = work[x].week
    /\ Done(x)
    /\ UNCHANGED <<today, blocked, weekend, slots>>

-----------------------------------------------------------------------------
(* What a booking asks (isAppointmentBlockedManualWeekday), and which days  *)
(* the search by date lists the coach for.                                  *)

BlockedDay(d) == \/ d \in blocked
                 \/ d \in weekend.dates
                 \/ WeekDay(d) \in DaysOff
                 \/ \E s \in slots : s.day = d

Listed(d) == /\ d >= today
             /\ ~BlockedDay(d)
             /\ available = {} \/ WeekDay(d) \in available

-----------------------------------------------------------------------------
Tick == /\ today < LastToday
        /\ today' = today + 1
        /\ UNCHANGED <<blocked, weekend, available, slots, work>>

\* The process stops, or the database fails, between two awaits.
CalStop(x) == /\ ~Doing(x, "idle")
              /\ Done(x)
              /\ UNCHANGED <<today, blocked, weekend, available, slots>>

GoesOn(x) == \/ WriteBlockedDays(x) \/ CreateSlot(x) \/ CleanRead(x) \/ CleanWrite(x)
             \/ AvailableRead(x)    \/ AvailableWrite(x)

CalNext ==
    \/ \E x \in Writers, asked \in {D \in SUBSET Days : Cardinality(D) <= MaxAsked} :
          SetBlockedDays(x, asked)
    \/ \E x \in Writers, s \in Slot : SetBlockedTimeSlot(x, s)
    \/ SetWeekendDay
    \/ \E x \in Workers, asks \in BOOLEAN : CleanBegin(x, asks)
    \/ \E x \in Workers : GoesOn(x)
    \/ \E x \in Writers : CalStop(x)
    \/ Tick

CalSpec == CalInit /\ [][CalNext]_calVars

-----------------------------------------------------------------------------
CalTypeOK ==
    /\ today \in 0..LastToday
    /\ blocked \subseteq Days
    /\ weekend \in Weekend
    /\ available \subseteq WeekDays
    /\ slots \subseteq Slot
    /\ work \in [Workers -> Job]

\* A blocked day that has not passed is opened again only by a call that read the
\* array before the day was in it: cleaning alone never opens a day.
OnlyStaleWritesOpen ==
    [][\A d \in blocked \ blocked' :
          d >= today => \E x \in Workers : /\ work[x].pc \in {"block_write", "clean_write"}
                                           /\ work'[x] # work[x]
                                           /\ d \notin work[x].days \cup work[x].asked]_calVars

\* Of the rest of this week, a day whose weekday getAvailableDays answers is one that a
\* booking would be refused on only for the two reasons the function does not look at: a
\* day off that was set as a date, which it puts beside names of weekdays, and a blocked
\* time slot.  No blocked date and no weekly day off is offered, although the function
\* compares moments, not days.  (Of today it does not hold: a coach who blocks today is
\* still offered today.)
OfferedDaysAreOpen ==
    \A i \in 1..(WeekLength - 1) :
        WeekDay(today + i) \in AvailableNow /\ BlockedDay(today + i) =>
            today + i \in weekend.dates \/ \E s \in slots : s.day = today + i
=============================================================================
