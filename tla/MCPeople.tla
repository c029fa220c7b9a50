------------------------------ MODULE MCPeople ------------------------------
(***************************************************************************)
(* Accounts, Codes, SessionTimes, CoachCalendar, Agenda and Packages for   *)
(* TLC.  They share no state, so in each behaviour one of them runs and    *)
(* the others rest: the states of the components add up instead of         *)
(* multiplying.                                                            *)
(***************************************************************************)
EXTENDS Accounts, Codes, SessionTimes, CoachCalendar, Agenda, Packages, TLC

CONSTANTS e1, e2, A, B

MCAppEmail == [x \in Apps |-> e1]
MCSocialEmail == [x \in Socials |-> e1]

\* The terms of a package, and of a session without one.
MCPackageTerms == {[price |-> 1, count |-> 1], [price |-> 2, count |-> 2]}
MCSingle == [price |-> 3, count |-> 0]

\* Bound: the first social sign-in waits until no registration is open.
Apart == \/ past.logins = {}
         \/ past.made = {} /\ \A e \in Emails : pending[e] = None /\ otp[e] = None

VARIABLE runs

MCInit ==
    /\ runs \in {"accounts", "codes", "sessions", "calendar", "agenda", "packages"}
    /\ AcctInit /\ CodeInit /\ SessInit /\ CalInit /\ AgendaInit /\ PackInit
    /\ runs = "codes" \/ \A u \in Users : address[u] = Nil

\* Only r runs.
Rests(r, vs) == IF runs = r THEN TRUE ELSE UNCHANGED vs

Only(r) == /\ runs = r /\ UNCHANGED runs
           /\ Rests("accounts", acctVars) /\ Rests("codes", codeVars)
           /\ Rests("sessions", sessVars) /\ Rests("calendar", calVars)
           /\ Rests("agenda", agendaVars) /\ Rests("packages", packVars)

MCNext ==
    \/ runs = "accounts" /\ AcctNext   /\ Only("accounts") /\ Apart'
    \/ runs = "codes"    /\ CodeNext   /\ Only("codes")
    \/ runs = "sessions" /\ SessNext   /\ Only("sessions")
    \/ runs = "calendar" /\ CalNext    /\ Only("calendar")
    \/ runs = "agenda"   /\ AgendaNext /\ Only("agenda")
    \/ runs = "packages" /\ PackNext   /\ Only("packages")

MCSpec == MCInit /\ [][MCNext]_<<acctVars, codeVars, sessVars, calVars, agendaVars, packVars, runs>>

\* Sets of different components are turned together: while one component runs
\* the others are in states that every permutation leaves alone.
Turn(S, b) == CHOOSE f \in Permutations(S) : \A x \in S : f[x] # x <=> b
MCSymmetry == {Turn(Ids, i) @@ Turn(Users, i) @@ Turn(Trainers, i)
                  @@ Turn(Requests, j) @@ Turn(Addresses, j)
                  @@ Turn(Apps, k) @@ Turn(Calls, k) @@ Turn(Appointments, k)
                  @@ Turn(Dates, l)
                  @@ Turn(Dated, i) @@ Turn(Charges, j) @@ Turn(Buyers, k) :
                  i, j, k, l \in BOOLEAN}

\* Bounds on the sessions: no more than one of the bookings and offers was not compared;
\* of two bookings, one is cancelled at most and one confirmed; an edit changes what it
\* names, and not the status and the date at once; while there is an offer, edits change
\* times and the other bookings are live, and an offer that cannot write any more is left.
SessionBound ==
    /\ \A u, v \in loose : u = v
    /\ \A u, v \in Appointments :
          appts[u].status = appts[v].status /\ appts[u].status \in {"CONFIRMED", "CANCELLED"} => u = v
    /\ \A x \in Editors : edits[x].pc # "idle" =>
          /\ edits[x].status = {} \/ edits[x].date = {}
          /\ appts[edits[x].b].date \notin edits[x].date
          /\ appts[edits[x].b].status \notin edits[x].status
    /\ \A s \in Proposals : offered[s].status # "ABSENT" =>
          /\ offered[s].status = "PENDING" \/ offered[s].paid
          /\ \A u \in Appointments \ {offered[s].b} : appts[u].status # "CANCELLED"
          /\ \A x \in Editors : edits[x].pc # "idle" =>
                edits[x].iv # {} /\ edits[x].status = {} /\ edits[x].date = {}

PeopleTypeOK == AcctTypeOK /\ CodeTypeOK /\ SessTypeOK /\ CalTypeOK /\ AgendaTypeOK /\ PackTypeOK

\* A session is what was agreed: it overlaps no other session of its coach or its
\* athlete that its time was compared with, and it has the price and the number of
\* sessions that were paid for.
SessionsAsAgreed == NoDoubleSession /\ PaidAsBooked

\* The calendars tell the truth: a weekday that is offered is not blocked by a date nor
\* off every week, a booking is on its date and on a tab, and nothing comes before the
\* next session.
CalendarsAreTrue == /\ OfferedDaysAreOpen
                    /\ CalendarShowsOnce /\ TabsMissNothing /\ NextIsFirst
=============================================================================
