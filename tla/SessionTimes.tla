---------------------------- MODULE SessionTimes ----------------------------
(***************************************************************************)
(* Dates and times of the sessions in the bookings, as the coach, the      *)
(* athlete, the admin and Stripe's events write them.                      *)
(*   src/src/modules/bookings/bookings.service.ts: checkTimeConflict,      *)
(*     updateBooking, sendCustomOffer, and the row bookAppointment writes; *)
(*   src/src/modules/chat/message/message.service.ts: acceptCustomOffer,   *)
(*     declineCustomOffer;                                                 *)
(*   src/src/modules/payment/stripe/stripe.controller.ts: the two events   *)
(*     of an offer's payment;                                              *)
(*   src/src/modules/admin/booking_management/booking_list/                *)
(*     booking_list.service.ts: update.                                    *)
(* Payment is in BookingPayment and CustomOffers; here a booking and an    *)
(* offer only have their status and their time.                            *)
(***************************************************************************)
EXTENDS Integers, FiniteSets

CONSTANTS
    Trainers, Trainees,
    Appointments,   \* primary keys of bookings
    Proposals,      \* primary keys of custom_offers
    Dates,
    Hours,          \* a day's times run from 0 to Hours
    Editors,        \* API calls that may be in flight at one time
    Nobody,
    Statuses,       \* states the bookings of the run take
    TwoEditors      \* may an edit overlap another edit, or the handling of an offer?

ASSUME NobodyIsNoKey == Nobody \notin Trainers \cup Trainees \cup Appointments
ASSUME ProposalsAreNoBookings == Proposals \cap Appointments = {}
ASSUME HoursIsCount == Hours \in Nat
ASSUME EditSwitch == TwoEditors \in BOOLEAN
ASSUME StatusesKnown ==
    /\ {"PENDING", "CONFIRMED"} \subseteq Statuses
    /\ Statuses \subseteq {"PENDING", "CONFIRMED", "CANCELLED", "COMPLETED"}
ASSUME SomeDate == Dates # {}

VARIABLES
    appts,      \* bookings
    edits,      \* the edits in flight
    offered,    \* custom offers
    loose       \* history: bookings and offers whose time was not compared with what
                \* stands now (a date changed without a time, a booking live again, an
                \* offer sent before another session of its date was written)

sessVars == <<appts, edits, offered, loose>>

Live == {"PENDING", "CONFIRMED"}

Interval == {iv \in [from : 0..Hours, to : 0..Hours] : iv.from < iv.to}

\* session_time is a moment: it keeps the date it was computed with.
Session == [date : Dates, iv : Interval]

ApptRow == [status  : Statuses \cup {"ABSENT"},
            trainer : Trainers \cup {Nobody},
            trainee : Trainees \cup {Nobody},
            date    : Dates,                    \* appointment_date
            session : SUBSET Session]           \* session_time, duration_minutes

ProposalRow ==
    [status : {"ABSENT", "PENDING", "PAYMENT_PENDING", "ACCEPTED", "DECLINED"},
     b      : Appointments \cup {Nobody},
     terms  : SUBSET Session,       \* appointment_date, session_time, duration_minutes
     paid   : BOOLEAN]              \* has a payment Stripe sends events of

Edit == [pc : {"idle", "edit_check", "edit_write"},
         b  : Appointments \cup {Nobody},
         date : SUBSET Dates, iv : SUBSET Interval, status : SUBSET Statuses]

NoEdit == [pc |-> "idle", b |-> Nobody, date |-> {}, iv |-> {}, status |-> {}]

SessInit ==
    /\ appts = [b \in Appointments |->
                  [status |-> "ABSENT", trainer |-> Nobody, trainee |-> Nobody,
                   date |-> CHOOSE d \in Dates : TRUE, session |-> {}]]
    /\ edits = [x \in Editors |-> NoEdit]
    /\ offered = [p \in Proposals |->
                    [status |-> "ABSENT", b |-> Nobody, terms |-> {}, paid |-> FALSE]]
    /\ loose = {}

EditAt(x, pc) == edits[x].pc = pc

MayBegin == TwoEditors \/ \A y \in Editors : EditAt(y, "idle")

Together(b, o) ==
    appts[b].trainer = appts[o].trainer \/ appts[b].trainee = appts[o].trainee

-----------------------------------------------------------------------------
(* bookAppointment: one booking of a pair for a date, without a time yet.   *)
(* One that is still pending is booked again and loses its time.            *)
Book(t, a, d) ==
    LET had == {b \in Appointments : /\ appts[b].trainer = t
                                     /\ appts[b].trainee = a
                                     /\ appts[b].date = d}
    IN  /\ \E b \in IF had = {} THEN {o \in Appointments : appts[o].status = "ABSENT"}
                     ELSE {o \in had : appts[o].status = "PENDING"} :
              appts' = [appts EXCEPT ![b] = [status |-> "PENDING", trainer |-> t, trainee |-> a,
                                            date |-> d, session |-> {}]]
        /\ UNCHANGED <<edits, offered, loose>>

-----------------------------------------------------------------------------
(* checkTimeConflict. *)

\* Mutant: only the beginning of the new session is compared.
OverlappingBegin(iv, jv) == iv.from < jv.to /\ iv.from >= jv.from

Overlapping(iv, jv) == iv.from < jv.to /\ iv.to > jv.from

\* Mutant: only the coach's bookings are compared.
ConflictOfTrainer(b, date, iv) ==
    \E o \in Appointments \ {b} :
        /\ appts[o].status \in Live
        /\ appts[o].trainer = appts[b].trainer
        /\ appts[o].date = date
        /\ \E s \in appts[o].session : s.date = date /\ Overlapping(iv, s.iv)

Conflict(b, date, iv) ==
    \E o \in Appointments \ {b} :
        /\ appts[o].status \in Live
        /\ Together(b, o)
        /\ appts[o].date = date
        /\ \E s \in appts[o].session : s.date = date /\ Overlapping(iv, s.iv)

(* updateBooking: a new date, a new time, a new status, any of them.  A call *)
(* that an open custom offer, a bad format or a conflict ends writes nothing.*)

\* History: offers for other bookings of the coach or the athlete on that date, which
\* were compared before b's session was written.
Overtaken(b, date) ==
    {p \in Proposals : /\ offered[p].b \in Appointments \ {b}
                       /\ Together(b, offered[p].b)
                       /\ \E s \in offered[p].terms : s.date = date}

OpenOffer(b) ==
    \E p \in Proposals : offered[p].b = b /\ offered[p].status \in {"PENDING", "PAYMENT_PENDING"}

EditBegin(x, b, date, iv, status) ==
    /\ EditAt(x, "idle")
    /\ MayBegin
    /\ appts[b].status # "ABSENT"
    /\ ~OpenOffer(b)
    /\ edits' = [edits EXCEPT ![x] = [pc |-> IF iv = {} THEN "edit_write" ELSE "edit_check",
                                      b |-> b, date |-> date, iv |-> iv, status |-> status]]
    /\ UNCHANGED <<appts, offered, loose>>

EditDate(x) == IF edits[x].date = {} THEN {appts[edits[x].b].date} ELSE edits[x].date

EditCheck(x) ==
    /\ EditAt(x, "edit_check")
    /\ LET b == edits[x].b
       IN  edits' = IF \E d \in EditDate(x), iv \in edits[x].iv : Conflict(b, d, iv)
                    THEN [edits EXCEPT ![x] = NoEdit]
                    ELSE [edits EXCEPT ![x].pc = "edit_write"]
    /\ UNCHANGED <<appts, offered, loose>>

EditWrite(x) ==
    /\ EditAt(x, "edit_write")
    /\ LET e == edits[x]
           a == appts[e.b]
       IN  \E d \in EditDate(x), st \in IF e.status = {} THEN {a.status} ELSE e.status :
              /\ appts' = [appts EXCEPT ![e.b] =
                    [a EXCEPT !.date = d, !.status = st,
                              !.session = IF e.iv = {} THEN @
                                          ELSE {[date |-> d, iv |-> iv] : iv \in e.iv}]]
              /\ loose' = IF e.iv # {} THEN (loose \ {e.b}) \cup Overtaken(e.b, d)
                          ELSE IF d # a.date \/ (st \in Live /\ a.status \notin Live)
                          THEN loose \cup {e.b}
                          ELSE loose
    /\ edits' = [edits EXCEPT ![x] = NoEdit]
    /\ UNCHANGED offered

-----------------------------------------------------------------------------
(* Custom offers.  The time is compared when the offer is sent and written   *)
(* when it is accepted, and again by each of the events of its payment, with *)
(* no second comparison.  A handler may stop before it writes the booking.   *)

\* Mutant: the new time is compared on the old date.
ProposeOldDate(p, b, date, iv) ==
    /\ MayBegin
    /\ offered[p].status = "ABSENT" /\ appts[b].status # "ABSENT"
    /\ ~Conflict(b, appts[b].date, iv)
    /\ offered' = [offered EXCEPT ![p] = [status |-> "PENDING", b |-> b, paid |-> FALSE,
                                          terms |-> {[date |-> date, iv |-> iv]}]]
    /\ UNCHANGED <<appts, edits, loose>>

Propose(p, b, date, iv) ==
    /\ MayBegin
    /\ offered[p].status = "ABSENT" /\ appts[b].status # "ABSENT"
    /\ ~Conflict(b, date, iv)
    /\ offered' = [offered EXCEPT ![p] = [status |-> "PENDING", b |-> b, paid |-> FALSE,
                                          terms |-> {[date |-> date, iv |-> iv]}]]
    /\ UNCHANGED <<appts, edits, loose>>

Apply(p, status) ==
    LET b == offered[p].b
    IN  \E s \in offered[p].terms :
          /\ appts' = [appts EXCEPT ![b] = [@ EXCEPT !.date = s.date, !.session = {s},
                                                     !.status = status]]
          /\ loose' = (IF p \in loose THEN loose \cup {b} ELSE loose \ {b})
                        \cup Overtaken(b, s.date)

\* acceptCustomOffer: with nothing due it is accepted, else it waits for its payment.
AcceptProposal(p, status) ==
    /\ MayBegin
    /\ offered[p].status = "PENDING"
    /\ offered' = [offered EXCEPT ![p] = [@ EXCEPT !.status = status,
                                                   !.paid = (status = "PAYMENT_PENDING")]]
    /\ Apply(p, appts[offered[p].b].status) \/ UNCHANGED <<appts, loose>>
    /\ UNCHANGED edits

DeclineProposal(p) ==
    /\ MayBegin
    /\ offered[p].status = "PENDING"
    /\ offered' = [offered EXCEPT ![p].status = "DECLINED"]
    /\ UNCHANGED <<appts, edits, loose>>

\* The events of its payment, each of them at any time and any number of times.  A booking
\* that is confirmed is only linked to the payment by the first.
ProposalCapturable(p) ==
    /\ MayBegin
    /\ offered[p].paid
    /\ offered' = [offered EXCEPT ![p].status = "ACCEPTED"]
    /\ \/ appts[offered[p].b].status # "CONFIRMED" /\ Apply(p, "CONFIRMED")
       \/ UNCHANGED <<appts, loose>>
    /\ UNCHANGED edits

ProposalSucceeded(p) ==
    /\ MayBegin
    /\ offered[p].paid
    /\ offered' = [offered EXCEPT ![p].status = "ACCEPTED"]
    /\ Apply(p, appts[offered[p].b].status) \/ UNCHANGED <<appts, loose>>
    /\ UNCHANGED edits

-----------------------------------------------------------------------------
(* cancelBooking, the payout and the admin's update change the status alone. *)
SetStatus(b, st) ==
    /\ appts[b].status \in Statuses \ {st}
    /\ appts' = [appts EXCEPT ![b].status = st]
    /\ loose' = IF st \in Live /\ appts[b].status \notin Live THEN loose \cup {b} ELSE loose
    /\ UNCHANGED <<edits, offered>>

SmallSubsets(S) == {{}} \cup {{e} : e \in S}

SessNext ==
    \/ \E t \in Trainers, a \in Trainees, d \in Dates : Book(t, a, d)
    \/ \E x \in Editors, b \in Appointments, date \in SmallSubsets(Dates),
          iv \in SmallSubsets(Interval), status \in SmallSubsets(Statuses) :
          EditBegin(x, b, date, iv, status)
    \/ \E x \in Editors : EditCheck(x) \/ EditWrite(x)
    \/ \E p \in Proposals, b \in Appointments, date \in Dates, iv \in Interval :
          Propose(p, b, date, iv)
    \/ \E p \in Proposals : \/ AcceptProposal(p, "ACCEPTED")
                           \/ AcceptProposal(p, "PAYMENT_PENDING")
                           \/ DeclineProposal(p)
                           \/ ProposalCapturable(p)
                           \/ ProposalSucceeded(p)
    \/ \E b \in Appointments, st \in Statuses : SetStatus(b, st)

SessSpec == SessInit /\ [][SessNext]_sessVars

-----------------------------------------------------------------------------
SessTypeOK ==
    /\ appts \in [Appointments -> ApptRow]
    /\ edits \in [Editors -> Edit]
    /\ offered \in [Proposals -> ProposalRow]
    /\ loose \subseteq Appointments \cup Proposals

\* Neither a coach nor an athlete is in two live sessions at one time, however bookings
\* were edited and offers made and accepted, one handler at a time: unless the time of one
\* of them was never compared with the other's.  That happens in three ways.  A date that
\* is changed without a time leaves the session on the old date, which no later check
\* compares; a closed booking that is made live again is not compared; and an accepted
\* offer writes the time that was free when it was sent, although another session of its
\* coach or athlete was written on that date since then.
NoDoubleSession ==
    \A b, o \in Appointments \ loose :
        /\ b # o
        /\ appts[b].status \in Live /\ appts[o].status \in Live
        /\ Together(b, o)
        => \A s \in appts[b].session, r \in appts[o].session :
              s.date = r.date => s.iv.to <= r.iv.from \/ r.iv.to <= s.iv.from
=============================================================================
