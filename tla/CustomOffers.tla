---------------------------- MODULE CustomOffers ----------------------------
(***************************************************************************)
(* Custom offers: a coach offers other terms for an existing booking, the  *)
(* athlete accepts or declines them in the chat, and an amount still due   *)
(* is held with a payment of its own:                                      *)
(*   sendCustomOffer of src/src/modules/bookings/bookings.service.ts,      *)
(*   acceptCustomOffer and declineCustomOffer of                           *)
(*     src/src/modules/chat/message/message.service.ts,                    *)
(*   the custom_offer branches of the Stripe webhook in                    *)
(*     src/src/modules/payment/stripe/stripe.controller.ts.                *)
(*                                                                         *)
(* Composed with BookingPayment: validateBookingToken captures both        *)
(* payments of a booking, and the handlers below write the same rows.      *)
(***************************************************************************)
EXTENDS BookingPayment

CONSTANTS
    Offers,         \* primary keys of the custom_offers table
    OfferRequests,  \* chat calls about offers that may be in flight at one time
    OfferHooks,     \* webhook deliveries for offers in flight at one time
    Totals          \* total_amount of an offer: session price times members

OfferProcs == OfferRequests \cup OfferHooks

ASSUME OfferProcsDisjoint == OfferRequests \cap OfferHooks = {} /\ OfferProcs \cap Procs = {}
ASSUME NoneIsNoOffer == None \notin Offers
ASSUME TotalsAreAmounts == Totals \subseteq Nat

VARIABLES
    offers,     \* the custom_offers table
    act         \* the handlers in flight on offers: program counter and locals

offerVars == <<offers, act>>
allVars == <<vars, offers, act>>

-----------------------------------------------------------------------------
OfferStatus == {"ABSENT", "PENDING", "PAYMENT_PENDING", "ACCEPTED", "DECLINED"}

OfferRow == [status : OfferStatus,
             booking: Bookings \cup {None},
             slot   : Slots \cup {None},      \* the offered appointment_date
             total  : Nat,
             paid   : Nat,                    \* paid_amount
             due    : Nat,                    \* due_amount
             tx     : Payments \cup {None}]   \* payment_transaction_id

NoOffer == [status |-> "ABSENT", booking |-> None, slot |-> None, total |-> 0,
            paid |-> 0, due |-> 0, tx |-> None]

\* After the transaction row was marked "succeeded".
PaidPC == {"paid_find", "paid_accept", "paid_apply"}

OfferPC == {"idle", "send_create", "accept_free", "accept_apply", "accept_pay", "accept_mark",
            "accept_link", "decline_write", "capturable_read", "capturable_accept",
            "capturable_link", "capturable_tx"} \cup PaidPC

OfferLocal == [pc   : OfferPC,
               o    : Offers \cup {None},
               b    : Bookings \cup {None},
               p    : Payments \cup {None},
               paid : Nat,
               confirmed : BOOLEAN]     \* was the booking CONFIRMED when it was read?

OfferIdle == [pc |-> "idle", o |-> None, b |-> None, p |-> None, paid |-> 0,
              confirmed |-> FALSE]

OfferInit ==
    /\ Init
    /\ offers = [o \in Offers |-> NoOffer]
    /\ act = [x \in OfferProcs |-> OfferIdle]

Quiet == \A x \in OfferProcs : act[x].pc = "idle"

MayAct(x) ==
    /\ act[x].pc = "idle"
    /\ Overlap \/ (Quiet /\ due = {} /\ \A y \in Procs : proc[y].pc = "idle")

Acting(x, pc) == act[x].pc = pc

Begin(x, l) == act' = [act EXCEPT ![x] = l]

Advance(x, pc) == act' = [act EXCEPT ![x].pc = pc]

Finish(x) == act' = [act EXCEPT ![x] = OfferIdle]

\* Rows a findFirst of custom_offers by payment_transaction_id may return.
OffersOf(p) ==
    LET rows == {o \in Offers : offers[o].tx = p}
    IN  IF rows = {} THEN {None} ELSE rows

\* Accepting an offer moves the booking to the offered date, whatever else is there.
Apply(o) ==
    /\ bookings' = [bookings EXCEPT ![offers[o].booking].slot = offers[o].slot]
    /\ NoteMove(offers[o].booking, offers[o].slot)

-----------------------------------------------------------------------------
(* sendCustomOffer.  Nothing asks whether another offer is already open.   *)

SendRead(x, b) ==
    /\ MayAct(x)
    /\ bookings[b].status # "ABSENT"
    /\ Begin(x, [OfferIdle EXCEPT !.pc = "send_create", !.b = b, !.p = bookings[b].tx])
    /\ UNCHANGED <<vars, offers>>

DueOf(total, paid) == IF total > paid THEN total - paid ELSE 0

\* What an authorized transaction holds counts as paid.  The new row cannot be
\* named before the answer, so reading the transaction and creating it are one step.
SendCreate(x, total, s) ==
    /\ Acting(x, "send_create")
    /\ LET p == act[x].p
           paid == IF p # None /\ payments[p].status = "authorized" THEN payments[p].amount ELSE 0
       IN  \E o \in Offers :
             /\ offers[o].status = "ABSENT"
             /\ offers' = [offers EXCEPT ![o] =
                   [status |-> "PENDING", booking |-> act[x].b, slot |-> s, total |-> total,
                    paid |-> paid, due |-> DueOf(total, paid), tx |-> None]]
    /\ Finish(x)
    /\ UNCHANGED vars

Send(x) ==
    \/ \E b \in Bookings : SendRead(x, b)
    \/ \E total \in Totals, s \in Slots : SendCreate(x, total, s)

-----------------------------------------------------------------------------
(* acceptCustomOffer                                                       *)

AcceptRead(x, o) ==
    /\ MayAct(x)
    /\ offers[o].status = "PENDING"
    /\ Begin(x, [OfferIdle EXCEPT !.o = o, !.b = offers[o].booking,
                    !.pc = IF offers[o].due = 0 THEN "accept_free" ELSE "accept_pay"])
    /\ UNCHANGED <<vars, offers>>

AcceptFree(x) ==
    /\ Acting(x, "accept_free")
    /\ offers' = [offers EXCEPT ![act[x].o] = [@ EXCEPT !.status = "ACCEPTED", !.due = 0]]
    /\ Advance(x, "accept_apply")
    /\ UNCHANGED vars

AcceptApply(x) ==
    /\ Acting(x, "accept_apply")
    /\ Apply(act[x].o)
    /\ Finish(x)
    /\ UNCHANGED <<payments, events, proc, due, offers>>

\* The intent and its transaction row, as in bookAppointment.
AcceptPay(x) ==
    /\ Acting(x, "accept_pay")
    /\ \E p \in Payments :
         /\ payments[p].status = "none"
         /\ payments' = [payments EXCEPT ![p] =
                [NoPayment EXCEPT !.type = "custom_offer", !.booking = act[x].b,
                   !.amount = offers[act[x].o].due, !.status = "pending", !.intent = "open"]]
         /\ act' = [act EXCEPT ![x] = [@ EXCEPT !.pc = "accept_mark", !.p = p]]
    /\ UNCHANGED <<bookings, events, proc, due, hist, offers>>

\* Mutant: the offer is accepted before its payment.
AcceptMarkEarly(x) ==
    /\ Acting(x, "accept_mark")
    /\ offers' = [offers EXCEPT ![act[x].o] = [@ EXCEPT !.status = "ACCEPTED", !.tx = act[x].p]]
    /\ Advance(x, "accept_link")
    /\ UNCHANGED vars

AcceptMark(x) ==
    /\ Acting(x, "accept_mark")
    /\ offers' = [offers EXCEPT ![act[x].o] =
                     [@ EXCEPT !.status = "PAYMENT_PENDING", !.tx = act[x].p]]
    /\ Advance(x, "accept_link")
    /\ UNCHANGED vars

\* Links the transaction to the booking and answers with the client secret.
AcceptLink(x) ==
    /\ Acting(x, "accept_link")
    /\ bookings' = [bookings EXCEPT ![act[x].b] =
                       [@ EXCEPT !.slot = offers[act[x].o].slot, !.offerTx = act[x].p]]
    /\ NoteMove(act[x].b, offers[act[x].o].slot)
    /\ payments' = [payments EXCEPT ![act[x].p].secret = TRUE]
    /\ Finish(x)
    /\ UNCHANGED <<events, proc, due, offers>>

Accept(x) ==
    \/ \E o \in Offers : AcceptRead(x, o)
    \/ AcceptFree(x) \/ AcceptApply(x) \/ AcceptPay(x) \/ AcceptMark(x) \/ AcceptLink(x)

-----------------------------------------------------------------------------
(* declineCustomOffer                                                      *)

\* Mutant: an offer can be declined while its payment is open.
DeclineReadLate(x, o) ==
    /\ MayAct(x)
    /\ offers[o].status \in {"PENDING", "PAYMENT_PENDING"}
    /\ Begin(x, [OfferIdle EXCEPT !.pc = "decline_write", !.o = o])
    /\ UNCHANGED <<vars, offers>>

DeclineRead(x, o) ==
    /\ MayAct(x)
    /\ offers[o].status = "PENDING"
    /\ Begin(x, [OfferIdle EXCEPT !.pc = "decline_write", !.o = o])
    /\ UNCHANGED <<vars, offers>>

DeclineWrite(x) ==
    /\ Acting(x, "decline_write")
    /\ offers' = [offers EXCEPT ![act[x].o].status = "DECLINED"]
    /\ Finish(x)
    /\ UNCHANGED vars

Decline(x) == (\E o \in Offers : DeclineRead(x, o)) \/ DeclineWrite(x)

-----------------------------------------------------------------------------
(* The webhook: amount_capturable_updated and succeeded of a custom_offer. *)
(* Its other events end after the transaction row, in BookingPayment: the  *)
(* booking goes on naming the failed or canceled payment.                  *)

OfferDeliver(x, e) ==
    /\ MayAct(x)
    /\ e \in events
    /\ payments[e.p].type = "custom_offer"
    /\ InOrder => \A f \in events : f.p = e.p => Rank(f.kind) >= Rank(e.kind)
    /\ \/ events' = events \ {e}
       \/ Redeliver /\ events' = events

CapturableFind(x, p) ==
    /\ OfferDeliver(x, EventsOf(p, "capturable"))
    /\ \E o \in OffersOf(p) :
          Begin(x, [OfferIdle EXCEPT !.p = p, !.o = o,
                      !.pc = IF o = None THEN "capturable_tx" ELSE "capturable_read"])
    /\ UNCHANGED <<bookings, payments, proc, due, hist, offers>>

CapturableRead(x) ==
    /\ Acting(x, "capturable_read")
    /\ LET b == offers[act[x].o].booking IN
         act' = [act EXCEPT ![x] = [@ EXCEPT !.pc = "capturable_accept", !.b = b,
                                       !.confirmed = bookings[b].status = "CONFIRMED"]]
    /\ UNCHANGED <<vars, offers>>

CapturableAccept(x) ==
    /\ Acting(x, "capturable_accept")
    /\ offers' = [offers EXCEPT ![act[x].o].status = "ACCEPTED"]
    /\ Advance(x, "capturable_link")
    /\ UNCHANGED vars

\* A booking read as CONFIRMED is only linked; any other becomes CONFIRMED, with a
\* token and the offer's terms.
CapturableLink(x) ==
    /\ Acting(x, "capturable_link")
    /\ bookings' = [bookings EXCEPT ![act[x].b] =
          IF act[x].confirmed THEN [@ EXCEPT !.offerTx = act[x].p]
          ELSE [@ EXCEPT !.slot = offers[act[x].o].slot, !.status = "CONFIRMED",
                         !.token = "live", !.offerTx = act[x].p]]
    /\ IF act[x].confirmed THEN hist' = hist ELSE NoteMove(act[x].b, offers[act[x].o].slot)
    /\ Advance(x, "capturable_tx")
    /\ UNCHANGED <<payments, events, proc, due, offers>>

CapturableTx(x) ==
    /\ Acting(x, "capturable_tx")
    /\ SetTx(act[x].p, "authorized")
    /\ Finish(x)
    /\ UNCHANGED <<bookings, events, proc, due, hist, offers>>

\* Bound: repeated events count a payment twice in paid_amount, not more often.
MayCount(p) == \A o \in Offers : offers[o].tx = p => offers[o].paid <= offers[o].total

PaidUpdateTx(x, p) ==
    /\ MayCount(p)
    /\ OfferDeliver(x, EventsOf(p, "succeeded"))
    /\ SetTx(p, "succeeded")
    /\ Begin(x, [OfferIdle EXCEPT !.pc = "paid_find", !.p = p])
    /\ UNCHANGED <<bookings, proc, due, hist, offers>>

PaidFind(x) ==
    /\ Acting(x, "paid_find")
    /\ \E o \in OffersOf(act[x].p) :
          IF o = None THEN Finish(x)
          ELSE act' = [act EXCEPT ![x] =
                  [@ EXCEPT !.pc = "paid_accept", !.o = o, !.paid = offers[o].paid]]
    /\ UNCHANGED <<vars, offers>>

\* Mutant: due_amount is not reset.
PaidAcceptKeepsDue(x) ==
    /\ Acting(x, "paid_accept")
    /\ offers' = [offers EXCEPT ![act[x].o] =
          [@ EXCEPT !.status = "ACCEPTED", !.paid = act[x].paid + payments[act[x].p].amount]]
    /\ Advance(x, "paid_apply")
    /\ UNCHANGED vars

\* paid_amount is the amount read before plus what was captured.
PaidAccept(x) ==
    /\ Acting(x, "paid_accept")
    /\ offers' = [offers EXCEPT ![act[x].o] =
          [@ EXCEPT !.status = "ACCEPTED", !.due = 0,
                    !.paid = act[x].paid + payments[act[x].p].amount]]
    /\ Advance(x, "paid_apply")
    /\ UNCHANGED vars

PaidApply(x) ==
    /\ Acting(x, "paid_apply")
    /\ Apply(act[x].o)
    /\ Finish(x)
    /\ UNCHANGED <<payments, events, proc, due, offers>>

OfferHook(x) ==
    \/ \E p \in Payments : CapturableFind(x, p) \/ PaidUpdateTx(x, p)
    \/ CapturableRead(x) \/ CapturableAccept(x) \/ CapturableLink(x) \/ CapturableTx(x)
    \/ PaidFind(x) \/ PaidAccept(x) \/ PaidApply(x)

-----------------------------------------------------------------------------
\* A handler that throws, or whose process stops, between two awaits.  As in
\* BookingPayment, Stripe delivers the event of a stopped webhook again.
OfferStops(x) ==
    /\ Faults /\ act[x].pc # "idle"
    /\ Finish(x)
    /\ \/ events' = events
       \/ /\ x \in OfferHooks
          /\ LET kind == IF act[x].pc \in PaidPC THEN "succeeded" ELSE "capturable"
             IN  events' = events \cup {EventsOf(act[x].p, kind)}
    /\ UNCHANGED <<bookings, payments, proc, due, hist, offers>>

OfferNext ==
    \/ (Overlap \/ Quiet) /\ Next /\ UNCHANGED offerVars
    \/ \E x \in OfferRequests : Send(x) \/ Accept(x) \/ Decline(x)
    \/ \E x \in OfferHooks : OfferHook(x)
    \/ \E x \in OfferProcs : OfferStops(x)

OfferSpec == OfferInit /\ [][OfferNext]_allVars

-----------------------------------------------------------------------------
(* Properties                                                              *)

\* Every offer row and handler keeps its type.
OfferTypeOK ==
    /\ TypeOK
    /\ offers \in [Offers -> OfferRow]
    /\ act \in [OfferProcs -> OfferLocal]

\* An offer is charged only together with the booking it belongs to:
\* validateBookingToken captures the booking's own payment before the offer's.
OfferChargedWithBooking ==
    \A q \in Payments :
        payments[q].type = "custom_offer" /\ payments[q].intent = "succeeded"
        => \E p \in Payments : /\ payments[p].type = "booking"
                               /\ payments[p].booking = payments[q].booking
                               /\ payments[p].intent = "succeeded"

\* An offer that left something to pay is ACCEPTED only once the athlete's card was
\* held for it; the webhook, not the athlete's answer, accepts it.
AcceptedOffersHeld ==
    \A o \in Offers :
        offers[o].status = "ACCEPTED" /\ offers[o].tx # None
        => payments[offers[o].tx].intent \notin {"none", "open"}

\* What is paid and what is due add up to the price of the offer, or to what was
\* paid before when that is more, through every event about its payment.
OfferBalances ==
    \A o \in Offers :
        offers[o].status # "ABSENT" /\ offers[o].paid + offers[o].due # offers[o].total
        => offers[o].paid > offers[o].total /\ offers[o].due = 0 /\ offers[o].tx = None

\* A declined offer is never charged.
DeclinedNeverCharged ==
    \A o \in Offers :
        offers[o].status = "DECLINED" /\ offers[o].tx # None
        => payments[offers[o].tx].intent # "succeeded"
=============================================================================
