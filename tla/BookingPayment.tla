--------------------------- MODULE BookingPayment ---------------------------
(***************************************************************************)
(* The life of a booking and of the Stripe payment behind it:              *)
(*   bookAppointment, cancelBooking and validateBookingToken of            *)
(*     src/src/modules/bookings/bookings.service.ts,                       *)
(*   the payment_intent.* cases of the Stripe webhook in                   *)
(*     src/src/modules/payment/stripe/stripe.controller.ts,                *)
(*   the hourly job of src/src/cron/bookings-payment-expiry.cron.ts.       *)
(*                                                                         *)
(* None of these handlers runs in a database transaction: every await is   *)
(* a point where another handler may run, and a process that stops between *)
(* two awaits leaves what it has written.  One action is one stretch       *)
(* between two awaits that touch shared rows; an await whose effect no     *)
(* other handler can see is folded into its neighbour, and the comment on  *)
(* the action says which.                                                  *)
(*                                                                         *)
(* One coach is modelled.  A slot is what bookAppointment keys a booking   *)
(* by: one athlete, this coach and one appointment date.                   *)
(***************************************************************************)
EXTENDS Integers, FiniteSets

CONSTANTS
    Slots,          \* (athlete, appointment_date) pairs
    Bookings,       \* primary keys of the bookings table
    Payments,       \* primary keys of payment_transactions, one per intent
    Requests,       \* API calls that may be in flight at one time
    Hooks,          \* webhook deliveries that may be in flight at one time
    Cron,           \* the expiry job
    None,           \* SQL NULL in a foreign key
    Sizes,          \* number_of_sessions: 0 is NULL (a single session)
    Price,          \* amount charged for a booking of each size
    MaxUses,        \* bound: validations of one booking that pass the checks
    Mishaps,        \* what may go wrong with a card: DeclineOrChallenge, HoldLapses
    Edits,          \* statuses a coach or the admin may write by hand
    SlotMoves,      \* pairs of one athlete's slots: moves the coach may make by hand
    Overlap,        \* may two handlers be in progress together?
    Redeliver,      \* may Stripe deliver an event more than once?
    InOrder,        \* are the events of one intent delivered in order?
    Faults          \* may a handler stop, or throw, between two awaits?

Procs == Requests \cup Hooks \cup {Cron}

ASSUME ProcsDisjoint ==
    /\ Requests \cap Hooks = {}
    /\ Cron \notin Requests \cup Hooks
ASSUME NoneIsNoKey == None \notin Bookings \cup Payments \cup Slots
ASSUME SizesAreCounts == Sizes \subseteq Nat /\ 0 \in Sizes
ASSUME PricesAreAmounts == \A n \in Sizes : Price[n] \in Nat
ASSUME MaxUsesIsCount == MaxUses \in Nat
ASSUME MishapsAreKnown == Mishaps \subseteq {"payment_failed", "requires_action", "lapse"}
ASSUME EditsAreStatuses == Edits \subseteq {"PENDING", "CONFIRMED", "CANCELLED", "COMPLETED"}
ASSUME SlotMovesAreOfSlots == SlotMoves \subseteq Slots \X Slots
ASSUME SwitchesAreBoolean == {Overlap, Redeliver, InOrder, Faults} \subseteq BOOLEAN

VARIABLES
    bookings,   \* the bookings table
    payments,   \* payment_transactions rows, each with its Stripe intent
    events,     \* webhook events Stripe still has to deliver
    proc,       \* the handlers in flight: program counter and locals
    due,        \* (booking, transaction) pairs the expiry job still has to handle
    hist        \* history: transfers, token-approved validations, edited and moved bookings

vars == <<bookings, payments, events, proc, due, hist>>

-----------------------------------------------------------------------------
(* Rows                                                                    *)

BookingStatus == {"ABSENT", "PENDING", "CONFIRMED", "CANCELLED", "COMPLETED"}

\* validation_token together with token_expires_at: NULL, valid, or past its date.
Token == {"null", "live", "expired"}

BookingRow == [slot   : Slots \cup {None},
               status : BookingStatus,
               n      : Sizes,                  \* number_of_sessions
               done   : Nat,                    \* total_completed_session
               token  : Token,
               tx     : Payments \cup {None},   \* payment_transaction_id
               offerTx: Payments \cup {None}]   \* custom_offer_payment_transaction_id

NoBooking == [slot |-> None, status |-> "ABSENT", n |-> 0, done |-> 0,
              token |-> "null", tx |-> None, offerTx |-> None]

TxStatus == {"none", "pending", "authorized", "captured", "succeeded", "failed",
             "canceled", "cancelled", "refunded", "requires_action"}

\* What Stripe holds: no intent, waiting for the card, held, captured, released.
IntentStatus == {"none", "open", "held", "succeeded", "canceled"}

PaymentRow == [type    : {"none", "booking", "custom_offer"},
               booking : Bookings \cup {None},   \* metadata.booking_id
               amount  : Nat,
               status  : TxStatus,
               transfer: {"none", "created", "failed"},    \* transfer_status
               intent  : IntentStatus,
               secret  : BOOLEAN,   \* the client holds client_secret
               refunded: BOOLEAN,   \* Stripe refunded the charge
               paid    : Nat]       \* amount transferred to the coach out of it

NoPayment == [type |-> "none", booking |-> None, amount |-> 0, status |-> "none",
              transfer |-> "none", intent |-> "none", secret |-> FALSE,
              refunded |-> FALSE, paid |-> 0]

EventKind == {"requires_action", "payment_failed", "capturable", "succeeded", "canceled"}
Event == [kind : EventKind, p : Payments]

\* The order in which Stripe emits the events of one intent.
Rank(kind) == CASE kind \in {"requires_action", "payment_failed"} -> 1
                [] kind = "capturable" -> 2
                [] kind \in {"succeeded", "canceled"} -> 3

PC == {"idle",
       "book_write", "book_read_old", "book_cancel_old", "book_mark_old", "book_pay", "book_link",
       "hook_confirm", "hook_authorized", "hook_captured", "hook_find", "hook_void",
       "cancel_write", "cancel_read_tx", "cancel_release", "cancel_mark",
       "val_check", "val_capture", "val_capture_offer", "val_transfer",
       "val_write", "val_tx", "val_offer_tx",
       "cron_settle", "cron_mark", "cron_void"}

\* Locals of a handler: the row ids, amounts and statuses it read and still uses.
Local == [pc  : PC,
          slot: Slots \cup {None},
          b   : Bookings \cup {None},
          p   : Payments \cup {None},
          q   : Payments \cup {None},
          n   : Sizes,
          done: Nat,
          seen: EventKind \cup {"", "token", "bare", "created", "failed", "charged", "hold"}]

Idle == [pc |-> "idle", slot |-> None, b |-> None, p |-> None, q |-> None,
         n |-> 0, done |-> 0, seen |-> ""]

-----------------------------------------------------------------------------
(* Starting, continuing and ending a handler                               *)

Init ==
    /\ bookings = [b \in Bookings |-> NoBooking]
    /\ payments = [p \in Payments |-> NoPayment]
    /\ events = {}
    /\ proc = [x \in Procs |-> Idle]
    /\ due = {}
    /\ hist = [transfers |-> [b \in Bookings |-> 0], uses |-> [b \in Bookings |-> 0],
               edited |-> {}, moved |-> {}]

MayStart(x) ==
    /\ proc[x].pc = "idle"
    /\ Overlap \/ (due = {} /\ \A y \in Procs : proc[y].pc = "idle")

At(x, pc) == proc[x].pc = pc

Goto(x, pc) == proc' = [proc EXCEPT ![x].pc = pc]

Return(x) == proc' = [proc EXCEPT ![x] = Idle]

\* Rows a findFirst by payment_transaction_id may return; NULL when there is none.
LinkedTo(p) ==
    LET rows == {b \in Bookings : bookings[b].tx = p}
    IN  IF rows = {} THEN {None} ELSE rows

\* Mutant: whatever was charged can be canceled too.
CancelableCharged(p) == payments[p].intent \in {"open", "held", "succeeded"}

\* Stripe accepts a cancellation until the intent has been captured or released.
Cancelable(p) == payments[p].intent \in {"open", "held"}

\* Mutant: a hold that was confirmed to the webhook is not released.
ReleasablePending == {"pending"}

\* The statuses for which the code tries to release the hold.
Releasable == {"pending", "authorized"}

EventsOf(p, kind) == [kind |-> kind, p |-> p]

CancelIntent(p) ==
    /\ payments' = [payments EXCEPT ![p].intent = "canceled"]
    /\ events' = events \cup {EventsOf(p, "canceled")}

SetTx(p, status) == payments' = [payments EXCEPT ![p].status = status]

\* Notes in the history that b is being written another date.
NoteMove(b, s) ==
    hist' = [hist EXCEPT !.moved = IF bookings[b].slot = s THEN @ ELSE @ \cup {b}]

\* payment_failed, canceled and the expiry job all void a booking the same way.
Void(b) == bookings' = [bookings EXCEPT ![b] = [@ EXCEPT !.status = "CANCELLED", !.token = "null"]]

-----------------------------------------------------------------------------
(* bookAppointment                                                         *)

\* Mutant: a cancelled booking does not count as a duplicate.
NoDuplicateLive(s) ==
    \A b \in Bookings : bookings[b].slot = s => bookings[b].status = "CANCELLED"

NoDuplicate(s) == \A b \in Bookings : bookings[b].slot # s

\* The duplicate check.  A row of this slot that is not PENDING is a conflict;
\* a PENDING one is updated; none means a new row.  n is the package's size.
BookRead(r, s, n) ==
    /\ MayStart(r)
    /\ \E b \in Bookings \cup {None} :
         /\ IF b = None THEN NoDuplicate(s) ELSE bookings[b].slot = s /\ bookings[b].status = "PENDING"
         /\ proc' = [proc EXCEPT ![r] =
                [Idle EXCEPT !.pc = "book_write", !.slot = s, !.b = b, !.n = n]]
    /\ UNCHANGED <<bookings, payments, events, due, hist>>

BookCreate(r) ==
    /\ At(r, "book_write") /\ proc[r].b = None
    /\ \E b \in Bookings :
         /\ bookings[b].status = "ABSENT"
         /\ bookings' = [bookings EXCEPT ![b] =
                [NoBooking EXCEPT !.slot = proc[r].slot, !.status = "PENDING", !.n = proc[r].n]]
         /\ proc' = [proc EXCEPT ![r] = [@ EXCEPT !.pc = "book_pay", !.b = b]]
    /\ UNCHANGED <<payments, events, due, hist>>

\* The row returned by the update still names the previous transaction.  The
\* validation token of the row is not reset.
BookUpdate(r) ==
    /\ At(r, "book_write") /\ proc[r].b # None
    /\ LET b == proc[r].b IN
         /\ bookings' = [bookings EXCEPT ![b] =
                [@ EXCEPT !.slot = proc[r].slot, !.status = "PENDING", !.n = proc[r].n,
                          !.done = 0]]
         /\ proc' = [proc EXCEPT ![r] = [@ EXCEPT !.q = bookings[b].tx,
                !.pc = IF bookings[b].tx = None THEN "book_pay" ELSE "book_read_old"]]
    /\ UNCHANGED <<payments, events, due, hist>>

BookReadOld(r) ==
    /\ At(r, "book_read_old")
    /\ Goto(r, IF payments[proc[r].q].status \in Releasable THEN "book_cancel_old"
                                                            ELSE "book_pay")
    /\ UNCHANGED <<bookings, payments, events, due, hist>>

\* Mutant: the transaction is marked although Stripe refused.
BookCancelOldUnchecked(r) ==
    /\ At(r, "book_cancel_old")
    /\ Goto(r, "book_mark_old")
    /\ \/ Cancelable(proc[r].q) /\ CancelIntent(proc[r].q)
       \/ UNCHANGED <<payments, events>>
    /\ UNCHANGED <<bookings, due, hist>>

\* A refused cancellation is logged and the booking goes on.
BookCancelOld(r) ==
    /\ At(r, "book_cancel_old")
    /\ \/ /\ Cancelable(proc[r].q)
          /\ CancelIntent(proc[r].q)
          /\ Goto(r, "book_mark_old")
       \/ /\ Faults \/ ~Cancelable(proc[r].q)
          /\ Goto(r, "book_pay")
          /\ UNCHANGED <<payments, events>>
    /\ UNCHANGED <<bookings, due, hist>>

BookMarkOld(r) ==
    /\ At(r, "book_mark_old")
    /\ SetTx(proc[r].q, "cancelled")
    /\ Goto(r, "book_pay")
    /\ UNCHANGED <<bookings, events, due, hist>>

\* Mutant: an intent that is still open is used again.
BookPayReusing(r) ==
    /\ At(r, "book_pay")
    /\ \E p \in Payments :
         /\ payments[p].intent \in {"none", "open"}
         /\ payments' = [payments EXCEPT ![p] =
                [NoPayment EXCEPT !.type = "booking", !.booking = proc[r].b,
                   !.amount = Price[proc[r].n], !.status = "pending", !.intent = "open"]]
         /\ proc' = [proc EXCEPT ![r] = [@ EXCEPT !.pc = "book_link", !.p = p]]
    /\ UNCHANGED <<bookings, events, due, hist>>

\* The manual-capture intent and its transaction row: nobody else can name
\* either before the row exists, so the two awaits are one step.
BookPay(r) ==
    /\ At(r, "book_pay")
    /\ \E p \in Payments :
         /\ payments[p].status = "none"
         /\ payments' = [payments EXCEPT ![p] =
                [NoPayment EXCEPT !.type = "booking", !.booking = proc[r].b,
                   !.amount = Price[proc[r].n], !.status = "pending", !.intent = "open"]]
         /\ proc' = [proc EXCEPT ![r] = [@ EXCEPT !.pc = "book_link", !.p = p]]
    /\ UNCHANGED <<bookings, events, due, hist>>

\* Links the transaction and answers with the client secret.
BookLink(r) ==
    /\ At(r, "book_link")
    /\ bookings' = [bookings EXCEPT ![proc[r].b].tx = proc[r].p]
    /\ payments' = [payments EXCEPT ![proc[r].p].secret = TRUE]
    /\ Return(r)
    /\ UNCHANGED <<events, due, hist>>

Book(r) ==
    \/ \E s \in Slots, n \in Sizes : BookRead(r, s, n)
    \/ BookCreate(r) \/ BookUpdate(r) \/ BookReadOld(r) \/ BookCancelOld(r)
    \/ BookMarkOld(r) \/ BookPay(r) \/ BookLink(r)

-----------------------------------------------------------------------------
(* The client and Stripe                                                   *)

\* Mutant: the intent is made without capture_method "manual".
AuthorizeCaptures(p) ==
    /\ payments[p].intent = "open" /\ payments[p].secret
    /\ payments' = [payments EXCEPT ![p].intent = "succeeded"]
    /\ events' = events \cup {EventsOf(p, "succeeded")}
    /\ UNCHANGED <<bookings, proc, due, hist>>

\* The card is held: confirming a manual-capture intent with its secret.
Authorize(p) ==
    /\ payments[p].intent = "open" /\ payments[p].secret
    /\ payments' = [payments EXCEPT ![p].intent = "held"]
    /\ events' = events \cup {EventsOf(p, "capturable")}
    /\ UNCHANGED <<bookings, proc, due, hist>>

\* The card is declined or asks for a challenge; the intent stays open.
DeclineOrChallenge(p) ==
    /\ payments[p].intent = "open" /\ payments[p].secret
    /\ \E kind \in Mishaps \cap {"payment_failed", "requires_action"} :
          events' = events \cup {EventsOf(p, kind)}
    /\ UNCHANGED <<bookings, payments, proc, due, hist>>

\* A hold Stripe gives up after some days without a capture.
HoldLapses(p) ==
    /\ "lapse" \in Mishaps /\ payments[p].intent = "held"
    /\ CancelIntent(p)
    /\ UNCHANGED <<bookings, proc, due, hist>>

\* token_expires_at passes.
TokenExpires(b) ==
    /\ bookings[b].token = "live"
    /\ bookings' = [bookings EXCEPT ![b].token = "expired"]
    /\ UNCHANGED <<payments, events, proc, due, hist>>

Environment ==
    \/ \E p \in Payments : Authorize(p) \/ DeclineOrChallenge(p) \/ HoldLapses(p)
    \/ \E b \in Bookings : TokenExpires(b)

-----------------------------------------------------------------------------
(* The Stripe webhook                                                      *)

\* An event leaves Stripe's queue, unless it will be delivered once more.
Deliver(h, e) ==
    /\ MayStart(h)
    /\ e \in events
    /\ InOrder => \A f \in events : f.p = e.p => Rank(f.kind) >= Rank(e.kind)
    /\ \/ events' = events \ {e}
       \/ Redeliver /\ events' = events

\* amount_capturable_updated: the booking is looked up by its transaction.
HookCapturable(h, p) ==
    /\ Deliver(h, EventsOf(p, "capturable"))
    /\ payments[p].type = "booking"
    /\ \E b \in LinkedTo(p) :
          proc' = [proc EXCEPT ![h] = [Idle EXCEPT !.p = p, !.b = b, !.seen = "capturable",
                     !.pc = IF b = None THEN "hook_authorized" ELSE "hook_confirm"]]
    /\ UNCHANGED <<bookings, payments, due, hist>>

\* Whatever the booking's status is: CONFIRMED, with a new token.
HookConfirm(h) ==
    /\ At(h, "hook_confirm")
    /\ bookings' = [bookings EXCEPT ![proc[h].b] =
                       [@ EXCEPT !.status = "CONFIRMED", !.token = "live"]]
    /\ Goto(h, "hook_authorized")
    /\ UNCHANGED <<payments, events, due, hist>>

HookAuthorized(h) ==
    /\ At(h, "hook_authorized")
    /\ SetTx(proc[h].p, "authorized")
    /\ Return(h)
    /\ UNCHANGED <<bookings, events, due, hist>>

\* The other cases begin with TransactionRepository.updateTransaction.
HookUpdateTx(h, p, kind, status, next) ==
    /\ Deliver(h, EventsOf(p, kind))
    /\ SetTx(p, status)
    /\ proc' = [proc EXCEPT ![h] = IF next = "idle" THEN Idle
                                   ELSE [Idle EXCEPT !.p = p, !.pc = next, !.seen = kind]]
    /\ UNCHANGED <<bookings, due, hist>>

HookSucceeded(h, p) ==
    /\ payments[p].type = "booking"
    /\ HookUpdateTx(h, p, "succeeded", "succeeded", "hook_captured")

HookCaptured(h) ==
    /\ At(h, "hook_captured")
    /\ SetTx(proc[h].p, "captured")
    /\ Return(h)
    /\ UNCHANGED <<bookings, events, due, hist>>

HookFailed(h, p) ==
    HookUpdateTx(h, p, "payment_failed", "failed",
                 IF payments[p].type = "booking" THEN "hook_find" ELSE "idle")

HookCanceled(h, p) ==
    HookUpdateTx(h, p, "canceled", "canceled",
                 IF payments[p].type = "booking" THEN "hook_find" ELSE "idle")

HookRequiresAction(h, p) ==
    HookUpdateTx(h, p, "requires_action", "requires_action", "idle")

HookFind(h) ==
    /\ At(h, "hook_find")
    /\ \E b \in LinkedTo(proc[h].p) :
          IF b = None THEN Return(h)
          ELSE proc' = [proc EXCEPT ![h] = [@ EXCEPT !.pc = "hook_void", !.b = b]]
    /\ UNCHANGED <<bookings, payments, events, due, hist>>

HookVoid(h) ==
    /\ At(h, "hook_void")
    /\ Void(proc[h].b)
    /\ Return(h)
    /\ UNCHANGED <<payments, events, due, hist>>

HookBegin(h, p) ==
    \/ HookCapturable(h, p) \/ HookSucceeded(h, p) \/ HookFailed(h, p)
    \/ HookCanceled(h, p) \/ HookRequiresAction(h, p)

HookContinue(h) ==
    HookConfirm(h) \/ HookAuthorized(h) \/ HookCaptured(h) \/ HookFind(h) \/ HookVoid(h)

Hook(h) == (\E p \in Payments : HookBegin(h, p)) \/ HookContinue(h)

-----------------------------------------------------------------------------
(* cancelBooking, by the coach                                             *)

\* No code writes the transaction status the second guard asks for: after a
\* transfer the row says "captured".
CancelRead(r, b) ==
    /\ MayStart(r)
    /\ bookings[b].status \in {"PENDING", "CONFIRMED"}
    /\ bookings[b].tx # None => payments[bookings[b].tx].status # "completed"
    /\ proc' = [proc EXCEPT ![r] =
           [Idle EXCEPT !.pc = "cancel_write", !.b = b, !.p = bookings[b].tx]]
    /\ UNCHANGED <<bookings, payments, events, due, hist>>

\* The status only: the validation token stays in the row.
CancelWrite(r) ==
    /\ At(r, "cancel_write")
    /\ bookings' = [bookings EXCEPT ![proc[r].b].status = "CANCELLED"]
    /\ IF proc[r].p = None THEN Return(r) ELSE Goto(r, "cancel_read_tx")
    /\ UNCHANGED <<payments, events, due, hist>>

CancelReadTx(r) ==
    /\ At(r, "cancel_read_tx")
    /\ IF payments[proc[r].p].status \in Releasable THEN Goto(r, "cancel_release") ELSE Return(r)
    /\ UNCHANGED <<bookings, payments, events, due, hist>>

\* "Continue with cancellation even if payment reversal fails".
CancelRelease(r) ==
    /\ At(r, "cancel_release")
    /\ \/ /\ Cancelable(proc[r].p)
          /\ CancelIntent(proc[r].p)
          /\ Goto(r, "cancel_mark")
       \/ /\ Faults \/ ~Cancelable(proc[r].p)
          /\ Return(r)
          /\ UNCHANGED <<payments, events>>
    /\ UNCHANGED <<bookings, due, hist>>

CancelMark(r) ==
    /\ At(r, "cancel_mark")
    /\ SetTx(proc[r].p, "cancelled")
    /\ Return(r)
    /\ UNCHANGED <<bookings, events, due, hist>>

Cancel(r) ==
    \/ \E b \in Bookings : CancelRead(r, b)
    \/ CancelWrite(r) \/ CancelReadTx(r) \/ CancelRelease(r) \/ CancelMark(r)

-----------------------------------------------------------------------------
(* validateBookingToken, by the coach with the athlete's token             *)

\* seen is "token" when the call carries the row's token and it is in date.  A
\* wrong token is refused without effect; "bare" is a call without one.
ValidateRead(r, b) ==
    /\ MayStart(r)
    /\ hist.uses[b] < MaxUses /\ hist.transfers[b] < MaxUses      \* bound
    /\ bookings[b].status # "ABSENT"
    /\ IF bookings[b].n = 0 THEN bookings[b].status # "COMPLETED"
                            ELSE bookings[b].done < bookings[b].n
    /\ bookings[b].tx # None
    /\ \E seen \in {"bare"} \cup (IF bookings[b].token = "live" THEN {"token"} ELSE {}) :
          proc' = [proc EXCEPT ![r] =
             [Idle EXCEPT !.pc = "val_check", !.b = b, !.p = bookings[b].tx,
                !.q = bookings[b].offerTx, !.n = bookings[b].n, !.done = bookings[b].done,
                !.seen = seen]]
    /\ UNCHANGED <<bookings, payments, events, due, hist>>

\* Mutant: no token is asked for until a transfer was created.
PriorTransferMissing(r) == payments[proc[r].p].transfer # "created"

PriorTransferFailed(r) ==
    \/ payments[proc[r].p].transfer = "failed"
    \/ proc[r].q # None /\ payments[proc[r].q].transfer = "failed"

\* The transactions are read after the booking.  No token is asked for when
\* one of them says that an earlier transfer failed.
ValidateCheck(r) ==
    /\ At(r, "val_check")
    /\ LET b == proc[r].b IN
         IF proc[r].seen = "token" \/ PriorTransferFailed(r)
         THEN /\ hist' = IF proc[r].seen = "token" THEN [hist EXCEPT !.uses[b] = @ + 1] ELSE hist
              /\ Goto(r, "val_capture")
         ELSE Return(r) /\ hist' = hist
    /\ UNCHANGED <<bookings, payments, events, due>>

\* Mutant: an intent that cannot be captured is not noticed.
CaptureUnchecked(r, p, next) ==
    /\ IF payments[p].intent = "held"
       THEN /\ payments' = [payments EXCEPT ![p].intent = "succeeded"]
            /\ events' = events \cup {EventsOf(p, "succeeded")}
       ELSE UNCHANGED <<payments, events>>
    /\ Goto(r, next)
    /\ UNCHANGED <<bookings, due, hist>>

\* Retrieves the intent of p and captures it unless it has succeeded already; an
\* intent that cannot be captured makes the call throw.
Capture(r, p, next) ==
    /\ CASE payments[p].intent = "held" ->
              /\ payments' = [payments EXCEPT ![p].intent = "succeeded"]
              /\ events' = events \cup {EventsOf(p, "succeeded")}
              /\ Goto(r, next)
         [] payments[p].intent = "succeeded" ->
              Goto(r, next) /\ UNCHANGED <<payments, events>>
         [] OTHER -> Return(r) /\ UNCHANGED <<payments, events>>
    /\ UNCHANGED <<bookings, due, hist>>

\* Mutant: the offer's payment is captured first.
ValidateCaptureOfferFirst(r) ==
    /\ At(r, "val_capture")
    /\ IF proc[r].q = None THEN Capture(r, proc[r].p, "val_transfer")
                           ELSE Capture(r, proc[r].q, "val_capture_offer")

ValidateCapture(r) ==
    /\ At(r, "val_capture")
    /\ Capture(r, proc[r].p, IF proc[r].q = None THEN "val_transfer" ELSE "val_capture_offer")

ValidateCaptureOffer(r) ==
    /\ At(r, "val_capture_offer")
    /\ Capture(r, proc[r].q, "val_transfer")

\* The booking's payment, then that of an accepted offer (module CustomOffers).
ValidateCaptures(r) ==
    IF At(r, "val_capture") THEN ValidateCapture(r) ELSE ValidateCaptureOffer(r)

\* Mutant: every session pays out the price of the whole package.
ShareWhole(p, n) == payments[p].amount

\* The part of p's amount paid out for one session.
Share(p, n) == IF n = 0 THEN payments[p].amount ELSE payments[p].amount \div n

\* Mutant: the error of a transfer is not noticed.
ValidateTransferUnchecked(r) ==
    /\ At(r, "val_transfer")
    /\ proc' = [proc EXCEPT ![r] = [@ EXCEPT !.pc = "val_write", !.seen = "created"]]
    /\ UNCHANGED <<bookings, payments, events, due, hist>>

ValidateTransfer(r) ==
    /\ At(r, "val_transfer")
    /\ LET b == proc[r].b  n == proc[r].n IN
         \/ /\ payments' = [p \in Payments |->
                   IF p \in {proc[r].p, proc[r].q}
                   THEN [payments[p] EXCEPT !.paid = @ + Share(p, n)] ELSE payments[p]]
            /\ hist' = [hist EXCEPT !.transfers[b] = @ + 1]
            /\ proc' = [proc EXCEPT ![r] = [@ EXCEPT !.pc = "val_write", !.seen = "created"]]
         \/ /\ proc' = [proc EXCEPT ![r] = [@ EXCEPT !.pc = "val_write", !.seen = "failed"]]
            /\ UNCHANGED <<payments, hist>>
    /\ UNCHANGED <<bookings, events, due>>

\* The new count and status come from the row as ValidateRead saw it.
ValidateWrite(r) ==
    /\ At(r, "val_write")
    /\ LET created == proc[r].seen = "created"
           done == IF created THEN proc[r].done + 1 ELSE proc[r].done
           more == created /\ proc[r].n # 0 /\ done < proc[r].n
       IN  bookings' = [bookings EXCEPT ![proc[r].b] = [@ EXCEPT
              !.status = IF created /\ ~more THEN "COMPLETED" ELSE "CONFIRMED",
              !.token = IF more THEN "live" ELSE "null",
              !.done = done]]
    /\ Goto(r, "val_tx")
    /\ UNCHANGED <<payments, events, due, hist>>

\* Mutant: the two status columns are swapped.
MarkTransferSwapped(r, p) ==
    payments' = [payments EXCEPT ![p] =
                    [@ EXCEPT !.status = proc[r].seen, !.transfer = "captured"]]

MarkTransfer(r, p) ==
    payments' = [payments EXCEPT ![p] =
                    [@ EXCEPT !.status = "captured", !.transfer = proc[r].seen]]

ValidateTx(r) ==
    /\ At(r, "val_tx")
    /\ MarkTransfer(r, proc[r].p)
    /\ IF proc[r].q = None THEN Return(r) ELSE Goto(r, "val_offer_tx")
    /\ UNCHANGED <<bookings, events, due, hist>>

ValidateOfferTx(r) ==
    /\ At(r, "val_offer_tx")
    /\ MarkTransfer(r, proc[r].q)
    /\ Return(r)
    /\ UNCHANGED <<bookings, events, due, hist>>

ValidateTxs(r) == IF At(r, "val_tx") THEN ValidateTx(r) ELSE ValidateOfferTx(r)

Validate(r) ==
    \/ \E b \in Bookings : ValidateRead(r, b)
    \/ ValidateCheck(r) \/ ValidateCaptures(r) \/ ValidateTransfer(r)
    \/ ValidateWrite(r) \/ ValidateTxs(r)

-----------------------------------------------------------------------------
(* cancelExpiredBookingHolds, every hour                                   *)

ExpiredHolds == {b \in Bookings : /\ bookings[b].status = "CONFIRMED"
                                  /\ bookings[b].token = "expired"
                                  /\ bookings[b].tx # None}

CronSelect ==
    /\ MayStart(Cron) /\ due = {}
    /\ ExpiredHolds # {}
    /\ due' = {<<b, bookings[b].tx>> : b \in ExpiredHolds}
    /\ UNCHANGED <<bookings, payments, events, proc, hist>>

\* Reads the transaction of the next selected booking and retrieves its intent.
CronPick ==
    /\ At(Cron, "idle")
    /\ \E job \in due :
         /\ due' = due \ {job}
         /\ proc' = [proc EXCEPT ![Cron] =
                [Idle EXCEPT !.pc = "cron_settle", !.b = job[1], !.p = job[2],
                   !.seen = IF payments[job[2]].intent = "succeeded" THEN "charged" ELSE "hold"]]
    /\ UNCHANGED <<bookings, payments, events, hist>>

\* A charge is refunded in full, a hold is released.  Stripe refuses to refund
\* twice and to cancel what is captured or canceled; the job goes on with the next row.
CronSettle ==
    /\ At(Cron, "cron_settle")
    /\ LET p == proc[Cron].p IN
         \/ /\ proc[Cron].seen = "charged" /\ ~payments[p].refunded
            /\ payments' = [payments EXCEPT ![p].refunded = TRUE]
            /\ Goto(Cron, "cron_mark") /\ events' = events
         \/ /\ proc[Cron].seen = "hold" /\ Cancelable(p)
            /\ CancelIntent(p)
            /\ Goto(Cron, "cron_mark")
         \/ /\ \/ Faults
               \/ proc[Cron].seen = "charged" /\ payments[p].refunded
               \/ proc[Cron].seen = "hold" /\ ~Cancelable(p)
            /\ Return(Cron) /\ UNCHANGED <<payments, events>>
    /\ UNCHANGED <<bookings, due, hist>>

CronMark ==
    /\ At(Cron, "cron_mark")
    /\ SetTx(proc[Cron].p, IF proc[Cron].seen = "charged" THEN "refunded" ELSE "canceled")
    /\ Goto(Cron, "cron_void")
    /\ UNCHANGED <<bookings, events, due, hist>>

\* Mutant: the booking of a settled hold is not written.
CronVoidNothing ==
    /\ At(Cron, "cron_void")
    /\ Return(Cron)
    /\ UNCHANGED <<bookings, payments, events, due, hist>>

CronVoid ==
    /\ At(Cron, "cron_void")
    /\ Void(proc[Cron].b)
    /\ Return(Cron)
    /\ UNCHANGED <<payments, events, due, hist>>

ExpiryJob == CronSelect \/ CronPick \/ CronSettle \/ CronMark \/ CronVoid

-----------------------------------------------------------------------------
(* updateBooking, by the coach, and the admin's update of a booking: the   *)
(* status column takes any value of the request, whatever it was, and the  *)
(* coach may give another date.  A call that writes both is one step after *)
(* the other.                                                              *)

EditStatus(b, status) ==
    /\ bookings[b].status # "ABSENT"
    /\ bookings' = [bookings EXCEPT ![b].status = status]
    /\ hist' = [hist EXCEPT !.edited = @ \cup {b}]
    /\ UNCHANGED <<payments, events, proc, due>>

\* Nothing asks whether the athlete has a booking on the new date.
EditDate(b, s) ==
    /\ bookings[b].status # "ABSENT"
    /\ <<bookings[b].slot, s>> \in SlotMoves
    /\ bookings' = [bookings EXCEPT ![b].slot = s]
    /\ NoteMove(b, s)
    /\ UNCHANGED <<payments, events, proc, due>>

ByHand == \E b \in Bookings : \/ \E status \in Edits : EditStatus(b, status)
                              \/ \E s \in Slots : EditDate(b, s)

-----------------------------------------------------------------------------
(* A handler that throws, or whose process stops, between two awaits       *)

RequestStops(r) ==
    /\ Faults /\ proc[r].pc # "idle"
    /\ Return(r)
    /\ UNCHANGED <<bookings, payments, events, due, hist>>

\* A swallowed error answers 200 and the event is gone; a stopped process answers
\* nothing and Stripe delivers the event again.
HookStops(h) ==
    /\ Faults /\ proc[h].pc # "idle"
    /\ Return(h)
    /\ \/ events' = events
       \/ events' = events \cup {EventsOf(proc[h].p, proc[h].seen)}
    /\ UNCHANGED <<bookings, payments, due, hist>>

\* The job catches per booking; a stopped process forgets the rest of its list.
CronStops ==
    /\ Faults /\ proc[Cron].pc # "idle"
    /\ Return(Cron)
    /\ due' \in {due, {}}
    /\ UNCHANGED <<bookings, payments, events, hist>>

Next ==
    \/ \E r \in Requests : Book(r) \/ Cancel(r) \/ Validate(r) \/ RequestStops(r)
    \/ \E h \in Hooks : Hook(h) \/ HookStops(h)
    \/ ByHand
    \/ ExpiryJob \/ CronStops
    \/ Environment

Spec == Init /\ [][Next]_vars

-----------------------------------------------------------------------------
(* Properties                                                              *)

\* Every row, intent, handler and history variable keeps its type.
TypeOK ==
    /\ bookings \in [Bookings -> BookingRow]
    /\ payments \in [Payments -> PaymentRow]
    /\ events \subseteq Event
    /\ proc \in [Procs -> Local]
    /\ due \subseteq Bookings \X Payments
    /\ hist \in [transfers : [Bookings -> Nat], uses : [Bookings -> Nat],
                 edited : SUBSET Bookings, moved : SUBSET Bookings]

\* validateBookingToken pays the coach only out of money that was really charged:
\* a payment something was transferred from, or refunded from, is a captured one.
TransfersBacked ==
    \A p \in Payments :
        payments[p].paid > 0 \/ payments[p].refunded => payments[p].intent = "succeeded"

\* The final statuses of a transaction row are facts at Stripe, whatever handlers
\* raced to write them: "captured", "succeeded" and "refunded" mean charged, both
\* spellings of cancelled mean that the hold was released.
LedgerTellsTruth ==
    \A p \in Payments :
        /\ payments[p].status \in {"captured", "succeeded", "refunded"}
              => payments[p].intent = "succeeded"
        /\ payments[p].status \in {"canceled", "cancelled"} => payments[p].intent = "canceled"

\* A booking row points at the payment made for it, and at no other's: the
\* webhook's findFirst by payment_transaction_id can only find one row.
PaymentsLinked ==
    \A b \in Bookings : bookings[b].tx # None =>
        /\ payments[bookings[b].tx].booking = b
        /\ \A c \in Bookings \ {b} : bookings[c].tx # bookings[b].tx

\* total_completed_session never runs ahead of the transfers made for the booking,
\* although it is written from a value read before the transfer.
NoSessionWithoutPayout ==
    \A b \in Bookings : bookings[b].done <= hist.transfers[b]

\* A booking is COMPLETED only after a transfer to the coach was created for it,
\* unless somebody has edited its status.
CompletedMeansPaid ==
    \A b \in Bookings :
        bookings[b].status = "COMPLETED" => hist.transfers[b] > 0 \/ b \in hist.edited

\* No payment transfers more to the coach than was charged for it.
PayoutConserved == \A p \in Payments : payments[p].paid <= payments[p].amount

\* Each transfer answers a token of the athlete: a retry without token only
\* repeats a transfer that failed.
PayoutNeedsToken == \A b \in Bookings : hist.transfers[b] <= hist.uses[b]

\* A payment is charged only while its booking names it: one that bookAppointment
\* has replaced by a newer one is never charged.
SupersededNeverCharged ==
    [][\A p \in Payments :
         /\ payments[p].intent # "succeeded" /\ payments'[p].intent = "succeeded"
         /\ payments[p].type = "booking"
         => bookings[payments[p].booking].tx = p]_vars

\* bookAppointment makes at most one booking of an athlete with the coach for one
\* date.  Two are on one date only when a writer that asks for no duplicate has given
\* one of them another date: the coach's update, or an accepted offer (CustomOffers).
OneBookingPerSlot ==
    \A b, c \in Bookings :
        b # c /\ bookings[b].slot # None /\ bookings[b].slot = bookings[c].slot
        => b \in hist.moved \/ c \in hist.moved

\* A single-session booking is validated, and its coach paid, once.
SingleValidatedOnce ==
    \A b \in Bookings :
        bookings[b].status # "ABSENT" /\ bookings[b].n = 0 => hist.transfers[b] <= 1

\* Money moves as the abstract specification says, in every interleaving: held,
\* then released or charged, and only charges are paid out or refunded.
EscrowOfPayments ==
    INSTANCE Escrow WITH phase <- [p \in Payments |-> payments[p].intent],
                         paid <- [p \in Payments |-> payments[p].paid],
                         refunded <- [p \in Payments |-> payments[p].refunded]

ImplementsEscrow == EscrowOfPayments!Spec

-----------------------------------------------------------------------------
(* Fairness: Node keeps running the continuations of a handler it has      *)
(* started, Stripe keeps delivering what is pending for each intent, and   *)
(* the scheduler fires the job every hour, however busy the server is.     *)

Continue(r) == proc[r].pc # "idle" /\ (Book(r) \/ Cancel(r) \/ Validate(r))

FairSpec ==
    /\ Spec
    /\ \A r \in Requests : WF_vars(Continue(r))
    /\ \A h \in Hooks : WF_vars(HookContinue(h)) /\ \A p \in Payments : SF_vars(HookBegin(h, p))
    /\ SF_vars(ExpiryJob)

\* A confirmed booking whose token has expired does not stay so: the job (or a
\* webhook) cancels it, or a validation takes the token away.
ExpiredHoldReleased ==
    \A b \in Bookings : b \in ExpiredHolds ~> b \notin ExpiredHolds

\* The athlete's money is not held for ever behind a booking that was cancelled by
\* cancelBooking, the webhook or the job: the hold is released, or a late
\* authorization confirms the booking again.  (The run has no edits: CANCELLED
\* written by updateBooking or by the admin releases nothing.)
NoHoldBehindCancelled ==
    \A b \in Bookings :
        LET stranded == /\ bookings[b].status = "CANCELLED" /\ bookings[b].tx # None
                        /\ payments[bookings[b].tx].intent = "held"
        IN  stranded ~> ~stranded
=============================================================================
