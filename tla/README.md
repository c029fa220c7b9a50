# Verification of the sports-coaching backend

TLA+ models of the NestJS backend in `src/src`, the TLC runs that check them on small instances, and
TLAPS proofs of the most important safety properties. The code is the reference: each definition's
source lines are listed in `PROJECT.json` under `map`.

## 1. The system

Athletes book sessions with coaches, pay through Stripe with a manual capture (the card is held),
and hand the coach a token after the session; validating the token captures the hold and transfers
the share to the coach. There is one Node process, a PostgreSQL database behind Prisma, Redis,
sockets for chat, and Stripe's webhooks. **No handler uses a database transaction**, so every
`await` is a point at which another handler may run, and whatever a handler wrote before it threw, or
its process stopped, stays. Errors in the webhook are caught and answered with 200 in most places:
the event is then lost. Stripe delivers at least once and in any order.

| Component | State | Operations | Talks to | Hard behaviour | What makes it correct |
|---|---|---|---|---|---|
| Bookings (`modules/bookings`) | `bookings`: status, sessions done, token, payment, date, time; packages | bookAppointment, cancelBooking, validateBookingToken, updateBooking, packages, lists, calendars | transactions, Stripe, notifications | check-then-create; status and count written from stale reads; several payments of one booking; packages change under a payment | sessions and COMPLETED follow transfers; no payout beyond the charge; paid as booked; nobody in two sessions |
| Stripe webhook (`payment/stripe`) | `payment_transactions` | payment_intent.*, checkout.session.completed, customer.subscription.* | bookings, offers, orders, coach profiles | repeated, late, reordered, lost events; racing with requests | the ledger agrees with Stripe |
| Expiry job (`cron/bookings-payment-expiry`) | - | hourly: refund or release, mark, void | bookings, Stripe | selects rows it settles much later; throws per booking | every expired hold is released in the end |
| Custom offers (`bookings`, `chat/message`) | `custom_offers` | send, accept, decline, pay | booking, second payment | two payments of one booking; two writers of one offer; terms written long after they were compared | charged only together with the booking; accepted means held |
| Shop (`admin/marketplace-management`) | products, carts, orders | addToCart, removeFromCart, checkout, confirm, admin writes | transactions, webhook | nothing is reserved; stock compared long before it is taken | never oversold, counted once, paid implies confirmed |
| Coach calendar | blocked days and slots, day off, available weekdays | set and read, clean-up by the job and by calls | bookings | array columns read, changed and written back; days compared as moments | no blocked day opened by others, weekdays offered are open |
| Accounts (`auth`, `ucode`, `user`) | users, ucodes, pending registrations in Redis | register, verify, social sign-in, reset, change e-mail and password | mail, providers | two keys of Redis that end separately; codes bound to addresses that change hands | an account is made from its form; one account per provider's id; passwords stay with their owners |
| Subscriptions, Connect | user_subscriptions, coach profile | checkout, updated, deleted, cancel, onboard | Stripe | event order, a copy of a copy; broken-off onboarding | rows follow Stripe; the profile catches up; a coach is paid where he onboarded |
| Chat, presence, notifications | conversations, messages, sockets, settings | create, send, join, read, connect, disconnect, switch | gateways | find-then-create; reconnect before disconnect; stored but not announced | one conversation per pair; online iff a socket is open; silence is kept |
| Goals, badges, reviews | goals, progress, awards, reviews, profile rating | create, add, claim, delete, review | bookings | limits and uniqueness checked before the write; figures computed from reads | limits hold; one award, one review; figures follow rows |
| Lists read page by page | a client's position | offset and count | the tables above | rows added between two calls or two queries | no row that was there all the time is missed |
| Admin, reports, videos, map, site contents, mail, guards | single rows | create, read, update, delete, search | all tables | the booking status may be written freely | see the components of `PROJECT.json` |

`PROJECT.json` lists every component with its status and every hazard found at its line.

## 2. Modules

| Module | Models | How it corresponds |
|---|---|---|
| `BookingPayment` | bookAppointment, cancelBooking, validateBookingToken, `payment_intent.*` for bookings, the expiry job, a status or a date written by hand | `bookings` and `payments` are the tables (a payment is a `payment_transactions` row together with the intent it names); `events` is Stripe's queue; `proc` holds each handler's program counter and the values it read and uses later; `due` is the job's list. One action is the stretch between two awaits that touch shared rows. `hist` counts transfers and validations and marks edited bookings and moved ones; no guard reads it except for the bound `MaxUses` |
| `CustomOffers` | sendCustomOffer, acceptCustomOffer, declineCustomOffer, the custom-offer branches of the webhook, with the date each of them writes into the booking | EXTENDS `BookingPayment` and composes: `OfferNext` interleaves booking steps with offer steps on the same tables |
| `Escrow` | what the platform promises about money at Stripe | abstract: a phase per payment, what was paid out of it, whether it was refunded. `CustomOffers` (and `BookingPayment` inside it) implements it with the mapping `EscrowOfPayments` |
| `Marketplace` | cart, checkout, confirmOrderInternal, the webhook's shop branch, the admin's writes | `products`, `cart`, `orders` (an order row with items, transaction and intent), `events`, `proc`, `hist` as above |
| `SessionTimes` | updateBooking with checkTimeConflict, the row of bookAppointment, every write of a status; sendCustomOffer with its check, acceptCustomOffer, declineCustomOffer and the two events of an offer's payment, as writers of date and time | `appts`: status, pair, date and session (the moments a time was computed with); `edits`: the calls in flight; `offered`: the rows of `custom_offers` with their terms; `loose` marks bookings and offers whose time the code did not compare with all the others |
| `Packages` | createSessionPackage, updateSessionPackage, deleteSessionPackage with the schema's cascade, bookAppointment up to the hold, the capturable event | `packages`, `sold` (bookings), `charges`, `buying`; payment beyond the hold is in `BookingPayment` |
| `CoachCalendar` | setBlockedDays, setBlockedTimeSlot, setWeekendDay, the clean-up (job and calls), getAvailableDays | `blocked`, `slots`, `weekend`, `available` are columns of `coach_profiles`; `work` holds the array a call read and writes back whole |
| `Agenda` | the calendar day by day and the four tabs of bookings | `hour` is the clock, `plan` the bookings of one person, `look` the client's calls one after another |
| `Pages` | eleven paged lists: bookings (three), users, products, orders, notifications (two), progress, reviews, videos | `table` is the rows in order, `reader` the client; the count and the rows are two queries where the code makes two |
| `Accounts` | requestRegistration, verifyAndRegister, handleGoogleProfile, handleAppleProfile, creation and removal by the admin | `pending` and `otp` are the two keys of Redis, which expire; `flow` is the calls in flight; `past` who was signed in where |
| `Codes` | forgotPassword, resetPassword, changePassword, changeEmail and its request, verifyEmail, the admin's edits | `ucodes` rows with a token and an address; a password is written by address, so the model follows whose it was |
| `Subscriptions` | plans, checkout, cancellation, the three kinds of subscription events, setupProfile | `stripe` is the truth, `rows` and `profiles` the copies, `events` the queue |
| `PayoutAccounts` | onboarding, the status of the account, the transfer of a payout | `payee` and Stripe's `accounts`; one onboarding is four awaits |
| `Messaging` | presence of sockets; conversations and messages; the notification switch | three next-state relations over disjoint variables, `PresenceNext`, `ThreadNext`, `NoteNext` |
| `Goals`, `Badges`, `Reviews` | goals with progress and mentors; criteria, claims, the admin's badges; reviews and the coach's rating | tables and calls in flight; `Progress` of a criterion is a recursive function over the nested criteria. A booking's COMPLETED may be written back (`JobReopened`); a call of addProgress may fail at either of its last two queries (`GoalCallFails`) and the entry stays |
| `MCBookingPayment`, `MCCustomOffers`, `MCMarketplace`, `MCCoachSide`, `MCPeople`, `MCCommunity` | - | instances for TLC: prices, criteria, symmetry sets, bounds |
| `BookingPaymentProofs`, `LedgerProofs`, `OfferProofs`, `MarketProofs`, `CoachSideProofs`, `PeopleProofs`, `CommunityProofs` | - | theorems, section 5 |
| `SumTheorems` | - | what `MapThenSumSet` over a finite set comes to |

Operators called "Mutant" in a comment are plausible mistakes (a dropped guard, a swapped order).
No specification uses them; putting one in place of the definition after it makes the property
named in `PROJECT.json` fail, which shows that the property is sensitive to that line.

Abstractions: in payments time is "the token is live or expired", in the calendar a day number, in
`SessionTimes` a few hours of a day; amounts are small numbers that divide evenly; one coach in the
booking modules; a slot is one (athlete, date) pair. Notifications, messages and mail that announce
something are left out where their failure is caught and nothing reads them back. `is_active` and
`status` of a product are one flag. In Stripe, an intent is open, held, succeeded or canceled.
History variables (`hist`, `past`, `stray`, `drift`, `award`, `beside`, `seen`, `was`, `loose`, the
`odd` and `sure` of readers) only record what a property speaks of.

## 3. Runs

Passing:

| Run | Question | Instance |
|---|---|---|
| `BookingOverlap` | do sessions and COMPLETED follow transfers when everything overlaps? | one booking, two API calls, a webhook and the job interleaved at every await; status edited to COMPLETED or CONFIRMED at any moment |
| `BookingFaults` | does the ledger stay true? | handlers stop or throw between any two awaits; events repeated, lost, reordered; failing cards and lapsing holds |
| `BookingSerial` | is money conserved, one booking per date, only the current payment charged? | two bookings, two dates, two payments, up to three validations, one handler at a time, events in any order; the coach moves any booking to the other date |
| `BookingLive` | are expired confirmations taken back and holds released? | fair handlers, one at a time, events of one intent in order |
| `OffersOverlap` | is an offer charged only with its booking; does all of it implement `Escrow`? | two payments, one offer, handlers of both modules overlapping, at most `MaxInFlight` (two) explored at a time |
| `OffersFaults` | accepted means held, declined means never charged? | one handler at a time that may stop anywhere, repeated events |
| `MarketShop` | not oversold, counted once? | two orders from a stock of two, admin writes stock and status, repeated events, stopping handlers |
| `MarketLive` | is every paid order confirmed, and nothing else? | two orders, declined cards, withdrawn products, repeated events, fair webhooks |
| `CoachSide` | do a coach's rows and profile follow Stripe, was a counted fee charged, is he paid where he onboarded? | two subscriptions of one coach, three events, one handler at a time that may stop, repeated events in order, fair webhooks; two onboarding calls and two accounts |
| `People` | do forms, sign-ins and passwords stay with their owners; are sessions apart and paid as booked; do calendars mislead? | two of everything that can be confused: users, addresses, forms, calls, bookings, dates, charges; sessions have two coaches, one athlete and one offer; the calendar has a day off set as a date and a day with a blocked slot |
| `Community` | does presence settle, is silence kept; is a thing made once, do figures follow rows, do pages show everything? | two users and three sockets; two calls in each part, those of goals and reviews may fail; bookings completed and reopened; all eleven lists with up to three rows and pages of one to three |

`People` and `Community` (and `CoachSide`) put several components side by side. These share no state,
so in each behaviour one of them runs and the others rest (`runs`, `Only`): the numbers of states add
up instead of multiplying, and every behaviour of each component is still there. Where a property of
such a run is a conjunction (`SessionsAsAgreed`, `CalendarsAreTrue`, `MadeOnce`, `FiguresFollow`,
`ShowsEverything`), it gathers what answers one question, and each part is stated in its own module.

Violation, a disagreement of the code with a sentence of its own (quoted in `findings`):

| Run | What TLC shows |
|---|---|
| `OffersRevalidate` | an offer paid after its booking was validated reopens the booking; the coach is paid a second time |

**Bounds.** Handlers are the unit of interleaving, so two API calls, a webhook and the job give every
kind of pair; `MaxUses` of two reaches the end of a package of two and one call more, three adds a
repeat. Two payments are what a rebooking, or a booking with an offer, needs. `Payments` and
`Bookings` are consumed and never reused, so the state space is finite; `MaxSold` cuts repeated
broken-off confirmations after three pieces. `MaxInFlight` is a TLC constraint of `OffersOverlap`
alone: with five handlers the races of interest are between pairs, and a third one is only looked at
for one step. In the modules the switches `Overlap`, `Redeliver`, `InOrder`, `Faults`, `Mishaps`,
`Edits`, `SlotMoves`, `CallsStop`, `CallsOverlap`, `TwoEditors`, `TwoOnboardings`, `WritesFail` select the
environment, so that each run turns on what its question needs.
The other runs have these bounds. `MovedUntilValidated` (`BookingSerial`): a behaviour in which a booking
was moved is followed until the first validation, which does not look at the date. `SessionBound` (`People`):
at most one booking or offer is in `loose`, of two bookings one is cancelled and one confirmed at most, an edit
changes what it names and not status and date at once, and while there is an offer edits change
times; the proofs need none of this. `MaxEvents` counts Stripe's events of a run: three are a first payment, a
change and an end. `LateBound` (`CoachSide`): a profile created after its payment is created when the
event was handled and nothing else has happened, the one case of interest. `Apart` (`People`): the
first social sign-in waits until no registration is open, in either order otherwise. `GoalBound`
(`Community`): progress is recorded for one goal at a time, and once two calls met at the list of
goals it stays short. `MaxTerms` bounds the terms one package ever has; a week has three days, the
calendar four, which has a day of next week with the same weekday. A client of `Agenda` rests after
one pass over his calendar or tabs, and a reading in which rows were moved or removed (`odd`) is not
followed any further, because its property says nothing of it.
Symmetry is used in safety runs only, over keys that no operator orders. In `People` and `Community`
one permutation turns sets of different components at once (`Turn`): while one component runs, the
others are in states every permutation leaves alone, so this is the symmetry of each component.

**Conditions, stated openly.** Some properties are checked under less than full chaos because the
code does not keep them otherwise; each case is a hazard with a note, and section 5 says which
conditions the proofs need. `PayoutConserved` and `PayoutNeedsToken` hold with one handler at a time.
`DeclinedNeverCharged` fails when an accept and a decline overlap. `OfferBalances` fails when a
succeeded event is repeated (`paid_amount` is added to what was read). `NeverOversold` and `SoldOnce`
are checked with one confirmation at a time and one cart row per product: the stock is compared
before and apart from the decrement, so overlapping confirmations take the same piece, and a
confirmation broken off in the middle decrements again. `RowsFollowStripe` and `ProfileCatchesUp`
hold with events in order and one handler at a time. `OnboardedAccountIsPaid` and `NoDoubleSession`
hold for onboardings, and edits and answers to offers, that do not overlap.
Even one at a time, some writers do not ask what others ask, and the property names what they wrote.
`OneBookingPerSlot` is kept by bookAppointment's duplicate check; a coach's update and an accepted
offer write a date and ask for no duplicate, so two bookings share a date only if one of them was moved
(`hist.moved`). `NoDoubleSession` excepts what was never compared (`loose`), which has three causes: a date
changed without a time, a closed booking made live again, and an accepted offer whose time was
free when it was sent but not when it was written. `OfferedDaysAreOpen` excepts days off set as dates and
blocked slots, which getAvailableDays does not look at. `OneReviewPerBooking` asks that the booking was completed
*before* the review (`drift.done`), since COMPLETED is written back by the admin, by updateBooking and by
a webhook. `PercentOfLatest` excepts goals whose target changed after the latest entry or whose last
addProgress failed on its way (`behind`). `NoHoldBehindCancelled` is about cancelBooking, the webhook and the
job: an edit that writes CANCELLED releases nothing, and the run has no such edits.
The properties of `Accounts`, `Messaging`,
`Goals`, `Badges`, `Reviews` and `Packages` name the overlap they except, per address, user, goal,
badge or booking (`torn`, `mixed`, `met`, `odd`), so the run has overlapping calls and the property
still speaks of everything they did not touch. `OnlyStaleWritesOpen` names instead who does it: a
blocked day is lost by stale writes and by nothing else. Those are properties of the code, not of the
model: the modules contain the steps.

**Fairness.** `FairSpec` of `BookingPayment`: weak fairness of every started handler (Node runs the
continuation of a resolved await), strong fairness of beginning each pending event (Stripe retries, but
a hook may be busy), strong fairness of the job (the scheduler fires each hour). Clients are not fair:
nobody need pay or validate. `FairSpec` of `Marketplace` and of `Subscriptions` have the same two
assumptions for handlers and webhooks; in `Subscriptions` Stripe repeats an event until it is accepted, and
not for ever. In `BookingLive` the events of one intent are in order and no handler stops: a canceled
event that overtakes the capturable one leaves a booking the job fails on every hour
(`bookings-payment-expiry.cron.ts:58`); with errors swallowed by the webhook an event is lost for good.
The other runs check safety only, and need none.

Deadlock is not checked: the instances really may stop, when keys and bounds are used up.

## 4. Further disagreements met while modelling (no run of their own)

- Two overlapping bookAppointment calls pass the duplicate check of `bookings.service.ts:957` and create
  two bookings for one date.
- The guard against cancelling after a payout (`bookings.service.ts:2098`, announced at lines 2092 and
  2100) compares with a status that nothing writes; cancelBooking cancels a paid session.
- A repeated `amount_capturable_updated` event confirms a COMPLETED booking again with a new token
  (`stripe.controller.ts:346`), although `bookings.service.ts:3655` refuses a second validation.
- After a failed transfer, cancelBooking still cancels (`bookings.service.ts:2106`), although
  `bookings.service.ts:3961` says the booking remains CONFIRMED until a transfer succeeds.
- The job refunds the full price of a package of which a session was paid out
  (`bookings-payment-expiry.cron.ts:48`); it throws on an intent that is canceled already (line 58).
- The webhook takes CONFIRMED for having a token (`stripe.controller.ts:378`), which a failed transfer
  has cleared.
- Deleting a package deletes its bookings by the schema's cascade, confirmed ones too, and leaves the
  holds behind (`bookings.service.ts:4143`).
- updateBooking and an accepted offer write a new date without the duplicate check of bookAppointment
  (`bookings.service.ts:3206`, `message.service.ts:627`): one athlete has two bookings on one date.
- An offer's time is compared when it is sent (`bookings.service.ts:3527`) and not when it is
  accepted or paid (`message.service.ts:627`, `stripe.controller.ts:547`): the session it writes may overlap one
  made in between. A repeated succeeded event writes the offer's old terms over a later edit.
- getAvailableDays says "Get next 7 days and exclude blocked/weekend ones" (`bookings.service.ts:600`), but offers
  a day off that was set as a date and days with blocked slots.
- addProgress swallows a failure of its last two queries (`goals.service.ts:656`): the entry stands, the
  percentage is that of an older one, and the caller is told that all went well.
- updateBooking compares times only if a time is given: a new date without a time, or a reopened
  booking, is not compared (`bookings.service.ts:3330`).
- A checkout whose handler breaks off, or meets no profile, loses the registration fee that was paid
  (`stripe.controller.ts:177`); two overlapping onboardings create two accounts.
- The admin's lists skip by the number asked for but return at most 100 rows (`booking_list.service.ts:126`):
  the rows between are on no page. The upcoming tab has no filter for cancelled bookings.
- Refresh tokens are stored under the token and revoked under the user's id (`auth.service.ts:1247`):
  a logout revokes nothing. `view_count` of a video is written from a stale read.

## 5. Proofs

Eight modules hold the theorems. They are for every value of the constants: any number of keys and of
calls in flight. Every invariant a run checks is a theorem, with the refinement of `Escrow` and the
two action properties (`SupersededNeverCharged`, `OnlyStaleWritesOpen`). `PROJECT.json` lists them under `theorems`; the
conjunctions (`MadeOnce`, `FiguresFollow`, ...) are proved part by part and then together.

**Assumptions.** The named ASSUMEs of the modules: keys are distinct from NULL, the kinds of handlers are
disjoint, prices, quantities, hours and ratings are counts, a page has at least one row, tables that are summed have
finitely many keys (`KeysAreFinite`, `BookingsAreFinite`, `BadgeSetsAreFinite`); criteria are what
`validateCriteriaNode` lets an admin save (`CriteriaAreValid`) and are written down before what
contains them, as nested JSON is (`PartsComeFirst`). TLC evaluates all of them. Besides, a theorem states a switch where
the code does not keep the property without it:

| Theorems | assume | because in the code |
|---|---|---|
| `SlotsAreSingle`, `OffersExplainSlots`, `SupersededIsNotCharged` | `~Overlap`: requests of the booking module one at a time (moved bookings are excepted in the property itself) | two calls both find no row, or one goes on with a payment the other replaced |
| `PayoutsAnswerTokens` | `~Overlap`, `~Faults` | overlapping validations use one token twice; one that stops between a repeated transfer and its last write leaves the row "failed", and a call without a token may transfer again |
| `PayoutsAreConserved` | `~Overlap`, `~Redeliver`, `~Faults`, `Edits = {}` | each alone breaks it: a repeated hold event gives a paid booking a new token, a stopped validation loses its count, and an edit back to PENDING lets bookAppointment reset it |
| `AcceptedMeansHeld`, `DeclinedIsNotCharged` | `OneAnswer`: a chat's answers to offers one at a time | a decline may fall between another answer's reading and its mark, and nothing locks the offer |
| `OfferFiguresBalance` | also `~Redeliver`, `~Faults` | `paid_amount` is added to what was read |
| `RowsAgreeWithStripe` | `~Overlap`, `InOrder` | events carry no time that is compared; the later write wins |
| `CoachPaidWhereOnboarded` | `~TwoOnboardings`: a coach's own onboard calls one at a time | two of them create two accounts |
| `SoldWhatThereIs`, `CountedOnce` | `OneConfirmation`: at most one hook | the stock is compared apart from the decrement, the status apart from both |
| `OrdersNameProductsOnce`, `StockIsRespected` | `OneRequest` (and `OneConfirmation`) | two addToCart calls make two rows of a product |
| `NobodyInTwoSessions`, `SessionsAreAsAgreed` | `~TwoEditors`: edits, and the handling of offers, one at a time | two edits compare before either writes |

Everything else is proved with overlapping handlers, repeated and reordered events and handlers that stop.

**The booking and its money.**

- `TypeCorrect` (`BookingPaymentProofs`): inductive as `TypeInv`, which adds `Named`: the row ids a handler
  holds at each program counter. Without it nothing says that the id a handler writes through is one of a row.
- `SessionsArePaid`, `CompletedIsPaid`: the count is written from a value read before the transfer;
  `PayoutInv` says that the value in a handler's hands is at most the transfers so far, and strictly less
  after its own transfer, so that the write cannot overtake.
- `TransfersAreBacked`, `LedgerIsTrue` (`LedgerProofs`): statuses are written several awaits after they
  were learnt. `LedgerInv` says that what rows, queued events and handlers in flight claim about an
  intent is true, and they only claim final states: `succeeded` and `canceled` never change again.
- `ImplementsItsEscrow`, `OffersImplementEscrow`: the mapping sends an intent to its phase and the transfers and
  refunds to those of `Escrow`. The initial states agree, and each handler's step is a move of one payment, a payout, a
  refund, or a stutter; that payouts and refunds come from captured intents is `LedgerInv`.
- `PaymentsAreLinked`, `OffersKeepLinks`: `LinkInv` (`OfferLinkInv`) gives each payment the booking it was made
  for, and says the same of the id a handler is about to link.
- `SerialInv` for handlers that do not overlap has three parts: at most one request runs (`AloneInv`), its
  duplicate check still holds when it writes, but for moved bookings (`SlotInv`), and a payment it is creating is nobody's (`FreshInv`).
- `UsesInv`: a payout without a token is owed for a transfer that failed. `MoneyInv` with `HoldsInv`: a hold is announced once, by an event or by
  the webhook that took it, so a booking's count of sessions is the transfers from its payment, and the shares add up to at most the charge.
- `OffersChargeWithBookings`: a validation captures the booking's payment first. `HeldInv`: a report of a hold is
  about an intent that was held. `AnswerInv`: an open offer names no payment, and a handler that
  decides has the offer PENDING. `BalanceInv`, with `OnceInv`: the event of a success is in the queue or in
  one webhook's hands, never both.

**The shop** (`MarketProofs`). `PaidInv`: an order whose payment is being created belongs to one call and is
not paid yet, so opening its intent cannot undo a payment. `StockInv`: what a confirmation read still covers
each item it has not come to; orders that name a product once keep one item from using up what the next one
was compared with (`CartInv`). `SoldInv`, for `CountedOnce`: sold_quantity is at most the sum, over all
orders, of the items confirmations have come to (`Taken`); a confirmation that begins has taken none, and writes CONFIRMED with
none left, so neither changes the sum. What was taken belongs to paid orders by `PaidInv`.

**Coaches** (`CoachSideProofs`). `FeeInv`: every event, row and handler speaks of a session that was paid. `RowsInv`: an
event says what Stripe said when it arose, the last of a subscription's says what Stripe says now, and a row
that differs has news in the queue or in the one handler's hands.

**People** (`PeopleProofs`). `RegInv` says for each program counter of a registration what the two keys of Redis may
hold: at rest `pending` is never there without the `otp` of the same form. `LinkInv`: an id is linked to one account, and a stale link
that is written back can replace a link, not remove it. `OwnerInv`: whoever has the address of a code now is the one it was made for, took it
since, or asked for it. `CalInv`: what the clean-up drops is in the past and stays there. `SessInv`: what the check found out is still true
when the edit writes; what it found out about an open offer is true until another session is written on its date, and then
the offer is in `loose` (`OfferCompared`). `PackInv`: a call in flight carries terms its package once had, and while nobody is
about to write a booking's charge the two agree. `AgendaInv`: the bookings that were there all the time have been shown
on the dates gone through (`DaysInv`), or are on a tab still to be read (`TabsInv`).

**Community** (`CommunityProofs`). Most invariants are about the calls in flight: the last status under way agrees with the
socket the gateway holds; a call that read the switch before it was turned is not one that began after; at most
one call makes a conversation, a goal, an award or a review where none met, and what it looked for is still not there
(`PairInv`, `LimitInv`, `BadgeInv`, `OnceInv`); a review in flight found its booking
completed. `RoomInv`: a message is in the reader's view or with the call that will announce it.
`PercentInv`, `RatingInv`: a figure follows its rows, or the call that will write it is in flight, or that call failed and the goal is marked
(`behind`). `PageInv`: ahead of a row the reader
has missed so far there are at least as many rows as the pages he has read hold. A page is a part of a sorted sequence, and the place of
a row in it is the number of rows ahead of it, and one (`PlaceOfRow`).

**Induction.** The provers cannot use the library's induction theorems. Where a recursive
function must be reasoned about, the proof takes a least counterexample: `LeastOfSet` for numbers, `LeastSubset`
for subsets of a finite set, `PartsComeFirst` for criteria. `SumTheorems` shows that way that the recursion of `MapThenSumSet`
has a solution and what it comes to; `CommunityProofs` that the recursive function `Progress` exists for every finite set of criteria, and
shows 100 exactly for those that are met (`PercentIsHonest`).

**Components side by side.** `MCCoachSide`, `MCPeople` and `MCCommunity` put components together that share no
state; each theorem of a component is lifted to theirs, because a step of another component leaves its variables alone
(`PeopleTypes`, `SessionsAreAsAgreed`, `CalendarsAreAlwaysTrue`, `CommunityTypes`, `EachIsMadeOnce`, `FiguresAreTrue`,
`EverythingIsShown`, `CoachTypes`).

**Only model-checked.** Liveness (`ExpiredHoldReleased`, `NoHoldBehindCancelled`, `PaidIsConfirmed`,
`ProfileCatchesUp`): fairness needs ENABLED, which is beyond the prover. `SingleValidatedOnce` does not hold (section 3).

## 6. Not modelled

Reports, statistics, dashboards and geographic search are read-only. FAQ, contact, website contents,
uploads, images and moderation are single writes of one row that no other component reads. Mail,
storage, configuration and seed are input and output. Guards and strategies decide on one request
without state. Password sign-in, the second factor and refresh tokens keep no state that another
handler changes between two awaits, apart from the disagreement of section 4. Attachments, typing and calls in
the chat, and the older notification module, are left out. The registration fee paid by a plain intent is the one
branch of the webhook that is left out.

## 7. Plan

Every invariant of the runs is proved. What is left is to weaken what the theorems assume where the code
justifies it: `SlotsAreSingle` needs only that calls for one athlete and date do not overlap, `CountedOnce` only that
confirmations of one order do not; and to state for a payment or an offer what `PayoutsAreConserved` and `OfferFiguresBalance` now state
for a whole behaviour.
