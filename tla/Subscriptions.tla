---------------------------- MODULE Subscriptions ----------------------------
(***************************************************************************)
(* Subscriptions of coaches and athletes.                                  *)
(*   src/src/modules/payment/subscription.service.ts,                      *)
(*   src/src/modules/payment/stripe/subscription.controller.ts,            *)
(*   the checkout.session and customer.subscription branches of            *)
(*     src/src/modules/payment/stripe/stripe.controller.ts,                *)
(*   setupProfile, updateUser in src/src/modules/auth/auth.service.ts.     *)
(*                                                                         *)
(* Stripe holds the subscription; user_subscriptions copies its status and *)
(* coach_profiles.subscription_active is a copy of the copy.  Both follow  *)
(* by webhooks alone.                                                      *)
(***************************************************************************)
EXTENDS Integers, FiniteSets, FiniteSetsExt

CONSTANTS
    Coaches, Athletes,
    Plans,
    Subs,           \* Stripe subscription ids; each arises from one checkout session
    Requests,       \* API calls that may be in flight at one time
    Hooks,          \* webhook deliveries that may be in flight at one time
    None,           \* SQL NULL in a foreign key
    Endpoints,      \* checkout endpoints the clients use
    PlanKinds,      \* kinds the admin gives to plans
    MaxEvents,      \* bound on the events Stripe sends
    Overlap,        \* may handlers interleave?
    InOrder,        \* are the events of a subscription delivered in order?
    Redeliver,      \* may Stripe deliver an event more than once?
    Faults          \* may a handler stop, or throw, between two awaits?

Users == Coaches \cup Athletes

Procs == Requests \cup Hooks

ASSUME ProcsDisjoint == Requests \cap Hooks = {}
ASSUME UsersDisjoint == Coaches \cap Athletes = {}
ASSUME NoneIsNoKey == None \notin Users \cup Plans \cup Subs
ASSUME BoundIsCount == MaxEvents \in Nat
ASSUME SwitchesAreBoolean == {Overlap, InOrder, Redeliver, Faults} \subseteq BOOLEAN
ASSUME EndpointsKnown == Endpoints \subseteq {"any", "coach", "athlete"}
ASSUME PlanKindsKnown == PlanKinds \subseteq {"COACH", "ATHLETE"}

VARIABLES
    plans,      \* subscription_plans
    profiles,   \* coach_profiles
    billing,    \* users.billing_id
    stripe,     \* the subscriptions at Stripe
    rows,       \* user_subscriptions
    events,     \* webhook events Stripe still has to deliver
    sent,       \* how many events arose so far
    proc,       \* the handlers in flight
    hist        \* history, see Hist

vars == <<plans, profiles, billing, stripe, rows, events, sent, proc, hist>>

-----------------------------------------------------------------------------
PlanKind == {"ABSENT", "COACH", "ATHLETE"}

ProfileRow == [exists   : BOOLEAN,
               active   : BOOLEAN,                 \* subscription_active
               fee      : BOOLEAN,                 \* registration_fee_paid
               reference: Subs \cup {None},        \* subscription_reference
               setUp    : BOOLEAN]                 \* specialty, price, ... are given

\* "open" is a checkout session nobody has paid yet.
StripeStatus == {"none", "open", "active", "past_due", "unpaid", "canceled"}

StripeSub == [status : StripeStatus,
              user   : Users \cup {None},          \* metadata of the session
              plan   : Plans \cup {None},
              fee    : BOOLEAN,                    \* the fee is on the invoice
              atEnd  : BOOLEAN]                    \* cancel_at_period_end

SubRow == [status : StripeStatus, user : Users \cup {None}, plan : Plans \cup {None},
           atEnd : BOOLEAN, deleted : BOOLEAN]

NoSub == [status |-> "none", user |-> None, plan |-> None, fee |-> FALSE,
          atEnd |-> FALSE]

NoRow == [status |-> "none", user |-> None, plan |-> None, atEnd |-> FALSE,
          deleted |-> FALSE]

\* An event carries the subscription as it was when the event arose.
Event == [sub : Subs, kind : {"completed", "updated", "deleted"},
          status : StripeStatus, atEnd : BOOLEAN, n : 1..MaxEvents]

Local == [pc : {"idle", "checkout_customer", "checkout_session", "cancel_stripe",
                "cancel_write", "completed_retrieve", "completed_create",
                "completed_activate", "completed_fee", "updated_row",
                "updated_profile", "deleted_row", "deleted_profile"},
          user : Users \cup {None}, plan : Plans \cup {None}, sub : Subs \cup {None},
          status : StripeStatus,
          flag : BOOLEAN,                          \* cancel_at_period_end, or cancel at once
          coach : BOOLEAN]                         \* the plan was read as a COACH plan

Idle == [pc |-> "idle", user |-> None, plan |-> None, sub |-> None,
         status |-> "none", flag |-> FALSE, coach |-> FALSE]

\* stopped: did a handler stop? replanned: did a plan change its kind?
\* late: coaches who had paid when updateUser made their profile.
Hist == [stopped : BOOLEAN, replanned : BOOLEAN, late : SUBSET Coaches]

Init ==
    /\ plans = [p \in Plans |-> "ABSENT"]
    /\ profiles \in [Coaches -> {[exists |-> b, active |-> FALSE, fee |-> FALSE,
                                  reference |-> None, setUp |-> FALSE] : b \in BOOLEAN}]
    /\ billing = {}
    /\ stripe = [s \in Subs |-> NoSub]
    /\ rows = [s \in Subs |-> NoRow]
    /\ events = {}
    /\ sent = 0
    /\ proc = [x \in Procs |-> Idle]
    /\ hist = [stopped |-> FALSE, replanned |-> FALSE, late |-> {}]

At(x, pc) == proc[x].pc = pc

Goto(x, l, pc) == proc' = [proc EXCEPT ![x] = [l EXCEPT !.pc = pc]]

Return(x) == proc' = [proc EXCEPT ![x] = Idle]

Free(x) == /\ At(x, "idle")
           /\ Overlap \/ \A y \in Procs : At(y, "idle")

\* coachProfile.updateMany: nothing happens to a coach without a profile.
WriteProfile(u, p) ==
    profiles' = IF u \in Coaches /\ profiles[u].exists
                THEN [profiles EXCEPT ![u] = p] ELSE profiles

\* What happens to a subscription at Stripe, and the event that tells of it.
Happens(s, sub, kind) ==
    /\ sent < MaxEvents
    /\ sent' = sent + 1
    /\ stripe' = [stripe EXCEPT ![s] = sub]
    /\ events' = events \cup {[sub |-> s, kind |-> kind, status |-> sub.status,
                               atEnd |-> sub.atEnd, n |-> sent + 1]}

-----------------------------------------------------------------------------
(* The admin: createOrUpdatePlan. *)

CreateOrUpdatePlan(p, kind) ==
    /\ kind \in PlanKinds
    /\ plans[p] # kind
    /\ plans' = [plans EXCEPT ![p] = kind]
    /\ hist' = [hist EXCEPT !.replanned = @ \/ plans[p] # "ABSENT"]
    /\ UNCHANGED <<profiles, billing, stripe, rows, events, sent, proc>>

-----------------------------------------------------------------------------
(* createSubscriptionCheckout.  The three endpoints differ in what they     *)
(* enforce; the plain one enforces nothing.                                 *)

HasActiveRow(u) == \E s \in Subs : /\ rows[s].user = u
                                   /\ rows[s].status = "active"
                                   /\ ~rows[s].deleted

FeeDue(u) == u \notin Coaches \/ ~profiles[u].exists \/ ~profiles[u].fee

\* The plain endpoint sets neither enforce_coach nor enforce_athlete.
EndpointAllows(endpoint, u, p) ==
    /\ endpoint \in Endpoints
    /\ endpoint = "coach" => u \in Coaches /\ plans[p] = "COACH"
    /\ endpoint = "athlete" => u \in Athletes /\ plans[p] = "ATHLETE"
    /\ endpoint # "any" => ~HasActiveRow(u)

CheckoutRead(x, u, p, endpoint) ==
    /\ Free(x)
    /\ plans[p] # "ABSENT"
    /\ EndpointAllows(endpoint, u, p)
    /\ Goto(x, [Idle EXCEPT !.user = u, !.plan = p, !.coach = (endpoint = "coach")],
            IF u \in billing THEN "checkout_session" ELSE "checkout_customer")
    /\ UNCHANGED <<plans, profiles, billing, stripe, rows, events, sent, hist>>

CheckoutCustomer(x) ==
    /\ At(x, "checkout_customer")
    /\ billing' = billing \cup {proc[x].user}
    /\ Goto(x, proc[x], "checkout_session")
    /\ UNCHANGED <<plans, profiles, stripe, rows, events, sent, hist>>

\* The fee is read last, just before the session is created; a call to Stripe
\* may fail.
CheckoutSession(x) ==
    /\ At(x, "checkout_session")
    /\ stripe' \in {stripe} \cup
          {[stripe EXCEPT ![s] = [NoSub EXCEPT !.status = "open", !.user = proc[x].user,
                                               !.plan = proc[x].plan,
                                               !.fee = proc[x].coach /\ FeeDue(proc[x].user)]]
           : s \in {r \in Subs : stripe[r].status = "none"}}
    /\ Return(x)
    /\ UNCHANGED <<plans, profiles, billing, rows, events, sent, hist>>

-----------------------------------------------------------------------------
(* cancelSubscription: the row is found, Stripe is told, and what Stripe    *)
(* answered is written into the row.                                        *)

CancelRead(x, u) ==
    /\ Free(x)
    /\ \E s \in Subs :
          /\ rows[s].user = u
          /\ rows[s].status = "active"
          /\ \E now \in BOOLEAN :
                Goto(x, [Idle EXCEPT !.user = u, !.sub = s, !.flag = now], "cancel_stripe")
    /\ UNCHANGED <<plans, profiles, billing, stripe, rows, events, sent, hist>>

\* Stripe refuses to touch a subscription that is over; any call may fail.
CancelStripe(x) ==
    /\ At(x, "cancel_stripe")
    /\ LET s   == proc[x].sub
           sub == IF proc[x].flag THEN [stripe[s] EXCEPT !.status = "canceled"]
                                  ELSE [stripe[s] EXCEPT !.atEnd = TRUE]
       IN  \/ /\ stripe[s].status # "canceled"
              /\ Happens(s, sub, IF proc[x].flag THEN "deleted" ELSE "updated")
              /\ Goto(x, [proc[x] EXCEPT !.status = sub.status, !.flag = sub.atEnd],
                      "cancel_write")
           \/ Return(x) /\ UNCHANGED <<stripe, events, sent>>
    /\ UNCHANGED <<plans, profiles, billing, rows, hist>>

CancelWrite(x) ==
    /\ At(x, "cancel_write")
    /\ rows' = [rows EXCEPT ![proc[x].sub].status = proc[x].status,
                            ![proc[x].sub].atEnd = proc[x].flag]
    /\ Return(x)
    /\ UNCHANGED <<plans, profiles, billing, stripe, events, sent, hist>>

-----------------------------------------------------------------------------
(* setupProfile asks for the registration fee.  A coach whose profile could *)
(* not be created at the registration never gets one here.                  *)

\* Mutant: the fee is not asked for.
SetupProfileUnpaid(c) ==
    /\ profiles[c].exists
    /\ profiles' = [profiles EXCEPT ![c].setUp = TRUE]
    /\ UNCHANGED <<plans, billing, stripe, rows, events, sent, proc, hist>>

SetupProfile(c) ==
    /\ profiles[c].exists
    /\ profiles[c].fee
    /\ profiles' = [profiles EXCEPT ![c].setUp = TRUE]
    /\ UNCHANGED <<plans, billing, stripe, rows, events, sent, proc, hist>>

\* updateUser writes the same fields without asking for the fee, and makes the
\* profile that is missing; a subscription paid before stays unknown to it.
UpdateUser(c) ==
    /\ ~profiles[c].exists
    /\ profiles' = [profiles EXCEPT ![c].exists = TRUE]
    /\ hist' = IF \E s \in Subs : stripe[s].user = c /\ stripe[s].status \notin {"none", "open"}
               THEN [hist EXCEPT !.late = @ \cup {c}] ELSE hist
    /\ UNCHANGED <<plans, billing, stripe, rows, events, sent, proc>>

-----------------------------------------------------------------------------
(* The webhook. *)

Next1st(e) == \A d \in events : d.sub = e.sub => e.n <= d.n

Deliver(x, e) ==
    /\ x \in Hooks
    /\ Free(x)
    /\ InOrder => Next1st(e)
    /\ events' \in {events \ {e}} \cup (IF Redeliver THEN {events} ELSE {})
    /\ Goto(x, [Idle EXCEPT !.sub = e.sub, !.status = e.status, !.flag = e.atEnd],
            CASE e.kind = "completed" -> "completed_retrieve"
              [] e.kind = "updated"   -> "updated_row"
              [] e.kind = "deleted"   -> "deleted_row")
    /\ UNCHANGED <<plans, profiles, billing, stripe, rows, sent, hist>>

\* The kind of the plan and the subscription are read anew: the row is not
\* made from the event.
CompletedRetrieve(x) ==
    /\ At(x, "completed_retrieve")
    /\ LET s == proc[x].sub
       IN  Goto(x, [proc[x] EXCEPT !.status = stripe[s].status, !.flag = stripe[s].atEnd,
                                   !.user = stripe[s].user,
                                   !.coach = (plans[stripe[s].plan] = "COACH")],
                "completed_create")
    /\ UNCHANGED <<plans, profiles, billing, stripe, rows, events, sent, hist>>

\* stripe_subscription_id is unique: a repeated event fails here, and the
\* webhook answers { received: false } with status 200.
CompletedCreate(x) ==
    /\ At(x, "completed_create")
    /\ LET s == proc[x].sub
       IN  IF rows[s].status # "none"
           THEN Return(x) /\ UNCHANGED rows
           ELSE /\ rows' = [rows EXCEPT ![s] =
                       [status |-> proc[x].status, user |-> proc[x].user,
                        plan |-> stripe[s].plan, atEnd |-> proc[x].flag,
                        deleted |-> FALSE]]
                /\ IF proc[x].coach THEN Goto(x, proc[x], "completed_activate")
                                    ELSE Return(x)
    /\ UNCHANGED <<plans, profiles, billing, stripe, events, sent, hist>>

\* Mutant: the profile is left inactive.
CompletedOnlyRefers(x) ==
    /\ At(x, "completed_activate")
    /\ LET u == proc[x].user
       IN  WriteProfile(u, [profiles[u] EXCEPT !.reference = proc[x].sub])
    /\ IF stripe[proc[x].sub].fee THEN Goto(x, proc[x], "completed_fee") ELSE Return(x)
    /\ UNCHANGED <<plans, billing, stripe, rows, events, sent, hist>>

CompletedActivate(x) ==
    /\ At(x, "completed_activate")
    /\ LET u == proc[x].user
       IN  WriteProfile(u, [profiles[u] EXCEPT !.active = TRUE, !.reference = proc[x].sub])
    /\ IF stripe[proc[x].sub].fee THEN Goto(x, proc[x], "completed_fee") ELSE Return(x)
    /\ UNCHANGED <<plans, billing, stripe, rows, events, sent, hist>>

CompletedFee(x) ==
    /\ At(x, "completed_fee")
    /\ LET u == proc[x].user IN WriteProfile(u, [profiles[u] EXCEPT !.fee = TRUE])
    /\ Return(x)
    /\ UNCHANGED <<plans, billing, stripe, rows, events, sent, hist>>

HasRow(s) == rows[s].status # "none"

\* Mutant: only the notice of cancellation is taken over.
UpdatedRowNotice(x) ==
    /\ At(x, "updated_row")
    /\ rows' = IF HasRow(proc[x].sub)
               THEN [rows EXCEPT ![proc[x].sub].atEnd = proc[x].flag] ELSE rows
    /\ Goto(x, proc[x], "updated_profile")
    /\ UNCHANGED <<plans, profiles, billing, stripe, events, sent, hist>>

UpdatedRow(x) ==
    /\ At(x, "updated_row")
    /\ LET s == proc[x].sub
       IN  rows' = IF HasRow(s)
                   THEN [rows EXCEPT ![s].status = proc[x].status, ![s].atEnd = proc[x].flag]
                   ELSE rows
    /\ Goto(x, proc[x], "updated_profile")
    /\ UNCHANGED <<plans, profiles, billing, stripe, events, sent, hist>>

\* The kind of the plan is not asked for: an athlete plan bought by a coach
\* switches the coach's profile too.
UpdatedProfile(x) ==
    /\ At(x, "updated_profile")
    /\ LET u == rows[proc[x].sub].user
       IN  CASE u # None /\ proc[x].status = "active" ->
                    WriteProfile(u, [profiles[u] EXCEPT !.active = TRUE])
             [] u # None /\ proc[x].status \in {"canceled", "unpaid", "past_due"} ->
                    WriteProfile(u, [profiles[u] EXCEPT !.active = FALSE])
             [] OTHER -> UNCHANGED profiles
    /\ Return(x)
    /\ UNCHANGED <<plans, billing, stripe, rows, events, sent, hist>>

DeletedRow(x) ==
    /\ At(x, "deleted_row")
    /\ LET s == proc[x].sub
       IN  rows' = IF HasRow(s)
                   THEN [rows EXCEPT ![s].status = "canceled", ![s].deleted = TRUE]
                   ELSE rows
    /\ Goto(x, proc[x], "deleted_profile")
    /\ UNCHANGED <<plans, profiles, billing, stripe, events, sent, hist>>

\* Mutant: only the row is closed.
DeletedKeepsProfile(x) ==
    /\ At(x, "deleted_profile")
    /\ Return(x)
    /\ UNCHANGED <<plans, profiles, billing, stripe, rows, events, sent, hist>>

DeletedProfile(x) ==
    /\ At(x, "deleted_profile")
    /\ LET row == rows[proc[x].sub]
       IN  IF row.user # None /\ plans[row.plan] = "COACH"
           THEN WriteProfile(row.user, [profiles[row.user] EXCEPT !.active = FALSE])
           ELSE UNCHANGED profiles
    /\ Return(x)
    /\ UNCHANGED <<plans, billing, stripe, rows, events, sent, hist>>

\* An exception, or the end of the process, between two awaits.
Stop(x) ==
    /\ Faults
    /\ ~At(x, "idle")
    /\ hist' = [hist EXCEPT !.stopped = TRUE]
    /\ Return(x)
    /\ UNCHANGED <<plans, profiles, billing, stripe, rows, events, sent>>

-----------------------------------------------------------------------------
(* Stripe and the bank. *)

StripeOnly == UNCHANGED <<plans, profiles, billing, rows, proc, hist>>

PaySession(s) == /\ stripe[s].status = "open"
                 /\ Happens(s, [stripe[s] EXCEPT !.status = "active"], "completed")
                 /\ StripeOnly

\* A renewal is refused, tried again, or given up.
Renewal(s) == /\ \/ stripe[s].status = "active" /\ ~stripe[s].atEnd
                 \/ stripe[s].status \in {"past_due", "unpaid"}
              /\ \E st \in {"active", "past_due", "unpaid"} :
                    Happens(s, [stripe[s] EXCEPT !.status = st], "updated")
              /\ StripeOnly

\* The period of a cancelled subscription ends, or the last retry fails.
Ends(s) == /\ stripe[s].status = "active" => stripe[s].atEnd
           /\ stripe[s].status \in {"active", "past_due", "unpaid"}
           /\ Happens(s, [stripe[s] EXCEPT !.status = "canceled"], "deleted")
           /\ StripeOnly

StripeActs == \/ \E s \in Subs : PaySession(s) \/ Renewal(s) \/ Ends(s)

-----------------------------------------------------------------------------
Call(x) ==
    \/ \E u \in Users, p \in Plans, e \in Endpoints : CheckoutRead(x, u, p, e)
    \/ \E u \in Users : CancelRead(x, u)

Continue(x) ==
    \/ CheckoutCustomer(x)   \/ CheckoutSession(x)
    \/ CancelStripe(x)       \/ CancelWrite(x)
    \/ CompletedRetrieve(x)  \/ CompletedCreate(x)
    \/ CompletedActivate(x)  \/ CompletedFee(x)
    \/ UpdatedRow(x)         \/ UpdatedProfile(x)
    \/ DeletedRow(x)         \/ DeletedProfile(x)

Next ==
    \/ \E p \in Plans, k \in PlanKinds : CreateOrUpdatePlan(p, k)
    \/ \E x \in Requests : Call(x)
    \/ \E x \in Hooks, e \in events : Deliver(x, e)
    \/ \E x \in Procs : Continue(x) \/ Stop(x)
    \/ \E c \in Coaches : SetupProfile(c) \/ UpdateUser(c)
    \/ StripeActs

Spec == Init /\ [][Next]_vars

\* The process goes on with what it began, and Stripe repeats a delivery until
\* it is accepted, and then not for ever.  Nobody has to subscribe, pay or cancel.
Fairness == /\ \A x \in Procs : WF_vars(Continue(x))
            /\ SF_vars(\E x \in Hooks, e \in events : Deliver(x, e) /\ e \notin events')

FairSpec == Spec /\ Fairness

-----------------------------------------------------------------------------
SubTypeOK ==
    /\ plans \in [Plans -> PlanKind]
    /\ profiles \in [Coaches -> ProfileRow]
    /\ billing \subseteq Users
    /\ stripe \in [Subs -> StripeSub]
    /\ rows \in [Subs -> SubRow]
    /\ events \subseteq Event
    /\ sent \in 0..MaxEvents
    /\ proc \in [Procs -> Local]
    /\ hist \in Hist

Settled == events = {} /\ \A x \in Procs : At(x, "idle")

Paid(s) == stripe[s].status \notin {"none", "open"}

\* s is the only subscription coach c ever paid for, and it is a coach's.
Sole(c, s) == /\ Paid(s)
              /\ stripe[s].user = c
              /\ plans[stripe[s].plan] = "COACH"
              /\ \A r \in Subs : Paid(r) /\ stripe[r].user = c => r = s

\* The coach had a profile when he paid, plans kept their kind, no handler stopped.
Regular(c) == /\ profiles[c].exists
              /\ c \notin hist.late
              /\ ~hist.stopped
              /\ ~hist.replanned

\* Once every event of a subscription has been handled its row says what Stripe
\* says, whatever the cancel call wrote in between from Stripe's answer.
RowsFollowStripe ==
    Settled /\ ~hist.stopped =>
        \A s \in Subs : Paid(s) => /\ rows[s].status = stripe[s].status
                                   /\ rows[s].atEnd = stripe[s].atEnd
                                   /\ rows[s].deleted = (stripe[s].status = "canceled")

\* A profile counts the registration fee as paid, and setupProfile lets its
\* coach through, only after a session whose invoice had the fee on it.
FeeWasCharged ==
    \A c \in Coaches :
        profiles[c].fee \/ profiles[c].setUp =>
            \E s \in Subs : Paid(s) /\ stripe[s].user = c /\ stripe[s].fee

\* A paid subscription makes the profile active unless it fails meanwhile, and
\* after it has ended the profile is withdrawn for good.
ProfileCatchesUp ==
    \A c \in Coaches, s \in Subs :
        /\ Sole(c, s) /\ Regular(c) /\ stripe[s].status = "active" ~>
              ~Sole(c, s) \/ ~Regular(c) \/ stripe[s].status # "active" \/ profiles[c].active
        /\ Sole(c, s) /\ Regular(c) /\ stripe[s].status = "canceled" ~>
              [](~Sole(c, s) \/ ~Regular(c) \/ ~profiles[c].active)
=============================================================================
