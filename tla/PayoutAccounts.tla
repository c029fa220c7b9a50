--------------------------- MODULE PayoutAccounts ---------------------------
(***************************************************************************)
(* The Stripe Connect accounts of coaches.                                 *)
(*   src/src/modules/payment/stripe/connect.controller.ts,                 *)
(*   the account check and the transfer of validateBookingToken in         *)
(*     src/src/modules/bookings/bookings.service.ts.                       *)
(***************************************************************************)
EXTENDS Integers, FiniteSets

CONSTANTS
    Payees,         \* coaches with a profile
    Accounts,       \* Stripe Connect account ids
    Calls,          \* API calls that may be in flight at one time
    NoAccount,      \* SQL NULL in stripe_account_id
    TwoOnboardings  \* may two onboard calls of one coach overlap?

ASSUME NoAccountIsNoKey == NoAccount \notin Accounts \cup Payees
ASSUME OnboardingsBoolean == TwoOnboardings \in BOOLEAN

VARIABLES
    payee,      \* coach_profiles: stripe_account_id and stripe_account_status
    accounts,   \* the accounts at Stripe
    calls       \* the API calls in flight

payoutVars == <<payee, accounts, calls>>

PayeeRow == [account : Accounts \cup {NoAccount},
             connect : {"none", "pending", "complete"}]

AccountRow == [owner   : Payees \cup {NoAccount},
               linked  : BOOLEAN,      \* the coach got a link to set it up
               enabled : BOOLEAN,      \* charges_enabled and payouts_enabled
               funded  : BOOLEAN]      \* a transfer went to it

CallLocal == [pc : {"idle", "onboard_read", "onboard_create", "onboard_write",
                    "status_write", "payout_transfer"},
              c : Payees \cup {NoAccount}, account : Accounts \cup {NoAccount},
              on : BOOLEAN]

NoCall == [pc |-> "idle", c |-> NoAccount, account |-> NoAccount, on |-> FALSE]

PayoutInit ==
    /\ payee = [c \in Payees |-> [account |-> NoAccount, connect |-> "none"]]
    /\ accounts = [a \in Accounts |-> [owner |-> NoAccount, linked |-> FALSE,
                                       enabled |-> FALSE, funded |-> FALSE]]
    /\ calls = [x \in Calls |-> NoCall]

CallAt(x, pc) == calls[x].pc = pc

CallGoto(x, l, pc) == calls' = [calls EXCEPT ![x] = [l EXCEPT !.pc = pc]]

CallEnd(x) == calls' = [calls EXCEPT ![x] = NoCall]

-----------------------------------------------------------------------------
OnboardCalls(c) == {x \in Calls : /\ calls[x].c = c
                                  /\ calls[x].pc \in {"onboard_read", "onboard_create",
                                                      "onboard_write"}}

OnboardBegin(x, c) ==
    /\ CallAt(x, "idle")
    /\ TwoOnboardings \/ OnboardCalls(c) = {}
    /\ CallGoto(x, [NoCall EXCEPT !.c = c], "onboard_read")
    /\ UNCHANGED <<payee, accounts>>

\* Mutant: an account is created at every call.
OnboardAlwaysCreates(x) ==
    /\ CallAt(x, "onboard_read")
    /\ CallGoto(x, calls[x], "onboard_create")
    /\ UNCHANGED <<payee, accounts>>

\* A coach who has an account is sent to Stripe with a link for that one.
OnboardRead(x) ==
    /\ CallAt(x, "onboard_read")
    /\ LET a == payee[calls[x].c].account
       IN  IF a = NoAccount
           THEN CallGoto(x, calls[x], "onboard_create") /\ UNCHANGED accounts
           ELSE CallEnd(x) /\ accounts' = [accounts EXCEPT ![a].linked = TRUE]
    /\ UNCHANGED payee

OnboardCreate(x) ==
    /\ CallAt(x, "onboard_create")
    /\ \E a \in Accounts :
          /\ accounts[a].owner = NoAccount
          /\ accounts' = [accounts EXCEPT ![a].owner = calls[x].c]
          /\ CallGoto(x, [calls[x] EXCEPT !.account = a], "onboard_write")
    /\ UNCHANGED payee

OnboardWrite(x) ==
    /\ CallAt(x, "onboard_write")
    /\ payee' = [payee EXCEPT ![calls[x].c] = [account |-> calls[x].account,
                                               connect |-> "pending"]]
    /\ accounts' = [accounts EXCEPT ![calls[x].account].linked = TRUE]
    /\ CallEnd(x)

StatusRead(x, c) ==
    /\ CallAt(x, "idle")
    /\ payee[c].account # NoAccount
    /\ CallGoto(x, [NoCall EXCEPT !.c = c, !.on = accounts[payee[c].account].enabled],
                "status_write")
    /\ UNCHANGED <<payee, accounts>>

\* Mutant: Stripe's word is stored, which is none of the column's.
StatusWriteRaw(x) ==
    /\ CallAt(x, "status_write")
    /\ payee' = [payee EXCEPT ![calls[x].c].connect = IF calls[x].on THEN "enabled" ELSE "pending"]
    /\ CallEnd(x)
    /\ UNCHANGED accounts

StatusWrite(x) ==
    /\ CallAt(x, "status_write")
    /\ payee' = [payee EXCEPT ![calls[x].c].connect =
                    IF calls[x].on THEN "complete" ELSE "pending"]
    /\ CallEnd(x)
    /\ UNCHANGED accounts

\* Stripe is asked whether the account is ready, the column is not.
PayoutCheck(x, c) ==
    /\ CallAt(x, "idle")
    /\ payee[c].account # NoAccount
    /\ accounts[payee[c].account].enabled
    /\ CallGoto(x, [NoCall EXCEPT !.c = c, !.account = payee[c].account], "payout_transfer")
    /\ UNCHANGED <<payee, accounts>>

PayoutTransfer(x) ==
    /\ CallAt(x, "payout_transfer")
    /\ accounts' = [accounts EXCEPT ![calls[x].account].funded = TRUE]
    /\ CallEnd(x)
    /\ UNCHANGED payee

\* The process ends, or a call to Stripe fails, between two awaits.
CallStop(x) == ~CallAt(x, "idle") /\ CallEnd(x) /\ UNCHANGED <<payee, accounts>>

\* The coach completes the onboarding, or Stripe restricts the account.
StripeSetsEnabled(a, on) ==
    /\ accounts[a].linked
    /\ accounts[a].enabled # on
    /\ accounts' = [accounts EXCEPT ![a].enabled = on]
    /\ UNCHANGED <<payee, calls>>

PayoutNext ==
    \/ \E x \in Calls, c \in Payees :
          OnboardBegin(x, c) \/ StatusRead(x, c) \/ PayoutCheck(x, c)
    \/ \E x \in Calls : \/ OnboardRead(x) \/ OnboardCreate(x) \/ OnboardWrite(x)
                        \/ StatusWrite(x) \/ PayoutTransfer(x) \/ CallStop(x)
    \/ \E a \in Accounts, on \in BOOLEAN : StripeSetsEnabled(a, on)

PayoutSpec == PayoutInit /\ [][PayoutNext]_payoutVars

-----------------------------------------------------------------------------
PayoutTypeOK ==
    /\ payee \in [Payees -> PayeeRow]
    /\ accounts \in [Accounts -> AccountRow]
    /\ calls \in [Calls -> CallLocal]

\* Whatever onboarding was broken off or repeated, an account its coach was sent
\* to set up, or that ever got a transfer, is the one on file: no coach fills in
\* one account and is paid to another.  (Two onboard calls of one coach that
\* overlap do create two accounts.)
OnboardedAccountIsPaid ==
    \A a \in Accounts : accounts[a].linked \/ accounts[a].funded =>
                            payee[accounts[a].owner].account = a
=============================================================================
