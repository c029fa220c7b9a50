------------------------------- MODULE Packages ------------------------------
(***************************************************************************)
(* Session packages: the coach makes, changes and deletes them while       *)
(* athletes book them.                                                     *)
(*   src/src/modules/bookings/bookings.service.ts: createSessionPackage,   *)
(*     updateSessionPackage, deleteSessionPackage, bookAppointment;        *)
(*   the payment_intent.amount_capturable_updated case of                  *)
(*     src/src/modules/payment/stripe/stripe.controller.ts.                *)
(* BookingPayment follows the payment of a booking through; here it is     *)
(* followed to its hold, with the price and the number of sessions it is   *)
(* for, and the deletion of a package takes its bookings with it.          *)
(***************************************************************************)
EXTENDS Integers, FiniteSets

CONSTANTS
    Bundles,        \* primary keys of sessions_packages
    SoldRows,       \* primary keys of the bookings of one slot
    Charges,        \* payment_transactions, each with its Stripe intent
    Buyers,         \* calls of bookAppointment that may be in flight at one time
    PackageTerms,   \* total_price and number_of_sessions of packages
    MaxTerms,       \* bound on the terms a package ever has
    Single,         \* the same of a session without a package
    NoKey           \* SQL NULL

ASSUME NoKeyIsNoKey == NoKey \notin Bundles \cup SoldRows \cup Charges
ASSUME TermsAreNat == PackageTerms \cup {Single} \subseteq [price : Nat, count : Nat]
ASSUME TermsBound == MaxTerms \in Nat

VARIABLES
    packages,   \* the packages there are, with their terms
    sold,       \* the bookings there are
    charges,    \* the charges there are
    buying,     \* the calls in flight
    was         \* history: terms a package ever had, keys of bookings ever used, bookings
                \* at which a call met another call or the webhook,
                \* and no later call put it right

packVars == <<packages, sold, charges, buying, was>>

Terms == PackageTerms \cup {Single}

\* The terms of a package are copied into its bookings.
SoldRow == [bundle : Bundles \cup {NoKey},
            terms  : [price : Nat, count : Nat],
            state  : {"PENDING", "CONFIRMED"},
            charge : Charges \cup {NoKey}]

Charge == [amount : Nat, state : {"open", "held", "canceled"}, secret : BOOLEAN,
           event : {"none", "sent", "handled"}]

Buy == [pc : {"idle", "buy_write", "buy_release", "buy_pay", "buy_link"},
        bundle : Bundles \cup {NoKey}, terms : Terms,
        b : SoldRows \cup {NoKey}, c : Charges \cup {NoKey},
        alone : BOOLEAN]    \* history: nobody met it

NoBuy == [pc |-> "idle", bundle |-> NoKey, terms |-> Single, b |-> NoKey, c |-> NoKey,
          alone |-> TRUE]

\* A table is a function on the keys of its rows.
Insert(t, k, row) == [j \in DOMAIN t \cup {k} |-> IF j = k THEN row ELSE t[j]]
Without(t, ks) == [j \in DOMAIN t \ ks |-> t[j]]

PackInit ==
    /\ packages = << >> /\ sold = << >> /\ charges = << >>
    /\ buying = [x \in Buyers |-> NoBuy]
    /\ was = [ever |-> [k \in Bundles |-> {}], used |-> {}, odd |-> {}]

BuyAt(x, pc) == buying[x].pc = pc
BuyEnds(x) == buying' = [buying EXCEPT ![x] = NoBuy]
Buying(b) == {x \in Buyers : b # NoKey /\ ~BuyAt(x, "idle") /\ buying[x].b = b}
MetAt(b) == [x \in Buyers |-> [buying[x] EXCEPT !.alone = @ /\ x \notin Buying(b)]]

-----------------------------------------------------------------------------
(* The coach. *)

CreatePackage(k, t) ==
    /\ was.ever[k] = {}
    /\ packages' = Insert(packages, k, t)
    /\ was' = [was EXCEPT !.ever[k] = {t}]
    /\ UNCHANGED <<sold, charges, buying>>

\* What is not given stays: the price or the number may be changed alone.
UpdatePackage(k, t) ==
    /\ k \in DOMAIN packages
    /\ Cardinality(was.ever[k] \cup {t}) <= MaxTerms
    /\ packages' = [packages EXCEPT ![k] = t]
    /\ was' = [was EXCEPT !.ever[k] = @ \cup {t}]
    /\ UNCHANGED <<sold, charges, buying>>

\* The schema deletes the bookings of the package with it, paid ones too; their
\* holds stay at Stripe.
DeletePackage(k) ==
    /\ k \in DOMAIN packages
    /\ packages' = Without(packages, {k})
    /\ sold' = Without(sold, {b \in DOMAIN sold : sold[b].bundle = k})
    /\ UNCHANGED <<charges, buying, was>>

-----------------------------------------------------------------------------
(* bookAppointment: a new row, or the PENDING one of the slot again.       *)

BuyRead(x, k, b) ==
    /\ BuyAt(x, "idle")
    /\ k # NoKey => k \in DOMAIN packages
    /\ IF b = NoKey THEN sold = << >> ELSE sold[b].state = "PENDING"
    /\ buying' = [MetAt(b) EXCEPT ![x] =
          [NoBuy EXCEPT !.pc = "buy_write", !.bundle = k, !.b = b, !.alone = Buying(b) = {},
                        !.terms = IF k = NoKey THEN Single ELSE packages[k]]]
    /\ was' = [was EXCEPT !.odd = @ \cup {c \in {b} : Buying(c) # {}}]
    /\ UNCHANGED <<packages, sold, charges>>

\* The row and the package it names must still be there.
BuyFails(x) ==
    /\ BuyAt(x, "buy_write")
    /\ \/ buying[x].bundle \notin DOMAIN packages \cup {NoKey}
       \/ buying[x].b \notin DOMAIN sold \cup {NoKey}
    /\ BuyEnds(x)
    /\ UNCHANGED <<packages, sold, charges, was>>

\* Mutant: the number of sessions of the booking is not overwritten.
BuyWriteKeepingCount(x) ==
    /\ BuyAt(x, "buy_write")
    /\ buying[x].bundle \in DOMAIN packages \cup {NoKey}
    /\ \E b \in SoldRows :
          /\ IF buying[x].b = NoKey THEN b \notin was.used ELSE b \in DOMAIN sold \cap {buying[x].b}
          /\ sold' = Insert(sold, b,
                [bundle |-> buying[x].bundle, state |-> "PENDING",
                 terms  |-> [buying[x].terms EXCEPT !.count = IF b \in DOMAIN sold THEN sold[b].terms.count
                                                              ELSE @],
                 charge |-> IF b \in DOMAIN sold THEN sold[b].charge ELSE NoKey])
          /\ buying' = [buying EXCEPT ![x].b = b, ![x].pc = "buy_release",
                                      ![x].c = IF b \in DOMAIN sold THEN sold[b].charge ELSE NoKey]
          /\ was' = [was EXCEPT !.used = @ \cup {b}]
    /\ UNCHANGED <<packages, charges>>

\* A row that is written again keeps its charge until the new one is linked.
BuyWrite(x) ==
    /\ BuyAt(x, "buy_write")
    /\ buying[x].bundle \in DOMAIN packages \cup {NoKey}
    /\ \E b \in SoldRows :
          /\ IF buying[x].b = NoKey THEN b \notin was.used ELSE b \in DOMAIN sold \cap {buying[x].b}
          /\ sold' = Insert(sold, b,
                [bundle |-> buying[x].bundle, terms |-> buying[x].terms, state |-> "PENDING",
                 charge |-> IF b \in DOMAIN sold THEN sold[b].charge ELSE NoKey])
          /\ buying' = [buying EXCEPT ![x].b = b, ![x].pc = "buy_release",
                                      ![x].c = IF b \in DOMAIN sold THEN sold[b].charge ELSE NoKey]
          /\ was' = [was EXCEPT !.used = @ \cup {b}]
    /\ UNCHANGED <<packages, charges>>

\* The charge of the row as it was written: released if there is one and Stripe agrees.
BuyRelease(x) ==
    /\ BuyAt(x, "buy_release")
    /\ LET c == buying[x].c
       IN  charges' \in {charges} \cup
               (IF c = NoKey THEN {} ELSE {[charges EXCEPT ![c].state = "canceled"]})
    /\ buying' = [buying EXCEPT ![x].pc = "buy_pay"]
    /\ UNCHANGED <<packages, sold, was>>

\* The intent is for the price the call wrote.
BuyPay(x) ==
    /\ BuyAt(x, "buy_pay")
    /\ \E c \in Charges \ DOMAIN charges :
          /\ charges' = Insert(charges, c, [amount |-> buying[x].terms.price, state |-> "open",
                                            secret |-> FALSE, event |-> "none"])
          /\ buying' = [buying EXCEPT ![x].c = c, ![x].pc = "buy_link"]
    /\ UNCHANGED <<packages, sold, was>>

\* The client learns the secret, unless the row is gone.
BuyLink(x) ==
    /\ BuyAt(x, "buy_link")
    /\ IF buying[x].b \in DOMAIN sold
       THEN /\ sold' = [sold EXCEPT ![buying[x].b].charge = buying[x].c]
            /\ charges' = [charges EXCEPT ![buying[x].c].secret = TRUE]
       ELSE UNCHANGED <<sold, charges>>
    /\ was' = IF buying[x].alone THEN [was EXCEPT !.odd = @ \ {buying[x].b}] ELSE was
    /\ BuyEnds(x)
    /\ UNCHANGED packages

-----------------------------------------------------------------------------
(* The client pays, and the webhook confirms the booking that names the    *)
(* charge, whatever it is for by then.                                     *)

Hold(c) ==
    /\ c \in DOMAIN charges
    /\ charges[c].state = "open" /\ charges[c].secret
    /\ charges' = [charges EXCEPT ![c].state = "held", ![c].event = "sent"]
    /\ UNCHANGED <<packages, sold, buying, was>>

Confirm(c) ==
    /\ c \in DOMAIN charges
    /\ charges[c].event = "sent"
    /\ LET rows == {b \in DOMAIN sold : sold[b].charge = c}
       IN  /\ sold' = [b \in DOMAIN sold |->
                          IF b \in rows THEN [sold[b] EXCEPT !.state = "CONFIRMED"] ELSE sold[b]]
           /\ was' = [was EXCEPT !.odd = @ \cup {b \in rows : Buying(b) # {}}]
           /\ buying' = [x \in Buyers |-> [buying[x] EXCEPT !.alone =
                                              @ /\ \A b \in rows : x \notin Buying(b)]]
    /\ charges' = [charges EXCEPT ![c].event = "handled"]
    /\ UNCHANGED packages

PackNext ==
    \/ \E k \in Bundles : DeletePackage(k) \/ \E t \in PackageTerms : CreatePackage(k, t) \/ UpdatePackage(k, t)
    \/ \E x \in Buyers :
          \/ \E k \in Bundles \cup {NoKey}, b \in DOMAIN sold \cup {NoKey} : BuyRead(x, k, b)
          \/ BuyFails(x) \/ BuyWrite(x) \/ BuyRelease(x) \/ BuyPay(x) \/ BuyLink(x)
    \/ \E c \in Charges : Hold(c) \/ Confirm(c)

PackSpec == PackInit /\ [][PackNext]_packVars

-----------------------------------------------------------------------------
PackTypeOK ==
    /\ DOMAIN packages \subseteq Bundles /\ packages \in [DOMAIN packages -> PackageTerms]
    /\ DOMAIN sold \subseteq SoldRows    /\ sold \in [DOMAIN sold -> SoldRow]
    /\ DOMAIN charges \subseteq Charges  /\ charges \in [DOMAIN charges -> Charge]
    /\ buying \in [Buyers -> Buy]
    /\ was \in [ever : [Bundles -> SUBSET PackageTerms], used : SUBSET SoldRows,
               odd : SUBSET SoldRows]

\* A confirmed booking is for a price and a number of sessions that its package had
\* together at one moment, and the hold behind it is for that price: however the
\* coach changes the package, and the athlete books the slot again with another,
\* unless two calls booked it at once, or the hold was confirmed while one did.
PaidAsBooked ==
    \A b \in DOMAIN sold \ was.odd :
        sold[b].state = "CONFIRMED" =>
            /\ sold[b].bundle # NoKey => sold[b].terms \in was.ever[sold[b].bundle]
            /\ sold[b].charge # NoKey
            /\ charges[sold[b].charge].amount = sold[b].terms.price
            /\ charges[sold[b].charge].state # "open"
=============================================================================
