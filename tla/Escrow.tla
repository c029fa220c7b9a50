------------------------------- MODULE Escrow -------------------------------
(***************************************************************************)
(* What the manual-capture payments of this system promise, whichever      *)
(* handler acts on them: money is first held, then either released or      *)
(* charged, and only a charged payment is paid out or refunded.  Payments  *)
(* are made with createManualCapturePaymentIntent, capturePaymentIntent,   *)
(* cancelPaymentIntent, createTransfer and createRefund of                 *)
(* src/src/common/lib/Payment/stripe/StripePayment.ts.                     *)
(***************************************************************************)
EXTENDS Integers

CONSTANT Payments

VARIABLES
    phase,      \* of each payment
    paid,       \* amount transferred out of each payment
    refunded    \* was the charge returned?

Phase == {"none", "open", "held", "succeeded", "canceled"}

Init ==
    /\ phase = [p \in Payments |-> "none"]
    /\ paid = [p \in Payments |-> 0]
    /\ refunded = [p \in Payments |-> FALSE]

\* A payment moves along the edges of its life cycle; canceled and succeeded are final.
Moves == {<<"none", "open">>, <<"open", "held">>, <<"held", "succeeded">>,
          <<"open", "canceled">>, <<"held", "canceled">>}

Move(p, to) ==
    /\ <<phase[p], to>> \in Moves
    /\ phase' = [phase EXCEPT ![p] = to]
    /\ UNCHANGED <<paid, refunded>>

\* One transfer may draw on several payments; each of them has been charged.
PayOut(from) ==
    /\ \A p \in from : phase[p] = "succeeded"
    /\ \A p \in Payments : IF p \in from THEN paid'[p] \in Nat /\ paid'[p] >= paid[p]
                                         ELSE paid'[p] = paid[p]
    /\ UNCHANGED <<phase, refunded>>

Refund(p) ==
    /\ phase[p] = "succeeded" /\ ~refunded[p]
    /\ refunded' = [refunded EXCEPT ![p] = TRUE]
    /\ UNCHANGED <<phase, paid>>

Next ==
    \/ \E p \in Payments : (\E to \in Phase : Move(p, to)) \/ Refund(p)
    \/ \E from \in SUBSET Payments : PayOut(from)

Spec == Init /\ [][Next]_<<phase, paid, refunded>>
=============================================================================
