-------------------------- MODULE MCBookingPayment --------------------------
(* Instances of BookingPayment for TLC. *)
EXTENDS BookingPayment, TLC

\* A single session costs 2; a package of two costs 4, that is 2 a session.
MCSizes == {0, 2}
MCSingles == {0}
MCPrice == [n \in MCSizes |-> IF n = 0 THEN 2 ELSE 4]

\* The coach may move a booking to any slot.
MCMoves == Slots \X Slots

\* Bound: behaviours in which a booking was moved are followed until the first
\* validation, which does not look at the date.
MovedUntilValidated == hist.moved = {} \/ \A b \in Bookings : hist.uses[b] = 0

Symm == Permutations(Slots) \cup Permutations(Bookings) \cup Permutations(Payments)
            \cup Permutations(Requests)
=============================================================================
