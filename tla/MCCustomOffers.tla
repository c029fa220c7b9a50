--------------------------- MODULE MCCustomOffers ---------------------------
(* Instances of CustomOffers for TLC. *)
EXTENDS CustomOffers, TLC

\* A single session costs 2.
MCSingles == {0}
MCPrice == [n \in MCSingles |-> 2]

\* The bound on handlers in flight at one time, over both tables.
MaxInFlight == 2

InFlight == {y \in Procs : proc[y].pc # "idle"} \cup {x \in OfferProcs : act[x].pc # "idle"}

AtMostMaxInFlight == Cardinality(InFlight) <= MaxInFlight

Symm == Permutations(Payments) \cup Permutations(Offers)
=============================================================================
