---------------------------- MODULE MCMarketplace ----------------------------
(* Instance of Marketplace for TLC. *)
EXTENDS Marketplace, TLC

\* Orders and cart rows are keys only.
Symm == Permutations(Orders) \cup Permutations(Rows)
=============================================================================
