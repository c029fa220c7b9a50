----------------------------- MODULE MCCoachSide ----------------------------
(***************************************************************************)
(* Subscriptions and PayoutAccounts for TLC.  The two share no state, so   *)
(* each is run while the other one rests: the states of the components add *)
(* up instead of multiplying.                                              *)
(***************************************************************************)
EXTENDS Subscriptions, PayoutAccounts, TLC

MCInit == Init /\ PayoutInit

\* Bound: a profile that comes after the payment comes when its event was handled
\* and nothing else has happened.
LateBound == hist'.late # hist.late => sent = 1 /\ events = {} /\ \A x \in Procs : At(x, "idle")

MCNext == \/ Next /\ LateBound /\ PayoutInit /\ UNCHANGED payoutVars
          \/ PayoutNext /\ Init /\ UNCHANGED vars

MCSpec == MCInit /\ [][MCNext]_<<vars, payoutVars>> /\ Fairness

CoachTypeOK == SubTypeOK /\ PayoutTypeOK
=============================================================================
