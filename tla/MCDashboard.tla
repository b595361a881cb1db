---------------------------- MODULE MCDashboard ----------------------------
(***************************************************************************)
(* Dashboard for TLC, cut where nothing is left to check.                  *)
(***************************************************************************)
EXTENDS Dashboard

\* Neither history is ever taken back: where both are set, BehindWithReason,
\* AccusedWithReason and CatchesUp hold for good, and OnlyRises is not claimed.
StillClaims == ~(excused /\ suspect)

=============================================================================
