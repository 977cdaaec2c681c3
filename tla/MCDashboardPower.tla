--------------------------- MODULE MCDashboardPower ---------------------------
(* The battery policy for TLC; a .cfg has no negative numbers. *)
EXTENDS DashboardPower

MCNoise == {-10}
=============================================================================
