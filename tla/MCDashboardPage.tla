--------------------------- MODULE MCDashboardPage ---------------------------
(* Climate risks that are zero or out of range. *)
EXTENDS DashboardPage
MCOptions == [minClimateRisk |-> {0, 101}]
=============================================================================
