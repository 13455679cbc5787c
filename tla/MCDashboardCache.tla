--------------------------- MODULE MCDashboardCache --------------------------
(* Instances of DashboardCache for TLC.                                    *)
EXTENDS DashboardCache
=============================================================================
