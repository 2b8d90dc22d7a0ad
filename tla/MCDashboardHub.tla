--------------------------- MODULE MCDashboardHub ---------------------------
(***************************************************************************)
(* Instances of DashboardHub: sockets and robots are model values.         *)
(***************************************************************************)
EXTENDS DashboardHub
=============================================================================
