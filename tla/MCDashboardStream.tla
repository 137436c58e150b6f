-------------------------- MODULE MCDashboardStream --------------------------
(* TLC instances of DashboardStream, without symmetry: one run checks          *)
(* liveness, the other has threads of two kinds.                               *)
EXTENDS DashboardStream
=============================================================================
