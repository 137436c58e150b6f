---------------------------- MODULE MCStopPanels ----------------------------
(* TLC instances of StopPanels.                                              *)
EXTENDS StopPanels, TLC

\* For the run without liveness.
Symmetry == Permutations(Targets)
=============================================================================
