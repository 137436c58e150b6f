-------------------------- MODULE MCTerminalGateway --------------------------
(* TLC instances of TerminalGateway.                                         *)
EXTENDS TerminalGateway, TLC

\* Connections and threads are interchangeable; for the runs without liveness.
Symmetry == Permutations(Conns) \cup Permutations(Threads)
=============================================================================
