-------------------------- MODULE MCTerminalSession --------------------------
(* TLC instances of TerminalSession.                                         *)
EXTENDS TerminalSession, TLC

\* Commands of one kind are interchangeable; for the run without liveness.
Symmetry == Permutations(Unknown) \cup Permutations(Blocked)
                \cup Permutations(Commands \ (Unknown \cup Blocked))
=============================================================================
