-------------------------- MODULE MCTerminalClient --------------------------
(* The TLC instance of TerminalClient, without symmetry: its run checks       *)
(* liveness.                                                                   *)
EXTENDS TerminalClient
=============================================================================
