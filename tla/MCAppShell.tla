----------------------------- MODULE MCAppShell -----------------------------
(* The TLC instance of AppShell.                                           *)
EXTENDS AppShell, TLC

\* Tabs are interchangeable.
Symmetry == Permutations(Tabs)
=============================================================================
