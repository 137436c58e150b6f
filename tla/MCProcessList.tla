--------------------------- MODULE MCProcessList ---------------------------
(* The TLC instance of ProcessList.                                        *)
EXTENDS ProcessList, TLC

\* Processes are interchangeable.
Symmetry == Permutations(Pids)
=============================================================================
