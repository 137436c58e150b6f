\* Every list of up to three processes.
SPECIFICATION Spec
CONSTANTS
  Pids = {p1, p2, p3}
  None = None
SYMMETRY Symmetry
INVARIANTS ListTypeOK CountedOnce MatchesReachable
CHECK_DEADLOCK FALSE
