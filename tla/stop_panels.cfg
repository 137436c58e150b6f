\* Two targets, four clicks on Stop and two on Confirm.
SPECIFICATION FairSpec
CONSTANTS
  Targets = {a, b}
  MaxRequests = 4
  MaxRuns = 2
  None = None
INVARIANTS TypeOK NeverBlind
PROPERTIES DialogFrees ImplementsConfirmedStop
CHECK_DEADLOCK FALSE
