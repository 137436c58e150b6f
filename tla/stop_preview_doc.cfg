\* Two targets, two clicks on Stop and one on Confirm.
SPECIFICATION Spec
SYMMETRY Symmetry
CONSTANTS
  Targets = {a, b}
  MaxRequests = 2
  MaxRuns = 1
  None = None
INVARIANTS PreviewedBeforeStop
CHECK_DEADLOCK FALSE
