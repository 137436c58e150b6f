\* The shell with the terminal and three of four tabs open.
SPECIFICATION Spec
CONSTANTS
  Tabs = {t1, t2, t3, t4}
  MaxTabs = 3
  Panels = {"overview"}
  Default = "overview"
  None = None
SYMMETRY Symmetry
INVARIANTS TypeOK RememberedPanel OneTabShown LimitNotStale NothingLeftBehind
PROPERTIES OpensAsConfigured
CHECK_DEADLOCK FALSE
