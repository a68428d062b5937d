SPECIFICATION Spec
CONSTANTS
  N = 2
  Outcomes = {"ok", "skipped", "noMtu", "noSocket", "noBind"}
  MaxQueue = 2
INVARIANTS TypeOK ListExact HeldOnlyAgain ForeignNeverLeft
PROPERTIES HeardPortsRun QuietPortsRun
CHECK_DEADLOCK FALSE
