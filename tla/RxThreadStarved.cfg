SPECIFICATION Spec
CONSTANTS
  N = 2
  Outcomes = {"ok"}
  MaxQueue = 1
PROPERTY TimeoutIfNothingReady
CHECK_DEADLOCK FALSE
