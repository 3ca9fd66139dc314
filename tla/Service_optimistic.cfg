SPECIFICATION Spec
CONSTANTS
  Engines = {"knative"}
  MaxEdits = 1
  MaxReports = 3
  MaxFaults = 2
  None = None
INVARIANT NotOptimistic

CHECK_DEADLOCK FALSE
