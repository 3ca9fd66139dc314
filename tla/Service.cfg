SPECIFICATION FairSpec
CONSTANTS
  Engines = {"knative", "keda"}
  MaxEdits = 1
  MaxReports = 3
  MaxFaults = 2
  None = None
INVARIANTS TypeOK ObservedApplied
PROPERTIES AppliesForward TimedUnlessOvertaken Converges
CHECK_DEADLOCK FALSE
