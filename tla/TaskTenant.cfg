SPECIFICATION FairSpec
CONSTANTS
  MinReplicas = 0
  MaxReplicas = 2
  MaxEdits = 1
  MaxBacklogs = 2
  MaxFaults = 2
  None = None
INVARIANTS TypeOK ObservedApplied GuardedBeforeGranted
PROPERTIES Settles TaskServed
CHECK_DEADLOCK FALSE
