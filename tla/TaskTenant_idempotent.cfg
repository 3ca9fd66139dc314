SPECIFICATION Spec
CONSTANTS
  MinReplicas = 0
  MaxReplicas = 2
  MaxEdits = 0
  MaxBacklogs = 1
  MaxFaults = 1
  None = None
PROPERTY Idempotent
CHECK_DEADLOCK FALSE
