SPECIFICATION Spec
CONSTANTS
  w1 = w1
  w2 = w2
  Messages <- TwoMessages
  Workers = {w1, w2}
  MaxAttempts <- BothTwo
  Rejected <- OnlyTwo
  Undecodable = {}
  MaxFailures = 3
  MaxFaults = 0
  None = None
INVARIANT AttemptsBounded
CHECK_DEADLOCK FALSE
