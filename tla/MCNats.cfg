SPECIFICATION FairSpec
CONSTANTS
  w1 = w1
  w2 = w2
  Messages <- TwoMessages
  Workers = {w1, w2}
  MaxAttempts <- OneAndTwo
  Rejected = {}
  Undecodable = {}
  MaxFailures = 2
  MaxFaults = 2
  DlqStream = TRUE
  None = None
INVARIANTS TypeOK NoSilentLoss NoDuplicateWithoutFault
PROPERTIES EventuallySettled ContractSpec
CHECK_DEADLOCK FALSE
