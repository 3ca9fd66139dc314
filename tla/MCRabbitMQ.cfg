SPECIFICATION FairSpec
CONSTANTS
  w1 = w1
  w2 = w2
  Messages <- ThreeMessages
  Workers = {w1, w2}
  MaxAttempts <- OneAndTwo
  Rejected = {}
  Undecodable <- OnlyThree
  MaxFailures = 1
  MaxFaults = 2
  MaxRestarts = 1
  None = None
INVARIANTS TypeOK NoLoss OnePlace NoDuplicateWithoutFault
PROPERTIES EventuallySettled ContractSpec
CHECK_DEADLOCK FALSE
