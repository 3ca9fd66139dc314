SPECIFICATION FairSpec
CONSTANTS
  w1 = w1
  w2 = w2
  Messages <- ThreeMessages
  Workers = {w1, w2}
  MaxAttempts <- OneAndTwo
  Rejected <- OnlyTwo
  Undecodable <- OnlyThree
  MaxFailures = 2
  MaxFaults = 2
  None = None
INVARIANTS TypeOK LossConfined NoCopies NeverDeadLettered
PROPERTIES NoStarvation ContractSpec
CHECK_DEADLOCK FALSE
