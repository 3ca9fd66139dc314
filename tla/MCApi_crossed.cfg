SPECIFICATION Spec
CONSTANTS
  t1 = t1
  t2 = t2
  c1 = c1
  c2 = c2
  Threads = {t1, t2}
  Targets = {c1, c2}
  Home = Home
  Keys = {"a", "b"}
  Records <- AllRecords
  MaxPuts = 2
  MaxFaults = 0
  Torn = Torn
  None = None
SYMMETRY Symmetry
INVARIANT RightCluster
CHECK_DEADLOCK FALSE
