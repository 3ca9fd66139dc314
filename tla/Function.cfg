SPECIFICATION FairSpec
CONSTANTS
  Builds <- TwoBuilds
  Configs = {c1, c2}
  Names <- OneName
  Entries <- OneEntry
  Policies <- TwoPolicies
  Crds = {"shipped", "described"}
  MaxEdits = 2
  MaxFaults = 2
  None = None
INVARIANTS TypeOK PublishedAfterBuild RecordSound VerdictSound
PROPERTIES RecordFreezes FailureReported PublishedEventually
CHECK_DEADLOCK FALSE
