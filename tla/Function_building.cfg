SPECIFICATION FairSpec
CONSTANTS
  Builds <- OneBuild
  Configs = {c1}
  Names <- OneName
  Entries <- OneEntry
  Policies <- OpenOnly
  Crds = {"described"}
  MaxEdits = 0
  MaxFaults = 1
  None = None
PROPERTY BuildingEnds
CHECK_DEADLOCK FALSE
