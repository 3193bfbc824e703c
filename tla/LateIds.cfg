CONSTANTS
  Aps <- TwoAps
  MaxCpu <- TwoApsMaxCpu
  Launches <- PreOsOnly
  Timely = FALSE
SPECIFICATION FairSpec
INVARIANT
  OrderedIdsUnique
CHECK_DEADLOCK FALSE
