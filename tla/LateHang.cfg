CONSTANTS
  Aps <- TwoAps
  MaxCpu <- TwoApsMaxCpu
  Launches <- PreOsOnly
  Timely = FALSE
SPECIFICATION FairSpec
PROPERTY
  BspEntersXmon
CHECK_DEADLOCK FALSE
