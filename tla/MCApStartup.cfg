CONSTANTS
  Aps <- MCAps
  MaxCpu <- MCMaxCpu
  Launches <- MCLaunches
  Timely = TRUE
SPECIFICATION FairSpec
INVARIANTS
  TypeOK
  OrderedIdsUnique
  AllAcceptedBeforeXmon
  CallbackSet
PROPERTIES
  AllReachXmon
  LaunchSpec
\* every processor ends up in xmon
CHECK_DEADLOCK FALSE
