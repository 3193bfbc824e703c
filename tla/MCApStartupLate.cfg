CONSTANTS
  Aps <- LateAps
  MaxCpu <- LateMaxCpu
  Launches <- PreOsOnly
  Timely = FALSE
SPECIFICATION Spec
INVARIANTS
  LateSharesOnlyFirst
\* processors stop in xmon, and a BSP that missed its count waits for ever
CHECK_DEADLOCK FALSE
