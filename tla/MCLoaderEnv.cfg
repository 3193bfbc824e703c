CONSTANTS
  HeapBase = 8
  HeapBytes = 50
  Width = 59
  Alignment = 2
  PageSize = 8
  Requests <- MCRequests
  PageRequests <- MCPageRequests
  PdptUsed = 2
  Gdts <- MCGdts
  CpuStateSize = 6
  GuestSize = 2
  MapEntry = 12
  TableEntry = 6
  DescSizes = {12, 10}
  Maps <- MCMaps
  Granule = 4
  Descriptors <- MCDescriptors
  Processors <- MCProcessors
  IoBases = {0, 1016}
  Machines <- MCMachines
SPECIFICATION Spec
INVARIANT
  HeapTypeOK
  IdentityMapped
  SegmentsThere
  GuestReturns
  TableFaithful
PROPERTY
  ArenaSpec
\* a full heap answers every request with NULL
CHECK_DEADLOCK FALSE
