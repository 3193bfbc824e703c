CONSTANTS
  Top = 14
  Low = 4
  Word = 10
  UnitsPerPage = 4
  Maps <- HighMaps
  Packages <- JustSound
  BinSize = 4
  LdrSize = 16
  RtSize = 8
  LdrBase = 3
  RtBase = 7
  MapSizes <- MCMapSizes
  HeapBase = 0
  HeapBytes = 10
  Width = 64
  Alignment = 2
  PageSize = 4
  Requests <- HeapRequests
  PageRequests <- None
  BinPages = 1
  LoaderPages = 1
  HeapPages = 1
  StartapPages = 1
  GuestPages = 0
  XmonPages = 1
  CpuStateSize = 2
  GuestSize = 2
SPECIFICATION Spec
INVARIANT
  AddressesNameRegions
CHECK_DEADLOCK FALSE
