CONSTANTS
  Top = 12
  Low = 5
  Word = 12
  UnitsPerPage = 4
  Maps <- MCMaps
  Packages <- MCPackages
  BinSize = 4
  LdrSize = 16
  RtSize = 8
  LdrBase = 3
  RtBase = 7
  MapSizes <- MCMapSizes
  HeapBase = 0
  HeapBytes = 10
  Width = 64
  Alignment = 2
  PageSize = 4
  Requests <- HeapRequests
  PageRequests <- None
  BinPages = 1
  LoaderPages = 1
  HeapPages = 1
  StartapPages = 1
  GuestPages = 0
  XmonPages = 1
  CpuStateSize = 2
  GuestSize = 2
SPECIFICATION FairSpec
INVARIANTS
  TypeOK
  RuntimeHidden
  FirmwareMemoryIntact
  ImagesIntact
  LoopsOnlyWhenBroken
  BuffersReturned
PROPERTIES
  BootSpec
  NextBootLoader
\* the boot ends in the firmware, in the loop or in a crash
CHECK_DEADLOCK FALSE
