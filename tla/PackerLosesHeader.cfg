CONSTANTS
  Names <- MCNames
  CommandLines <- MCCommandLines
  Disks <- MCDisks
  BootMagics <- MCBootMagics
  LoaderBinSize = 8
  PageBytes = 4
  UIntValues = 16
  WordBytes = 1
  QuadBytes = 2
  HeaderWritesFail = TRUE
SPECIFICATION Spec
INVARIANT
  SuccessBoots
\* the tool ends
CHECK_DEADLOCK FALSE
