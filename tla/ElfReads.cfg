CONSTANTS
  Top = 15
  Base = 4
  Space = 10
  Page = 2
  SizeMod = 64
  WordMod = 32
  InfoMod = 32
  MaxPhdrs = 4
  Images <- PackedImages
SPECIFICATION Spec
INVARIANT ReadsNoMore
CHECK_DEADLOCK FALSE
