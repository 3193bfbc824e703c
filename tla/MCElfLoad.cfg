CONSTANTS
  Top = 15
  Base = 4
  Space = 10
  Page = 2
  SizeMod = 64
  WordMod = 32
  InfoMod = 32
  MaxPhdrs = 4
  Images <- MCImages
SPECIFICATION EitherFairSpec
INVARIANTS
  TypeOK
  Confined
  LoadedRight
  LoadedRight32
PROPERTIES
  SoundImagesLoad
  Sound32ImagesLoad
\* the loader returns
CHECK_DEADLOCK FALSE
