SPECIFICATION MCSpec
CONSTANTS
  Clock <- MCClock
  Counts <- MCCounts
  MaxWrites = 2
  FrameNumbers <- MCFrameNumbers
  Spare <- MCSpare
  Levels <- MCLevels
  Parts = {"picture", "packs", "sound", "quant"}
  Patterns <- MCPatterns
  Segments <- MCSegments
  QuantPasses = {1, 2, 3}
  StaticQnos = {0, 1, 2}
CHECK_DEADLOCK FALSE
INVARIANT TypeOK
INVARIANT NothingMissing
INVARIANT VersionsAgree
INVARIANT PixelsComeBack
PROPERTY CellsPaintedOnce
INVARIANT StampsComeBack
INVARIANT SoundIsBack
INVARIANT ErrorsHidden
INVARIANT Mixed4
INVARIANT QuantFits
INVARIANT CoefficientsComeBack
