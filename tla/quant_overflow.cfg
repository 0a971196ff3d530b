SPECIFICATION MCSpec
CONSTANTS
  Clock <- MCClock
  Counts <- MCCounts
  MaxWrites = 2
  FrameNumbers <- MCFrameNumbers
  Spare <- MCSpare
  Levels <- MCLevels
  Parts = {"quant"}
  Patterns <- MCPatterns
  Segments <- MCSegments
  QuantPasses = {1}
  StaticQnos = {0}
CHECK_DEADLOCK FALSE
INVARIANT OverflowOnlyAtZero
