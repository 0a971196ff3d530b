CONSTANTS
  PalPackets = 3
  NtscPackets = 2
  MaxBufferBlocks = 2
  MaxAlloc = 6
  StartFrame = 0
  CapNumFrames = 3
  CamFrames = 5
  Endless = FALSE
  MaxLost = 0
  MaxCount = 2
  Spurious = FALSE
SPECIFICATION FairSpec
PROPERTY CaptureEnds
CHECK_DEADLOCK FALSE
