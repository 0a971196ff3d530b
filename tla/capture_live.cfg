CONSTANTS
  PalPackets = 2
  NtscPackets = 1
  MaxBufferBlocks = 1
  MaxAlloc = 3
  StartFrame = 0
  CapNumFrames <- MCUnlimited
  CamFrames = 1
  Endless = TRUE
  MaxLost = 0
  MaxCount = 2
  Spurious = TRUE
SPECIFICATION FairSpec
PROPERTY AnnouncedFrameWritten
CHECK_DEADLOCK FALSE
