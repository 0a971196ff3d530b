CONSTANTS
  PalPackets = 3
  NtscPackets = 2
  MaxBufferBlocks = 2
  MaxAlloc = 6
  StartFrame = 1
  CapNumFrames = 3
  CamFrames = 5
  Endless = FALSE
  MaxLost = 3
  MaxCount = 2
  Spurious = TRUE
SPECIFICATION Spec
INVARIANT TypeOK
INVARIANT OneOwner
INVARIANT LosslessFramesWhole
INVARIANT SilentSpliceNeedsLoss
PROPERTY ImplementsChannel
CHECK_DEADLOCK FALSE
