CONSTANTS
  Missing = Missing
  Files <- MCOneFile
  StartFrame = 0
  EndFrame <- MCUnlimited
  NBuffers = 1
  MaxBufferBlocks = 1
  CeilBufferBlocks = 0
  RaiseStep = 1
  MaxAlloc = 4
  Spurious = FALSE
SPECIFICATION Spec
INVARIANT UnderrunAnswered
CHECK_DEADLOCK FALSE
