CONSTANTS
  Missing = Missing
  Files <- MCManyFiles
  StartFrame = 2
  EndFrame <- MCUnlimited
  NBuffers = 2
  MaxBufferBlocks = 2
  CeilBufferBlocks = 3
  RaiseStep = 1
  MaxAlloc = 3
  Spurious = TRUE
SPECIFICATION FairSpec
PROPERTY InputIsConsumed
INVARIANT TypeOK
INVARIANT OneOwner
PROPERTY SentInOrder
PROPERTY ImplementsChannel
CHECK_DEADLOCK FALSE
