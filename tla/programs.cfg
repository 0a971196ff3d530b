SPECIFICATION MCSpec
CONSTANTS
  EncJobs <- MCEncJobs
  StaleBytes <- MCStaleBytes
  DubJobs <- MCDubJobs
  AviHeaders <- MCAviHeaders
  AudioLengths <- MCAudioLengths
  Cuts <- MCCuts
  MaxBufferBlocks = 3
  MaxChunks = 6
  PlayJobs <- MCPlayJobs
  WindowSizes <- MCWindowSizes
  Threads <- MCThreads
  ShareJobs <- MCShareJobs
  SegmentsPerFrame = 2
  MaxStamp = 2
  MaxFrames = 4
CHECK_DEADLOCK FALSE
INVARIANT EncRateKept
INVARIANT SoundInStep
INVARIANT SamplesKept
INVARIANT DubKeepsPictures
INVARIANT AviPairsInOrder
INVARIANT NodesApart
INVARIANT PlayerReadsFrames
INVARIANT AspectKept
INVARIANT TablesReady
INVARIANT FramesUnmixed
INVARIANT RecordingsAreFound
