SPECIFICATION FairSpec
CONSTANTS
  Sources = {mic}
  SckSources = {}
  EchoSources = {}
  FrameUnits = 2
  MinSegment = 3
  TargetSegment = 4
  SilenceLimit = 2
  ChunkUnits = 7
  MaxUnits = 9
  MaxReplays = 1
  Resolving = {}
  Faults = {"slowWorker","workerCrash"}
  MaxFaults = 1
  NoChunk = NoChunk
INVARIANTS TypeOK TranscriptOrdered SegmentsSkipReplay RotationKeepsSpeech FlushesAnswered
PROPERTIES StopCompletes
