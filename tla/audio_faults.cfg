SPECIFICATION Spec
CONSTANTS
  Sources = {mic, system}
  SckSources = {system}
  EchoSources = {mic}
  FrameUnits = 2
  MinSegment = 1
  TargetSegment = 2
  SilenceLimit = 2
  ChunkUnits = 3
  MaxUnits = 3
  MaxReplays = 0
  Resolving = {mic, system}
  Faults = {"resolveFails", "insertFails", "sckInsertFails", "blobFails", "childExit", "workerCrash"}
  MaxFaults = 1
  NoChunk = NoChunk
INVARIANTS NothingLost
PROPERTY ImplementsTranscript
CHECK_DEADLOCK FALSE
