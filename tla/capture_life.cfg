SPECIFICATION FairSpec
CONSTANTS
  MaxFrames = 3
  MaxSegments = 1
  Backends = {"sck", "wlcap", "x11"}
  MaxUnread = 0
  Interval = 2
  Faults = {"startFails", "helperDies", "frameFails", "embedDies", "embedFails", "embedSlow", "vectorFails", "daemonDies"}
  MaxFaults = 1
  BatchSize = 2
  Poison <- PoisonScreenshots
  MaxAsked = 1
INVARIANTS ChildrenStopped
PROPERTIES ImplementsIndex StopCompletes ChildrenEnd SegmentsUnblocked
CHECK_DEADLOCK FALSE
