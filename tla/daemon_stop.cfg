SPECIFICATION FairSpec
CONSTANTS
  Starters = {s1}
  Stoppers = {t1, t2}
  Converters = {}
  InitialDaemon = d0
  InitialKinds = {"fresh", "running", "stale"}
  Faults = {"daemonCrash", "daemonSignal", "startFails", "spawnFails", "starterCrash", "lockStall", "slowDrain"}
  MaxFaults = 3
  NoPid = NoPid
  TornPid = TornPid
INVARIANTS
  TypeOK
  StopIsTrue
  NeverForced
PROPERTIES
  StopCompletes
