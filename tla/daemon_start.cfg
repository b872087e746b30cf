SPECIFICATION Spec
CONSTANTS
  Starters = {s1, s2, s3, s4}
  Stoppers = {}
  Converters = {c1}
  InitialDaemon = d0
  InitialKinds = {"fresh", "running"}
  Faults = {"spawnFails"}
  MaxFaults = 1
  NoPid = NoPid
  TornPid = TornPid
SYMMETRY StarterSymmetry
INVARIANTS StartLockExclusive AtMostOneDaemon StartersConverge ConversionExcludesStarted
PROPERTIES PidFileFaithful
