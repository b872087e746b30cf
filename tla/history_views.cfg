SPECIFICATION Spec
CONSTANTS
  Worlds <- BothWorlds
  NoText = NoText
  NoWindow = NoWindow
  t0 = t0
  t1 = t1
  t2 = t2
  t3 = t3
  w1 = w1
  w2 = w2
  w3 = w3
  Bm25 <- QueryRank
  Distance <- QueryDistance
  SessionGap = 1
  RrfK0 = 2
  OverFetch = 2
  MinFetch = 2
  ChunkMs = 2
SYMMETRY WindowNames
INVARIANTS ActivityCovers PagesFollowRanking ReplayInSync
CHECK_DEADLOCK FALSE
