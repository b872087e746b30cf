SPECIFICATION FairSpec
CONSTANTS
  Setups = {a1}
  Rotations = {a2}
  Keychains = {TRUE, FALSE}
  Calls = {c1, c2}
  Pairs = {c1}
  Transports = {"stdio", "http"}
  Kinds = {"search", "recall", "notify", "other"}
  WorkerFaults = {"answersError", "dies", "slow"}
  MaxFaults = 1
  NoSlot = NoSlot
INVARIANTS SearchIsSemantic 
PROPERTIES RequestsAnswered
CHECK_DEADLOCK FALSE
