INIT Init
NEXT Next
CONSTANTS
  Setups = {}
  Rotations = {a1}
  Keychains = {FALSE}
  Calls = {c1}
  Pairs = {c1}
  Transports = {"http"}
  Kinds = {"search"}
  WorkerFaults = {}
  MaxFaults = 0
  NoSlot = NoSlot
INVARIANT EncodesOwnQuery
CHECK_DEADLOCK FALSE
