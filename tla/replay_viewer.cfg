SPECIFICATION Spec
CONSTANTS
  Viewers = {v1, v2}
  Settings <- AllSettings
  Renew = 3
  Ttl = 8
  MaxDelay = 1
  NoMarker = NoMarker
  NoTimer = NoTimer
  NoLoad = NoLoad
SYMMETRY ViewerSymmetry
INVARIANTS SuppressionFollowsReplay NoStraySound
CHECK_DEADLOCK FALSE
