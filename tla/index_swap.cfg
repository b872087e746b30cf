SPECIFICATION Spec
CONSTANTS
  Rows = {r1, r2, r3}
  Keys = {k1, k2, k3, k4}
  NoKey = NoKey
  Commands = {"encrypt", "decrypt"}
  Faults = {"crash", "crashInSwap", "busyReader", "rekeyFails", "keychainChanges", "keychainUnreadable"}
  MaxFaults = 3
SYMMETRY IndexSymmetry
INVARIANTS TypeOK HistoryKept KeyKept ConversionDone
PROPERTIES ForeignUntouched
