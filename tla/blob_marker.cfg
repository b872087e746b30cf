SPECIFICATION Spec
CONSTANTS
  Blobs = {b1, b2}
  Capturing = FALSE
  Commands = {"encrypt"}
  FlagEdits = FALSE
  Faults = {"readdirError"}
  MaxFaults = 1
  NoBlob = NoBlob
INVARIANTS EveryBlobMigrated
