SPECIFICATION FairSpec
CONSTANTS
  Blobs = {b1, b2}
  Capturing = TRUE
  Commands = {"encrypt", "decrypt"}
  FlagEdits = TRUE
  Faults = {"crash", "ioError", "readdirError"}
  MaxFaults = 2
  NoBlob = NoBlob
INVARIANTS TypeOK BlobsSurvive MarkerIsTrue MigratedOnStart
PROPERTIES Resumes
