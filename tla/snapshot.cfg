SPECIFICATION CarefulSpec
CONSTANTS
  Bytes <- SnapshotBytes
  InputPins = {"NMI", "BUSRQ", "RESET"}
  ResetEdges = 6
  HeldMax = 255
  MemoryStable = TRUE
INVARIANT HaltPin
PROPERTIES RestoreExact ResetHolds NmiNotLost
