SPECIFICATION AnySpec
CONSTANTS
  Bytes <- SnapshotBytes
  InputPins = {"NMI"}
  ResetEdges = 6
  HeldMax = 255
  MemoryStable = TRUE
PROPERTIES RestoreKeepsPlace
