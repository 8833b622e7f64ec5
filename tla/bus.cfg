SPECIFICATION FairSpec
CONSTANTS
  Bytes <- BusBytes
  InputPins = {"WAIT", "BUSRQ", "RESET"}
  ResetEdges = 6
  HeldMax = 7
  MemoryStable = TRUE
INVARIANTS StrobesFollowCursor ReleasedBetweenCycles CursorInInstruction
PROPERTIES BusGranted BusakUntilReset
