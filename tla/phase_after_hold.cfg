SPECIFICATION FairSpec
CONSTANTS
  Bytes <- BusBytes
  InputPins = {"WAIT", "BUSRQ"}
  ResetEdges = 6
  HeldMax = 7
  MemoryStable = TRUE
PROPERTIES WaitSampledOnFall
