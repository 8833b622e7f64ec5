SPECIFICATION MonitorSpec
CONSTANTS
  Bytes <- LongBytes
  InputPins = {"WAIT", "INT", "BUSRQ"}
  ResetEdges = 6
  HeldMax = 6
  MemoryStable = FALSE
  FrameTimes = {0}
  Second = 1
  Rates = {1}
  Grain = 1
  kMaxEdgesPerFrame = 1
  IntMax = 1
  HandSteps = {1}
  StepLimit = 38
  kTraceLength = 1
  Visible = 1
  CounterSize = 2
  DebtMax = 1
PROPERTY StepLandsOnT1
