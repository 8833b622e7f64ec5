SPECIFICATION MonitorSpec
CONSTANTS
  Bytes <- OneNop
  InputPins = {}
  ResetEdges = 6
  HeldMax = 6
  MemoryStable = FALSE
  FrameTimes = {1, 3}
  Second = 1
  Rates = {1, 5}
  Grain = 3
  kMaxEdgesPerFrame = 4
  IntMax = 10
  HandSteps = {1}
  StepLimit = 8
  kTraceLength = 3
  Visible = 2
  CounterSize = 16
  DebtMax = 50
INVARIANT WaveformShowsLastEdges
PROPERTIES FreeRunGoesOn 
