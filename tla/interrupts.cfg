SPECIFICATION FairSpec
CONSTANTS
  Bytes <- InterruptBytes
  InputPins = {"INT", "NMI", "WAIT"}
  ResetEdges = 6
  HeldMax = 255
  MemoryStable = TRUE
INVARIANTS TypeOK HaltedOnlyFetches IffOrder PrefixInForce PhaseKept
PROPERTIES InterruptsAtBoundaries LdAReadsIff2 ImplementsProtocol NmiServed
