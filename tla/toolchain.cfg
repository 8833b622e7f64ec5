SPECIFICATION Spec
CONSTANTS
  ByteSize = 8
  OpcodeTable <- Table
  Capped <- Cut_ones
  Reserved = {"a"}
  BlockSize = 3
  LoaderSize = 40
  Printable = {1, 2}
  Escaped = {2}
  StringMinimum = 3
  StringChunk = 4
  DataChunk = 4
  Rooms = {0, 1, 2, 5}
  MaxLines = 70
  MaxRecords = 4
  Sessions <- ManySessions
INVARIANTS AssemblesToMeaning FilesReadBack CodeIsReachable ListingReassembles
PROPERTY DisassemblyEnds
CHECK_DEADLOCK FALSE
