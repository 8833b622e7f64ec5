SPECIFICATION Spec
CONSTANTS
  Starts <- SmallStarts
  Operands <- SmallOperands
  WordOperands <- SmallWords
  CbFields = {2, 5, 7}
  Host = {"RESET", "LOAD"}
  Length = 2
INVARIANTS SumsAreExact ComparisonBranches DecimalCorrect RotationsUndo WordsAreTwoBytes QFollowsFlags
PROPERTY ScfReadsTheFlagBus
