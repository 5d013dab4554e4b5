SPECIFICATION Spec
CONSTANTS
  MaxVars = 1
  MaxLevels = 1
  MaxMods = 1
  MaxOps = 0
  MaxParams = 0
  MaxDepth = 6
  WordSize = 8
  Features = {"eval", "import"}
INVARIANTS
  TypeOK
  AlignedOrSearched
  LoopBreakStaysInside
  RuntimeStateHolds
PROPERTIES
  ExitsAreClean
