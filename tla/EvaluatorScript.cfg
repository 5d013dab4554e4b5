SPECIFICATION Spec
CONSTANTS
  MaxVars = 1
  MaxLevels = 1
  MaxMods = 1
  MaxOps = 5
  MaxParams = 2
  MaxDepth = 6
  WordSize = 8
  Features = {"progress", "debugger"}
INVARIANTS
  LimitsHold
PROPERTIES
  ExitEndsScript
  Terminates
