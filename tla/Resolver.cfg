SPECIFICATION Spec
CONSTANTS
  Threads = {"t1", "t2"}
  Program <- MCProgram
  SelfContained = {"t2"}
  Files <- MCFiles
  Broken <- MCBroken
  Static <- MCStatic
  Chain <- MCChain
  BasePath <- NoPath
  CacheEnabled = TRUE
  MaxModules = 4
  MaxTries = 2
  MaxRuns = 2
  MaxDepth = 4
INVARIANTS
  CacheServes
  ModulesAreOwn
PROPERTIES
  EveryRunEnds
CHECK_DEADLOCK FALSE
