SPECIFICATION Spec
CONSTANTS
  Hashes <- MCHashes
  Scripted = {"g"}
  Slot <- MCSlot
  Wildcards <- MCWildcards
  Binary = {"f"}
  Engine = {}
  Main = {}
  Modules <- MCModules
  Lib <- MCLib
  Exports <- MCExports
  EnvImports <- MCEnvImports
  Ops = {"block", "import", "call", "env", "eval"}
  MaxDepth = 3
  MaxImports = 2
INVARIANTS
  CachesHold
