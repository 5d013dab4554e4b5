SPECIFICATION Spec
CONSTANTS
  Functions <- MCFunctions
  Programs <- MCPrograms
  Scopes <- MCScopes
  Pure <- MCPure
  MaxTicks = 200
INVARIANTS
  CodeIsBalanced
PROPERTIES
  OptimizedAlike
  ImplementsWalker
