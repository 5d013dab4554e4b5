SPECIFICATION Spec
CONSTANTS
  Functions <- MCFunctions
  Programs <- RotatedCalls
  Scopes <- MCScopes
  Pure <- RotatedCalls
  MaxTicks = 200
PROPERTIES
  ImplementsWalker
