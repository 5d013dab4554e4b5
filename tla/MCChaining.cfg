SPECIFICATION Spec
CONSTANTS
  ByteBits = 2
  IntBytes = 2
  Unit = Unit
  Error = Error
  Overflow = Overflow
  Roots <- MCRoots
  InitCells <- MCCells
  Steps <- MCSteps
  NewVals <- MCNew
  MethodVals <- MCMethodVals
  MethodResults <- MCMethodResults
  Apis <- MCApis
  MaxSteps = 3
INVARIANTS
  TargetsHold
  AssignmentsLand
  ConstantKeepsItems
CHECK_DEADLOCK FALSE
