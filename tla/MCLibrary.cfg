SPECIFICATION Spec
CONSTANTS
  ByteBits = 2
  IntBytes = 2
  Unit = Unit
  Error = Error
  Overflow = Overflow
  None = None
  Elems = {"x", "y", "m"}
  ElemType <- MCType
  Rank <- MCRank
  Comparers <- MCComparers
  Utf8 <- MCUtf8
  Ascii = {"a", " "}
  Spaces = {" "}
  Replacement = "?"
  U32Max = 5
  Positions <- MCPositions
  MaxLen = 3
  MaxSize = 3
  One = 4
  Epsilon = 1
  FloatMax = 12
  NoFn = NoFn
  Operands <- MCOperands
INVARIANTS
  SequencesAreRight
  TextIsRight
  NumbersAreExact
  OperatorsAgree
PROPERTIES
  CallsEnd
CHECK_DEADLOCK FALSE
