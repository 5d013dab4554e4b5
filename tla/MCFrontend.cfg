SPECIFICATION Spec
CONSTANTS
  Digits <- MCDigits
  HexDigits <- MCHexDigits
  Letters <- MCLetters
  IntDigits = 1
  MinDigits = "8"
  MaxString = 0
  MaxExprDepth = 22
  MaxFnExprDepth = 18
  MaxMapSize = 2
  Syntaxes <- MCSyntaxes
  Texts <- MCTexts
  Streams <- MCStreams
  Custom = {}
  Disabled = {}
  None = None
INVARIANTS
  TextsReadBack
  TreesReadBack
PROPERTIES
  TokensAreTaken
CHECK_DEADLOCK FALSE
