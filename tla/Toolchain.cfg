SPECIFICATION ToolSpec
CONSTANTS
  Kinds = {"let", "call", "throw", "return", "break", "continue", "block", "if", "loop", "do", "while",
           "for", "try", "operand"}
  MaxStmts = 3
  LeaveOperand = FALSE
  HostVars = 1
  MaxVariables = 3
  MaxLevels = 1
  MaxOps = 3
  Origins = {"compiled", "read"}
  ReadOps = {"Unit", "Pop", "IterInit", "IterNext", "IterNextStore", "PushHandler", "JumpIfTrue",
             "SkipIfNotUnit", "Throw", "Return"}
  ReadLen = 5
  ReadStacks = {2}
  ToStore <- SomePrograms
  Subjects <- SomeSubjects
  MaxConstantDepth = 2
INVARIANTS
  VerifierIsRight
  CompilerIsRight
  ReadsWhatWasWritten
  ReadIsSound
PROPERTIES
  CatchIsOwn
  Terminates
