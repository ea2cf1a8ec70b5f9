CONSTANTS
  MaxLex = 3
  MaxCursors = 2
  Inputs <- LexInputs
SPECIFICATION Spec
INVARIANT TokenLiteralsClassified
