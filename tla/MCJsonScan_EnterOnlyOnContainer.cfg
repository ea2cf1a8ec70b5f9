CONSTANTS
  Alphabet <- StructAlphabet
  MaxLen = 4
  MaxCursors = 3
  Inputs <- MCInputs
SPECIFICATION Spec
INVARIANT EnterOnlyOnContainer
