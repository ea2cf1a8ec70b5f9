CONSTANTS
  Alphabet <- StructAlphabet
  MaxLen = 5
  MaxCursors = 3
  Inputs <- MCInputs
SPECIFICATION SwallowSpec
INVARIANT EnterMatchesSwallow
