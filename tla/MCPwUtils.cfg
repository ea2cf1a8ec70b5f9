CONSTANTS
  Alphabet <- MCAlphabet
  MaxLen = 5
  Strings <- MCStrings
  Delims <- MCDelims
  MaxTokens = {1, 2, 3}
  BufLen = 2
  MaxEintr = 1
  HaveGetrandom = TRUE
SPECIFICATION Spec
\* A call returns: the state it ends in has no successor.
CHECK_DEADLOCK FALSE
INVARIANT TypeOK
INVARIANT SplitCorrect
INVARIANT StripCorrect
INVARIANT GetrandomContract
INVARIANT RandomFills
PROPERTY NulOnlyOverDelims
INVARIANT WInv
