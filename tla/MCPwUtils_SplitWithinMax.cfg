CONSTANTS
  Alphabet <- MCAlphabet
  MaxLen = 3
  Strings <- MCStrings
  Delims <- MCDelims
  MaxTokens = {0, 1, 2}
  BufLen = 2
  MaxEintr = 1
  HaveGetrandom = TRUE
SPECIFICATION Spec
CHECK_DEADLOCK FALSE
INVARIANT SplitWithinMax
