CONSTANTS
  MaxLex = 3
  MaxCursors = 3
  Inputs <- LexInputs
SPECIFICATION FairSpec
INVARIANT TypeOK
INVARIANT NestedCursorsOrdered
INVARIANT StringFitsCapacity
INVARIANT Utf8CountFresh
INVARIANT UInv
PROPERTY CallsReturn
PROPERTY CursorsRefined
