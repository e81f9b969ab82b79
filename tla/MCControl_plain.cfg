SPECIFICATION Spec
CONSTANTS
  MaxDepth = 3
  MaxHeight = 12
  Vals = {1, 2}
  NoVal = NoVal
  Nestable <- PlainNesting
  FallThrough = FALSE
  BreakIn = {"switch"}
  ReturnFrom = {}
  Closers = {"word", "brace"}
INVARIANTS
  TypeOK
  StateFaithful
  StacksFaithful
  NoErrorReported
PROPERTIES
  Balanced
