SPECIFICATION Spec
CONSTANTS
  MaxDepth = 2
  MaxHeight = 3
  Vals = {1, 2}
  NoVal = NoVal
  Nestable <- AnyNesting
  FallThrough = TRUE
  BreakIn = {"if", "switch", "while"}
  ReturnFrom = {"if", "switch", "while"}
  Closers = {"word", "brace"}
INVARIANTS
  SkippedStaysSkipped
CHECK_DEADLOCK FALSE
