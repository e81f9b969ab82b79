SPECIFICATION Spec
CONSTANTS
  Names = {x}
  Vals = {0, 1}
  Funcs = {f, g}
  None = None
  Undef = Undef
  Pages <- AnyOrPlain
  MaxDepth = 3
SYMMETRY Symmetry
INVARIANTS
  TypeOK
  TextFaithful
  MarksFaithful
  FramesEnd
PROPERTIES
  Implements
CHECK_DEADLOCK FALSE
