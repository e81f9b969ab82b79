SPECIFICATION Spec
CONSTANTS
  Names = {x}
  Vals = {0, 1}
  Funcs = {f}
  None = None
  Undef = Undef
  Pages <- CallsFirst
  MaxDepth = 3
PROPERTIES
  NoStrayGlobal
