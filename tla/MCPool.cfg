SPECIFICATION Spec
CONSTANTS
  Blocks = {b1, b2, b3}
  Sizes = {0, 3, 5}
  Align = 2
  Hdr = 2
  MinFree = 4
SYMMETRY Symmetry
INVARIANTS
  PoolInv
PROPERTIES
  Implements
  LeaksAtEndOnly
CHECK_DEADLOCK FALSE
