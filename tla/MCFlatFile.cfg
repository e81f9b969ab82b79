SPECIFICATION Spec
CONSTANTS
  Procs = {w, r}
  Writer = w
  Keys = {k1, k2}
  Contents = {c1, c2}
  Wiped = Wiped
  NoContent = NoContent
  Torn = Torn
  Presents = FALSE
  MaxRecords = 4
INVARIANTS
  FlatInv
PROPERTIES
  IterationExact
SYMMETRY Symmetry
