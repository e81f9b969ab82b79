SPECIFICATION Spec
CONSTANTS
  Procs = {p1, p2}
  Files = {a, b}
  None = None
  MaxOpen = 1
  Setups <- AllSetups
INVARIANTS
  WriterExclusion
  IdleHoldsNothing
  LckInv
PROPERTIES
  WaitEnds
CHECK_DEADLOCK FALSE
