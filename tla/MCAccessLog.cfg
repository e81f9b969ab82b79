SPECIFICATION LogSpec
CONSTANTS
  Procs = {p1, p2}
  Setups <- Every
  Nil = Nil
  Attempts = 2
  DayLength = 1
  MaxTime = 1
  MaxHits = 3
INVARIANTS
  CountedUnderLock
  LogInv
PROPERTIES
  LoggingEnds
CHECK_DEADLOCK FALSE
