SPECIFICATION Spec
CONSTANTS
  Keys <- Keyed
  Vals <- Numbers
  First = "0"
  NoKey = ""
  KeyOf <- Decimal
  Size <- Digits
  Apply <- Arithmetic
  Zero = 0
  InOrder <- Order
  Others <- Assigned
  Pages <- Habits
  MaxLen = 3
  MaxCount = 3
INVARIANTS
  ArraysInv
  RoomHonest
  ReadsFaithful
PROPERTIES
  Implements
CHECK_DEADLOCK FALSE
