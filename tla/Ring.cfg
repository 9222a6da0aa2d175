SPECIFICATION RingSpec
CONSTANTS
  Value = {b1, b2, b3}
  Nil = Nil
  Capacity = 3
INVARIANTS RingTypeOK NoHole
PROPERTIES ImplementsNewestFirst
