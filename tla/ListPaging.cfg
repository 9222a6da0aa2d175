SPECIFICATION Spec
CONSTANTS
  MaxOrdinal = 5
  MaxCount = 2
INVARIANTS TypeOK WalkComplete
PROPERTIES ExactPages NoRepeat
\* the client is done when the list is walked
CHECK_DEADLOCK FALSE
