\* Sizes below, at and beyond what an int32_t (3 here) and a 32-bit length (8
\* here) can express.
SPECIFICATION Spec
CONSTANTS
  MaxErrno = 1
  IntMax = 3
  Sizes = {0, 1, 3, 4, 8, 9}
  Capacity = 2
INVARIANTS
  SuccessIsExact
  InOrder
  FailureIsReal
PROPERTIES
  BothReturn
\* Once both ends are closed the system stops.
CHECK_DEADLOCK FALSE
