\* Two operations: every order of constructor, callback, await_suspend.
SPECIFICATION Spec
CONSTANTS
  a = a
  b = b
  Ops = {a, b}
  Codes = {0, 64}
  Counts = {0, 5}
  NoResult = NoResult
INVARIANTS
  OverlappedOutlivesCall
  ResultIsWhole
  SuspendedIsPending
  IInv
PROPERTY
  ImplementsAsyncIO
\* Once every operation is done the system stops.
CHECK_DEADLOCK FALSE
