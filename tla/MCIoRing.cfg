\* Three submitters on a ring of two, one short submission at a time.
SPECIFICATION Spec
CONSTANTS
  a = a
  b = b
  c = c
  Ops = {a, b, c}
  VecOps = {a}
  Results <- MCResults
  NoResult = NoResult
  NoOp = NoOp
  QueueDepth = 2
  MaxShort = 1
INVARIANTS
  NoTornSubmit
  SqeAvailable
  ArgsOutliveQueue
  ResultIsKernels
  NoUseAfterFree
  SuspendedIsPending
  OnlyShortLeavesSqes
PROPERTY
  ImplementsAsyncIO
\* An operation whose submission was short waits for the next submission, and
\* there may be none: the system may really stop.
CHECK_DEADLOCK FALSE
