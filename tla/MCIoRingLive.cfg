\* Progress of submission on a ring of one whose completion ring can fill up.
SPECIFICATION Spec
CONSTANTS
  a = a
  b = b
  c = c
  Ops = {a, b, c}
  VecOps = {a}
  Results <- MCResults
  NoResult = NoResult
  NoOp = NoOp
  QueueDepth = 1
  MaxShort = 0
PROPERTIES
  EverySubmissionReachesKernel
\* Once every operation is done the system stops.
CHECK_DEADLOCK FALSE
