\* Three users, one of which may make the ring while the others wait for it.
CONSTANTS
  u1 = u1
  u2 = u2
  u3 = u3
  Users <- Three
  Static = Static
  InitMayFail = TRUE
  Errnos <- Interrupted
SPECIFICATION Spec
INVARIANTS IInv OperationHasRing NobodySeesHalfRing RingEndsWithLastReference
PROPERTY PostedIsDelivered
\* Once every thread has returned and the program exits, nothing need happen.
CHECK_DEADLOCK FALSE
