\* Two users, and a ring whose initialisation succeeds.
CONSTANTS
  u1 = u1
  u2 = u2
  u3 = u3
  Users <- Two
  Static = Static
  InitMayFail = FALSE
  Errnos <- Interrupted
SPECIFICATION Spec
PROPERTY WorkerEndsAfterShutdown
