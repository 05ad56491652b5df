\* The code against its documentation.
SPECIFICATION Spec
CONSTANTS
  listener = listener
  c1 = c1
  a1 = a1
  Listener = listener
  Connects = {c1}
  Accepts = {a1}
  Fds = {3, 4}
  NoFd = NoFd
  Free = Free
  Mapped = {22, 24, 111}
  MaxErrno = 133
  Errnos = {22, 111}
  Asked <- MCAsked
  Remotes <- MCRemotes
  NoAddr = NoAddr
  NoPeer = NoPeer
  NoStatus = NoStatus
INVARIANTS
  AcceptFailureIsReported
\* Once every handle is closed the system stops.
CHECK_DEADLOCK FALSE
