\* A listener, a connect and two accepts that pend together, failing at any step.
SPECIFICATION Spec
CONSTANTS
  listener = listener
  c1 = c1
  a1 = a1
  a2 = a2
  Listener = listener
  Connects = {c1}
  Accepts = {a1, a2}
  MaxErrno = 133
  Cases <- MCCases
  Codes = {10061}
  Asked <- MCAsked
  Remotes <- MCRemotes
  NoAddr = NoAddr
  NoPeer = NoPeer
  NoStatus = NoStatus
SYMMETRY AcceptSymmetry
INVARIANTS
  SocketsAreOwned
  CompletionsAreDelivered
  CauseIsShown
  PeersAreTrue
PROPERTY
  ImplementsTCPCalls
\* Once every handle is closed the system stops.
CHECK_DEADLOCK FALSE
