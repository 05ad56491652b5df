\* Two coroutines open one path with any flags and use what they get.
SPECIFICATION Spec
CONSTANTS
  b1 = b1
  b2 = b2
  Calls = {b1, b2}
  Offsets = {0, 1}
  Absent = Absent
  Directory = Directory
  Zero = Zero
  NoRequest = NoRequest
  Failed = Failed
  MaxErrno = 133
  Mapped = {2, 13, 17}
  Errnos = {13}
INVARIANTS NoFdLeak
PROPERTY ImplementsBlockFile
\* Once every handle is closed the system stops.
CHECK_DEADLOCK FALSE
