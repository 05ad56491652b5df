\* Two coroutines open one path with any flags and use what they get, at offsets
\* on both sides of a DWORD's range.
SPECIFICATION Spec
CONSTANTS
  b1 = b1
  b2 = b2
  Calls = {b1, b2}
  Offsets = {1, 2}
  Word = 2
  Absent = Absent
  Directory = Directory
  Zero = Zero
  NoRequest = NoRequest
  Failed = Failed
  MaxErrno = 133
  Cases <- MCCases
  Codes = {1}
  NoStatus = NoStatus
INVARIANTS NoHandleLeak ExlockExcludes LocksDecide
PROPERTY ImplementsBlockFile
\* Once every handle is closed the system stops.
CHECK_DEADLOCK FALSE
