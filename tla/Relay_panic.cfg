SPECIFICATION Spec
CONSTANTS
  Call = {c1}
  Streamed = {}
  None = None
  Cap = 1
  MaxBehind = 2
INVARIANT NoSendOnClosed
CHECK_DEADLOCK FALSE
