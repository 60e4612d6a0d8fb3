SPECIFICATION Spec
CONSTANTS
  MaxRetries = 1
  MaxPieces = 1
INVARIANT FailureShown
CHECK_DEADLOCK FALSE
