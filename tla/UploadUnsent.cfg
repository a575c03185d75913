SPECIFICATION Spec
CONSTANTS
  Frames = 1
  Mirrors = 1
  MaxRetries = 0
  MaxRedirects = 1
INVARIANT
  UnsentIsUnsent
CHECK_DEADLOCK FALSE
