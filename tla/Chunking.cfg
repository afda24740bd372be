\* Every document of up to five lines.
SPECIFICATION Spec
CONSTANTS
  A = A  B = B
  Lines <- AllLines
  MaxLines = 5
  TARGET_CHARS = 4
  MAX_CHARS = 6
  MIN_CHARS = 2
  OVERLAP_CHARS = 2
INVARIANTS NothingLost OneSubject SizeIsBounded
CHECK_DEADLOCK FALSE
