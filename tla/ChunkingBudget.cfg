\* Violated: a long sentence after a short one is emitted whole.
SPECIFICATION Spec
CONSTANTS
  A = A  B = B
  Lines <- AllLines
  MaxLines = 3
  TARGET_CHARS = 4
  MAX_CHARS = 6
  MIN_CHARS = 2
  OVERLAP_CHARS = 2
INVARIANT WithinBudget
CHECK_DEADLOCK FALSE
