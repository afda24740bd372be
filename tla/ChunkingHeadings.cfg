\* Violated: a skipped level nests a heading under its sibling.
SPECIFICATION Spec
CONSTANTS
  A = A  B = B
  Lines <- AllLines
  MaxLines = 4
  TARGET_CHARS = 4
  MAX_CHARS = 6
  MIN_CHARS = 2
  OVERLAP_CHARS = 2
INVARIANT HeadingPathIsOutline
CHECK_DEADLOCK FALSE
