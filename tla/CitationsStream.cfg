\* Violated: tokens are streamed before they are verified.
SPECIFICATION Spec
CONSTANTS
  a = a  b = b  c = c
  Numbers = {0, 1, 2, 3, 4}
  MaxGroups = 2
  MaxSize = 2
  Ranked <- ThreeChunks
INVARIANT ShownMarkersKnown
CHECK_DEADLOCK FALSE
