\* Violated: a hit renumbers the citations.
SPECIFICATION Spec
CONSTANTS
  a = a  b = b  c = c
  Numbers = {0, 1, 2, 3, 4}
  MaxGroups = 2
  MaxSize = 2
  Ranked <- ThreeChunks
INVARIANT ReplayResolves
CHECK_DEADLOCK FALSE
