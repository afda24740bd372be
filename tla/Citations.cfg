\* Every stream of up to two frames.
SPECIFICATION Spec
CONSTANTS
  a = a  b = b  c = c
  Numbers = {0, 1, 2, 3, 4}
  MaxGroups = 2
  MaxSize = 2
  Ranked <- ThreeChunks
INVARIANTS ReplayKeepsSources VerifiedAnswerResolves CachedIsWhole
CHECK_DEADLOCK FALSE
