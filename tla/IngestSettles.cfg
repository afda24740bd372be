\* A good and a blank document; one worker may die, one may be stopped.
SPECIFICATION FairSpec
CONSTANTS
  None = None
  d1 = d1
  d2 = d2
  w1 = w1
  w2 = w2
  p1 = p1
  p2 = p2
  Docs = {d1, d2}
  Workers = {w1, w2}
  Partitions = {p1, p2}
  KeyPartition <- KeyToP1
  NChunks <- GoodAndEmpty
  Blank = {d2}
  MaxAttempts = 2
  MaxFaults <- TakeoverFaults
PROPERTIES EventuallySettled
CHECK_DEADLOCK FALSE
