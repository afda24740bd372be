\* Violated: the retry of a failed attempt is lost.
SPECIFICATION FairSpec
CONSTANTS
  None = None
  d1 = d1
  d2 = d2
  w1 = w1
  w2 = w2
  p1 = p1
  p2 = p2
  Docs = {d1}
  Workers = {w1, w2}
  Partitions = {p1, p2}
  KeyPartition <- KeyToP1
  NChunks <- OneDoc
  Blank = {}
  MaxAttempts = 2
  MaxFaults <- LostRetryFaults
PROPERTIES FailureIsVisible
CHECK_DEADLOCK FALSE
