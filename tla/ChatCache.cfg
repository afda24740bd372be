\* The answer cache over a corpus that grows and is re-ingested.
SPECIFICATION Spec
CONSTANTS
  r1 = r1  r2 = r2  r3 = r3  d1 = d1  d2 = d2  c1 = c1  q1 = q1  q2 = q2
  Requests = {r1, r2}
  Docs = {d1, d2}
  Convs = {}
  NoConv = NoConv
  Questions = {q1}
  Asks <- SameQuestion
  NChunks <- OneChunkEach
  HistoryTurns = 1
  TxTime = 1
  MaxGone = 0
  MaxGen = 2
  MaxClock = 2
  MaxFaults = 0
SYMMETRY RequestSymmetry
INVARIANT NewDocumentsSeen
CHECK_DEADLOCK FALSE
