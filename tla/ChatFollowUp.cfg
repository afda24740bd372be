\* Violated: a turn served from the cache leaves no history.
SPECIFICATION Spec
CONSTANTS
  r1 = r1  r2 = r2  r3 = r3  d1 = d1  d2 = d2  c1 = c1  q1 = q1  q2 = q2
  Requests = {r1, r2, r3}
  Docs = {d1}
  Convs = {c1}
  NoConv = NoConv
  Questions = {q1, q2}
  Asks <- FollowUpAsks
  NChunks <- OneChunkEach
  HistoryTurns = 1
  TxTime = 0
  MaxGone = 0
  MaxGen = 1
  MaxClock = 1
  MaxFaults = 0
SYMMETRY RequestSymmetry
INVARIANT FollowUpNotShared
CHECK_DEADLOCK FALSE
