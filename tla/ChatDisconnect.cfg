\* Violated: a client that leaves during generation is not logged.
SPECIFICATION Spec
CONSTANTS
  r1 = r1  r2 = r2  r3 = r3  d1 = d1  d2 = d2  c1 = c1  q1 = q1  q2 = q2
  Requests = {r1, r2}
  Docs = {d1}
  Convs = {}
  NoConv = NoConv
  Questions = {q1}
  Asks <- SameQuestion
  NChunks <- OneChunkEach
  HistoryTurns = 1
  TxTime = 0
  MaxGone = 1
  MaxGen = 1
  MaxClock = 1
  MaxFaults = 0
SYMMETRY RequestSymmetry
INVARIANT DisconnectIsLogged
CHECK_DEADLOCK FALSE
