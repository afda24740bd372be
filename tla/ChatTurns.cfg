\* Conversations, logs, clients that leave and failing services.
SPECIFICATION Spec
CONSTANTS
  r1 = r1  r2 = r2  r3 = r3  d1 = d1  d2 = d2  c1 = c1  q1 = q1  q2 = q2
  Requests = {r1, r2}
  Docs = {d1}
  Convs = {c1}
  NoConv = NoConv
  Questions = {q1}
  Asks <- AllAsks
  NChunks <- OneChunkEach
  HistoryTurns = 1
  TxTime = 0
  MaxGone = 2
  MaxGen = 1
  MaxClock = 1
  MaxFaults = 1
SYMMETRY RequestSymmetry
INVARIANTS TypeOK FollowUpStaysPrivate VisibleIsLogged DegradesNotFails TurnIsRecorded
CHECK_DEADLOCK FALSE
