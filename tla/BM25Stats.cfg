\* The statistics agree with the chunks.
SPECIFICATION Spec
CONSTANTS
  d1 = d1  d2 = d2  d3 = d3  t1 = t1  t2 = t2  t3 = t3
  w1 = w1  w2 = w2  w3 = w3
  Docs = {d1, d2, d3}
  Workers = {w1, w2, w3}
  Terms = {t1, t2, t3}
  Tf <- MCTf
  StatsRow = StatsRow
  None = None
SYMMETRY WorkerSymmetry
INVARIANT StatsAgree
CHECK_DEADLOCK FALSE
