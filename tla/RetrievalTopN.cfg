\* Violated: more candidates than the scoring prompt holds, and top_n between.
SPECIFICATION Spec
CONSTANTS
  Ids = {1, 2, 3, 4}
  VectorTopK = 3
  KeywordTopK = 2
  RRFK = 60
  RerankTopN = 4
  MaxCandidates = 2
  TopNs = {3}
  Indexes <- SomeIndexes
  Scores = {0, 5}
  MaxItems = 2
  MaxNumbers = 4
INVARIANT TopNServed
CHECK_DEADLOCK FALSE
