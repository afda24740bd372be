\* Every vector and keyword ranking of four chunks, replies of up to two scores.
SPECIFICATION Spec
CONSTANTS
  Ids = {1, 2, 3, 4}
  VectorTopK = 2
  KeywordTopK = 3
  RRFK = 60
  RerankTopN = 3
  MaxCandidates = 3
  TopNs = {1, 2, 4}
  Indexes <- SomeIndexes
  Scores = {0, 5}
  MaxItems = 2
  MaxNumbers = 4
INVARIANTS FusionIsMonotone AgreementWins BestScoreFirst DegradedStillServes
CHECK_DEADLOCK FALSE
