\* As in the code, quick attempts use up the retries before the budget and one
\* slow exchange uses up the budget. The worker has three batches, the last one
\* short, and a peer that asks for less and for more than it will wait.
SPECIFICATION FairSpec
CONSTANTS
  MaxRetries = 3
  RetryBudget = 9
  Timeout = 12
  MaxWait = 3
  MaxTokens = 3
  Chunks = 5
  BatchSize = 2
  WorkerTries = 4
  WorkerWait = 5
  RetryDelays = {0, 2, 50}
  DelayCap = 15
  Holds = {0, 20}
  PollInterval = 225
INVARIANTS TypeOK OneAnswerShown Aligned OwnTimeIsBounded
PROPERTIES CallEnds
CHECK_DEADLOCK FALSE
