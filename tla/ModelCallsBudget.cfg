\* Violated: the budget is checked before the pause.
SPECIFICATION Spec
CONSTANTS
  MaxRetries = 3
  RetryBudget = 9
  Timeout = 12
  MaxWait = 3
  MaxTokens = 3
  Chunks = 5
  BatchSize = 2
  WorkerTries = 4
  WorkerWait = 5
  RetryDelays = {0, 2, 50}
  DelayCap = 15
  Holds = {0, 20}
  PollInterval = 225
INVARIANT RetriesWithinBudget
CHECK_DEADLOCK FALSE
