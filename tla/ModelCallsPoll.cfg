\* The worker's own numbers in seconds, a document of 100 chunks, a peer out of
\* quota. Violated: four attempts of each batch are told to wait a minute.
SPECIFICATION Spec
CONSTANTS
  MaxRetries = 3
  RetryBudget = 9
  Timeout = 12
  MaxWait = 3
  MaxTokens = 3
  Chunks = 100
  BatchSize = 32
  WorkerTries = 5
  WorkerWait = 20
  RetryDelays = {60}
  DelayCap = 60
  Holds = {0}
  PollInterval = 900
INVARIANT StaysInGroup
CHECK_DEADLOCK FALSE
