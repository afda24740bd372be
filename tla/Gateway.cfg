\* Two requests of any kind that compete for one connection, two lives of the
\* process, a failing call or a kill.
SPECIFICATION FairSpec
CONSTANTS
  r1 = r1  r2 = r2
  Requests = {r1, r2}
  Environments <- MCEnvironments
  Unset = Unset
  MaxAttempts = 2
  MaxConns = 1
  MaxLives = 2
  MaxFaults = 1
INVARIANTS TypeOK DrainIsGraceful OrphanIsReported
PROPERTIES StopsAfterSignal RequestsAdvance
CHECK_DEADLOCK FALSE
