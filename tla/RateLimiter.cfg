\* Rounding, expiry and late scripts.
SPECIFICATION BucketSpec
CONSTANTS
  r1 = r1
  r2 = r2
  r3 = r3
  Callers = {r1, r2, r3}
  Burst = 2
  Unit = 3
  Rate = 2
  MaxDelay = 3
  MaxClock = 12
SYMMETRY RequestSymmetry
INVARIANTS BucketTypeOK Budget RetryAfterHolds
CHECK_DEADLOCK FALSE
