---------------------------- MODULE RateLimiter ----------------------------
(***************************************************************************)
(* The token bucket in front of the chat endpoint: checkRateLimit          *)
(* (internal/chat/chat.go), Allow and tokenBucketScript                    *)
(* (internal/cache/cache.go), for one client id.                           *)
(*                                                                         *)
(* The Lua script is atomic, but `now` is an argument: each request reads  *)
(* the clock in the gateway and the scripts reach Redis in any order. Time *)
(* is a number of ticks of one second; a token is Unit units and Rate      *)
(* units flow back per tick (perMinute / 60 tokens per second).            *)
(***************************************************************************)
EXTENDS Integers

CONSTANTS
  Callers,    \* requests that can be in flight at once
  Burst,      \* RateLimitBurst: tokens of a full bucket
  Unit, Rate, \* units per token, units refilled per tick
  MaxDelay,   \* ticks from reading the clock to the script: Redis timeouts
  MaxClock    \* TLC: the last tick

Capacity == Burst * Unit

ASSUME BucketAssumption ==
  /\ Burst \in Nat \ {0} /\ Unit \in Nat \ {0} /\ Rate \in Nat \ {0}
  /\ MaxDelay \in Nat /\ MaxClock \in Nat
  \* A request is not held up longer than it takes to fill the bucket.
  /\ Rate * MaxDelay <= Burst * Unit

VARIABLES
  clock,                         \* the time
  present, tokens, ts, expires,  \* the Redis hash and its expiry time
  sent,      \* sent[r]: the `now` that request r carries, or NotSent
  granted,   \* requests the script has let through
  regress,   \* ticks by which a script has moved ts back
  promise    \* earliest time a refused client was told to come back at

bucketVars == <<present, tokens, ts, expires>>
limiterVars == <<clock, bucketVars, sent, granted, regress, promise>>

NotSent == -1
NoPromise == -1

BucketTypeOK ==
  /\ clock \in Nat
  /\ present \in BOOLEAN
  /\ tokens \in 0 .. Capacity
  /\ ts \in Nat /\ expires \in Nat
  /\ sent \in [Callers -> Nat \cup {NotSent}]
  /\ granted \in Nat /\ regress \in Nat
  /\ promise \in Nat \cup {NoPromise}

BucketInit ==
  /\ clock = 0
  /\ present = FALSE /\ tokens = 0 /\ ts = 0 /\ expires = 0
  /\ sent = [r \in Callers |-> NotSent]
  /\ granted = 0 /\ regress = 0 /\ promise = NoPromise

\* EXPIRE: two refill periods, rounded up, plus one second.
TTLOneSecond == 1  \* mutant of TTL: the bucket is forgotten at once
TTL == (2 * Capacity + Rate - 1) \div Rate + 1

\* HMGET finds the hash until Redis has expired it.
Stored == present /\ clock < expires

AtMost(a, b) == IF a <= b THEN a ELSE b
AtLeast(a, b) == IF a >= b THEN a ELSE b

\* The script's lazy refill: the tokens a request carrying `now` finds.
Level(now) ==
  IF Stored THEN AtMost(Capacity, tokens + AtLeast(0, now - ts) * Rate)
            ELSE Capacity

\* tokens >= requested, where one token is requested.
AlwaysEnough(level) == TRUE  \* mutant of Enough: the test is missing
Enough(level) == level >= Unit

\* The Retry-After header (writeChatError): int(retry_after) + 1 seconds,
\* where retry_after = (requested - tokens) / rate.
WaitTruncated(level) == (Unit - level) \div Rate  \* mutant of Wait: no + 1
Wait(level) == (Unit - level) \div Rate + 1

\* Allow reads the clock.
ReadClock(r) ==
  /\ sent[r] = NotSent
  /\ sent' = [sent EXCEPT ![r] = clock]
  /\ UNCHANGED <<clock, bucketVars, granted, regress, promise>>

\* tokenBucketScript runs in Redis and its answer decides.
Script(r) ==
  LET now == sent[r]
      level == Level(now)
      back == now + Wait(level)
  IN
  /\ sent[r] # NotSent
  /\ \/ /\ Enough(level)
        /\ tokens' = level - Unit
        /\ granted' = granted + 1
        /\ promise' = NoPromise
     \/ /\ ~Enough(level)
        /\ tokens' = level
        /\ granted' = granted
        /\ promise' = IF promise = NoPromise THEN back ELSE AtMost(promise, back)
  /\ present' = TRUE
  /\ ts' = now
  /\ expires' = clock + TTL
  /\ regress' = regress + IF Stored THEN AtLeast(0, ts - now) ELSE 0
  /\ sent' = [sent EXCEPT ![r] = NotSent]
  /\ UNCHANGED clock

\* Redis is unreachable or too slow: Allow returns an error and checkRateLimit
\* lets the request pass without asking the bucket.
FailOpen(r) ==
  /\ sent[r] # NotSent
  /\ sent' = [sent EXCEPT ![r] = NotSent]
  /\ UNCHANGED <<clock, bucketVars, granted, regress, promise>>

\* Time passes; the Redis client gives up on a request after MaxDelay.
Tick ==
  /\ clock < MaxClock
  /\ \A r \in Callers : sent[r] # NotSent => clock + 1 - sent[r] <= MaxDelay
  /\ clock' = clock + 1
  /\ UNCHANGED <<bucketVars, sent, granted, regress, promise>>

BucketNext == Tick \/ \E r \in Callers : ReadClock(r) \/ Script(r) \/ FailOpen(r)

BucketSpec == BucketInit /\ [][BucketNext]_limiterVars

-----------------------------------------------------------------------------
\* The bucket admits at most a burst plus what has been refilled since the
\* start; every tick by which a late script moved the bucket's time back is
\* refilled twice. In particular the expiry of an idle bucket grants nothing:
\* "two full refill periods is long enough that an expiry can never grant
\* extra budget" (cache.go).
Budget == granted * Unit <= Capacity + Rate * (clock + regress)

\* A refused client that waits as long as Retry-After says is admitted,
\* however many other requests are refused in between, unless somebody else
\* was admitted first.
RetryAfterHolds ==
  \A r \in Callers :
    sent[r] # NotSent /\ promise # NoPromise /\ sent[r] >= promise =>
      Enough(Level(sent[r]))

\* cache.go on the script: "The whole read-modify-write runs inside one Lua
\* script so it is atomic against concurrent requests from the same client".
\* Concurrent requests would then get no more than the bucket holds.
PlainBudget == granted * Unit <= Capacity + Rate * clock
=============================================================================
