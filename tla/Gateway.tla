------------------------------ MODULE Gateway ------------------------------
(***************************************************************************)
(* The gateway process: main and openStoreWithRetry (cmd/gateway/main.go), *)
(* the configuration it starts from (internal/config/config.go) and the    *)
(* handlers of the routes (internal/api/server.go), each as the sequence   *)
(* of calls it makes on what main opens and closes: Postgres' connection   *)
(* pool (internal/store/store.go), the Kafka producer                      *)
(* (internal/queue/queue.go), Redis (internal/cache/cache.go) and the      *)
(* model API. What the calls compute is the subject of other modules.      *)
(*                                                                         *)
(* pgxpool's Close refuses new work at once and waits for connections in   *)
(* use, kafka.Writer's Close likewise for messages being written; the      *)
(* Redis client's Close waits for nothing. http.Server.Shutdown stops      *)
(* accepting and waits for the handlers without cancelling their contexts. *)
(***************************************************************************)
EXTENDS Integers, Sequences, FiniteSets

CONSTANTS
  Requests,      \* HTTP requests; each is made once
  Environments,  \* environments the process is started in
  Unset,         \* a variable that is unset or not a number
  MaxAttempts,   \* attempts of openStoreWithRetry
  MaxConns,      \* MaxConns of the pool
  MaxLives,      \* TLC: how often the process is started
  MaxFaults      \* TLC: kills, and calls that fail although their client is open

ASSUME GatewayAssumption ==
  /\ {MaxAttempts, MaxConns} \subseteq Nat \ {0}
  /\ {MaxLives, MaxFaults} \subseteq Nat

VARIABLES
  main,       \* where main is; "down" while there is no process
  attempt,    \* attempt of openStoreWithRetry
  done,       \* ctx is done: a signal, or the listener failed
  listener,   \* "none", "starting", "open", "closed"
  client,     \* client[x], x in Resources: "nil", "open", "closed"
  todo,       \* per request, the calls its handler has still to make
  using,      \* using[x], x in Waits: requests in the middle of a call on x
  reply,      \* "none" before the request is made, "pending", "ok", "failed",
              \* or "cut" by the end of the process
  overtaken,  \* requests under way when the grace ended or the process was killed
  stored,     \* uploads with a row in documents that they created
  queued,     \* uploads with a job in the ingest topic
  lives, faults

process  == <<main, attempt, done, listener, client>>
requests == <<todo, using, reply, overtaken>>
database == <<stored, queued>>
bounds   == <<lives, faults>>
vars == <<process, requests, database, bounds>>

-----------------------------------------------------------------------------
(***************************************************************************)
(* The handlers, each as its calls: the client a call is made on, and how  *)
(* many calls the handler moves on when it works and when it fails; End is *)
(* past the last one, and a call with no way on after a failure makes the  *)
(* request fail. Queries that follow each other are one call. What is read *)
(* and parsed before the first call is left out.                           *)
(***************************************************************************)
Resources == {"db", "kafka", "cache", "model"}
End == 99
Call(x, works, fails) == [on |-> x, works |-> works, fails |-> fails]

\* CreateDocument, which finds the content in the corpus or stores it; Publish.
uploadDocumentUnchecked ==  \* mutant: an error of Publish is only logged
  <<Call("db", {1, End}, {}), Call("kafka", {1}, {1})>>
uploadDocument == <<Call("db", {1, End}, {}), Call("kafka", {1}, {})>>

getDocument == <<Call("db", {1}, {})>>
listDocuments == <<Call("db", {1}, {})>>
getConversation == <<Call("db", {1}, {})>>
stats == <<Call("db", {1}, {}), Call("db", {1}, {1})>>
healthz == <<>>
readyz == <<Call("db", {1}, {}), Call("db", {1}, {})>>

\* GetEmbedding, Embed, PutEmbedding.
embedQuestion ==
  <<Call("cache", {1, 3}, {1}), Call("model", {1}, {2}), Call("cache", {1}, {1})>>

\* Search: embed, search, rerank.
searchOnly == embedQuestion \o <<Call("db", {1}, {}), Call("model", {1}, {1})>>

\* EnsureConversation; the limiter; history and corpus version; GetAnswer, after
\* which a hit is only logged; embed; search, after which a refusal is only
\* logged; rerank; the stream; PutAnswer; the two messages; the log.
chatStream ==
  <<Call("db", {1}, {1}), Call("cache", {1, End}, {1}), Call("db", {1}, {1}),
    Call("cache", {1, 9}, {1})>>
    \o embedQuestion
    \o <<Call("db", {1, 5}, {}), Call("model", {1}, {1}), Call("model", {1}, {}),
         Call("cache", {1}, {1}), Call("db", {1}, {1}), Call("db", {1}, {1})>>

Routes == {uploadDocument, getDocument, listDocuments, getConversation, stats,
           healthz, readyz, searchOnly, chatStream}

Plans == {SubSeq(h, n, Len(h)) : h \in Routes, n \in 1 .. End}

InFlight == {r \in Requests : reply[r] = "pending"}
Pending(r) == r \in InFlight /\ todo[r] # <<>>
On(r) == Head(todo[r]).on
\* Pool and producer wait for the calls under way when they are closed.
Waits == {"db", "kafka"}

TypeOK ==
  /\ main \in {"down", "open", "migrate", "redis", "producer", "serving", "drain",
               "closing", "flush", "redisClose", "poolClose", "poolWait"}
  /\ attempt \in 0 .. MaxAttempts
  /\ done \in BOOLEAN
  /\ listener \in {"none", "starting", "open", "closed"}
  /\ client \in [Resources -> {"nil", "open", "closed"}]
  /\ todo \in [Requests -> Plans]
  /\ reply \in [Requests -> {"none", "pending", "ok", "failed", "cut"}]
  /\ using \in [Waits -> SUBSET InFlight]
  /\ {overtaken, stored, queued} \subseteq SUBSET Requests
  /\ Cardinality(using["db"]) <= MaxConns
  /\ {lives, faults} \subseteq Nat

NoClients == [x \in Resources |-> IF x = "model" THEN "open" ELSE "nil"]

Init ==
  /\ main = "down" /\ attempt = 0 /\ done = FALSE
  /\ listener = "none" /\ client = NoClients
  /\ todo = [r \in Requests |-> <<>>] /\ reply = [r \in Requests |-> "none"]
  /\ using = [x \in Waits |-> {}] /\ overtaken = {}
  /\ stored = {} /\ queued = {}
  /\ lives = 0 /\ faults = 0

-----------------------------------------------------------------------------
(***************************************************************************)
(* main, from its start to the listener.                                   *)
(***************************************************************************)

\* The process ends: handlers still running go with it.
Exit ==
  /\ main' = "down" /\ attempt' = 0 /\ done' = FALSE
  /\ listener' = "none" /\ client' = NoClients
  /\ using' = [x \in Waits |-> {}]
  /\ reply' = [r \in Requests |-> IF r \in InFlight THEN "cut" ELSE reply[r]]
  /\ todo' = [r \in Requests |-> <<>>]

\* envInt: a value that is not a number is the default.
EnvInt(v, default) == IF v = Unset THEN default ELSE v

\* Load, as far as it refuses a configuration.
Load(e) ==
  [dim |-> EnvInt(e.dim, 1536), context |-> EnvInt(e.context, 5),
   rerank |-> EnvInt(e.rerank, 12)]
Accepted(c) == c.dim <= 2000 /\ c.context <= c.rerank

Start(e) ==
  /\ main = "down" /\ lives < MaxLives
  /\ lives' = lives + 1
  /\ main' = IF Accepted(Load(e)) /\ e.key THEN "open" ELSE "down"
  /\ UNCHANGED <<attempt, done, listener, client, requests, database, faults>>

\* SIGINT or SIGTERM. A second one changes nothing.
Signal ==
  /\ main # "down" /\ ~done
  /\ done' = TRUE
  /\ UNCHANGED <<main, attempt, listener, client, requests, database, bounds>>

\* openStoreWithRetry: store.Open works, or there is a pause and another
\* attempt; a signal ends the pause.
OpenStore ==
  /\ main = "open"
  /\ \/ /\ ~done
        /\ main' = "migrate" /\ client' = [client EXCEPT !["db"] = "open"]
        /\ UNCHANGED <<attempt, done, listener, requests>>
     \/ /\ ~done /\ attempt + 1 < MaxAttempts
        /\ attempt' = attempt + 1
        /\ UNCHANGED <<main, done, listener, client, requests>>
     \/ /\ done \/ attempt + 1 = MaxAttempts
        /\ Exit /\ UNCHANGED overtaken
  /\ UNCHANGED <<database, bounds>>

\* Migrate: a failure, or a signal, is fatal.
Migrate ==
  /\ main = "migrate"
  /\ \/ /\ ~done
        /\ main' = "redis"
        /\ UNCHANGED <<attempt, done, listener, client, requests>>
     \/ Exit /\ UNCHANGED overtaken
  /\ UNCHANGED <<database, bounds>>

\* Without an answer to its ping the process does without Redis until it ends.
PingRedis ==
  /\ main = "redis"
  /\ main' = "producer"
  /\ \/ ~done /\ client' = [client EXCEPT !["cache"] = "open"]
     \/ UNCHANGED client
  /\ UNCHANGED <<attempt, done, listener, requests, database, bounds>>

\* EnsureTopics (a failure is only logged), NewProducer, and the goroutine that
\* listens.
OpenProducer ==
  /\ main = "producer"
  /\ client' = [client EXCEPT !["kafka"] = "open"]
  /\ listener' = "starting"
  /\ main' = "serving"
  /\ UNCHANGED <<attempt, done, requests, database, bounds>>

\* ListenAndServe: it listens, or fails and calls stop; after Shutdown it
\* returns at once.
Listen ==
  /\ listener = "starting"
  /\ \/ main = "serving" /\ listener' = "open" /\ UNCHANGED done
     \/ main = "serving" /\ listener' = "closed" /\ done' = TRUE
     \/ main # "serving" /\ listener' = "closed" /\ UNCHANGED done
  /\ UNCHANGED <<main, attempt, client, requests, database, bounds>>

-----------------------------------------------------------------------------
(***************************************************************************)
(* main, from the signal to its end: Shutdown with a grace of 20 seconds,  *)
(* then the deferred calls, the last one first.                            *)
(***************************************************************************)
Shutdown ==
  /\ main = "serving" /\ done
  /\ main' = "drain"
  /\ listener' = IF listener = "open" THEN "closed" ELSE listener
  /\ UNCHANGED <<attempt, done, client, requests, database, bounds>>

DrainedAtOnce == TRUE  \* mutant of Drained: Shutdown is not waited for
Drained == InFlight = {}

\* Shutdown returns nil, or its context is done first.
NoGrace == FALSE  \* mutant of GraceEnds: context.Background()
GraceEnds == InFlight # {}

ShutdownReturns ==
  /\ main = "drain"
  /\ \/ Drained /\ UNCHANGED overtaken
     \/ GraceEnds /\ overtaken' = overtaken \cup InFlight
  /\ main' = "closing"
  /\ UNCHANGED <<attempt, done, listener, client, todo, using, reply,
                 database, bounds>>

Close(x, from, to) ==
  /\ main = from
  /\ main' = to
  /\ client' = [client EXCEPT ![x] = IF @ = "open" THEN "closed" ELSE @]
  /\ UNCHANGED <<attempt, done, listener, requests, database, bounds>>

CloseProducer == Close("kafka", "closing", "flush")
Flushed ==
  /\ main = "flush" /\ using["kafka"] = {}
  /\ main' = "redisClose"
  /\ UNCHANGED <<attempt, done, listener, client, requests, database, bounds>>
CloseRedis == Close("cache", "redisClose", "poolClose")
ClosePool == Close("db", "poolClose", "poolWait")
MainReturns ==
  /\ main = "poolWait" /\ using["db"] = {}
  /\ Exit
  /\ UNCHANGED <<overtaken, database, bounds>>

\* What a call of r on x brings about: a row, or a job.
Effect(r, x) ==
  /\ stored' = IF x = "db" THEN stored \cup {r} ELSE stored
  /\ queued' = IF x = "kafka" THEN queued \cup {r} ELSE queued
Creates(r) == todo[r] = uploadDocument
Publishes(r) == On(r) = "kafka"

\* The process is killed. A call that is under way may or may not take effect.
Kill ==
  /\ main # "down" /\ faults < MaxFaults
  /\ faults' = faults + 1
  /\ overtaken' = overtaken \cup InFlight
  /\ \E S \in SUBSET {r \in using["db"] : Creates(r)} : stored' = stored \cup S
  /\ \E S \in SUBSET using["kafka"] : queued' = queued \cup S
  /\ Exit
  /\ UNCHANGED lives

-----------------------------------------------------------------------------
(***************************************************************************)
(* Requests.                                                               *)
(***************************************************************************)
Arrive(r, h) ==
  /\ listener = "open" /\ reply[r] = "none"
  /\ reply' = [reply EXCEPT ![r] = "pending"]
  /\ todo' = [todo EXCEPT ![r] = h]
  /\ UNCHANGED <<process, using, overtaken, database, bounds>>

\* A query waits for a connection of the pool.
BeginUnpooled(r) ==  \* mutant of Begin: a connection for every query
  /\ Pending(r) /\ On(r) \in Waits /\ r \notin using[On(r)]
  /\ client[On(r)] = "open"
  /\ using' = [using EXCEPT ![On(r)] = @ \cup {r}]
  /\ UNCHANGED <<process, todo, reply, overtaken, database, bounds>>
Begin(r) ==
  /\ Pending(r) /\ On(r) \in Waits /\ r \notin using[On(r)]
  /\ client[On(r)] = "open"
  /\ On(r) = "db" => Cardinality(using["db"]) < MaxConns
  /\ using' = [using EXCEPT ![On(r)] = @ \cup {r}]
  /\ UNCHANGED <<process, todo, reply, overtaken, database, bounds>>

UnderWay(r) ==
  /\ Pending(r)
  /\ IF On(r) \in Waits THEN r \in using[On(r)] ELSE client[On(r)] = "open"

GoesOn(r, n) ==
  todo' = [todo EXCEPT ![r] = SubSeq(@, n + 1, Len(@))] /\ UNCHANGED reply
GivesUp(r) ==
  IF Head(todo[r]).fails = {}
    THEN /\ reply' = [reply EXCEPT ![r] = "failed"]
         /\ todo' = [todo EXCEPT ![r] = <<>>]
    ELSE \E n \in Head(todo[r]).fails : GoesOn(r, n)

\* s.Cache == nil
Skip(r) ==
  /\ Pending(r) /\ client[On(r)] = "nil"
  /\ GoesOn(r, 1)
  /\ UNCHANGED <<process, using, overtaken, database, bounds>>

\* A closed client refuses the call.
Denied(r) ==
  /\ Pending(r) /\ ~UnderWay(r) /\ client[On(r)] = "closed"
  /\ GivesUp(r)
  /\ UNCHANGED <<process, using, overtaken, database, bounds>>

\* Close of the rows, or of the response's body.
ReleaseLeaks(r) == UNCHANGED using  \* mutant of Release: the rows stay open
Release(r) == using' = [x \in Waits |-> using[x] \ {r}]

Works(r) ==
  /\ UnderWay(r)
  /\ Release(r)
  /\ \E n \in Head(todo[r]).works :
       /\ GoesOn(r, n)
       /\ IF n = 1 /\ (Creates(r) \/ Publishes(r))
            THEN Effect(r, On(r)) ELSE UNCHANGED <<stored, queued>>
  /\ UNCHANGED <<process, overtaken, bounds>>

\* The service refuses, or its answer is lost on the way.
Fails(r) ==
  /\ UnderWay(r) /\ faults < MaxFaults
  /\ faults' = faults + 1
  /\ Release(r)
  /\ GivesUp(r)
  /\ \/ (Creates(r) \/ Publishes(r)) /\ Effect(r, On(r))
     \/ UNCHANGED <<stored, queued>>
  /\ UNCHANGED <<process, overtaken, lives>>

Respond(r) ==
  /\ r \in InFlight /\ todo[r] = <<>>
  /\ reply' = [reply EXCEPT ![r] = "ok"]
  /\ UNCHANGED <<process, todo, using, overtaken, database, bounds>>

-----------------------------------------------------------------------------
Main ==
  \/ OpenStore \/ Migrate \/ PingRedis \/ OpenProducer
  \/ Shutdown \/ ShutdownReturns
  \/ CloseProducer \/ Flushed \/ CloseRedis \/ ClosePool \/ MainReturns

Handle(r) == Begin(r) \/ Skip(r) \/ Denied(r) \/ Works(r) \/ Fails(r) \/ Respond(r)

Next ==
  \/ \E e \in Environments : Start(e)
  \/ Main \/ Listen \/ Signal \/ Kill
  \/ \E r \in Requests : Handle(r) \/ \E h \in Routes : Arrive(r, h)

Spec == Init /\ [][Next]_vars

\* The goroutines run, the grace is a timer, and Postgres, Redis and Kafka
\* answer. Nothing is assumed of the model API. Clients send and read.
AtModel(r) == Pending(r) /\ On(r) = "model"
FairSpec ==
  /\ Spec
  /\ WF_vars(Main) /\ WF_vars(Listen)
  /\ \A r \in Requests : WF_vars(~AtModel(r) /\ Handle(r))

-----------------------------------------------------------------------------
\* "shutting down; draining in-flight answers": a request that was accepted is
\* not cut off, and none of its clients is closed under it, unless it outlasts
\* the grace or the process is killed.
DrainIsGraceful ==
  /\ \A r \in Requests : reply[r] = "cut" => r \in overtaken
  /\ \A r \in InFlight, x \in Resources : client[x] = "closed" => r \in overtaken

\* A client that was told its document is accepted is right, whenever shutdown
\* or a kill struck: a document that is stored and not queued is the work of an
\* upload that was told so or got no reply. And no job is published for a
\* document that is not stored.
OrphanIsReported ==
  /\ \A r \in stored \ queued : reply[r] # "ok"
  /\ queued \subseteq stored

\* After a signal the process ends, although the model API may never answer:
\* the grace is limited, and no deferred call waits for a request that does not
\* end.
StopsAfterSignal == done ~> main = "down"

\* A request is answered, or waits for the model API: no number of requests
\* that share the pool's connections keeps one from its own. That is a property
\* of the pool and the services; a handler that waits for its own client, to send
\* the body or to read the answer, is not part of this module (see ModelCalls).
RequestsAdvance ==
  \A r \in Requests :
    reply[r] = "pending" ~> (reply[r] # "pending" \/ AtModel(r))
=============================================================================
