# Ragline in TLA+

Ragline is a retrieval-augmented question answering service: a Go gateway
(uploads, chat, search), Python ingest workers behind a Kafka topic, PostgreSQL
with pgvector and trigger-maintained BM25 statistics, and Redis for the answer
cache and the rate limiter. This directory holds TLA+ models of the parts of it
that carry logic, the TLC runs that check them on small instances, and TLAPS
proofs of the main results for every instance.

Run everything from this directory:

    tlc -workers 2 -config Ingest.cfg MCIngest      # one run, see "Runs"
    tlapm IngestProofs.tla                          # one proof module

`PROJECT.json` is the machine-readable index: which definition stands for which
lines of `src/`, which run checks which property, a mutant of the code's model
for each property (TLC finds the property violated when the mutant replaces the
definition), the hazards and the theorems.

## The system

| component | state | operations | talks to |
|---|---|---|---|
| upload handler (`internal/api/server.go`, `store.go`, `queue.go`) | row of `documents`, keyed by content hash | `uploadDocument`: insert or find, then `Publish` | Postgres, Kafka |
| ingest topic (Kafka, external) | log and committed offset per partition, partition owners | append, assign, evict, commit | gateway, workers |
| ingest worker (`workers/ingest/worker.py`) | message in hand, open transaction, running flag | `run`, `handle`, `ingest`, `fail`, `stop` | Kafka, Postgres, embedding API |
| chunker (`chunking.py`) | none between documents | `split_sections`, `chunk_document`, `_split_oversized` | worker |
| embedding client (`embedding.py`) | attempt, vectors so far | `embed_documents`, `_batch`, `_post` | worker |
| BM25 statistics (`schema.sql`) | `chunk_terms`, `chunk_stats`, `corpus_terms`, `corpus_stats` | insert and delete triggers, backfill | every ingest transaction |
| chat request (`internal/chat/chat.go`, `server.go`) | history, version, candidates, answer | `chatStream`, `Answer` | all of the below |
| answer cache (`internal/cache/cache.go`) | `ans:*` entries with a TTL | `AnswerKey`, `GetAnswer`, `PutAnswer`, `InvalidateAnswers` | chat requests |
| rate limiter (`cache.go`, `chat.go`) | one Redis hash per client | `Allow`, the Lua script, `checkRateLimit` | chat requests |
| retrieval and reranking (`store.go`, `rerank.go`) | none | `HybridSearch`, `KeywordSearch`, `Rerank` | chat requests |
| citations (`chat.go`) | none between answers | `parseCitations`, `stripUnknownMarkers`, `hydrateCitations` | generator, cache |
| generation client (`internal/llm/gemini.go`) | attempt, deadline, tokens emitted | `Stream`, `openStream`, `Generate`, `doWithRetry` | chat requests, reranker |
| gateway's embedding client (`internal/embed/embed.go`) and the embedding cache (`cache.go`) | attempt; `emb:*` entries | `embedQuestion`, `Embed`, `post`, `GetEmbedding`, `PutEmbedding` | chat and search requests |
| gateway process (`cmd/gateway/main.go`, `internal/config/config.go`) | pool, producer, Redis client, listener, the context signals cancel | `Load`, `openStoreWithRetry`, `Migrate`, `ListenAndServe`, `Shutdown`, deferred `Close`s | every handler |
| read-only endpoints (`server.go`) | none of their own | `getDocument`, `listDocuments`, `getConversation`, `searchOnly`, `stats`, `healthz`, `readyz` | pool, cache, models |
| request logging, client identification, evaluation, deployment | none of their own | formatting | |

The two halves of the system meet in the `chunks` table. Its contract is the
abstract module `Corpus`: a document has no chunks or exactly one complete
generation of them, a re-ingest swaps generations in one step, and "ready" comes
only with such a step. `Ingest` is shown to implement `Corpus`, and `Chat` uses
`Corpus` as the world its requests run in.

What is hard in this code, and what has to be true all the same:

* **Delivery.** Workers die, are evicted, or raise at any statement; Kafka
  redelivers; retries are new messages without a key. No document may be dropped
  or left half-written, and none may fail in silence.
* **Racing transactions.** Two workers can replace the chunks of one document at
  once. PostgreSQL's READ COMMITTED snapshots, row locks and a unique index
  decide who wins; the code has no lock of its own.
* **Maintained counters.** Document frequencies are increments in triggers. One
  missed decrement is wrong for ever, and the locks they take cross documents.
* **Reading at one time, using at another.** A chat request reads the corpus
  version, searches, generates for seconds and then stores the answer under the
  version it read first, while ingests commit.
* **Time.** The rate limiter's clock is read outside its atomic script; versions
  have a resolution of a second; retries have a budget that is checked before
  the pause.
* **Partial failure.** Redis, the embedding API, the reranker and the client may
  each fail in the middle of a request, and each failure has its own path.
* **The end of the process.** A signal, a kill or a failed listener meets
  requests in the middle of their calls; the pool, the producer and Redis are
  closed in an order of the code's choosing, perhaps while they are in use.
* **Boundaries.** Chunk budgets, heading levels, batch lengths, ranks, markers.

## Modules

Each component has a module of its own; `MC*` modules give the constants values
for TLC; `*Proofs` modules extend the component with its theorems
(`GatewayProofs` also has those of `RateLimiter`, whose specification is
`BucketSpec` so that the two can be extended together).

### Corpus
`index[d]` is the generation a reader sees, `ready` the documents with status
"ready". `Replace` installs a newer generation, `Unready` takes the status away.

### Ingest
State: the columns of `documents`, the committed `rows` of `chunks` as pairs
(ordinal, generation), the Kafka logs, offsets and owners, and per worker its
control point, message and open transaction (`gen`, `snap`, `del`, `ins`). The
worker's connection is in autocommit mode, so each statement outside the
transaction is one step. The transaction is split where PostgreSQL takes a
snapshot (`BeginReplace`), waits for a row lock (`DeleteOld`), waits for or fails
on the unique index (`InsertChunk`, `UniqueViolation`) and commits
(`CommitReplace`, with the UPDATE of `documents`). `FailUpdate` and `SendRetry`
or `SendDead` are the two halves of `fail`, in the code's order: first the row,
then the message. `CommitOffset` kills a worker that no longer owns the partition
(nothing catches `CommitFailedError`). `Crash` can happen at every point; `Evict`
takes a busy worker's partition without its noticing; `SendLost` is the
producer's fire-and-forget send; `Publish` may append twice (the writer retries)
and `PublishLost` not at all. Each kind of fault has a budget, `MaxFaults`.

Kafka and the group protocol are external: a partition moves only to an idle
worker (joining happens in `poll`), and a new owner starts at the committed
offset. Documents are identified with their hashes; content is reduced to the
number of chunks, and to whether `strip()` leaves anything.

### BM25Stats
Transactions of different documents, each deleting a document's old chunks and
inserting the new ones; per chunk the trigger touches one `corpus_terms` row per
term in an order the executor chooses and then the row of `corpus_stats`. Rows
stay locked to the end of the transaction; `Block` is the wait, `Abort` any
rollback, the deadlock victim included. `Migrate` creates the triggers and runs
the backfill over chunks that were there before.

### Chat
One action per call that `Answer` makes: `Start` (with `EnsureConversation`),
`Admit`, `ReadHistory`, `ReadVersion`, `Lookup`, `Retrieve`, `Generate`, `Put`,
`AppendUser`, `AppendAssistant`, `LogQuery`. A call on the request's context
fails once the client is gone, and may fail before through a fault of its
service; what the code does then (ignore, degrade, end) is the action's other
disjunct. A question stands for its normalised form. Of an answer only its
grounding is kept: the corpus and the history its request had read. `seen`,
`ground`, `blame` and `prior` (the requests that had already ended in an answer in
the conversation) are observers.

### RateLimiter
One client's bucket: the Redis hash with its expiry, and requests (`Callers`) that
have read the clock and whose script has not run. Tokens are counted in units so that the
fractional refill is exact (`Unit`, `Rate`); Lua's and the header's roundings are
the code's. `regress` counts how far late scripts have moved the time back.

### Citations, Retrieval, Chunking
Algorithms, as state machines with one step per loop iteration or stage, over
every input of a bounded size. Each is compared with a definition that has none
of the loops: what a marker resolves to, the order both rankers agree on, the
outline of a document.

`Citations` starts from the frames a stream delivers, some of them without usable
text (`mute`); the stream may break at any point (`Break`), and only one that was
read to its end is verified and cached. A frame stands for its marker group.
`Retrieval` takes the two rankings and the reply of the scoring model as inputs;
a reply is a list of objects, a list of lists of them or a list of numbers, and an
entry is addressed by its group and its place in it, so that `ScoresOf` finds all
entries on a passage in each of the three forms. The reciprocal ranks are exact
fractions. In `Chunking` a document is a sequence of lines of which kind, level,
title and length are kept; a text is its length and the pieces of lines it is made
of, and what a cut may repeat for overlap is in its length only.

### ModelCalls
The four retry loops around the model API, with time, as one module whose
variable `client` says which of them runs: `Stream` with `openStream`, `Generate`
with `doWithRetry`, `embedQuestion` with its cache and `post`, and the worker's
`embed_documents` with its batches and the length checks that keep vectors
aligned with chunks. They share attempts, pauses and the shape of the loop and
differ in what bounds them: only the first two have a budget, only the worker
honours a delay the peer asks for, and only the gateway's three have a context
that a hang-up cancels.

Two things no timer of the code bounds. `Stream` hands each token to `onEvent`
before it reads on, and `onEvent` writes to the gateway's client on a connection
without a `WriteTimeout` (`main.go:105`); that wait is the control point `emit`,
and `Emitted` ends it. What is then read may be buffered or may meet the timeout
long after it (`Reads`). The worker's timeout is one per socket operation and
bounds no exchange. Both take a time out of `Holds`, and `held` adds it up, so that
a property can tell a call's own time from the time it was held up.

### Gateway
The process: `main` with its control point, the configuration it accepts, the
listener's goroutine, and what main opens and closes (`client`: the pool, the
producer, Redis; the model client is never closed). A handler is the sequence of
calls it makes on these, with how far it moves on when a call works or fails
(`chatStream` skips to its log after a hit or a refusal, for instance); what the
calls compute is the subject of the other modules. `todo[r]` is what is left of
it. Handlers that make the same calls are the same to this module, as the three
single-row reads are. Queries wait for one of `MaxConns` connections; `Close` of
the pool and of the producer refuse new calls at once and wait for those under
way (`using`), Redis' waits for nothing, and `Shutdown` waits for the handlers
until its grace ends (`GraceEnds`, a timer, so it may end at any moment). `Kill`
and `Fails` leave it open whether a call under way took effect. `overtaken`,
`stored` and `queued` are observers. Libraries are external: `http.Server`,
`pgxpool`, `kafka.Writer`.

## Runs

Deadlock checking is off everywhere: uploads, questions and faults are finite in
each instance, and a system in which everything has been handled stops.

| run | config | shows | bounds |
|---|---|---|---|
| `ingest` | `Ingest.cfg` | `WholeGeneration`, `CountMatchesRows`, `NoLostJob`, `UnsettledIsLive`, `FailedIsDeadLettered`, `JobsDoNotMultiply`, `AckOnlyAfterOutcome`, `RefinesCorpus`, `TypeOK` | one document of two chunks, two workers, two partitions, two attempts; a crash, two exceptions, an eviction, a lost and a duplicated message and a repeated upload, in any order |
| `ingest_settles` | `IngestSettles.cfg` | `EventuallySettled` under `FairSpec` | two documents on one partition, one of them blank; one worker may die and one be stopped; no symmetry |
| `ratelimiter` | `RateLimiter.cfg` | `Budget`, `RetryAfterHolds`, `BucketTypeOK` | three concurrent requests, a burst of two, a refill of 2/3 token per second, scripts up to 3 s late, 12 s (longer than the expiry) |
| `chat_cache` | `ChatCache.cfg` | `NewDocumentsSeen` | two requests with one question, two documents ingested up to twice, two seconds, transactions up to a second long |
| `chat_turns` | `ChatTurns.cfg` | `FollowUpStaysPrivate`, `VisibleIsLogged`, `DegradesNotFails`, `TurnIsRecorded`, `TypeOK` | two requests, each in a conversation or not, with or without the cache; both clients may leave; one failing call of any service |
| `chat_followup` | `ChatFollowUp.cfg` | **violated**: `FollowUpNotShared` | three requests, no fault |
| `bm25_stats` | `BM25Stats.cfg` | `StatsAgree` | three documents sharing terms, one with a chunk of stop words only, three workers, an upgrade at any point before |
| `citations` | `Citations.cfg` | `VerifiedAnswerResolves`, `ReplayKeepsSources`, `CachedIsWhole` | every stream of up to two frames with up to two markers from 0 to 4, any of them mute, broken off anywhere or not; one to three sources |
| `chunking` | `Chunking.cfg` | `NothingLost`, `OneSubject`, `SizeIsBounded` | every document of up to five of nine lines: fences, headings of three levels, sentences below, at and above the budget |
| `model_calls` | `ModelCalls.cfg` | `OneAnswerShown`, `Aligned`, `OwnTimeIsBounded`, `CallEnds`, `TypeOK` | each client; quick attempts use up the retries, one slow one the budget; three tokens, each write quick or longer than the timeout; several batches, replies one short or one long anywhere, delays below and above the cap; the embedding cache empty, right or wrong |
| `gateway` | `Gateway.cfg` | `DrainIsGraceful`, `OrphanIsReported`, `StopsAfterSignal`, `RequestsAdvance`, `TypeOK` | two requests of any kind that share one connection; two lives of the process; a failing call or a kill anywhere; signals anywhere; a configuration that is refused and one that is not |
| `retrieval` | `Retrieval.cfg` | `FusionIsMonotone`, `AgreementWins`, `BestScoreFirst`, `DegradedStillServes` | every pair of rankings of four chunks, cut off at two (vectors) and three (keywords), replies of two scores, nested or not, with indexes inside and outside the pool, and of up to four bare numbers |

Why these bounds are enough. A race in `Ingest` needs two transactions of one
document and a third generation to be overwritten, which two workers with a
duplicated message, a redelivery and a retry produce; a second document matters
only where one can hold up another on its partition, which is `ingest_settles`.
The safety results of `ingest`, `ratelimiter`, `chat_cache`, `chat_turns`,
`bm25_stats`, `gateway`, `model_calls`, `citations`, `chunking` and `retrieval` are
proved for every instance, so their bounds only have to make the interesting cases
happen; the mutants show that they do. In `Chat` every hazard is between two
requests and the corpus, or between two turns and a stranger (`chat_followup` has
the third request). A lock cycle takes two transactions; the third document and worker give
`StatsAgree` more to interleave. In `Gateway` the hazards are between one request and the
process, or between two requests and a connection; `MaxAttempts` is 2 for the
code's 30 and `MaxConns` 1 for its 12, so that both limits are met. In the
algorithm modules each boundary (one
below, at, one above) is in the input alphabet, and cut-offs are smaller than the
input.

### Fairness

`ingest_settles`: weak fairness of the gateway's request after the INSERT, of
every step of a live worker, and of the assignment of a free partition. These are
a running goroutine, a running process and the group coordinator. Restart is not
fair, because `deploy/docker-compose.yml` has no restart policy, and no fault is;
the property therefore excuses documents once no worker is up, and documents
whose message was lost or whose worker was evicted (see the deviations).

`model_calls`: weak fairness of a call's own steps, and only while it waits for
something that a timer ends: an exchange or a read of the gateway (the HTTP
client's timeout), a pause (its timer). Nothing is assumed of a write to the client
nor of an exchange of the worker (`Unbounded`), and `CallEnds` excludes exactly the
calls in which one of these never returns. Clients need not hang up.

`gateway`: weak fairness of main's goroutine, of the listener's, and of each
handler unless it is at a call on the model API. That is: goroutines run, the
grace is a timer, and Postgres, Redis and Kafka answer or refuse. Nothing is
assumed of the model API, of signals, kills or restarts; `StopsAfterSignal` and
`RequestsAdvance` are about a model API that never answers. A handler that waits
for its own client, for the rest of a body or for a stalled reader, is not in this
module: the server has no `ReadTimeout` for bodies and no `WriteTimeout`, and
`RequestsAdvance` says nothing of such a handler. Weak fairness is
enough for a connection of the pool because the requests of an instance are
finite (and pgxpool queues its waiters).

## Proofs

| theorems | module | for every |
|---|---|---|
| `TypeCorrect`, `CorpusIsWhole`, `CountIsExact`, `PipelineImplementsCorpus` | `IngestProofs` | set of documents, workers, partitions; number of chunks, attempts, faults |
| `JobsAreNotLost`, `AcksFollowOutcomes`, `UnsettledHasJob`, `FailuresReachDeadLetters`, `RetriesDoNotMultiply` | `IngestProofs` | as above |
| `StatisticsAgree` | `BM25StatsProofs` | finite sets of documents and terms, frequencies, set of workers |
| `CacheHidesNothing`, `ChatTypeCorrect`, `FollowUpsKeepPrivate`, `VisibleAreLogged`, `OnlyEssentialsFail`, `TurnsAreKept` | `ChatProofs` | set of documents, requests, conversations; faults |
| `AnswersResolve`, `CacheHoldsWholeAnswers`, `ReplaysKeepSources` | `CitationsProofs` | stream, numbers in brackets, number of sources |
| `BucketTypeCorrect`, `BudgetHolds`, `RetryAfterIsKept` | `GatewayProofs` | burst, rate, number of requests |
| `GatewayTypeCorrect`, `DrainNeverCuts`, `AcceptedIsQueued` | `GatewayProofs` | set of requests; number of connections, attempts, lives, faults |
| `CallTypeCorrect`, `StreamIsOneAnswer`, `VectorsBelong`, `CallsKeepTime` | `ModelCallsProofs` | number of retries, texts, tokens; batch size, budget, timeout, pauses, hold-ups |
| `FusionMonotone`, `AgreementFirst`, `BestServedFirst`, `DegradedServes` | `RetrievalProofs` | finite set of chunks, two rankings of them, cut-offs, replies of the scoring model |
| `EverythingIsChunked`, `HeadingsAreTheirs`, `ChunksAreBounded` | `ChunkingProofs` | document, set of lines it is made of, sizes |

They rest on the named assumptions of the modules: `ConstantsAssumption`,
`CallAssumption`, `GatewayAssumption`, `CitationsAssumption`, `RetrievalAssumption`
and `ChunkingAssumption` (the constants have their types; the chunks are finitely
many, the sizes and cut-offs positive, and no line is empty: blank ones have nothing
that could be lost and are left out of a document),
`ChatAssumption` (among others, an ingested document has a chunk: `ingest` raises
on none), `BM25Assumption` (finitely many documents and terms, each document with
a chunk) and `BucketAssumption` (positive burst and rate; a request is not held up
longer than a bucket takes to fill, without which a bucket could expire under a
script that is under way). Three properties have a condition of their own, which
each theorem keeps as it stands: `AgreementWins` is about an `RRFK` no smaller than
the cut-offs (60 against 30 and 30), `SizeIsBounded` about documents without a
sentence longer than the budget and a target that leaves room for a joint (2400
against 3600), `OneSubject` about documents that skip no heading level. What happens
otherwise is under "Deviations".

*Types.* `Ingest!TypeOK` needs `BusyHasJob`: a worker past `poll` has a job and a
partition. That no job beyond `MaxAttempts` is queued is where the two conditions
of `fail` must agree.

*Replacement.* `WholeGeneration` says nothing of open transactions, so it is not
inductive. `ReplaceInv` adds, per transaction (`TxInv`), that once it has inserted
a row it has deleted every committed row of its document, and, per pair (`Apart`),
that no two transactions of a document have inserted. The proof is one step per
action; the interesting ones are `InsertChunk`, where the absence of a conflict
on ordinal 0 shows that the transaction saw everything there was, and
`CommitReplace`, which replaces one generation by another. `CountIsExact` adds
the cardinality of a generation. The refinement follows from `OnlyCommitIndexes`
(no other action changes what a reader sees) and `CommitInstalls`.

*Delivery.* `NoLostJob` may rest on the very job whose offset is being committed.
`DeliveryInv` adds that a worker which owns its partition holds the job at the
committed offset (`Held`), and that a worker about to commit has an outcome
(`AckHasOutcome`): rows, a dead letter, or a live job *with a higher attempt*. The
attempt is needed: without it two workers could each rely on the other's job and
both commit.

`UnsettledIsLive` and `FailedIsDeadLettered` are lost in the same way, at the
commit of the job they rest on. `SettleInv` states them with jobs that no worker
is done with (`OpenFor`, `LastUnacked`) and adds that only an eviction takes a
partition from a busy worker (`OwnsUnlessEvicted`), which is why the properties
excuse evicted documents. `JobsDoNotMultiply` counts jobs; a worker that was
evicted in the middle of one has none and may still send a retry. `SpreadInv`
counts those workers (`Adrift`) with the jobs: every action then adds at most one,
and only a crash, an eviction or a duplicated write adds any.

*Statistics.* `StatsAgree` speaks of committed rows only; a commit installs what
its transaction has written. `StatsInv` says what that is. `Present` tells whether
a row counts a chunk at this point of the transaction on its document, from the
triggers that are left; a row that the transaction holds has the count over `View`
(`Written`), and one it does not hold is one its triggers have not changed yet
(`Untouched`). With that, one update of a trigger is one chunk in or out of a
set (`TermDone`, `StatsDone`), the `GREATEST(..., 0)` of the delete trigger never
cuts anything off, and a commit leaves the invariants of the others alone because
locks are exclusive: a row that a commit changes is held by nobody else. That the
delete trigger subtracts the right length (`DeletedLengthIsLength`) covers chunks
the backfill gave no `chunk_stats` row: they have no terms. A length is the
cardinality of a set of tokens, so sums need no recursion.

*Bucket.* `Funded` counts what has been granted and what is in the bucket against
the refill up to `ts`; `ExpiryLate` and `ClocksBehind` show that a bucket which
has expired would have been full anyway, so that forgetting it gives nothing away;
`TokenOwed` is the promise of Retry-After carried through later refusals.

*Cache.* The version has three parts, and only one carries the argument: the
number of chunks never falls and grows with every new document, so equal versions
mean equal sets of documents (`CountIdentifies`), whatever the clock does. The
search comes after the version (`SearchIsLater`), so what is stored under a
version is grounded in at least its documents (`EntriesGrounded`).

*Turns.* The properties of a finished request follow from where it has been:
`Course` says for each control point which outcome, which blame and which turns go
with it. `EntriesPrivate` needs the author's control point, since a request that
had yet to read its history could still acquire one. `TurnsAreKept` holds because
other requests only append to `messages`. That alone says nothing of follow-ups:
whether a request follows an answer is a fact about other requests, and what it can
know of them is what they left in `messages`. `LinkInv` joins the two: who was there
before a request is over (`PriorOver`), a generated answer among them has left its
turn, so the request's history is not empty unless the database or its client failed
it (`KnowsPrior`, by `TurnIsHistory`), and the author of an entry or of a message was
answered (`Authors`) and, once it is over, logged. `FollowUpsKeepPrivate` and
`VisibleAreLogged` follow; neither is true of a hit, which leaves no turn, nor of a
refusal.

*Citations.* Everything rests on one fact about numbers: a finite set of them has
exactly one increasing enumeration (`ListingExists`, `ListingCovers`,
`ListingUnique`), so `SortedSeq` lists each valid marker once. It gives what
`stripUnknownMarkers` leaves (`StripMarkers`) and that a frame read later comes
later in the text (`KeptGrows`), which makes `ShownIsRead` inductive: what was
shown is what has been read, without the mute frames. `CiteInv` adds that answer,
citations and entry are made of the same shown text once all of it has been read.
A replay fits its text without a gap because 1 to n is listed by itself
(`SortedInterval`).

*Process.* `DrainIsGraceful` needs `LifeInv` (the listener is open only while main
serves, and clients are closed only after `Shutdown` has returned) and `DrainInv`
(what is then under way has outlasted the grace). `OrphanIsReported` needs
`Progress`: what is left of an upload's plan tells which of its two writes it has
made. That connections in use stay within the pool is part of `TypeOK`.

*Model calls.* `ShownInv`: before a response is open nothing has been shown, and
afterwards only tokens of the attempt that opened it, which is what makes a retry
safe. `OutInv`: the texts before `start` have their vectors. `OwnTimeIsBounded` needs
the time at each point of the loop: the budget is looked at before a pause and not
after (`BudgetInv`), attempts have all cost at most a timeout and a pause
(`EmbedInv`), and each batch starts its attempts again (`BatchInv`). It is about the
time that is the call's own (`now - held`): nothing holds a gateway's call up before
its response is open, and afterwards only the client's reading does; of the worker it
counts what is slept.

*Retrieval.* Both sorts list a finite set by a total order, and such a listing
exists (`ListingExists`, `OrderedByLists`), so a place in it can be compared with
the order: `FusedRanks`, `ReorderRanks`. For the fusion that leaves inequalities of
fractions: an earlier place in a ranking is worth more (`RowScoreMonotone`), a sum
grows with its parts (`PlusMonotone`, `RRFMonotone`), and two rows of rankings no
longer than `RRFK` are worth more than one row, whichever (`RRFAgreement`). A cut
keeps the order of what it keeps (`CutKeepsOrder`). For the reranker, `LastScoreIs`
says which of several scores counts, and `BestIsFirst` that a claim on a passage of
the pool above all other claims is above the passages without any, too.

*Chunking.* `Reads(cs, t, L)` says that the chunks `cs` and the text `t` behind them
hold the characters of the lines `L`, each once and in order. Every operation of
the packer has a lemma on it: a flush, a joint of two sections, a cut, the pieces of
a hard split (which tile their line, `HardPartsAre`), the folded scrap. `ContentInv` states
it for the sections while lines are read (`SectionsInv`), for the chunks between
sections (`PackInv`) and in the middle of one (`SplitInv`). `SizeInv`: only a text that a cut has started with an
overlap is above the budget, by no more than the overlap. `OutlineInv`: each chunk
and each text stands under the heading of its lines (`Under`). The stack is cut to a
length and an outline to a level; `OutlineIs` shows that without a skipped level the headings
above a line have the levels 1, 2, 3 and so on, so that the two are the same
(`OutlineOfHeading`).

Every safety property of a passing run is stated by a theorem. Only model-checked are
the liveness properties (`EventuallySettled`, `CallEnds`, `StopsAfterSignal`,
`RequestsAdvance`): they rest on fairness and so on ENABLED, which the prover does not
support. The prover has no induction over data either (the library's induction
theorems have an operator as a parameter); the modules are written so that none is
needed. Loops are steps of a state machine, whose induction is that of an
invariant, a sort is the listing of a set by an order, a sum is a cardinality, and
what remains is proved from a least counterexample (`LeastNat`: every non-empty set
of naturals has a least element).

## Deviations

Places where the code does not do what its own text says. The first is a run of
the suite. Each of the others has a property, in the last section of its module or
before it, and a configuration for which TLC reports it violated; the notes of the
hazards in `PROJECT.json` name the ones that no passing run covers. Up to
`StaysInGroup` they contradict the text as it stands; the ones below are weaker (the
text can be read in another way, the effect is harmless, it takes a coincidence
within one second or settings other than those shipped).

| property, config | the text | the code |
|---|---|---|
| `FollowUpNotShared`, `ChatFollowUp.cfg` | `cache.go:130`: an answer that depends on history "is not cached at all" | a cache hit appends no turn (`chat.go:186`), so the follow-up has no history and its answer is cached for everybody |
| `DuplicateIsIndexed`, `IngestReupload.cfg` | `README.md:78`: "`200` if identical content is already indexed" | after a lost publish the row stays; every later upload is answered 200 and publishes nothing (`server.go:121`) |
| `FailureIsVisible`, `IngestLostRetry.cfg` | `worker.py:16`: "a document that fails to ingest must say so" | the retry's send is not awaited (`worker.py:222`); if it is lost the document stays pending |
| `RefusalIsLogged`, `ChatRefusal.cfg` | `README.md:51`: "Every query records latency" | a refusal logs nil id slices into NOT NULL columns (`chat.go:227`, `schema.sql:93`) |
| `DisconnectIsLogged`, `ChatDisconnect.cfg` | `chat.go:407`: a client that disconnects mid-answer is "exactly the request worth recording" | `Answer` returns before `logQuery` (`chat.go:281`) |
| `ReplayResolves`, `CitationsReplay.cfg` | `cache.go:114`: "a complete previous answer, replayed" | a hit numbers its citations from 1 and keeps the text's markers (`chat.go:389`) |
| `WithinBudget`, `ChunkingBudget.cfg` | `chunking.py:129`: "Hard-split it rather than emitting it whole" | a long sentence after another is emitted whole (`chunking.py:126`) |
| `HeadingPathIsOutline`, `ChunkingHeadings.cfg` | `chunking.py:92`: "Pop to the parent level" | the stack is cut to a length, not a level (`chunking.py:93`) |
| `StaysInGroup`, `ModelCallsPoll.cfg` | `worker.py:97`: the poll interval is "generous" | four throttled batches sleep 928 s of 900 (`embedding.py:99`) |
| `NoRacingIngest`, `IngestRace.cfg` | `queue.go:45`: "a re-ingest must not race the first ingest" | the retry has no key; it and a redelivered first attempt can run at once (harmless: `WholeGeneration`) |
| `PlainBudget`, `RateLimiterLate.cfg` | `cache.go:41`: "atomic against concurrent requests from the same client" | the time is read before the script (`cache.go:95`); a late script lets the same seconds be refilled twice (bounded: `Budget`) |
| `IngestInvalidates`, `ChatReingest.cfg` | `cache.go:126`: "ingesting a document must invalidate every cached answer" | a re-ingest with as many chunks within the second of the newest leaves the version as it was (`chat.go:383`) |
| `UnknownNeverHits`, `ChatUnknown.cfg` | `chat.go:379`: unknown corpus state means "do not reuse an answer" | the stand-in is the time in seconds; two requests of one second share it |
| `NoDeadlock`, `BM25Deadlock.cfg` | `docker-compose.yml:95`: "embarrassingly parallel across documents" | triggers lock rows of shared terms chunk by chunk (`schema.sql:193`) |
| `CachedSaysSomething`, `CitationsEmpty.cfg` | `cache.go:114`: "a complete previous answer" | a stream without any text, a blocked prompt's for example, is cached as an empty answer (`chat.go:314`) |
| `ShownMarkersKnown`, `CitationsStream.cfg` | `README.md:108`: unknown markers "are stripped" | tokens are shown before they are verified (`chat.go:277`) |
| `RetriesWithinBudget`, `ModelCallsBudget.cfg` | `gemini.go:31`: the budget "caps total time spent retrying" | it is checked before the pause and bounds no exchange (`gemini.go:282`; bounded: `OwnTimeIsBounded`) |
| `TopNServed`, `RetrievalTopN.cfg` | `chat.go:52`: `top_n` "overrides how many chunks reach the generator" | a successful rerank serves at most the 20 it scored (`rerank.go:133`); 12 are configured |

## Not modelled

* The BM25 and cosine formulas: floating point inside PostgreSQL; `Retrieval`
  takes the orders they produce as inputs.
* Request logging, client identification, payload building, JSON extraction, key
  redaction: formatting and header handling without state.
* `EnsureTopics`: start-up administration whose failure is only logged; `Gateway`
  has it as part of a step that always succeeds. Kafka's own behaviour is external.
* `EmbedBatch`, `Cosine` (`embed.go`) and `Neighbours` (`store.go`): no caller.
* The evaluation harness and scripts: they talk to the service over HTTP and keep
  no state in it.
* An answer the model itself ended early: `FinishReason` is recorded and never
  read, and nothing says what should happen. To `CachedIsWhole` it is whole.
* Brackets inside a marker group: in `Citations` a group is a set of numbers in one
  pair of brackets, so a text such as `[[99]1]`, from which stripping the inner group
  would leave a new one, has no counterpart.
* A handler that waits for its own client, except for the writes of a streamed answer
  (`ModelCalls`): `Gateway` takes clients to send their bodies and read their answers.
* A vector of the wrong dimension in a reply of the embedding API: `Embed` checks
  only that there is one, and the API is taken to honour `outputDimensionality`.

## Plan

Done: `Corpus`, `Ingest` and its refinement; `RateLimiter`; `Chat`; `BM25Stats`;
the algorithm modules; the clients of the model API; the gateway process; and
theorems for every safety property the passing runs check. Next would be
compositions: `Chat` over `RateLimiter` instead of its three outcomes, and the
worker's time of `ModelCalls` in `Ingest`, so that an eviction follows from a
throttled batch and not from a budget.
