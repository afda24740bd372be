------------------------------- MODULE Ingest -------------------------------
(***************************************************************************)
(* The ingestion pipeline: the upload handler (internal/api/server.go,     *)
(* internal/store/store.go, internal/queue/queue.go), the Kafka topic and  *)
(* its consumer group, and the workers (workers/ingest/worker.py) that     *)
(* turn a stored document into rows of the chunks table.                   *)
(*                                                                         *)
(* Every SQL statement the worker issues outside its transaction is one    *)
(* step (the connection is in autocommit mode); the transaction is split   *)
(* at each statement that takes a snapshot, takes a lock or may wait.      *)
(* Content is abstract: a document is identified with its content hash, and *)
(* all that is known of it is how many chunks the chunker makes of it.     *)
(***************************************************************************)
EXTENDS Integers, Sequences, FiniteSets

CONSTANTS
  Docs,         \* contents a client may upload (one documents row each)
  Workers,      \* worker processes of the consumer group
  Partitions,   \* partitions of the ingest topic (EnsureTopics makes 3)
  KeyPartition, \* [Docs -> Partitions]: where kafka.Hash puts a keyed job
  NChunks,      \* [Docs -> Nat]: chunks chunk_document makes; 0: none
  Blank,        \* documents the worker's strip() finds empty
  MaxAttempts,  \* MAX_INGEST_ATTEMPTS
  MaxFaults,    \* [FaultKinds -> Nat]: how often each fault may occur
  None          \* not a document, a worker or a partition

\* What may go wrong, each bounded by MaxFaults so that TLC terminates:
\*   crash  a worker process dies        stop   it is sent SIGTERM
\*   raise  an exception inside ingest()  (embedding API, deadlock, database)
\*   evict  the group drops a worker that is busy with a document
\*   lose   a Kafka send that never reaches the log
\*   dup    a Kafka write of the gateway retried after its ack was lost
\*   again  a client uploads a content that is already stored
FaultKinds == {"crash", "stop", "raise", "evict", "lose", "dup", "again"}

ASSUME ConstantsAssumption ==
  /\ KeyPartition \in [Docs -> Partitions]
  /\ NChunks \in [Docs -> Nat]
  /\ Blank \subseteq Docs
  /\ MaxAttempts \in Nat \ {0}
  /\ MaxFaults \in [FaultKinds -> Nat]
  /\ None \notin Docs \cup Workers \cup Partitions

VARIABLES
  status, chunkCount, attempts,  \* columns of documents
  rows,        \* rows[d]: committed chunks of d, as <<ordinal, generation>>
  gens,        \* gens[d]: ingest transactions begun for d so far
  upload,      \* upload[d]: how far the creating request of d has come
  log,         \* log[p]: the jobs appended to partition p
  committed,   \* committed[p]: the group's committed offset
  owner,       \* owner[p]: the worker p is assigned to
  dlq,         \* documents with a job on the dead-letter topic
  pc, job, src, stopping,        \* per worker: control, message, partition
  gen, snap, del, ins,           \* per worker: its open transaction
  told,        \* documents a client was told are duplicates (200)
  lost,        \* documents one of whose jobs never reached Kafka
  evicted,     \* documents a worker was dropped from the group with
  faults       \* faults so far, by kind

dbVars     == <<status, chunkCount, attempts, rows, gens>>
kafkaVars  == <<log, committed, owner, dlq>>
workerVars == <<pc, job, src, stopping>>
txVars     == <<gen, snap, del, ins>>
obsVars    == <<told, lost, evicted>>
vars == <<dbVars, upload, kafkaVars, workerVars, txVars, obsVars, faults>>

Status == {"absent", "pending", "chunking", "ready", "failed"}
PC == {"idle", "load", "chunk", "begin", "delete", "insert", "finish",
       "fail", "send", "ack", "dead"}
Jobs  == [doc : Docs, attempt : 1..MaxAttempts]
NoJob == [doc |-> None, attempt |-> 0]

\* The rows of one complete generation g of d.
Generation(d, g) == (0 .. NChunks[d] - 1) \X {g}

\* The pcs at which a worker holds a message it has not finished with.
Busy(w) == pc[w] \notin {"idle", "dead"}
InTx(w) == pc[w] \in {"delete", "insert", "finish"}

\* A job is live until its offset is committed: a new owner of the partition
\* starts from the committed offset.
Live(p, i) == i \in committed[p] + 1 .. Len(log[p])
LiveFor(d) == \E p \in Partitions : \E i \in 1 .. Len(log[p]) :
                Live(p, i) /\ log[p][i].doc = d

TypeOK ==
  /\ status \in [Docs -> Status]
  /\ chunkCount \in [Docs -> Nat]
  /\ attempts \in [Docs -> Nat]
  /\ rows \in [Docs -> SUBSET (Nat \X Nat)]
  /\ gens \in [Docs -> Nat]
  /\ upload \in [Docs -> {"none", "stored", "done"}]
  /\ log \in [Partitions -> Seq(Jobs)]
  /\ committed \in [Partitions -> Nat]
  /\ owner \in [Partitions -> Workers \cup {None}]
  /\ dlq \subseteq Docs
  /\ pc \in [Workers -> PC]
  /\ job \in [Workers -> Jobs \cup {NoJob}]
  /\ src \in [Workers -> Partitions \cup {None}]
  /\ stopping \in [Workers -> BOOLEAN]
  /\ gen \in [Workers -> Nat]
  /\ snap \in [Workers -> SUBSET (Nat \X Nat)]
  /\ del \in [Workers -> SUBSET (Nat \X Nat)]
  /\ ins \in [Workers -> Nat]
  /\ told \subseteq Docs /\ lost \subseteq Docs /\ evicted \subseteq Docs
  /\ faults \in [FaultKinds -> Nat]

Init ==
  /\ status = [d \in Docs |-> "absent"]
  /\ chunkCount = [d \in Docs |-> 0]
  /\ attempts = [d \in Docs |-> 0]
  /\ rows = [d \in Docs |-> {}]
  /\ gens = [d \in Docs |-> 0]
  /\ upload = [d \in Docs |-> "none"]
  /\ log = [p \in Partitions |-> <<>>]
  /\ committed = [p \in Partitions |-> 0]
  /\ owner = [p \in Partitions |-> None]
  /\ dlq = {}
  /\ pc = [w \in Workers |-> "idle"]
  /\ job = [w \in Workers |-> NoJob]
  /\ src = [w \in Workers |-> None]
  /\ stopping = [w \in Workers |-> FALSE]
  /\ gen = [w \in Workers |-> 0]
  /\ snap = [w \in Workers |-> {}]
  /\ del = [w \in Workers |-> {}]
  /\ ins = [w \in Workers |-> 0]
  /\ told = {} /\ lost = {} /\ evicted = {}
  /\ faults = [k \in FaultKinds |-> 0]

Fault(k) == /\ faults[k] < MaxFaults[k]
            /\ faults' = [faults EXCEPT ![k] = @ + 1]

GoTo(w, l) == pc' = [pc EXCEPT ![w] = l]

-----------------------------------------------------------------------------
(***************************************************************************)
(* The upload handler.                                                     *)
(***************************************************************************)

\* uploadDocument, new content: INSERT ... ON CONFLICT (content_hash) DO
\* NOTHING returned a row, so created = TRUE and the request goes on to Publish.
CreateDocument(d) ==
  /\ status[d] = "absent"
  /\ status' = [status EXCEPT ![d] = "pending"]
  /\ upload' = [upload EXCEPT ![d] = "stored"]
  /\ UNCHANGED <<chunkCount, attempts, rows, gens, kafkaVars, workerVars,
                 txVars, obsVars, faults>>

\* Mutant of UploadDuplicate: a repeated upload queues the document again.
UploadDuplicateRequeues(d) ==
  /\ status[d] # "absent"
  /\ Fault("again")
  /\ told' = told \cup {d}
  /\ log' = [log EXCEPT ![KeyPartition[d]] = Append(@, [doc |-> d, attempt |-> 1])]
  /\ UNCHANGED <<dbVars, upload, committed, owner, dlq, workerVars, txVars,
                 lost, evicted>>

\* uploadDocument, stored content: the INSERT met the existing hash, so
\* created = FALSE; the client gets 200 and nothing is published.
UploadDuplicate(d) ==
  /\ status[d] # "absent"
  /\ Fault("again")
  /\ told' = told \cup {d}
  /\ UNCHANGED <<dbVars, upload, kafkaVars, workerVars, txVars, lost, evicted>>

FirstJob(d) == [doc |-> d, attempt |-> 1]

\* Publish: keyed by the document id. The writer retries up to MaxAttempts
\* times, so a batch whose ack was lost is appended a second time. (A write
\* that lands and yet is reported as an error is the first disjunct too: only
\* the HTTP status differs.)
Publish(d) ==
  /\ upload[d] = "stored"
  /\ upload' = [upload EXCEPT ![d] = "done"]
  /\ \/ /\ log' = [log EXCEPT ![KeyPartition[d]] = Append(@, FirstJob(d))]
        /\ UNCHANGED faults
     \/ /\ log' = [log EXCEPT ![KeyPartition[d]] =
                     Append(Append(@, FirstJob(d)), FirstJob(d))]
        /\ Fault("dup")
  /\ UNCHANGED <<dbVars, committed, owner, dlq, workerVars, txVars, obsVars>>

\* Publish returns an error, the request's context is cancelled, or the
\* gateway dies between the INSERT and the write. Nothing undoes the INSERT.
PublishLost(d) ==
  /\ upload[d] = "stored"
  /\ Fault("lose")
  /\ upload' = [upload EXCEPT ![d] = "done"]
  /\ lost' = lost \cup {d}
  /\ UNCHANGED <<dbVars, kafkaVars, workerVars, txVars, told, evicted>>

-----------------------------------------------------------------------------
(***************************************************************************)
(* The consumer group (the broker and the client library; external).       *)
(***************************************************************************)

Owned(w) == {p \in Partitions : owner[p] = w}

\* A member joins inside poll(), so partitions only move to and from workers
\* that are idle: p is free, or the assignor evens out the load.
Assign(p, w) ==
  /\ pc[w] = "idle" /\ ~stopping[w]
  /\ \/ owner[p] = None
     \/ /\ owner[p] # None
        /\ pc[owner[p]] = "idle"
        /\ Cardinality(Owned(w)) + 1 < Cardinality(Owned(owner[p]))
  /\ owner' = [owner EXCEPT ![p] = w]
  /\ UNCHANGED <<dbVars, upload, log, committed, dlq, workerVars, txVars,
                 obsVars, faults>>

Released(w) == [p \in Partitions |-> IF owner[p] = w THEN None ELSE owner[p]]

\* A busy worker misses max_poll_interval_ms or its session and is dropped
\* from the group. It does not notice until it commits.
Evict(w) ==
  /\ Busy(w)
  /\ owner[src[w]] = w
  /\ Fault("evict")
  /\ owner' = Released(w)
  /\ evicted' = evicted \cup {job[w].doc}
  /\ UNCHANGED <<dbVars, upload, log, committed, dlq, workerVars, txVars,
                 told, lost>>

-----------------------------------------------------------------------------
(***************************************************************************)
(* The worker.                                                             *)
(***************************************************************************)

\* Leaving a transaction by commit, rollback or death drops its locks.
EndTx(w) ==
  /\ gen' = [gen EXCEPT ![w] = 0]
  /\ snap' = [snap EXCEPT ![w] = {}]
  /\ del' = [del EXCEPT ![w] = {}]
  /\ ins' = [ins EXCEPT ![w] = 0]

\* run: poll() returns one message (max_poll_records=1) at the committed
\* offset. A poll that returns nothing, or returns a message after the signal,
\* changes nothing.
Poll(w, p) ==
  /\ pc[w] = "idle" /\ ~stopping[w]
  /\ owner[p] = w
  /\ committed[p] < Len(log[p])
  /\ job' = [job EXCEPT ![w] = log[p][committed[p] + 1]]
  /\ src' = [src EXCEPT ![w] = p]
  /\ GoTo(w, "load")
  /\ UNCHANGED <<dbVars, upload, kafkaVars, stopping, txVars, obsVars, faults>>

\* Where handle() continues after an exception from ingest().
OnExceptionSwallowed == "ack"  \* mutant of OnException: logged and forgotten
OnException == "fail"

\* ingest: SELECT the document, raise if it is blank, else set_status.
\* (Rows of documents are never deleted, so the SELECT finds one.)
Load(w) ==
  LET d == job[w].doc IN
  /\ pc[w] = "load"
  /\ IF d \in Blank
       THEN GoTo(w, OnException) /\ UNCHANGED status
       ELSE GoTo(w, "chunk") /\ status' = [status EXCEPT ![d] = "chunking"]
  /\ UNCHANGED <<chunkCount, attempts, rows, gens, upload, kafkaVars, job, src,
                 stopping, txVars, obsVars, faults>>

\* ingest: chunk_document and embed_documents; no chunks is an error.
ChunkAndEmbed(w) ==
  /\ pc[w] = "chunk"
  /\ GoTo(w, IF NChunks[job[w].doc] = 0 THEN OnException ELSE "begin")
  /\ UNCHANGED <<dbVars, upload, kafkaVars, job, src, stopping, txVars, obsVars,
                 faults>>

\* The transaction opens and DELETE FROM chunks takes its snapshot.
BeginReplace(w) ==
  LET d == job[w].doc IN
  /\ pc[w] = "begin"
  /\ gens' = [gens EXCEPT ![d] = @ + 1]
  /\ gen' = [gen EXCEPT ![w] = gens[d] + 1]
  /\ snap' = [snap EXCEPT ![w] = rows[d]]
  /\ GoTo(w, "delete")
  /\ UNCHANGED <<status, chunkCount, attempts, rows, upload, kafkaVars, job,
                 src, stopping, del, ins, obsVars, faults>>

\* The other workers with an open transaction on the document of w.
Rivals(w) == {v \in Workers \ {w} : InTx(v) /\ job[v].doc = job[w].doc}

\* Mutant of DeleteOld: the DELETE runs in autocommit, outside the transaction.
DeleteOldAutocommit(w) ==
  /\ pc[w] = "delete"
  /\ rows' = [rows EXCEPT ![job[w].doc] = @ \ snap[w]]
  /\ GoTo(w, "insert")
  /\ UNCHANGED <<status, chunkCount, attempts, gens, upload, kafkaVars, job,
                 src, stopping, txVars, obsVars, faults>>

\* DELETE waits for a transaction that has already deleted one of the rows of
\* its snapshot; READ COMMITTED then skips the rows that are gone, and never
\* sees rows committed after its snapshot.
DeleteOld(w) ==
  /\ pc[w] = "delete"
  /\ \A v \in Rivals(w) : del[v] \cap snap[w] = {}
  /\ del' = [del EXCEPT ![w] = snap[w] \cap rows[job[w].doc]]
  /\ GoTo(w, "insert")
  /\ UNCHANGED <<dbVars, upload, kafkaVars, job, src, stopping, gen, snap, ins,
                 obsVars, faults>>

\* The UNIQUE (document_id, ordinal) index: an INSERT of ordinal o waits while
\* an open transaction has inserted or deleted a row with that ordinal, and
\* fails if a committed row that it has not deleted itself has it.
MustWait(w, o) ==
  \E v \in Rivals(w) : o < ins[v] \/ \E r \in del[v] : r[1] = o
DuplicateUnchecked(w, o) == FALSE \* mutant of Duplicate: no UNIQUE constraint
Duplicate(w, o) == \E r \in rows[job[w].doc] \ del[w] : r[1] = o

\* executemany: the next INSERT, in ordinal order.
InsertChunk(w) ==
  /\ pc[w] = "insert"
  /\ ~MustWait(w, ins[w])
  /\ ~Duplicate(w, ins[w])
  /\ ins' = [ins EXCEPT ![w] = @ + 1]
  /\ GoTo(w, IF ins[w] + 1 = NChunks[job[w].doc] THEN "finish" ELSE "insert")
  /\ UNCHANGED <<dbVars, upload, kafkaVars, job, src, stopping, gen, snap, del,
                 obsVars, faults>>

\* executemany: the INSERT raises UniqueViolation, the transaction rolls back.
UniqueViolation(w) ==
  /\ pc[w] = "insert"
  /\ ~MustWait(w, ins[w])
  /\ Duplicate(w, ins[w])
  /\ EndTx(w)
  /\ GoTo(w, OnException)
  /\ UNCHANGED <<dbVars, upload, kafkaVars, job, src, stopping, obsVars, faults>>

\* The chunks of the document once the transaction of w is committed.
RowsAppended(w) ==  \* mutant of RowsAfter: the old generation is kept
  rows[job[w].doc] \cup (0 .. ins[w] - 1) \X {gen[w]}
RowsAfter(w) ==
  (rows[job[w].doc] \ del[w]) \cup (0 .. ins[w] - 1) \X {gen[w]}

\* UPDATE documents and COMMIT: chunks, count and status become visible at once.
CommitReplace(w) ==
  LET d == job[w].doc IN
  /\ pc[w] = "finish"
  /\ rows' = [rows EXCEPT ![d] = RowsAfter(w)]
  /\ status' = [status EXCEPT ![d] = "ready"]
  /\ chunkCount' = [chunkCount EXCEPT ![d] = NChunks[d]]
  /\ EndTx(w)
  /\ GoTo(w, "ack")
  /\ UNCHANGED <<attempts, gens, upload, kafkaVars, job, src, stopping, obsVars,
                 faults>>

\* Anything ingest() calls raises (embedding API exhausted, deadlock victim,
\* statement error): an open transaction rolls back and handle() calls fail().
Raise(w) ==
  /\ pc[w] \in {"load", "chunk", "begin", "delete", "insert", "finish"}
  /\ Fault("raise")
  /\ EndTx(w)
  /\ GoTo(w, OnException)
  /\ UNCHANGED <<dbVars, upload, kafkaVars, job, src, stopping, obsVars>>

\* The status fail() writes for a failed attempt a.
StatusAfterFailLow(a)  == IF a + 1 < MaxAttempts THEN "pending" ELSE "failed" \* mutant
StatusAfterFailHigh(a) == IF a <= MaxAttempts THEN "pending" ELSE "failed"    \* mutant
StatusAfterFail(a)     == IF a < MaxAttempts THEN "pending" ELSE "failed"

\* fail: UPDATE documents, before anything is sent.
FailUpdate(w) ==
  LET d == job[w].doc IN
  /\ pc[w] = "fail"
  /\ status' = [status EXCEPT ![d] = StatusAfterFail(job[w].attempt)]
  /\ attempts' = [attempts EXCEPT ![d] = @ + 1]
  /\ GoTo(w, "send")
  /\ UNCHANGED <<chunkCount, rows, gens, upload, kafkaVars, job, src, stopping,
                 txVars, obsVars, faults>>

\* Whether fail() sends the job back to the topic or to the dead letters.
CanRetryLow(a)  == a + 1 < MaxAttempts  \* mutant of CanRetry
CanRetryHigh(a) == a <= MaxAttempts     \* mutant of CanRetry
CanRetry(a)     == a < MaxAttempts

RetryJob(j) == [doc |-> j.doc, attempt |-> j.attempt + 1]

\* fail: the retry is sent without a key, so to any partition.
SendRetry(w, p) ==
  /\ pc[w] = "send" /\ CanRetry(job[w].attempt)
  /\ log' = [log EXCEPT ![p] = Append(@, RetryJob(job[w]))]
  /\ GoTo(w, "ack")
  /\ UNCHANGED <<dbVars, upload, committed, owner, dlq, job, src, stopping,
                 txVars, obsVars, faults>>

\* fail: no attempt is left, the job goes to the dead-letter topic.
SendDead(w) ==
  /\ pc[w] = "send" /\ ~CanRetry(job[w].attempt)
  /\ dlq' = dlq \cup {job[w].doc}
  /\ GoTo(w, "ack")
  /\ UNCHANGED <<dbVars, upload, log, committed, owner, job, src, stopping,
                 txVars, obsVars, faults>>

\* fail: the producer (retries=0) drops the record. Only its future knows, and
\* flush() returns normally. (A flush that times out raises: see Crash.)
SendLost(w) ==
  /\ pc[w] = "send"
  /\ Fault("lose")
  /\ lost' = lost \cup {job[w].doc}
  /\ GoTo(w, "ack")
  /\ UNCHANGED <<dbVars, upload, kafkaVars, job, src, stopping, txVars, told,
                 evicted>>

\* The offset of p that commit() stores: the position after the one message.
AdvancedToEnd(p) == Len(log[p])  \* mutant of Advanced: everything fetched
Advanced(p) == committed[p] + 1

\* run: consumer.commit() after handle() returned. A worker that is no longer
\* the owner gets CommitFailedError, which nothing catches: it dies.
CommitOffset(w) ==
  /\ pc[w] = "ack"
  /\ \/ /\ owner[src[w]] = w
        /\ committed' = [committed EXCEPT ![src[w]] = Advanced(src[w])]
        /\ GoTo(w, "idle")
     \/ /\ owner[src[w]] # w
        /\ GoTo(w, "dead")
        /\ UNCHANGED committed
  /\ job' = [job EXCEPT ![w] = NoJob]
  /\ src' = [src EXCEPT ![w] = None]
  /\ UNCHANGED <<dbVars, upload, log, owner, dlq, stopping, txVars, obsVars,
                 faults>>

\* stop: the signal handler only clears self.running.
Stop(w) ==
  /\ pc[w] # "dead" /\ ~stopping[w]
  /\ Fault("stop")
  /\ stopping' = [stopping EXCEPT ![w] = TRUE]
  /\ UNCHANGED <<dbVars, upload, kafkaVars, pc, job, src, txVars, obsVars>>

\* The process is gone: its partitions are released, its transaction rolled back.
Gone(w) ==
  /\ GoTo(w, "dead")
  /\ owner' = Released(w)
  /\ job' = [job EXCEPT ![w] = NoJob]
  /\ src' = [src EXCEPT ![w] = None]
  /\ EndTx(w)

\* run: the loop ends once self.running is false.
Exit(w) ==
  /\ pc[w] = "idle" /\ stopping[w]
  /\ Gone(w)
  /\ UNCHANGED <<dbVars, upload, log, committed, dlq, stopping, obsVars, faults>>

\* The process dies at any point: killed, or by an exception outside ingest()
\* (the database in fail(), KafkaTimeoutError from flush(), ...).
Crash(w) ==
  /\ pc[w] # "dead"
  /\ Fault("crash")
  /\ Gone(w)
  /\ UNCHANGED <<dbVars, upload, log, committed, dlq, stopping, obsVars>>

\* Somebody starts the worker again; it joins the group with its next poll.
Restart(w) ==
  /\ pc[w] = "dead"
  /\ GoTo(w, "idle")
  /\ stopping' = [stopping EXCEPT ![w] = FALSE]
  /\ UNCHANGED <<dbVars, upload, kafkaVars, job, src, txVars, obsVars, faults>>

-----------------------------------------------------------------------------
Client(d)  == CreateDocument(d) \/ UploadDuplicate(d)
Gateway(d) == Publish(d) \/ PublishLost(d)
Group(w)   == Evict(w) \/ \E p \in Partitions : Assign(p, w)
Ingesting(w) == \/ Load(w) \/ ChunkAndEmbed(w)
                \/ BeginReplace(w) \/ DeleteOld(w)
                \/ InsertChunk(w) \/ UniqueViolation(w) \/ CommitReplace(w)
Failing(w)   == \/ FailUpdate(w) \/ SendDead(w)
                \/ \E p \in Partitions : SendRetry(w, p)
Working(w)   == \/ \E p \in Partitions : Poll(w, p)
                \/ Ingesting(w) \/ Failing(w) \/ CommitOffset(w) \/ Exit(w)
Faulty(w)    == Raise(w) \/ SendLost(w) \/ Stop(w) \/ Crash(w) \/ Restart(w)

Next == \/ \E d \in Docs : Client(d) \/ Gateway(d)
        \/ \E w \in Workers : Group(w) \/ Working(w) \/ Faulty(w)

Spec == Init /\ [][Next]_vars

\* The gateway's request goroutine and a worker that is alive keep running,
\* and the group coordinator assigns free partitions. Nothing restarts a dead
\* worker (deploy/docker-compose.yml has no restart policy), so Restart is not
\* fair, and neither is any fault.
Fairness ==
  /\ \A d \in Docs : WF_vars(Gateway(d))
  /\ \A w \in Workers : WF_vars(Working(w))
  /\ \A p \in Partitions : WF_vars(\E w \in Workers : Assign(p, w))

FairSpec == Spec /\ Fairness

-----------------------------------------------------------------------------
(***************************************************************************)
(* Safety.                                                                 *)
(***************************************************************************)

\* "The corpus is never half-old and half-new" (worker.py): whatever crashes,
\* redeliveries and racing transactions do, the committed chunks of a document
\* are none or exactly one transaction's complete set.
WholeGeneration ==
  \A d \in Docs : rows[d] = {} \/ \E g \in 1 .. gens[d] : rows[d] = Generation(d, g)

\* documents.chunk_count agrees with the chunks table, and a document reported
\* "ready" has chunks, although other transactions and status updates of the
\* same document run in between.
CountMatchesRows ==
  \A d \in Docs : /\ chunkCount[d] = Cardinality(rows[d])
                  /\ status[d] = "ready" => rows[d] # {}

\* A document whose jobs all reached Kafka is searchable, dead-lettered or has
\* a job whose offset is not committed: at-least-once delivery never drops it,
\* even when a worker crashes or is evicted mid-document.
NoLostJob ==
  \A d \in Docs : upload[d] = "done" /\ d \notin lost =>
    rows[d] # {} \/ d \in dlq \/ LiveFor(d)

\* A document that is still "pending" or "chunking" has a job that will change
\* that, unless one was lost or a worker was evicted with it.
UnsettledIsLive ==
  \A d \in Docs :
    upload[d] = "done" /\ d \notin lost \cup evicted
      /\ status[d] \in {"pending", "chunking"} => LiveFor(d)

\* A live job for d on its last attempt.
LastAttemptLive(d) ==
  \E p \in Partitions : \E i \in 1 .. Len(log[p]) :
    Live(p, i) /\ log[p][i] = [doc |-> d, attempt |-> MaxAttempts]

\* A document is marked "failed" before its job is sent to the dead-letter
\* topic; a crash in between redelivers the last attempt, so nobody looking at
\* the dead-letter topic misses a failed document.
FailedIsDeadLettered ==
  \A d \in Docs : status[d] = "failed" /\ d \notin lost \cup evicted =>
    d \in dlq \/ LastAttemptLive(d)

\* The live jobs of d, without those whose outcome is already decided and only
\* wait for their offset to be committed.
OpenJobs(d) ==
  UNION {{<<p, i>> : i \in {i \in 1 .. Len(log[p]) :
            /\ Live(p, i) /\ log[p][i].doc = d
            /\ ~(i = committed[p] + 1 /\ \E w \in Workers :
                   owner[p] = w /\ src[w] = p /\ pc[w] = "ack")}} : p \in Partitions}

\* Retrying never multiplies a document's jobs: apart from one extra job for
\* each crash, eviction or duplicated write there is at most one at a time.
JobsDoNotMultiply ==
  \A d \in Docs :
    Cardinality(OpenJobs(d)) <= 1 + faults["crash"] + faults["evict"] + faults["dup"]

-----------------------------------------------------------------------------
(***************************************************************************)
(* Action properties.                                                      *)
(***************************************************************************)

\* "Offsets are committed only after a document is fully written" (worker.py):
\* the offset moves over one job at a time, and only when the document has
\* chunks, is dead-lettered, or has a live job with a higher attempt.
AckOnlyAfterOutcome ==
  [][\A p \in Partitions : committed'[p] # committed[p] =>
       /\ committed'[p] = committed[p] + 1
       /\ LET j == log[p][committed'[p]] IN
            \/ j.doc \in lost \/ rows[j.doc] # {} \/ j.doc \in dlq
            \/ \E q \in Partitions : \E i \in 1 .. Len(log[q]) :
                 /\ Live(q, i) /\ log[q][i].doc = j.doc
                 /\ log[q][i].attempt > j.attempt]_vars

-----------------------------------------------------------------------------
(***************************************************************************)
(* Refinement: readers of the corpus see the abstract specification.       *)
(***************************************************************************)

\* The generation of the rows S, 0 if there are none.
GenerationOf(S, n) ==
  IF S = {} THEN 0 ELSE CHOOSE g \in 1 .. n : \E r \in S : r[2] = g

visible == [d \in Docs |-> GenerationOf(rows[d], gens[d])]
readyDocs == {d \in Docs : status[d] = "ready"}

Abstract == INSTANCE Corpus WITH index <- visible, ready <- readyDocs

\* The pipeline implements Corpus: one step replaces a generation by a newer
\* one, chunks never disappear, and "ready" comes only with that step.
RefinesCorpus == Abstract!CorpusSpec

-----------------------------------------------------------------------------
(***************************************************************************)
(* Liveness.                                                               *)
(***************************************************************************)

Up(w) == pc[w] # "dead" /\ ~stopping[w]

\* Every stored document ends "ready" or "failed" and stays so, unless a job of
\* it was lost, a worker was evicted with it, or no worker is left.
EventuallySettled ==
  \A d \in Docs :
    <>[](\/ status[d] \in {"absent", "ready", "failed"}
         \/ d \in lost \cup evicted
         \/ \A w \in Workers : ~Up(w))

-----------------------------------------------------------------------------
(***************************************************************************)
(* What the repository says and the code does not do.                      *)
(***************************************************************************)

\* queue.go on Publish: jobs of one document stay on one partition, so "a
\* re-ingest must not race the first ingest".
NoRacingIngest ==
  \A v, w \in Workers :
    v # w /\ InTx(v) /\ InTx(w) => job[v].doc # job[w].doc

\* README.md on POST /v1/documents: "200 if identical content is already
\* indexed". A client that gets 200 may rely on the document being indexed, or
\* on its becoming so or being marked failed.
DuplicateIsIndexed ==
  \A d \in Docs : d \in told ~> status[d] \in {"ready", "failed"}

\* worker.py: "a document that fails to ingest must say so": after a failed
\* attempt the document ends up "ready" or "failed" while a worker is up.
FailureIsVisible ==
  \A d \in Docs : attempts[d] > 0 ~>
    (status[d] \in {"ready", "failed"} \/ \A w \in Workers : ~Up(w))
=============================================================================
