---------------------------- MODULE IngestProofs ----------------------------
(***************************************************************************)
(* Proofs about the ingestion pipeline for every set of documents, workers *)
(* and partitions, every number of chunks and attempts and every fault     *)
(* budget.                                                                 *)
(***************************************************************************)
EXTENDS Ingest, FiniteSetTheorems, TLAPS

\* A worker that holds a message knows which job and which partition.
BusyHasJob == \A w \in Workers : Busy(w) => job[w] \in Jobs /\ src[w] \in Partitions

TypeInv == TypeOK /\ BusyHasJob

\* A job names a document and an attempt within MAX_INGEST_ATTEMPTS.
LEMMA JobFields ==
  \A j \in Jobs : j.doc \in Docs /\ j.attempt \in 1 .. MaxAttempts
  BY DEF Jobs

\* What the gateway publishes is a job.
LEMMA FirstJobType == \A d \in Docs : FirstJob(d) \in Jobs
  BY ConstantsAssumption DEF FirstJob, Jobs

\* What fail() sends back to the topic is a job: CanRetry bounds the attempt.
LEMMA RetryJobType == \A j \in Jobs : CanRetry(j.attempt) => RetryJob(j) \in Jobs
  BY ConstantsAssumption DEF RetryJob, Jobs, CanRetry

\* Counting a fault keeps the counters typed.
LEMMA FaultType ==
  \A k \in FaultKinds :
    faults \in [FaultKinds -> Nat] /\ Fault(k) => faults' \in [FaultKinds -> Nat]
  BY DEF Fault

\* The faults the actions name are counted ones.
LEMMA FaultNames == {"crash", "stop", "raise", "evict", "lose", "dup", "again"} \subseteq FaultKinds
  BY DEF FaultKinds

\* The empty system satisfies the invariant.
LEMMA InitType == Init => TypeInv
  BY ConstantsAssumption
  DEF Init, TypeInv, TypeOK, BusyHasJob, Busy, Status, PC, NoJob, Jobs, FaultKinds

\* Every action preserves the types of all variables (worker.py's handlers,
\* the upload handler and the consumer group).
LEMMA StepType == TypeInv /\ [Next]_vars => TypeInv'
<1> USE ConstantsAssumption, JobFields DEF TypeInv
<1> SUFFICES ASSUME TypeInv, [Next]_vars PROVE TypeInv'
    OBVIOUS
<1> USE DEF TypeOK, BusyHasJob, Busy, dbVars, kafkaVars, workerVars, txVars,
            obsVars, GoTo, Status, PC
<1>1. CASE \E d \in Docs : Client(d)
  <2> PICK d \in Docs : Client(d)  BY <1>1
  <2>1. CASE CreateDocument(d)  BY <2>1 DEF CreateDocument
  <2>2. CASE UploadDuplicate(d)  BY <2>2, FaultType, FaultNames DEF UploadDuplicate
  <2> QED  BY <2>1, <2>2 DEF Client
<1>2. CASE \E d \in Docs : Gateway(d)
  <2> PICK d \in Docs : Gateway(d)  BY <1>2
  <2>1. CASE Publish(d)
    <3> DEFINE p == KeyPartition[d]
    <3>1. p \in Partitions /\ FirstJob(d) \in Jobs  BY FirstJobType
    <3>2. Append(log[p], FirstJob(d)) \in Seq(Jobs)  BY <3>1
    <3>3. Append(Append(log[p], FirstJob(d)), FirstJob(d)) \in Seq(Jobs)
      BY <3>1, <3>2
    <3>4. log' \in [Partitions -> Seq(Jobs)]
      BY <2>1, <3>1, <3>2, <3>3, ZenonT(60) DEF Publish
    <3>5. faults' \in [FaultKinds -> Nat]
      BY <2>1, FaultType, FaultNames DEF Publish
    <3>6. upload' \in [Docs -> {"none", "stored", "done"}]  BY <2>1 DEF Publish
    <3> QED  BY <2>1, <3>4, <3>5, <3>6 DEF Publish
  <2>2. CASE PublishLost(d)  BY <2>2, FaultType, FaultNames DEF PublishLost
  <2> QED  BY <2>1, <2>2 DEF Gateway
<1>3. CASE \E w \in Workers : Group(w)
  <2> PICK w \in Workers : Group(w)  BY <1>3
  <2>1. CASE Evict(w)  BY <2>1, FaultType, FaultNames, ZenonT(60) DEF Evict, Released
  <2>2. CASE \E p \in Partitions : Assign(p, w)  BY <2>2, SMTT(60) DEF Assign
  <2> QED  BY <2>1, <2>2 DEF Group
<1>4. CASE \E w \in Workers : Working(w)
  <2> PICK w \in Workers : Working(w)  BY <1>4
  <2>1. CASE \E p \in Partitions : Poll(w, p)  BY <2>1, SMTT(60) DEF Poll
  <2>2. CASE Ingesting(w)
    <3>1. CASE Load(w)  BY <3>1, ZenonT(60) DEF Load, OnException
    <3>2. CASE ChunkAndEmbed(w)  BY <3>2 DEF ChunkAndEmbed, OnException
    <3>3. CASE BeginReplace(w)  
      <4>1. job[w].doc \in Docs /\ job[w] \in Jobs  BY <3>3 DEF BeginReplace
      <4>2. gens[job[w].doc] + 1 \in Nat /\ rows[job[w].doc] \in SUBSET (Nat \X Nat)
        BY <4>1
      <4>3. /\ gens' \in [Docs -> Nat]
            /\ gen' \in [Workers -> Nat]
            /\ snap' \in [Workers -> SUBSET (Nat \X Nat)]
        BY <3>3, <4>1, <4>2 DEF BeginReplace
      <4> QED  BY <3>3, <4>1, <4>3 DEF BeginReplace
    <3>4. CASE DeleteOld(w)  BY <3>4 DEF DeleteOld
    <3>5. CASE InsertChunk(w)  
      <4>1. ins[w] + 1 \in Nat  OBVIOUS
      <4>2. ins' \in [Workers -> Nat]  BY <3>5, <4>1 DEF InsertChunk
      <4>3. pc' \in [Workers -> PC]  BY <3>5 DEF InsertChunk
      <4> QED  BY <3>5, <4>2, <4>3 DEF InsertChunk
    <3>6. CASE UniqueViolation(w)  BY <3>6 DEF UniqueViolation, EndTx, OnException
    <3>7. CASE CommitReplace(w)  
      <4>1. job[w].doc \in Docs /\ job[w] \in Jobs  BY <3>7 DEF CommitReplace
      <4>2. (0 .. ins[w] - 1) \X {gen[w]} \in SUBSET (Nat \X Nat)  OBVIOUS
      <4>3. RowsAfter(w) \in SUBSET (Nat \X Nat)  BY <4>1, <4>2 DEF RowsAfter
      <4>4. /\ rows' \in [Docs -> SUBSET (Nat \X Nat)]
            /\ chunkCount' \in [Docs -> Nat]
        BY <3>7, <4>1, <4>3 DEF CommitReplace
      <4> QED  BY <3>7, <4>1, <4>4 DEF CommitReplace, EndTx
    <3> QED  BY <2>2, <3>1, <3>2, <3>3, <3>4, <3>5, <3>6, <3>7 DEF Ingesting
  <2>3. CASE Failing(w)
    <3>1. CASE FailUpdate(w)  
      <4>1. job[w].doc \in Docs /\ job[w] \in Jobs  BY <3>1 DEF FailUpdate
      <4>2. attempts[job[w].doc] + 1 \in Nat  BY <4>1
      <4>3. StatusAfterFail(job[w].attempt) \in Status  BY DEF StatusAfterFail
      <4>4. attempts' \in [Docs -> Nat] /\ status' \in [Docs -> Status]
        BY <3>1, <4>1, <4>2, <4>3 DEF FailUpdate
      <4> QED  BY <3>1, <4>1, <4>4, ZenonT(60) DEF FailUpdate
    <3>2. CASE SendDead(w)  BY <3>2, ZenonT(60) DEF SendDead
    <3>3. CASE \E p \in Partitions : SendRetry(w, p)
      <4> QED  BY <3>3, RetryJobType, SMTT(60) DEF SendRetry
    <3> QED  BY <2>3, <3>1, <3>2, <3>3 DEF Failing
  <2>4. CASE CommitOffset(w)  
    <3>1. src[w] \in Partitions  BY <2>4 DEF CommitOffset
    <3>2. Advanced(src[w]) \in Nat  BY <3>1 DEF Advanced
    <3>3. committed' \in [Partitions -> Nat]
      BY <2>4, <3>1, <3>2 DEF CommitOffset
    <3>4. /\ pc' \in [Workers -> PC]
          /\ \A v \in Workers : v # w => pc'[v] = pc[v]
          /\ pc'[w] \in {"idle", "dead"}
      BY <2>4 DEF CommitOffset
    <3> QED  BY <2>4, <3>1, <3>3, <3>4 DEF CommitOffset
  <2>5. CASE Exit(w)  BY <2>5 DEF Exit, Gone, Released, EndTx
  <2> QED  BY <2>1, <2>2, <2>3, <2>4, <2>5 DEF Working
<1>5. CASE \E w \in Workers : Faulty(w)
  <2> PICK w \in Workers : Faulty(w)  BY <1>5
  <2>1. CASE Raise(w)  BY <2>1, FaultType, FaultNames DEF Raise, EndTx, OnException
  <2>2. CASE SendLost(w)  BY <2>2, FaultType, FaultNames, ZenonT(60) DEF SendLost
  <2>3. CASE Stop(w)  BY <2>3, FaultType, FaultNames DEF Stop
  <2>4. CASE Crash(w)  BY <2>4, FaultType, FaultNames DEF Crash, Gone, Released, EndTx
  <2>5. CASE Restart(w)  BY <2>5 DEF Restart
  <2> QED  BY <2>1, <2>2, <2>3, <2>4, <2>5 DEF Faulty
<1>6. CASE UNCHANGED vars  BY <1>6 DEF vars
<1> QED  BY <1>1, <1>2, <1>3, <1>4, <1>5, <1>6 DEF Next

\* The invariant holds throughout.
LEMMA TypeInvariant == Spec => []TypeInv
  BY InitType, StepType, PTL DEF Spec

\* The documents table, the chunks table, the Kafka log and the workers keep
\* their types: no attempt above MAX_INGEST_ATTEMPTS is ever queued.
THEOREM TypeCorrect == Spec => []TypeOK
  BY TypeInvariant, PTL DEF TypeInv

-----------------------------------------------------------------------------
(***************************************************************************)
(* The worker's transaction replaces a document's chunks atomically,       *)
(* whatever other workers do with the same document.                       *)
(*                                                                         *)
(* WholeGeneration is not inductive: it says nothing of the open           *)
(* transactions. ReplaceInv adds what the row locks and the unique index   *)
(* guarantee about them: a transaction that has inserted a row has deleted *)
(* every committed row of its document, and no two of them have.           *)
(***************************************************************************)

Writing(w) == pc[w] \in {"insert", "finish"}

\* The rows S are none or one complete generation of d no younger than g.
Complete(d, S, g) == S = {} \/ \E h \in 1 .. g : S = Generation(d, h)

\* The transaction of w in isolation.
TxInv(w) ==
  LET d == job[w].doc IN
  /\ pc[w] = "begin" => NChunks[d] > 0
  /\ ~Writing(w) => del[w] = {} /\ ins[w] = 0
  /\ InTx(w) => /\ NChunks[d] > 0
                /\ gen[w] \in 1 .. gens[d]
                /\ Complete(d, snap[w], gen[w] - 1)
  /\ Writing(w) => /\ del[w] \in {{}, rows[d]}
                   /\ del[w] \subseteq snap[w]
                   /\ ins[w] \in 0 .. NChunks[d]
                   /\ ins[w] > 0 => del[w] = rows[d]
                   /\ pc[w] = "insert" => ins[w] < NChunks[d]
                   /\ pc[w] = "finish" => ins[w] = NChunks[d]

\* Two transactions on one document: the locks keep them apart.
Apart(v, w) ==
  v # w /\ Writing(v) /\ Writing(w) /\ job[v].doc = job[w].doc =>
    ~(ins[v] > 0 /\ ins[w] > 0) /\ del[v] \cap del[w] = {}

AllComplete == \A d \in Docs : Complete(d, rows[d], gens[d])

ReplaceInv ==
  /\ AllComplete
  /\ \A w \in Workers : TxInv(w)
  /\ \A v, w \in Workers : Apart(v, w)

\* Without rows and transactions the invariant holds.
LEMMA InitReplace == Init => ReplaceInv
  BY ConstantsAssumption
  DEF Init, ReplaceInv, AllComplete, Complete, TxInv, Apart, Writing, InTx

\* Steps that leave rows and gens alone and either do not touch a worker's
\* transaction or take the worker out of it preserve the invariant.
LEMMA Frame ==
  ASSUME TypeInv, ReplaceInv, rows' = rows, gens' = gens,
         \A v \in Workers :
           \/ /\ pc'[v] = pc[v] /\ job'[v] = job[v] /\ gen'[v] = gen[v]
              /\ snap'[v] = snap[v] /\ del'[v] = del[v] /\ ins'[v] = ins[v]
           \/ /\ pc'[v] \notin {"begin", "delete", "insert", "finish"}
              /\ del'[v] = {} /\ ins'[v] = 0
  PROVE  ReplaceInv'
<1>1. AllComplete'  BY DEF ReplaceInv, AllComplete, Complete, Generation
<1>2. ASSUME NEW w \in Workers PROVE TxInv(w)'
  BY DEF ReplaceInv, TxInv, Writing, InTx, Complete, Generation
<1>3. ASSUME NEW v \in Workers, NEW w \in Workers PROVE Apart(v, w)'
  BY DEF ReplaceInv, Apart, Writing
<1> QED  BY <1>1, <1>2, <1>3 DEF ReplaceInv

\* Every step keeps the invariant of racing transactions.
LEMMA StepReplace == TypeInv /\ ReplaceInv /\ [Next]_vars => ReplaceInv'
<1> SUFFICES ASSUME TypeInv, ReplaceInv, [Next]_vars PROVE ReplaceInv'
    OBVIOUS
<1> USE ConstantsAssumption
<1>a. TypeOK /\ BusyHasJob  BY DEF TypeInv
<1>b. \A w \in Workers : ~Writing(w) => del[w] = {} /\ ins[w] = 0
  BY DEF ReplaceInv, TxInv
<1> USE DEF dbVars, kafkaVars, workerVars, txVars, obsVars, GoTo
<1>1. CASE \E d \in Docs : Client(d) \/ Gateway(d)
  BY <1>1, Frame
  DEF Client, Gateway, CreateDocument, UploadDuplicate, Publish, PublishLost
<1>2. CASE \E w \in Workers : Group(w)
  BY <1>2, Frame DEF Group, Evict, Assign
<1>3. CASE \E w \in Workers : Working(w)
  <2> PICK w \in Workers : Working(w)  BY <1>3
  <2>1. CASE \E p \in Partitions : Poll(w, p)
    BY <2>1, <1>a, <1>b, Frame, ZenonT(60) DEF Poll, Writing, TypeOK
  <2>2. CASE Load(w)
    BY <2>2, <1>a, <1>b, Frame, ZenonT(60) DEF Load, Writing, TypeOK, OnException
  <2>3. CASE ChunkAndEmbed(w)
    <3>1. /\ pc[w] = "chunk" /\ job[w].doc \in Docs
          /\ pc' = [pc EXCEPT ![w] = IF NChunks[job[w].doc] = 0 THEN "fail" ELSE "begin"]
          /\ UNCHANGED <<rows, gens, job, gen, snap, del, ins>>
      BY <2>3, <1>a, JobFields DEF ChunkAndEmbed, BusyHasJob, Busy, OnException
    <3>2. NChunks[job[w].doc] = 0 \/ NChunks[job[w].doc] > 0  BY <3>1
    <3>3. AllComplete'
      BY <3>1 DEF ReplaceInv, AllComplete, Complete, Generation
    <3>4. ASSUME NEW v \in Workers PROVE TxInv(v)'
      BY <3>1, <3>2, <1>a, <1>b
      DEF ReplaceInv, TxInv, Writing, InTx, Complete, Generation, TypeOK
    <3>5. ASSUME NEW u \in Workers, NEW v \in Workers PROVE Apart(u, v)'
      BY <3>1, <1>a DEF ReplaceInv, Apart, Writing, TypeOK
    <3> QED  BY <3>3, <3>4, <3>5 DEF ReplaceInv
  <2>4. CASE BeginReplace(w)
    <3> DEFINE d == job[w].doc
    <3>1. /\ pc[w] = "begin" /\ d \in Docs /\ gens[d] \in Nat
          /\ pc' = [pc EXCEPT ![w] = "delete"]
          /\ gens' = [gens EXCEPT ![d] = gens[d] + 1]
          /\ gen' = [gen EXCEPT ![w] = gens[d] + 1]
          /\ snap' = [snap EXCEPT ![w] = rows[d]]
          /\ UNCHANGED <<rows, job, del, ins>>
      BY <2>4, <1>a, JobFields DEF BeginReplace, BusyHasJob, Busy, TypeOK
    <3>2. \A c \in Docs : gens[c] \in Nat /\ gens'[c] \in Nat /\ gens[c] <= gens'[c]
      BY <3>1, <1>a, SMTT(60) DEF TypeOK
    <3>3. AllComplete'
      BY <3>1, <3>2 DEF ReplaceInv, AllComplete, Complete, Generation
    <3>4. TxInv(w)'
      <4>1. TxInv(w) /\ Complete(d, rows[d], gens[d])
        BY <3>1 DEF ReplaceInv, AllComplete
      <4>2. /\ pc'[w] = "delete" /\ gen'[w] = gens[d] + 1 /\ snap'[w] = rows[d]
            /\ job'[w] = job[w] /\ del'[w] = {} /\ ins'[w] = 0
            /\ gens'[d] = gens[d] + 1
        BY <3>1, <1>a, <1>b DEF TypeOK, Writing
      <4>3. Complete(d, snap[w], gen[w] - 1)'
        BY <4>1, <4>2, <3>1 DEF Complete, Generation
      <4> QED  BY <4>1, <4>2, <4>3, <3>1 DEF TxInv, Writing, InTx
    <3>5. ASSUME NEW v \in Workers, v # w PROVE TxInv(v)'
      <4>1. TxInv(v)  BY DEF ReplaceInv
      <4>2. /\ pc'[v] = pc[v] /\ gen'[v] = gen[v] /\ snap'[v] = snap[v]
            /\ job'[v] = job[v] /\ del'[v] = del[v] /\ ins'[v] = ins[v]
        BY <3>1, <3>5, <1>a DEF TypeOK
      <4>3. InTx(v) => job[v].doc \in Docs
        BY <1>a, JobFields DEF InTx, BusyHasJob, Busy
      <4>4. Complete(job[v].doc, snap[v], gen[v] - 1)' <=> Complete(job[v].doc, snap[v], gen[v] - 1)
        BY <4>2 DEF Complete, Generation
      <4>5. InTx(v) => gen'[v] \in 1 .. gens'[job[v].doc]
        <5> SUFFICES ASSUME InTx(v) PROVE gen'[v] \in 1 .. gens'[job[v].doc]
          OBVIOUS
        <5>1. gen[v] \in 1 .. gens[job[v].doc]  BY <4>1 DEF TxInv
        <5> QED  BY <5>1, <4>2, <4>3, <3>2
      <4>6. rows' = rows /\ (InTx(v) <=> InTx(v)') /\ (Writing(v) <=> Writing(v)')
        BY <3>1, <4>2 DEF InTx, Writing
      <4> QED  BY <4>1, <4>2, <4>4, <4>5, <4>6 DEF TxInv
    <3>6. ASSUME NEW u \in Workers, NEW v \in Workers PROVE Apart(u, v)'
      BY <3>1, <1>a DEF ReplaceInv, Apart, Writing, TypeOK
    <3> QED  BY <3>3, <3>4, <3>5, <3>6 DEF ReplaceInv
  <2>5. CASE DeleteOld(w)
    <3> DEFINE d == job[w].doc
    <3>1. /\ pc[w] = "delete" /\ d \in Docs
          /\ \A v \in Rivals(w) : del[v] \cap snap[w] = {}
          /\ pc' = [pc EXCEPT ![w] = "insert"]
          /\ del' = [del EXCEPT ![w] = snap[w] \cap rows[d]]
          /\ UNCHANGED <<rows, gens, job, gen, snap, ins>>
      BY <2>5, <1>a, JobFields DEF DeleteOld, BusyHasJob, Busy
    <3>2. /\ Complete(d, snap[w], gen[w] - 1) /\ Complete(d, rows[d], gens[d])
          /\ NChunks[d] > 0 /\ gen[w] \in 1 .. gens[d] /\ ins[w] = 0
      BY <3>1, <1>b DEF ReplaceInv, TxInv, AllComplete, InTx, Writing
    <3>3. snap[w] \cap rows[d] \in {{}, rows[d]}
      BY <3>2 DEF Complete, Generation
    <3>4. AllComplete'
      BY <3>1 DEF ReplaceInv, AllComplete, Complete, Generation
    <3>5. TxInv(w)'
      BY <3>1, <3>2, <3>3, <1>a, SMTT(60)
      DEF TxInv, Writing, InTx, Complete, Generation, TypeOK
    <3>6. ASSUME NEW v \in Workers, v # w PROVE TxInv(v)'
      BY <3>1, <3>6, <1>a
      DEF ReplaceInv, TxInv, Writing, InTx, Complete, Generation, TypeOK
    <3>7. ASSUME NEW v \in Workers, v # w PROVE Apart(v, w)' /\ Apart(w, v)'
      <4>1. Writing(v) /\ job[v].doc = d => del[v] \cap snap[w] = {}
        BY <3>1, <3>7 DEF Rivals, Writing, InTx
      <4> QED  BY <4>1, <3>1, <3>2, <3>7, <1>a DEF Apart, Writing, TypeOK
    <3>8. ASSUME NEW u \in Workers, NEW v \in Workers, u # w, v # w PROVE Apart(u, v)'
      BY <3>1, <3>8, <1>a DEF ReplaceInv, Apart, Writing, TypeOK
    <3>9. Apart(w, w)'  BY DEF Apart
    <3> QED  BY <3>4, <3>5, <3>6, <3>7, <3>8, <3>9 DEF ReplaceInv
  <2>6. CASE InsertChunk(w)
    <3> DEFINE d == job[w].doc
    <3>1. /\ pc[w] = "insert" /\ d \in Docs /\ NChunks[d] \in Nat /\ ins[w] \in Nat
          /\ ~MustWait(w, ins[w]) /\ ~Duplicate(w, ins[w])
          /\ pc' = [pc EXCEPT ![w] = IF ins[w] + 1 = NChunks[d] THEN "finish" ELSE "insert"]
          /\ ins' = [ins EXCEPT ![w] = ins[w] + 1]
          /\ UNCHANGED <<rows, gens, job, gen, snap, del>>
      BY <2>6, <1>a, JobFields DEF InsertChunk, BusyHasJob, Busy, TypeOK
    <3>2. /\ TxInv(w) /\ Complete(d, rows[d], gens[d])
          /\ NChunks[d] > 0 /\ ins[w] < NChunks[d] /\ del[w] \in {{}, rows[d]}
      BY <3>1 DEF ReplaceInv, TxInv, AllComplete, InTx, Writing
    <3>3. del[w] = rows[d]
      <4>1. SUFFICES ASSUME del[w] = {}, rows[d] # {} PROVE FALSE
        BY <3>2
      <4>2. PICK h \in 1 .. gens[d] : rows[d] = Generation(d, h)
        BY <3>2, <4>1 DEF Complete
      <4>3. <<ins[w], h>> \in rows[d]
        BY <4>2, <3>1, <3>2 DEF Generation
      <4> QED  BY <3>1, <4>1, <4>3 DEF Duplicate
    <3>4. AllComplete'
      BY <3>1 DEF ReplaceInv, AllComplete, Complete, Generation
    <3>5. TxInv(w)'
      <4>1. /\ job'[w] = job[w] /\ gen'[w] = gen[w] /\ snap'[w] = snap[w]
            /\ del'[w] = rows[d] /\ ins'[w] = ins[w] + 1
            /\ pc'[w] = IF ins[w] + 1 = NChunks[d] THEN "finish" ELSE "insert"
        BY <3>1, <3>3, <1>a DEF TypeOK
      <4>2. Complete(d, snap[w], gen[w] - 1)' <=> Complete(d, snap[w], gen[w] - 1)
        BY <4>1 DEF Complete, Generation
      <4> QED  BY <4>1, <4>2, <3>1, <3>2, <3>3 DEF TxInv, Writing, InTx
    <3>6. ASSUME NEW v \in Workers, v # w PROVE TxInv(v)'
      BY <3>1, <3>6, <1>a
      DEF ReplaceInv, TxInv, Writing, InTx, Complete, Generation, TypeOK
    <3>7. ASSUME NEW v \in Workers, v # w PROVE Apart(v, w)' /\ Apart(w, v)'
      <4>1. Apart(v, w) /\ Apart(w, v) /\ TxInv(v)  BY DEF ReplaceInv
      <4>2. Writing(v) /\ job[v].doc = d => ~(ins[w] < ins[v])
        BY <3>1, <3>7 DEF MustWait, Rivals, Writing, InTx
      <4>3. Writing(v) /\ job[v].doc = d => ins[v] = 0
        <5>1. ASSUME Writing(v), job[v].doc = d, ins[v] # 0 PROVE FALSE
          <6>1. ins[v] > 0 /\ ins[v] \in Nat  BY <5>1, <1>a DEF TypeOK
          <6>2. ins[w] = 0  BY <4>1, <5>1, <6>1, <3>1, <3>7 DEF Apart, Writing
          <6> QED  BY <4>2, <5>1, <6>1, <6>2
        <5> QED  BY <5>1
      <4> QED  BY <4>1, <4>3, <3>1, <3>7, <1>a DEF Apart, Writing, TypeOK
    <3>8. ASSUME NEW u \in Workers, NEW v \in Workers, u # w, v # w PROVE Apart(u, v)'
      BY <3>1, <3>8, <1>a DEF ReplaceInv, Apart, Writing, TypeOK
    <3>9. Apart(w, w)'  BY DEF Apart
    <3> QED  BY <3>4, <3>5, <3>6, <3>7, <3>8, <3>9 DEF ReplaceInv
  <2>7. CASE UniqueViolation(w)
    BY <2>7, <1>a, Frame DEF UniqueViolation, EndTx, OnException, TypeOK
  <2>8. CASE CommitReplace(w)
    <3> DEFINE d == job[w].doc
    <3>1. /\ pc[w] = "finish" /\ d \in Docs /\ NChunks[d] \in Nat /\ ins[w] \in Nat
          /\ pc' = [pc EXCEPT ![w] = "ack"]
          /\ rows' = [rows EXCEPT ![d] = RowsAfter(w)]
          /\ del' = [del EXCEPT ![w] = {}]
          /\ ins' = [ins EXCEPT ![w] = 0]
          /\ gen' = [gen EXCEPT ![w] = 0]
          /\ snap' = [snap EXCEPT ![w] = {}]
          /\ UNCHANGED <<gens, job>>
      BY <2>8, <1>a, JobFields DEF CommitReplace, EndTx, BusyHasJob, Busy, TypeOK
    <3>2. /\ NChunks[d] > 0 /\ ins[w] = NChunks[d] /\ del[w] = rows[d]
          /\ gen[w] \in 1 .. gens[d]
      BY <3>1 DEF ReplaceInv, TxInv, InTx, Writing
    <3>3. RowsAfter(w) = Generation(d, gen[w])
      BY <3>2 DEF RowsAfter, Generation
    <3>4. AllComplete'
      <4>1. Complete(d, rows[d], gens[d])'
        BY <3>1, <3>2, <3>3, <1>a DEF Complete, Generation, TypeOK
      <4>2. ASSUME NEW c \in Docs, c # d PROVE Complete(c, rows[c], gens[c])'
        BY <3>1, <4>2, <1>a DEF ReplaceInv, AllComplete, Complete, Generation, TypeOK
      <4> QED  BY <4>1, <4>2, <3>1 DEF AllComplete
    <3>5. TxInv(w)'
      BY <3>1, <1>a DEF TxInv, Writing, InTx, TypeOK
    <3>6. ASSUME NEW v \in Workers, v # w PROVE TxInv(v)'
      <4>1. Apart(v, w) /\ TxInv(v)  BY DEF ReplaceInv
      <4>2. /\ pc'[v] = pc[v] /\ gen'[v] = gen[v] /\ snap'[v] = snap[v]
            /\ job'[v] = job[v] /\ del'[v] = del[v] /\ ins'[v] = ins[v]
        BY <3>1, <3>6, <1>a DEF TypeOK
      <4>3. Complete(job[v].doc, snap[v], gen[v] - 1)' <=> Complete(job[v].doc, snap[v], gen[v] - 1)
        BY <4>2 DEF Complete, Generation
      <4>4. CASE Writing(v) /\ job[v].doc = d
        <5>1. ins[v] = 0 /\ del[v] = {}
          BY <4>1, <4>4, <3>1, <3>2, <3>6, <1>a DEF Apart, TxInv, Writing, TypeOK
        <5> QED  BY <4>1, <4>2, <4>3, <4>4, <5>1, <3>1 DEF TxInv, Writing, InTx
      <4>5. CASE ~(Writing(v) /\ job[v].doc = d)
        <5>1. Writing(v) => rows'[job[v].doc] = rows[job[v].doc]
          BY <4>5, <3>1, <1>a, JobFields DEF TypeOK, Writing, BusyHasJob, Busy
        <5> QED  BY <4>1, <4>2, <4>3, <4>5, <5>1, <3>1 DEF TxInv, Writing, InTx
      <4> QED  BY <4>4, <4>5
    <3>7. ASSUME NEW u \in Workers, NEW v \in Workers PROVE Apart(u, v)'
      BY <3>1, <1>a DEF ReplaceInv, Apart, Writing, TypeOK
    <3> QED  BY <3>4, <3>5, <3>6, <3>7 DEF ReplaceInv
  <2>9. CASE FailUpdate(w) \/ SendDead(w) \/ \E p \in Partitions : SendRetry(w, p)
    BY <2>9, <1>a, <1>b, Frame, SMTT(60)
    DEF FailUpdate, SendDead, SendRetry, Writing, TypeOK
  <2>10. CASE CommitOffset(w)
    BY <2>10, <1>a, <1>b, Frame DEF CommitOffset, Writing, TypeOK
  <2>11. CASE Exit(w)
    BY <2>11, <1>a, <1>b, Frame DEF Exit, Gone, EndTx, TypeOK
  <2> QED  BY <2>1, <2>2, <2>3, <2>4, <2>5, <2>6, <2>7, <2>8, <2>9, <2>10, <2>11
           DEF Working, Ingesting, Failing
<1>4. CASE \E w \in Workers : Faulty(w)
  <2> PICK w \in Workers : Faulty(w)  BY <1>4
  <2>1. CASE Raise(w)
    BY <2>1, <1>a, Frame DEF Raise, EndTx, OnException, TypeOK
  <2>2. CASE SendLost(w)
    BY <2>2, <1>a, <1>b, Frame DEF SendLost, Writing, TypeOK
  <2>3. CASE Stop(w)  BY <2>3, Frame DEF Stop
  <2>4. CASE Crash(w)
    BY <2>4, <1>a, Frame DEF Crash, Gone, EndTx, TypeOK
  <2>5. CASE Restart(w)
    BY <2>5, <1>a, <1>b, Frame DEF Restart, Writing, TypeOK
  <2> QED  BY <2>1, <2>2, <2>3, <2>4, <2>5 DEF Faulty
<1>5. CASE UNCHANGED vars  BY <1>5, Frame DEF vars
<1> QED  BY <1>1, <1>2, <1>3, <1>4, <1>5 DEF Next

\* The invariant holds in every reachable state.
LEMMA ReplaceInvariant == Spec => [](TypeInv /\ ReplaceInv)
  BY InitType, StepType, InitReplace, StepReplace, PTL DEF Spec

\* "The corpus is never half-old and half-new" (worker.py, ingest): for any
\* number of documents, workers, partitions and faults, the chunks of every
\* document are none or exactly one complete generation.
THEOREM CorpusIsWhole == Spec => []WholeGeneration
<1>1. ReplaceInv => WholeGeneration
  BY DEF ReplaceInv, AllComplete, Complete, WholeGeneration
<1> QED  BY <1>1, ReplaceInvariant, PTL

-----------------------------------------------------------------------------
(***************************************************************************)
(* The count column and the refinement.                                    *)
(***************************************************************************)

\* A complete generation has as many rows as the chunker made chunks.
LEMMA GenerationCardinality ==
  ASSUME NEW d \in Docs, NEW g \in Nat
  PROVE  Cardinality(Generation(d, g)) = NChunks[d]
<1> DEFINE n == NChunks[d]
           I == 0 .. n - 1
<1>1. n \in Nat  BY ConstantsAssumption
<1>2. 0 \in Int /\ n - 1 \in Int  BY <1>1
<1>3. IsFiniteSet(I) /\ Cardinality(I) = IF 0 > n - 1 THEN 0 ELSE n - 1 - 0 + 1
  <2> HIDE DEF n
  <2> QED  BY <1>2, FS_Interval, Zenon
<1>4. Cardinality(I) = n
  <2> DEFINE c == Cardinality(I)
  <2>1. c = IF 0 > n - 1 THEN 0 ELSE n - 1 - 0 + 1  BY <1>3
  <2> HIDE DEF c, n
  <2> QED  BY <1>1, <2>1 DEF c
<1>5. IsFiniteSet({g}) /\ Cardinality({g}) = 1  BY FS_Singleton, Zenon
<1>6. Cardinality(I \X {g}) = Cardinality(I) * Cardinality({g})
  <2> HIDE DEF I
  <2> QED  BY <1>3, <1>5, FS_Product, Zenon
<1>7. Cardinality(I \X {g}) = n
  <2> DEFINE c == Cardinality(I \X {g})
  <2>1. c = n * 1  BY <1>4, <1>5, <1>6
  <2> HIDE DEF c, n
  <2> QED  BY <1>1, <2>1 DEF c
<1> QED  BY <1>7 DEF Generation

\* A step that leaves the chunks alone and makes no document "ready".
Quiet ==
  /\ rows' = rows /\ chunkCount' = chunkCount
  /\ \A d \in Docs : gens'[d] \in Nat /\ gens'[d] >= gens[d]
  /\ \/ status' = status
     \/ \E d \in Docs : \E x \in Status \ {"ready"} :
          status' = [status EXCEPT ![d] = x]

\* Only the commit of a worker's transaction is not quiet.
LEMMA OnlyCommitIndexes ==
  ASSUME TypeInv, [Next]_vars, ~\E w \in Workers : CommitReplace(w)
  PROVE  Quiet
<1> USE ConstantsAssumption
    DEF dbVars, kafkaVars, workerVars, txVars, obsVars, GoTo
<1>a. TypeOK /\ BusyHasJob  BY DEF TypeInv
<1>b. \A d \in Docs : gens[d] \in Nat  BY <1>a DEF TypeOK
<1>1. CASE \E d \in Docs : Client(d) \/ Gateway(d)
  BY <1>1, <1>b
  DEF Client, Gateway, CreateDocument, UploadDuplicate, Publish, PublishLost,
      Quiet, Status
<1>2. CASE \E w \in Workers : Group(w)
  BY <1>2, <1>b DEF Group, Evict, Assign, Quiet
<1>3. CASE \E w \in Workers : Working(w)
  <2> PICK w \in Workers : Working(w)  BY <1>3
  <2>1. CASE Load(w)
    <3>1. job[w].doc \in Docs
      BY <2>1, <1>a, JobFields DEF Load, BusyHasJob, Busy
    <3>2. status' = status \/ status' = [status EXCEPT ![job[w].doc] = "chunking"]
      BY <2>1 DEF Load
    <3>3. rows' = rows /\ chunkCount' = chunkCount /\ gens' = gens
      BY <2>1 DEF Load
    <3> QED  BY <3>1, <3>2, <3>3, <1>b DEF Quiet, Status
  <2>2. CASE BeginReplace(w)
    <3>1. job[w].doc \in Docs
      BY <2>2, <1>a, JobFields DEF BeginReplace, BusyHasJob, Busy
    <3>2. gens' = [gens EXCEPT ![job[w].doc] = gens[job[w].doc] + 1]
      BY <2>2 DEF BeginReplace
    <3>3. \A d \in Docs : gens'[d] \in Nat /\ gens'[d] >= gens[d]
      BY <3>1, <3>2, <1>a, SMTT(60) DEF TypeOK
    <3> QED  BY <2>2, <3>3 DEF BeginReplace, Quiet
  <2>3. CASE FailUpdate(w)
    <3>1. job[w].doc \in Docs
      BY <2>3, <1>a, JobFields DEF FailUpdate, BusyHasJob, Busy
    <3>2. StatusAfterFail(job[w].attempt) \in Status \ {"ready"}
      BY DEF StatusAfterFail, Status
    <3>3. /\ status' = [status EXCEPT ![job[w].doc] = StatusAfterFail(job[w].attempt)]
          /\ rows' = rows /\ chunkCount' = chunkCount /\ gens' = gens
      BY <2>3 DEF FailUpdate
    <3>4. \E d \in Docs : \E x \in Status \ {"ready"} : status' = [status EXCEPT ![d] = x]
      BY <3>1, <3>2, <3>3
    <3>5. \A d \in Docs : gens'[d] \in Nat /\ gens'[d] >= gens[d]  BY <3>3, <1>b
    <3> HIDE DEF dbVars, kafkaVars, workerVars, txVars, obsVars, GoTo
    <3> QED  BY <3>3, <3>4, <3>5 DEF Quiet
  <2>4. CASE ChunkAndEmbed(w) \/ DeleteOld(w) \/ InsertChunk(w) \/ UniqueViolation(w)
    BY <2>4, <1>b DEF ChunkAndEmbed, DeleteOld, InsertChunk, UniqueViolation, Quiet
  <2>5. CASE \/ SendDead(w) \/ CommitOffset(w) \/ Exit(w)
             \/ \E p \in Partitions : Poll(w, p) \/ SendRetry(w, p)
    BY <2>5, <1>b DEF SendDead, CommitOffset, Exit, Poll, SendRetry, Quiet
  <2> QED  BY <2>1, <2>2, <2>3, <2>4, <2>5 DEF Working, Ingesting, Failing
<1>4. CASE \E w \in Workers : Faulty(w)
  BY <1>4, <1>b DEF Faulty, Raise, SendLost, Stop, Crash, Restart, Quiet
<1>5. CASE UNCHANGED vars  BY <1>5, <1>b DEF vars, Quiet
<1> QED  BY <1>1, <1>2, <1>3, <1>4, <1>5 DEF Next

\* What the commit of w does to the tables.
LEMMA CommitInstalls ==
  ASSUME TypeInv, ReplaceInv, NEW w \in Workers, CommitReplace(w)
  PROVE  LET d == job[w].doc IN
         /\ d \in Docs /\ NChunks[d] \in Nat \ {0}
         /\ gen[w] \in 1 .. gens[d] /\ gens' = gens
         /\ Complete(d, rows[d], gen[w] - 1)
         /\ rows' = [rows EXCEPT ![d] = Generation(d, gen[w])]
         /\ chunkCount' = [chunkCount EXCEPT ![d] = NChunks[d]]
         /\ status' = [status EXCEPT ![d] = "ready"]
<1> DEFINE d == job[w].doc
<1>1. d \in Docs
  BY JobFields DEF CommitReplace, TypeInv, BusyHasJob, Busy
<1>2. /\ NChunks[d] > 0 /\ ins[w] = NChunks[d] /\ del[w] = rows[d]
      /\ gen[w] \in 1 .. gens[d]
      /\ del[w] \subseteq snap[w] /\ Complete(d, snap[w], gen[w] - 1)
  BY <1>1, ConstantsAssumption
  DEF CommitReplace, ReplaceInv, TxInv, InTx, Writing
<1>3. RowsAfter(w) = Generation(d, gen[w])  BY <1>2 DEF RowsAfter, Generation
<1>4. Complete(d, rows[d], gens[d])  BY <1>1 DEF ReplaceInv, AllComplete
<1>5. Complete(d, rows[d], gen[w] - 1)
  <2>1. CASE rows[d] = {}  BY <2>1 DEF Complete
  <2>2. CASE rows[d] # {}
    <3>1. PICK g \in 1 .. gens[d] : rows[d] = Generation(d, g)
      BY <1>4, <2>2 DEF Complete
    <3>2. PICK h \in 1 .. gen[w] - 1 : snap[w] = Generation(d, h)
      BY <1>2, <2>2 DEF Complete
    <3>3. g = h
      <4>1. PICK r \in rows[d] : r \in snap[w]  BY <1>2, <2>2
      <4>2. r[2] = g /\ r[2] = h  BY <4>1, <3>1, <3>2 DEF Generation
      <4> QED  BY <4>2
    <3> QED  BY <3>1, <3>2, <3>3 DEF Complete
  <2> QED  BY <2>1, <2>2
<1> QED  BY <1>1, <1>2, <1>3, <1>5, ConstantsAssumption DEF CommitReplace

\* An empty corpus is counted correctly.
LEMMA InitCount == Init => CountMatchesRows
  BY FS_EmptySet DEF Init, CountMatchesRows

\* Every step keeps chunk_count and the chunks table in agreement.
LEMMA StepCount ==
  ASSUME TypeInv, ReplaceInv, CountMatchesRows, [Next]_vars
  PROVE  CountMatchesRows'
<1>a. status \in [Docs -> Status] /\ rows \in [Docs -> SUBSET (Nat \X Nat)]
      /\ chunkCount \in [Docs -> Nat]
  BY DEF TypeInv, TypeOK
<1>1. CASE \E w \in Workers : CommitReplace(w)
  <2> PICK w \in Workers : CommitReplace(w)  BY <1>1
  <2> DEFINE d == job[w].doc
  <2>1. /\ d \in Docs /\ NChunks[d] \in Nat \ {0} /\ gen[w] \in Nat
        /\ rows' = [rows EXCEPT ![d] = Generation(d, gen[w])]
        /\ chunkCount' = [chunkCount EXCEPT ![d] = NChunks[d]]
        /\ status' = [status EXCEPT ![d] = "ready"]
    BY CommitInstalls DEF TypeInv, TypeOK
  <2>2. /\ rows'[d] = Generation(d, gen[w]) /\ chunkCount'[d] = NChunks[d]
        /\ \A c \in Docs : c # d => /\ rows'[c] = rows[c]
                                    /\ chunkCount'[c] = chunkCount[c]
                                    /\ status'[c] = status[c]
    BY <2>1, <1>a
  <2>3. Cardinality(Generation(d, gen[w])) = NChunks[d]
    BY <2>1, GenerationCardinality
  <2>4. <<0, gen[w]>> \in Generation(d, gen[w])  BY <2>1 DEF Generation
  <2>5. ASSUME NEW c \in Docs
        PROVE  /\ chunkCount'[c] = Cardinality(rows'[c])
               /\ status'[c] = "ready" => rows'[c] # {}
    BY <2>2, <2>3, <2>4 DEF CountMatchesRows
  <2> QED  BY <2>5 DEF CountMatchesRows
<1>2. CASE ~\E w \in Workers : CommitReplace(w)
  <2>1. Quiet  BY <1>2, OnlyCommitIndexes
  <2>2. \A c \in Docs : status'[c] = "ready" => status[c] = "ready"
    BY <2>1, <1>a DEF Quiet
  <2> QED  BY <2>1, <2>2 DEF Quiet, CountMatchesRows
<1> QED  BY <1>1, <1>2

\* worker.py's UPDATE documents shares the transaction of the chunks: the
\* chunk_count column always tells the number of rows, and "ready" means there
\* are some.
THEOREM CountIsExact == Spec => []CountMatchesRows
<1>1. TypeInv /\ ReplaceInv /\ CountMatchesRows /\ [Next]_vars => CountMatchesRows'
  BY StepCount
<1> QED  BY <1>1, InitCount, ReplaceInvariant, PTL DEF Spec

\* The generation a reader sees of one complete generation is that one.
LEMMA VisibleIs ==
  ASSUME NEW d \in Docs, NEW g \in 1 .. gens[d], gens[d] \in Nat,
         rows[d] = Generation(d, g), NChunks[d] \in Nat \ {0}
  PROVE  visible[d] = g
<1>1. <<0, g>> \in rows[d]  BY DEF Generation
<1>2. \A h \in 1 .. gens[d] : (\E r \in rows[d] : r[2] = h) <=> h = g
  BY <1>1 DEF Generation
<1> QED  BY <1>1, <1>2 DEF visible, GenerationOf

\* A quiet step changes no visible generation.
LEMMA QuietVisible ==
  ASSUME TypeInv, ReplaceInv, Quiet
  PROVE  visible' = visible
<1>1. ASSUME NEW d \in Docs PROVE visible'[d] = visible[d]
  <2>1. CASE rows[d] = {}  BY <2>1 DEF Quiet, visible, GenerationOf
  <2>2. CASE rows[d] # {}
    <3>1. /\ gens[d] \in Nat /\ gens'[d] \in Nat /\ gens'[d] >= gens[d]
          /\ rows'[d] = rows[d] /\ NChunks[d] \in Nat
      BY ConstantsAssumption DEF Quiet, TypeInv, TypeOK
    <3>2. PICK g \in 1 .. gens[d] : rows[d] = Generation(d, g)
      BY <2>2 DEF ReplaceInv, AllComplete, Complete
    <3>3. NChunks[d] # 0  BY <2>2, <3>2 DEF Generation
    <3>4. <<0, g>> \in rows[d]  BY <3>1, <3>2, <3>3 DEF Generation
    <3>5. \A h : (\E r \in rows[d] : r[2] = h) <=> h = g
      BY <3>2, <3>4 DEF Generation
    <3>6. visible[d] = g  BY <3>1, <3>2, <3>3, VisibleIs
    <3>7. visible'[d] = CHOOSE h \in 1 .. gens'[d] : \E r \in rows[d] : r[2] = h
      BY <3>1, <2>2 DEF visible, GenerationOf
    <3>8. g \in 1 .. gens'[d]  BY <3>1
    <3> QED  BY <3>5, <3>6, <3>7, <3>8
  <2> QED  BY <2>1, <2>2
<1> QED  BY <1>1 DEF visible

\* The initial states map to initial states of Corpus.
LEMMA InitAbstract == Init => Abstract!CorpusInit
<1> SUFFICES ASSUME Init PROVE Abstract!CorpusInit  OBVIOUS
<1>1. \A d \in Docs : GenerationOf(rows[d], gens[d]) = 0  BY DEF Init, GenerationOf
<1>2. visible = [d \in Docs |-> 0]  BY <1>1 DEF visible
<1>3. readyDocs = {}  BY DEF Init, readyDocs
<1> QED  BY <1>2, <1>3 DEF Abstract!CorpusInit

\* Every step of the pipeline is a step of Corpus or changes nothing there:
\* the commit replaces one document's generation by a newer one, a status
\* update takes at most one document out of the ready ones.
LEMMA StepAbstract ==
  ASSUME TypeInv, ReplaceInv, [Next]_vars
  PROVE  [Abstract!CorpusNext]_(Abstract!corpusVars)
<1>a. status \in [Docs -> Status] /\ \A d \in Docs : gens[d] \in Nat
  BY DEF TypeInv, TypeOK
<1>1. CASE \E w \in Workers : CommitReplace(w)
  <2> PICK w \in Workers : CommitReplace(w)  BY <1>1
  <2> DEFINE d == job[w].doc
             g == gen[w]
  <2>1. /\ d \in Docs /\ NChunks[d] \in Nat \ {0} /\ g \in 1 .. gens[d]
        /\ gens' = gens /\ Complete(d, rows[d], g - 1)
        /\ rows' = [rows EXCEPT ![d] = Generation(d, g)]
        /\ status' = [status EXCEPT ![d] = "ready"]
    BY CommitInstalls
  <2> HIDE DEF d, g
  <2>2. rows \in [Docs -> SUBSET (Nat \X Nat)]  BY DEF TypeInv, TypeOK
  <2>3. rows'[d] = Generation(d, g) /\ gens'[d] = gens[d]  BY <2>1, <2>2
  <2>4. <<0, g>> \in rows'[d]  BY <2>1, <2>3, <1>a DEF Generation
  <2>5. \A h : (\E r \in rows'[d] : r[2] = h) <=> h = g
    BY <2>3, <2>4 DEF Generation
  <2>6. visible'[d] = CHOOSE h \in 1 .. gens[d] : \E r \in rows'[d] : r[2] = h
    BY <2>1, <2>3, <2>4 DEF visible, GenerationOf
  <2>7. visible'[d] = g  BY <2>1, <2>5, <2>6
  <2>8. visible[d] \in 0 .. g - 1
    <3>1. CASE rows[d] = {}  BY <3>1, <2>1, <1>a DEF visible, GenerationOf
    <3>2. CASE rows[d] # {}
      <4>1. PICK h \in 1 .. g - 1 : rows[d] = Generation(d, h)
        BY <2>1, <3>2 DEF Complete
      <4>2. h \in 1 .. gens[d]  BY <4>1, <2>1, <1>a
      <4>3. visible[d] = h  BY <4>1, <4>2, <2>1, <1>a, VisibleIs
      <4> QED  BY <4>1, <4>3, <2>1, <1>a
    <3> QED  BY <3>1, <3>2
  <2>9. visible' = [visible EXCEPT ![d] = visible'[d]]
    <3>1. ASSUME NEW c \in Docs, c # d PROVE visible'[c] = visible[c]
      <4>1. rows'[c] = rows[c] /\ gens'[c] = gens[c]  BY <2>1, <2>2, <3>1
      <4> QED  BY <4>1 DEF visible
    <3>2. visible = [c \in Docs |-> visible[c]] /\ visible' = [c \in Docs |-> visible'[c]]
      BY DEF visible
    <3> HIDE DEF visible
    <3> QED  BY <3>1, <3>2, <2>1
  <2>10. readyDocs' = readyDocs \cup {d}
    BY <2>1, <1>a DEF readyDocs
  <2>11. visible'[d] \in Nat /\ visible'[d] > visible[d]
    BY <2>1, <2>7, <2>8, <1>a
  <2>12. Abstract!Replace(d)
    BY <2>9, <2>10, <2>11 DEF Abstract!Replace
  <2> QED  BY <2>1, <2>12 DEF Abstract!CorpusNext
<1>2. CASE ~\E w \in Workers : CommitReplace(w)
  <2>1. Quiet  BY <1>2, OnlyCommitIndexes
  <2>2. visible' = visible  BY <2>1, QuietVisible
  <2>3. CASE status' = status
    BY <2>2, <2>3 DEF readyDocs, Abstract!corpusVars
  <2>4. CASE status' # status
    <3>1. PICK d \in Docs : \E x \in Status \ {"ready"} : status' = [status EXCEPT ![d] = x]
      BY <2>1, <2>4 DEF Quiet
    <3>2. readyDocs' = readyDocs \ {d}  BY <3>1, <1>a DEF readyDocs
    <3>3. CASE d \in readyDocs
      BY <2>2, <3>1, <3>2, <3>3 DEF Abstract!CorpusNext, Abstract!Unready
    <3>4. CASE d \notin readyDocs
      BY <2>2, <3>2, <3>4 DEF Abstract!corpusVars
    <3> QED  BY <3>3, <3>4
  <2> QED  BY <2>3, <2>4
<1> QED  BY <1>1, <1>2

\* The pipeline implements Corpus, the specification its readers rely on.
THEOREM PipelineImplementsCorpus == Spec => RefinesCorpus
<1>1. TypeInv /\ ReplaceInv /\ [Next]_vars => [Abstract!CorpusNext]_(Abstract!corpusVars)
  BY StepAbstract
<1> QED  BY <1>1, InitAbstract, ReplaceInvariant, PTL
         DEF Spec, RefinesCorpus, Abstract!CorpusSpec

-----------------------------------------------------------------------------
(***************************************************************************)
(* At-least-once delivery: no job that reached Kafka is dropped, and an    *)
(* offset is committed only after its job has an outcome.                  *)
(*                                                                         *)
(* NoLostJob is not inductive: a commit removes the live job it may rest   *)
(* on. DeliveryInv adds that a worker which still owns its partition holds *)
(* the job at the committed offset, and that a worker about to commit has  *)
(* an outcome. When that outcome is a retry, the retry's higher attempt is *)
(* what keeps two such workers from each relying on the other's job.       *)
(***************************************************************************)

\* A live job of d with an attempt above a.
LiveAbove(d, a) ==
  \E p \in Partitions : \E i \in 1 .. Len(log[p]) :
    Live(p, i) /\ log[p][i].doc = d /\ log[p][i].attempt > a

Outcome(d, a) == d \in lost \/ rows[d] # {} \/ d \in dlq \/ LiveAbove(d, a)

InBounds == \A p \in Partitions : committed[p] <= Len(log[p])
Held == \A w \in Workers :
          Busy(w) /\ owner[src[w]] = w =>
            /\ committed[src[w]] < Len(log[src[w]])
            /\ log[src[w]][committed[src[w]] + 1] = job[w]
AckHasOutcome ==
  \A w \in Workers : pc[w] = "ack" => Outcome(job[w].doc, job[w].attempt)

DeliveryInv == InBounds /\ Held /\ AckHasOutcome /\ NoLostJob

\* Before the first upload there is nothing to deliver.
LEMMA InitDelivery == Init => DeliveryInv
  BY ConstantsAssumption
  DEF Init, DeliveryInv, InBounds, Held, AckHasOutcome, NoLostJob, Busy

\* The step only appends to the log and takes nothing else back.
Grows ==
  /\ committed' = committed
  /\ \A p \in Partitions : /\ Len(log'[p]) >= Len(log[p])
                           /\ \A i \in 1 .. Len(log[p]) : log'[p][i] = log[p][i]
  /\ \A d \in Docs : rows[d] # {} => rows'[d] # {}
  /\ dlq \subseteq dlq' /\ lost \subseteq lost'

\* A job stays live while logs only grow and no offset passes it.
LEMMA LiveStays ==
  ASSUME TypeInv, TypeInv', Grows, NEW d, NEW a
  PROVE  LiveAbove(d, a) => LiveAbove(d, a)'
<1>1. ASSUME NEW p \in Partitions, NEW i \in 1 .. Len(log[p]),
             Live(p, i), log[p][i].doc = d, log[p][i].attempt > a
      PROVE  LiveAbove(d, a)'
  <2>1. /\ Len(log[p]) \in Nat /\ Len(log'[p]) \in Nat /\ Len(log'[p]) >= Len(log[p])
        /\ log'[p][i] = log[p][i] /\ committed'[p] = committed[p]
    BY <1>1 DEF Grows, TypeInv, TypeOK
  <2>2. i \in 1 .. Len(log'[p]) /\ i \in committed'[p] + 1 .. Len(log'[p])
    BY <1>1, <2>1 DEF Live, TypeInv, TypeOK
  <2> QED  BY <1>1, <2>1, <2>2 DEF LiveAbove, Live
<1> QED  BY <1>1 DEF LiveAbove

\* A live job of any attempt is one above attempt 0.
LEMMA LiveForAbove == TypeInv => \A d : LiveFor(d) <=> LiveAbove(d, 0)
<1> SUFFICES ASSUME TypeInv, NEW d PROVE LiveFor(d) <=> LiveAbove(d, 0)
    OBVIOUS
<1>1. \A p \in Partitions : \A i \in 1 .. Len(log[p]) : log[p][i].attempt > 0
  <2> SUFFICES ASSUME NEW p \in Partitions, NEW i \in 1 .. Len(log[p])
               PROVE  log[p][i].attempt > 0
      OBVIOUS
  <2>1. log[p] \in Seq(Jobs)  BY DEF TypeInv, TypeOK
  <2>2. log[p][i] \in Jobs  BY <2>1
  <2> QED  BY <2>2, JobFields, ConstantsAssumption
<1> QED  BY <1>1 DEF LiveFor, LiveAbove

\* Chunks and dead letters are outcomes that no step takes away.
LEMMA OutcomeStays ==
  ASSUME TypeInv, TypeInv', Grows, NEW d \in Docs, NEW a
  PROVE  Outcome(d, a) => Outcome(d, a)'
  BY LiveStays DEF Outcome, Grows

\* Steps that take nothing back preserve the invariant, provided that whoever
\* becomes busy, ready to commit or uploaded brings its part along.
LEMMA FrameDelivery ==
  ASSUME TypeInv, TypeInv', DeliveryInv, Grows,
         \A w \in Workers :
           Busy(w)' /\ owner'[src'[w]] = w =>
             Busy(w) /\ owner[src[w]] = w /\ job'[w] = job[w] /\ src'[w] = src[w],
         \A w \in Workers :
           pc'[w] = "ack" => \/ pc[w] = "ack" /\ job'[w] = job[w]
                             \/ Outcome(job[w].doc, job[w].attempt)',
         \A d \in Docs : upload'[d] = "done" =>
           upload[d] = "done" \/ d \in lost' \/ LiveFor(d)'
  PROVE  DeliveryInv'
<1>a. TypeOK /\ TypeOK' /\ BusyHasJob  BY DEF TypeInv
<1>b. \A p \in Partitions : /\ Len(log[p]) \in Nat /\ Len(log'[p]) \in Nat
                            /\ committed[p] \in Nat
  BY <1>a DEF TypeOK
<1>1. InBounds'  BY <1>b DEF DeliveryInv, InBounds, Grows
<1>2. Held'
  <2> SUFFICES ASSUME NEW w \in Workers, Busy(w)', owner'[src'[w]] = w
               PROVE  /\ committed'[src'[w]] < Len(log'[src'[w]])
                      /\ log'[src'[w]][committed'[src'[w]] + 1] = job'[w]
      BY DEF Held
  <2>1. Busy(w) /\ owner[src[w]] = w /\ job'[w] = job[w] /\ src'[w] = src[w]
    OBVIOUS
  <2>2. /\ committed[src[w]] < Len(log[src[w]])
        /\ log[src[w]][committed[src[w]] + 1] = job[w] /\ src[w] \in Partitions
    BY <2>1, <1>a DEF DeliveryInv, Held, BusyHasJob
  <2>3. committed[src[w]] + 1 \in 1 .. Len(log[src[w]])  BY <2>2, <1>b
  <2> QED  BY <2>1, <2>2, <2>3, <1>b DEF Grows
<1>3. AckHasOutcome'
  <2> SUFFICES ASSUME NEW w \in Workers, pc'[w] = "ack"
               PROVE  Outcome(job[w].doc, job[w].attempt)'
      BY DEF AckHasOutcome
  <2>1. CASE pc[w] = "ack" /\ job'[w] = job[w]
    <3>1. Outcome(job[w].doc, job[w].attempt)
      BY <2>1 DEF DeliveryInv, AckHasOutcome
    <3>2. job[w].doc \in Docs  BY <2>1, <1>a, JobFields DEF BusyHasJob, Busy
    <3> DEFINE d == job[w].doc
               a == job[w].attempt
    <3>3. Outcome(job[w].doc, job[w].attempt)'
      <4>1. CASE LiveAbove(d, a)
        <5>1. PICK p \in Partitions : \E i \in 1 .. Len(log[p]) :
                Live(p, i) /\ log[p][i].doc = d /\ log[p][i].attempt > a
          BY <4>1 DEF LiveAbove
        <5>2. PICK i \in 1 .. Len(log[p]) :
                Live(p, i) /\ log[p][i].doc = d /\ log[p][i].attempt > a
          BY <5>1
        <5>3. i \in 1 .. Len(log'[p]) /\ Live(p, i)' /\ log'[p][i] = log[p][i]
          BY <5>2, <1>b DEF Live, Grows
        <5>4. d = job'[w].doc /\ a = job'[w].attempt  BY <2>1
        <5>5. \E q \in Partitions : \E j \in 1 .. Len(log'[q]) :
                Live(q, j)' /\ log'[q][j].doc = job'[w].doc /\ log'[q][j].attempt > job'[w].attempt
          BY <5>2, <5>3, <5>4
        <5> QED  BY <5>5 DEF Outcome, LiveAbove
      <4>2. CASE d \in lost \/ rows[d] # {} \/ d \in dlq
        BY <4>2, <3>2, <2>1 DEF Outcome, Grows
      <4> QED  BY <3>1, <4>1, <4>2 DEF Outcome
    <3> QED  BY <3>3
  <2> QED  BY <2>1
<1>4. NoLostJob'
  <2> SUFFICES ASSUME NEW d \in Docs, upload'[d] = "done", d \notin lost'
               PROVE  rows'[d] # {} \/ d \in dlq' \/ LiveFor(d)'
      BY DEF NoLostJob
  <2>1. CASE upload[d] = "done"
    <3>1. rows[d] # {} \/ d \in dlq \/ LiveFor(d)
      BY <2>1 DEF DeliveryInv, NoLostJob, Grows
    <3>2. LiveFor(d) => LiveFor(d)'
      BY LiveStays, LiveForAbove, <1>a DEF LiveFor, LiveAbove, Live, Grows
    <3> QED  BY <3>1, <3>2 DEF Grows
  <2> QED  BY <2>1
<1> QED  BY <1>1, <1>2, <1>3, <1>4 DEF DeliveryInv

\* Appending a job to p only extends the log.
LEMMA AppendExtends ==
  ASSUME TypeInv, NEW p \in Partitions, NEW j \in Jobs,
         log' = [log EXCEPT ![p] = Append(@, j)], committed' = committed,
         InBounds
  PROVE  /\ \A q \in Partitions : /\ Len(log'[q]) >= Len(log[q])
                                  /\ \A i \in 1 .. Len(log[q]) : log'[q][i] = log[q][i]
         /\ Len(log[p]) + 1 \in 1 .. Len(log'[p])
         /\ Len(log[p]) + 1 \in committed'[p] + 1 .. Len(log'[p])
         /\ log'[p][Len(log[p]) + 1] = j
<1>1. \A q \in Partitions : log[q] \in Seq(Jobs) /\ Len(log[q]) \in Nat
                            /\ committed[q] \in Nat /\ committed[q] <= Len(log[q])
  BY DEF TypeInv, TypeOK, InBounds
<1>2. log'[p] = Append(log[p], j) /\ \A q \in Partitions : q # p => log'[q] = log[q]
  BY DEF TypeInv, TypeOK
<1>3. /\ Len(log'[p]) = Len(log[p]) + 1
      /\ \A i \in 1 .. Len(log[p]) : log'[p][i] = log[p][i]
      /\ log'[p][Len(log[p]) + 1] = j
  BY <1>1, <1>2
<1>4. ASSUME NEW q \in Partitions
      PROVE  /\ Len(log'[q]) >= Len(log[q])
             /\ \A i \in 1 .. Len(log[q]) : log'[q][i] = log[q][i]
  <2>1. CASE q = p  BY <2>1, <1>1, <1>3
  <2>2. CASE q # p
    <3>1. log'[q] = log[q] /\ Len(log[q]) \in Nat  BY <2>2, <1>1, <1>2
    <3> QED  BY <3>1
  <2> QED  BY <2>1, <2>2
<1>5. /\ Len(log[p]) + 1 \in 1 .. Len(log'[p])
      /\ Len(log[p]) + 1 \in committed'[p] + 1 .. Len(log'[p])
  <2>1. Len(log[p]) \in Nat /\ committed'[p] \in Nat /\ committed'[p] <= Len(log[p])
    BY <1>1
  <2>2. Len(log[p]) + 1 \in committed'[p] + 1 .. Len(log'[p])  BY <2>1, <1>3
  <2>3. Len(log[p]) + 1 \in 1 .. Len(log'[p])  BY <2>1, <1>3
  <2> QED  BY <2>2, <2>3
<1> QED  BY <1>3, <1>4, <1>5

\* Every step of the pipeline keeps the delivery invariant.
LEMMA StepDelivery ==
  ASSUME TypeInv, TypeInv', ReplaceInv, DeliveryInv, [Next]_vars
  PROVE  DeliveryInv'
<1> USE ConstantsAssumption
    DEF dbVars, kafkaVars, workerVars, txVars, obsVars, GoTo
<1>a. TypeOK /\ BusyHasJob  BY DEF TypeInv
<1>b. InBounds /\ Held /\ AckHasOutcome /\ NoLostJob  BY DEF DeliveryInv
<1>1. CASE \E d \in Docs : Client(d)
  <2> PICK d \in Docs : Client(d)  BY <1>1
  <2>1. Grows  BY DEF Client, CreateDocument, UploadDuplicate, Grows
  <2>2. UNCHANGED <<pc, job, src, owner>>
        /\ \A c \in Docs : upload'[c] = "done" => upload[c] = "done"
    BY <1>a DEF Client, CreateDocument, UploadDuplicate, TypeOK
  <2> QED  BY <2>1, <2>2, FrameDelivery DEF Busy
<1>2. CASE \E d \in Docs : Publish(d)
  <2> PICK d \in Docs : Publish(d)  BY <1>2
  <2> DEFINE p == KeyPartition[d]
  <2>1. p \in Partitions /\ FirstJob(d) \in Jobs /\ FirstJob(d).doc = d
    BY FirstJobType DEF FirstJob
  <2>2. /\ UNCHANGED <<pc, job, src, owner, committed, rows, dlq, lost>>
        /\ \A c \in Docs : c # d => upload'[c] = upload[c]
    BY <1>a DEF Publish, TypeOK
  <2>3. log[p] \in Seq(Jobs) /\ committed[p] \in Nat /\ committed[p] <= Len(log[p])
    BY <2>1, <1>a, <1>b DEF TypeOK, InBounds
  <2>4. \A q \in Partitions : q # p => log'[q] = log[q]
    BY <2>1, <1>a DEF Publish, TypeOK
  <2>5. \/ log'[p] = Append(log[p], FirstJob(d))
        \/ log'[p] = Append(Append(log[p], FirstJob(d)), FirstJob(d))
    BY <2>1, <1>a DEF Publish, TypeOK
  <2>6. /\ Len(log'[p]) >= Len(log[p]) + 1
        /\ \A i \in 1 .. Len(log[p]) : log'[p][i] = log[p][i]
        /\ log'[p][Len(log[p]) + 1] = FirstJob(d)
        /\ Len(log'[p]) \in Nat /\ Len(log[p]) \in Nat
    <3>1. Append(log[p], FirstJob(d)) \in Seq(Jobs)  BY <2>1, <2>3
    <3>2. CASE log'[p] = Append(log[p], FirstJob(d))  BY <3>2, <2>1, <2>3
    <3>3. CASE log'[p] = Append(Append(log[p], FirstJob(d)), FirstJob(d))
      BY <3>1, <3>3, <2>1, <2>3
    <3> QED  BY <2>5, <3>2, <3>3
  <2>7. Grows
    <3>1. \A q \in Partitions : Len(log[q]) \in Nat  BY <1>a DEF TypeOK
    <3> QED  BY <2>1, <2>2, <2>4, <2>6, <3>1, SMTT(60) DEF Grows
  <2>8. LiveFor(d)'
    <3>1. /\ Len(log[p]) + 1 \in 1 .. Len(log'[p])
          /\ Len(log[p]) + 1 \in committed'[p] + 1 .. Len(log'[p])
      BY <2>2, <2>3, <2>6
    <3> QED  BY <2>1, <2>6, <3>1 DEF LiveFor, Live
  <2> QED  BY <2>2, <2>7, <2>8, FrameDelivery DEF Busy
<1>3. CASE \E d \in Docs : PublishLost(d)
  <2> PICK d \in Docs : PublishLost(d)  BY <1>3
  <2>1. Grows  BY DEF PublishLost, Grows
  <2>2. UNCHANGED <<pc, job, src, owner>>
        /\ \A c \in Docs : upload'[c] = "done" => upload[c] = "done" \/ c \in lost'
    BY <1>a DEF PublishLost, TypeOK
  <2> QED  BY <2>1, <2>2, FrameDelivery DEF Busy
<1>4. CASE \E w \in Workers : Group(w)
  <2> PICK w \in Workers : Group(w)  BY <1>4
  <2>1. Grows /\ UNCHANGED <<pc, job, src, upload>>
    BY DEF Group, Evict, Assign, Grows
  <2>2. \A v \in Workers : Busy(v)' /\ owner'[src'[v]] = v => owner[src[v]] = v
    <3>1. CASE Evict(w)
      BY <3>1, <2>1, <1>a DEF Evict, Released, BusyHasJob, Busy
    <3>2. CASE \E p \in Partitions : Assign(p, w)
      BY <3>2, <2>1, <1>a DEF Assign, BusyHasJob, Busy, TypeOK
    <3> QED  BY <3>1, <3>2 DEF Group
  <2> QED  BY <2>1, <2>2, FrameDelivery DEF Busy
<1>5. CASE \E w \in Workers : Working(w)
  <2> PICK w \in Workers : Working(w)  BY <1>5
  <2>1. CASE \E p \in Partitions : Poll(w, p)
    <3> PICK p \in Partitions : Poll(w, p)  BY <2>1
    <3>1. /\ UNCHANGED <<log, committed, owner, rows, dlq, lost, upload>>
          /\ pc[w] = "idle" /\ committed[p] < Len(log[p])
          /\ pc'[w] = "load" /\ job'[w] = log[p][committed[p] + 1] /\ src'[w] = p
          /\ \A v \in Workers : v # w =>
               pc'[v] = pc[v] /\ job'[v] = job[v] /\ src'[v] = src[v]
      BY <1>a DEF Poll, TypeOK
    <3>2. InBounds'  BY <3>1, <1>b DEF InBounds
    <3>3. Held'  BY <3>1, <1>b DEF Held, Busy
    <3>4. \A d, a : Outcome(d, a)' <=> Outcome(d, a)
      BY <3>1 DEF Outcome, LiveAbove, Live
    <3>5. AckHasOutcome'
      <4> SUFFICES ASSUME NEW v \in Workers, pc'[v] = "ack"
                   PROVE  Outcome(job[v].doc, job[v].attempt)'
          BY DEF AckHasOutcome
      <4>1. v # w /\ pc[v] = "ack" /\ job'[v] = job[v]  BY <3>1
      <4>2. Outcome(job[v].doc, job[v].attempt)  BY <4>1, <1>b DEF AckHasOutcome
      <4> QED  BY <4>1, <4>2, <3>1 DEF Outcome, LiveAbove, Live
    <3>6. NoLostJob'  BY <3>1, <1>b DEF NoLostJob, LiveFor, Live
    <3> QED  BY <3>2, <3>3, <3>5, <3>6 DEF DeliveryInv
  <2>2. CASE Load(w) \/ ChunkAndEmbed(w) \/ BeginReplace(w) \/ DeleteOld(w)
             \/ InsertChunk(w) \/ UniqueViolation(w) \/ FailUpdate(w)
    <3>1. Grows /\ UNCHANGED <<job, src, owner, upload>>
      BY <2>2 DEF Load, ChunkAndEmbed, BeginReplace, DeleteOld, InsertChunk,
                  UniqueViolation, FailUpdate, Grows
    <3>2. Busy(w) /\ pc'[w] # "ack" /\ \A v \in Workers : v # w => pc'[v] = pc[v]
      BY <2>2, <1>a DEF Load, ChunkAndEmbed, BeginReplace, DeleteOld, InsertChunk,
                        UniqueViolation, FailUpdate, Busy, OnException, TypeOK
    <3> QED  BY <3>1, <3>2, FrameDelivery DEF Busy
  <2>3. CASE CommitReplace(w)
    <3> DEFINE d == job[w].doc
    <3>1. /\ d \in Docs /\ NChunks[d] \in Nat \ {0}
          /\ rows' = [rows EXCEPT ![d] = Generation(d, gen[w])]
      BY <2>3, CommitInstalls
    <3>2. rows'[d] = Generation(d, gen[w]) /\ \A c \in Docs : c # d => rows'[c] = rows[c]
      BY <3>1, <1>a DEF TypeOK
    <3>3. <<0, gen[w]>> \in rows'[d]  BY <3>1, <3>2 DEF Generation
    <3>4. /\ UNCHANGED <<job, src, owner, upload, log, committed, dlq, lost>>
          /\ Busy(w) /\ \A v \in Workers : v # w => pc'[v] = pc[v]
      BY <2>3, <1>a DEF CommitReplace, Busy, TypeOK
    <3>5. Grows
      <4>1. \A p \in Partitions : Len(log[p]) \in Nat  BY <1>a DEF TypeOK
      <4> QED  BY <3>2, <3>3, <3>4, <4>1 DEF Grows
    <3>6. Outcome(job[w].doc, job[w].attempt)'  BY <3>3, <3>4 DEF Outcome
    <3> QED  BY <3>4, <3>5, <3>6, FrameDelivery DEF Busy
  <2>4. CASE SendDead(w)
    <3>1. Grows /\ UNCHANGED <<job, src, owner, upload>> /\ job[w].doc \in dlq'
      BY <2>4 DEF SendDead, Grows
    <3>2. Busy(w) /\ \A v \in Workers : v # w => pc'[v] = pc[v]
      BY <2>4, <1>a DEF SendDead, Busy, TypeOK
    <3>3. Outcome(job[w].doc, job[w].attempt)'  BY <3>1 DEF Outcome
    <3> QED  BY <3>1, <3>2, <3>3, FrameDelivery DEF Busy
  <2>5. CASE \E p \in Partitions : SendRetry(w, p)
    <3> PICK p \in Partitions : SendRetry(w, p)  BY <2>5
    <3>1. job[w] \in Jobs /\ RetryJob(job[w]) \in Jobs
      BY <1>a, RetryJobType DEF SendRetry, BusyHasJob, Busy
    <3>2. /\ log' = [log EXCEPT ![p] = Append(@, RetryJob(job[w]))]
          /\ UNCHANGED <<job, src, owner, upload, committed, rows, dlq, lost>>
          /\ Busy(w) /\ \A v \in Workers : v # w => pc'[v] = pc[v]
      BY <1>a DEF SendRetry, Busy, TypeOK
    <3>3. /\ \A q \in Partitions : /\ Len(log'[q]) >= Len(log[q])
                                   /\ \A i \in 1 .. Len(log[q]) : log'[q][i] = log[q][i]
          /\ Len(log[p]) + 1 \in 1 .. Len(log'[p])
          /\ Len(log[p]) + 1 \in committed'[p] + 1 .. Len(log'[p])
          /\ log'[p][Len(log[p]) + 1] = RetryJob(job[w])
      BY <3>1, <3>2, <1>b, AppendExtends
    <3>4. Grows  BY <3>2, <3>3 DEF Grows
    <3>5. RetryJob(job[w]).doc = job[w].doc /\ RetryJob(job[w]).attempt > job[w].attempt
      BY <3>1, JobFields DEF RetryJob
    <3>6. Outcome(job[w].doc, job[w].attempt)'
      <4> DEFINE n == Len(log[p]) + 1
      <4>1. /\ n \in 1 .. Len(log'[p]) /\ n \in committed'[p] + 1 .. Len(log'[p])
            /\ log'[p][n].doc = job'[w].doc /\ log'[p][n].attempt > job'[w].attempt
        BY <3>2, <3>3, <3>5
      <4> HIDE DEF n
      <4>2. \E q \in Partitions : \E i \in 1 .. Len(log'[q]) :
              /\ i \in committed'[q] + 1 .. Len(log'[q])
              /\ log'[q][i].doc = job'[w].doc /\ log'[q][i].attempt > job'[w].attempt
        BY <4>1
      <4> QED  BY <4>2 DEF Outcome, LiveAbove, Live
    <3> QED  BY <3>2, <3>4, <3>6, FrameDelivery DEF Busy
  <2>6. CASE CommitOffset(w)
    <3> DEFINE p == src[w]
    <3>1. /\ pc[w] = "ack" /\ p \in Partitions /\ job[w] \in Jobs /\ Busy(w)
          /\ ~Busy(w)' /\ pc'[w] # "ack"
          /\ \A v \in Workers : v # w =>
               pc'[v] = pc[v] /\ job'[v] = job[v] /\ src'[v] = src[v]
          /\ UNCHANGED <<log, owner, rows, dlq, lost, upload>>
      BY <2>6, <1>a DEF CommitOffset, BusyHasJob, Busy, TypeOK
    <3>2. CASE owner[p] # w
      <4>1. Grows  BY <2>6, <3>1, <3>2, <1>a DEF CommitOffset, Grows, TypeOK
      <4> QED  BY <3>1, <4>1, FrameDelivery DEF Busy
    <3>3. CASE owner[p] = w
      <4>1. committed' = [committed EXCEPT ![p] = committed[p] + 1]
        BY <2>6, <3>3 DEF CommitOffset, Advanced
      <4>2. /\ committed'[p] = committed[p] + 1
            /\ \A q \in Partitions : q # p => committed'[q] = committed[q]
        BY <3>1, <4>1, <1>a DEF TypeOK
      <4>3. committed[p] < Len(log[p]) /\ log[p][committed[p] + 1] = job[w]
        BY <3>1, <3>3, <1>b DEF Held
      <4>4. \A q \in Partitions : committed[q] \in Nat /\ Len(log[q]) \in Nat
        BY <1>a DEF TypeOK
      <4>5. InBounds'
        BY <3>1, <4>2, <4>3, <4>4, <1>b DEF InBounds
      <4>6. Held'
        <5> SUFFICES ASSUME NEW v \in Workers, Busy(v)', owner'[src'[v]] = v
                     PROVE  /\ committed'[src'[v]] < Len(log'[src'[v]])
                            /\ log'[src'[v]][committed'[src'[v]] + 1] = job'[v]
            BY DEF Held
        <5>1. v # w /\ Busy(v) /\ owner[src[v]] = v /\ src'[v] = src[v] /\ job'[v] = job[v]
          BY <3>1 DEF Busy
        <5>2. src[v] \in Partitions /\ src[v] # p
          BY <5>1, <3>3, <1>a DEF BusyHasJob
        <5> QED  BY <5>1, <5>2, <4>2, <3>1, <1>b DEF Held
      <4>7. ASSUME NEW d \in Docs, NEW a, LiveAbove(d, a)
            PROVE  LiveAbove(d, a)' \/ (d = job[w].doc /\ job[w].attempt > a)
        <5>1. PICK q \in Partitions : \E i \in 1 .. Len(log[q]) :
                Live(q, i) /\ log[q][i].doc = d /\ log[q][i].attempt > a
          BY <4>7 DEF LiveAbove
        <5>2. PICK i \in 1 .. Len(log[q]) :
                Live(q, i) /\ log[q][i].doc = d /\ log[q][i].attempt > a
          BY <5>1
        <5>3. CASE q = p /\ i = committed[p] + 1
          BY <5>2, <5>3, <4>3
        <5>4. CASE ~(q = p /\ i = committed[p] + 1)
          <6>1. Live(q, i)'
            BY <5>2, <5>4, <4>2, <4>4, <3>1 DEF Live
          <6> QED  BY <6>1, <5>2, <3>1 DEF LiveAbove
        <5> QED  BY <5>3, <5>4
      <4>8. Outcome(job[w].doc, job[w].attempt)
        BY <3>1, <1>b DEF AckHasOutcome
      <4>9. job[w].doc \in Docs /\ job[w].attempt \in Nat
        BY <3>1, JobFields
      <4>10. ASSUME NEW d \in Docs, NEW a \in Nat, Outcome(d, a)
             PROVE  \/ d \in lost' \/ rows'[d] # {} \/ d \in dlq' \/ LiveAbove(d, a)'
        <5>1. CASE LiveAbove(d, a) /\ ~LiveAbove(d, a)'
          <6>1. d = job[w].doc /\ job[w].attempt > a  BY <5>1, <4>7
          <6>2. CASE LiveAbove(job[w].doc, job[w].attempt)
            <7>1. PICK q \in Partitions : \E i \in 1 .. Len(log[q]) :
                    /\ Live(q, i) /\ log[q][i].doc = job[w].doc
                    /\ log[q][i].attempt > job[w].attempt
              BY <6>2 DEF LiveAbove
            <7>2. PICK i \in 1 .. Len(log[q]) :
                    /\ Live(q, i) /\ log[q][i].doc = job[w].doc
                    /\ log[q][i].attempt > job[w].attempt
              BY <7>1
            <7>3. ~(q = p /\ i = committed[p] + 1)  BY <7>2, <4>3, <4>9
            <7>4. Live(q, i)'  BY <7>2, <7>3, <4>2, <4>4, <3>1 DEF Live
            <7>5. log[q][i].attempt \in Nat
              <8>1. log[q] \in Seq(Jobs)  BY <1>a DEF TypeOK
              <8>2. log[q][i] \in Jobs  BY <8>1
              <8> QED  BY <8>2, JobFields
            <7>6. log[q][i].attempt > a  BY <7>2, <7>5, <6>1, <4>9
            <7> QED  BY <7>2, <7>4, <7>6, <6>1, <3>1 DEF LiveAbove
          <6> QED  BY <6>1, <6>2, <4>8, <3>1 DEF Outcome
        <5> QED  BY <4>10, <5>1, <3>1 DEF Outcome
      <4>11. AckHasOutcome'
        <5> SUFFICES ASSUME NEW v \in Workers, pc'[v] = "ack"
                     PROVE  Outcome(job[v].doc, job[v].attempt)'
            BY DEF AckHasOutcome
        <5>1. v # w /\ pc[v] = "ack" /\ job'[v] = job[v]  BY <3>1
        <5>2. Outcome(job[v].doc, job[v].attempt) /\ job[v] \in Jobs
          BY <5>1, <1>a, <1>b DEF AckHasOutcome, BusyHasJob, Busy
        <5>3. job[v].doc \in Docs /\ job[v].attempt \in Nat  BY <5>2, JobFields
        <5> DEFINE d == job[v].doc
                   a == job[v].attempt
        <5>4. d \in Docs /\ a \in Nat /\ Outcome(d, a)  BY <5>2, <5>3
        <5>5. d = job'[v].doc /\ a = job'[v].attempt  BY <5>1
        <5> HIDE DEF d, a
        <5>6. d \in lost' \/ rows'[d] # {} \/ d \in dlq' \/
              (\E q \in Partitions : \E i \in 1 .. Len(log'[q]) :
                 Live(q, i)' /\ log'[q][i].doc = d /\ log'[q][i].attempt > a)
          BY <4>10, <5>4 DEF LiveAbove
        <5> QED  BY <5>6, <5>5 DEF Outcome, LiveAbove
      <4>12. NoLostJob'
        <5> SUFFICES ASSUME NEW d \in Docs, upload'[d] = "done", d \notin lost'
                     PROVE  rows'[d] # {} \/ d \in dlq' \/ LiveFor(d)'
            BY DEF NoLostJob
        <5>1. Outcome(d, 0)
          BY <3>1, <1>b, LiveForAbove DEF NoLostJob, Outcome
        <5>2. rows'[d] # {} \/ d \in dlq' \/ LiveAbove(d, 0)'  BY <5>1, <4>10
        <5> QED  BY <5>2 DEF LiveAbove, LiveFor
      <4> QED  BY <4>5, <4>6, <4>11, <4>12 DEF DeliveryInv
    <3> QED  BY <3>2, <3>3
  <2>7. CASE Exit(w)
    <3>1. Grows /\ UNCHANGED upload  BY <2>7 DEF Exit, Gone, EndTx, Grows
    <3>2. ~Busy(w)' /\ \A v \in Workers : v # w =>
            pc'[v] = pc[v] /\ job'[v] = job[v] /\ src'[v] = src[v]
      BY <2>7, <1>a DEF Exit, Gone, TypeOK, Busy
    <3>3. \A v \in Workers : v # w /\ Busy(v) /\ owner'[src[v]] = v => owner[src[v]] = v
      BY <2>7, <1>a DEF Exit, Gone, Released, BusyHasJob
    <3> QED  BY <3>1, <3>2, <3>3, FrameDelivery DEF Busy
  <2> QED  BY <2>1, <2>2, <2>3, <2>4, <2>5, <2>6, <2>7
           DEF Working, Ingesting, Failing
<1>6. CASE \E w \in Workers : Faulty(w)
  <2> PICK w \in Workers : Faulty(w)  BY <1>6
  <2>1. CASE Raise(w)
    <3>1. Grows /\ UNCHANGED <<job, src, owner, upload>>  BY <2>1 DEF Raise, Grows
    <3>2. Busy(w) /\ pc'[w] # "ack" /\ \A v \in Workers : v # w => pc'[v] = pc[v]
      BY <2>1, <1>a DEF Raise, Busy, OnException, TypeOK
    <3> QED  BY <3>1, <3>2, FrameDelivery DEF Busy
  <2>2. CASE SendLost(w)
    <3>1. Grows /\ UNCHANGED <<job, src, owner, upload>> /\ job[w].doc \in lost'
      BY <2>2 DEF SendLost, Grows
    <3>2. Busy(w) /\ \A v \in Workers : v # w => pc'[v] = pc[v]
      BY <2>2, <1>a DEF SendLost, Busy, TypeOK
    <3>3. Outcome(job[w].doc, job[w].attempt)'  BY <3>1 DEF Outcome
    <3> QED  BY <3>1, <3>2, <3>3, FrameDelivery DEF Busy
  <2>3. CASE Stop(w)
    <3>1. Grows /\ UNCHANGED <<pc, job, src, owner, upload>>
      BY <2>3 DEF Stop, Grows
    <3> QED  BY <3>1, FrameDelivery DEF Busy
  <2>4. CASE Crash(w)
    <3>1. Grows /\ UNCHANGED upload  BY <2>4 DEF Crash, Gone, EndTx, Grows
    <3>2. ~Busy(w)' /\ \A v \in Workers : v # w =>
            pc'[v] = pc[v] /\ job'[v] = job[v] /\ src'[v] = src[v]
      BY <2>4, <1>a DEF Crash, Gone, TypeOK, Busy
    <3>3. \A v \in Workers : v # w /\ Busy(v) /\ owner'[src[v]] = v => owner[src[v]] = v
      BY <2>4, <1>a DEF Crash, Gone, Released, BusyHasJob
    <3> QED  BY <3>1, <3>2, <3>3, FrameDelivery DEF Busy
  <2>5. CASE Restart(w)
    <3>1. Grows /\ UNCHANGED <<job, src, owner, upload>>  BY <2>5 DEF Restart, Grows
    <3>2. ~Busy(w)' /\ \A v \in Workers : v # w => pc'[v] = pc[v]
      BY <2>5, <1>a DEF Restart, Busy, TypeOK
    <3> QED  BY <3>1, <3>2, FrameDelivery DEF Busy
  <2> QED  BY <2>1, <2>2, <2>3, <2>4, <2>5 DEF Faulty
<1>7. CASE UNCHANGED vars
  <2>1. Grows /\ UNCHANGED <<pc, job, src, owner, upload>>
    BY <1>7 DEF vars, Grows
  <2> QED  BY <2>1, FrameDelivery DEF Busy
<1> QED  BY <1>1, <1>2, <1>3, <1>4, <1>5, <1>6, <1>7 DEF Next, Gateway

\* The three invariants hold together in every reachable state.
LEMMA DeliveryInvariant == Spec => [](TypeInv /\ ReplaceInv /\ DeliveryInv)
<1>1. TypeInv /\ TypeInv' /\ ReplaceInv /\ DeliveryInv /\ [Next]_vars => DeliveryInv'
  BY StepDelivery
<1> QED  BY <1>1, InitDelivery, ReplaceInvariant, PTL DEF Spec

\* A document whose jobs all reached Kafka is searchable, dead-lettered or has
\* an uncommitted job, for any number of crashes, evictions and redeliveries
\* (worker.py, run and fail).
THEOREM JobsAreNotLost == Spec => []NoLostJob
  BY DeliveryInvariant, PTL DEF DeliveryInv

\* "Offsets are committed only after a document is fully written" (worker.py):
\* every step that moves a committed offset passes one job with an outcome.
THEOREM AcksFollowOutcomes == Spec => AckOnlyAfterOutcome
<1> DEFINE A == \A p \in Partitions : committed'[p] # committed[p] =>
       /\ committed'[p] = committed[p] + 1
       /\ LET j == log[p][committed'[p]] IN
            \/ j.doc \in lost \/ rows[j.doc] # {} \/ j.doc \in dlq
            \/ \E q \in Partitions : \E i \in 1 .. Len(log[q]) :
                 /\ Live(q, i) /\ log[q][i].doc = j.doc
                 /\ log[q][i].attempt > j.attempt
<1>1. ASSUME TypeInv, DeliveryInv, [Next]_vars PROVE [A]_vars
  <2> USE DEF dbVars, kafkaVars, workerVars, txVars, obsVars, GoTo
  <2>1. CASE \E w \in Workers : CommitOffset(w)
    <3> PICK w \in Workers : CommitOffset(w)  BY <2>1
    <3>1. /\ src[w] \in Partitions /\ Busy(w)
          /\ Outcome(job[w].doc, job[w].attempt)
      BY <1>1, SMTT(60) DEF CommitOffset, TypeInv, BusyHasJob, Busy, DeliveryInv, AckHasOutcome
    <3>2. CASE owner[src[w]] = w
      <4>1. committed' = [committed EXCEPT ![src[w]] = committed[src[w]] + 1]
        BY <3>2 DEF CommitOffset, Advanced
      <4>2. log[src[w]][committed[src[w]] + 1] = job[w]
        BY <3>1, <3>2, <1>1 DEF DeliveryInv, Held
      <4>3. committed \in [Partitions -> Nat]  BY <1>1 DEF TypeInv, TypeOK
      <4> QED  BY <4>1, <4>2, <4>3, <3>1 DEF Outcome, LiveAbove
    <3>3. CASE owner[src[w]] # w
      BY <3>3 DEF CommitOffset
    <3> QED  BY <3>2, <3>3
  <2>2. CASE ~\E w \in Workers : CommitOffset(w)
    <3>1. committed' = committed
      <4>1. ASSUME NEW d \in Docs, Client(d) PROVE committed' = committed
        BY <4>1 DEF Client, CreateDocument, UploadDuplicate
      <4>2. ASSUME NEW d \in Docs, Gateway(d) PROVE committed' = committed
        BY <4>2 DEF Gateway, Publish, PublishLost
      <4>3. ASSUME NEW w \in Workers, Group(w) PROVE committed' = committed
        BY <4>3 DEF Group, Evict, Assign
      <4>4. ASSUME NEW w \in Workers, Ingesting(w) PROVE committed' = committed
        BY <4>4 DEF Ingesting, Load, ChunkAndEmbed, BeginReplace, DeleteOld,
           InsertChunk, UniqueViolation, CommitReplace
      <4>5. ASSUME NEW w \in Workers, Failing(w) PROVE committed' = committed
        BY <4>5 DEF Failing, FailUpdate, SendDead, SendRetry
      <4>6. ASSUME NEW w \in Workers, NEW p \in Partitions, Poll(w, p) PROVE committed' = committed
        BY <4>6 DEF Poll
      <4>7. ASSUME NEW w \in Workers, Exit(w) PROVE committed' = committed
        BY <4>7 DEF Exit
      <4>8. ASSUME NEW w \in Workers, Faulty(w) PROVE committed' = committed
        BY <4>8 DEF Faulty, Raise, SendLost, Stop, Crash, Restart
      <4>9. ASSUME UNCHANGED vars PROVE committed' = committed
        BY <4>9 DEF vars
      <4> QED
        BY <4>1, <4>2, <4>3, <4>4, <4>5, <4>6, <4>7, <4>8, <4>9, <1>1, <2>2 DEF Next, Working
    <3> QED  BY <3>1
  <2> QED  BY <2>1, <2>2
<1>2. TypeInv /\ DeliveryInv /\ [Next]_vars => [A]_vars  BY <1>1
<1> QED  BY <1>2, DeliveryInvariant, PTL DEF Spec, AckOnlyAfterOutcome

-----------------------------------------------------------------------------
(***************************************************************************)
(* Statuses. Neither UnsettledIsLive nor FailedIsDeadLettered is inductive *)
(* either: several workers may hold jobs of one document, and a commit may *)
(* take away the live job they rest on. SettleInv asks for a live job that *)
(* no worker is done with: the one that is to commit next has left the     *)
(* status settled, or has seen to another job.                             *)
(***************************************************************************)

\* w, a member of the group, holds the job at offset i of p.
HeldBy(w, p, i) == owner[p] = w /\ src[w] = p /\ Busy(w) /\ i = committed[p] + 1

\* w will not change the status again, nor send its job back to the topic.
Spent(w) == pc[w] = "ack" \/ (pc[w] = "send" /\ ~CanRetry(job[w].attempt))

OpenAt(p, i) ==
  Live(p, i) /\ \A w \in Workers : HeldBy(w, p, i) => ~Spent(w)
UnackedAt(p, i) ==
  Live(p, i) /\ \A w \in Workers : HeldBy(w, p, i) => pc[w] # "ack"

\* Only an eviction takes a job's partition from a worker that is busy.
OwnsUnlessEvicted ==
  \A w \in Workers : Busy(w) /\ job[w].doc \notin evicted => owner[src[w]] = w

\* d has a live job that nobody is done with.
OpenFor(d) == \E p \in Partitions : \E i \in 1 .. Len(log[p]) :
                OpenAt(p, i) /\ log[p][i].doc = d

\* d has a live job on its last attempt that nobody is about to commit.
LastUnacked(d) ==
  \E p \in Partitions : \E i \in 1 .. Len(log[p]) :
    UnackedAt(p, i) /\ log[p][i] = [doc |-> d, attempt |-> MaxAttempts]

UnsettledIsOpen ==
  \A d \in Docs :
    upload[d] = "done" /\ d \notin lost \cup evicted
      /\ status[d] \in {"pending", "chunking"} => OpenFor(d)

FailedIsOpen ==
  \A d \in Docs : status[d] = "failed" /\ d \notin lost \cup evicted =>
    d \in dlq \/ LastUnacked(d)

SettleInv == OwnsUnlessEvicted /\ UnsettledIsOpen /\ FailedIsOpen

\* Before the first upload no document has a status to settle.
LEMMA InitSettle == Init => SettleInv
  BY DEF Init, SettleInv, OwnsUnlessEvicted, UnsettledIsOpen, FailedIsOpen, Busy

\* While logs only grow, an open job of c stays open unless a worker becomes
\* done with a job of c.
LEMMA OpenStays ==
  ASSUME TypeInv, TypeInv', DeliveryInv, Grows, NEW c, OpenFor(c),
         \A v \in Workers : \A p \in Partitions :
           owner'[p] = v /\ src'[v] = p /\ Busy(v)' /\ Spent(v)' =>
             /\ owner[p] = v /\ src[v] = p /\ Busy(v)
             /\ Spent(v) \/ job[v].doc # c
  PROVE  OpenFor(c)'
<1>1. PICK p \in Partitions : \E i \in 1 .. Len(log[p]) :
        OpenAt(p, i) /\ log[p][i].doc = c
  BY DEF OpenFor
<1>2. PICK i \in 1 .. Len(log[p]) : OpenAt(p, i) /\ log[p][i].doc = c
  BY <1>1
<1>3. /\ i \in 1 .. Len(log'[p]) /\ Live(p, i)' /\ log'[p][i] = log[p][i]
      /\ committed'[p] = committed[p]
  BY <1>2 DEF Live, OpenAt, Grows, TypeInv, TypeOK
<1>4. ASSUME NEW v \in Workers, HeldBy(v, p, i)', Spent(v)'  PROVE FALSE
  <2>1. HeldBy(v, p, i) /\ (Spent(v) \/ job[v].doc # c)
    BY <1>3, <1>4 DEF HeldBy
  <2>2. job[v] = log[p][i]  BY <2>1 DEF HeldBy, DeliveryInv, Held
  <2> QED  BY <2>1, <2>2, <1>2 DEF OpenAt
<1>5. OpenAt(p, i)'  BY <1>3, <1>4 DEF OpenAt
<1> QED  BY <1>2, <1>3, <1>5 DEF OpenFor

\* The same for the last attempt of c and the workers about to commit.
LEMMA UnackedStays ==
  ASSUME TypeInv, TypeInv', DeliveryInv, Grows, NEW c, LastUnacked(c),
         \A v \in Workers : \A p \in Partitions :
           owner'[p] = v /\ src'[v] = p /\ pc'[v] = "ack" =>
             /\ owner[p] = v /\ src[v] = p /\ Busy(v)
             /\ pc[v] = "ack" \/ job[v] # [doc |-> c, attempt |-> MaxAttempts]
  PROVE  LastUnacked(c)'
<1>1. PICK p \in Partitions : \E i \in 1 .. Len(log[p]) :
        UnackedAt(p, i) /\ log[p][i] = [doc |-> c, attempt |-> MaxAttempts]
  BY DEF LastUnacked
<1>2. PICK i \in 1 .. Len(log[p]) :
        UnackedAt(p, i) /\ log[p][i] = [doc |-> c, attempt |-> MaxAttempts]
  BY <1>1
<1>3. /\ i \in 1 .. Len(log'[p]) /\ Live(p, i)' /\ log'[p][i] = log[p][i]
      /\ committed'[p] = committed[p]
  BY <1>2 DEF Live, UnackedAt, Grows, TypeInv, TypeOK
<1>4. ASSUME NEW v \in Workers, HeldBy(v, p, i)', pc'[v] = "ack"  PROVE FALSE
  <2>1. /\ HeldBy(v, p, i)
        /\ pc[v] = "ack" \/ job[v] # [doc |-> c, attempt |-> MaxAttempts]
    BY <1>3, <1>4 DEF HeldBy
  <2>2. job[v] = log[p][i]  BY <2>1 DEF HeldBy, DeliveryInv, Held
  <2> QED  BY <2>1, <2>2, <1>2 DEF UnackedAt
<1>5. UnackedAt(p, i)'  BY <1>3, <1>4 DEF UnackedAt
<1> QED  BY <1>2, <1>3, <1>5 DEF LastUnacked

\* A worker that is not done with its document, and was not evicted with it,
\* still owns the partition, so its own job is the open one.
LEMMA OwnJobOpen ==
  ASSUME TypeInv', DeliveryInv', OwnsUnlessEvicted', NEW w \in Workers,
         Busy(w)', job'[w].doc \notin evicted'
  PROVE  \E p \in Partitions : \E i \in 1 .. Len(log'[p]) :
           /\ Live(p, i)' /\ log'[p][i] = job'[w]
           /\ \A v \in Workers : HeldBy(v, p, i)' => v = w
<1>1. PICK p \in Partitions : p = src'[w] /\ owner'[p] = w
  BY DEF OwnsUnlessEvicted, TypeInv, BusyHasJob
<1>2. committed'[p] \in Nat /\ Len(log'[p]) \in Nat
  BY <1>1 DEF TypeInv, TypeOK
<1>3. PICK i \in Nat : i = committed'[p] + 1  BY <1>2
<1>4. committed'[p] < Len(log'[p]) /\ log'[p][i] = job'[w]
  BY <1>1, <1>3 DEF DeliveryInv, Held
<1>5. i \in 1 .. Len(log'[p]) /\ Live(p, i)'  BY <1>2, <1>3, <1>4 DEF Live
<1>6. \A v \in Workers : HeldBy(v, p, i)' => v = w  BY <1>1 DEF HeldBy
<1> QED  BY <1>4, <1>5, <1>6

\* A job that was just appended is open: nobody can hold it yet.
LEMMA NewJobOpen ==
  ASSUME TypeInv, TypeInv', DeliveryInv, DeliveryInv', Grows,
         UNCHANGED <<owner, src, job>>,
         \A v \in Workers : Busy(v)' => Busy(v),
         NEW p \in Partitions, NEW k \in Nat, k = Len(log[p]) + 1,
         k <= Len(log'[p])
  PROVE  k \in 1 .. Len(log'[p]) /\ OpenAt(p, k)'
<1>1. /\ committed'[p] = committed[p] /\ committed[p] \in Nat
      /\ Len(log[p]) \in Nat /\ Len(log'[p]) \in Nat /\ committed[p] <= Len(log[p])
  BY DEF Grows, TypeInv, TypeOK, DeliveryInv, InBounds
<1>2. k \in 1 .. Len(log'[p]) /\ Live(p, k)'  BY <1>1 DEF Live
<1>3. ASSUME NEW v \in Workers, HeldBy(v, p, k)' PROVE FALSE
  <2>1. owner[src[v]] = v /\ src[v] = p /\ Busy(v) /\ k = committed[p] + 1
    BY <1>1, <1>3 DEF HeldBy
  <2>2. committed[p] < Len(log[p])  BY <2>1 DEF DeliveryInv, Held
  <2> QED  BY <2>1, <2>2, <1>1
<1> QED  BY <1>2, <1>3 DEF OpenAt

\* Steps that change no status and make no worker done with its job.
LEMMA FrameSettle ==
  ASSUME TypeInv, TypeInv', DeliveryInv, SettleInv, Grows, OwnsUnlessEvicted',
         evicted \subseteq evicted',
         \A d \in Docs : \/ status'[d] = status[d]
                         \/ status'[d] = "pending" /\ upload'[d] = "stored",
         \A d \in Docs : upload'[d] = "done" => upload[d] = "done" \/ d \in lost',
         \A v \in Workers : \A p \in Partitions :
           owner'[p] = v /\ src'[v] = p /\ Busy(v)' /\ Spent(v)' =>
             /\ owner[p] = v /\ src[v] = p /\ Busy(v) /\ Spent(v)
             /\ pc'[v] = "ack" => pc[v] = "ack"
  PROVE  SettleInv'
<1>1. UnsettledIsOpen'
  <2> SUFFICES ASSUME NEW d \in Docs, upload'[d] = "done",
                      d \notin lost' \cup evicted',
                      status'[d] \in {"pending", "chunking"}
               PROVE  OpenFor(d)'
      BY DEF UnsettledIsOpen
  <2>1. OpenFor(d)  BY DEF SettleInv, UnsettledIsOpen, Grows
  <2> QED  BY <2>1, OpenStays
<1>2. FailedIsOpen'
  <2> SUFFICES ASSUME NEW d \in Docs, status'[d] = "failed",
                      d \notin lost' \cup evicted', d \notin dlq'
               PROVE  LastUnacked(d)'
      BY DEF FailedIsOpen
  <2>1. LastUnacked(d)  BY DEF SettleInv, FailedIsOpen, Grows
  <2>2. \A v \in Workers : \A p \in Partitions :
          owner'[p] = v /\ src'[v] = p /\ pc'[v] = "ack" =>
            /\ owner[p] = v /\ src[v] = p /\ Busy(v)
            /\ pc[v] = "ack" \/ job[v] # [doc |-> d, attempt |-> MaxAttempts]
    BY DEF Busy, Spent
  <2> QED  BY <2>1, <2>2, UnackedStays, Zenon
<1> QED  BY <1>1, <1>2 DEF SettleInv

\* Every step of the pipeline keeps a job for each status that is not final.
LEMMA StepSettle ==
  ASSUME TypeInv, TypeInv', ReplaceInv, DeliveryInv, DeliveryInv', SettleInv,
         [Next]_vars
  PROVE  SettleInv'
<1> USE ConstantsAssumption
    DEF dbVars, kafkaVars, workerVars, txVars, obsVars, GoTo
<1>a. TypeOK /\ BusyHasJob /\ TypeOK'  BY DEF TypeInv
<1>b. OwnsUnlessEvicted /\ UnsettledIsOpen /\ FailedIsOpen  BY DEF SettleInv
<1>c. \A p \in Partitions : Len(log[p]) \in Nat  BY <1>a DEF TypeOK
<1>1. CASE \E d \in Docs : Client(d) \/ PublishLost(d)
  <2> PICK d \in Docs : Client(d) \/ PublishLost(d)  BY <1>1
  <2>1. Grows /\ UNCHANGED <<pc, job, src, owner, evicted>>
    BY <1>c DEF Client, CreateDocument, UploadDuplicate, PublishLost, Grows
  <2>2. \A c \in Docs : \/ status'[c] = status[c]
                        \/ status'[c] = "pending" /\ upload'[c] = "stored"
    BY <1>a DEF Client, CreateDocument, UploadDuplicate, PublishLost, TypeOK
  <2>3. \A c \in Docs : upload'[c] = "done" => upload[c] = "done" \/ c \in lost'
    BY <1>a DEF Client, CreateDocument, UploadDuplicate, PublishLost, TypeOK
  <2>4. OwnsUnlessEvicted'  BY <2>1, <1>b DEF OwnsUnlessEvicted, Busy
  <2> QED  BY <2>1, <2>2, <2>3, <2>4, FrameSettle DEF Busy, Spent
<1>2. CASE \E d \in Docs : Publish(d)
  <2> PICK d \in Docs : Publish(d)  BY <1>2
  <2> DEFINE p == KeyPartition[d]
  <2>1. p \in Partitions /\ FirstJob(d) \in Jobs /\ FirstJob(d).doc = d
    BY FirstJobType DEF FirstJob
  <2>2. /\ UNCHANGED <<pc, job, src, owner, committed, rows, dlq, lost, evicted, status>>
        /\ \A c \in Docs : c # d => upload'[c] = upload[c]
    BY <1>a DEF Publish, TypeOK
  <2>3. log[p] \in Seq(Jobs) /\ Len(log[p]) \in Nat  BY <2>1, <1>a DEF TypeOK
  <2>4. \A q \in Partitions : q # p => log'[q] = log[q]
    BY <2>1, <1>a DEF Publish, TypeOK
  <2>5. \/ log'[p] = Append(log[p], FirstJob(d))
        \/ log'[p] = Append(Append(log[p], FirstJob(d)), FirstJob(d))
    BY <2>1, <1>a DEF Publish, TypeOK
  <2>6. /\ Len(log'[p]) >= Len(log[p]) + 1
        /\ \A i \in 1 .. Len(log[p]) : log'[p][i] = log[p][i]
        /\ log'[p][Len(log[p]) + 1] = FirstJob(d)
    <3>1. Append(log[p], FirstJob(d)) \in Seq(Jobs)  BY <2>1, <2>3
    <3>2. CASE log'[p] = Append(log[p], FirstJob(d))  BY <3>2, <2>1, <2>3
    <3>3. CASE log'[p] = Append(Append(log[p], FirstJob(d)), FirstJob(d))
      BY <3>1, <3>3, <2>1, <2>3
    <3> QED  BY <2>5, <3>2, <3>3
  <2>7. Grows  BY <2>1, <2>2, <2>3, <2>4, <2>6, <1>c, SMTT(60) DEF Grows
  <2>8. PICK k \in Nat : k = Len(log[p]) + 1  BY <2>3
  <2>9. k \in 1 .. Len(log'[p]) /\ OpenAt(p, k)'
    BY <2>1, <2>2, <2>6, <2>7, <2>8, NewJobOpen DEF Busy
  <2>10. OpenFor(d)'  BY <2>1, <2>6, <2>8, <2>9 DEF OpenFor
  <2>11. UnsettledIsOpen'
    <3> SUFFICES ASSUME NEW c \in Docs, upload'[c] = "done", c # d,
                        c \notin lost' \cup evicted',
                        status'[c] \in {"pending", "chunking"}
                 PROVE  OpenFor(c)'
        BY <2>10 DEF UnsettledIsOpen
    <3>1. OpenFor(c)  BY <2>2, <1>b DEF UnsettledIsOpen
    <3> QED  BY <3>1, <2>2, <2>7, OpenStays DEF Busy, Spent
  <2>12. FailedIsOpen'
    <3> SUFFICES ASSUME NEW c \in Docs, status'[c] = "failed",
                        c \notin lost' \cup evicted', c \notin dlq'
                 PROVE  LastUnacked(c)'
        BY DEF FailedIsOpen
    <3>1. LastUnacked(c)  BY <2>2, <1>b DEF FailedIsOpen
    <3> QED  BY <3>1, <2>2, <2>7, UnackedStays DEF Busy
  <2>13. OwnsUnlessEvicted'  BY <2>2, <1>b DEF OwnsUnlessEvicted, Busy
  <2> QED  BY <2>11, <2>12, <2>13 DEF SettleInv
<1>3. CASE \E w \in Workers : Group(w)
  <2> PICK w \in Workers : Group(w)  BY <1>3
  <2>1. /\ Grows /\ UNCHANGED <<pc, job, src, upload, status>>
        /\ evicted \subseteq evicted'
    BY <1>c DEF Group, Evict, Assign, Grows
  <2>2. \A v \in Workers : \A q \in Partitions :
          Busy(v) /\ owner'[q] = v => owner[q] = v
    <3>1. CASE Evict(w)  BY <3>1, <1>a DEF Evict, Released, TypeOK
    <3>2. CASE \E p \in Partitions : Assign(p, w)
      BY <3>2, <1>a DEF Assign, Busy, TypeOK
    <3> QED  BY <3>1, <3>2 DEF Group
  <2>3. OwnsUnlessEvicted'
    <3> SUFFICES ASSUME NEW v \in Workers, Busy(v), job[v].doc \notin evicted'
                 PROVE  owner'[src[v]] = v
        BY <2>1 DEF OwnsUnlessEvicted, Busy
    <3>1. owner[src[v]] = v /\ src[v] \in Partitions
      BY <2>1, <1>a, <1>b DEF OwnsUnlessEvicted, BusyHasJob
    <3>2. CASE Evict(w)
      <4>1. v # w  BY <3>2 DEF Evict
      <4> QED  BY <3>1, <3>2, <4>1 DEF Evict, Released
    <3>3. CASE \E p \in Partitions : Assign(p, w)
      BY <3>1, <3>3, <1>a DEF Assign, Busy, TypeOK
    <3> QED  BY <3>2, <3>3 DEF Group
  <2> QED  BY <2>1, <2>2, <2>3, FrameSettle DEF Busy, Spent
<1>4. CASE \E w \in Workers : \E p \in Partitions : Poll(w, p)
  <2> PICK w \in Workers, p \in Partitions : Poll(w, p)  BY <1>4
  <2>1. /\ Grows /\ UNCHANGED <<owner, evicted, status, upload>>
        /\ owner[p] = w /\ pc'[w] = "load" /\ src'[w] = p
        /\ \A v \in Workers : v # w =>
             pc'[v] = pc[v] /\ job'[v] = job[v] /\ src'[v] = src[v]
    BY <1>a, <1>c DEF Poll, Grows, TypeOK
  <2>2. OwnsUnlessEvicted'  BY <2>1, <1>b DEF OwnsUnlessEvicted, Busy
  <2> QED  BY <2>1, <2>2, FrameSettle DEF Busy, Spent
<1>5. CASE \E w \in Workers : \/ ChunkAndEmbed(w) \/ BeginReplace(w) \/ DeleteOld(w)
                              \/ InsertChunk(w) \/ UniqueViolation(w) \/ Raise(w)
                              \/ Stop(w) \/ Restart(w)
  <2> PICK w \in Workers : \/ ChunkAndEmbed(w) \/ BeginReplace(w) \/ DeleteOld(w)
                           \/ InsertChunk(w) \/ UniqueViolation(w) \/ Raise(w)
                           \/ Stop(w) \/ Restart(w)
      BY <1>5
  <2>1. Grows /\ UNCHANGED <<job, src, owner, evicted, status, upload>>
    BY <1>c DEF ChunkAndEmbed, BeginReplace, DeleteOld, InsertChunk,
                UniqueViolation, Raise, Stop, Restart, Grows
  <2>2. /\ \A v \in Workers : v # w => pc'[v] = pc[v]
        /\ pc'[w] = pc[w] \/ pc'[w] \notin {"send", "ack"}
        /\ Busy(w)' => Busy(w)
    <3>1. \/ pc' = pc
          \/ pc[w] = "dead" /\ pc' = [pc EXCEPT ![w] = "idle"]
          \/ Busy(w) /\ \E l \in PC \ {"send", "ack"} : pc' = [pc EXCEPT ![w] = l]
      BY DEF ChunkAndEmbed, BeginReplace, DeleteOld, InsertChunk, UniqueViolation,
             Raise, Stop, Restart, OnException, Busy, PC
    <3>2. pc \in [Workers -> PC]  BY <1>a DEF TypeOK
    <3> QED  BY <3>1, <3>2 DEF Busy
  <2>3. OwnsUnlessEvicted'  BY <2>1, <2>2, <1>b DEF OwnsUnlessEvicted, Busy
  <2> QED  BY <2>1, <2>2, <2>3, FrameSettle DEF Busy, Spent
<1>6. CASE \E w \in Workers : Exit(w) \/ Crash(w)
  <2> PICK w \in Workers : Exit(w) \/ Crash(w)  BY <1>6
  <2>1. Grows /\ UNCHANGED <<evicted, status, upload>>
    BY <1>c DEF Exit, Crash, Gone, EndTx, Grows
  <2>2. ~Busy(w)' /\ \A v \in Workers : v # w =>
          pc'[v] = pc[v] /\ job'[v] = job[v] /\ src'[v] = src[v]
    BY <1>a DEF Exit, Crash, Gone, TypeOK, Busy
  <2>3. \A v \in Workers : v # w =>
          \A q \in Partitions : owner'[q] = v <=> owner[q] = v
    BY <1>a DEF Exit, Crash, Gone, Released, TypeOK
  <2>4. OwnsUnlessEvicted'
    BY <2>1, <2>2, <2>3, <1>a, <1>b DEF OwnsUnlessEvicted, BusyHasJob, Busy
  <2> QED  BY <2>1, <2>2, <2>3, <2>4, FrameSettle DEF Busy, Spent
<1>7. CASE \E w \in Workers : Load(w) \/ FailUpdate(w) \/ CommitReplace(w)
  <2> PICK w \in Workers : Load(w) \/ FailUpdate(w) \/ CommitReplace(w)  BY <1>7
  <2> DEFINE d == job[w].doc
  <2>1. Busy(w)  BY DEF Load, FailUpdate, CommitReplace, Busy
  <2>2. d \in Docs /\ job[w].attempt \in 1 .. MaxAttempts
    BY <2>1, <1>a, JobFields DEF BusyHasJob
  <2>3. /\ UNCHANGED <<job, src, owner, upload, log, committed, dlq, lost, evicted>>
        /\ \A v \in Workers : v # w => pc'[v] = pc[v]
        /\ \A c \in Docs : c # d => status'[c] = status[c]
        /\ Busy(w)'
    <3>1. UNCHANGED <<job, src, owner, upload, log, committed, dlq, lost, evicted>>
      BY DEF Load, FailUpdate, CommitReplace
    <3>2. \E l \in PC \ {"idle", "dead"} : pc' = [pc EXCEPT ![w] = l]
      BY DEF Load, FailUpdate, CommitReplace, OnException, PC
    <3>3. status' = status \/ \E st \in Status : status' = [status EXCEPT ![d] = st]
      BY DEF Load, FailUpdate, CommitReplace, StatusAfterFail, Status
    <3>4. pc \in [Workers -> PC] /\ status \in [Docs -> Status]
      BY <1>a DEF TypeOK
    <3>5. (\A v \in Workers : v # w => pc'[v] = pc[v]) /\ Busy(w)'
      BY <3>2, <3>4 DEF Busy
    <3>6. \A c \in Docs : c # d => status'[c] = status[c]
      BY <3>3, <3>4
    <3> QED  BY <3>1, <3>5, <3>6
  <2>4. Grows
    <3>1. CASE Load(w) \/ FailUpdate(w)
      BY <3>1, <1>c DEF Load, FailUpdate, Grows
    <3>2. CASE CommitReplace(w)
      <4>1. /\ NChunks[d] \in Nat \ {0}
            /\ rows' = [rows EXCEPT ![d] = Generation(d, gen[w])]
        BY <3>2, CommitInstalls
      <4>2. rows'[d] = Generation(d, gen[w]) /\ \A c \in Docs : c # d => rows'[c] = rows[c]
        BY <4>1, <2>2, <1>a DEF TypeOK
      <4>3. <<0, gen[w]>> \in rows'[d]  BY <4>1, <4>2 DEF Generation
      <4> QED  BY <4>2, <4>3, <2>3, <1>c DEF Grows
    <3> QED  BY <3>1, <3>2
  <2>5. OwnsUnlessEvicted'
    BY <2>1, <2>3, <1>b DEF OwnsUnlessEvicted, Busy
  <2>6. CASE pc'[w] = "fail"
    <3>1. UNCHANGED status /\ pc[w] = "load"
      BY <2>6, <1>a DEF Load, FailUpdate, CommitReplace, TypeOK
    <3> QED  BY <3>1, <2>1, <2>3, <2>4, <2>5, <2>6, FrameSettle DEF Busy, Spent
  <2>7. CASE pc'[w] # "fail"
    <3>1. \/ pc'[w] = "chunk" /\ status'[d] = "chunking"
          \/ pc'[w] = "ack" /\ status'[d] = "ready"
          \/ pc'[w] = "send" /\ status'[d] = StatusAfterFail(job[w].attempt)
      <4>1. /\ \A l : pc' = [pc EXCEPT ![w] = l] => pc'[w] = l
            /\ \A st : status' = [status EXCEPT ![d] = st] => status'[d] = st
        BY <2>2, <1>a DEF TypeOK
      <4>2. CASE Load(w)  BY <4>1, <4>2, <2>7 DEF Load, OnException
      <4>3. CASE FailUpdate(w)  BY <4>1, <4>3 DEF FailUpdate
      <4>4. CASE CommitReplace(w)  BY <4>1, <4>4 DEF CommitReplace
      <4> QED  BY <4>2, <4>3, <4>4
    <3>2. UnsettledIsOpen'
      <4> SUFFICES ASSUME NEW c \in Docs, upload'[c] = "done",
                          c \notin lost' \cup evicted',
                          status'[c] \in {"pending", "chunking"}
                   PROVE  OpenFor(c)'
          BY DEF UnsettledIsOpen
      <4>1. CASE c = d
        <5>1. ~Spent(w)'
          BY <3>1, <4>1, <2>2, <2>3 DEF StatusAfterFail, Spent, CanRetry
        <5>2. PICK p \in Partitions : \E i \in 1 .. Len(log'[p]) :
                /\ Live(p, i)' /\ log'[p][i] = job'[w]
                /\ \A v \in Workers : HeldBy(v, p, i)' => v = w
          BY <4>1, <2>3, <2>5, OwnJobOpen
        <5>3. PICK i \in 1 .. Len(log'[p]) :
                /\ Live(p, i)' /\ log'[p][i] = job'[w]
                /\ \A v \in Workers : HeldBy(v, p, i)' => v = w
          BY <5>2
        <5>4. OpenAt(p, i)' /\ log'[p][i].doc = c  BY <5>1, <5>3, <4>1, <2>3 DEF OpenAt
        <5> QED  BY <5>4 DEF OpenFor
      <4>2. CASE c # d
        <5>1. OpenFor(c)  BY <4>2, <2>3, <1>b DEF UnsettledIsOpen
        <5>2. \A v \in Workers : \A p \in Partitions :
                owner'[p] = v /\ src'[v] = p /\ Busy(v)' /\ Spent(v)' =>
                  /\ owner[p] = v /\ src[v] = p /\ Busy(v)
                  /\ Spent(v) \/ job[v].doc # c
          BY <4>2, <2>1, <2>3 DEF Busy, Spent
        <5> QED  BY <5>1, <5>2, <2>4, OpenStays
      <4> QED  BY <4>1, <4>2
    <3>3. FailedIsOpen'
      <4> SUFFICES ASSUME NEW c \in Docs, status'[c] = "failed",
                          c \notin lost' \cup evicted', c \notin dlq'
                   PROVE  LastUnacked(c)'
          BY DEF FailedIsOpen
      <4>1. CASE c = d
        <5>1. pc'[w] = "send" /\ job[w].attempt = MaxAttempts
          BY <3>1, <4>1, <2>2 DEF StatusAfterFail
        <5>2. PICK p \in Partitions : \E i \in 1 .. Len(log'[p]) :
                /\ Live(p, i)' /\ log'[p][i] = job'[w]
                /\ \A v \in Workers : HeldBy(v, p, i)' => v = w
          BY <4>1, <2>3, <2>5, OwnJobOpen
        <5>3. PICK i \in 1 .. Len(log'[p]) :
                /\ Live(p, i)' /\ log'[p][i] = job'[w]
                /\ \A v \in Workers : HeldBy(v, p, i)' => v = w
          BY <5>2
        <5>4. job[w] = [doc |-> c, attempt |-> MaxAttempts]
          BY <5>1, <4>1, <2>1, <1>a DEF BusyHasJob, Jobs
        <5>5. UnackedAt(p, i)' /\ log'[p][i] = [doc |-> c, attempt |-> MaxAttempts]
          BY <5>1, <5>3, <5>4, <2>3 DEF UnackedAt
        <5> QED  BY <5>5 DEF LastUnacked
      <4>2. CASE c # d
        <5>1. LastUnacked(c)  BY <4>2, <2>3, <1>b DEF FailedIsOpen
        <5>2. \A v \in Workers : \A p \in Partitions :
                owner'[p] = v /\ src'[v] = p /\ pc'[v] = "ack" =>
                  /\ owner[p] = v /\ src[v] = p /\ Busy(v)
                  /\ pc[v] = "ack" \/ job[v] # [doc |-> c, attempt |-> MaxAttempts]
          BY <4>2, <2>1, <2>3 DEF Busy
        <5> QED  BY <5>1, <5>2, <2>4, UnackedStays
      <4> QED  BY <4>1, <4>2
    <3> QED  BY <3>2, <3>3, <2>5 DEF SettleInv
  <2> QED  BY <2>6, <2>7
<1>8. CASE \E w \in Workers : \/ SendDead(w) \/ SendLost(w)
                              \/ \E q \in Partitions : SendRetry(w, q)
  <2> PICK w \in Workers : \/ SendDead(w) \/ SendLost(w)
                           \/ \E q \in Partitions : SendRetry(w, q)
      BY <1>8
  <2> DEFINE d == job[w].doc
  <2>1. Busy(w) /\ pc[w] = "send"  BY DEF SendDead, SendLost, SendRetry, Busy
  <2>2. d \in Docs /\ job[w].attempt \in 1 .. MaxAttempts /\ job[w] \in Jobs
    BY <2>1, <1>a, JobFields DEF BusyHasJob
  <2>3. /\ UNCHANGED <<job, src, owner, upload, status, rows, committed, evicted>>
        /\ \A v \in Workers : v # w => pc'[v] = pc[v]
        /\ pc'[w] = "ack" /\ Busy(w)'
        /\ dlq \subseteq dlq' /\ lost \subseteq lost'
    BY <1>a DEF SendDead, SendLost, SendRetry, Busy, TypeOK
  <2>4. /\ Grows
        /\ (\E q \in Partitions : SendRetry(w, q)) => OpenFor(d)'
    <3>1. CASE SendDead(w) \/ SendLost(w)
      <4>1. Grows  BY <3>1, <1>c DEF SendDead, SendLost, Grows
      <4>2. UNCHANGED log  BY <3>1 DEF SendDead, SendLost
      <4>3. ASSUME NEW q \in Partitions, SendRetry(w, q) PROVE FALSE
        <5>1. log'[q] = Append(log[q], RetryJob(job[w])) /\ log[q] \in Seq(Jobs)
              /\ RetryJob(job[w]) \in Jobs
          BY <4>3, <1>a, <2>2, RetryJobType DEF SendRetry, TypeOK
        <5>2. Len(log'[q]) = Len(log[q]) + 1  BY <5>1
        <5> QED  BY <5>2, <4>2, <1>c
      <4> QED  BY <4>1, <4>3
    <3>2. CASE \E q \in Partitions : SendRetry(w, q)
      <4> PICK q \in Partitions : SendRetry(w, q)  BY <3>2
      <4>1. /\ RetryJob(job[w]) \in Jobs /\ RetryJob(job[w]).doc = d
            /\ log' = [log EXCEPT ![q] = Append(@, RetryJob(job[w]))]
        BY <2>2, RetryJobType DEF SendRetry, RetryJob
      <4>2. /\ \A p \in Partitions : /\ Len(log'[p]) >= Len(log[p])
                                     /\ \A i \in 1 .. Len(log[p]) : log'[p][i] = log[p][i]
            /\ Len(log[q]) + 1 \in 1 .. Len(log'[q])
            /\ log'[q][Len(log[q]) + 1] = RetryJob(job[w])
        BY <4>1, <2>3, AppendExtends DEF DeliveryInv
      <4>3. Grows  BY <4>2, <2>3 DEF Grows
      <4>4. PICK k \in Nat : k = Len(log[q]) + 1  BY <1>c
      <4>5. \A v \in Workers : Busy(v)' => Busy(v)  BY <2>1, <2>3 DEF Busy
      <4>6. k <= Len(log'[q])
        BY <4>2, <4>4, <1>a DEF TypeOK
      <4>7. k \in 1 .. Len(log'[q]) /\ OpenAt(q, k)'
        BY <2>3, <4>3, <4>4, <4>5, <4>6, NewJobOpen
      <4> QED  BY <4>1, <4>2, <4>3, <4>4, <4>7, <2>3 DEF OpenFor
    <3> QED  BY <3>1, <3>2
  <2>5. OwnsUnlessEvicted'  BY <2>1, <2>3, <1>b DEF OwnsUnlessEvicted, Busy
  <2>6. UnsettledIsOpen'
    <3> SUFFICES ASSUME NEW c \in Docs, upload'[c] = "done",
                        c \notin lost' \cup evicted',
                        status'[c] \in {"pending", "chunking"}
                 PROVE  OpenFor(c)'
        BY DEF UnsettledIsOpen
    <3>1. OpenFor(c)  BY <2>3, <1>b DEF UnsettledIsOpen
    <3>2. \/ Spent(w) \/ c # d
          \/ \E q \in Partitions : SendRetry(w, q)
      BY <2>1 DEF SendDead, SendLost, Spent
    <3>3. CASE Spent(w) \/ c # d
      <4>1. \A v \in Workers : \A p \in Partitions :
              owner'[p] = v /\ src'[v] = p /\ Busy(v)' /\ Spent(v)' =>
                /\ owner[p] = v /\ src[v] = p /\ Busy(v)
                /\ Spent(v) \/ job[v].doc # c
        BY <3>3, <2>1, <2>3 DEF Busy, Spent
      <4> QED  BY <4>1, <3>1, <2>4, OpenStays
    <3>4. CASE c = d /\ \E q \in Partitions : SendRetry(w, q)
      <4>1. PICK p \in Partitions : \E i \in 1 .. Len(log'[p]) :
              OpenAt(p, i)' /\ log'[p][i].doc = c
        BY <3>4, <2>3, <2>4 DEF OpenFor
      <4> QED  BY <4>1 DEF OpenFor
    <3> QED  BY <3>2, <3>3, <3>4
  <2>7. FailedIsOpen'
    <3> SUFFICES ASSUME NEW c \in Docs, status'[c] = "failed",
                        c \notin lost' \cup evicted', c \notin dlq'
                 PROVE  LastUnacked(c)'
        BY DEF FailedIsOpen
    <3>1. LastUnacked(c)  BY <2>3, <1>b DEF FailedIsOpen
    <3>2. job[w] # [doc |-> c, attempt |-> MaxAttempts]
      BY <2>2 DEF SendDead, SendLost, SendRetry, CanRetry
    <3>3. \A v \in Workers : \A p \in Partitions :
            owner'[p] = v /\ src'[v] = p /\ pc'[v] = "ack" =>
              /\ owner[p] = v /\ src[v] = p /\ Busy(v)
              /\ pc[v] = "ack" \/ job[v] # [doc |-> c, attempt |-> MaxAttempts]
      BY <3>2, <2>1, <2>3 DEF Busy
    <3> QED  BY <3>1, <3>3, <2>4, UnackedStays
  <2> QED  BY <2>5, <2>6, <2>7 DEF SettleInv
<1>9. CASE \E w \in Workers : CommitOffset(w)
  <2> PICK w \in Workers : CommitOffset(w)  BY <1>9
  <2>1. /\ UNCHANGED <<status, upload, log, owner, dlq, lost, evicted>>
        /\ pc[w] = "ack" /\ Busy(w) /\ ~Busy(w)'
        /\ \A v \in Workers : v # w =>
             pc'[v] = pc[v] /\ job'[v] = job[v] /\ src'[v] = src[v]
    BY <1>a DEF CommitOffset, Busy, TypeOK
  <2>2. src[w] \in Partitions  BY <2>1, <1>a DEF BusyHasJob
  <2>3. OwnsUnlessEvicted'  BY <2>1, <1>b DEF OwnsUnlessEvicted, Busy
  <2>4. ASSUME NEW p \in Partitions, NEW i \in 1 .. Len(log[p]), Live(p, i),
               ~HeldBy(w, p, i)
        PROVE  /\ Live(p, i)'
               /\ \A v \in Workers : HeldBy(v, p, i)' => v # w /\ HeldBy(v, p, i)
    <3>1. committed[p] \in Nat /\ Len(log[p]) \in Nat  BY <1>a DEF TypeOK
    <3>2. CASE owner[src[w]] = w /\ p = src[w]
      <4>1. committed'[p] = committed[p] + 1
        BY <3>2, <2>2, <1>a DEF CommitOffset, Advanced, TypeOK
      <4>2. i # committed[p] + 1  BY <3>2, <2>1, <2>4 DEF HeldBy
      <4>3. Live(p, i)'  BY <4>1, <4>2, <3>1, <2>1, <2>4 DEF Live
      <4> QED  BY <4>3, <3>2, <2>1 DEF HeldBy
    <3>3. CASE ~(owner[src[w]] = w /\ p = src[w])
      <4>1. committed'[p] = committed[p]
        BY <3>3, <2>2, <1>a DEF CommitOffset, TypeOK
      <4> QED  BY <4>1, <2>1, <2>4 DEF HeldBy, Live, Busy
    <3> QED  BY <3>2, <3>3
  <2>5. UnsettledIsOpen'
    <3> SUFFICES ASSUME NEW c \in Docs, OpenFor(c) PROVE OpenFor(c)'
        BY <2>1, <1>b DEF UnsettledIsOpen
    <3>1. PICK p \in Partitions : \E i \in 1 .. Len(log[p]) :
            OpenAt(p, i) /\ log[p][i].doc = c
      BY DEF OpenFor
    <3>2. PICK i \in 1 .. Len(log[p]) : OpenAt(p, i) /\ log[p][i].doc = c
      BY <3>1
    <3>3. Live(p, i) /\ ~HeldBy(w, p, i)  BY <3>2, <2>1 DEF OpenAt, Spent
    <3>4. OpenAt(p, i)'
      BY <2>4, <3>2, <3>3, <2>1 DEF OpenAt, Spent
    <3> QED  BY <3>2, <3>4, <2>1 DEF OpenFor
  <2>6. FailedIsOpen'
    <3> SUFFICES ASSUME NEW c \in Docs, LastUnacked(c) PROVE LastUnacked(c)'
        BY <2>1, <1>b DEF FailedIsOpen
    <3>1. PICK p \in Partitions : \E i \in 1 .. Len(log[p]) :
            UnackedAt(p, i) /\ log[p][i] = [doc |-> c, attempt |-> MaxAttempts]
      BY DEF LastUnacked
    <3>2. PICK i \in 1 .. Len(log[p]) :
            UnackedAt(p, i) /\ log[p][i] = [doc |-> c, attempt |-> MaxAttempts]
      BY <3>1
    <3>3. Live(p, i) /\ ~HeldBy(w, p, i)  BY <3>2, <2>1 DEF UnackedAt
    <3>4. UnackedAt(p, i)'  BY <2>4, <3>2, <3>3, <2>1 DEF UnackedAt
    <3> QED  BY <3>2, <3>4, <2>1 DEF LastUnacked
  <2> QED  BY <2>3, <2>5, <2>6 DEF SettleInv
<1>10. CASE UNCHANGED vars
  <2>1. Grows /\ UNCHANGED <<pc, job, src, owner, upload, status, evicted>>
    BY <1>10, <1>c DEF vars, Grows
  <2>2. OwnsUnlessEvicted'  BY <2>1, <1>b DEF OwnsUnlessEvicted, Busy
  <2> QED  BY <2>1, <2>2, FrameSettle DEF Busy, Spent
<1> QED
  BY <1>1, <1>2, <1>3, <1>4, <1>5, <1>6, <1>7, <1>8, <1>9, <1>10
  DEF Next, Gateway, Working, Ingesting, Failing, Faulty

\* SettleInv holds in every reachable state, with the invariants it rests on.
LEMMA SettleInvariant == Spec => [](TypeInv /\ SettleInv)
<1>1. TypeInv /\ TypeInv' /\ ReplaceInv /\ DeliveryInv /\ DeliveryInv'
        /\ SettleInv /\ [Next]_vars => SettleInv'
  BY StepSettle
<1> QED  BY <1>1, InitSettle, DeliveryInvariant, PTL DEF Spec

\* A document left "pending" or "chunking" still has an uncommitted job that
\* will change it, whatever crashes, retries and redeliveries happen, unless a
\* job of it was lost or its worker was evicted (worker.py, ingest and fail).
THEOREM UnsettledHasJob == Spec => []UnsettledIsLive
<1>1. SettleInv => UnsettledIsLive
  BY DEF SettleInv, UnsettledIsOpen, OpenFor, OpenAt, UnsettledIsLive, LiveFor
<1> QED  BY <1>1, SettleInvariant, PTL

\* A document marked "failed" is on the dead-letter topic, or its last attempt
\* will be delivered again: a crash between fail()'s UPDATE and its send is not
\* the end of it (worker.py, fail).
THEOREM FailuresReachDeadLetters == Spec => []FailedIsDeadLettered
<1>1. SettleInv => FailedIsDeadLettered
  BY DEF SettleInv, FailedIsOpen, LastUnacked, UnackedAt, FailedIsDeadLettered,
         LastAttemptLive
<1> QED  BY <1>1, SettleInvariant, PTL

-----------------------------------------------------------------------------
(***************************************************************************)
(* How many jobs a document has. JobsDoNotMultiply counts the open jobs,   *)
(* but a worker that lost its partition may still add one: its own job has *)
(* been handed to another, and it goes on to send a retry. SpreadInv       *)
(* counts these workers as well.                                           *)
(***************************************************************************)

\* Workers that ingest d without owning the partition of their job any more,
\* and may still send it back to the topic.
Adrift(d) == {w \in Workers : /\ Busy(w) /\ pc[w] # "ack"
                              /\ job[w].doc = d /\ owner[src[w]] # w}

\* Jobs exist only for documents whose upload got as far as Publish.
JobsAreUploaded ==
  /\ \A p \in Partitions : \A i \in 1 .. Len(log[p]) : upload[log[p][i].doc] = "done"
  /\ \A w \in Workers : Busy(w) => upload[job[w].doc] = "done"
  /\ \A d \in Docs : upload[d] # "none" => status[d] # "absent"

Allowed == 1 + faults["crash"] + faults["evict"] + faults["dup"]

Counted(d) == /\ IsFiniteSet(OpenJobs(d)) /\ IsFiniteSet(Adrift(d))
              /\ Cardinality(OpenJobs(d)) + Cardinality(Adrift(d)) <= Allowed

SpreadInv == JobsAreUploaded /\ \A d \in Docs : Counted(d)

\* Nothing is queued before the first upload.
LEMMA InitSpread == Init => SpreadInv
<1> SUFFICES ASSUME Init PROVE SpreadInv
    OBVIOUS
<1>1. JobsAreUploaded  BY DEF Init, JobsAreUploaded, Busy
<1>2. \A d \in Docs : OpenJobs(d) = {} /\ Adrift(d) = {}
  BY DEF Init, OpenJobs, Adrift, Busy
<1>3. Allowed = 1  BY DEF Init, Allowed, FaultKinds
<1> QED  BY <1>1, <1>2, <1>3, FS_EmptySet DEF SpreadInv, Counted

\* The open jobs of a document, as offsets.
LEMMA OpenJobsAre ==
  ASSUME NEW d
  PROVE  /\ OpenJobs(d) \subseteq Partitions \X Int
         /\ OpenJobs(d)' \subseteq Partitions \X Int
         /\ \A p \in Partitions : \A i :
              <<p, i>> \in OpenJobs(d) <=>
                i \in 1 .. Len(log[p]) /\ UnackedAt(p, i) /\ log[p][i].doc = d
         /\ \A p \in Partitions : \A i :
              <<p, i>> \in OpenJobs(d)' <=>
                i \in 1 .. Len(log'[p]) /\ UnackedAt(p, i)' /\ log'[p][i].doc = d
<1>1. OpenJobs(d) \subseteq Partitions \X Int /\ OpenJobs(d)' \subseteq Partitions \X Int
  BY DEF OpenJobs
<1>2. \A p \in Partitions : \A i :
        <<p, i>> \in OpenJobs(d) <=>
          i \in 1 .. Len(log[p]) /\ UnackedAt(p, i) /\ log[p][i].doc = d
  BY DEF OpenJobs, UnackedAt, HeldBy, Busy
<1>3. \A p \in Partitions : \A i :
        <<p, i>> \in OpenJobs(d)' <=>
          i \in 1 .. Len(log'[p]) /\ UnackedAt(p, i)' /\ log'[p][i].doc = d
  BY DEF OpenJobs, UnackedAt, HeldBy, Busy
<1> QED  BY <1>1, <1>2, <1>3

\* A set that gains at most x has at most one element more, and none more if
\* it loses another.
LEMMA CountGain ==
  ASSUME NEW A, IsFiniteSet(A), NEW x, NEW B, B \subseteq A \cup {x}
  PROVE  /\ IsFiniteSet(B) /\ Cardinality(B) \in Nat /\ Cardinality(A) \in Nat
         /\ Cardinality(B) <= Cardinality(A) + 1
         /\ \A y \in A : B \subseteq (A \ {y}) \cup {x} => Cardinality(B) <= Cardinality(A)
         /\ B \subseteq A => Cardinality(B) <= Cardinality(A)
         /\ \A y \in A : B \subseteq A \ {y} => Cardinality(B) + 1 <= Cardinality(A)
<1>1. IsFiniteSet(A \cup {x}) /\ Cardinality(A \cup {x}) <= Cardinality(A) + 1
      /\ Cardinality(A) \in Nat
  BY FS_AddElement, FS_CardinalityType
<1>2. /\ IsFiniteSet(B) /\ Cardinality(B) <= Cardinality(A \cup {x})
      /\ Cardinality(B) \in Nat /\ Cardinality(A \cup {x}) \in Nat
  BY <1>1, FS_Subset, FS_CardinalityType
<1>3. ASSUME NEW y \in A, B \subseteq (A \ {y}) \cup {x}
      PROVE  Cardinality(B) <= Cardinality(A)
  <2>1. IsFiniteSet(A \ {y}) /\ Cardinality(A \ {y}) = Cardinality(A) - 1
    BY FS_RemoveElement
  <2>2. /\ IsFiniteSet((A \ {y}) \cup {x})
        /\ Cardinality((A \ {y}) \cup {x}) <= Cardinality(A)
    <3> DEFINE rest == A \ {y}
    <3>1. IsFiniteSet(rest) /\ Cardinality(rest) = Cardinality(A) - 1  BY <2>1
    <3> HIDE DEF rest
    <3>2. /\ IsFiniteSet(rest \cup {x})
          /\ Cardinality(rest \cup {x}) \in {Cardinality(rest), Cardinality(rest) + 1}
      BY <3>1, FS_AddElement
    <3>3. Cardinality(rest \cup {x}) <= Cardinality(A)  BY <1>1, <3>1, <3>2
    <3> QED  BY <3>2, <3>3 DEF rest
  <2>3. Cardinality(B) <= Cardinality((A \ {y}) \cup {x})
    BY <1>3, <2>2, FS_Subset
  <2>4. Cardinality((A \ {y}) \cup {x}) \in Nat  BY <2>2, FS_CardinalityType
  <2> QED  BY <1>1, <1>2, <2>2, <2>3, <2>4
<1>4. ASSUME B \subseteq A PROVE Cardinality(B) <= Cardinality(A)
  BY <1>4, FS_Subset
<1>5. ASSUME NEW y \in A, B \subseteq A \ {y}
      PROVE  Cardinality(B) + 1 <= Cardinality(A)
  <2>1. IsFiniteSet(A \ {y}) /\ Cardinality(A \ {y}) = Cardinality(A) - 1
    BY FS_RemoveElement
  <2>2. Cardinality(B) <= Cardinality(A \ {y})  BY <1>5, <2>1, FS_Subset
  <2> QED  BY <1>1, <1>2, <2>1, <2>2
<1> QED  BY <1>1, <1>2, <1>3, <1>4, <1>5

\* Faults are only ever counted up.
LEMMA AllowedGrows ==
  ASSUME TypeInv, TypeInv', [Next]_vars
  PROVE  /\ Allowed \in Nat /\ Allowed' \in Nat /\ Allowed' >= Allowed
         /\ \A w \in Workers : Crash(w) \/ Evict(w) => Allowed' = Allowed + 1
         /\ faults["dup"]' = faults["dup"] + 1 => Allowed' >= Allowed + 1
<1>1. faults \in [FaultKinds -> Nat] /\ faults' \in [FaultKinds -> Nat]
  BY DEF TypeInv, TypeOK
<1>2. {"crash", "stop", "raise", "evict", "lose", "dup", "again"} \subseteq FaultKinds
  BY FaultNames
<1>3. Allowed \in Nat /\ Allowed' \in Nat  BY <1>1, <1>2 DEF Allowed
<1>4. faults' = faults \/ \E k \in FaultKinds : faults' = [faults EXCEPT ![k] = @ + 1]
  <2> DEFINE OneMore == \/ faults' = faults
                        \/ \E k \in FaultKinds : faults' = [faults EXCEPT ![k] = @ + 1]
  <2>1. ASSUME NEW d \in Docs, Client(d) PROVE OneMore
    BY <1>2, <2>1 DEF Client, CreateDocument, UploadDuplicate, Fault
  <2>2. ASSUME NEW d \in Docs, Gateway(d) PROVE OneMore
    BY <1>2, <2>2 DEF Gateway, Publish, PublishLost, Fault
  <2>3. ASSUME NEW w \in Workers, Group(w) PROVE OneMore
    BY <1>2, <2>3 DEF Group, Evict, Assign, Fault
  <2>4. ASSUME NEW w \in Workers, Ingesting(w) PROVE OneMore
    BY <1>2, <2>4 DEF Ingesting, Load, ChunkAndEmbed, BeginReplace, DeleteOld,
       InsertChunk, UniqueViolation, CommitReplace, Fault
  <2>5. ASSUME NEW w \in Workers, Failing(w) PROVE OneMore
    BY <1>2, <2>5 DEF Failing, FailUpdate, SendDead, SendRetry, Fault
  <2>6. ASSUME NEW w \in Workers, NEW p \in Partitions, Poll(w, p) PROVE OneMore
    BY <1>2, <2>6 DEF Poll, Fault
  <2>7. ASSUME NEW w \in Workers, Exit(w) PROVE OneMore
    BY <1>2, <2>7 DEF Exit, Fault
  <2>8. ASSUME NEW w \in Workers, CommitOffset(w) PROVE OneMore
    BY <1>2, <2>8 DEF CommitOffset, Fault
  <2>9. ASSUME NEW w \in Workers, Faulty(w) PROVE OneMore
    BY <1>2, <2>9 DEF Faulty, Raise, SendLost, Stop, Crash, Restart, Fault
  <2>10. ASSUME UNCHANGED vars PROVE OneMore
    BY <1>2, <2>10 DEF vars, Fault
  <2> QED
    BY <2>1, <2>2, <2>3, <2>4, <2>5, <2>6, <2>7, <2>8, <2>9, <2>10 DEF Next, Working
<1>5. \A k \in FaultKinds : faults'[k] \in Nat /\ faults[k] \in Nat /\ faults'[k] >= faults[k]
  BY <1>1, <1>4
<1>6. Allowed' >= Allowed
      /\ (faults["dup"]' = faults["dup"] + 1 => Allowed' >= Allowed + 1)
  BY <1>2, <1>5 DEF Allowed
<1>7. ASSUME NEW w \in Workers, Crash(w) \/ Evict(w) PROVE Allowed' = Allowed + 1
  <2>1. CASE Crash(w)
    <3>1. faults' = [faults EXCEPT !["crash"] = @ + 1]  BY <2>1 DEF Crash, Fault
    <3> QED  BY <3>1, <1>1, <1>2, <1>5 DEF Allowed
  <2>2. CASE Evict(w)
    <3>1. faults' = [faults EXCEPT !["evict"] = @ + 1]  BY <2>2 DEF Evict, Fault
    <3> QED  BY <3>1, <1>1, <1>2, <1>5 DEF Allowed
  <2> QED  BY <1>7, <2>1, <2>2
<1> QED  BY <1>3, <1>6, <1>7

\* No open job is added while the logs stand still, no offset moves and nobody
\* who is about to commit is hindered.
LEMMA OpenShrinks ==
  ASSUME UNCHANGED <<log, committed>>, NEW d,
         \A v \in Workers : \A p \in Partitions :
           owner[p] = v /\ src[v] = p /\ pc[v] = "ack" =>
             owner'[p] = v /\ src'[v] = p /\ pc'[v] = "ack"
  PROVE  OpenJobs(d)' \subseteq OpenJobs(d)
<1>1. ASSUME NEW p \in Partitions, NEW i \in 1 .. Len(log[p]), UnackedAt(p, i)'
      PROVE  UnackedAt(p, i)
  <2>1. Live(p, i)  BY <1>1 DEF UnackedAt, Live
  <2>2. ASSUME NEW v \in Workers, HeldBy(v, p, i), pc[v] = "ack" PROVE FALSE
    <3>1. HeldBy(v, p, i)' /\ pc'[v] = "ack"  BY <2>2 DEF HeldBy, Busy
    <3> QED  BY <3>1, <1>1 DEF UnackedAt
  <2> QED  BY <2>1, <2>2 DEF UnackedAt
<1>2. ASSUME NEW x \in OpenJobs(d)' PROVE x \in OpenJobs(d)
  <2>1. PICK p \in Partitions, i \in Int : x = <<p, i>>  BY <1>2, OpenJobsAre
  <2>2. i \in 1 .. Len(log[p]) /\ UnackedAt(p, i)' /\ log[p][i].doc = d
    BY <1>2, <2>1, OpenJobsAre
  <2> QED  BY <1>1, <2>1, <2>2, OpenJobsAre
<1> QED  BY <1>2

\* Fewer jobs and fewer workers adrift are within the bound.
LEMMA CountedStays ==
  ASSUME NEW d \in Docs, Counted(d), Allowed \in Nat, Allowed' \in Nat,
         Allowed' >= Allowed, OpenJobs(d)' \subseteq OpenJobs(d),
         Adrift(d)' \subseteq Adrift(d)
  PROVE  Counted(d)'
<1>1. /\ IsFiniteSet(OpenJobs(d)') /\ Cardinality(OpenJobs(d)') <= Cardinality(OpenJobs(d))
      /\ Cardinality(OpenJobs(d)') \in Nat /\ Cardinality(OpenJobs(d)) \in Nat
  BY FS_Subset, FS_CardinalityType DEF Counted
<1>2. /\ IsFiniteSet(Adrift(d)') /\ Cardinality(Adrift(d)') <= Cardinality(Adrift(d))
      /\ Cardinality(Adrift(d)') \in Nat /\ Cardinality(Adrift(d)) \in Nat
  BY FS_Subset, FS_CardinalityType DEF Counted
<1>3. Cardinality(OpenJobs(d)) + Cardinality(Adrift(d)) <= Allowed  BY DEF Counted
<1>4. Cardinality(OpenJobs(d)') + Cardinality(Adrift(d)') <= Allowed'
  BY <1>1, <1>2, <1>3
<1> QED  BY <1>1, <1>2, <1>4 DEF Counted

\* Steps that append nothing, move no offset and set no worker adrift.
LEMMA FrameSpread ==
  ASSUME TypeInv, TypeInv', SpreadInv, [Next]_vars, UNCHANGED <<log, committed>>,
         JobsAreUploaded',
         \A v \in Workers : \A p \in Partitions :
           owner[p] = v /\ src[v] = p /\ pc[v] = "ack" =>
             owner'[p] = v /\ src'[v] = p /\ pc'[v] = "ack",
         \A v \in Workers :
           Busy(v)' /\ pc'[v] # "ack" /\ owner'[src'[v]] # v =>
             /\ Busy(v) /\ pc[v] # "ack" /\ owner[src[v]] # v
             /\ job'[v] = job[v]
  PROVE  SpreadInv'
<1>1. ASSUME NEW d \in Docs PROVE Counted(d)'
  <2>1. Adrift(d)' \subseteq Adrift(d)  BY DEF Adrift
  <2>2. OpenJobs(d)' \subseteq OpenJobs(d)  BY OpenShrinks
  <2>3. Allowed \in Nat /\ Allowed' \in Nat /\ Allowed' >= Allowed  BY AllowedGrows
  <2>4. Counted(d)  BY DEF SpreadInv
  <2> QED  BY <2>1, <2>2, <2>3, <2>4, CountedStays
<1> QED  BY <1>1 DEF SpreadInv

\* A step keeps every job's document among the uploaded ones.
LEMMA StepUploaded ==
  ASSUME TypeInv, TypeInv', DeliveryInv, JobsAreUploaded, [Next]_vars
  PROVE  JobsAreUploaded'
<1> USE ConstantsAssumption
    DEF dbVars, kafkaVars, workerVars, txVars, obsVars, GoTo
<1>a. TypeOK /\ TypeOK' /\ BusyHasJob  BY DEF TypeInv
<1>1. ASSUME NEW d \in Docs
      PROVE  /\ upload[d] = "done" => upload'[d] = "done"
             /\ upload'[d] # "none" => status'[d] # "absent"
  <2>1. \/ UNCHANGED <<status, upload>>
        \/ \E c \in Docs : CreateDocument(c)
        \/ \E c \in Docs : upload[c] = "stored" /\ upload' = [upload EXCEPT ![c] = "done"]
                           /\ UNCHANGED status
        \/ UNCHANGED upload /\ \E c : \E s \in Status \ {"absent"} :
             status' = [status EXCEPT ![c] = s]
    <3>1. CASE \E c \in Docs : Client(c) \/ Gateway(c)
      BY <3>1 DEF Client, Gateway, UploadDuplicate, Publish, PublishLost
    <3>2. CASE \E w \in Workers : Ingesting(w)
      BY <3>2 DEF Ingesting, Load, ChunkAndEmbed, BeginReplace, DeleteOld, InsertChunk,
                  UniqueViolation, CommitReplace, Status
    <3>3. CASE \E w \in Workers : Failing(w) \/ Faulty(w)
      BY <3>3 DEF Failing, FailUpdate, SendDead, SendRetry, Faulty, Raise, SendLost,
                  Stop, Crash, Restart, StatusAfterFail, Status
    <3>4. CASE \/ UNCHANGED vars
               \/ \E w \in Workers : \/ Group(w) \/ CommitOffset(w) \/ Exit(w)
                                     \/ \E p \in Partitions : Poll(w, p)
      BY <3>4 DEF vars, Group, Evict, Assign, CommitOffset, Exit, Poll
    <3> QED  BY <3>1, <3>2, <3>3, <3>4 DEF Next, Working
  <2>2. CASE UNCHANGED <<status, upload>>  BY <2>2 DEF JobsAreUploaded
  <2>3. CASE \E c \in Docs : CreateDocument(c)
    BY <2>3, <1>a DEF CreateDocument, JobsAreUploaded, TypeOK
  <2>4. CASE \E c \in Docs : upload[c] = "stored" /\ UNCHANGED status
                             /\ upload' = [upload EXCEPT ![c] = "done"]
    BY <2>4, <1>a DEF JobsAreUploaded, TypeOK
  <2>5. CASE UNCHANGED upload /\ \E c : \E s \in Status \ {"absent"} :
               status' = [status EXCEPT ![c] = s]
    BY <2>5, <1>a DEF JobsAreUploaded, TypeOK
  <2> QED  BY <2>1, <2>2, <2>3, <2>4, <2>5
<1>2. ASSUME NEW p \in Partitions, NEW i \in 1 .. Len(log'[p])
      PROVE  upload'[log'[p][i].doc] = "done"
  <2>1. log[p] \in Seq(Jobs) /\ Len(log[p]) \in Nat  BY <1>a DEF TypeOK
  <2>2. \/ log'[p] = log[p]
        \/ \E d \in Docs : /\ upload'[d] = "done"
                           /\ \/ log'[p] = Append(log[p], FirstJob(d))
                              \/ log'[p] = Append(Append(log[p], FirstJob(d)), FirstJob(d))
        \/ \E w \in Workers : /\ Busy(w) /\ CanRetry(job[w].attempt)
                              /\ log'[p] = Append(log[p], RetryJob(job[w]))
    <3>1. CASE \E d \in Docs : Publish(d)
      <4> PICK d \in Docs : Publish(d)  BY <3>1
      <4>1. upload'[d] = "done"  BY <1>a DEF Publish, TypeOK
      <4>2. CASE p = KeyPartition[d]
        BY <4>1, <4>2, <1>a DEF Publish, TypeOK
      <4>3. CASE p # KeyPartition[d]
        BY <4>3, <1>a DEF Publish, TypeOK
      <4> QED  BY <4>2, <4>3
    <3>2. CASE \E w \in Workers : \E q \in Partitions : SendRetry(w, q)
      <4> PICK w \in Workers, q \in Partitions : SendRetry(w, q)  BY <3>2
      <4>1. Busy(w) /\ CanRetry(job[w].attempt)  BY DEF SendRetry, Busy
      <4>2. CASE p = q  BY <4>1, <4>2, <1>a DEF SendRetry, TypeOK
      <4>3. CASE p # q  BY <4>3, <1>a DEF SendRetry, TypeOK
      <4> QED  BY <4>2, <4>3
    <3>3. CASE UNCHANGED log  BY <3>3
    <3>4. CASE \/ UNCHANGED vars
               \/ \E d \in Docs : CreateDocument(d) \/ UploadDuplicate(d) \/ PublishLost(d)
      BY <3>3, <3>4 DEF vars, CreateDocument, UploadDuplicate, PublishLost
    <3>5. CASE \E w \in Workers : \/ Group(w) \/ CommitOffset(w) \/ Exit(w) \/ Faulty(w)
                                  \/ \E r \in Partitions : Poll(w, r)
      BY <3>3, <3>5 DEF Group, Evict, Assign, CommitOffset, Exit, Poll, Faulty,
                        Raise, SendLost, Stop, Crash, Restart
    <3>6. CASE \E w \in Workers : Ingesting(w) \/ FailUpdate(w) \/ SendDead(w)
      BY <3>3, <3>6 DEF Ingesting, Load, ChunkAndEmbed, BeginReplace, DeleteOld,
                        InsertChunk, UniqueViolation, CommitReplace, FailUpdate, SendDead
    <3> QED
      BY <3>1, <3>2, <3>4, <3>5, <3>6 DEF Next, Client, Gateway, Working, Failing
  <2>3. \/ i \in 1 .. Len(log[p]) /\ log'[p][i] = log[p][i]
        \/ \E d \in Docs : upload'[d] = "done" /\ log'[p][i].doc = d
        \/ \E w \in Workers : Busy(w) /\ log'[p][i].doc = job[w].doc
    <3>1. CASE log'[p] = log[p]  BY <3>1, <1>2
    <3>2. ASSUME NEW d \in Docs, upload'[d] = "done",
                 \/ log'[p] = Append(log[p], FirstJob(d))
                 \/ log'[p] = Append(Append(log[p], FirstJob(d)), FirstJob(d))
          PROVE  \/ i \in 1 .. Len(log[p]) /\ log'[p][i] = log[p][i]
                 \/ log'[p][i].doc = d
      <4>1. FirstJob(d) \in Jobs /\ FirstJob(d).doc = d  BY FirstJobType DEF FirstJob
      <4>2. Append(log[p], FirstJob(d)) \in Seq(Jobs)  BY <2>1, <4>1
      <4>3. CASE log'[p] = Append(log[p], FirstJob(d))
        BY <4>1, <4>3, <2>1, <1>2
      <4>4. CASE log'[p] = Append(Append(log[p], FirstJob(d)), FirstJob(d))
        BY <4>1, <4>2, <4>4, <2>1, <1>2
      <4> QED  BY <3>2, <4>3, <4>4
    <3>3. ASSUME NEW w \in Workers, Busy(w), CanRetry(job[w].attempt),
                 log'[p] = Append(log[p], RetryJob(job[w]))
          PROVE  \/ i \in 1 .. Len(log[p]) /\ log'[p][i] = log[p][i]
                 \/ log'[p][i].doc = job[w].doc
      <4>1. RetryJob(job[w]) \in Jobs /\ RetryJob(job[w]).doc = job[w].doc
        BY <3>3, <1>a, RetryJobType DEF BusyHasJob, RetryJob
      <4> QED  BY <4>1, <3>3, <2>1, <1>2
    <3> QED  BY <2>2, <3>1, <3>2, <3>3
  <2>4. CASE i \in 1 .. Len(log[p]) /\ log'[p][i] = log[p][i]
    <3>1. log[p][i] \in Jobs /\ upload[log[p][i].doc] = "done"
      BY <2>1, <2>4 DEF JobsAreUploaded
    <3> QED  BY <3>1, <2>4, <1>1, JobFields
  <2>5. CASE \E w \in Workers : Busy(w) /\ log'[p][i].doc = job[w].doc
    <3> PICK w \in Workers : Busy(w) /\ log'[p][i].doc = job[w].doc  BY <2>5
    <3>1. job[w].doc \in Docs /\ upload[job[w].doc] = "done"
      BY <1>a, JobFields DEF BusyHasJob, JobsAreUploaded
    <3> QED  BY <3>1, <1>1
  <2> QED  BY <2>3, <2>4, <2>5
<1>3. ASSUME NEW w \in Workers, Busy(w)'
      PROVE  upload'[job'[w].doc] = "done"
  <2>1. CASE Busy(w) /\ job'[w] = job[w]
    <3>1. job[w].doc \in Docs /\ upload[job[w].doc] = "done"
      BY <2>1, <1>a, JobFields DEF BusyHasJob, JobsAreUploaded
    <3> QED  BY <2>1, <3>1, <1>1
  <2>2. CASE \E p \in Partitions : Poll(w, p)
    <3> PICK p \in Partitions : Poll(w, p)  BY <2>2
    <3>1. /\ log[p] \in Seq(Jobs) /\ Len(log[p]) \in Nat /\ committed[p] \in Nat
          /\ committed[p] < Len(log[p]) /\ job'[w] = log[p][committed[p] + 1]
      BY <1>a DEF Poll, TypeOK
    <3>2. committed[p] + 1 \in 1 .. Len(log[p])  BY <3>1
    <3>3. job'[w] \in Jobs /\ upload[job'[w].doc] = "done"
      BY <3>1, <3>2 DEF JobsAreUploaded
    <3> QED  BY <3>3, <1>1, JobFields
  <2>3. CASE ~\E p \in Partitions : Poll(w, p)
    <3>1. Busy(w) /\ job'[w] = job[w]
      <4>a. pc \in [Workers -> PC] /\ job \in [Workers -> Jobs \cup {NoJob}]
        BY <1>a DEF TypeOK
      <4>1. CASE UNCHANGED <<pc, job>>  BY <4>1, <1>3 DEF Busy
      <4>2. ASSUME NEW v \in Workers, UNCHANGED job, Busy(v),
                   \E l : pc' = [pc EXCEPT ![v] = l]
            PROVE  Busy(w) /\ job'[w] = job[w]
        BY <4>2, <4>a, <1>3 DEF Busy
      <4>3. ASSUME NEW v \in Workers, v # w,
                   \E l : pc' = [pc EXCEPT ![v] = l],
                   UNCHANGED job \/ \E j : job' = [job EXCEPT ![v] = j]
            PROVE  Busy(w) /\ job'[w] = job[w]
        BY <4>3, <4>a, <1>3 DEF Busy
      <4>4. CASE UNCHANGED vars \/ \E d \in Docs : Client(d) \/ Gateway(d)
        BY <4>1, <4>4 DEF vars, Client, Gateway, CreateDocument, UploadDuplicate,
                          Publish, PublishLost
      <4>5. ASSUME NEW v \in Workers, Ingesting(v) \/ Failing(v) \/ Raise(v) \/ SendLost(v)
            PROVE  Busy(w) /\ job'[w] = job[w]
        <5>1. Busy(v) /\ UNCHANGED job
          BY <4>5 DEF Busy, Ingesting, Load, ChunkAndEmbed, BeginReplace, DeleteOld,
                      InsertChunk, UniqueViolation, CommitReplace, Failing, FailUpdate,
                      SendDead, SendRetry, Raise, SendLost
        <5>2. \E l : pc' = [pc EXCEPT ![v] = l]
          BY <4>5 DEF Ingesting, Load, ChunkAndEmbed, BeginReplace, DeleteOld,
                      InsertChunk, UniqueViolation, CommitReplace, Failing, FailUpdate,
                      SendDead, SendRetry, Raise, SendLost
        <5> QED  BY <5>1, <5>2, <4>2
      <4>6. ASSUME NEW v \in Workers,
                   \/ CommitOffset(v) \/ Exit(v) \/ Crash(v) \/ Restart(v)
                   \/ \E q \in Partitions : Poll(v, q)
            PROVE  Busy(w) /\ job'[w] = job[w]
        <5>1. /\ \E l : pc' = [pc EXCEPT ![v] = l]
              /\ UNCHANGED job \/ \E j : job' = [job EXCEPT ![v] = j]
          BY <4>6 DEF CommitOffset, Exit, Crash, Restart, Gone, Poll
        <5>2. v # w
          BY <4>6, <2>3, <1>3, <4>a DEF CommitOffset, Exit, Crash, Restart, Gone, Busy
        <5> QED  BY <5>1, <5>2, <4>3
      <4>7. ASSUME NEW v \in Workers, Group(v) \/ Stop(v)
            PROVE  Busy(w) /\ job'[w] = job[w]
        BY <4>7, <4>1 DEF Group, Evict, Assign, Stop
      <4> QED  BY <4>4, <4>5, <4>6, <4>7 DEF Next, Working, Faulty
    <3> QED  BY <3>1, <2>1
  <2> QED  BY <2>2, <2>3
<1> QED  BY <1>1, <1>2, <1>3 DEF JobsAreUploaded

\* Every step keeps the jobs and the workers adrift within the faults counted.
LEMMA StepSpread ==
  ASSUME TypeInv, TypeInv', DeliveryInv, SpreadInv, [Next]_vars
  PROVE  SpreadInv'
<1> USE ConstantsAssumption
    DEF dbVars, kafkaVars, workerVars, txVars, obsVars, GoTo
<1>a. TypeOK /\ TypeOK' /\ BusyHasJob  BY DEF TypeInv
<1>b. JobsAreUploaded /\ JobsAreUploaded'  BY StepUploaded DEF SpreadInv
<1>c. Allowed \in Nat /\ Allowed' \in Nat /\ Allowed' >= Allowed  BY AllowedGrows
<1>d. \A p \in Partitions : /\ log[p] \in Seq(Jobs) /\ Len(log[p]) \in Nat
                            /\ committed[p] \in Nat /\ committed[p] <= Len(log[p])
  BY <1>a DEF TypeOK, DeliveryInv, InBounds
<1>1. CASE \E d \in Docs : Client(d) \/ PublishLost(d)
  <2>1. UNCHANGED <<log, committed, pc, job, src, owner>>
    BY <1>1 DEF Client, CreateDocument, UploadDuplicate, PublishLost
  <2> QED  BY <2>1, <1>b, FrameSpread DEF Busy
<1>2. CASE \E w \in Workers : \E p \in Partitions : Assign(p, w)
  <2> PICK w \in Workers, p \in Partitions : Assign(p, w)  BY <1>2
  <2>1. UNCHANGED <<log, committed, pc, job, src>>  BY DEF Assign
  <2>2. \A v \in Workers : \A q \in Partitions :
          Busy(v) /\ owner[q] = v => owner'[q] = v
    BY <1>a DEF Assign, Busy, TypeOK
  <2>3. \A v \in Workers : Busy(v) /\ owner'[src[v]] # v => owner[src[v]] # v
    BY <2>2, <1>a DEF BusyHasJob
  <2> QED  BY <2>1, <2>2, <2>3, <1>b, FrameSpread DEF Busy
<1>3. CASE \E w \in Workers : \E p \in Partitions : Poll(w, p)
  <2> PICK w \in Workers, p \in Partitions : Poll(w, p)  BY <1>3
  <2>1. /\ UNCHANGED <<log, committed, owner>>
        /\ pc[w] = "idle" /\ owner[p] = w /\ src'[w] = p /\ pc'[w] = "load"
        /\ \A v \in Workers : v # w =>
             pc'[v] = pc[v] /\ job'[v] = job[v] /\ src'[v] = src[v]
    BY <1>a DEF Poll, TypeOK
  <2> QED  BY <2>1, <1>b, FrameSpread DEF Busy
<1>4. CASE \E w \in Workers : \/ Ingesting(w) \/ FailUpdate(w) \/ SendDead(w)
                              \/ Raise(w) \/ SendLost(w) \/ Stop(w) \/ Restart(w)
  <2> PICK w \in Workers : \/ Ingesting(w) \/ FailUpdate(w) \/ SendDead(w)
                           \/ Raise(w) \/ SendLost(w) \/ Stop(w) \/ Restart(w)
      BY <1>4
  <2>1. UNCHANGED <<log, committed, owner, job, src>>
    BY DEF Ingesting, Load, ChunkAndEmbed, BeginReplace, DeleteOld, InsertChunk,
           UniqueViolation, CommitReplace, FailUpdate, SendDead, Raise, SendLost,
           Stop, Restart
  <2>2. /\ \A v \in Workers : v # w => pc'[v] = pc[v]
        /\ pc'[w] = pc[w] \/ pc[w] # "ack"
        /\ Busy(w)' => Busy(w)
    <3>1. \/ pc' = pc
          \/ pc[w] = "dead" /\ pc' = [pc EXCEPT ![w] = "idle"]
          \/ /\ pc[w] \in PC \ {"idle", "dead", "ack"}
             /\ \E l : pc' = [pc EXCEPT ![w] = l]
      BY DEF Ingesting, Load, ChunkAndEmbed, BeginReplace, DeleteOld, InsertChunk,
             UniqueViolation, CommitReplace, FailUpdate, SendDead, Raise, SendLost,
             Stop, Restart, PC
    <3>2. pc \in [Workers -> PC]  BY <1>a DEF TypeOK
    <3> QED  BY <3>1, <3>2 DEF Busy
  <2> QED  BY <2>1, <2>2, <1>b, FrameSpread DEF Busy
<1>5. CASE \E w \in Workers : Exit(w)
  <2> PICK w \in Workers : Exit(w)  BY <1>5
  <2>1. /\ UNCHANGED <<log, committed>> /\ pc[w] = "idle" /\ pc'[w] = "dead"
        /\ \A v \in Workers : v # w =>
             pc'[v] = pc[v] /\ job'[v] = job[v] /\ src'[v] = src[v]
    BY <1>a DEF Exit, Gone, TypeOK
  <2>2. \A v \in Workers : v # w =>
          \A q \in Partitions : owner'[q] = v <=> owner[q] = v
    BY <1>a DEF Exit, Gone, Released, TypeOK
  <2>3. \A v \in Workers : v # w /\ Busy(v) => src[v] \in Partitions
    BY <1>a DEF BusyHasJob
  <2> QED  BY <2>1, <2>2, <2>3, <1>b, FrameSpread DEF Busy
<1>6. CASE UNCHANGED vars
  <2>1. UNCHANGED <<log, committed, pc, job, src, owner>>  BY <1>6 DEF vars
  <2> QED  BY <2>1, <1>b, FrameSpread DEF Busy
<1>7. CASE \E w \in Workers : CommitOffset(w)
  <2> PICK w \in Workers : CommitOffset(w)  BY <1>7
  <2>1. /\ UNCHANGED <<log, owner>> /\ pc[w] = "ack" /\ ~Busy(w)'
        /\ \A v \in Workers : v # w =>
             pc'[v] = pc[v] /\ job'[v] = job[v] /\ src'[v] = src[v]
    BY <1>a DEF CommitOffset, Busy, TypeOK
  <2>2. src[w] \in Partitions  BY <2>1, <1>a DEF BusyHasJob, Busy
  <2>3. ASSUME NEW d \in Docs PROVE Counted(d)'
    <3>1. Adrift(d)' \subseteq Adrift(d)  BY <2>1 DEF Adrift, Busy
    <3>2. ASSUME NEW p \in Partitions, NEW i \in 1 .. Len(log[p]), UnackedAt(p, i)'
          PROVE  UnackedAt(p, i)
      <4>1. CASE owner[src[w]] = w /\ p = src[w]
        <5>1. committed'[p] = committed[p] + 1
          BY <4>1, <2>2, <1>a DEF CommitOffset, Advanced, TypeOK
        <5> QED  BY <5>1, <3>2, <2>1, <1>d DEF UnackedAt, Live, HeldBy
      <4>2. CASE ~(owner[src[w]] = w /\ p = src[w])
        <5>1. committed'[p] = committed[p]
          BY <4>2, <2>2, <1>a DEF CommitOffset, TypeOK
        <5>2. \A v \in Workers : HeldBy(v, p, i) => v # w /\ HeldBy(v, p, i)'
          BY <4>2, <5>1, <2>1 DEF HeldBy, Busy
        <5> QED  BY <5>1, <5>2, <3>2, <2>1 DEF UnackedAt, Live
      <4> QED  BY <4>1, <4>2
    <3>3. OpenJobs(d)' \subseteq OpenJobs(d)
      <4>1. ASSUME NEW x \in OpenJobs(d)' PROVE x \in OpenJobs(d)
        <5>1. PICK p \in Partitions, i \in Int : x = <<p, i>>  BY <4>1, OpenJobsAre
        <5>2. i \in 1 .. Len(log[p]) /\ UnackedAt(p, i)' /\ log[p][i].doc = d
          BY <4>1, <5>1, <2>1, OpenJobsAre
        <5> QED  BY <5>1, <5>2, <3>2, OpenJobsAre
      <4> QED  BY <4>1
    <3> QED  BY <3>1, <3>3, <1>c, CountedStays DEF SpreadInv
  <2> QED  BY <2>3, <1>b DEF SpreadInv
<1>8. CASE \E w \in Workers : Crash(w) \/ Evict(w)
  <2> PICK w \in Workers : Crash(w) \/ Evict(w)  BY <1>8
  <2> DEFINE x == <<src[w], committed[src[w]] + 1>>
  <2>1. /\ UNCHANGED <<log, committed>> /\ Allowed' = Allowed + 1
        /\ \A v \in Workers : v # w =>
             pc'[v] = pc[v] /\ job'[v] = job[v] /\ src'[v] = src[v]
    BY <1>a, AllowedGrows DEF Crash, Evict, Gone, TypeOK
  <2>2. \A v \in Workers : v # w =>
          \A q \in Partitions : owner'[q] = v <=> owner[q] = v
    <3>1. owner' = Released(w)  BY DEF Crash, Evict, Gone
    <3> QED  BY <3>1, <1>a DEF Released, TypeOK
  <2>3. \/ pc'[w] = "dead"
        \/ pc'[w] = pc[w] /\ job'[w] = job[w]
    BY <1>a DEF Crash, Evict, Gone, TypeOK
  <2>4. ASSUME NEW d \in Docs PROVE Counted(d)'
    <3>1. Adrift(d)' \subseteq Adrift(d) \cup {w}
      BY <2>1, <2>2, <1>a DEF Adrift, Busy, BusyHasJob
    <3>2. pc[w] = "ack" => Adrift(d)' \subseteq Adrift(d)
      BY <3>1, <2>3 DEF Adrift, Busy
    <3>3. OpenJobs(d)' \subseteq OpenJobs(d) \cup {x}
      <4>1. ASSUME NEW y \in OpenJobs(d)', y # x PROVE y \in OpenJobs(d)
        <5>1. PICK p \in Partitions, i \in Int : y = <<p, i>>  BY <4>1, OpenJobsAre
        <5>2. i \in 1 .. Len(log[p]) /\ UnackedAt(p, i)' /\ log[p][i].doc = d
          BY <4>1, <5>1, <2>1, OpenJobsAre
        <5>3. \A v \in Workers : HeldBy(v, p, i) => v # w /\ HeldBy(v, p, i)'
          BY <4>1, <5>1, <2>1, <2>2 DEF HeldBy, Busy
        <5>4. UnackedAt(p, i)  BY <5>2, <5>3, <2>1 DEF UnackedAt, Live
        <5> QED  BY <5>1, <5>2, <5>4, OpenJobsAre
      <4> QED  BY <4>1
    <3>4. pc[w] # "ack" => OpenJobs(d)' \subseteq OpenJobs(d)
      <4> SUFFICES ASSUME pc[w] # "ack" PROVE OpenJobs(d)' \subseteq OpenJobs(d)
          OBVIOUS
      <4>1. \A v \in Workers : \A p \in Partitions :
              owner[p] = v /\ src[v] = p /\ pc[v] = "ack" =>
                owner'[p] = v /\ src'[v] = p /\ pc'[v] = "ack"
        BY <2>1, <2>2
      <4> QED  BY <4>1, <2>1, OpenShrinks
    <3>5. /\ IsFiniteSet(OpenJobs(d)) /\ IsFiniteSet(Adrift(d))
          /\ Cardinality(OpenJobs(d)) + Cardinality(Adrift(d)) <= Allowed
      BY DEF SpreadInv, Counted
    <3>6. /\ IsFiniteSet(OpenJobs(d)') /\ Cardinality(OpenJobs(d)') \in Nat
          /\ Cardinality(OpenJobs(d)) \in Nat
          /\ Cardinality(OpenJobs(d)') <= Cardinality(OpenJobs(d)) + 1
          /\ pc[w] # "ack" => Cardinality(OpenJobs(d)') <= Cardinality(OpenJobs(d))
      BY <3>3, <3>4, <3>5, CountGain
    <3>7. /\ IsFiniteSet(Adrift(d)') /\ Cardinality(Adrift(d)') \in Nat
          /\ Cardinality(Adrift(d)) \in Nat
          /\ Cardinality(Adrift(d)') <= Cardinality(Adrift(d)) + 1
          /\ pc[w] = "ack" => Cardinality(Adrift(d)') <= Cardinality(Adrift(d))
      BY <3>1, <3>2, <3>5, CountGain
    <3>8. Cardinality(OpenJobs(d)') + Cardinality(Adrift(d)') <= Allowed'
      BY <3>5, <3>6, <3>7, <2>1, <1>c
    <3> QED  BY <3>6, <3>7, <3>8 DEF Counted
  <2> QED  BY <2>4, <1>b DEF SpreadInv
<1>9. CASE \E w \in Workers : \E q \in Partitions : SendRetry(w, q)
  <2> PICK w \in Workers, q \in Partitions : SendRetry(w, q)  BY <1>9
  <2>1. /\ UNCHANGED <<committed, owner, job, src>> /\ pc[w] = "send" /\ pc'[w] = "ack"
        /\ \A v \in Workers : v # w => pc'[v] = pc[v]
    BY <1>a DEF SendRetry, TypeOK
  <2>2. /\ job[w] \in Jobs /\ job[w].doc \in Docs /\ src[w] \in Partitions
        /\ RetryJob(job[w]) \in Jobs /\ RetryJob(job[w]).doc = job[w].doc
    BY <2>1, <1>a, RetryJobType, JobFields DEF BusyHasJob, Busy, SendRetry, RetryJob
  <2>3. /\ log'[q] = Append(log[q], RetryJob(job[w]))
        /\ \A p \in Partitions : p # q => log'[p] = log[p]
    BY <1>a DEF SendRetry, TypeOK
  <2>4. /\ Len(log'[q]) = Len(log[q]) + 1
        /\ \A i \in 1 .. Len(log[q]) : log'[q][i] = log[q][i]
        /\ log'[q][Len(log[q]) + 1] = RetryJob(job[w])
    BY <2>2, <2>3, <1>d
  <2>5. PICK x : x = <<q, Len(log[q]) + 1>>  OBVIOUS
  <2>6. ASSUME NEW d \in Docs PROVE Counted(d)'
    <3>1. Adrift(d)' \subseteq Adrift(d) \ {w}  BY <2>1 DEF Adrift, Busy
    <3>2. ASSUME NEW y \in OpenJobs(d)', y # x PROVE y \in OpenJobs(d)
      <4>1. PICK p \in Partitions, i \in Int : y = <<p, i>>  BY <3>2, OpenJobsAre
      <4>2. i \in 1 .. Len(log'[p]) /\ UnackedAt(p, i)' /\ log'[p][i].doc = d
        BY <3>2, <4>1, OpenJobsAre
      <4>3. i \in 1 .. Len(log[p]) /\ log'[p][i] = log[p][i]
        <5>1. CASE p = q  BY <5>1, <3>2, <4>1, <4>2, <2>4, <2>5, <1>d
        <5>2. CASE p # q  BY <5>2, <4>2, <2>3
        <5> QED  BY <5>1, <5>2
      <4>4. Live(p, i)  BY <4>2, <4>3, <2>1, <1>d DEF UnackedAt, Live
      <4>5. \A v \in Workers : HeldBy(v, p, i) => HeldBy(v, p, i)'
        BY <2>1 DEF HeldBy, Busy
      <4>6. UnackedAt(p, i)  BY <4>2, <4>4, <4>5, <2>1 DEF UnackedAt
      <4> QED  BY <4>1, <4>2, <4>3, <4>6, OpenJobsAre
    <3>3. d # job[w].doc => x \notin OpenJobs(d)'
      BY <2>2, <2>4, <2>5, OpenJobsAre
    <3>4. /\ IsFiniteSet(OpenJobs(d)) /\ IsFiniteSet(Adrift(d))
          /\ Cardinality(OpenJobs(d)) + Cardinality(Adrift(d)) <= Allowed
      BY DEF SpreadInv, Counted
    <3>5. CASE d # job[w].doc
      <4>1. OpenJobs(d)' \subseteq OpenJobs(d)  BY <3>2, <3>3, <3>5
      <4> QED  BY <4>1, <3>1, <1>c, CountedStays DEF SpreadInv
    <3>6. CASE d = job[w].doc /\ owner[src[w]] = w
      <4>1. PICK z : z = <<src[w], committed[src[w]] + 1>>  OBVIOUS
      <4>2. /\ committed[src[w]] < Len(log[src[w]])
            /\ log[src[w]][committed[src[w]] + 1] = job[w]
        BY <3>6, <2>1 DEF DeliveryInv, Held, Busy
      <4>3. /\ committed[src[w]] + 1 \in 1 .. Len(log[src[w]])
            /\ committed[src[w]] + 1 \in committed[src[w]] + 1 .. Len(log[src[w]])
        BY <4>2, <2>2, <1>d
      <4>4. UnackedAt(src[w], committed[src[w]] + 1)
        BY <4>3, <3>6, <2>1 DEF UnackedAt, Live, HeldBy
      <4>5. z \in OpenJobs(d)  BY <4>1, <4>2, <4>3, <4>4, <3>6, <2>2, OpenJobsAre
      <4>6. z \notin OpenJobs(d)'
        <5>1. PICK p \in Partitions, i \in Int :
                p = src[w] /\ i = committed[p] + 1 /\ z = <<p, i>>
          BY <4>1, <2>2, <1>d
        <5>2. HeldBy(w, p, i)'  BY <5>1, <3>6, <2>1 DEF HeldBy, Busy
        <5>3. ~UnackedAt(p, i)'  BY <5>2, <2>1 DEF UnackedAt
        <5> QED  BY <5>1, <5>3, OpenJobsAre
      <4>7. OpenJobs(d)' \subseteq (OpenJobs(d) \ {z}) \cup {x}  BY <3>2, <4>6
      <4>8. /\ IsFiniteSet(OpenJobs(d)') /\ Cardinality(OpenJobs(d)') \in Nat
            /\ Cardinality(OpenJobs(d)) \in Nat
            /\ Cardinality(OpenJobs(d)') <= Cardinality(OpenJobs(d))
        BY <4>5, <4>7, <3>4, CountGain
      <4>9. /\ IsFiniteSet(Adrift(d)') /\ Cardinality(Adrift(d)') \in Nat
            /\ Cardinality(Adrift(d)) \in Nat
            /\ Cardinality(Adrift(d)') <= Cardinality(Adrift(d))
        BY <3>1, <3>4, FS_Subset, FS_CardinalityType
      <4>10. Cardinality(OpenJobs(d)') + Cardinality(Adrift(d)') <= Allowed'
        BY <3>4, <4>8, <4>9, <1>c
      <4> QED  BY <4>8, <4>9, <4>10 DEF Counted
    <3>7. CASE d = job[w].doc /\ owner[src[w]] # w
      <4>1. w \in Adrift(d)  BY <3>7, <2>1 DEF Adrift, Busy
      <4>2. OpenJobs(d)' \subseteq OpenJobs(d) \cup {x}  BY <3>2
      <4>3. /\ IsFiniteSet(OpenJobs(d)') /\ Cardinality(OpenJobs(d)') \in Nat
            /\ Cardinality(OpenJobs(d)) \in Nat
            /\ Cardinality(OpenJobs(d)') <= Cardinality(OpenJobs(d)) + 1
        BY <4>2, <3>4, CountGain
      <4>4. Adrift(d)' \subseteq Adrift(d) \cup {w}  BY <3>1
      <4>5. /\ IsFiniteSet(Adrift(d)') /\ Cardinality(Adrift(d)') \in Nat
            /\ Cardinality(Adrift(d)) \in Nat
            /\ Cardinality(Adrift(d)') + 1 <= Cardinality(Adrift(d))
        BY <3>1, <4>1, <4>4, <3>4, CountGain
      <4>6. Cardinality(OpenJobs(d)') + Cardinality(Adrift(d)') <= Allowed'
        BY <3>4, <4>3, <4>5, <1>c
      <4> QED  BY <4>3, <4>5, <4>6 DEF Counted
    <3> QED  BY <3>5, <3>6, <3>7
  <2> QED  BY <2>6, <1>b DEF SpreadInv
<1>10. CASE \E c \in Docs : Publish(c)
  <2> PICK c \in Docs : Publish(c)  BY <1>10
  <2>1. PICK q \in Partitions : q = KeyPartition[c]  OBVIOUS
  <2>2. /\ UNCHANGED <<committed, owner, job, src, pc>> /\ upload[c] = "stored"
        /\ FirstJob(c) \in Jobs /\ FirstJob(c).doc = c
    BY FirstJobType DEF Publish, FirstJob
  <2>3. \A p \in Partitions : p # q => log'[p] = log[p]
    BY <2>1, <1>a DEF Publish, TypeOK
  <2>4. \/ log'[q] = Append(log[q], FirstJob(c))
        \/ /\ log'[q] = Append(Append(log[q], FirstJob(c)), FirstJob(c))
           /\ Allowed' >= Allowed + 1
    <3>1. Fault("dup") => Allowed' >= Allowed + 1
      <4> SUFFICES ASSUME Fault("dup") PROVE Allowed' >= Allowed + 1
          OBVIOUS
      <4>1. faults'["dup"] = faults["dup"] + 1
        BY <1>a, FaultNames DEF Fault, TypeOK
      <4> QED  BY <4>1, AllowedGrows
    <3> QED  BY <3>1, <2>1, <1>a DEF Publish, TypeOK
  <2>5. PICK k \in Nat : k = Len(log[q]) + 1  BY <1>d
  <2>6. /\ \A i \in 1 .. Len(log'[q]) :
             \/ i \in 1 .. Len(log[q]) /\ log'[q][i] = log[q][i]
             \/ i = k /\ log'[q][i].doc = c
             \/ i = k + 1 /\ log'[q][i].doc = c /\ Allowed' >= Allowed + 1
    <3>1. Append(log[q], FirstJob(c)) \in Seq(Jobs)  BY <2>2, <1>d
    <3>2. CASE log'[q] = Append(log[q], FirstJob(c))  BY <3>2, <2>2, <2>5, <1>d
    <3>3. CASE log'[q] = Append(Append(log[q], FirstJob(c)), FirstJob(c))
               /\ Allowed' >= Allowed + 1
      BY <3>1, <3>3, <2>2, <2>5, <1>d
    <3> QED  BY <2>4, <3>2, <3>3
  <2>7. \A d : Adrift(d)' = Adrift(d)  BY <2>2 DEF Adrift, Busy
  <2>8. ASSUME NEW d \in Docs, d # c PROVE Counted(d)'
    <3>1. ASSUME NEW y \in OpenJobs(d)' PROVE y \in OpenJobs(d)
      <4>1. PICK p \in Partitions, i \in Int : y = <<p, i>>  BY <3>1, OpenJobsAre
      <4>2. i \in 1 .. Len(log'[p]) /\ UnackedAt(p, i)' /\ log'[p][i].doc = d
        BY <3>1, <4>1, OpenJobsAre
      <4>3. i \in 1 .. Len(log[p]) /\ log'[p][i] = log[p][i]
        BY <4>2, <2>3, <2>6, <2>8
      <4>4. Live(p, i)  BY <4>2, <4>3, <2>2, <1>d DEF UnackedAt, Live
      <4>5. \A v \in Workers : HeldBy(v, p, i) => HeldBy(v, p, i)'
        BY <2>2 DEF HeldBy, Busy
      <4>6. UnackedAt(p, i)  BY <4>2, <4>4, <4>5, <2>2 DEF UnackedAt
      <4> QED  BY <4>1, <4>2, <4>3, <4>6, OpenJobsAre
    <3> QED  BY <3>1, <2>7, <1>c, CountedStays DEF SpreadInv
  <2>9. Counted(c)'
    <3>1. /\ \A p \in Partitions : \A i \in 1 .. Len(log[p]) : log[p][i].doc # c
          /\ \A w \in Workers : Busy(w) => job[w].doc # c
      BY <2>2, <1>b DEF JobsAreUploaded
    <3>2. Adrift(c) = {} /\ Adrift(c)' = {}
      <4>1. Adrift(c) = {}  BY <3>1 DEF Adrift
      <4> QED  BY <4>1, <2>7
    <3>3. ASSUME NEW y \in OpenJobs(c)'
          PROVE  \/ y = <<q, k>>
                 \/ y = <<q, k + 1>> /\ Allowed' >= Allowed + 1
      <4>1. PICK p \in Partitions, i \in Int : y = <<p, i>>  BY <3>3, OpenJobsAre
      <4>2. i \in 1 .. Len(log'[p]) /\ log'[p][i].doc = c
        BY <3>3, <4>1, OpenJobsAre
      <4>3. p = q  BY <4>2, <3>1, <2>3
      <4> QED  BY <4>1, <4>2, <4>3, <3>1, <2>6
    <3>4. IsFiniteSet(OpenJobs(c)') /\ Cardinality(OpenJobs(c)') <= Allowed'
      <4>1. Allowed >= 1
        <5>1. faults["crash"] \in Nat /\ faults["evict"] \in Nat /\ faults["dup"] \in Nat
          BY <1>a, FaultNames DEF TypeOK
        <5> QED  BY <5>1 DEF Allowed
      <4>2. IsFiniteSet({<<q, k>>}) /\ Cardinality({<<q, k>>}) = 1  BY FS_Singleton
      <4>3. CASE Allowed' >= Allowed + 1
        <5>1. PICK A, y : A = {<<q, k>>} /\ y = <<q, k + 1>>  OBVIOUS
        <5>2. OpenJobs(c)' \subseteq A \cup {y}  BY <3>3, <5>1
        <5>3. IsFiniteSet(A) /\ Cardinality(A) = 1  BY <4>2, <5>1
        <5>4. /\ IsFiniteSet(OpenJobs(c)') /\ Cardinality(OpenJobs(c)') \in Nat
              /\ Cardinality(OpenJobs(c)') <= Cardinality(A) + 1
          BY <5>2, <5>3, CountGain
        <5> QED  BY <5>3, <5>4, <4>1, <4>3, <1>c
      <4>4. CASE ~(Allowed' >= Allowed + 1)
        <5>1. OpenJobs(c)' \subseteq {<<q, k>>}  BY <3>3, <4>4
        <5>2. /\ IsFiniteSet(OpenJobs(c)') /\ Cardinality(OpenJobs(c)') \in Nat
              /\ Cardinality(OpenJobs(c)') <= 1
          BY <4>2, <5>1, FS_Subset, FS_CardinalityType
        <5> QED  BY <5>2, <4>1, <1>c
      <4> QED  BY <4>3, <4>4
    <3>5. IsFiniteSet(Adrift(c)') /\ Cardinality(Adrift(c)') = 0
      BY <3>2, FS_EmptySet
    <3>6. Cardinality(OpenJobs(c)') \in Nat  BY <3>4, FS_CardinalityType
    <3>7. Cardinality(OpenJobs(c)') + Cardinality(Adrift(c)') <= Allowed'
      BY <3>4, <3>5, <3>6
    <3> QED  BY <3>4, <3>5, <3>7 DEF Counted
  <2> QED  BY <2>8, <2>9, <1>b DEF SpreadInv
<1> QED
  BY <1>1, <1>2, <1>3, <1>4, <1>5, <1>6, <1>7, <1>8, <1>9, <1>10
  DEF Next, Gateway, Group, Working, Failing, Faulty

\* A document never has more jobs to do than one and one for each crash,
\* eviction or duplicated write (worker.py, run and fail; queue.go, Publish):
\* retries replace a job and do not add to them.
THEOREM RetriesDoNotMultiply == Spec => []JobsDoNotMultiply
<1>1. TypeInv /\ TypeInv' /\ DeliveryInv /\ SpreadInv /\ [Next]_vars => SpreadInv'
  BY StepSpread
<1>2. TypeInv /\ SpreadInv => JobsDoNotMultiply
  <2> SUFFICES ASSUME TypeInv, SpreadInv, NEW d \in Docs
               PROVE  Cardinality(OpenJobs(d)) <= Allowed
      BY DEF JobsDoNotMultiply, Allowed
  <2>1. /\ Cardinality(OpenJobs(d)) \in Nat /\ Cardinality(Adrift(d)) \in Nat
        /\ Cardinality(OpenJobs(d)) + Cardinality(Adrift(d)) <= Allowed
    BY FS_CardinalityType DEF SpreadInv, Counted
  <2>2. Allowed \in Nat  BY FaultNames DEF TypeInv, TypeOK, Allowed
  <2> QED  BY <2>1, <2>2
<1> QED  BY <1>1, <1>2, InitSpread, DeliveryInvariant, PTL DEF Spec
=============================================================================
