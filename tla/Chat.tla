-------------------------------- MODULE Chat --------------------------------
(***************************************************************************)
(* The query path: chatStream (internal/api/server.go) and Answer          *)
(* (internal/chat/chat.go) with the answer cache (internal/cache/cache.go) *)
(* and the tables it reads and writes (internal/store/store.go), run by    *)
(* any number of concurrent requests over a corpus that changes under      *)
(* them. The corpus is the abstract Corpus, which Ingest implements.       *)
(*                                                                         *)
(* Every call Answer makes to Redis, Postgres or the models is one step.   *)
(* A question stands for its normalised form (normalizeQuestion), the only *)
(* one that keys use; of an answer it matters what its prompt held: the    *)
(* corpus and the history that its request had read.                       *)
(***************************************************************************)
EXTENDS Corpus, Integers, Sequences, FiniteSets

CONSTANTS
  Requests,      \* requests; each is one call of POST /v1/chat
  Convs, NoConv, \* conversation ids, and uuid.Nil
  Questions,     \* questions up to normalizeQuestion
  NChunks,       \* [Docs -> Nat \ {0}]: chunks of an ingested document
  HistoryTurns,  \* HistoryTurns of the configuration
  TxTime,        \* longest ingest transaction in seconds
  Asks,          \* TLC: the requests that clients make
  MaxGone,       \* TLC: clients that leave
  MaxGen,        \* TLC: ingests of one document
  MaxClock,      \* TLC: the last second
  MaxFaults      \* TLC: failing calls

\* What a client asks for: chatRequest.
Request == [conv : Convs \cup {NoConv}, q : Questions, noCache : BOOLEAN]

ASSUME ChatAssumption ==
  /\ NChunks \in [Docs -> Nat \ {0}]
  /\ HistoryTurns \in Nat /\ TxTime \in Nat
  /\ NoConv \notin Convs
  /\ Asks \subseteq Request
  /\ MaxGone \in Nat /\ MaxGen \in Nat /\ MaxClock \in Nat /\ MaxFaults \in Nat

VARIABLES
  stamp,      \* stamp[d]: documents.ingested_at in seconds, 0 for NULL
  chunks,     \* rows of the chunks table
  clock,      \* the second
  cache,      \* entries "ans:*" in Redis: [q, version, by]
  convs,      \* rows of conversations
  messages,   \* messages[c]: rows of messages, oldest first
  logged,     \* requests with a row in query_logs
  pc, req,    \* per request: control, and what the client asked for
  hist,       \* the history it has read
  version,    \* the corpus version it has read
  seen,       \* the corpus when it read the version
  ground,     \* the corpus its answer is grounded in
  served,     \* on a hit: the request that had cached the answer
  outcome, gone, blame,  \* how it ended; client left; calls that failed
  prior,      \* requests that had ended in an answer in its conversation
  faults

corpusState == <<index, ready, stamp, chunks, clock>>
convState   == <<convs, messages>>
faultState  == <<blame, faults>>
reqState    == <<req, hist, version, seen, ground, served, outcome>>
vars == <<corpusState, cache, convState, logged, pc, reqState, gone, prior,
          faultState>>

PC == {"idle", "admit", "history", "version", "lookup", "retrieve", "generate",
       "put", "user", "assistant", "log", "done"}
Outcomes == {"none", "limited", "hit", "refused", "answered", "error"}
Services == {"redis", "db", "embed", "llm"}

Message == [role : {"user", "assistant"}, by : Requests]
Version == [known : BOOLEAN, docs : Nat, chunks : Nat, last : Nat]
NoVersion == [known |-> FALSE, docs |-> 0, chunks |-> 0, last |-> 0]
Entry == [q : Questions, version : Version, by : Requests]

\* The documents with chunks in the corpus i.
Indexed(i) == {d \in Docs : i[d] > 0}

TypeOK ==
  /\ CorpusTypeOK
  /\ stamp \in [Docs -> Nat] /\ chunks \in Nat /\ clock \in Nat
  /\ cache \subseteq Entry
  /\ convs \subseteq Convs
  /\ messages \in [Convs -> Seq(Message)]
  /\ logged \subseteq Requests
  /\ pc \in [Requests -> PC]
  /\ \A r \in Requests : pc[r] # "idle" => req[r] \in Request
  /\ hist \in [Requests -> Seq(Message)]
  /\ version \in [Requests -> Version]
  /\ seen \in [Requests -> [Docs -> Nat]]
  /\ ground \in [Requests -> [Docs -> Nat]]
  /\ served \in [Requests -> Requests]
  /\ outcome \in [Requests -> Outcomes]
  /\ gone \in [Requests -> BOOLEAN]
  /\ blame \in [Requests -> SUBSET Services]
  /\ prior \in [Requests -> SUBSET Requests]
  /\ faults \in Nat

Init ==
  /\ CorpusInit
  /\ stamp = [d \in Docs |-> 0] /\ chunks = 0 /\ clock = 1
  /\ cache = {}
  /\ convs = {}
  /\ messages = [c \in Convs |-> <<>>]
  /\ logged = {}
  /\ pc = [r \in Requests |-> "idle"]
  /\ req = [r \in Requests |-> [conv |-> NoConv]]
  /\ hist = [r \in Requests |-> <<>>]
  /\ version = [r \in Requests |-> NoVersion]
  /\ seen = [r \in Requests |-> index]
  /\ ground = [r \in Requests |-> index]
  /\ served = [r \in Requests |-> r]
  /\ outcome = [r \in Requests |-> "none"]
  /\ gone = [r \in Requests |-> FALSE]
  /\ blame = [r \in Requests |-> {}]
  /\ prior = [r \in Requests |-> {}]
  /\ faults = 0

-----------------------------------------------------------------------------
(***************************************************************************)
(* The world around the requests.                                          *)
(***************************************************************************)

\* An ingest transaction of d commits. Its ingested_at is now(), the time the
\* transaction began; it replaces the old chunks by as many new ones.
IngestCommits(d) ==
  /\ index[d] < MaxGen
  /\ index' = [index EXCEPT ![d] = @ + 1] /\ Replace(d)
  /\ \E t \in 1 .. clock : clock - t <= TxTime /\ stamp' = [stamp EXCEPT ![d] = t]
  /\ chunks' = IF index[d] = 0 THEN chunks + NChunks[d] ELSE chunks
  /\ UNCHANGED <<clock, cache, convState, logged, pc, reqState, gone, prior,
                 faultState>>

\* A worker starts on d again or fails on it: the status is no longer "ready".
Reopen(d) ==
  /\ Unready(d)
  /\ UNCHANGED <<stamp, chunks, clock, cache, convState, logged, pc, reqState,
                 gone, prior, faultState>>

Tick ==
  /\ clock < MaxClock
  /\ clock' = clock + 1
  /\ UNCHANGED <<index, ready, stamp, chunks, cache, convState, logged, pc,
                 reqState, gone, prior, faultState>>

\* An entry reaches its TTL, or InvalidateAnswers deletes it.
Expire(e) ==
  /\ cache' = cache \ {e}
  /\ UNCHANGED <<corpusState, convState, logged, pc, reqState, gone, prior,
                 faultState>>

\* The client hangs up: the request's context is cancelled.
Disconnect(r) ==
  /\ pc[r] \notin {"idle", "done"} /\ ~gone[r]
  /\ Cardinality({x \in Requests : gone[x]}) < MaxGone
  /\ gone' = [gone EXCEPT ![r] = TRUE]
  /\ UNCHANGED <<corpusState, cache, convState, logged, pc, reqState, prior,
                 faultState>>

-----------------------------------------------------------------------------
(***************************************************************************)
(* One request. A call made with the request's context fails once the      *)
(* client is gone, and may fail before because the service does.           *)
(***************************************************************************)

Fault(r, s) ==
  /\ faults < MaxFaults
  /\ faults' = faults + 1
  /\ blame' = [blame EXCEPT ![r] = @ \cup {s}]

Works(r) == ~gone[r] /\ UNCHANGED faultState
Fails(r, s) == \/ gone[r] /\ UNCHANGED faultState
               \/ ~gone[r] /\ Fault(r, s)

GoTo(r, l) == pc' = [pc EXCEPT ![r] = l]
End(r, o) == GoTo(r, "done") /\ outcome' = [outcome EXCEPT ![r] = o]

\* The requests that have ended in an answer in conversation c.
Answers(c) ==
  {r \in Requests : /\ c # NoConv /\ req[r].conv = c /\ pc[r] = "done"
                    /\ outcome[r] \in {"hit", "answered"}}

\* EnsureConversation: its failure is only logged.
EnsureSkipped(r, c) == UNCHANGED <<convs, faultState>>        \* mutant
EnsureUnguarded(r, c) == Works(r) /\ convs' = convs \cup {c}  \* mutant
EnsureConversation(r, c) ==
  \/ c = NoConv /\ UNCHANGED <<convs, faultState>>
  \/ c # NoConv /\ Works(r) /\ convs' = convs \cup {c}
  \/ c # NoConv /\ Fails(r, "db") /\ UNCHANGED convs

\* chatStream up to the call of Answer.
Start(r) ==
  /\ pc[r] = "idle"
  /\ \E a \in Asks :
       /\ req' = [req EXCEPT ![r] = a]
       /\ prior' = [prior EXCEPT ![r] = Answers(a.conv)]
       /\ EnsureConversation(r, a.conv)
  /\ GoTo(r, "admit")
  /\ UNCHANGED <<corpusState, cache, messages, logged, hist, version, seen,
                 ground, served, outcome, gone>>

\* checkRateLimit: the bucket (RateLimiter) says yes or no; an unreachable
\* Redis lets the request pass.
AdmitStrict(r) ==  \* mutant of Admit: the limiter fails closed
  /\ pc[r] = "admit"
  /\ \/ Works(r) /\ GoTo(r, "history") /\ UNCHANGED outcome
     \/ Works(r) /\ End(r, "limited")
     \/ Fails(r, "redis") /\ End(r, "error")
  /\ UNCHANGED <<corpusState, cache, convState, logged, req, hist, version,
                 seen, ground, served, gone, prior>>
Admit(r) ==
  /\ pc[r] = "admit"
  /\ \/ Works(r) /\ GoTo(r, "history") /\ UNCHANGED outcome
     \/ Works(r) /\ End(r, "limited")
     \/ Fails(r, "redis") /\ GoTo(r, "history") /\ UNCHANGED outcome
  /\ UNCHANGED <<corpusState, cache, convState, logged, req, hist, version,
                 seen, ground, served, gone, prior>>

\* History: the last n messages of the conversation, oldest first.
History(c, n) ==
  LET m == messages[c]
      from == IF Len(m) > n THEN Len(m) - n + 1 ELSE 1
  IN  SubSeq(m, from, Len(m))

\* Answer: the history, empty if it cannot be read.
ReadHistory(r) ==
  LET c == req[r].conv IN
  /\ pc[r] = "history"
  /\ \/ c = NoConv /\ UNCHANGED <<hist, faultState>>
     \/ /\ c # NoConv /\ Works(r)
        /\ hist' = [hist EXCEPT ![r] = History(c, 2 * HistoryTurns)]
     \/ c # NoConv /\ Fails(r, "db") /\ UNCHANGED hist
  /\ GoTo(r, "version")
  /\ UNCHANGED <<corpusState, cache, convState, logged, req, version, seen,
                 ground, served, outcome, gone, prior>>

LastIngest == CHOOSE t \in {0} \cup {stamp[d] : d \in Docs} :
                \A d \in Docs : stamp[d] <= t

\* corpusVersion: "d%d-c%d-%d" of CorpusStats, one statement; if it fails, a
\* value that only depends on the second.
FingerprintWithoutChunks ==  \* mutant of Fingerprint: "d%d-%d"
  [known |-> TRUE, docs |-> Cardinality(ready), chunks |-> 0, last |-> LastIngest]
Fingerprint ==
  [known |-> TRUE, docs |-> Cardinality(ready), chunks |-> chunks, last |-> LastIngest]
Unknown == [known |-> FALSE, docs |-> 0, chunks |-> 0, last |-> clock]

ReadVersion(r) ==
  /\ pc[r] = "version"
  /\ \/ Works(r) /\ version' = [version EXCEPT ![r] = Fingerprint]
     \/ Fails(r, "db") /\ version' = [version EXCEPT ![r] = Unknown]
  /\ seen' = [seen EXCEPT ![r] = index]
  /\ GoTo(r, "lookup")
  /\ UNCHANGED <<corpusState, cache, convState, logged, req, hist, ground,
                 served, outcome, gone, prior>>

\* Answer: an answer that depends on prior turns is not cached.
CacheableAlways(r) == ~req[r].noCache  \* mutant of Cacheable
Cacheable(r) == hist[r] = <<>> /\ ~req[r].noCache

\* AnswerKey
HasKey(e, r) == e.q = req[r].q /\ e.version = version[r]

\* GetAnswer: a hit ends the request after its log row; a miss or an error
\* goes on.
Lookup(r) ==
  /\ pc[r] = "lookup"
  /\ \/ /\ ~Cacheable(r)
        /\ GoTo(r, "retrieve")
        /\ UNCHANGED <<served, outcome, faultState>>
     \/ /\ Cacheable(r) /\ Works(r)
        /\ \E e \in cache : HasKey(e, r) /\ served' = [served EXCEPT ![r] = e.by]
        /\ outcome' = [outcome EXCEPT ![r] = "hit"]
        /\ GoTo(r, "log")
     \/ /\ Cacheable(r) /\ Works(r)
        /\ \A e \in cache : ~HasKey(e, r)
        /\ GoTo(r, "retrieve")
        /\ UNCHANGED <<served, outcome>>
     \/ /\ Cacheable(r) /\ Fails(r, "redis")
        /\ GoTo(r, "retrieve")
        /\ UNCHANGED <<served, outcome>>
  /\ UNCHANGED <<corpusState, cache, convState, logged, req, hist, version,
                 seen, ground, gone, prior>>

\* embedQuestion and HybridSearch. Without an embedding KeywordSearch, which
\* may match nothing, takes its place; a failing search ends the request. No
\* candidates: the refusal.
Retrieve(r) ==
  /\ pc[r] = "retrieve"
  /\ \/ /\ Fails(r, "db") /\ End(r, "error") /\ UNCHANGED ground
     \/ /\ ~gone[r]
        /\ ground' = [ground EXCEPT ![r] = index]
        /\ \/ /\ Indexed(index) # {}
              /\ UNCHANGED faultState \/ Fault(r, "embed")
              /\ GoTo(r, "generate")
              /\ UNCHANGED outcome
           \/ /\ IF Indexed(index) = {} THEN UNCHANGED faultState
                                        ELSE Fault(r, "embed")
              /\ outcome' = [outcome EXCEPT ![r] = "refused"]
              /\ GoTo(r, "log")
  /\ UNCHANGED <<corpusState, cache, convState, logged, req, hist, version,
                 seen, served, gone, prior>>

\* Rerank (which falls back to the fused order), the "sources" event and
\* Stream. An error, a client that is gone included, ends the request.
Generate(r) ==
  /\ pc[r] = "generate"
  /\ \/ /\ Works(r)
        /\ outcome' = [outcome EXCEPT ![r] = "answered"]
        /\ GoTo(r, "put")
     \/ Fails(r, "llm") /\ End(r, "error")
  /\ UNCHANGED <<corpusState, cache, convState, logged, req, hist, version,
                 seen, ground, served, gone, prior>>

\* PutAnswer, whose failure is only logged.
Put(r) ==
  /\ pc[r] = "put"
  /\ \/ ~Cacheable(r) /\ UNCHANGED <<cache, faultState>>
     \/ /\ Cacheable(r) /\ Works(r)
        /\ cache' = {e \in cache : ~HasKey(e, r)}
                      \cup {[q |-> req[r].q, version |-> version[r], by |-> r]}
     \/ Cacheable(r) /\ Fails(r, "redis") /\ UNCHANGED cache
  /\ GoTo(r, "user")
  /\ UNCHANGED <<corpusState, convState, logged, reqState, gone, prior>>

\* AppendMessage: refused by the foreign key if the conversation has no row.
\* Answer ignores its errors.
AppendMessage(r, role) ==
  LET c == req[r].conv IN
  \/ /\ c \in convs /\ Works(r)
     /\ messages' = [messages EXCEPT ![c] = Append(@, [role |-> role, by |-> r])]
  \/ c \notin convs /\ UNCHANGED <<messages, faultState>>
  \/ c \in convs /\ Fails(r, "db") /\ UNCHANGED messages

AppendUser(r) ==
  /\ pc[r] = "user"
  /\ AppendMessage(r, "user")
  /\ GoTo(r, "assistant")
  /\ UNCHANGED <<corpusState, cache, convs, logged, reqState, gone, prior>>

AppendAssistant(r) ==
  /\ pc[r] = "assistant"
  /\ AppendMessage(r, "assistant")
  /\ GoTo(r, "log")
  /\ UNCHANGED <<corpusState, cache, convs, logged, reqState, gone, prior>>

\* The id columns of query_logs are NOT NULL, and a nil slice is a NULL.
NullIds(r) == outcome[r] = "refused"

\* logQuery runs on a context of its own, which no disconnect cancels.
LogContextOfRequest(r) == ~gone[r]  \* mutant of LogContext
LogContext(r) == TRUE

LogQuery(r) ==
  /\ pc[r] = "log"
  /\ \/ /\ LogContext(r) /\ ~NullIds(r)
        /\ logged' = logged \cup {r}
        /\ UNCHANGED faultState
     \/ /\ ~LogContext(r) \/ NullIds(r)
        /\ UNCHANGED <<logged, faultState>>
     \/ /\ LogContext(r) /\ ~NullIds(r)
        /\ Fault(r, "db")
        /\ UNCHANGED logged
  /\ GoTo(r, "done")
  /\ UNCHANGED <<corpusState, cache, convState, reqState, gone, prior>>

-----------------------------------------------------------------------------
Environment ==
  \/ \E d \in Docs : IngestCommits(d) \/ Reopen(d)
  \/ \E e \in cache : Expire(e)
  \/ Tick

Answer(r) ==
  \/ Start(r) \/ Admit(r) \/ ReadHistory(r) \/ ReadVersion(r) \/ Lookup(r)
  \/ Retrieve(r) \/ Generate(r) \/ Put(r) \/ AppendUser(r) \/ AppendAssistant(r)
  \/ LogQuery(r)

Next == Environment \/ \E r \in Requests : Answer(r) \/ Disconnect(r)

Spec == Init /\ [][Next]_vars

-----------------------------------------------------------------------------
(***************************************************************************)
(* Safety.                                                                 *)
(***************************************************************************)

\* A cached answer never hides a document from a client: it is grounded in
\* every document that was indexed when the client's request read the corpus
\* version, although the version was read before the search, the answer was
\* stored long after both, and stamps of one second coincide. (Requests that
\* could not read the version are another matter: see UnknownNeverHits.)
NewDocumentsSeen ==
  \A r \in Requests : outcome[r] = "hit" /\ version[r].known =>
    Indexed(seen[r]) \subseteq Indexed(ground[served[r]])

\* No call on the database has failed in r, and its client stayed.
Clean(r) == req[r].conv # NoConv /\ ~gone[r] /\ "db" \notin blame[r]
Generated(r) == outcome[r] = "answered" /\ Clean(r)

\* A follow-up of an answer that was generated is not cached for others, although
\* whether a request depends on prior turns is only judged by the messages that
\* the earlier request has left and this one could read ("An answer that depended
\* on prior turns ... must never be served to a different conversation", chat.go).
\* A follow-up of a hit is: see FollowUpNotShared.
FollowUpStaysPrivate ==
  HistoryTurns > 0 =>
    \A e \in cache : "db" \notin blame[e.by] => \A x \in prior[e.by] : ~Generated(x)

\* What others can see of a request once it is over, an answer to its client or
\* in the cache or a message of a conversation, has its row in query_logs, unless
\* Postgres failed: a client that leaves while its answer is stored does not
\* cost the row (logQuery: "must not ride on the request's context").
Visible(r) ==
  \/ outcome[r] \in {"hit", "answered"}
  \/ \E e \in cache : e.by = r
  \/ \E c \in Convs : \E i \in 1 .. Len(messages[c]) : messages[c][i].by = r
VisibleIsLogged ==
  \A r \in Requests :
    pc[r] = "done" /\ "db" \notin blame[r] /\ Visible(r) => r \in logged

\* A request only ends in an error when the database or the model failed or
\* the client left: losing Redis or the embedding API degrades the answer and
\* nothing else ("a worse answer beats a 500").
DegradesNotFails ==
  \A r \in Requests : outcome[r] = "error" =>
    gone[r] \/ blame[r] \cap {"db", "llm"} # {}

\* A generated answer that no failure touched is in its conversation, after
\* the question it answers, whatever other requests of the conversation do.
TurnIsRecorded ==
  \A r \in Requests :
    /\ pc[r] = "done" /\ outcome[r] = "answered" /\ req[r].conv # NoConv
    /\ ~gone[r] /\ "db" \notin blame[r]
    => LET m == messages[req[r].conv] IN
       \E i, j \in 1 .. Len(m) :
         /\ i < j
         /\ m[i] = [role |-> "user", by |-> r]
         /\ m[j] = [role |-> "assistant", by |-> r]

-----------------------------------------------------------------------------
(***************************************************************************)
(* What the repository says and the code does not do.                      *)
(***************************************************************************)

\* cache.go on AnswerKey: "ingesting a document must invalidate every cached
\* answer": a hit is grounded in the corpus whose version was read.
IngestInvalidates ==
  \A r \in Requests : outcome[r] = "hit" /\ version[r].known =>
    \A d \in Docs : ground[served[r]][d] >= seen[r][d]

\* chat.go on corpusVersion: "Unknown corpus state means 'do not reuse an
\* answer'".
UnknownNeverHits ==
  \A r \in Requests : outcome[r] = "hit" => version[r].known

\* cache.go on AnswerKey: "an answer that depended on conversation history is
\* not cached at all", because a follow-up means something else in every
\* conversation: the answer to a follow-up question is not there to be served.
FollowUpNotShared == \A e \in cache : prior[e.by] = {}

\* chat.go on logQuery: "a client that disconnects mid-answer is exactly the
\* request worth recording": once retrieval has found sources for it.
DisconnectIsLogged ==
  \A r \in Requests :
    /\ pc[r] = "done" /\ gone[r] /\ "db" \notin blame[r]
    /\ Indexed(ground[r]) # {}
    => r \in logged

\* README.md: "Every query records latency broken down by stage": so does one
\* that is refused because nothing was found.
RefusalIsLogged ==
  \A r \in Requests :
    pc[r] = "done" /\ outcome[r] = "refused" /\ "db" \notin blame[r] => r \in logged
=============================================================================
