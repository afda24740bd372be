----------------------------- MODULE ModelCalls -----------------------------
(***************************************************************************)
(* One use of the model API by each of the four clients that have a retry  *)
(* loop of their own:                                                      *)
(*   "stream"    Stream and openStream, an answer (internal/llm/gemini.go) *)
(*   "generate"  Generate and doWithRetry, scores     (internal/llm)       *)
(*   "embed"     embedQuestion (internal/chat/chat.go) with its cache, and *)
(*               Embed and post               (internal/embed/embed.go)    *)
(*   "batch"     embed_documents, _batch and _post, the chunks of a        *)
(*               document (workers/ingest/embedding.py, worker.py)         *)
(*                                                                         *)
(* Time is in ticks since the call began. The timeout of an http.Client    *)
(* bounds an exchange and every read of its body. Two things no timer of   *)
(* the code bounds: onEvent, which writes to the gateway's client before   *)
(* the next read ("a slow consumer applies backpressure") on a connection  *)
(* without a WriteTimeout, and an exchange of the worker, whose timeout is *)
(* one per socket operation. They take a time out of Holds, which held     *)
(* adds up. A text and what the model makes of it, a vector or a score     *)
(* list, are both named by the text's place. A token is named by the       *)
(* exchange it came from and its place there.                              *)
(***************************************************************************)
EXTENDS Integers, Sequences, FiniteSets, SequencesExt

CONSTANTS
  MaxRetries,    \* maxRetries of llm.Client and embed.Client
  RetryBudget,   \* retryBudget of llm.Client, in ticks
  Timeout,       \* http.Client.Timeout, in ticks
  MaxWait,       \* the gateway's longest pause between attempts, in ticks
  MaxTokens,     \* TLC: tokens of an answer
  Chunks,        \* chunks of the worker's document
  BatchSize,     \* batch_size
  WorkerTries,   \* max_retries of Embedder
  WorkerWait,    \* its longest pause between attempts, in ticks
  RetryDelays,   \* values of google.rpc.RetryInfo in a 429, 0 when it has none
  DelayCap,      \* the longest such delay it honours, in ticks
  Holds,         \* what a write to the client or a worker's exchange may take
  PollInterval   \* max_poll_interval_ms, in ticks

ASSUME CallAssumption ==
  /\ {MaxRetries, RetryBudget, Timeout, MaxWait, MaxTokens} \subseteq Nat
  /\ {Chunks, BatchSize, WorkerTries} \subseteq Nat \ {0}
  /\ {WorkerWait, DelayCap, PollInterval} \subseteq Nat
  /\ RetryDelays \subseteq Nat /\ Holds \subseteq Nat

VARIABLES
  client,
  pc,
  now,       \* ticks since the call began
  held,      \* those of them that passed in steps that no timer bounds
  attempt,   \* attempt
  begun,     \* when the exchange that is under way began
  shown,     \* "stream": tokens handed to onEvent
  start,     \* texts before the current batch
  out,       \* what the texts before start have become
  stored,    \* "embed": what Redis has under the question's key
  gone,      \* the request's context is cancelled
  outcome    \* "none" until the call returns

vars == <<client, pc, now, held, attempt, begun, shown, start, out, stored, gone, outcome>>
clock == <<now, held>>
batchState == <<start, out>>

Clients == {"stream", "generate", "embed", "batch"}
Texts == IF client = "batch" THEN Chunks ELSE 1
Tries == IF client = "batch" THEN WorkerTries ELSE MaxRetries + 1

TypeOK ==
  /\ client \in Clients
  /\ pc \in {"lookup", "exchange", "check", "wait", "body", "emit", "store",
            "done"}
  /\ now \in Nat /\ held \in Nat /\ attempt \in 0 .. Tries - 1 /\ begun \in Nat
  /\ shown \in Seq((0 .. MaxRetries) \X Nat)
  /\ start \in 0 .. Texts /\ out \in Seq(0 .. Texts)
  /\ stored \in {"nothing", "vector", "other"}
  /\ gone \in BOOLEAN
  /\ outcome \in {"none", "ok", "error"}

Init ==
  /\ client \in Clients
  /\ pc = IF client = "embed" THEN "lookup" ELSE "exchange"
  /\ now = 0 /\ held = 0 /\ attempt = 0 /\ begun = 0
  /\ shown = <<>> /\ start = 0 /\ out = <<>>
  /\ stored \in IF client = "embed" THEN {"nothing", "vector", "other"} ELSE {"nothing"}
  /\ gone = FALSE /\ outcome = "none"

Return(o) == pc' = "done" /\ outcome' = o

Least(a, b) == IF a < b THEN a ELSE b

\* A step that is held up for h ticks.
Held(h) == now' = now + h /\ held' = held + h

\* Time that passes while an exchange is under way.
Elapses ==
  IF client = "batch" THEN \E h \in Holds : Held(h)
                      ELSE now' \in now .. begun + Timeout /\ UNCHANGED held

-----------------------------------------------------------------------------
(***************************************************************************)
(* The retry loop.                                                         *)
(***************************************************************************)

\* continue: the next attempt, if there is one.
NextAttemptHigh ==  \* mutant of NextAttempt: one attempt too many
  IF attempt < Tries
    THEN attempt' = attempt + 1 /\ pc' = "check" /\ UNCHANGED outcome
    ELSE attempt' = attempt /\ Return("error")
NextAttempt ==
  IF attempt + 1 < Tries
    THEN attempt' = attempt + 1 /\ pc' = "check" /\ UNCHANGED outcome
    ELSE attempt' = attempt /\ Return("error")

\* 429 or 5xx: the worker first sleeps as long as the peer asks, at most a
\* minute, even after its last attempt.
Delay(d) == Least(d, DelayCap)

\* The exchange fails in a way that may pass: a transport error (a cancelled
\* context is one, at once), a timeout, a body that cannot be read, 429, 5xx.
Transient ==
  /\ pc = "exchange"
  /\ \/ gone /\ UNCHANGED clock
     \/ ~gone /\ Elapses
     \/ /\ client = "batch"
        /\ \E h \in Holds, d \in RetryDelays :
             now' = now + h + Delay(d) /\ held' = held + h
  /\ NextAttempt
  /\ UNCHANGED <<client, begun, shown, batchState, stored, gone>>

\* Any other status.
Permanent ==
  /\ pc = "exchange" /\ ~gone
  /\ Elapses
  /\ Return("error")
  /\ UNCHANGED <<client, attempt, begun, shown, batchState, stored, gone>>

\* time.Now().After(deadline), before the pause: only llm.Client has a deadline.
NeverExhausted == FALSE  \* mutant of Exhausted: no budget
Exhausted == client \in {"stream", "generate"} /\ now > RetryBudget

CheckBudget ==
  /\ pc = "check"
  /\ IF Exhausted THEN Return("error") ELSE pc' = "wait" /\ UNCHANGED outcome
  /\ UNCHANGED <<client, clock, attempt, begun, shown, batchState, stored, gone>>

\* 2^attempt seconds, at most 15 in the gateway and 20 in the worker.
Backoff(a) == Least(2^a, IF client = "batch" THEN WorkerWait ELSE MaxWait)

\* The pause is over, or the context is done.
PauseAgain ==  \* mutant of Pause: a cancelled pause is started again
  /\ pc = "wait"
  /\ \/ /\ ~gone
        /\ now' = now + Backoff(attempt) /\ begun' = now'
        /\ pc' = "exchange" /\ UNCHANGED outcome
     \/ gone /\ pc' = "check" /\ UNCHANGED <<now, begun, outcome>>
  /\ UNCHANGED <<client, held, attempt, shown, batchState, stored, gone>>
Pause ==
  /\ pc = "wait"
  /\ \/ /\ ~gone
        /\ now' = now + Backoff(attempt) /\ begun' = now'
        /\ pc' = "exchange" /\ UNCHANGED outcome
     \/ gone /\ Return("error") /\ UNCHANGED <<now, begun>>
  /\ UNCHANGED <<client, held, attempt, shown, batchState, stored, gone>>

-----------------------------------------------------------------------------
(***************************************************************************)
(* Status 200, with a body that is read as a whole.                        *)
(***************************************************************************)

\* texts[i : i + batch_size]
Batch == [k \in 1 .. Least(BatchSize, Texts - start) |-> start + k]

\* What a body holds: for a batch one vector per text, one too few or one too
\* many; for the others the value asked for, or none (no candidates, no vector,
\* not JSON).
Replies ==
  {Batch} \cup
  IF client = "batch"
    THEN {RemoveAt(Batch, k) : k \in DOMAIN Batch}
           \cup {InsertAt(Batch, k, Batch[k]) : k \in DOMAIN Batch}
    ELSE {<<>>}

\* len(embeddings) != len(texts), len(Candidates) == 0, len(Values) == 0
CompleteUnchecked(reply) == TRUE  \* mutant of Complete: any reply will do
Complete(reply) == Len(reply) = Len(Batch)

\* embedQuestion ignores the error of PutEmbedding.
PutEmbedding == stored' \in IF client = "embed" /\ ~gone THEN {stored, "vector"} ELSE {stored}

Answered ==
  /\ pc = "exchange" /\ client # "stream" /\ ~gone
  /\ Elapses
  /\ \E reply \in Replies :
       IF Complete(reply)
         THEN /\ out' = out \o reply
              /\ start' = start + Len(Batch)
              /\ attempt' = 0 /\ begun' = now'
              /\ PutEmbedding
              /\ IF client = "batch"
                   THEN pc' = (IF start' < Texts THEN "exchange" ELSE "store")
                          /\ UNCHANGED outcome
                   ELSE Return("ok")
         ELSE Return("error") /\ UNCHANGED <<attempt, begun, batchState, stored>>
  /\ UNCHANGED <<client, shown, gone>>

\* worker.py: len(vectors) != len(chunks), and the rows that zip pairs.
Store ==
  /\ pc = "store"
  /\ Return(IF Len(out) = Chunks THEN "ok" ELSE "error")
  /\ UNCHANGED <<client, clock, attempt, begun, shown, batchState, stored, gone>>

\* embedQuestion: GetEmbedding, which must have found a vector of the right
\* dimension; a miss, an error and anything else cost an exchange.
Usable == stored = "vector"

GetEmbedding ==
  /\ pc = "lookup"
  /\ \/ /\ Usable /\ ~gone
        /\ out' = IF stored = "vector" THEN <<1>> ELSE <<0>>
        /\ start' = 1
        /\ Return("ok")
     \/ pc' = "exchange" /\ UNCHANGED <<batchState, outcome>>
  /\ UNCHANGED <<client, clock, attempt, begun, shown, stored, gone>>

-----------------------------------------------------------------------------
(***************************************************************************)
(* Stream, once the response is open.                                      *)
(***************************************************************************)

\* http.Do: status 200.
Opened ==
  /\ pc = "exchange" /\ client = "stream" /\ ~gone
  /\ Elapses
  /\ pc' = "body"
  /\ UNCHANGED <<client, attempt, begun, shown, batchState, stored, gone, outcome>>

\* Time that passes in a read of the body: the timeout ends it, a read that begins
\* later finds what is buffered or fails at once.
Reads ==
  /\ now' \in now .. (IF now > begun + Timeout THEN now ELSE begun + Timeout)
  /\ UNCHANGED held

\* The next token is read, and onEvent begins to write it to the client.
Token ==
  /\ pc = "body" /\ ~gone /\ Len(shown) < MaxTokens
  /\ Reads
  /\ LET sofar == {i \in DOMAIN shown : shown[i][1] = attempt}
     IN  shown' = Append(shown, <<attempt, Cardinality(sofar)>>)
  /\ pc' = "emit"
  /\ UNCHANGED <<client, attempt, begun, batchState, stored, gone, outcome>>

\* onEvent returns, as late as the client reads; an error ends the stream.
Emitted ==
  /\ pc = "emit"
  /\ \E h \in Holds : Held(h)
  /\ \/ pc' = "body" /\ UNCHANGED outcome
     \/ Return("error")
  /\ UNCHANGED <<client, attempt, begun, shown, batchState, stored, gone>>

\* [DONE] or the end of the body, which may have been buffered before a hangup
\* or before the timeout.
EndOfStream ==
  /\ pc = "body"
  /\ Reads
  /\ Return("ok")
  /\ UNCHANGED <<client, attempt, begun, shown, batchState, stored, gone>>

\* The body cannot be read to its end (reset, timeout), or onEvent refuses a
\* token because the client is gone.
BrokenRetried ==  \* mutant of Broken: the request is sent again
  /\ pc = "body"
  /\ Reads
  /\ NextAttempt
  /\ UNCHANGED <<client, begun, shown, batchState, stored, gone>>
Broken ==
  /\ pc = "body"
  /\ Reads
  /\ Return("error")
  /\ UNCHANGED <<client, attempt, begun, shown, batchState, stored, gone>>

\* The gateway's client hangs up; a worker has no context.
Hangup ==
  /\ pc # "done" /\ client # "batch" /\ ~gone
  /\ gone' = TRUE
  /\ UNCHANGED <<client, pc, clock, attempt, begun, shown, batchState, stored, outcome>>

Proceed ==
  \/ Transient \/ Permanent \/ CheckBudget \/ Pause
  \/ Answered \/ Store \/ GetEmbedding
  \/ Opened \/ Token \/ Emitted \/ EndOfStream \/ Broken

Next == Proceed \/ Hangup

\* What no timer of the code ends: a client that stays and does not read, a peer
\* that feeds the worker a byte at a time.
Unbounded == pc = "emit" \/ (client = "batch" /\ pc = "exchange")

\* Everything else ends by itself: an exchange and a read of the gateway by the
\* timeout, a pause by its timer.
Spec == Init /\ [][Next]_vars
FairSpec == Spec /\ WF_vars(~Unbounded /\ Proceed)

-----------------------------------------------------------------------------
\* "Once a token has been emitted the request is no longer safely repeatable"
\* (Stream): what the client has been shown comes from one exchange, in order
\* and without repetition, however often the stream had to be opened.
OneAnswerShown ==
  \A i \in DOMAIN shown : shown[i] = <<shown[1][1], i - 1>>

\* embedding.py: "Accepting a short response would misalign every vector with
\* its chunk." What a call returns belongs to the texts it was asked about, each
\* to its own: whatever was retried, whatever the replies held, and whatever the
\* embedding cache held under the question's key.
Aligned ==
  outcome = "ok" /\ client # "stream" =>
    /\ Len(out) = Texts
    /\ \A k \in 1 .. Texts : out[k] = k

\* How long a call can take although every attempt may be slow, but for the time
\* that its client or, for the worker, its peer holds it up. An answer or a
\* scoring: the budget, the pause that may start at its end and one last
\* exchange. A question's embedding has no budget: every attempt and every
\* pause, which is what a request can wait before it falls back to keyword
\* search. What the worker sleeps: each batch starts again from the first attempt.
Limit ==
  [stream   |-> RetryBudget + MaxWait + Timeout,
   generate |-> RetryBudget + MaxWait + Timeout,
   embed    |-> (MaxRetries + 1) * Timeout + MaxRetries * MaxWait,
   batch    |-> (start \div BatchSize + 1) * WorkerTries * (DelayCap + WorkerWait)]
OwnTimeIsBounded == now <= held + Limit[client]

\* Every call ends, unless one write to the client or one exchange of the worker
\* never does.
CallEnds == <>(pc = "done") \/ <>[]Unbounded

\* gemini.go on retryBudget: it "caps total time spent retrying one call, so a
\* quota outage fails the request instead of holding a connection open for
\* minutes": no attempt is started once the budget is spent.
RetriesWithinBudget ==
  pc = "exchange" /\ attempt > 0 /\ client \in {"stream", "generate"} => begun <= RetryBudget

\* worker.py on max_poll_interval_ms: "without a generous poll interval the
\* broker evicts the consumer mid-document and the work is repeated forever": a
\* document that is embedded in the end is embedded within the interval.
StaysInGroup == client = "batch" /\ outcome = "ok" => now <= PollInterval
=============================================================================
