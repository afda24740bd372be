-------------------------- MODULE ModelCallsProofs --------------------------
(***************************************************************************)
(* Proofs about the four clients of the model API, for every number of     *)
(* retries, every budget, timeout and pause, and documents of any size:    *)
(* the state is well typed, a client is shown one answer, vectors belong   *)
(* to their texts, and the time a call takes by itself is bounded.         *)
(***************************************************************************)
EXTENDS ModelCalls, FiniteSetTheorems, TLAPS

-----------------------------------------------------------------------------
(***************************************************************************)
(* The invariant.                                                          *)
(***************************************************************************)

\* Which client is where, and that a call has an outcome when it is done.
ControlInv ==
  /\ pc = "lookup" => client = "embed"
  /\ pc \in {"body", "emit"} => client = "stream"
  /\ pc = "store" => client = "batch"
  /\ outcome = "none" <=> pc # "done"
  /\ client # "batch" /\ pc # "done" => start = 0
  /\ pc \in {"check", "wait"} => attempt >= 1

\* Nothing has been shown before a response is open, and then only tokens of
\* the attempt that opened it.
ShownInv ==
  /\ pc \notin {"body", "emit", "done"} => shown = <<>>
  /\ pc \in {"body", "emit"} => \A i \in DOMAIN shown : shown[i] = <<attempt, i - 1>>
  /\ OneAnswerShown

\* The texts before start have their vectors, each its own, and a call that
\* returns them has reached the last one.
OutInv ==
  /\ Len(out) = start
  /\ \A k \in 1 .. start : out[k] = k
  /\ outcome = "ok" /\ client # "stream" => start = Texts

\* The time of the call that is its own.
Own == now - held

\* An answer or a scoring: the budget is looked at before each pause, and nothing
\* holds the call up before a response is open.
BudgetInv ==
  /\ pc \notin {"body", "emit", "done"} => held = 0
  /\ pc \in {"exchange", "body", "emit"} =>
       begun <= RetryBudget + MaxWait /\ now <= held + (begun + Timeout)
  /\ pc = "wait" => now <= RetryBudget

\* A question's embedding: each attempt so far has cost a timeout and a pause.
Attempt == Timeout + MaxWait
EmbedInv ==
  /\ held = 0
  /\ pc = "lookup" => now = 0 /\ begun = 0 /\ attempt = 0
  /\ pc = "exchange" => begun <= attempt * Attempt /\ now <= begun + Timeout
  /\ pc \in {"check", "wait"} => now <= (attempt - 1) * Attempt + Timeout

\* A document: the batches before this one have cost all their attempts at
\* most, and so have the attempts before this one.
Round == DelayCap + WorkerWait
Before(s) == (s \div BatchSize) * (WorkerTries * Round)
BatchInv ==
  /\ pc = "exchange" => Own <= Before(start) + attempt * Round
  /\ pc \in {"check", "wait"} => Own <= Before(start) + (attempt - 1) * Round + DelayCap

TimeInv ==
  /\ client \in {"stream", "generate"} => BudgetInv
  /\ client = "embed" => EmbedInv
  /\ client = "batch" => BatchInv
  /\ OwnTimeIsBounded

CallInv == TypeOK /\ ControlInv /\ ShownInv /\ OutInv /\ TimeInv

-----------------------------------------------------------------------------
(***************************************************************************)
(* The operators of the model.                                             *)
(***************************************************************************)

\* The constants, one by one.
LEMMA ConstantTypes ==
  /\ MaxRetries \in Nat /\ RetryBudget \in Nat /\ Timeout \in Nat /\ MaxWait \in Nat
  /\ MaxTokens \in Nat
  /\ Chunks \in Nat \ {0} /\ BatchSize \in Nat \ {0} /\ WorkerTries \in Nat \ {0}
  /\ WorkerWait \in Nat /\ DelayCap \in Nat /\ RetryDelays \subseteq Nat
  /\ Holds \subseteq Nat
BY CallAssumption

\* A power of two is a number: it counts the subsets of an interval.
LEMMA PowerOfTwo ==
  ASSUME NEW a \in Nat
  PROVE  2^a \in Nat
<1>1. IsFiniteSet(1 .. a) /\ Cardinality(1 .. a) = a
  BY FS_Interval
<1>2. IsFiniteSet(SUBSET (1 .. a)) /\ Cardinality(SUBSET (1 .. a)) = 2^a
  BY <1>1, FS_SUBSET
<1> QED
  BY <1>2, FS_CardinalityType

\* A pause is never longer than its client's longest.
LEMMA BackoffBound ==
  ASSUME NEW a \in Nat
  PROVE  /\ Backoff(a) \in Nat
         /\ Backoff(a) <= IF client = "batch" THEN WorkerWait ELSE MaxWait
BY PowerOfTwo, ConstantTypes DEF Backoff, Least

\* A delay the peer asks for is honoured up to a limit.
LEMMA DelayBound ==
  ASSUME NEW d \in RetryDelays
  PROVE  Delay(d) \in Nat /\ Delay(d) <= DelayCap
BY ConstantTypes DEF Delay, Least

\* The next batch is what is left of the texts, at most BatchSize of them.
LEMMA BatchShape ==
  ASSUME TypeOK
  PROVE  LET n == Least(BatchSize, Texts - start) IN
         /\ n \in Nat /\ n <= BatchSize /\ start + n <= Texts
         /\ start + n = Texts \/ n = BatchSize
         /\ Batch \in Seq(1 .. Texts) /\ Len(Batch) = n
         /\ \A k \in 1 .. n : Batch[k] = start + k
<1> DEFINE n == Least(BatchSize, Texts - start)
<1>1. /\ n \in Nat /\ n <= BatchSize /\ start + n <= Texts
      /\ start + n = Texts \/ n = BatchSize
  BY ConstantTypes DEF TypeOK, Texts, Least
<1>2. Texts \in Nat /\ start \in Nat
  BY ConstantTypes DEF TypeOK, Texts
<1>3. Batch = [k \in 1 .. n |-> start + k]
  BY DEF Batch
<1> HIDE DEF n
<1>4. /\ Batch \in Seq(1 .. Texts) /\ Len(Batch) = n
      /\ \A k \in 1 .. n : Batch[k] = start + k
  BY <1>1, <1>2, <1>3
<1> QED
  BY <1>1, <1>4 DEF n

\* Joining two sequences adds their lengths.
LEMMA JoinLength ==
  ASSUME NEW S, NEW a \in Seq(S), NEW b \in Seq(S)
  PROVE  a \o b \in Seq(S) /\ Len(a \o b) = Len(a) + Len(b)
OBVIOUS

\* A sequence over a set is one over every larger set.
LEMMA WiderSeq ==
  ASSUME NEW S, NEW T, S \subseteq T, NEW s \in Seq(S)
  PROVE  s \in Seq(T)
OBVIOUS

\* One vector fewer, or one more, shows in the length of a reply.
LEMMA OffByOne ==
  ASSUME NEW S, NEW s \in Seq(S), NEW k \in DOMAIN s
  PROVE  /\ Len(RemoveAt(s, k)) = Len(s) - 1
         /\ Len(InsertAt(s, k, s[k])) = Len(s) + 1
<1>1. k \in 1 .. Len(s) /\ Len(s) \in Nat /\ s[k] \in S
  OBVIOUS
<1>2. /\ SubSeq(s, 1, k - 1) \in Seq(S) /\ Len(SubSeq(s, 1, k - 1)) = k - 1
      /\ SubSeq(s, k, Len(s)) \in Seq(S) /\ Len(SubSeq(s, k, Len(s))) = Len(s) - k + 1
  BY <1>1
<1>3. SubSeq(s, k + 1, Len(s)) \in Seq(S) /\ Len(SubSeq(s, k + 1, Len(s))) = Len(s) - k
  BY <1>1
<1>4. <<s[k]>> \in Seq(S) /\ Len(<<s[k]>>) = 1
  BY <1>1
<1>5. Len(RemoveAt(s, k)) = Len(s) - 1
  <2> DEFINE front == SubSeq(s, 1, k - 1)
             rest  == SubSeq(s, k + 1, Len(s))
  <2>1. Len(front \o rest) = (k - 1) + (Len(s) - k)
    BY <1>2, <1>3, JoinLength
  <2>2. RemoveAt(s, k) = front \o rest
    BY DEF RemoveAt
  <2> HIDE DEF front, rest
  <2> QED
    BY <1>1, <2>1, <2>2
<1>6. Len(InsertAt(s, k, s[k])) = Len(s) + 1
  <2> DEFINE front == SubSeq(s, 1, k - 1)
             rest  == SubSeq(s, k, Len(s))
  <2>1. front \o <<s[k]>> \in Seq(S) /\ Len(front \o <<s[k]>>) = (k - 1) + 1
    BY <1>2, <1>4, JoinLength
  <2>2. Len((front \o <<s[k]>>) \o rest) = (k - 1) + 1 + (Len(s) - k + 1)
    BY <1>2, <2>1, JoinLength
  <2>3. InsertAt(s, k, s[k]) = (front \o <<s[k]>>) \o rest
    BY DEF InsertAt
  <2> HIDE DEF front, rest
  <2> QED
    BY <1>1, <2>2, <2>3
<1> QED
  BY <1>5, <1>6

\* So the only reply that is accepted is the one that fits.
LEMMA CompleteIsBatch ==
  ASSUME TypeOK, NEW reply \in Replies, Complete(reply),
         client # "batch" => start < Texts
  PROVE  reply = Batch
<1>1. Batch \in Seq(1 .. Texts) /\ Len(Batch) \in Nat
  BY BatchShape
<1>2. CASE client = "batch" /\ reply # Batch
  <2>1. PICK k \in DOMAIN Batch :
          reply = RemoveAt(Batch, k) \/ reply = InsertAt(Batch, k, Batch[k])
    BY <1>2 DEF Replies
  <2> QED
    BY <1>1, <2>1, OffByOne DEF Complete
<1>3. CASE client # "batch"
  <2>1. Len(Batch) > 0
    BY <1>3, BatchShape, ConstantTypes DEF TypeOK, Texts, Least
  <2> QED
    BY <1>3, <2>1 DEF Replies, Complete
<1> QED
  BY <1>2, <1>3

-----------------------------------------------------------------------------
(***************************************************************************)
(* Every step keeps the invariant, part by part.                           *)
(***************************************************************************)

\* How a retry loop goes on.
LEMMA NextAttemptFacts ==
  ASSUME TypeOK, NextAttempt
  PROVE  /\ attempt' \in 0 .. Tries - 1
         /\ \/ attempt' = attempt + 1 /\ pc' = "check" /\ outcome' = outcome
            \/ attempt' = attempt /\ pc' = "done" /\ outcome' = "error"
BY ConstantTypes DEF TypeOK, NextAttempt, Return, Tries

\* Time goes forward, and an exchange ends by its timeout.
LEMMA ElapsesFacts ==
  ASSUME TypeOK, Elapses
  PROVE  /\ now' \in Nat /\ held' \in Nat
         /\ client = "batch" => now' - held' = now - held
         /\ client # "batch" => now' <= begun + Timeout /\ held' = held
BY ConstantTypes DEF TypeOK, Elapses, Held

\* A read of the body takes until the timeout at most, or no time.
LEMMA ReadsFacts ==
  ASSUME TypeOK, Reads
  PROVE  now' \in Nat /\ held' = held /\ (now' <= begun + Timeout \/ now' = now)
BY ConstantTypes DEF TypeOK, Reads

\* A body that was read as a whole: the batch's vectors are taken over, or
\* nothing is.
LEMMA AnsweredCases ==
  ASSUME CallInv, Answered
  PROVE  \/ /\ out' = out \o Batch /\ start' = start + Len(Batch)
            /\ attempt' = 0 /\ begun' = now'
            /\ stored' \in {stored, "vector"}
            /\ IF client = "batch"
                 THEN outcome' = outcome
                        /\ pc' = (IF start' < Texts THEN "exchange" ELSE "store")
                 ELSE pc' = "done" /\ outcome' = "ok"
         \/ /\ UNCHANGED <<out, start, attempt, begun, stored>>
            /\ pc' = "done" /\ outcome' = "error"
<1>1. client # "batch" => start < Texts
  BY DEF CallInv, ControlInv, Answered, Texts
<1>2. \A reply \in Replies : Complete(reply) => reply = Batch
  BY <1>1, CompleteIsBatch DEF CallInv
<1>3. PutEmbedding => stored' \in {stored, "vector"}
  BY DEF PutEmbedding
<1> QED
  BY <1>2, <1>3 DEF Answered, Return, batchState

\* The embedding cache has the question's vector, or there is an exchange.
LEMMA HitIsOne ==
  ASSUME GetEmbedding
  PROVE  \/ out' = <<1>> /\ start' = 1 /\ pc' = "done" /\ outcome' = "ok"
         \/ pc' = "exchange" /\ UNCHANGED <<out, start, outcome>>
BY DEF GetEmbedding, Usable, Return, batchState

\* Types.
LEMMA TypeNext ==
  ASSUME CallInv, Next
  PROVE  TypeOK'
<1> USE ConstantTypes DEF CallInv
<1>1. CASE Transient
  <2>1. now' \in Nat /\ held' \in Nat
    BY <1>1, DelayBound, ElapsesFacts DEF Transient, TypeOK, clock
  <2> QED
    BY <1>1, <2>1, NextAttemptFacts DEF Transient, TypeOK, Clients, Tries, Texts, batchState
<1>2. CASE Permanent
  BY <1>2, ElapsesFacts DEF Permanent, Return, TypeOK, Clients, Tries, Texts, batchState
<1>3. CASE CheckBudget
  BY <1>3 DEF CheckBudget, Return, TypeOK, Clients, Tries, Texts, clock, batchState
<1>4. CASE Pause
  <2>1. Backoff(attempt) \in Nat
    <3>1. attempt \in Nat
      BY DEF TypeOK
    <3> QED
      BY <3>1, BackoffBound
  <2> QED
    BY <1>4, <2>1 DEF Pause, Return, TypeOK, Clients, Tries, Texts, batchState
<1>5. CASE Answered
  <2>1. now' \in Nat /\ held' \in Nat /\ UNCHANGED <<client, shown, gone>>
    BY <1>5, ElapsesFacts DEF Answered
  <2>2. CASE UNCHANGED <<out, start, attempt, begun, stored>>
    BY <1>5, <2>1, <2>2, AnsweredCases DEF TypeOK, Clients, Tries, Texts
  <2>3. CASE /\ out' = out \o Batch /\ start' = start + Len(Batch)
             /\ attempt' = 0 /\ begun' = now' /\ stored' \in {stored, "vector"}
    <3>1. start' \in 0 .. Texts /\ out' \in Seq(0 .. Texts)
      <4>1. /\ Batch \in Seq(1 .. Texts) /\ Len(Batch) \in Nat
            /\ start + Len(Batch) <= Texts /\ start \in 0 .. Texts
            /\ out \in Seq(0 .. Texts)
        BY BatchShape DEF TypeOK
      <4>2. Batch \in Seq(0 .. Texts)
        <5>1. 1 .. Texts \subseteq 0 .. Texts
          OBVIOUS
        <5> QED
          BY <4>1, <5>1, WiderSeq
      <4>3. out \o Batch \in Seq(0 .. Texts)
        BY <4>1, <4>2, JoinLength
      <4>4. start' \in 0 .. Texts
        BY <2>3, <4>1 DEF Texts
      <4> QED
        BY <2>3, <4>3, <4>4
    <3>2. /\ pc' \in {"exchange", "store", "done"} /\ outcome' \in {outcome, "ok", "error"}
          /\ begun' \in Nat /\ Tries' = Tries /\ attempt' \in 0 .. Tries' - 1
      <4>1. Tries' = Tries
        BY <2>1 DEF Tries
      <4>2. attempt' \in 0 .. Tries - 1
        BY <2>3 DEF TypeOK, Tries
      <4> QED
        BY <1>5, <2>1, <2>3, <4>1, <4>2, AnsweredCases
    <3>3. Texts' = Texts
      BY <2>1 DEF Texts
    <3> QED
      BY <2>1, <2>3, <3>1, <3>2, <3>3 DEF TypeOK
  <2> QED
    BY <1>5, <2>2, <2>3, AnsweredCases
<1>6. CASE Store
  BY <1>6 DEF Store, Return, TypeOK, Clients, Tries, Texts, clock, batchState
<1>7. CASE GetEmbedding
  <2>1. client = "embed" /\ Texts = 1
    BY <1>7 DEF GetEmbedding, ControlInv, Texts
  <2>2. start' \in 0 .. 1 /\ out' \in Seq(0 .. 1)
    <3>1. start \in 0 .. 1 /\ out \in Seq(0 .. 1)
      BY <2>1 DEF TypeOK
    <3>2. 1 \in 0 .. 1 /\ <<1>> \in Seq(0 .. 1)
      OBVIOUS
    <3> QED
      BY <1>7, <3>1, <3>2, HitIsOne
  <2> QED
    BY <1>7, <2>1, <2>2, HitIsOne
       DEF GetEmbedding, Return, TypeOK, Clients, Tries, Texts, clock
<1>8. CASE Opened
  BY <1>8, ElapsesFacts DEF Opened, TypeOK, Clients, Tries, Texts, batchState
<1>9. CASE Token
  <2>1. Cardinality({i \in DOMAIN shown : shown[i][1] = attempt}) \in Nat
    <3>1. IsFiniteSet(DOMAIN shown)
      BY FS_Interval DEF TypeOK
    <3> QED
      BY <3>1, FS_Subset, FS_CardinalityType
  <2>2. shown' \in Seq((0 .. MaxRetries) \X Nat)
    BY <1>9, <2>1 DEF Token, ControlInv, TypeOK, Tries
  <2> QED
    BY <1>9, <2>2, ReadsFacts DEF Token, TypeOK, Clients, Tries, Texts, batchState
<1>10. CASE EndOfStream
  BY <1>10, ReadsFacts DEF EndOfStream, Return, TypeOK, Clients, Tries, Texts, batchState
<1>11. CASE Broken
  BY <1>11, ReadsFacts DEF Broken, Return, TypeOK, Clients, Tries, Texts, batchState
<1>12. CASE Emitted
  BY <1>12 DEF Emitted, Held, Return, TypeOK, Clients, Tries, Texts, batchState
<1>13. CASE Hangup
  BY <1>13 DEF Hangup, TypeOK, Clients, Tries, Texts, clock, batchState
<1> QED
  BY <1>1, <1>2, <1>3, <1>4, <1>5, <1>6, <1>7, <1>8, <1>9, <1>10, <1>11, <1>12, <1>13
     DEF Next, Proceed

\* Control.
LEMMA ControlNext ==
  ASSUME CallInv, Next
  PROVE  ControlInv'
<1> USE ConstantTypes DEF CallInv, ControlInv, TypeOK
<1>1. CASE Transient
  BY <1>1, NextAttemptFacts DEF Transient, batchState
<1>2. CASE Permanent \/ CheckBudget \/ Pause
  BY <1>2 DEF Permanent, CheckBudget, Pause, Return, batchState
<1>3. CASE Answered
  BY <1>3, AnsweredCases DEF Answered
<1>4. CASE Store \/ GetEmbedding
  BY <1>4 DEF Store, GetEmbedding, Return, batchState
<1>5. CASE Opened \/ Token \/ Emitted \/ EndOfStream \/ Broken \/ Hangup
  BY <1>5 DEF Opened, Token, Emitted, EndOfStream, Broken, Hangup, Return, batchState
<1> QED
  BY <1>1, <1>2, <1>3, <1>4, <1>5 DEF Next, Proceed

\* What is shown.
LEMMA ShownNext ==
  ASSUME CallInv, Next
  PROVE  ShownInv'
<1> USE DEF CallInv, ShownInv
<1>1. CASE UNCHANGED shown /\ pc \notin {"body", "emit"}
  <2>1. pc # "done" => shown = <<>>
    BY <1>1
  <2>2. OneAnswerShown'
    BY <1>1 DEF OneAnswerShown
  <2>3. pc = "done" => pc' = "done"
    BY DEF Next, Proceed, Transient, Permanent, CheckBudget, Pause, Answered, Store,
       GetEmbedding, Opened, Token, Emitted, EndOfStream, Broken, Hangup
  <2>4. pc' \in {"body", "emit"} => shown = <<>>
    BY <2>1, <2>3
  <2> QED
    BY <1>1, <2>1, <2>2, <2>3, <2>4
<1>2. CASE Token
  <2> DEFINE sofar == {i \in DOMAIN shown : shown[i][1] = attempt}
  <2>1. shown \in Seq((0 .. MaxRetries) \X Nat) /\ Len(shown) \in Nat
    BY DEF TypeOK
  <2>2. sofar = 1 .. Len(shown)
    BY <1>2, <2>1 DEF Token
  <2>3. Cardinality(sofar) = Len(shown)
    <3> HIDE DEF sofar
    <3>1. Cardinality(1 .. Len(shown)) = IF 1 > Len(shown) THEN 0 ELSE Len(shown) - 1 + 1
      BY <2>1, FS_Interval
    <3> QED
      BY <2>1, <2>2, <3>1
  <2>4. shown' = Append(shown, <<attempt, Len(shown)>>)
    BY <1>2, <2>3 DEF Token
  <2>5. \A i \in DOMAIN shown' : shown'[i] = <<attempt, i - 1>>
    BY <1>2, <2>1, <2>4 DEF Token
  <2>6. 1 \in DOMAIN shown' /\ shown'[1][1] = attempt
    <3>1. Len(shown') = Len(shown) + 1 /\ DOMAIN shown' = 1 .. Len(shown')
      BY <2>1, <2>4
    <3>2. 1 \in DOMAIN shown'
      BY <2>1, <3>1
    <3>3. shown'[1] = <<attempt, 1 - 1>>
      BY <2>5, <3>2
    <3> QED
      BY <3>2, <3>3
  <2>7. OneAnswerShown'
    BY <2>5, <2>6 DEF OneAnswerShown
  <2> QED
    BY <1>2, <2>5, <2>7 DEF Token
<1>3. CASE /\ UNCHANGED <<shown, attempt>>
           /\ pc \in {"body", "emit"} /\ pc' \in {"body", "emit", "done"}
  BY <1>3 DEF OneAnswerShown
<1>4. CASE Transient \/ Permanent \/ CheckBudget \/ Pause \/ Answered \/ Store
           \/ GetEmbedding \/ Opened
  BY <1>1, <1>4 DEF Transient, Permanent, CheckBudget, Pause, Answered, Store,
     GetEmbedding, Opened
<1>5. CASE Emitted \/ EndOfStream \/ Broken
  BY <1>3, <1>5 DEF Emitted, EndOfStream, Broken, Return
<1>6. CASE Hangup
  BY <1>1, <1>3, <1>6 DEF Hangup
<1> QED
  BY <1>2, <1>4, <1>5, <1>6 DEF Next, Proceed

\* What has been returned.
LEMMA OutNext ==
  ASSUME CallInv, Next
  PROVE  OutInv'
<1> USE ConstantTypes DEF CallInv, OutInv
<1>1. CASE UNCHANGED <<client, batchState>> /\ outcome' # "ok"
  BY <1>1 DEF batchState, Texts
<1>2. CASE Answered
  <2>1. CASE UNCHANGED <<out, start>> /\ outcome' = "error"
    BY <1>1, <1>2, <2>1 DEF Answered, batchState
  <2>2. CASE /\ out' = out \o Batch /\ start' = start + Len(Batch)
             /\ client = "batch" => outcome' = outcome
    <3>1. /\ out \in Seq(0 .. Texts) /\ Batch \in Seq(0 .. Texts)
          /\ start \in Nat /\ Len(Batch) \in Nat
      BY BatchShape DEF TypeOK, Texts
    <3>2. Len(out') = start'
      <4>1. Len(out \o Batch) = Len(out) + Len(Batch)
        BY <3>1
      <4> QED
        BY <2>2, <4>1
    <3>3. ASSUME NEW k \in 1 .. start' PROVE out'[k] = k
      <4>1. CASE k <= start
        BY <2>2, <3>1, <3>3, <4>1
      <4>2. CASE k > start
        <5>1. k - start \in 1 .. Len(Batch)
          BY <2>2, <3>1, <3>3, <4>2
        <5>2. out'[k] = Batch[k - start]
          BY <2>2, <3>1, <4>2, <5>1
        <5> QED
          BY <3>1, <3>3, <5>1, <5>2, BatchShape
      <4> QED
        BY <2>2, <3>1, <3>3, <4>1, <4>2
    <3>4. client # "batch" => start' = Texts /\ Texts' = Texts
      BY <1>2, <2>2, BatchShape DEF Answered, ControlInv, TypeOK, Texts, Least
    <3>5. client = "batch" => outcome' = "none"
      BY <1>2, <2>2 DEF Answered, ControlInv
    <3> QED
      BY <1>2, <3>2, <3>3, <3>4, <3>5 DEF Answered
  <2> QED
    BY <1>2, <2>1, <2>2, AnsweredCases
<1>3. CASE Store
  BY <1>3 DEF Store, Return, ControlInv, batchState, Texts
<1>4. CASE GetEmbedding
  <2>1. client = "embed" /\ client' = client
    BY <1>4 DEF GetEmbedding, ControlInv
  <2>2. CASE out' = <<1>> /\ start' = 1
    BY <2>1, <2>2 DEF Texts
  <2>3. CASE UNCHANGED <<out, start, outcome>>
    BY <2>1, <2>3 DEF Texts
  <2> QED
    BY <1>4, <2>2, <2>3, HitIsOne
<1>5. CASE Transient
  BY <1>1, <1>5, NextAttemptFacts DEF Transient, ControlInv
<1>6. CASE Permanent \/ CheckBudget \/ Pause \/ Broken
  BY <1>1, <1>6 DEF Permanent, CheckBudget, Pause, Broken, Return, ControlInv
<1>7. CASE EndOfStream
  BY <1>7 DEF EndOfStream, ControlInv, batchState, Texts
<1>8. CASE Opened \/ Token \/ Emitted \/ Hangup
  BY <1>1, <1>8 DEF Opened, Token, Emitted, Return, Hangup, ControlInv
<1> QED
  BY <1>2, <1>3, <1>4, <1>5, <1>6, <1>7, <1>8 DEF Next, Proceed

-----------------------------------------------------------------------------
(***************************************************************************)
(* Time.                                                                   *)
(***************************************************************************)

\* No client turns into another, and a call that is done stays as it is.
LEMMA SameClient ==
  ASSUME Next
  PROVE  client' = client /\ pc # "done"
BY DEF Next, Proceed, Transient, Permanent, CheckBudget, Pause, Answered, Store,
   GetEmbedding, Opened, Token, Emitted, EndOfStream, Broken, Hangup

\* An answer or a scoring.
LEMMA BudgetNext ==
  ASSUME CallInv, Next, client \in {"stream", "generate"}
  PROVE  BudgetInv' /\ OwnTimeIsBounded'
<1> DEFINE Latest == RetryBudget + MaxWait + Timeout
<1>1. /\ client' = client
      /\ OwnTimeIsBounded' <=> now' <= held' + Latest
      /\ now <= held + Latest
  BY SameClient DEF CallInv, TimeInv, OwnTimeIsBounded, Limit
<1>2. /\ now \in Nat /\ begun \in Nat /\ attempt \in Nat /\ held \in Nat
      /\ now' \in Nat /\ held' \in Nat
      /\ BudgetInv /\ pc # "store" /\ pc # "lookup"
      /\ Latest \in Nat /\ RetryBudget + MaxWait + Timeout = Latest
  BY TypeNext, ConstantTypes DEF CallInv, TypeOK, ControlInv, TimeInv
<1> USE ConstantTypes, <1>1, <1>2 DEF BudgetInv
<1>3. CASE Transient
  <2>1. pc = "exchange" /\ held = 0 /\ now <= begun + Timeout
    BY <1>3 DEF Transient
  <2>2. now' <= begun + Timeout /\ held' = 0
    <3>1. CASE UNCHANGED clock
      BY <2>1, <3>1 DEF clock
    <3>2. CASE Elapses
      BY <2>1, <3>2, ElapsesFacts DEF CallInv
    <3> QED
      BY <1>3, <3>1, <3>2 DEF Transient
  <2>3. pc' \in {"check", "done"}
    BY <1>3, NextAttemptFacts DEF CallInv, Transient
  <2> QED
    BY <1>3, <2>1, <2>2, <2>3 DEF Transient
<1>4. CASE CheckBudget
  BY <1>4 DEF CheckBudget, Exhausted, Return, clock
<1>5. CASE Pause
  <2>1. Backoff(attempt) \in Nat /\ Backoff(attempt) <= MaxWait
    BY BackoffBound
  <2> QED
    BY <1>5, <2>1 DEF Pause, Return
<1>6. CASE Permanent \/ Answered
  <2>1. now' <= begun + Timeout /\ held' = held /\ pc = "exchange" /\ pc' = "done"
    BY <1>6, ElapsesFacts, AnsweredCases DEF CallInv, Permanent, Answered, Return
  <2> QED
    BY <2>1
<1>7. CASE Opened
  <2>1. now' <= begun + Timeout /\ held' = held /\ begun' = begun /\ pc = "exchange"
        /\ pc' = "body"
    BY <1>7, ElapsesFacts DEF CallInv, Opened
  <2> QED
    BY <2>1
<1>8. CASE Token \/ EndOfStream \/ Broken
  <2>1. /\ now' <= begun + Timeout \/ now' = now
        /\ held' = held /\ begun' = begun /\ pc = "body" /\ pc' \in {"emit", "done"}
    BY <1>8, ReadsFacts DEF CallInv, Token, EndOfStream, Broken, Return
  <2> QED
    BY <2>1
<1>9. CASE Emitted
  <2>1. PICK h \in Nat : now' = now + h /\ held' = held + h
    BY <1>9 DEF Emitted, Held
  <2>2. begun' = begun /\ pc = "emit" /\ pc' \in {"body", "done"}
    BY <1>9 DEF Emitted, Return
  <2> QED
    BY <2>1, <2>2
<1>10. CASE Hangup
  BY <1>10 DEF Hangup, clock
<1> QED
  BY <1>3, <1>4, <1>5, <1>6, <1>7, <1>8, <1>9, <1>10
     DEF Next, Proceed, Store, GetEmbedding

\* Attempts add up.
LEMMA AttemptsAddUp ==
  ASSUME NEW a \in Nat, NEW n \in Nat, NEW t \in Nat, NEW w \in Nat, a <= n
  PROVE  /\ a * (t + w) + t <= (n + 1) * t + n * w
         /\ (a + 1) * (t + w) = a * (t + w) + t + w
<1>1. a * (t + w) <= n * (t + w)
  OBVIOUS
<1>2. n * (t + w) = n * t + n * w /\ (n + 1) * t = n * t + t
  OBVIOUS
<1>3. a * (t + w) \in Nat /\ n * t \in Nat /\ n * w \in Nat
  OBVIOUS
<1>4. (a + 1) * (t + w) = a * (t + w) + t + w
  OBVIOUS
<1> QED
  BY <1>1, <1>2, <1>3, <1>4

\* A question's embedding.
LEMMA EmbedNext ==
  ASSUME CallInv, Next, client = "embed"
  PROVE  EmbedInv' /\ OwnTimeIsBounded'
<1> DEFINE Latest == (MaxRetries + 1) * Timeout + MaxRetries * MaxWait
<1>1. /\ client' = client
      /\ OwnTimeIsBounded' <=> now' <= held' + Latest
      /\ now <= held + Latest
  BY SameClient DEF CallInv, TimeInv, OwnTimeIsBounded, Limit
<1>2. /\ now \in Nat /\ begun \in Nat /\ attempt \in Nat /\ now' \in Nat
      /\ attempt <= MaxRetries /\ held = 0
      /\ EmbedInv /\ pc \notin {"store", "body", "emit"}
      /\ pc \in {"check", "wait"} => attempt >= 1
  BY TypeNext, ConstantTypes DEF CallInv, TypeOK, ControlInv, TimeInv, EmbedInv, Tries
<1>3. /\ Latest \in Nat /\ attempt * Attempt \in Nat /\ Attempt \in Nat
      /\ attempt * Attempt + Timeout <= Latest
      /\ (attempt - 1) * Attempt + Attempt = attempt * Attempt
  <2>1. (attempt - 1) * Attempt + Attempt = attempt * Attempt
    BY <1>2, ConstantTypes DEF Attempt
  <2> QED
    BY <1>2, <2>1, ConstantTypes, AttemptsAddUp DEF Attempt
<1> HIDE DEF Latest
<1> USE ConstantTypes, <1>1, <1>2, <1>3 DEF EmbedInv
<1>4. CASE Transient
  <2>1. now' <= begun + Timeout /\ held' = 0
    BY <1>4, ElapsesFacts DEF CallInv, Transient, clock
  <2>2. pc = "exchange" /\ now' <= attempt * Attempt + Timeout
    BY <1>4, <2>1 DEF Transient, clock
  <2>3. CASE attempt' = attempt + 1 /\ pc' = "check"
    <3>1. attempt' - 1 = attempt
      BY <2>3
    <3> QED
      BY <1>4, <2>1, <2>2, <2>3, <3>1
  <2>4. CASE pc' = "done"
    BY <1>4, <2>1, <2>2, <2>4
  <2> QED
    BY <1>4, <2>3, <2>4, NextAttemptFacts DEF CallInv, Transient
<1>5. CASE CheckBudget
  BY <1>5 DEF CheckBudget, Exhausted, Return, clock
<1>6. CASE Pause
  <2>1. Backoff(attempt) \in Nat /\ Backoff(attempt) <= MaxWait
    BY BackoffBound
  <2>2. now + MaxWait <= attempt * Attempt
    BY <1>6 DEF Pause, Attempt
  <2> QED
    BY <1>6, <2>1, <2>2 DEF Pause, Return
<1>7. CASE Permanent \/ Answered
  <2>1. now' <= begun + Timeout /\ held' = 0 /\ pc = "exchange" /\ pc' = "done"
    BY <1>7, ElapsesFacts, AnsweredCases DEF CallInv, Permanent, Answered, Return
  <2> QED
    BY <2>1
<1>8. CASE GetEmbedding
  BY <1>8, HitIsOne DEF GetEmbedding, clock
<1>9. CASE Hangup
  BY <1>9 DEF Hangup, clock
<1> QED
  BY <1>4, <1>5, <1>6, <1>7, <1>8, <1>9
     DEF Next, Proceed, Store, Opened, Token, Emitted, EndOfStream, Broken

\* The limit of a document is one batch more than the batches before.
LEMMA BatchLimit ==
  ASSUME NEW s \in Nat
  PROVE  /\ Before(s) \in Nat /\ WorkerTries * Round \in Nat
         /\ (s \div BatchSize + 1) * WorkerTries * (DelayCap + WorkerWait)
              = Before(s) + WorkerTries * Round
<1> DEFINE b == s \div BatchSize
           c == WorkerTries * Round
<1>1. b \in Nat
  BY ConstantTypes
<1>2. c \in Nat
  BY ConstantTypes DEF Round
<1>3. (b + 1) * WorkerTries * (DelayCap + WorkerWait) = (b + 1) * c
  BY <1>1, ConstantTypes DEF Round
<1>4. (b + 1) * c = b * c + c /\ b * c \in Nat
  <2> HIDE DEF b, c
  <2> QED
    BY <1>1, <1>2
<1> QED
  BY <1>1, <1>2, <1>3, <1>4 DEF Before

\* A full batch is one batch more, and fewer texts are no more batches.
LEMMA BatchesBefore ==
  ASSUME NEW s \in Nat, NEW t \in Nat, s <= t
  PROVE  /\ Before(s) <= Before(t)
         /\ t = s + BatchSize => Before(t) = Before(s) + WorkerTries * Round
<1> DEFINE b == s \div BatchSize
           e == t \div BatchSize
           c == WorkerTries * Round
<1>1. b \in Nat /\ e \in Nat /\ b <= e /\ (t = s + BatchSize => e = b + 1)
  BY ConstantTypes
<1>2. c \in Nat
  BY ConstantTypes DEF Round
<1>3. b * c <= e * c /\ (e = b + 1 => e * c = b * c + c)
  <2> HIDE DEF b, c, e
  <2> QED
    BY <1>1, <1>2
<1> QED
  BY <1>1, <1>3 DEF Before

\* A document.
LEMMA BatchNext ==
  ASSUME CallInv, Next, client = "batch"
  PROVE  BatchInv' /\ OwnTimeIsBounded'
<1> DEFINE All == WorkerTries * Round
           Spent == attempt * Round
<1>1. /\ client' = client /\ attempt \in Nat /\ now \in Nat /\ now' \in Nat
      /\ held \in Nat /\ held' \in Nat /\ Own \in Int /\ Own' \in Int
      /\ attempt <= WorkerTries - 1 /\ start \in Nat /\ start' \in Nat
      /\ BatchInv /\ pc \notin {"lookup", "body", "emit", "done"}
      /\ pc \in {"check", "wait"} => attempt >= 1
  BY SameClient, TypeNext, ConstantTypes
     DEF CallInv, TypeOK, ControlInv, TimeInv, Tries, Texts, Own
<1>2. /\ Before(start) \in Nat /\ Before(start') \in Nat /\ All \in Nat
      /\ Own <= Before(start) + All
      /\ OwnTimeIsBounded' <=> Own' <= Before(start') + All
  <2>1. /\ Before(start) \in Nat /\ Before(start') \in Nat /\ All \in Nat
        /\ now <= held + (Before(start) + All)
        /\ OwnTimeIsBounded' <=> now' <= held' + (Before(start') + All)
    BY <1>1, BatchLimit DEF CallInv, TimeInv, OwnTimeIsBounded, Limit, Before
  <2> HIDE DEF All
  <2> QED
    BY <1>1, <2>1 DEF Own
<1>3. /\ Round \in Nat /\ Spent \in Nat /\ Spent + Round <= All
      /\ pc = "exchange" => Own <= Before(start) + Spent
      /\ pc \in {"check", "wait"} => Own + WorkerWait <= Before(start) + Spent
  <2>1. Round \in Nat /\ Round = DelayCap + WorkerWait
    BY ConstantTypes DEF Round
  <2>2. (attempt + 1) * Round <= All
    BY <1>1, <2>1, ConstantTypes
  <2>3. /\ (attempt + 1) * Round = Spent + Round
        /\ (attempt - 1) * Round + Round = Spent
        /\ Spent \in Nat /\ (attempt - 1) * Round \in Int
    BY <1>1, <2>1
  <2> HIDE DEF Spent, All
  <2>4. Spent + Round <= All
    BY <2>2, <2>3
  <2>5. pc = "exchange" => Own <= Before(start) + Spent
    BY <1>1 DEF BatchInv, Spent
  <2>6. pc \in {"check", "wait"} => Own + WorkerWait <= Before(start) + Spent
    <3> DEFINE Less == (attempt - 1) * Round
    <3>1. pc \in {"check", "wait"} => Own <= Before(start) + Less + DelayCap
      BY <1>1 DEF BatchInv
    <3>2. Less + Round = Spent /\ Less \in Int
      BY <2>3
    <3> HIDE DEF Less
    <3> QED
      BY <1>1, <1>2, <2>1, <2>3, <3>1, <3>2, ConstantTypes
  <2> QED
    BY <2>1, <2>3, <2>4, <2>5, <2>6
<1>4. start' = start => Before(start') = Before(start)
  BY DEF Before
<1> HIDE DEF All, Spent
<1> USE ConstantTypes, <1>1, <1>2, <1>3, <1>4
<1>5. CASE Transient
  <2>1. Own' <= Own + DelayCap /\ start' = start /\ pc = "exchange"
    <3>1. CASE UNCHANGED clock
      BY <1>5, <3>1 DEF Transient, clock, batchState, Own
    <3>2. CASE Elapses
      <4>1. Own' = Own
        BY <3>2, ElapsesFacts DEF CallInv, Own
      <4> QED
        BY <1>5, <4>1 DEF Transient, batchState
    <3>3. ASSUME NEW h \in Holds, NEW d \in RetryDelays,
                 now' = now + h + Delay(d), held' = held + h
          PROVE  Own' <= Own + DelayCap
      <4>1. Delay(d) \in Nat /\ Delay(d) <= DelayCap /\ h \in Nat
        BY DelayBound
      <4> QED
        BY <3>3, <4>1 DEF Own
    <3> QED
      BY <1>5, <3>1, <3>2, <3>3 DEF Transient, batchState
  <2>2. Own' <= Before(start') + Spent + DelayCap /\ DelayCap <= Round
    BY <2>1 DEF Round
  <2>3. OwnTimeIsBounded'
    <3>1. Own' <= Before(start') + All
      BY <2>2
    <3> QED
      BY <1>2, <3>1
  <2>4. BatchInv'
    <3>1. CASE attempt' = attempt + 1 /\ pc' = "check"
      <4>1. (attempt' - 1) * Round = Spent
        BY <3>1 DEF Spent
      <4> QED
        BY <2>2, <3>1, <4>1 DEF BatchInv
    <3>2. CASE pc' = "done"
      BY <3>2 DEF BatchInv
    <3> QED
      BY <1>5, <3>1, <3>2, NextAttemptFacts DEF CallInv, Transient
  <2> QED
    BY <2>3, <2>4
<1>6. CASE CheckBudget
  BY <1>6 DEF CheckBudget, Exhausted, Return, clock, batchState, BatchInv, Own
<1>7. CASE Pause
  <2>1. Backoff(attempt) \in Nat /\ Backoff(attempt) <= WorkerWait
    BY BackoffBound
  <2>2. CASE gone
    BY <1>7, <2>2 DEF Pause, Return, batchState, BatchInv, Own
  <2>3. CASE ~gone
    <3>1. /\ Own' <= Before(start') + Spent /\ attempt' = attempt /\ pc' = "exchange"
      BY <1>7, <2>1, <2>3 DEF Pause, batchState, Own
    <3>2. OwnTimeIsBounded'
      BY <3>1
    <3> QED
      BY <3>1, <3>2 DEF BatchInv, Spent
  <2> QED
    BY <2>2, <2>3
<1>8. CASE Permanent
  <2>1. Own' = Own /\ start' = start /\ pc' = "done"
    BY <1>8, ElapsesFacts DEF CallInv, Permanent, Return, batchState, Own
  <2> QED
    BY <2>1 DEF BatchInv
<1>9. CASE Answered
  <2>1. Own' = Own /\ pc = "exchange"
    BY <1>9, ElapsesFacts DEF CallInv, Answered, Own
  <2>2. CASE start' = start /\ pc' = "done"
    BY <2>1, <2>2 DEF BatchInv
  <2>3. CASE /\ start' = start + Len(Batch) /\ attempt' = 0
             /\ pc' = (IF start' < Texts THEN "exchange" ELSE "store")
    <3>1. start <= start' /\ (start' < Texts => start' = start + BatchSize)
      BY <2>3, BatchShape DEF CallInv
    <3>2. Before(start) <= Before(start') /\ (start' < Texts => Before(start') = Before(start) + All)
      BY <3>1, BatchesBefore DEF Before, All
    <3>3. OwnTimeIsBounded' /\ (start' < Texts => Own' <= Before(start'))
      BY <2>1, <3>2
    <3>4. attempt' * Round = 0
      BY <2>3
    <3> QED
      BY <2>3, <3>3, <3>4 DEF BatchInv
  <2> QED
    BY <1>9, <2>2, <2>3, AnsweredCases
<1>10. CASE Store
  BY <1>10 DEF Store, Return, clock, batchState, BatchInv, Own
<1> QED
  BY <1>5, <1>6, <1>7, <1>8, <1>9, <1>10
     DEF Next, Proceed, GetEmbedding, Opened, Token, Emitted, EndOfStream, Broken, Hangup

\* Every client's time.
LEMMA TimeNext ==
  ASSUME CallInv, Next
  PROVE  TimeInv'
<1>1. client' = client /\ client \in Clients
  BY SameClient DEF CallInv, TypeOK
<1> QED
  BY <1>1, BudgetNext, EmbedNext, BatchNext DEF TimeInv, Clients

-----------------------------------------------------------------------------
(***************************************************************************)
(* The theorems.                                                           *)
(***************************************************************************)

\* A call begins in order.
LEMMA CallInvInit == Init => CallInv
<1> SUFFICES ASSUME Init PROVE CallInv
  OBVIOUS
<1>1. Texts \in Nat \ {0} /\ 0 \in 0 .. Tries - 1
  BY ConstantTypes DEF Texts, Tries
<1>2. TypeOK
  <2>1. <<>> \in Seq((0 .. MaxRetries) \X Nat) /\ <<>> \in Seq(0 .. Texts)
    OBVIOUS
  <2>2. stored \in {"nothing", "vector", "other"} /\ pc \in {"lookup", "exchange"}
    BY DEF Init
  <2>3. 0 \in 0 .. Texts
    BY <1>1
  <2> QED
    BY <1>1, <2>1, <2>2, <2>3 DEF Init, TypeOK
<1>3. ControlInv /\ ShownInv /\ OutInv
  BY DEF Init, Clients, ControlInv, ShownInv, OneAnswerShown, OutInv
<1>4. TimeInv
  <2>1. client \in {"stream", "generate"} => BudgetInv /\ OwnTimeIsBounded
    BY ConstantTypes DEF Init, BudgetInv, OwnTimeIsBounded, Limit, Own
  <2>2. client = "embed" => EmbedInv /\ OwnTimeIsBounded
    <3>1. (MaxRetries + 1) * Timeout + MaxRetries * MaxWait >= 0
      BY ConstantTypes
    <3> QED
      BY <3>1, ConstantTypes DEF Init, EmbedInv, OwnTimeIsBounded, Limit, Attempt
  <2>3. client = "batch" => BatchInv /\ OwnTimeIsBounded
    <3>1. /\ Before(start) \in Nat /\ WorkerTries * Round \in Nat /\ 0 * Round = 0
          /\ client = "batch" => Limit[client] = Before(start) + WorkerTries * Round
      BY ConstantTypes, BatchLimit DEF Init, Limit, Before, Round
    <3> QED
      BY <3>1 DEF Init, BatchInv, OwnTimeIsBounded, Own
  <2> QED
    BY <1>2, <2>1, <2>2, <2>3 DEF TimeInv, TypeOK, Clients
<1> QED
  BY <1>2, <1>3, <1>4 DEF CallInv

\* Every step keeps the invariant.
LEMMA CallInvNext == CallInv /\ [Next]_vars => CallInv'
<1> SUFFICES ASSUME CallInv, [Next]_vars PROVE CallInv'
  OBVIOUS
<1>1. CASE Next
  BY <1>1, TypeNext, ControlNext, ShownNext, OutNext, TimeNext DEF CallInv
<1>2. CASE UNCHANGED vars
  BY <1>2 DEF vars, CallInv, TypeOK, Tries, Texts, ControlInv, ShownInv, OneAnswerShown,
     OutInv, TimeInv, BudgetInv, EmbedInv, BatchInv, Own, Before, OwnTimeIsBounded, Limit
<1> QED
  BY <1>1, <1>2

\* Every call keeps its types; in particular no client makes more attempts than
\* it is configured for.
THEOREM CallTypeCorrect == Spec => []TypeOK
<1>1. CallInv => TypeOK
  BY DEF CallInv
<1> QED
  BY <1>1, CallInvInit, CallInvNext, PTL DEF Spec

\* However often a stream had to be opened, what the client is shown is one
\* answer, in order and without repetition.
THEOREM StreamIsOneAnswer == Spec => []OneAnswerShown
<1>1. CallInv => OneAnswerShown
  BY DEF CallInv, ShownInv
<1> QED
  BY <1>1, CallInvInit, CallInvNext, PTL DEF Spec

\* Whatever is retried and whatever the replies hold, a vector or a score list
\* that is returned belongs to its text.
THEOREM VectorsBelong == Spec => []Aligned
<1>1. CallInv => Aligned
  BY DEF CallInv, OutInv, Aligned
<1> QED
  BY <1>1, CallInvInit, CallInvNext, PTL DEF Spec

\* Whatever the peer does, no call takes longer than its client's limit, save for
\* the time it is held up by its own client's reading or by an exchange of the
\* worker.
THEOREM CallsKeepTime == Spec => []OwnTimeIsBounded
<1>1. CallInv => OwnTimeIsBounded
  BY DEF CallInv, TimeInv
<1> QED
  BY <1>1, CallInvInit, CallInvNext, PTL DEF Spec
=============================================================================
