----------------------------- MODULE BM25Stats -----------------------------
(***************************************************************************)
(* The BM25 statistics of internal/store/schema.sql: the insert and delete *)
(* triggers on chunks, the tables corpus_terms and corpus_stats they keep, *)
(* and the backfill that Migrate runs, under concurrent ingest             *)
(* transactions of different documents (those of one document are Ingest). *)
(*                                                                         *)
(* A transaction deletes the chunks a document has and inserts its new     *)
(* ones. For each chunk the trigger updates one corpus_terms row per term, *)
(* in an order the executor chooses, and then the only row of              *)
(* corpus_stats; every row stays locked until the transaction ends.        *)
(***************************************************************************)
EXTENDS Integers, Sequences, FiniteSets

CONSTANTS
  Docs, Workers, Terms,
  Tf,       \* Tf[d][o][t]: weighted frequency of term t in chunk o of d
  StatsRow, \* the row of corpus_stats, as something to lock
  None

Chunks(d) == {d} \X (1 .. Len(Tf[d]))

\* chunk_term_rows: the terms of a chunk. SUM(tf) counts its tokens, each term
\* as often as its frequency says.
TermRows(c) == {t \in Terms : Tf[c[1]][c[2]][t] > 0}
Tokens(c) == UNION {{<<c, t, n>> : n \in 1 .. Tf[c[1]][c[2]][t]} : t \in Terms}
Length(c) == Cardinality(Tokens(c))
TotalLength(cs) == Cardinality(UNION {Tokens(c) : c \in cs})

ASSUME BM25Assumption ==
  /\ IsFiniteSet(Docs) /\ IsFiniteSet(Terms)
  /\ \A d \in Docs : Tf[d] \in Seq([Terms -> Nat]) /\ Tf[d] # <<>>
  /\ StatsRow \notin Terms /\ None \notin Docs \cup Terms \cup {StatsRow}

VARIABLES
  triggers,         \* Migrate has created the triggers
  chunks,           \* committed rows of chunks
  chunkStats,       \* chunks with a row in chunk_stats
  chunkTerms,       \* chunks with rows in chunk_terms
  df, count, total, \* corpus_terms.df (0: no row), corpus_stats
  doc, ops, todo,   \* per worker: document, chunks and terms left to do
  held, want,       \* rows it has locked; the row it waits for
  dfNew, countNew, totalNew  \* the values it has written to locked rows

committedVars == <<triggers, chunks, chunkStats, chunkTerms, df, count, total>>
txVars == <<doc, ops, todo, held, want, dfNew, countNew, totalNew>>
vars == <<committedVars, txVars>>

Init ==
  \* Documents may have been ingested before the statistics existed.
  /\ \E old \in SUBSET Docs : chunks = UNION {Chunks(d) : d \in old}
  /\ triggers = FALSE
  /\ chunkStats = {} /\ chunkTerms = {}
  /\ df = [t \in Terms |-> 0] /\ count = 0 /\ total = 0
  /\ doc = [w \in Workers |-> None]
  /\ ops = [w \in Workers |-> <<>>]
  /\ todo = [w \in Workers |-> {}]
  /\ held = [w \in Workers |-> {}]
  /\ want = [w \in Workers |-> None]
  /\ dfNew = [w \in Workers |-> df]
  /\ countNew = [w \in Workers |-> 0]
  /\ totalNew = [w \in Workers |-> 0]

-----------------------------------------------------------------------------
(***************************************************************************)
(* Migrate. The triggers are created and the statistics filled in one      *)
(* transaction that excludes writers of chunks.                            *)
(***************************************************************************)

\* IF EXISTS (SELECT 1 FROM chunks) AND NOT EXISTS (SELECT 1 FROM chunk_terms)
BackfillNeeded == chunks # {} /\ chunkTerms = {}

Backfill ==
  LET withTerms == {c \in chunks : TermRows(c) # {}} IN
  /\ chunkTerms' = withTerms
  /\ chunkStats' = chunkStats \cup withTerms
  /\ df' = [t \in Terms |-> LET n == Cardinality({c \in withTerms : t \in TermRows(c)})
                            IN  IF n > 0 THEN n ELSE df[t]]
  /\ count' = Cardinality(chunks)
  /\ total' = TotalLength(chunkStats \cup withTerms)

Migrate ==
  /\ \A w \in Workers : doc[w] = None
  /\ triggers' = TRUE
  /\ IF BackfillNeeded THEN Backfill
     ELSE UNCHANGED <<chunkStats, chunkTerms, df, count, total>>
  /\ UNCHANGED <<chunks, txVars>>

-----------------------------------------------------------------------------
(***************************************************************************)
(* Ingest transactions.                                                    *)
(***************************************************************************)

\* The deletes of the chunks d has, then the inserts.
Ops(d) ==
  LET In(o) == [del |-> FALSE, c |-> <<d, o>>]
      Out(o) == [del |-> TRUE, c |-> <<d, o>>]
      n == Len(Tf[d])
  IN  (IF Chunks(d) \subseteq chunks THEN [o \in 1 .. n |-> Out(o)] ELSE <<>>)
        \o [o \in 1 .. n |-> In(o)]

Begin(w, d) ==
  /\ doc[w] = None
  /\ \A v \in Workers : doc[v] # d
  /\ doc' = [doc EXCEPT ![w] = d]
  /\ ops' = [ops EXCEPT ![w] = IF triggers THEN Ops(d) ELSE <<>>]
  /\ todo' = [todo EXCEPT ![w] = IF triggers THEN TermRows(Head(Ops(d)).c) ELSE {}]
  /\ UNCHANGED <<committedVars, held, want, dfNew, countNew, totalNew>>

HeldByOther(w, x) == \E v \in Workers \ {w} : x \in held[v]

\* The values w sees of a row: its own if it holds the lock, else the committed.
Df(w, t) == IF t \in held[w] THEN dfNew[w][t] ELSE df[t]
Count(w) == IF StatsRow \in held[w] THEN countNew[w] ELSE count
Total(w) == IF StatsRow \in held[w] THEN totalNew[w] ELSE total

Floor0(x) == IF x > 0 THEN x ELSE 0

\* The rows the trigger may turn to next: a term, and corpus_stats after them.
NextRows(w) == IF ops[w] = <<>> THEN {}
               ELSE IF todo[w] # {} THEN todo[w] ELSE {StatsRow}

\* The row is locked by another transaction: wait for it.
Block(w, x) ==
  /\ x \in NextRows(w) /\ want[w] = None
  /\ HeldByOther(w, x)
  /\ want' = [want EXCEPT ![w] = x]
  /\ UNCHANGED <<committedVars, doc, ops, todo, held, dfNew, countNew, totalNew>>

CanTake(w, x) == /\ x \in NextRows(w) /\ want[w] \in {None, x}
                 /\ ~HeldByOther(w, x)
Take(w, x) == /\ held' = [held EXCEPT ![w] = @ \cup {x}]
              /\ want' = [want EXCEPT ![w] = None]

\* corpus_terms: INSERT ... ON CONFLICT DO UPDATE SET df = df + 1, or
\* UPDATE ... SET df = df - 1 and DELETE ... WHERE df <= 0.
TouchTerm(w, t) ==
  /\ t \in Terms /\ CanTake(w, t) /\ Take(w, t)
  /\ dfNew' = [dfNew EXCEPT ![w][t] =
                 IF Head(ops[w]).del THEN Floor0(Df(w, t) - 1) ELSE Df(w, t) + 1]
  /\ todo' = [todo EXCEPT ![w] = @ \ {t}]
  /\ UNCHANGED <<committedVars, doc, ops, countNew, totalNew>>

\* The length the delete trigger reads from chunk_stats: it fires BEFORE the
\* delete, so the row has not been cascaded away.
DeletedLengthAfter(c) == 0  \* mutant of DeletedLength: an AFTER trigger
DeletedLength(c) == IF c \in chunkStats THEN Length(c) ELSE 0

\* corpus_stats, the last statement of both triggers.
TouchStats(w) ==
  LET op == Head(ops[w])
      rest == Tail(ops[w])
  IN
  /\ CanTake(w, StatsRow) /\ Take(w, StatsRow)
  /\ countNew' = [countNew EXCEPT ![w] =
                    IF op.del THEN Floor0(Count(w) - 1) ELSE Count(w) + 1]
  /\ totalNew' = [totalNew EXCEPT ![w] =
                    IF op.del THEN Floor0(Total(w) - DeletedLength(op.c))
                              ELSE Total(w) + Length(op.c)]
  /\ ops' = [ops EXCEPT ![w] = rest]
  /\ todo' = [todo EXCEPT ![w] = IF rest = <<>> THEN {} ELSE TermRows(Head(rest).c)]
  /\ UNCHANGED <<committedVars, doc, dfNew>>

Release(w) ==
  /\ doc' = [doc EXCEPT ![w] = None]
  /\ ops' = [ops EXCEPT ![w] = <<>>]
  /\ todo' = [todo EXCEPT ![w] = {}]
  /\ held' = [held EXCEPT ![w] = {}]
  /\ want' = [want EXCEPT ![w] = None]
  /\ dfNew' = [dfNew EXCEPT ![w] = [t \in Terms |-> 0]]
  /\ countNew' = [countNew EXCEPT ![w] = 0]
  /\ totalNew' = [totalNew EXCEPT ![w] = 0]

Commit(w) ==
  LET new == Chunks(doc[w]) IN
  /\ doc[w] # None /\ ops[w] = <<>>
  /\ chunks' = chunks \cup new
  /\ chunkStats' = IF triggers THEN chunkStats \cup new ELSE chunkStats
  /\ chunkTerms' = IF triggers THEN chunkTerms \cup {c \in new : TermRows(c) # {}}
                               ELSE chunkTerms
  /\ df' = [t \in Terms |-> Df(w, t)]
  /\ count' = Count(w) /\ total' = Total(w)
  /\ Release(w)
  /\ UNCHANGED triggers

\* w waits, directly or not, for itself.
InCycle(w) ==
  \E S \in SUBSET Workers :
    w \in S /\ \A v \in S : want[v] # None /\ \E u \in S \ {v} : want[v] \in held[u]

\* The transaction fails, or deadlock detection makes it its victim: it rolls
\* back, and worker.py goes on to fail().
Abort(w) == doc[w] # None /\ Release(w) /\ UNCHANGED committedVars

Next ==
  \/ Migrate
  \/ \E w \in Workers :
       \/ \E d \in Docs : Begin(w, d)
       \/ \E x \in Terms \cup {StatsRow} : Block(w, x)
       \/ \E t \in Terms : TouchTerm(w, t)
       \/ TouchStats(w) \/ Commit(w) \/ Abort(w)

Spec == Init /\ [][Next]_vars

-----------------------------------------------------------------------------
\* "A trigger keeps the statistics in the same transaction as the chunk, so
\* they cannot disagree" (schema.sql): in every committed state the frequency
\* of each term, the number of chunks and their total length are those of the
\* chunks table, and no chunk with terms is invisible to BM25, however
\* transactions interleave, abort and follow an upgrade.
StatsAgree ==
  triggers =>
    /\ \A t \in Terms : df[t] = Cardinality({c \in chunks : t \in TermRows(c)})
    /\ count = Cardinality(chunks)
    /\ total = TotalLength(chunks)
    /\ {c \in chunks : TermRows(c) # {}} \subseteq chunkStats \cap chunkTerms

\* deploy/docker-compose.yml on the two workers: "ingestion is embarrassingly
\* parallel across documents", and the per-document transaction "actually
\* isolates": transactions of different documents never deadlock.
NoDeadlock == \A w \in Workers : ~InCycle(w)
=============================================================================
