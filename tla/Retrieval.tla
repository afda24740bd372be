----------------------------- MODULE Retrieval -----------------------------
(***************************************************************************)
(* Retrieval, as Answer and Search (internal/chat/chat.go) do it: hybrid   *)
(* search with Reciprocal Rank Fusion, keyword search when the question    *)
(* could not be embedded (internal/store/store.go), and the reranker       *)
(* (internal/rerank/rerank.go).                                            *)
(*                                                                         *)
(* What the two rankers think of the corpus is an input: the vector order  *)
(* and the keyword order, each a sequence of chunk ids.  So is the reply   *)
(* of the scoring model.                                                   *)
(***************************************************************************)
EXTENDS Integers, Sequences, FiniteSets, SequencesExt

CONSTANTS
  Ids,            \* chunk ids
  VectorTopK, KeywordTopK, RRFK, RerankTopN,   \* config.go
  MaxCandidates,  \* LLMReranker.MaxCandidates
  TopNs,          \* values of top_n
  Indexes, Scores,      \* TLC: what a scoring reply may contain,
  MaxItems, MaxNumbers  \* TLC: and how much of it

ASSUME RetrievalAssumption ==
  /\ Ids \subseteq Nat /\ IsFiniteSet(Ids)
  /\ {VectorTopK, KeywordTopK, RRFK, RerankTopN, MaxCandidates} \subseteq Nat \ {0}
  /\ TopNs \subseteq Nat \ {0}
  /\ Indexes \subseteq Int /\ Scores \subseteq Int /\ {MaxItems, MaxNumbers} \subseteq Nat

Rankings(k) == {s \in SeqOf(Ids, k) : IsInjective(s)}

\* The replies that are a list of scores: of objects, of lists of objects, or of
\* numbers. A number has no index, and a field that is missing is read as 0.
\* Position <<k, i>> is entry i of group k.
Entries(groups) == UNION {{k} \X (DOMAIN groups[k]) : k \in DOMAIN groups}
Items == SeqOf([index : Indexes, score : Scores], MaxItems)
Numbers == SeqOf([index : {0}, score : Scores], MaxNumbers)
NoReply == [form |-> "none", groups |-> <<>>]
Replies ==
  {[form |-> "objects", groups |-> <<s>>] : s \in Items}
    \cup {[form |-> "nested", groups |-> g] :
            g \in {h \in SeqOf(Items, MaxItems) : Cardinality(Entries(h)) <= MaxItems}}
    \cup {[form |-> "numbers", groups |-> <<s>>] : s \in Numbers}

VARIABLES
  pc,
  vector,      \* vector_hits, best first; empty when there is no embedding
  matches,     \* every chunk the keyword scorer finds, best first
  candidates,  \* what the search returns
  topN, reply, \* the call of the reranker
  result       \* what reaches the generator or the client

vars == <<pc, vector, matches, candidates, topN, reply, result>>

Init ==
  /\ pc = "search"
  /\ vector \in Rankings(VectorTopK) /\ matches \in Rankings(Cardinality(Ids))
  /\ candidates = <<>> /\ result = <<>>
  /\ topN \in TopNs /\ reply = NoReply

Least(a, b) == IF a < b THEN a ELSE b
First(s, n) == SubSeq(s, 1, Least(n, Len(s)))

\* S as a sequence, in the order given by the pairs of R.
OrderedBy(S, R) ==
  CHOOSE s \in [1 .. Cardinality(S) -> S] :
    \A i, j \in DOMAIN s : i < j => <<s[i], s[j]>> \in R

-----------------------------------------------------------------------------
(***************************************************************************)
(* HybridSearch and KeywordSearch                                          *)
(***************************************************************************)

\* keyword_hits, best first
KeywordHits == First(matches, KeywordTopK)

\* Scores are fractions <<numerator, denominator>>.
Plus(x, y) == <<x[1] * y[2] + y[1] * x[2], x[2] * y[2]>>
Exceeds(x, y) == x[1] * y[2] > y[1] * x[2]

\* The row of the SELECT over s, 1.0 / ($5 + rank), if c has one.
RankOf(s, c) == CHOOSE r \in DOMAIN s : s[r] = c
RowScore(s, c) == IF c \in ToSet(s) THEN <<1, RRFK + RankOf(s, c)>> ELSE <<0, 1>>

\* SUM(score) over the UNION ALL.
RRFOfUnion(c) ==  \* mutant of RRF: UNION, which drops a row that occurs twice
  LET v == RowScore(vector, c)
      k == RowScore(KeywordHits, c)
  IN IF v = k THEN v ELSE Plus(v, k)
RRF(c) == Plus(RowScore(vector, c), RowScore(KeywordHits, c))

Found == ToSet(vector) \cup ToSet(KeywordHits)

\* ORDER BY f.rrf DESC, ch.id LIMIT $6
FusedOrder ==
  {p \in Found \X Found : \/ Exceeds(RRF(p[1]), RRF(p[2]))
                          \/ ~Exceeds(RRF(p[2]), RRF(p[1])) /\ p[1] < p[2]}
Fused == First(OrderedBy(Found, FusedOrder), RerankTopN)

HybridSearch ==
  /\ pc = "search"
  /\ candidates' = Fused
  /\ pc' = "rerank"
  /\ UNCHANGED <<vector, matches, topN, reply, result>>

\* embedQuestion failed: the keyword ranking alone.
KeywordSearch ==
  /\ pc = "search"
  /\ vector' = <<>>
  /\ candidates' = First(matches, RerankTopN)
  /\ pc' = "rerank"
  /\ UNCHANGED <<matches, topN, reply, result>>

-----------------------------------------------------------------------------
(***************************************************************************)
(* Rerank                                                                  *)
(***************************************************************************)

Noop(s, n) == First(s, n)

\* "Nothing to reorder", or no_rerank, or the Noop reranker.
KeepOrder ==
  /\ pc = "rerank"
  /\ result' = Noop(candidates, topN)
  /\ pc' = "done"
  /\ UNCHANGED <<vector, matches, candidates, topN, reply>>

Scored == pc = "rerank" /\ Len(candidates) > 1 /\ topN < Len(candidates)

Pool == First(candidates, MaxCandidates)

\* The call failed or its text is not a list of scores.
FallbackEmpty == <<>>  \* mutant of Fallback: an error and no chunks
Fallback == Noop(candidates, topN)
Degrade ==
  /\ Scored
  /\ result' = Fallback
  /\ pc' = "done"
  /\ UNCHANGED <<vector, matches, candidates, topN, reply>>

\* flattenScoreItems: a number belongs to the passage at its place.
IndexAt(x, p) == IF x.form = "numbers" THEN p[2] - 1 ELSE x.groups[p[1]][p[2]].index
ScoreAt(x, p) == x.groups[p[1]][p[2]].score

\* parseScores: the last score of an index counts, an index that is not of the
\* pool is ignored, one that is missing scores 0.
ScoresOf(x, n) == {p \in Entries(x.groups) : IndexAt(x, p) = n}
After(p, q) == p[1] > q[1] \/ (p[1] = q[1] /\ p[2] > q[2])
LastScore(x, S) ==
  IF S = {} THEN 0
  ELSE ScoreAt(x, CHOOSE p \in S : \A q \in S \ {p} : After(p, q))
ParseScoresFromOne(x) ==  \* mutant of ParseScores: indexes counted from 1
  [i \in DOMAIN Pool |-> LastScore(x, ScoresOf(x, i))]
ParseScores(x) == [i \in DOMAIN Pool |-> LastScore(x, ScoresOf(x, i - 1))]
Usable(x) == \E i \in DOMAIN Pool : ScoresOf(x, i - 1) # {}

\* sort.SliceStable: the higher score first, ties in the order of the pool.
ByScore(scores) ==
  {p \in (DOMAIN scores) \X (DOMAIN scores) :
     \/ scores[p[1]] > scores[p[2]]
     \/ scores[p[1]] = scores[p[2]] /\ p[1] < p[2]}
Reorder(x) ==
  LET places == OrderedBy(DOMAIN Pool, ByScore(ParseScores(x)))
  IN [i \in DOMAIN places |-> Pool[places[i]]]

Rerank ==
  /\ Scored
  /\ \E x \in Replies :
       /\ reply' = x
       /\ result' = IF Usable(x) THEN Noop(Reorder(x), topN) ELSE Fallback
  /\ pc' = "done"
  /\ UNCHANGED <<vector, matches, candidates, topN>>

Next == HybridSearch \/ KeywordSearch \/ KeepOrder \/ Degrade \/ Rerank

Spec == Init /\ [][Next]_vars

-----------------------------------------------------------------------------
\* a's place in s, or a place after every other when s has no a.
Place(s, a) == IF \E i \in DOMAIN s : s[i] = a
                 THEN CHOOSE i \in DOMAIN s : s[i] = a ELSE Len(s) + 1

Before(s, a, b) == Place(s, a) < Place(s, b)

\* Fusion never contradicts two rankers that agree: when one chunk is ahead of
\* another in one ranking and not behind it in the other, the first is ahead
\* among the candidates, and the second is not there without it.
FusionIsMonotone ==
  pc # "search" =>
    \A a, b \in Found :
      /\ \/ Before(vector, a, b) /\ ~Before(KeywordHits, b, a)
         \/ Before(KeywordHits, a, b) /\ ~Before(vector, b, a)
      /\ b \in ToSet(candidates)
      => Before(candidates, a, b)

\* store.go on RRF: k "damps the top-rank advantage". With k at least the length
\* of the rankings (config.go: 60, 30 and 30), a chunk that both rankers found is
\* ahead of every chunk that only one found, even of that one's first.
AgreementWins ==
  pc # "search" /\ RRFK >= VectorTopK /\ RRFK >= KeywordTopK =>
    \A a \in ToSet(vector) \cap ToSet(KeywordHits) :
      \A b \in ToSet(candidates) \ (ToSet(vector) \cap ToSet(KeywordHits)) :
        Before(candidates, a, b)

\* What a reply says: score c[2] for the passage at place c[1].
Claims(x) ==
  UNION {LET g == x.groups[k] IN
         {<<IF x.form = "numbers" THEN i ELSE g[i].index + 1, g[i].score>> :
            i \in DOMAIN g} : k \in DOMAIN x.groups}

\* The passage that the scoring model puts above all others is served first,
\* in whichever of the three shapes it answers, and whatever else the reply
\* repeats, leaves out or invents.
BestScoreFirst ==
  pc = "done" =>
    \A c \in Claims(reply) :
      /\ c[1] \in DOMAIN Pool /\ c[2] > 0
      /\ \A o \in Claims(reply) \ {c} : o[1] # c[1] /\ o[2] < c[2]
      => result[1] = Pool[c[1]]

\* rerank.go: "If it fails, serving the fusion order is a worse answer, not a
\* failed request." What was found is served, each chunk once, as many chunks
\* as asked for and as the scoring prompt holds.
DegradedStillServes ==
  pc = "done" =>
    /\ IsInjective(result) /\ ToSet(result) \subseteq ToSet(candidates)
    /\ Len(result) >= Least(topN, Len(Pool))

\* chat.go on top_n: it "overrides how many chunks reach the generator": that
\* many are served when the search found them.
TopNServed == pc = "done" => Len(result) = Least(topN, Len(candidates))
=============================================================================
