-------------------------- MODULE BM25StatsProofs --------------------------
(***************************************************************************)
(* The BM25 statistics agree with the chunks table in every committed      *)
(* state, for any number of documents, workers and terms.                  *)
(*                                                                         *)
(* StatsAgree speaks of committed states only, so it is not inductive: a   *)
(* commit installs what its transaction has written to the rows it locked. *)
(* StatsInv says what that is. A transaction that holds a row has there    *)
(* the count over View: the committed chunks, with those of its own        *)
(* document as far as its triggers have come for that row. A row it does   *)
(* not hold is one its triggers have not changed, and since locks are      *)
(* exclusive no other commit changes a row that it does hold.              *)
(***************************************************************************)
EXTENDS BM25Stats, FiniteSetTheorems, SequenceTheorems, TLAPS

AllChunks == UNION {Chunks(d) : d \in Docs}
OpSet == [del : BOOLEAN, c : AllChunks]
Rows == Terms \cup {StatsRow}

TypeInv ==
  /\ triggers \in BOOLEAN
  /\ chunks \subseteq AllChunks
  /\ chunkStats \subseteq chunks /\ chunkTerms \subseteq chunks
  /\ df \in [Terms -> Nat] /\ count \in Nat /\ total \in Nat
  /\ doc \in [Workers -> Docs \cup {None}]
  /\ ops \in [Workers -> Seq(OpSet)]
  /\ todo \in [Workers -> SUBSET Terms]
  /\ held \in [Workers -> SUBSET Rows]
  /\ want \in [Workers -> Rows \cup {None}]
  /\ dfNew \in [Workers -> [Terms -> Nat]]
  /\ countNew \in [Workers -> Nat] /\ totalNew \in [Workers -> Nat]

\* A document's chunks are committed together, and ingested by one worker.
WholeDocs == \A d \in Docs : Chunks(d) \subseteq chunks \/ Chunks(d) \cap chunks = {}
OneIngest == \A v, w \in Workers : doc[v] = doc[w] /\ doc[v] # None => v = w

\* Row locks are exclusive.
Exclusive == \A v, w \in Workers : v # w => held[v] \cap held[w] = {}

\* Before the triggers exist, and between transactions, there is nothing to do.
Idle ==
  /\ \A w \in Workers : doc[w] = None \/ ~triggers =>
       ops[w] = <<>> /\ todo[w] = {} /\ held[w] = {}
  /\ ~triggers => /\ df = [t \in Terms |-> 0] /\ count = 0 /\ total = 0
                  /\ chunkStats = {} /\ chunkTerms = {}

\* The triggers that have still to fire in a transaction on document d: deletes
\* of committed chunks before inserts, each once, and an insert for everything
\* that is deleted.
Remaining(s, d, cs) ==
  /\ \A i \in 1 .. Len(s) : /\ s[i].c \in Chunks(d)
                            /\ s[i].del => s[i].c \in cs
                            /\ s[i].del => \E j \in 1 .. Len(s) :
                                             ~s[j].del /\ s[j].c = s[i].c
  /\ \A i, j \in 1 .. Len(s) : i # j => s[i].del # s[j].del \/ s[i].c # s[j].c
  /\ \A i, j \in 1 .. Len(s) : i < j /\ s[j].del => s[i].del

OpsInv(w) ==
  /\ Remaining(ops[w], doc[w], chunks)
  /\ ops[w] = <<>> => todo[w] = {}
  /\ ops[w] # <<>> => todo[w] \subseteq TermRows(ops[w][1].c)

\* The trigger for a chunk c changes row x.
Touches(c, x) == x = StatsRow \/ x \in TermRows(c)

\* With triggers s left, and terms T of the first, c has still to be deleted (or
\* inserted) in row x.
Pending(s, T, c, x, del) ==
  \E j \in 1 .. Len(s) : /\ s[j].del = del /\ s[j].c = c
                         /\ j = 1 => x = StatsRow \/ x \in T

\* Row x counts chunk c at this point of the transaction on c's document.
Present(s, T, c, x) == Pending(s, T, c, x, TRUE) \/ ~Pending(s, T, c, x, FALSE)

\* The chunks that row x counts for a transaction on d, if cs are committed.
View(cs, d, s, T, x) ==
  {c \in AllChunks : /\ Touches(c, x)
                     /\ IF c \in Chunks(d) THEN Present(s, T, c, x) ELSE c \in cs}

Untouched(w) ==
  \A x \in Rows \ held[w] : \A c \in Chunks(doc[w]) :
    Touches(c, x) => (Present(ops[w], todo[w], c, x) <=> c \in chunks)

Written(w) ==
  LET Seen(x) == View(chunks, doc[w], ops[w], todo[w], x) IN
  /\ \A t \in Terms \cap held[w] : dfNew[w][t] = Cardinality(Seen(t))
  /\ StatsRow \in held[w] => /\ countNew[w] = Cardinality(Seen(StatsRow))
                             /\ totalNew[w] = TotalLength(Seen(StatsRow))

TxInv == \A w \in Workers : doc[w] # None /\ triggers =>
           OpsInv(w) /\ Untouched(w) /\ Written(w)

StatsInv == /\ TypeInv /\ WholeDocs /\ OneIngest /\ Exclusive /\ Idle
            /\ TxInv /\ StatsAgree

-----------------------------------------------------------------------------
(***************************************************************************)
(* Chunks and tokens.                                                      *)
(***************************************************************************)

\* A chunk belongs to one document, and there are finitely many.
LEMMA ChunkFacts ==
  /\ \A d, e \in Docs : \A c : c \in Chunks(d) /\ c \in Chunks(e) => d = e
  /\ \A d \in Docs : Chunks(d) # {} /\ IsFiniteSet(Chunks(d)) /\ Chunks(d) \subseteq AllChunks
  /\ \A c \in AllChunks : \E d \in Docs : c \in Chunks(d)
  /\ IsFiniteSet(AllChunks)
<1>1. \A d, e \in Docs : \A c : c \in Chunks(d) /\ c \in Chunks(e) => d = e
  BY DEF Chunks
<1>2. ASSUME NEW d \in Docs
      PROVE  Chunks(d) # {} /\ IsFiniteSet(Chunks(d)) /\ Chunks(d) \subseteq AllChunks
  <2>1. Tf[d] \in Seq([Terms -> Nat]) /\ Tf[d] # <<>>  BY BM25Assumption
  <2>2. Len(Tf[d]) \in Nat /\ Len(Tf[d]) > 0  BY <2>1
  <2>3. IsFiniteSet({d})  BY FS_Singleton
  <2>6. IsFiniteSet(1 .. Len(Tf[d]))  BY <2>2, FS_Interval
  <2>4. IsFiniteSet(Chunks(d))  BY <2>3, <2>6, FS_Product DEF Chunks
  <2>5. <<d, 1>> \in Chunks(d)  BY <2>2 DEF Chunks
  <2> QED  BY <2>4, <2>5 DEF AllChunks
<1>3. \A c \in AllChunks : \E d \in Docs : c \in Chunks(d)  BY DEF AllChunks
<1>4. IsFiniteSet(AllChunks)
  <2> DEFINE f == [d \in Docs |-> Chunks(d)]
             T == {Chunks(d) : d \in Docs}
  <2>1. f \in Surjection(Docs, T)  BY DEF Surjection
  <2>2. IsFiniteSet(T)  BY <2>1, FS_Surjection, BM25Assumption
  <2>3. \A S \in T : IsFiniteSet(S)  BY <1>2
  <2> QED  BY <2>2, <2>3, FS_UNION DEF AllChunks
<1> QED  BY <1>1, <1>2, <1>3, <1>4

\* A chunk has finitely many tokens, none if it has no terms, and shares none
\* with another.
LEMMA TokenFacts ==
  ASSUME NEW c \in AllChunks
  PROVE  /\ IsFiniteSet(Tokens(c)) /\ Length(c) \in Nat
         /\ TermRows(c) = {} => Tokens(c) = {} /\ Length(c) = 0
         /\ TermRows(c) \subseteq Terms
         /\ \A x \in Tokens(c) : x[1] = c
<1>1. PICK d \in Docs : c \in Chunks(d)  BY ChunkFacts
<1>2. /\ c[1] = d /\ c[2] \in 1 .. Len(Tf[d])
  BY <1>1 DEF Chunks
<1>3. Tf[d] \in Seq([Terms -> Nat])  BY BM25Assumption
<1>4. PICK g \in [Terms -> Nat] : g = Tf[c[1]][c[2]]  BY <1>2, <1>3
<1> DEFINE Tok(t) == {<<c, t, n>> : n \in 1 .. g[t]}
           T == {Tok(t) : t \in Terms}
           f == [t \in Terms |-> Tok(t)]
<1>5. ASSUME NEW t \in Terms PROVE IsFiniteSet(Tok(t))
  <2> DEFINE h == [n \in 1 .. g[t] |-> <<c, t, n>>]
  <2>1. h \in Surjection(1 .. g[t], Tok(t))  BY DEF Surjection
  <2>2. IsFiniteSet(1 .. g[t])  BY <1>4, FS_Interval
  <2> QED  BY <2>1, <2>2, FS_Surjection
<1>6. f \in Surjection(Terms, T)
  <2> HIDE DEF Tok
  <2> QED  BY DEF Surjection
<1>7. IsFiniteSet(T)  BY <1>6, FS_Surjection, BM25Assumption
<1>8. Tokens(c) = UNION T  BY <1>4 DEF Tokens
<1>9. IsFiniteSet(Tokens(c))
  <2>1. \A S \in T : IsFiniteSet(S)
    <3> HIDE DEF Tok
    <3> QED  BY <1>5
  <2> HIDE DEF T
  <2> QED  BY <1>7, <1>8, <2>1, FS_UNION
<1>10. Length(c) \in Nat  BY <1>9, FS_CardinalityType DEF Length
<1>11. ASSUME TermRows(c) = {} PROVE Tokens(c) = {} /\ Length(c) = 0
  <2>1. \A t \in Terms : g[t] = 0  BY <1>4, <1>11 DEF TermRows
  <2>2. \A t \in Terms : Tok(t) = {}  BY <2>1
  <2>3. Tokens(c) = {}  BY <1>8, <2>2
  <2> QED  BY <2>3, FS_EmptySet DEF Length
<1>12. \A x \in Tokens(c) : x[1] = c  BY <1>8
<1> QED  BY <1>9, <1>10, <1>11, <1>12 DEF TermRows

\* The total length of a set of chunks grows by that of a chunk that is added.
LEMMA TotalFacts ==
  ASSUME NEW S \in SUBSET AllChunks
  PROVE  /\ TotalLength(S) \in Nat
         /\ \A c \in AllChunks \ S : TotalLength(S \cup {c}) = TotalLength(S) + Length(c)
         /\ \A c \in S : TotalLength(S \ {c}) = TotalLength(S) - Length(c)
<1> DEFINE U(X) == UNION {Tokens(c) : c \in X}
<1>1. ASSUME NEW X \in SUBSET AllChunks PROVE IsFiniteSet(U(X))
  <2> DEFINE f == [c \in X |-> Tokens(c)]
             T == {Tokens(c) : c \in X}
  <2>1. IsFiniteSet(X)  BY ChunkFacts, FS_Subset
  <2>2. f \in Surjection(X, T)  BY DEF Surjection
  <2>3. IsFiniteSet(T)  BY <2>1, <2>2, FS_Surjection
  <2>4. \A Y \in T : IsFiniteSet(Y)  BY TokenFacts
  <2> QED  BY <2>3, <2>4, FS_UNION
<1>2. ASSUME NEW X \in SUBSET AllChunks, NEW c \in AllChunks \ X
      PROVE  TotalLength(X \cup {c}) = TotalLength(X) + Length(c)
  <2>1. U(X \cup {c}) = U(X) \cup Tokens(c)  OBVIOUS
  <2>2. U(X) \cap Tokens(c) = {}
    <3> SUFFICES ASSUME NEW b \in X, NEW x, x \in Tokens(b), x \in Tokens(c)
                 PROVE  FALSE
        OBVIOUS
    <3>1. x[1] = b /\ x[1] = c  BY TokenFacts
    <3> QED  BY <3>1
  <2>3. IsFiniteSet(U(X)) /\ IsFiniteSet(Tokens(c))  BY <1>1, TokenFacts
  <2>4. /\ Cardinality(U(X) \cup Tokens(c))
             = Cardinality(U(X)) + Cardinality(Tokens(c)) - Cardinality(U(X) \cap Tokens(c))
        /\ Cardinality(U(X)) \in Nat /\ Cardinality(Tokens(c)) \in Nat
    BY <2>3, FS_Union, FS_CardinalityType
  <2>5. Cardinality(U(X) \cap Tokens(c)) = 0  BY <2>2, FS_EmptySet
  <2>6. /\ TotalLength(X \cup {c}) = Cardinality(U(X \cup {c}))
        /\ TotalLength(X) = Cardinality(U(X)) /\ Length(c) = Cardinality(Tokens(c))
    BY DEF TotalLength, Length
  <2> HIDE DEF U
  <2>7. TotalLength(X \cup {c}) = Cardinality(U(X) \cup Tokens(c))
    BY <2>1, <2>6, Zenon
  <2>8. Cardinality(U(X) \cup Tokens(c)) = Cardinality(U(X)) + Cardinality(Tokens(c))
    BY <2>4, <2>5
  <2> QED  BY <2>6, <2>7, <2>8, Zenon
<1>3. \A X \in SUBSET AllChunks : TotalLength(X) \in Nat
  BY <1>1, FS_CardinalityType DEF TotalLength
<1>4. ASSUME NEW c \in S PROVE TotalLength(S \ {c}) = TotalLength(S) - Length(c)
  <2>1. (S \ {c}) \cup {c} = S  OBVIOUS
  <2>2. TotalLength(S) = TotalLength(S \ {c}) + Length(c)  BY <2>1, <1>2
  <2>3. TotalLength(S \ {c}) \in Nat /\ Length(c) \in Nat  BY <1>3, TokenFacts
  <2> QED  BY <2>2, <2>3
<1> QED  BY <1>2, <1>3, <1>4

\* Chunks without terms do not count in the total length.
LEMMA TotalIgnoresEmpty ==
  ASSUME NEW S \in SUBSET AllChunks, NEW T \in SUBSET S,
         \A c \in S \ T : TermRows(c) = {}
  PROVE  TotalLength(T) = TotalLength(S)
<1>1. \A c \in S \ T : Tokens(c) = {}  BY TokenFacts
<1>2. (UNION {Tokens(c) : c \in S}) = UNION {Tokens(c) : c \in T}  BY <1>1
<1> QED  BY <1>2 DEF TotalLength

\* Counting a chunk in or out of a set.
LEMMA CountFacts ==
  ASSUME NEW S \in SUBSET AllChunks
  PROVE  /\ Cardinality(S) \in Nat
         /\ \A c \in AllChunks \ S : Cardinality(S \cup {c}) = Cardinality(S) + 1
         /\ \A c \in S : Cardinality(S \ {c}) = Cardinality(S) - 1
<1>1. IsFiniteSet(S)  BY ChunkFacts, FS_Subset
<1> QED  BY <1>1, FS_CardinalityType, FS_AddElement, FS_RemoveElement

-----------------------------------------------------------------------------
(***************************************************************************)
(* What one trigger does to the chunks a row counts.                       *)
(***************************************************************************)

\* The triggers of a transaction when it begins, and what its rows count then.
LEMMA OpsFacts ==
  ASSUME chunks \subseteq AllChunks, WholeDocs, NEW d \in Docs
  PROVE  /\ Ops(d) \in Seq(OpSet) /\ Ops(d) # <<>>
         /\ Remaining(Ops(d), d, chunks)
         /\ \A T : \A x \in Rows : \A c \in Chunks(d) :
              Touches(c, x) /\ TermRows(Ops(d)[1].c) \subseteq T =>
                (Present(Ops(d), T, c, x) <=> c \in chunks)
<1> DEFINE In(o) == [del |-> FALSE, c |-> <<d, o>>]
           Out(o) == [del |-> TRUE, c |-> <<d, o>>]
           n == Len(Tf[d])
           B == [o \in 1 .. n |-> In(o)]
           A == IF Chunks(d) \subseteq chunks THEN [o \in 1 .. n |-> Out(o)] ELSE <<>>
           s == Ops(d)
<1>1. Tf[d] \in Seq([Terms -> Nat]) /\ Tf[d] # <<>>  BY BM25Assumption
<1>2. n \in Nat /\ n > 0  BY <1>1
<1> HIDE DEF n
<1>3. /\ \A o \in 1 .. n : <<d, o>> \in Chunks(d)
      /\ \A c \in Chunks(d) : \E o \in 1 .. n : c = <<d, o>>
  BY DEF Chunks, n
<1>4. /\ \A o \in 1 .. n : In(o) \in OpSet /\ Out(o) \in OpSet
      /\ \A o : /\ In(o).del = FALSE /\ In(o).c = <<d, o>>
                /\ Out(o).del = TRUE /\ Out(o).c = <<d, o>>
  <2>1. \A o \in 1 .. n : <<d, o>> \in AllChunks  BY <1>3, ChunkFacts
  <2> QED  BY <2>1 DEF OpSet
<1>5. B \in Seq(OpSet) /\ Len(B) = n /\ (\A o \in 1 .. n : B[o] = In(o))
  <2> HIDE DEF In
  <2>1. B \in [1 .. n -> OpSet]  BY <1>4
  <2> QED  BY <2>1, <1>2
<1>6. CASE Chunks(d) \subseteq chunks
  <2>1. A \in Seq(OpSet) /\ Len(A) = n /\ (\A o \in 1 .. n : A[o] = Out(o))
    <3> HIDE DEF Out
    <3>1. A = [o \in 1 .. n |-> Out(o)]  BY <1>6
    <3>2. A \in [1 .. n -> OpSet]  BY <1>4, <3>1
    <3> QED  BY <3>1, <3>2, <1>2
  <2>2. s = A \o B  BY DEF Ops, n
  <2> HIDE DEF A, B, s, In, Out
  <2>3. /\ s \in Seq(OpSet) /\ Len(s) = n + n
        /\ \A i \in 1 .. n + n : s[i] = IF i <= n THEN A[i] ELSE B[i - n]
    <3>1. /\ A \o B \in Seq(OpSet)
          /\ Len(A \o B) = Len(A) + Len(B)
          /\ \A i \in 1 .. Len(A) + Len(B) : (A \o B)[i] =
               IF i <= Len(A) THEN A[i] ELSE B[i - Len(A)]
      BY <2>1, <1>5, ConcatProperties, Zenon
    <3> QED  BY <3>1, <2>1, <2>2, <1>5, Zenon
  <2>4. /\ \A o \in 1 .. n : s[o].del = TRUE /\ s[o].c = <<d, o>>
        /\ \A o \in 1 .. n : s[n + o].del = FALSE /\ s[n + o].c = <<d, o>>
        /\ \A i \in 1 .. n + n : \E o \in 1 .. n :
             \/ i = o
             \/ i = n + o
    <3>1. ASSUME NEW o \in 1 .. n PROVE s[o] = Out(o)
      <4>1. o \in 1 .. n + n /\ o <= n  BY <1>2
      <4> QED  BY <4>1, <2>1, <2>3
    <3>2. ASSUME NEW o \in 1 .. n PROVE s[n + o] = In(o)
      <4>1. n + o \in 1 .. n + n /\ ~(n + o <= n) /\ (n + o) - n = o  BY <1>2
      <4> QED  BY <4>1, <2>3, <1>5
    <3>3. ASSUME NEW i \in 1 .. n + n PROVE \E o \in 1 .. n : i = o \/ i = n + o
      <4>1. CASE i <= n  BY <4>1, <1>2
      <4>2. CASE i > n
        <5>1. i - n \in 1 .. n /\ i = n + (i - n)  BY <4>2, <1>2
        <5> QED  BY <5>1
      <4> QED  BY <4>1, <4>2, <1>2
    <3> QED  BY <3>1, <3>2, <3>3, <1>4
  <2>5. Remaining(s, d, chunks)
    <3>1. ASSUME NEW i \in 1 .. n + n
          PROVE  /\ s[i].c \in Chunks(d) /\ (s[i].del => s[i].c \in chunks)
                 /\ s[i].del => \E j \in 1 .. n + n : ~s[j].del /\ s[j].c = s[i].c
      <4>1. PICK o \in 1 .. n : i = o \/ i = n + o  BY <2>4
      <4>2. n + o \in 1 .. n + n  BY <1>2
      <4>3. CASE i = o  BY <4>2, <4>3, <2>4, <1>3, <1>6
      <4>4. CASE i = n + o  BY <4>4, <2>4, <1>3
      <4> QED  BY <4>1, <4>3, <4>4
    <3>2. ASSUME NEW i \in 1 .. n + n, NEW j \in 1 .. n + n, i # j
          PROVE  s[i].del # s[j].del \/ s[i].c # s[j].c
      <4>1. PICK o \in 1 .. n : i = o \/ i = n + o  BY <2>4
      <4>2. PICK q \in 1 .. n : j = q \/ j = n + q  BY <2>4
      <4> QED  BY <3>2, <4>1, <4>2, <2>4
    <3>3. ASSUME NEW i \in 1 .. n + n, NEW j \in 1 .. n + n, i < j, s[j].del
          PROVE  s[i].del
      <4>1. PICK q \in 1 .. n : j = q \/ j = n + q  BY <2>4
      <4>2. j = q  BY <3>3, <4>1, <2>4
      <4>3. i \in 1 .. n  BY <3>3, <4>2, <1>2
      <4> QED  BY <4>3, <2>4
    <3> QED  BY <2>3, <3>1, <3>2, <3>3 DEF Remaining
  <2>6. s # <<>>  BY <2>3, <1>2
  <2>7. ASSUME NEW T, NEW x \in Rows, NEW c \in Chunks(d), Touches(c, x),
               TermRows(s[1].c) \subseteq T
        PROVE  Present(s, T, c, x) /\ c \in chunks
    <3>1. PICK o \in 1 .. n : c = <<d, o>>  BY <1>3
    <3>2. o \in 1 .. Len(s) /\ s[o].del = TRUE /\ s[o].c = c
      <4>1. s[o] \in OpSet /\ o \in 1 .. Len(s)  BY <2>3, <1>2
      <4> QED  BY <4>1, <3>1, <2>4 DEF OpSet
    <3>3. o = 1 => x = StatsRow \/ x \in T  BY <3>2, <2>7 DEF Touches
    <3>4. Pending(s, T, c, x, TRUE)  BY <3>2, <3>3 DEF Pending
    <3> QED  BY <3>4, <1>6 DEF Present
  <2> QED  BY <2>3, <2>5, <2>6, <2>7 DEF s
<1>7. CASE ~(Chunks(d) \subseteq chunks)
  <2>1. s = B
    <3>1. A = <<>>  BY <1>7
    <3>2. s = A \o B  BY DEF Ops, n
    <3> HIDE DEF s, A, B
    <3>3. s = <<>> \o B  BY <3>1, <3>2
    <3> QED  BY <3>3, <1>5, ConcatEmptySeq, Zenon
  <2>2. Chunks(d) \cap chunks = {}  BY <1>7 DEF WholeDocs
  <2>3. \A o \in 1 .. n : s[o].del = FALSE /\ s[o].c = <<d, o>>
    BY <2>1, <1>4, <1>5
  <2>4. s \in Seq(OpSet) /\ Len(s) = n  BY <2>1, <1>5
  <2> HIDE DEF s, B
  <2>5. Remaining(s, d, chunks)
    <3>1. \A o \in 1 .. n : s[o].del = FALSE /\ s[o].c \in Chunks(d)  BY <2>3, <1>3
    <3>2. \A i, j \in 1 .. n : i # j => s[i].c # s[j].c  BY <2>3
    <3> QED  BY <2>4, <3>1, <3>2 DEF Remaining
  <2>6. s # <<>>  BY <2>4, <1>2
  <2>7. ASSUME NEW T, NEW x \in Rows, NEW c \in Chunks(d), Touches(c, x),
               TermRows(s[1].c) \subseteq T
        PROVE  ~Present(s, T, c, x) /\ c \notin chunks
    <3>1. PICK o \in 1 .. n : c = <<d, o>>  BY <1>3
    <3>2. o = 1 => x = StatsRow \/ x \in T  BY <3>1, <2>3, <2>7 DEF Touches
    <3>3. Pending(s, T, c, x, FALSE)  BY <3>1, <3>2, <2>3, <2>4 DEF Pending
    <3>4. ~Pending(s, T, c, x, TRUE)  BY <2>3, <2>4 DEF Pending
    <3> QED  BY <3>3, <3>4, <2>2 DEF Present
  <2> QED  BY <2>4, <2>5, <2>6, <2>7 DEF s
<1> QED  BY <1>6, <1>7

\* With the first trigger done the rest is still in order.
LEMMA TailRemaining ==
  ASSUME NEW s \in Seq(OpSet), s # <<>>, NEW d, NEW cs, Remaining(s, d, cs)
  PROVE  /\ Tail(s) \in Seq(OpSet) /\ Remaining(Tail(s), d, cs)
         /\ Len(s) \in Nat /\ Len(s) >= 1 /\ Len(Tail(s)) = Len(s) - 1
         /\ \A j \in 1 .. Len(Tail(s)) : j + 1 \in 1 .. Len(s) /\ Tail(s)[j] = s[j + 1]
         /\ Head(s) = s[1] /\ s[1] \in OpSet
<1>1. /\ Tail(s) \in Seq(OpSet) /\ Len(s) \in Nat /\ Len(s) >= 1
      /\ Len(Tail(s)) = Len(s) - 1 /\ Head(s) = s[1] /\ s[1] \in OpSet
      /\ \A j \in 1 .. Len(Tail(s)) : j + 1 \in 1 .. Len(s) /\ Tail(s)[j] = s[j + 1]
  OBVIOUS
<1> DEFINE r == Tail(s)
<1> HIDE DEF r
<1>2. /\ Len(r) = Len(s) - 1
      /\ \A j \in 1 .. Len(r) : j + 1 \in 1 .. Len(s) /\ r[j] = s[j + 1]
      /\ \A i \in 1 .. Len(s) : i # 1 => i - 1 \in 1 .. Len(r) /\ r[i - 1] = s[i]
  <2>1. \A j \in 1 .. Len(r) : j + 1 \in 1 .. Len(s) /\ r[j] = s[j + 1]  BY <1>1 DEF r
  <2>2. Len(r) = Len(s) - 1  BY <1>1 DEF r
  <2>3. ASSUME NEW i \in 1 .. Len(s), i # 1
        PROVE  i - 1 \in 1 .. Len(r) /\ r[i - 1] = s[i]
    <3>1. i - 1 \in 1 .. Len(r) /\ (i - 1) + 1 = i  BY <2>2, <2>3, <1>1
    <3> QED  BY <3>1, <2>1
  <2> QED  BY <2>1, <2>2, <2>3
<1>3. ASSUME NEW i \in 1 .. Len(r)
      PROVE  /\ r[i].c \in Chunks(d) /\ (r[i].del => r[i].c \in cs)
             /\ r[i].del => \E j \in 1 .. Len(r) : ~r[j].del /\ r[j].c = r[i].c
  <2>1. i + 1 \in 1 .. Len(s) /\ r[i] = s[i + 1] /\ 1 < i + 1 /\ 1 \in 1 .. Len(s)
    BY <1>1, <1>2
  <2>2. ASSUME r[i].del PROVE \E j \in 1 .. Len(r) : ~r[j].del /\ r[j].c = r[i].c
    <3>1. s[1].del  BY <2>1, <2>2 DEF Remaining
    <3>2. PICK k \in 1 .. Len(s) : ~s[k].del /\ s[k].c = s[i + 1].c
      BY <2>1, <2>2 DEF Remaining
    <3>3. k # 1  BY <3>1, <3>2
    <3>4. k - 1 \in 1 .. Len(r) /\ r[k - 1] = s[k]  BY <3>3, <1>2
    <3> QED  BY <3>2, <3>4, <2>1
  <2> QED  BY <2>1, <2>2 DEF Remaining
<1>4. ASSUME NEW i \in 1 .. Len(r), NEW j \in 1 .. Len(r), i # j
      PROVE  r[i].del # r[j].del \/ r[i].c # r[j].c
  <2>1. /\ i + 1 \in 1 .. Len(s) /\ r[i] = s[i + 1]
        /\ j + 1 \in 1 .. Len(s) /\ r[j] = s[j + 1] /\ i + 1 # j + 1
    BY <1>2, <1>4
  <2> QED  BY <2>1 DEF Remaining
<1>5. ASSUME NEW i \in 1 .. Len(r), NEW j \in 1 .. Len(r), i < j, r[j].del
      PROVE  r[i].del
  <2>1. /\ i + 1 \in 1 .. Len(s) /\ r[i] = s[i + 1]
        /\ j + 1 \in 1 .. Len(s) /\ r[j] = s[j + 1] /\ i + 1 < j + 1
    BY <1>2, <1>5
  <2> QED  BY <2>1, <1>5 DEF Remaining
<1>6. Remaining(r, d, cs)  BY <1>3, <1>4, <1>5 DEF Remaining
<1> QED  BY <1>1, <1>6 DEF r

\* A trigger after the first deletes (or inserts) c.
Later(s, c, b) == \E j \in 1 .. Len(s) : j # 1 /\ s[j].del = b /\ s[j].c = c

\* After a delete of a chunk comes its insert and no second delete; after an
\* insert comes neither.
LEMMA FirstTrigger ==
  ASSUME NEW s \in Seq(OpSet), s # <<>>, NEW d, NEW cs, Remaining(s, d, cs)
  PROVE  /\ s[1].del = TRUE => /\ ~Later(s, s[1].c, TRUE)
                               /\ Later(s, s[1].c, FALSE)
         /\ s[1].del = FALSE => /\ ~Later(s, s[1].c, TRUE)
                                /\ ~Later(s, s[1].c, FALSE)
         /\ s[1].c \in Chunks(d) /\ s[1].del \in BOOLEAN
         /\ s[1].del = TRUE => s[1].c \in cs
         /\ \A T, x, c : Pending(s, T, c, x, TRUE) <=>
              Later(s, c, TRUE) \/ (s[1].del = TRUE /\ s[1].c = c /\ (x = StatsRow \/ x \in T))
         /\ \A T, x, c : Pending(s, T, c, x, FALSE) <=>
              Later(s, c, FALSE) \/ (s[1].del = FALSE /\ s[1].c = c /\ (x = StatsRow \/ x \in T))
<1>1. /\ Len(s) \in Nat /\ Len(s) >= 1 /\ 1 \in 1 .. Len(s)
      /\ \A i \in 1 .. Len(s) : s[i] \in OpSet /\ s[i].del \in BOOLEAN
  <2>1. Len(s) \in Nat /\ Len(s) >= 1 /\ \A i \in 1 .. Len(s) : s[i] \in OpSet
    OBVIOUS
  <2> QED  BY <2>1 DEF OpSet
<1>2. ~Later(s, s[1].c, s[1].del)  BY <1>1 DEF Later, Remaining
<1>3. ASSUME s[1].del = TRUE PROVE Later(s, s[1].c, FALSE)
  <2>1. PICK j \in 1 .. Len(s) : ~s[j].del /\ s[j].c = s[1].c
    BY <1>1, <1>3 DEF Remaining
  <2> QED  BY <1>1, <1>3, <2>1 DEF Later
<1>4. ASSUME s[1].del = FALSE PROVE ~Later(s, s[1].c, TRUE)
  <2> SUFFICES ASSUME NEW j \in 1 .. Len(s), j # 1, s[j].del = TRUE PROVE FALSE
      BY DEF Later
  <2>1. 1 < j  BY <1>1
  <2> QED  BY <1>1, <1>4, <2>1 DEF Remaining
<1>5. ASSUME NEW T, NEW x, NEW c
      PROVE  /\ Pending(s, T, c, x, TRUE) <=> Later(s, c, TRUE)
                  \/ (s[1].del = TRUE /\ s[1].c = c /\ (x = StatsRow \/ x \in T))
             /\ Pending(s, T, c, x, FALSE) <=> Later(s, c, FALSE)
                  \/ (s[1].del = FALSE /\ s[1].c = c /\ (x = StatsRow \/ x \in T))
  BY <1>1 DEF Pending, Later
<1>6. s[1].c \in Chunks(d) /\ (s[1].del = TRUE => s[1].c \in cs)
  BY <1>1 DEF Remaining
<1> QED  BY <1>1, <1>2, <1>3, <1>4, <1>5, <1>6

\* Done(s, T, r, U, x): going from triggers s and terms T to r and U, row x has
\* been brought up to date with the first trigger of s, and with nothing else.
Done(s, T, r, U, x) ==
  /\ \A c : c # s[1].c /\ Touches(c, x) => (Present(r, U, c, x) <=> Present(s, T, c, x))
  /\ s[1].del = TRUE => Present(s, T, s[1].c, x) /\ ~Present(r, U, s[1].c, x)
  /\ s[1].del = FALSE => ~Present(s, T, s[1].c, x) /\ Present(r, U, s[1].c, x)

\* The other rows count the same chunks as before.
Same(s, T, r, U, x) == \A c : Touches(c, x) => (Present(r, U, c, x) <=> Present(s, T, c, x))

\* The update of a corpus_terms row.
LEMMA TermDone ==
  ASSUME NEW s \in Seq(OpSet), s # <<>>, NEW d, NEW cs, Remaining(s, d, cs),
         NEW T, NEW t \in T, t # StatsRow
  PROVE  /\ Done(s, T, s, T \ {t}, t)
         /\ \A x : x # t => Same(s, T, s, T \ {t}, x)
<1>1. /\ Done(s, T, s, T \ {t}, t)
  <2>1. ASSUME NEW c, c # s[1].c PROVE Present(s, T \ {t}, c, t) <=> Present(s, T, c, t)
    BY <2>1, FirstTrigger DEF Present
  <2>2. PICK c0 : c0 = s[1].c  OBVIOUS
  <2>3. \A U : /\ Pending(s, U, c0, t, TRUE)
                    <=> Later(s, c0, TRUE) \/ (s[1].del = TRUE /\ t \in U)
               /\ Pending(s, U, c0, t, FALSE)
                    <=> Later(s, c0, FALSE) \/ (s[1].del = FALSE /\ t \in U)
    BY <2>2, FirstTrigger
  <2>4. /\ s[1].del = TRUE => ~Later(s, c0, TRUE) /\ Later(s, c0, FALSE)
        /\ s[1].del = FALSE => ~Later(s, c0, TRUE) /\ ~Later(s, c0, FALSE)
    BY <2>2, FirstTrigger
  <2>7. t \in T /\ t \notin T \ {t}  OBVIOUS
  <2>5. ASSUME s[1].del = TRUE PROVE Present(s, T, c0, t) /\ ~Present(s, T \ {t}, c0, t)
    <3>1. Pending(s, T, c0, t, TRUE)  BY <2>3, <2>5, <2>7
    <3>2. ~Pending(s, T \ {t}, c0, t, TRUE)  BY <2>3, <2>4, <2>5, <2>7
    <3>3. Pending(s, T \ {t}, c0, t, FALSE)  BY <2>3, <2>4, <2>5
    <3> QED  BY <3>1, <3>2, <3>3 DEF Present
  <2>6. ASSUME s[1].del = FALSE PROVE ~Present(s, T, c0, t) /\ Present(s, T \ {t}, c0, t)
    <3>1. Pending(s, T, c0, t, FALSE)  BY <2>3, <2>6, <2>7
    <3>2. ~Pending(s, T, c0, t, TRUE)  BY <2>3, <2>4, <2>6
    <3>3. ~Pending(s, T \ {t}, c0, t, FALSE)  BY <2>3, <2>4, <2>6, <2>7
    <3> QED  BY <3>1, <3>2, <3>3 DEF Present
  <2> QED  BY <2>1, <2>2, <2>5, <2>6 DEF Done
<1>2. ASSUME NEW x, x # t, NEW c
      PROVE  Present(s, T \ {t}, c, x) <=> Present(s, T, c, x)
  BY <1>2, FirstTrigger DEF Present
<1> QED  BY <1>1, <1>2 DEF Same

\* A chunk is pending in the triggers after the first exactly if one of them
\* names it: all of their terms are still to do.
LEMMA PendingInRest ==
  ASSUME NEW s \in Seq(OpSet), s # <<>>, NEW d, NEW cs, Remaining(s, d, cs),
         NEW c, NEW x, Touches(c, x),
         NEW T2, Tail(s) # <<>> => T2 = TermRows(Tail(s)[1].c)
  PROVE  /\ Pending(Tail(s), T2, c, x, TRUE) <=> Later(s, c, TRUE)
         /\ Pending(Tail(s), T2, c, x, FALSE) <=> Later(s, c, FALSE)
<1> DEFINE r == Tail(s)
<1> HIDE DEF r
<1>1. /\ r \in Seq(OpSet) /\ Len(s) \in Nat /\ Len(s) >= 1 /\ Len(r) = Len(s) - 1
      /\ \A j \in 1 .. Len(r) : j + 1 \in 1 .. Len(s) /\ r[j] = s[j + 1]
  BY TailRemaining DEF r
<1>2. ASSUME NEW b, Pending(r, T2, c, x, b) PROVE Later(s, c, b)
  <2>1. PICK j \in 1 .. Len(r) : r[j].del = b /\ r[j].c = c  BY <1>2 DEF Pending
  <2>2. j + 1 \in 1 .. Len(s) /\ r[j] = s[j + 1] /\ j + 1 # 1  BY <1>1
  <2> QED  BY <2>1, <2>2 DEF Later
<1>3. ASSUME NEW b, Later(s, c, b) PROVE Pending(r, T2, c, x, b)
  <2>4. PICK j \in 1 .. Len(s) : j # 1 /\ s[j].del = b /\ s[j].c = c
    BY <1>3 DEF Later
  <2>1. j - 1 \in 1 .. Len(r) /\ (j - 1) + 1 = j  BY <1>1, <2>4
  <2>2. r[j - 1] = s[j]  BY <2>1, <1>1
  <2>3. ASSUME j - 1 = 1 PROVE x = StatsRow \/ x \in T2
    <3>1. r # <<>>  BY <2>1, <1>1
    <3>2. T2 = TermRows(c)  BY <3>1, <2>2, <2>3, <2>4 DEF r
    <3> QED  BY <3>2 DEF Touches
  <2> QED  BY <2>1, <2>2, <2>3, <2>4 DEF Pending
<1> QED  BY <1>2, <1>3 DEF r

\* The update of corpus_stats, with which a trigger ends.
LEMMA StatsDone ==
  ASSUME NEW s \in Seq(OpSet), s # <<>>, NEW d, NEW cs, Remaining(s, d, cs),
         NEW T2, Tail(s) # <<>> => T2 = TermRows(Tail(s)[1].c)
  PROVE  /\ Done(s, {}, Tail(s), T2, StatsRow)
         /\ \A x : x # StatsRow => Same(s, {}, Tail(s), T2, x)
<1> DEFINE r == Tail(s)
           c0 == s[1].c
<1>a. /\ \A T, x, c : Pending(s, T, c, x, TRUE) <=>
           Later(s, c, TRUE) \/ (s[1].del = TRUE /\ s[1].c = c /\ (x = StatsRow \/ x \in T))
      /\ \A T, x, c : Pending(s, T, c, x, FALSE) <=>
           Later(s, c, FALSE) \/ (s[1].del = FALSE /\ s[1].c = c /\ (x = StatsRow \/ x \in T))
  BY FirstTrigger, Zenon
<1>1. ASSUME NEW c, NEW x, Touches(c, x)
      PROVE  /\ Pending(r, T2, c, x, TRUE) <=> Later(s, c, TRUE)
             /\ Pending(r, T2, c, x, FALSE) <=> Later(s, c, FALSE)
  BY <1>1, PendingInRest
<1>2. ASSUME NEW c, NEW x, c # c0 \/ x # StatsRow
      PROVE  /\ Pending(s, {}, c, x, TRUE) <=> Later(s, c, TRUE)
             /\ Pending(s, {}, c, x, FALSE) <=> Later(s, c, FALSE)
  <2>1. ~(s[1].c = c /\ x = StatsRow)  BY <1>2
  <2>2. PICK E : E = {}  OBVIOUS
  <2>3. x \notin E  BY <2>2
  <2>4. Pending(s, E, c, x, TRUE) <=> Later(s, c, TRUE)  BY <1>a, <2>1, <2>3
  <2>5. Pending(s, E, c, x, FALSE) <=> Later(s, c, FALSE)  BY <1>a, <2>1, <2>3
  <2> QED  BY <2>2, <2>4, <2>5
<1>3. ASSUME NEW c, NEW x, Touches(c, x), c # c0 \/ x # StatsRow
      PROVE  Present(r, T2, c, x) <=> Present(s, {}, c, x)
  <2> HIDE DEF r, c0
  <2> QED  BY <1>1, <1>2, <1>3 DEF Present
<1>4. /\ Pending(s, {}, c0, StatsRow, TRUE) <=> Later(s, c0, TRUE) \/ s[1].del = TRUE
      /\ Pending(s, {}, c0, StatsRow, FALSE) <=> Later(s, c0, FALSE) \/ s[1].del = FALSE
  BY FirstTrigger
<1>5. /\ Pending(r, T2, c0, StatsRow, TRUE) <=> Later(s, c0, TRUE)
      /\ Pending(r, T2, c0, StatsRow, FALSE) <=> Later(s, c0, FALSE)
  BY <1>1 DEF Touches
<1>6. /\ s[1].del = TRUE => ~Later(s, c0, TRUE) /\ Later(s, c0, FALSE)
      /\ s[1].del = FALSE => ~Later(s, c0, TRUE) /\ ~Later(s, c0, FALSE)
  BY FirstTrigger
<1>7. ASSUME s[1].del = TRUE
      PROVE  Present(s, {}, c0, StatsRow) /\ ~Present(r, T2, c0, StatsRow)
  <2> HIDE DEF r, c0
  <2>1. Pending(s, {}, c0, StatsRow, TRUE)  BY <1>4, <1>7
  <2>2. ~Pending(r, T2, c0, StatsRow, TRUE)  BY <1>5, <1>6, <1>7
  <2>3. Pending(r, T2, c0, StatsRow, FALSE)  BY <1>5, <1>6, <1>7
  <2> QED  BY <2>1, <2>2, <2>3 DEF Present
<1>8. ASSUME s[1].del = FALSE
      PROVE  ~Present(s, {}, c0, StatsRow) /\ Present(r, T2, c0, StatsRow)
  <2> HIDE DEF r, c0
  <2>1. Pending(s, {}, c0, StatsRow, FALSE)  BY <1>4, <1>8
  <2>2. ~Pending(s, {}, c0, StatsRow, TRUE)  BY <1>4, <1>6, <1>8
  <2>3. ~Pending(r, T2, c0, StatsRow, FALSE)  BY <1>5, <1>6, <1>8
  <2> QED  BY <2>1, <2>2, <2>3 DEF Present
<1> HIDE DEF r
<1>9. Done(s, {}, r, T2, StatsRow)  BY <1>3, <1>7, <1>8 DEF Done
<1>10. \A x : x # StatsRow => Same(s, {}, r, T2, x)  BY <1>3 DEF Same
<1> QED  BY <1>9, <1>10 DEF r

\* What that does to the chunks counted.
LEMMA ViewDone ==
  ASSUME NEW s, NEW T, NEW r, NEW U, NEW x, NEW cs, NEW d \in Docs,
         Done(s, T, r, U, x), s[1].c \in Chunks(d), Touches(s[1].c, x)
  PROVE  /\ s[1].del = TRUE => /\ s[1].c \in View(cs, d, s, T, x)
                               /\ View(cs, d, r, U, x) = View(cs, d, s, T, x) \ {s[1].c}
         /\ s[1].del = FALSE => /\ s[1].c \notin View(cs, d, s, T, x)
                                /\ View(cs, d, r, U, x) = View(cs, d, s, T, x) \cup {s[1].c}
         /\ View(cs, d, s, T, x) \subseteq AllChunks /\ s[1].c \in AllChunks
<1>1. PICK c0 : c0 = s[1].c  OBVIOUS
<1>2. c0 \in AllChunks /\ c0 \in Chunks(d)  BY <1>1, ChunkFacts
<1>3. /\ \A c : c # c0 /\ Touches(c, x) => (Present(r, U, c, x) <=> Present(s, T, c, x))
      /\ s[1].del = TRUE => Present(s, T, c0, x) /\ ~Present(r, U, c0, x)
      /\ s[1].del = FALSE => ~Present(s, T, c0, x) /\ Present(r, U, c0, x)
  BY <1>1 DEF Done
<1>4. Touches(c0, x)  BY <1>1
<1>5. s[1].del = TRUE => /\ c0 \in View(cs, d, s, T, x)
                         /\ View(cs, d, r, U, x) = View(cs, d, s, T, x) \ {c0}
  BY <1>2, <1>3, <1>4 DEF View
<1>6. s[1].del = FALSE => /\ c0 \notin View(cs, d, s, T, x)
                          /\ View(cs, d, r, U, x) = View(cs, d, s, T, x) \cup {c0}
  BY <1>2, <1>3, <1>4 DEF View
<1> QED  BY <1>1, <1>2, <1>5, <1>6 DEF View

LEMMA ViewSame ==
  ASSUME NEW s, NEW T, NEW r, NEW U, NEW x, NEW cs, NEW d, Same(s, T, r, U, x)
  PROVE  View(cs, d, r, U, x) = View(cs, d, s, T, x)
BY DEF Same, View

-----------------------------------------------------------------------------
(***************************************************************************)
(* What a transaction reads, and what it keeps while others move.          *)
(***************************************************************************)

\* Whether it holds a row or not, a transaction sees the count over its View.
LEMMA Sees ==
  ASSUME TypeInv, triggers, StatsAgree, NEW w \in Workers, doc[w] # None,
         Untouched(w), Written(w)
  PROVE  /\ \A t \in Terms :
              Df(w, t) = Cardinality(View(chunks, doc[w], ops[w], todo[w], t))
         /\ Count(w) = Cardinality(View(chunks, doc[w], ops[w], todo[w], StatsRow))
         /\ Total(w) = TotalLength(View(chunks, doc[w], ops[w], todo[w], StatsRow))
<1>1. ASSUME NEW x \in Rows \ held[w]
      PROVE  View(chunks, doc[w], ops[w], todo[w], x) = {c \in chunks : Touches(c, x)}
  BY <1>1 DEF View, Untouched, TypeInv
<1>2. ASSUME NEW t \in Terms
      PROVE  Df(w, t) = Cardinality(View(chunks, doc[w], ops[w], todo[w], t))
  <2>1. CASE t \in held[w]  BY <2>1 DEF Df, Written
  <2>2. CASE t \notin held[w]
    <3>1. {c \in chunks : Touches(c, t)} = {c \in chunks : t \in TermRows(c)}
      BY BM25Assumption DEF Touches
    <3>2. df[t] = Cardinality({c \in chunks : t \in TermRows(c)})  BY DEF StatsAgree
    <3>3. View(chunks, doc[w], ops[w], todo[w], t) = {c \in chunks : t \in TermRows(c)}
      BY <1>1, <2>2, <3>1 DEF Rows
    <3> QED  BY <2>2, <3>2, <3>3 DEF Df
  <2> QED  BY <2>1, <2>2
<1>3. /\ Count(w) = Cardinality(View(chunks, doc[w], ops[w], todo[w], StatsRow))
      /\ Total(w) = TotalLength(View(chunks, doc[w], ops[w], todo[w], StatsRow))
  <2>1. CASE StatsRow \in held[w]  BY <2>1 DEF Count, Total, Written
  <2>2. CASE StatsRow \notin held[w]
    <3>1. {c \in chunks : Touches(c, StatsRow)} = chunks  BY DEF Touches
    <3>2. View(chunks, doc[w], ops[w], todo[w], StatsRow) = chunks
      BY <1>1, <2>2, <3>1 DEF Rows
    <3> QED  BY <2>2, <3>2 DEF Count, Total, StatsAgree
  <2> QED  BY <2>1, <2>2
<1> QED  BY <1>2, <1>3

\* A transaction v that does not move keeps its part of the invariant when the
\* chunks that others add are not its own and in no row it holds.
Unmoved(v) ==
  /\ doc'[v] = doc[v] /\ ops'[v] = ops[v] /\ todo'[v] = todo[v] /\ held'[v] = held[v]
  /\ dfNew'[v] = dfNew[v] /\ countNew'[v] = countNew[v] /\ totalNew'[v] = totalNew[v]

LEMMA OtherTx ==
  ASSUME TypeInv, NEW v \in Workers, OpsInv(v), Untouched(v), Written(v), Unmoved(v),
         chunks \subseteq chunks',
         \A c \in chunks' \ chunks :
           c \notin Chunks(doc[v]) /\ \A x \in held[v] : ~Touches(c, x)
  PROVE  OpsInv(v)' /\ Untouched(v)' /\ Written(v)'
<1> DEFINE d == doc[v]
           s == ops[v]
           T == todo[v]
<1>1. PICK cs : cs = chunks'  OBVIOUS
<1>2. OpsInv(v)'
  <2>1. Remaining(s, d, cs)  BY <1>1 DEF OpsInv, Remaining
  <2> QED  BY <2>1, <1>1 DEF OpsInv, Unmoved
<1>3. Untouched(v)'
  <2>1. \A x \in Rows \ held[v] : \A c \in Chunks(d) :
          Touches(c, x) => (Present(s, T, c, x) <=> c \in cs)
    BY <1>1 DEF Untouched
  <2> QED  BY <2>1, <1>1 DEF Untouched, Unmoved
<1>4. ASSUME NEW x \in held[v] PROVE View(cs, d, s, T, x) = View(chunks, d, s, T, x)
  BY <1>1, <1>4 DEF View
<1>5. Written(v)'
  <2>1. /\ \A t \in Terms \cap held[v] : dfNew[v][t] = Cardinality(View(cs, d, s, T, t))
        /\ StatsRow \in held[v] => /\ countNew[v] = Cardinality(View(cs, d, s, T, StatsRow))
                                   /\ totalNew[v] = TotalLength(View(cs, d, s, T, StatsRow))
    BY <1>4 DEF Written
  <2> QED  BY <2>1, <1>1 DEF Written, Unmoved
<1> QED  BY <1>2, <1>3, <1>5

-----------------------------------------------------------------------------
(***************************************************************************)
(* StatsInv is inductive.                                                  *)
(***************************************************************************)

LEMMA StatsInit == Init => StatsInv
<1> SUFFICES ASSUME Init PROVE StatsInv  OBVIOUS
<1>1. PICK old \in SUBSET Docs : chunks = UNION {Chunks(d) : d \in old}  BY DEF Init
<1>2. TypeInv
  <2>1. chunks \subseteq AllChunks  BY <1>1, ChunkFacts
  <2>2. df \in [Terms -> Nat]  BY DEF Init
  <2>3. dfNew \in [Workers -> [Terms -> Nat]]  BY <2>2 DEF Init
  <2>4. ops \in [Workers -> Seq(OpSet)]  BY DEF Init
  <2> QED  BY <2>1, <2>2, <2>3, <2>4 DEF Init, TypeInv, Rows
<1>3. WholeDocs  BY <1>1, ChunkFacts DEF WholeDocs
<1>4. OneIngest /\ Exclusive /\ Idle  BY DEF Init, OneIngest, Exclusive, Idle
<1>5. TxInv /\ StatsAgree  BY DEF Init, TxInv, StatsAgree
<1> QED  BY <1>2, <1>3, <1>4, <1>5 DEF StatsInv

\* A step of one transaction leaves the others as they were.
LEMMA OthersKeep ==
  ASSUME StatsInv, NEW w \in Workers, UNCHANGED committedVars,
         \A v \in Workers \ {w} : Unmoved(v),
         doc'[w] # None /\ triggers => OpsInv(w)' /\ Untouched(w)' /\ Written(w)'
  PROVE  TxInv' /\ StatsAgree' /\ WholeDocs'
<1>1. chunks' = chunks /\ triggers' = triggers  BY DEF committedVars
<1>2. ASSUME NEW v \in Workers, (doc[v] # None)', triggers'
      PROVE  OpsInv(v)' /\ Untouched(v)' /\ Written(v)'
  <2>1. CASE v = w  BY <1>1, <1>2, <2>1
  <2>2. CASE v # w
    <3>1. Unmoved(v)  BY <2>2
    <3>2. doc[v] # None /\ triggers  BY <3>1, <1>1, <1>2 DEF Unmoved
    <3>3. OpsInv(v) /\ Untouched(v) /\ Written(v)  BY <3>2 DEF StatsInv, TxInv
    <3> QED  BY <3>1, <3>3, <1>1, OtherTx DEF StatsInv
  <2> QED  BY <2>1, <2>2
<1>3. TxInv'  BY <1>2 DEF TxInv
<1>4. StatsAgree'  BY DEF StatsInv, StatsAgree, committedVars
<1>5. WholeDocs'  BY <1>1 DEF StatsInv, WholeDocs
<1> QED  BY <1>3, <1>4, <1>5

LEMMA MigrateStats == ASSUME StatsInv, Migrate PROVE StatsInv'
<1>1. /\ chunks' = chunks /\ triggers' = TRUE /\ UNCHANGED txVars
      /\ \A w \in Workers : doc[w] = None
  BY DEF Migrate
<1> DEFINE Of(t) == {c \in chunks : t \in TermRows(c)}
           W == {c \in chunks : TermRows(c) # {}}
<1>2. chunks \subseteq AllChunks /\ chunkStats \subseteq chunks /\ chunkTerms \subseteq chunks
  BY DEF StatsInv, TypeInv
<1>3. \A t \in Terms : Cardinality(Of(t)) \in Nat
  BY <1>2, CountFacts
<1>4. Cardinality(chunks) \in Nat  BY <1>2, CountFacts
<1>5. ASSUME BackfillNeeded
      PROVE  /\ StatsAgree' /\ df' \in [Terms -> Nat] /\ count' \in Nat /\ total' \in Nat
             /\ chunkStats' \subseteq chunks /\ chunkTerms' \subseteq chunks
  <2>1. /\ chunkTerms' = W /\ chunkStats' = chunkStats \cup W
        /\ df' = [t \in Terms |-> LET n == Cardinality({c \in W : t \in TermRows(c)})
                                  IN  IF n > 0 THEN n ELSE df[t]]
        /\ count' = Cardinality(chunks) /\ total' = TotalLength(chunkStats \cup W)
    BY <1>5 DEF Migrate, Backfill
  <2>2. ASSUME NEW t \in Terms PROVE df'[t] = Cardinality(Of(t))
    <3>1. {c \in W : t \in TermRows(c)} = Of(t)  OBVIOUS
    <3>2. df'[t] = IF Cardinality(Of(t)) > 0 THEN Cardinality(Of(t)) ELSE df[t]
      BY <2>1, <3>1
    <3>3. CASE Cardinality(Of(t)) > 0  BY <3>2, <3>3
    <3>4. CASE ~(Cardinality(Of(t)) > 0)
      <4>1. Cardinality(Of(t)) = 0
        <5> HIDE DEF Of
        <5> QED  BY <1>3, <3>4
      <4>2. df[t] = 0
        <5>1. CASE triggers  BY <5>1, <4>1 DEF StatsInv, StatsAgree
        <5>2. CASE ~triggers  BY <5>2 DEF StatsInv, Idle
        <5> QED  BY <5>1, <5>2
      <4> QED  BY <3>2, <3>4, <4>1, <4>2
    <3> QED  BY <3>3, <3>4
  <2>3. total' = TotalLength(chunks)
    <3>1. \A c \in chunks \ (chunkStats \cup W) : TermRows(c) = {}  OBVIOUS
    <3>2. chunkStats \cup W \subseteq chunks  BY <1>2
    <3> QED  BY <1>2, <2>1, <3>1, <3>2, TotalIgnoresEmpty
  <2>4. StatsAgree'  BY <1>1, <2>1, <2>2, <2>3 DEF StatsAgree
  <2>5. df' \in [Terms -> Nat]
    <3>1. df' = [t \in Terms |-> df'[t]]  BY <2>1
    <3>2. \A t \in Terms : df'[t] \in Nat  BY <1>3, <2>2
    <3> QED  BY <3>1, <3>2
  <2>6. count' \in Nat /\ total' \in Nat  BY <1>2, <1>4, <2>1, <2>3, TotalFacts
  <2> QED  BY <1>2, <2>1, <2>4, <2>5, <2>6
<1>6. ASSUME ~BackfillNeeded
      PROVE  /\ StatsAgree' /\ df' \in [Terms -> Nat] /\ count' \in Nat /\ total' \in Nat
             /\ chunkStats' \subseteq chunks /\ chunkTerms' \subseteq chunks
  <2>1. UNCHANGED <<chunkStats, chunkTerms, df, count, total>>  BY <1>6 DEF Migrate
  <2>2. ASSUME triggers PROVE StatsAgree'
    BY <1>1, <2>1, <2>2 DEF StatsInv, StatsAgree
  <2>3. ASSUME ~triggers PROVE StatsAgree'
    <3>1. df = [t \in Terms |-> 0] /\ count = 0 /\ total = 0 /\ chunkTerms = {}
      BY <2>3 DEF StatsInv, Idle
    <3>2. chunks = {}  BY <1>6, <3>1 DEF BackfillNeeded
    <3>3. (\A t \in Terms : Of(t) = {}) /\ UNION {Tokens(c) : c \in chunks} = {}
      BY <3>2
    <3>4. Cardinality({}) = 0  BY FS_EmptySet
    <3>5. \A t \in Terms : df'[t] = Cardinality(Of(t))  BY <2>1, <3>1, <3>3, <3>4
    <3>6. count' = Cardinality(chunks)  BY <2>1, <3>1, <3>2, <3>4
    <3>7. total' = TotalLength(chunks)  BY <2>1, <3>1, <3>3, <3>4 DEF TotalLength
    <3> QED  BY <1>1, <3>2, <3>5, <3>6, <3>7 DEF StatsAgree
  <2> QED  BY <1>2, <2>1, <2>2, <2>3 DEF StatsInv, TypeInv
<1>7. TypeInv'  BY <1>1, <1>5, <1>6 DEF StatsInv, TypeInv, txVars
<1>8. WholeDocs' /\ OneIngest' /\ Exclusive' /\ Idle' /\ TxInv'
  BY <1>1 DEF StatsInv, WholeDocs, OneIngest, Exclusive, Idle, TxInv, txVars
<1> QED  BY <1>5, <1>6, <1>7, <1>8 DEF StatsInv

\* A transaction begins with all its triggers to come and no row changed.
LEMMA BeginStats ==
  ASSUME StatsInv, NEW w \in Workers, NEW d \in Docs, Begin(w, d) PROVE StatsInv'
<1>1. /\ doc[w] = None /\ \A v \in Workers : doc[v] # d
      /\ doc' = [doc EXCEPT ![w] = d]
      /\ ops' = [ops EXCEPT ![w] = IF triggers THEN Ops(d) ELSE <<>>]
      /\ todo' = [todo EXCEPT ![w] = IF triggers THEN TermRows(Head(Ops(d)).c) ELSE {}]
      /\ UNCHANGED <<committedVars, held, want, dfNew, countNew, totalNew>>
  BY DEF Begin
<1>2. TypeInv /\ WholeDocs /\ OneIngest /\ Exclusive /\ Idle /\ TxInv  BY DEF StatsInv
<1>3. PICK s : s = Ops(d)  OBVIOUS
<1>4. /\ s \in Seq(OpSet) /\ s # <<>> /\ Remaining(s, d, chunks)
      /\ \A T : \A x \in Rows : \A c \in Chunks(d) :
           Touches(c, x) /\ TermRows(s[1].c) \subseteq T =>
             (Present(s, T, c, x) <=> c \in chunks)
  BY <1>2, <1>3, OpsFacts DEF TypeInv
<1>5. Head(s) = s[1]  BY <1>4
<1>6. PICK U : U = TermRows(s[1].c)  OBVIOUS
<1>7. U \subseteq Terms  BY <1>6 DEF TermRows
<1>8. TypeInv'
  <2>1. ops' \in [Workers -> Seq(OpSet)]  BY <1>1, <1>2, <1>3, <1>4 DEF TypeInv
  <2>2. todo' \in [Workers -> SUBSET Terms]
    BY <1>1, <1>2, <1>3, <1>5, <1>6, <1>7 DEF TypeInv
  <2>3. doc' \in [Workers -> Docs \cup {None}]  BY <1>1, <1>2 DEF TypeInv
  <2> QED  BY <1>1, <1>2, <2>1, <2>2, <2>3 DEF TypeInv, committedVars
<1>9. doc'[w] = d /\ held'[w] = {}
  BY <1>1, <1>2 DEF TypeInv, Idle
<1>10. ASSUME triggers PROVE OpsInv(w)' /\ Untouched(w)' /\ Written(w)'
  <2>1. ops'[w] = s /\ todo'[w] = U /\ chunks' = chunks
    BY <1>1, <1>2, <1>3, <1>5, <1>6, <1>10 DEF TypeInv, committedVars
  <2>2. OpsInv(w)'  BY <2>1, <1>4, <1>6, <1>9 DEF OpsInv
  <2>3. Untouched(w)'  BY <2>1, <1>4, <1>6, <1>9 DEF Untouched
  <2>4. Written(w)'  BY <1>9 DEF Written
  <2> QED  BY <2>2, <2>3, <2>4
<1>11. \A v \in Workers \ {w} : Unmoved(v)  BY <1>1, <1>2 DEF TypeInv, Unmoved
<1>12. TxInv' /\ StatsAgree' /\ WholeDocs'  BY <1>1, <1>10, <1>11, OthersKeep
<1>13. OneIngest'
  BY <1>1, <1>2 DEF OneIngest, TypeInv
<1>14. Exclusive'  BY <1>1, <1>2 DEF Exclusive
<1>15. Idle'
  <2>1. ASSUME NEW v \in Workers, (doc[v] = None \/ ~triggers)'
        PROVE  (ops[v] = <<>> /\ todo[v] = {} /\ held[v] = {})'
    <3>1. CASE v = w
      BY <1>1, <1>2, <1>9, <2>1, <3>1, BM25Assumption DEF TypeInv, committedVars
    <3>2. CASE v # w  BY <1>1, <1>2, <1>11, <2>1, <3>2 DEF Unmoved, Idle, committedVars
    <3> QED  BY <3>1, <3>2
  <2> QED  BY <2>1, <1>1, <1>2 DEF Idle, committedVars
<1> QED  BY <1>8, <1>12, <1>13, <1>14, <1>15 DEF StatsInv

\* Waiting for a row changes none.
LEMMA BlockStats ==
  ASSUME StatsInv, NEW w \in Workers, NEW x \in Rows, Block(w, x) PROVE StatsInv'
<1>1. /\ want' = [want EXCEPT ![w] = x]
      /\ UNCHANGED <<committedVars, doc, ops, todo, held, dfNew, countNew, totalNew>>
  BY DEF Block
<1>2. TypeInv /\ OneIngest /\ Exclusive /\ Idle /\ TxInv  BY DEF StatsInv
<1>3. TypeInv'  BY <1>1, <1>2 DEF TypeInv, committedVars
<1>4. \A v \in Workers : Unmoved(v)  BY <1>1 DEF Unmoved
<1>5. doc[w] # None /\ triggers => OpsInv(w)' /\ Untouched(w)' /\ Written(w)'
  BY <1>1, <1>2, <1>4, OtherTx DEF TxInv, committedVars
<1>6. TxInv' /\ StatsAgree' /\ WholeDocs'  BY <1>1, <1>4, <1>5, OthersKeep
<1>7. OneIngest' /\ Exclusive' /\ Idle'
  BY <1>1, <1>2 DEF OneIngest, Exclusive, Idle, committedVars
<1> QED  BY <1>3, <1>6, <1>7 DEF StatsInv

\* A transaction that ends, either way, leaves nothing of its own behind.
LEMMA ReleaseFacts ==
  ASSUME StatsInv, NEW w \in Workers, Release(w)
  PROVE  /\ \A v \in Workers \ {w} : Unmoved(v)
         /\ doc'[w] = None /\ ops'[w] = <<>> /\ todo'[w] = {} /\ held'[w] = {}
         /\ OneIngest' /\ Exclusive'
         /\ doc' \in [Workers -> Docs \cup {None}] /\ ops' \in [Workers -> Seq(OpSet)]
         /\ todo' \in [Workers -> SUBSET Terms] /\ held' \in [Workers -> SUBSET Rows]
         /\ want' \in [Workers -> Rows \cup {None}]
         /\ dfNew' \in [Workers -> [Terms -> Nat]]
         /\ countNew' \in [Workers -> Nat] /\ totalNew' \in [Workers -> Nat]
<1>1. TypeInv /\ OneIngest /\ Exclusive  BY DEF StatsInv
<1>2. \A v \in Workers \ {w} : Unmoved(v)  BY <1>1 DEF TypeInv, Release, Unmoved
<1>3. /\ doc'[w] = None /\ ops'[w] = <<>> /\ todo'[w] = {} /\ held'[w] = {}
  BY <1>1 DEF TypeInv, Release
<1>4. /\ doc' \in [Workers -> Docs \cup {None}] /\ todo' \in [Workers -> SUBSET Terms]
      /\ held' \in [Workers -> SUBSET Rows] /\ want' \in [Workers -> Rows \cup {None}]
      /\ countNew' \in [Workers -> Nat] /\ totalNew' \in [Workers -> Nat]
  BY <1>1 DEF TypeInv, Release
<1>5. ops' \in [Workers -> Seq(OpSet)]  BY <1>1 DEF TypeInv, Release
<1>6. dfNew' \in [Workers -> [Terms -> Nat]]  BY <1>1 DEF TypeInv, Release
<1>7. OneIngest'  BY <1>1, <1>2, <1>3 DEF OneIngest, Unmoved
<1>8. Exclusive'  BY <1>1, <1>2, <1>3 DEF Exclusive, Unmoved
<1> QED  BY <1>2, <1>3, <1>4, <1>5, <1>6, <1>7, <1>8

LEMMA AbortStats ==
  ASSUME StatsInv, NEW w \in Workers, Abort(w) PROVE StatsInv'
<1>1. Release(w) /\ UNCHANGED committedVars  BY DEF Abort
<1>2. TypeInv /\ Idle  BY DEF StatsInv
<1>3. TypeInv'  BY <1>1, <1>2, ReleaseFacts DEF TypeInv, committedVars
<1>4. TxInv' /\ StatsAgree' /\ WholeDocs'  BY <1>1, ReleaseFacts, OthersKeep
<1>5. Idle'
  <2>1. /\ \A v \in Workers \ {w} : Unmoved(v)
        /\ ops'[w] = <<>> /\ todo'[w] = {} /\ held'[w] = {}
    BY <1>1, ReleaseFacts
  <2> QED  BY <1>1, <1>2, <2>1 DEF Idle, Unmoved, committedVars
<1> QED  BY <1>1, <1>3, <1>4, <1>5, ReleaseFacts DEF StatsInv

\* Only a transaction under way fires triggers, and takes rows nobody holds.
LEMMA TakeFacts ==
  ASSUME StatsInv, NEW w \in Workers, NEW x \in Rows, CanTake(w, x), Take(w, x)
  PROVE  /\ doc[w] \in Docs /\ triggers
         /\ OpsInv(w) /\ Untouched(w) /\ Written(w)
         /\ ops[w] \in Seq(OpSet) /\ ops[w] # <<>> /\ Remaining(ops[w], doc[w], chunks)
         /\ x = StatsRow => todo[w] = {}
         /\ x # StatsRow => x \in todo[w]
         /\ held' = [held EXCEPT ![w] = @ \cup {x}] /\ held'[w] = held[w] \cup {x}
         /\ Exclusive'
         /\ held' \in [Workers -> SUBSET Rows]
         /\ want' \in [Workers -> Rows \cup {None}]
<1>1. TypeInv /\ Exclusive /\ Idle /\ TxInv  BY DEF StatsInv
<1>2. ops[w] # <<>> /\ (IF todo[w] # {} THEN x \in todo[w] ELSE x = StatsRow)
  BY DEF CanTake, NextRows
<1>3. doc[w] # None /\ triggers  BY <1>1, <1>2 DEF Idle
<1>4. doc[w] \in Docs /\ ops[w] \in Seq(OpSet) /\ todo[w] \subseteq Terms
  BY <1>1, <1>3 DEF TypeInv
<1>5. OpsInv(w) /\ Untouched(w) /\ Written(w)  BY <1>1, <1>3 DEF TxInv
<1>6. Remaining(ops[w], doc[w], chunks)  BY <1>5 DEF OpsInv
<1>7. (x = StatsRow => todo[w] = {}) /\ (x # StatsRow => x \in todo[w])
  BY <1>2, <1>4, BM25Assumption
<1>8. held' = [held EXCEPT ![w] = @ \cup {x}] /\ want' = [want EXCEPT ![w] = None]
  BY DEF Take
<1>9. /\ held'[w] = held[w] \cup {x} /\ \A v \in Workers \ {w} : held'[v] = held[v]
      /\ held' \in [Workers -> SUBSET Rows] /\ want' \in [Workers -> Rows \cup {None}]
  BY <1>1, <1>8 DEF TypeInv
<1>10. \A v \in Workers \ {w} : x \notin held[v]  BY DEF CanTake, HeldByOther
<1>11. Exclusive'  BY <1>1, <1>9, <1>10 DEF Exclusive
<1> QED  BY <1>2, <1>3, <1>4, <1>5, <1>6, <1>7, <1>8, <1>9, <1>11

\* The update of a corpus_terms row gives the count after it.
LEMMA TouchTermStats ==
  ASSUME StatsInv, NEW w \in Workers, NEW t \in Terms, TouchTerm(w, t) PROVE StatsInv'
<1>1. /\ CanTake(w, t) /\ Take(w, t) /\ t \in Rows /\ t # StatsRow
      /\ dfNew' = [dfNew EXCEPT ![w][t] =
                     IF Head(ops[w]).del THEN Floor0(Df(w, t) - 1) ELSE Df(w, t) + 1]
      /\ todo' = [todo EXCEPT ![w] = @ \ {t}]
      /\ UNCHANGED <<committedVars, doc, ops, countNew, totalNew>>
  BY BM25Assumption DEF TouchTerm, Rows
<1>2. TypeInv /\ OneIngest /\ Idle /\ StatsAgree  BY DEF StatsInv
<1>3. PICK s \in Seq(OpSet) : s = ops[w]  BY <1>2 DEF TypeInv
<1>4. PICK T \in SUBSET Terms : T = todo[w]  BY <1>2 DEF TypeInv
<1>5. PICK d \in Docs : d = doc[w]  BY <1>1, TakeFacts
<1>6. PICK cs \in SUBSET AllChunks : cs = chunks  BY <1>2 DEF TypeInv
<1>7. PICK H \in SUBSET Rows : H = held[w]  BY <1>2 DEF TypeInv
<1>8. /\ triggers /\ OpsInv(w) /\ Untouched(w) /\ Written(w) /\ Exclusive'
      /\ doc[w] # None
      /\ s # <<>> /\ Remaining(s, d, cs) /\ t \in T /\ held'[w] = H \cup {t}
      /\ held' = [held EXCEPT ![w] = @ \cup {t}]
      /\ held' \in [Workers -> SUBSET Rows] /\ want' \in [Workers -> Rows \cup {None}]
  BY <1>1, <1>3, <1>4, <1>5, <1>6, <1>7, TakeFacts, BM25Assumption
<1>9. /\ Head(s) = s[1] /\ s[1] \in OpSet /\ s[1].del \in BOOLEAN
      /\ T \subseteq TermRows(s[1].c)
  <2>1. Head(s) = s[1] /\ s[1] \in OpSet  BY <1>8
  <2> QED  BY <2>1, <1>3, <1>4, <1>8 DEF OpsInv, OpSet
<1>10. /\ Done(s, T, s, T \ {t}, t) /\ \A x : x # t => Same(s, T, s, T \ {t}, x)
       /\ s[1].c \in Chunks(d)
  BY <1>1, <1>8, TermDone, FirstTrigger
<1>11. Touches(s[1].c, t)  BY <1>8, <1>9 DEF Touches
<1> DEFINE V == View(cs, d, s, T, t)
           V2 == View(cs, d, s, T \ {t}, t)
           c0 == s[1].c
           n == IF Head(ops[w]).del THEN Floor0(Df(w, t) - 1) ELSE Df(w, t) + 1
<1>12. /\ s[1].del = TRUE => c0 \in V /\ V2 = V \ {c0}
       /\ s[1].del = FALSE => c0 \notin V /\ V2 = V \cup {c0}
       /\ V \subseteq AllChunks /\ c0 \in AllChunks
  BY <1>10, <1>11, ViewDone
<1>13. Df(w, t) = Cardinality(V)
  BY <1>2, <1>3, <1>4, <1>5, <1>6, <1>8, Sees
<1>14. n = Cardinality(V2) /\ n \in Nat
  <2> HIDE DEF V, V2, c0
  <2>1. Cardinality(V) \in Nat /\ Cardinality(V2) \in Nat
    <3>1. V2 \subseteq AllChunks  BY DEF V2, View
    <3> QED  BY <1>12, <3>1, CountFacts
  <2>2. CASE s[1].del = TRUE
    <3>1. Cardinality(V2) = Cardinality(V) - 1  BY <2>2, <1>12, CountFacts
    <3>2. n = Floor0(Cardinality(V) - 1)  BY <2>2, <1>3, <1>9, <1>13
    <3> HIDE DEF n
    <3> QED  BY <2>1, <3>1, <3>2 DEF Floor0
  <2>3. CASE s[1].del = FALSE
    <3>1. Cardinality(V2) = Cardinality(V) + 1  BY <2>3, <1>12, CountFacts
    <3>2. n = Cardinality(V) + 1  BY <2>3, <1>3, <1>9, <1>13
    <3> HIDE DEF n
    <3> QED  BY <2>1, <3>1, <3>2
  <2> QED  BY <1>9, <2>2, <2>3
<1>15. /\ dfNew' = [dfNew EXCEPT ![w][t] = n]  BY <1>1
<1> HIDE DEF n
<1>16. /\ dfNew' \in [Workers -> [Terms -> Nat]]
       /\ dfNew'[w][t] = n /\ \A u \in Terms \ {t} : dfNew'[w][u] = dfNew[w][u]
       /\ \A v \in Workers \ {w} : dfNew'[v] = dfNew[v]
  BY <1>2, <1>14, <1>15 DEF TypeInv
<1>17. todo' \in [Workers -> SUBSET Terms] /\ todo'[w] = T \ {t}
  BY <1>1, <1>2, <1>4 DEF TypeInv
<1>18. TypeInv'  BY <1>1, <1>2, <1>8, <1>16, <1>17 DEF TypeInv, committedVars
<1>19. \A v \in Workers \ {w} : Unmoved(v)
  BY <1>1, <1>2, <1>8, <1>16 DEF TypeInv, Unmoved
<1>20. /\ doc'[w] = d /\ ops'[w] = s /\ chunks' = cs
       /\ countNew'[w] = countNew[w] /\ totalNew'[w] = totalNew[w]
  BY <1>1, <1>3, <1>5, <1>6 DEF committedVars
<1>21. OpsInv(w)'  BY <1>8, <1>9, <1>17, <1>20 DEF OpsInv
<1>22. Untouched(w)'
  <2>1. ASSUME NEW x \in Rows \ (H \cup {t}), NEW c \in Chunks(d), Touches(c, x)
        PROVE  Present(s, T \ {t}, c, x) <=> c \in cs
    <3>1. Present(s, T \ {t}, c, x) <=> Present(s, T, c, x)  BY <2>1, <1>10 DEF Same
    <3>2. Present(s, T, c, x) <=> c \in cs
      BY <2>1, <1>3, <1>4, <1>5, <1>6, <1>7, <1>8 DEF Untouched
    <3> QED  BY <3>1, <3>2
  <2>2. PICK U, K : U = T \ {t} /\ K = H \cup {t}  OBVIOUS
  <2>3. \A x \in Rows \ K : \A c \in Chunks(d) :
          Touches(c, x) => (Present(s, U, c, x) <=> c \in cs)
    BY <2>1, <2>2, Zenon
  <2>4. held'[w] = K /\ todo'[w] = U /\ ops'[w] = s /\ doc'[w] = d /\ chunks' = cs
    BY <2>2, <1>8, <1>17, <1>20
  <2> QED  BY <2>3, <2>4 DEF Untouched
<1>23. Written(w)'
  <2>1. ASSUME NEW x, x # t PROVE View(cs, d, s, T \ {t}, x) = View(cs, d, s, T, x)
    <3>1. Same(s, T, s, T \ {t}, x)  BY <2>1, <1>10
    <3>2. PICK U : U = T \ {t}  OBVIOUS
    <3>3. Same(s, T, s, U, x)  BY <3>1, <3>2
    <3> QED  BY <3>2, <3>3, ViewSame
  <2>2. ASSUME NEW u \in Terms \cap (H \cup {t})
        PROVE  dfNew'[w][u] = Cardinality(View(cs, d, s, T \ {t}, u))
    <3>1. CASE u = t  BY <3>1, <1>14, <1>16
    <3>2. CASE u # t
      <4>1. dfNew[w][u] = Cardinality(View(cs, d, s, T, u))
        BY <2>2, <3>2, <1>3, <1>4, <1>5, <1>6, <1>7, <1>8 DEF Written
      <4> QED  BY <4>1, <2>1, <3>2, <1>16
    <3> QED  BY <3>1, <3>2
  <2>3. ASSUME StatsRow \in H \cup {t}
        PROVE  /\ countNew[w] = Cardinality(View(cs, d, s, T \ {t}, StatsRow))
               /\ totalNew[w] = TotalLength(View(cs, d, s, T \ {t}, StatsRow))
    <3>1. StatsRow \in H  BY <2>3, <1>1
    <3>2. /\ countNew[w] = Cardinality(View(cs, d, s, T, StatsRow))
          /\ totalNew[w] = TotalLength(View(cs, d, s, T, StatsRow))
      BY <3>1, <1>3, <1>4, <1>5, <1>6, <1>7, <1>8 DEF Written
    <3> QED  BY <3>2, <2>1, <1>1
  <2> QED  BY <2>2, <2>3, <1>8, <1>17, <1>20 DEF Written
<1>24. TxInv' /\ StatsAgree' /\ WholeDocs'
  BY <1>1, <1>19, <1>21, <1>22, <1>23, OthersKeep
<1>25. OneIngest'  BY <1>1, <1>2 DEF OneIngest
<1>26. Idle'
  BY <1>1, <1>2, <1>8, <1>19, <1>20, <1>5 DEF Idle, Unmoved, committedVars
<1> QED  BY <1>8, <1>18, <1>24, <1>25, <1>26 DEF StatsInv

\* The delete trigger finds the length of a committed chunk: in chunk_stats, or
\* nowhere if the chunk has no terms, and then it is 0.
LEMMA DeletedLengthIsLength ==
  ASSUME StatsInv, triggers, NEW c \in chunks PROVE DeletedLength(c) = Length(c)
<1>1. c \in AllChunks /\ (TermRows(c) # {} => c \in chunkStats)
  BY DEF StatsInv, TypeInv, StatsAgree
<1> QED  BY <1>1, TokenFacts DEF DeletedLength

\* The update of corpus_stats ends a trigger.
LEMMA TouchStatsStats ==
  ASSUME StatsInv, NEW w \in Workers, TouchStats(w) PROVE StatsInv'
<1> DEFINE op == Head(ops[w])
           a == IF op.del THEN Floor0(Count(w) - 1) ELSE Count(w) + 1
           b == IF op.del THEN Floor0(Total(w) - DeletedLength(op.c))
                          ELSE Total(w) + Length(op.c)
<1>1. /\ CanTake(w, StatsRow) /\ Take(w, StatsRow) /\ StatsRow \in Rows
      /\ countNew' = [countNew EXCEPT ![w] = a]
      /\ totalNew' = [totalNew EXCEPT ![w] = b]
      /\ ops' = [ops EXCEPT ![w] = Tail(ops[w])]
      /\ todo' = [todo EXCEPT ![w] = IF Tail(ops[w]) = <<>> THEN {}
                                     ELSE TermRows(Head(Tail(ops[w])).c)]
      /\ UNCHANGED <<committedVars, doc, dfNew>>
  BY DEF TouchStats, Rows
<1>2. TypeInv /\ OneIngest /\ Idle /\ StatsAgree  BY DEF StatsInv
<1>3. PICK s \in Seq(OpSet) : s = ops[w]  BY <1>2 DEF TypeInv
<1>4. PICK T \in SUBSET Terms : T = todo[w]  BY <1>2 DEF TypeInv
<1>5. PICK d \in Docs : d = doc[w]  BY <1>1, TakeFacts
<1>6. PICK cs \in SUBSET AllChunks : cs = chunks  BY <1>2 DEF TypeInv
<1>7. PICK H \in SUBSET Rows : H = held[w]  BY <1>2 DEF TypeInv
<1>8. /\ triggers /\ OpsInv(w) /\ Untouched(w) /\ Written(w) /\ Exclusive'
      /\ doc[w] # None
      /\ s # <<>> /\ Remaining(s, d, cs) /\ T = {} /\ held'[w] = H \cup {StatsRow}
      /\ held' = [held EXCEPT ![w] = @ \cup {StatsRow}]
      /\ held' \in [Workers -> SUBSET Rows] /\ want' \in [Workers -> Rows \cup {None}]
  BY <1>1, <1>3, <1>4, <1>5, <1>6, <1>7, TakeFacts, BM25Assumption
<1>9. PICK r \in Seq(OpSet) : r = Tail(s) /\ Remaining(r, d, cs)
  BY <1>8, TailRemaining
<1>10. PICK U \in SUBSET Terms : U = IF r = <<>> THEN {} ELSE TermRows(Head(r).c)
  BY DEF TermRows
<1>11. r # <<>> => U = TermRows(r[1].c)  BY <1>10
<1>12. Head(s) = s[1] /\ s[1] \in OpSet /\ s[1].del \in BOOLEAN
  <2>1. Head(s) = s[1] /\ s[1] \in OpSet  BY <1>8
  <2> QED  BY <2>1 DEF OpSet
<1>13. /\ Done(s, T, r, U, StatsRow) /\ \A x : x # StatsRow => Same(s, T, r, U, x)
  BY <1>8, <1>9, <1>11, StatsDone
<1>14. /\ s[1].c \in Chunks(d) /\ (s[1].del = TRUE => s[1].c \in cs)
       /\ Touches(s[1].c, StatsRow)
  BY <1>8, FirstTrigger DEF Touches
<1> DEFINE V == View(cs, d, s, T, StatsRow)
           V2 == View(cs, d, r, U, StatsRow)
           c0 == s[1].c
<1>15. /\ s[1].del = TRUE => c0 \in V /\ V2 = V \ {c0}
       /\ s[1].del = FALSE => c0 \notin V /\ V2 = V \cup {c0}
       /\ V \subseteq AllChunks /\ c0 \in AllChunks
  BY <1>13, <1>14, ViewDone
<1>16. Count(w) = Cardinality(V) /\ Total(w) = TotalLength(V)
  BY <1>2, <1>3, <1>4, <1>5, <1>6, <1>8, Sees
<1>17. a = Cardinality(V2) /\ a \in Nat /\ b = TotalLength(V2) /\ b \in Nat
  <2>0. V2 \subseteq AllChunks  BY DEF View
  <2>4. s[1].del = TRUE => DeletedLength(c0) = Length(c0)
    BY <1>6, <1>8, <1>14, DeletedLengthIsLength
  <2> HIDE DEF V, V2, c0
  <2>1. /\ Cardinality(V) \in Nat /\ Cardinality(V2) \in Nat
        /\ TotalLength(V) \in Nat /\ TotalLength(V2) \in Nat /\ Length(c0) \in Nat
    BY <1>15, <2>0, CountFacts, TotalFacts, TokenFacts
  <2>2. CASE s[1].del = TRUE
    <3>1. Cardinality(V2) = Cardinality(V) - 1  BY <2>2, <1>15, CountFacts
    <3>2. TotalLength(V2) = TotalLength(V) - Length(c0)  BY <2>2, <1>15, TotalFacts
    <3>3. a = Floor0(Cardinality(V) - 1)  BY <2>2, <1>3, <1>12, <1>16
    <3>4. b = Floor0(TotalLength(V) - Length(c0))
      BY <2>2, <2>4, <1>3, <1>12, <1>16 DEF c0
    <3> HIDE DEF a, b
    <3> QED  BY <2>1, <3>1, <3>2, <3>3, <3>4 DEF Floor0
  <2>3. CASE s[1].del = FALSE
    <3>1. Cardinality(V2) = Cardinality(V) + 1  BY <2>3, <1>15, CountFacts
    <3>2. TotalLength(V2) = TotalLength(V) + Length(c0)  BY <2>3, <1>15, TotalFacts
    <3>3. a = Cardinality(V) + 1  BY <2>3, <1>3, <1>12, <1>16
    <3>4. b = TotalLength(V) + Length(c0)  BY <2>3, <1>3, <1>12, <1>16 DEF c0
    <3> HIDE DEF a, b
    <3> QED  BY <2>1, <3>1, <3>2, <3>3, <3>4
  <2> QED  BY <1>12, <2>2, <2>3
<1> HIDE DEF a, b
<1>18. /\ countNew' \in [Workers -> Nat] /\ totalNew' \in [Workers -> Nat]
       /\ countNew'[w] = a /\ totalNew'[w] = b
       /\ \A v \in Workers \ {w} :
            countNew'[v] = countNew[v] /\ totalNew'[v] = totalNew[v]
  BY <1>1, <1>2, <1>17 DEF TypeInv
<1>19. /\ ops' = [ops EXCEPT ![w] = r] /\ todo' = [todo EXCEPT ![w] = U]
  BY <1>1, <1>3, <1>9, <1>10
<1>20. /\ ops' \in [Workers -> Seq(OpSet)] /\ todo' \in [Workers -> SUBSET Terms]
       /\ ops'[w] = r /\ todo'[w] = U
       /\ \A v \in Workers \ {w} : ops'[v] = ops[v] /\ todo'[v] = todo[v]
  BY <1>2, <1>19 DEF TypeInv
<1>21. TypeInv'  BY <1>1, <1>2, <1>8, <1>18, <1>20 DEF TypeInv, committedVars
<1>22. \A v \in Workers \ {w} : Unmoved(v)
  BY <1>1, <1>2, <1>8, <1>18, <1>20 DEF TypeInv, Unmoved
<1>23. doc'[w] = d /\ chunks' = cs /\ dfNew'[w] = dfNew[w]
  BY <1>1, <1>5, <1>6 DEF committedVars
<1>24. OpsInv(w)'  BY <1>9, <1>10, <1>11, <1>20, <1>23 DEF OpsInv
<1>25. Untouched(w)'
  <2>1. ASSUME NEW x \in Rows \ (H \cup {StatsRow}), NEW c \in Chunks(d), Touches(c, x)
        PROVE  Present(r, U, c, x) <=> c \in cs
    <3>1. Present(r, U, c, x) <=> Present(s, T, c, x)  BY <2>1, <1>13 DEF Same
    <3>2. Present(s, T, c, x) <=> c \in cs
      BY <2>1, <1>3, <1>4, <1>5, <1>6, <1>7, <1>8 DEF Untouched
    <3> QED  BY <3>1, <3>2
  <2>2. PICK K : K = H \cup {StatsRow}  OBVIOUS
  <2>3. \A x \in Rows \ K : \A c \in Chunks(d) :
          Touches(c, x) => (Present(r, U, c, x) <=> c \in cs)
    BY <2>1, <2>2, Zenon
  <2>4. held'[w] = K /\ todo'[w] = U /\ ops'[w] = r /\ doc'[w] = d /\ chunks' = cs
    BY <2>2, <1>8, <1>20, <1>23
  <2> QED  BY <2>3, <2>4 DEF Untouched
<1>26. Written(w)'
  <2>1. ASSUME NEW u \in Terms \cap (H \cup {StatsRow})
        PROVE  dfNew[w][u] = Cardinality(View(cs, d, r, U, u))
    <3>1. u # StatsRow /\ u \in H  BY <2>1, BM25Assumption
    <3>2. Same(s, T, r, U, u)  BY <3>1, <1>13
    <3>3. View(cs, d, r, U, u) = View(cs, d, s, T, u)  BY <3>2, ViewSame
    <3>4. dfNew[w][u] = Cardinality(View(cs, d, s, T, u))
      BY <2>1, <3>1, <1>3, <1>4, <1>5, <1>6, <1>7, <1>8 DEF Written
    <3> QED  BY <3>3, <3>4
  <2>2. countNew'[w] = Cardinality(View(cs, d, r, U, StatsRow))  BY <1>17, <1>18
  <2>3. totalNew'[w] = TotalLength(View(cs, d, r, U, StatsRow))  BY <1>17, <1>18
  <2>4. held'[w] = H \cup {StatsRow} /\ todo'[w] = U /\ ops'[w] = r
    BY <1>8, <1>20
  <2> QED  BY <2>1, <2>2, <2>3, <2>4, <1>23 DEF Written
<1>27. TxInv' /\ StatsAgree' /\ WholeDocs'
  BY <1>1, <1>22, <1>24, <1>25, <1>26, OthersKeep
<1>28. OneIngest'  BY <1>1, <1>2 DEF OneIngest
<1>29. Idle'
  BY <1>1, <1>2, <1>5, <1>8, <1>22, <1>23 DEF Idle, Unmoved, committedVars
<1> QED  BY <1>8, <1>21, <1>27, <1>28, <1>29 DEF StatsInv

\* When no trigger is left the rows count all of the document; a row that is not
\* held did so before.
LEMMA CommitView ==
  ASSUME TypeInv, NEW w \in Workers, NEW d \in Docs, d = doc[w], ops[w] = <<>>,
         Untouched(w), NEW x \in Rows
  PROVE  /\ View(chunks, d, ops[w], todo[w], x)
              = {c \in chunks \cup Chunks(d) : Touches(c, x)}
         /\ x \notin held[w] =>
              \A c \in Chunks(d) : Touches(c, x) => c \in chunks
<1>1. \A c : Present(ops[w], todo[w], c, x)
  <2>1. \A c, b : ~Pending(<<>>, todo[w], c, x, b)  BY DEF Pending
  <2> QED  BY <2>1 DEF Present
<1>2. chunks \subseteq AllChunks /\ Chunks(d) \subseteq AllChunks
  BY ChunkFacts DEF TypeInv
<1>3. View(chunks, d, ops[w], todo[w], x)
        = {c \in chunks \cup Chunks(d) : Touches(c, x)}
  BY <1>1, <1>2 DEF View
<1>4. x \notin held[w] => \A c \in Chunks(d) : Touches(c, x) => c \in chunks
  BY <1>1 DEF Untouched
<1> QED  BY <1>3, <1>4

\* The commit installs the written rows.
LEMMA CommitStats ==
  ASSUME StatsInv, NEW w \in Workers, Commit(w) PROVE StatsInv'
<1>1. /\ doc[w] # None /\ ops[w] = <<>> /\ Release(w) /\ triggers' = triggers
      /\ chunks' = chunks \cup Chunks(doc[w])
      /\ chunkStats' = IF triggers THEN chunkStats \cup Chunks(doc[w]) ELSE chunkStats
      /\ chunkTerms' = IF triggers
                         THEN chunkTerms \cup {c \in Chunks(doc[w]) : TermRows(c) # {}}
                         ELSE chunkTerms
      /\ df' = [t \in Terms |-> Df(w, t)] /\ count' = Count(w) /\ total' = Total(w)
  BY DEF Commit
<1>2. TypeInv /\ WholeDocs /\ OneIngest /\ Exclusive /\ Idle /\ TxInv /\ StatsAgree
  BY DEF StatsInv
<1>3. PICK d \in Docs : d = doc[w]  BY <1>1, <1>2 DEF TypeInv
<1>4. PICK cs : cs = chunks \cup Chunks(d)  OBVIOUS
<1>5. chunks' = cs /\ cs \subseteq AllChunks /\ chunks \subseteq cs
  BY <1>1, <1>2, <1>3, <1>4, ChunkFacts DEF TypeInv
<1>6. /\ \A v \in Workers \ {w} : Unmoved(v)
      /\ doc'[w] = None /\ ops'[w] = <<>> /\ todo'[w] = {} /\ held'[w] = {}
      /\ OneIngest' /\ Exclusive'
  BY <1>1, ReleaseFacts
<1>7. /\ df' \in [Terms -> Nat] /\ count' \in Nat /\ total' \in Nat
  BY <1>1, <1>2 DEF TypeInv, Df, Count, Total
<1>8. chunkStats' \subseteq chunks' /\ chunkTerms' \subseteq chunks'
  BY <1>1, <1>2 DEF TypeInv
<1>9. TypeInv'
  <2>1. triggers' \in BOOLEAN  BY <1>1, <1>2 DEF TypeInv
  <2> QED  BY <2>1, <1>1, <1>5, <1>7, <1>8, ReleaseFacts DEF TypeInv
<1>10. WholeDocs'
  <2>1. ASSUME NEW e \in Docs PROVE Chunks(e) \subseteq cs \/ Chunks(e) \cap cs = {}
    <3>1. CASE e = d  BY <3>1, <1>4
    <3>2. CASE e # d
      <4>1. Chunks(e) \cap Chunks(d) = {}  BY <3>2, ChunkFacts
      <4> QED  BY <4>1, <1>2, <1>4 DEF WholeDocs
    <3> QED  BY <3>1, <3>2
  <2> QED  BY <2>1, <1>5 DEF WholeDocs
<1>11. ASSUME ~triggers PROVE Idle' /\ TxInv' /\ StatsAgree'
  <2>1. held[w] = {} /\ df = [t \in Terms |-> 0] /\ count = 0 /\ total = 0
    BY <1>2, <1>11 DEF Idle
  <2>2. df' = [t \in Terms |-> 0] /\ count' = 0 /\ total' = 0
    BY <1>1, <2>1 DEF Df, Count, Total
  <2>3. Idle'  BY <1>1, <1>2, <1>6, <1>11, <2>2 DEF Idle, Unmoved
  <2> QED  BY <1>1, <1>11, <2>3 DEF TxInv, StatsAgree
<1>12. ASSUME triggers PROVE Idle' /\ TxInv' /\ StatsAgree'
  <2>1. OpsInv(w) /\ Untouched(w) /\ Written(w)  BY <1>1, <1>2, <1>12 DEF TxInv
  <2>2. ASSUME NEW x \in Rows
        PROVE  /\ View(chunks, doc[w], ops[w], todo[w], x) = {c \in cs : Touches(c, x)}
               /\ x \notin held[w] => \A c \in Chunks(d) : Touches(c, x) => c \in chunks
    BY <1>1, <1>2, <1>3, <1>4, <2>1, CommitView
  <2>3. ASSUME NEW t \in Terms
        PROVE  df'[t] = Cardinality({c \in cs : t \in TermRows(c)})
    <3>1. {c \in cs : Touches(c, t)} = {c \in cs : t \in TermRows(c)}
      BY BM25Assumption DEF Touches
    <3>2. View(chunks, doc[w], ops[w], todo[w], t) = {c \in cs : t \in TermRows(c)}
      BY <2>2, <3>1 DEF Rows
    <3>3. Df(w, t) = Cardinality(View(chunks, doc[w], ops[w], todo[w], t))
      BY <1>1, <1>2, <1>12, <2>1, Sees
    <3>4. df'[t] = Df(w, t)  BY <1>1
    <3> QED  BY <3>2, <3>3, <3>4
  <2>4. count' = Cardinality(cs) /\ total' = TotalLength(cs)
    <3>1. {c \in cs : Touches(c, StatsRow)} = cs  BY DEF Touches
    <3>2. View(chunks, doc[w], ops[w], todo[w], StatsRow) = cs
      BY <2>2, <3>1 DEF Rows
    <3>3. /\ Count(w) = Cardinality(View(chunks, doc[w], ops[w], todo[w], StatsRow))
          /\ Total(w) = TotalLength(View(chunks, doc[w], ops[w], todo[w], StatsRow))
      BY <1>1, <1>2, <1>12, <2>1, Sees
    <3> QED  BY <1>1, <3>2, <3>3
  <2>5. {c \in cs : TermRows(c) # {}} \subseteq chunkStats' \cap chunkTerms'
    BY <1>1, <1>2, <1>3, <1>4, <1>12 DEF StatsAgree
  <2>6. StatsAgree'  BY <1>5, <2>3, <2>4, <2>5 DEF StatsAgree
  <2>7. ASSUME NEW v \in Workers, (doc[v] # None)'
        PROVE  OpsInv(v)' /\ Untouched(v)' /\ Written(v)'
    <3>1. v # w /\ Unmoved(v)  BY <1>6, <2>7
    <3>2. doc[v] # None /\ doc[v] # d /\ doc[v] \in Docs
      BY <1>1, <1>2, <1>3, <2>7, <3>1 DEF Unmoved, OneIngest, TypeInv
    <3>3. OpsInv(v) /\ Untouched(v) /\ Written(v)  BY <1>2, <1>12, <3>2 DEF TxInv
    <3>4. ASSUME NEW c \in chunks' \ chunks
          PROVE  c \notin Chunks(doc[v]) /\ \A x \in held[v] : ~Touches(c, x)
      <4>1. c \in Chunks(d) /\ c \notin chunks  BY <1>4, <1>5
      <4>2. c \notin Chunks(doc[v])  BY <3>2, <4>1, ChunkFacts
      <4>3. ASSUME NEW x \in held[v] PROVE ~Touches(c, x)
        <5>1. x \in Rows /\ x \notin held[w]  BY <1>2, <3>1 DEF TypeInv, Exclusive
        <5> QED  BY <2>2, <4>1, <5>1
      <4> QED  BY <4>2, <4>3
    <3> QED  BY <1>2, <1>5, <3>1, <3>3, <3>4, OtherTx
  <2>8. TxInv'  BY <2>7 DEF TxInv
  <2>9. Idle'  BY <1>1, <1>2, <1>6, <1>12 DEF Idle, Unmoved
  <2> QED  BY <2>6, <2>8, <2>9
<1>13. triggers \in BOOLEAN  BY <1>2 DEF TypeInv
<1> QED  BY <1>6, <1>9, <1>10, <1>11, <1>12, <1>13 DEF StatsInv

LEMMA StatsStep == StatsInv /\ [Next]_vars => StatsInv'
<1> SUFFICES ASSUME StatsInv, [Next]_vars PROVE StatsInv'  OBVIOUS
<1>1. CASE Migrate  BY <1>1, MigrateStats
<1>2. ASSUME NEW w \in Workers, NEW d \in Docs, Begin(w, d) PROVE StatsInv'
  BY <1>2, BeginStats
<1>3. ASSUME NEW w \in Workers, NEW x \in Terms \cup {StatsRow}, Block(w, x)
      PROVE  StatsInv'
  BY <1>3, BlockStats DEF Rows
<1>4. ASSUME NEW w \in Workers, NEW t \in Terms, TouchTerm(w, t) PROVE StatsInv'
  BY <1>4, TouchTermStats
<1>5. ASSUME NEW w \in Workers, TouchStats(w) PROVE StatsInv'
  BY <1>5, TouchStatsStats
<1>6. ASSUME NEW w \in Workers, Commit(w) PROVE StatsInv'  BY <1>6, CommitStats
<1>7. ASSUME NEW w \in Workers, Abort(w) PROVE StatsInv'  BY <1>7, AbortStats
<1>8. CASE UNCHANGED vars
  <2>1. UNCHANGED committedVars /\ UNCHANGED txVars  BY <1>8 DEF vars
  <2>2. \A v \in Workers : Unmoved(v)  BY <2>1 DEF txVars, Unmoved
  <2>3. TypeInv' /\ WholeDocs' /\ OneIngest' /\ Exclusive' /\ Idle' /\ StatsAgree'
    BY <2>1 DEF StatsInv, TypeInv, WholeDocs, OneIngest, Exclusive, Idle, StatsAgree,
                committedVars, txVars
  <2>4. ASSUME NEW v \in Workers, (doc[v] # None)', triggers'
        PROVE  OpsInv(v)' /\ Untouched(v)' /\ Written(v)'
    <3>1. doc[v] # None /\ triggers /\ chunks' = chunks
      BY <2>1, <2>4 DEF committedVars, txVars
    <3> QED  BY <2>2, <3>1, OtherTx DEF StatsInv, TxInv
  <2> QED  BY <2>3, <2>4 DEF StatsInv, TxInv
<1> QED  BY <1>1, <1>2, <1>3, <1>4, <1>5, <1>6, <1>7, <1>8 DEF Next

\* The statistics BM25 ranks with (corpus_terms, corpus_stats) agree with the
\* chunks table in every committed state: for any documents and terms and any
\* number of workers, however their transactions interleave, wait for one
\* another's rows, abort, or follow an upgrade of a database that had none.
THEOREM StatisticsAgree == Spec => []StatsAgree
<1>1. StatsInv => StatsAgree  BY DEF StatsInv
<1> QED  BY <1>1, StatsInit, StatsStep, PTL DEF Spec

=============================================================================
