--------------------------- MODULE ChunkingProofs ---------------------------
(***************************************************************************)
(* Proofs about the chunker for every document and every budget.           *)
(***************************************************************************)
EXTENDS Chunking, FiniteSetTheorems, FunctionTheorems, TLAPS

Titles == {l.title : l \in Lines}
Paths == Seq(Titles)
Pieces == [line : Nat, from : Nat, to : Nat]
Texts == [len : Nat, pieces : Seq(Pieces)]
Sections == [path : Paths, text : Texts]
Chunks == [heading : Paths, text : Texts]

-----------------------------------------------------------------------------
(***************************************************************************)
(* Texts.                                                                  *)
(***************************************************************************)

\* The places of a text's pieces.
Places(t) == 1 .. Len(t.pieces)

\* A text is empty or has pieces, which are in reading order.
Sound(t) ==
  /\ t.len = 0 <=> Len(t.pieces) = 0
  /\ \A k \in Places(t) : t.pieces[k].from <= t.pieces[k].to
  /\ \A j, k \in Places(t) : j < k => Precedes(t.pieces[j], t.pieces[k])

\* All of t is read before all of u.
Ahead(t, u) ==
  \A j \in Places(t) : \A k \in Places(u) : Precedes(t.pieces[j], u.pieces[k])

\* The characters in a text, and in whole lines.
Chars(t) == UNION {Characters(t.pieces[k]) : k \in Places(t)}
CharsOf(L) == UNION {{i} \X (1 .. doc[i].len) : i \in L}

\* The constants are numbers, and a line has a kind, a level and a length.
LEMMA ConstantTypes ==
  /\ TARGET_CHARS \in Nat \ {0} /\ MAX_CHARS \in Nat \ {0}
  /\ MIN_CHARS \in Nat \ {0} /\ OVERLAP_CHARS \in Nat \ {0}
  /\ \A l \in Lines : /\ l.kind \in {"fence", "heading", "text"}
                      /\ l.level \in 1 .. 6 /\ l.len \in Nat \ {0}
                      /\ l.title \in Titles
  BY ChunkingAssumption DEF Titles

\* The empty text.
LEMMA EmptyText ==
  /\ Empty \in Texts /\ Empty.len = 0 /\ Len(Empty.pieces) = 0 /\ Places(Empty) = {}
  /\ Sound(Empty) /\ Chars(Empty) = {}
  /\ \A t : Ahead(t, Empty) /\ Ahead(Empty, t)
<1>1. Empty.pieces = <<>> /\ Empty.len = 0 /\ Empty \in Texts
  BY DEF Empty, Texts
<1>2. Places(Empty) = {} /\ Len(Empty.pieces) = 0
  BY <1>1 DEF Places
<1> QED
  BY <1>1, <1>2 DEF Sound, Chars, Ahead

\* A text has a length and a sequence of pieces.
LEMMA TextType ==
  ASSUME NEW t \in Texts
  PROVE  /\ t.len \in Nat /\ t.pieces \in Seq(Pieces) /\ Len(t.pieces) \in Nat
         /\ \A k \in Places(t) : /\ t.pieces[k] \in Pieces
                                 /\ t.pieces[k].line \in Nat
                                 /\ t.pieces[k].from \in Nat /\ t.pieces[k].to \in Nat
<1>1. t.len \in Nat /\ t.pieces \in Seq(Pieces) /\ Len(t.pieces) \in Nat
  BY DEF Texts
<1>2. \A k \in Places(t) : t.pieces[k] \in Pieces
  BY <1>1 DEF Places
<1>3. \A p \in Pieces : p.line \in Nat /\ p.from \in Nat /\ p.to \in Nat
  BY DEF Pieces
<1> QED
  BY <1>1, <1>2, <1>3

\* The entries of a concatenation.
LEMMA ConcatIs ==
  ASSUME NEW X, NEW p \in Seq(X), NEW q \in Seq(X)
  PROVE  /\ p \o q \in Seq(X) /\ Len(p) \in Nat /\ Len(q) \in Nat
         /\ Len(p \o q) = Len(p) + Len(q)
         /\ \A k \in 1 .. Len(p) : (p \o q)[k] = p[k]
         /\ \A k \in 1 .. Len(q) : (p \o q)[Len(p) + k] = q[k]
         /\ \A k \in 1 .. Len(p \o q) : k \in 1 .. Len(p) \/ k - Len(p) \in 1 .. Len(q)
  OBVIOUS

\* Joining keeps the pieces of both texts in their order.
LEMMA JoinIs ==
  ASSUME NEW a \in Texts, NEW b \in Texts, NEW sep \in Nat, Sound(a)
  PROVE  LET t == Join(a, sep, b) IN
         /\ t \in Texts
         /\ t.len = IF a.len = 0 THEN b.len ELSE a.len + sep + b.len
         /\ Len(t.pieces) = Len(a.pieces) + Len(b.pieces)
         /\ \A k \in Places(a) : t.pieces[k] = a.pieces[k]
         /\ \A k \in Places(b) : t.pieces[Len(a.pieces) + k] = b.pieces[k]
         /\ \A k \in Places(t) : \/ k \in Places(a)
                                 \/ k - Len(a.pieces) \in Places(b)
<1> DEFINE t == Join(a, sep, b)
<1>0. /\ a.len \in Nat /\ b.len \in Nat /\ a.pieces \in Seq(Pieces) /\ b.pieces \in Seq(Pieces)
      /\ Len(a.pieces) \in Nat /\ Len(b.pieces) \in Nat
  BY TextType
<1>1. CASE a.len = 0
  <2>1. t = b
    BY <1>1 DEF Join
  <2>2. Len(a.pieces) = 0
    BY <1>1 DEF Sound
  <2> QED
    BY <1>0, <1>1, <2>1, <2>2 DEF Places
<1>2. CASE a.len # 0
  <2> HIDE DEF t
  <2>1. t = [len |-> a.len + sep + b.len, pieces |-> a.pieces \o b.pieces]
    BY <1>2 DEF Join, t
  <2>2. t.len = a.len + sep + b.len /\ t.pieces = a.pieces \o b.pieces
    BY <2>1
  <2>3. t \in Texts
    BY <1>0, <2>1 DEF Texts
  <2>4. /\ Len(t.pieces) = Len(a.pieces) + Len(b.pieces)
        /\ \A k \in Places(a) : t.pieces[k] = a.pieces[k]
        /\ \A k \in Places(b) : t.pieces[Len(a.pieces) + k] = b.pieces[k]
        /\ \A k \in Places(t) : k \in Places(a) \/ k - Len(a.pieces) \in Places(b)
    <3> DEFINE p == a.pieces
               q == b.pieces
    <3>1. p \in Seq(Pieces) /\ q \in Seq(Pieces) /\ t.pieces = p \o q
      BY <1>0, <2>2
    <3> HIDE DEF p, q
    <3>2. /\ Len(t.pieces) = Len(p) + Len(q)
          /\ \A k \in 1 .. Len(p) : t.pieces[k] = p[k]
          /\ \A k \in 1 .. Len(q) : t.pieces[Len(p) + k] = q[k]
          /\ \A k \in 1 .. Len(t.pieces) : k \in 1 .. Len(p) \/ k - Len(p) \in 1 .. Len(q)
      BY <3>1, ConcatIs
    <3> QED
      BY <3>2, Zenon DEF Places, p, q
  <2> QED
    BY <1>2, <2>2, <2>3, <2>4 DEF t
<1> QED
  BY <1>1, <1>2

\* A join of sound texts, one ahead of the other, is sound, holds the characters
\* of both, and is behind what both are behind.
LEMMA JoinSound ==
  ASSUME NEW a \in Texts, NEW b \in Texts, NEW sep \in Nat,
         Sound(a), Sound(b), Ahead(a, b)
  PROVE  /\ Sound(Join(a, sep, b))
         /\ Chars(Join(a, sep, b)) = Chars(a) \cup Chars(b)
         /\ \A x : Ahead(x, a) /\ Ahead(x, b) => Ahead(x, Join(a, sep, b))
<1> DEFINE t == Join(a, sep, b)
           m == Len(a.pieces)
<1>1. /\ t \in Texts
      /\ t.len = IF a.len = 0 THEN b.len ELSE a.len + sep + b.len
      /\ Len(t.pieces) = m + Len(b.pieces)
      /\ \A k \in Places(a) : t.pieces[k] = a.pieces[k]
      /\ \A k \in Places(b) : t.pieces[m + k] = b.pieces[k]
      /\ \A k \in Places(t) : k \in Places(a) \/ k - m \in Places(b)
  BY JoinIs
<1>2. /\ m \in Nat /\ Len(b.pieces) \in Nat /\ a.len \in Nat /\ b.len \in Nat
  BY TextType
<1>0. (a.len = 0 <=> m = 0) /\ (b.len = 0 <=> Len(b.pieces) = 0)
  BY DEF Sound
<1> HIDE DEF t, m
<1>3. \A k \in Places(t) :
        \/ k \in Places(a) /\ t.pieces[k] = a.pieces[k]
        \/ k - m \in Places(b) /\ t.pieces[k] = b.pieces[k - m]
  <2> TAKE k \in Places(t)
  <2>1. CASE k \in Places(a)
    BY <1>1, <2>1
  <2>2. CASE k - m \in Places(b)
    <3>1. m + (k - m) = k
      BY <1>2 DEF Places
    <3> QED
      BY <1>1, <2>2, <3>1
  <2> QED
    BY <1>1, <2>1, <2>2
<1>4. /\ \A k \in Places(a) : k \in Places(t)
      /\ \A k \in Places(b) : m + k \in Places(t)
  <2>1. Places(a) = 1 .. m
    BY DEF Places, m
  <2> QED
    BY <1>1, <1>2, <2>1 DEF Places
<1>5. t.len = 0 <=> Len(t.pieces) = 0
  BY <1>0, <1>1, <1>2
<1>6. \A k \in Places(t) : t.pieces[k].from <= t.pieces[k].to
  BY <1>3 DEF Sound
<1>7. ASSUME NEW j \in Places(t), NEW k \in Places(t), j < k
      PROVE  Precedes(t.pieces[j], t.pieces[k])
  <2>1. CASE j \in Places(a) /\ k \in Places(a)
    BY <1>1, <1>7, <2>1 DEF Sound
  <2>2. CASE j \in Places(a) /\ k - m \in Places(b) /\ t.pieces[k] = b.pieces[k - m]
    BY <1>1, <2>2 DEF Ahead
  <2>3. CASE /\ j - m \in Places(b) /\ t.pieces[j] = b.pieces[j - m]
             /\ k - m \in Places(b) /\ t.pieces[k] = b.pieces[k - m]
    <3>1. j - m < k - m
      BY <1>2, <1>7 DEF Places
    <3> QED
      BY <2>3, <3>1 DEF Sound
  <2>4. CASE j - m \in Places(b) /\ k \in Places(a)
    BY <1>2, <1>7, <2>4 DEF Places, m
  <2> QED
    BY <1>3, <2>1, <2>2, <2>3, <2>4
<1>8. Chars(t) = Chars(a) \cup Chars(b)
  <2>1. \A x \in Chars(t) : x \in Chars(a) \/ x \in Chars(b)
    BY <1>3 DEF Chars
  <2>2. \A x \in Chars(a) : x \in Chars(t)
    BY <1>1, <1>4 DEF Chars
  <2>3. \A x \in Chars(b) : x \in Chars(t)
    BY <1>1, <1>4 DEF Chars
  <2> QED
    BY <2>1, <2>2, <2>3
<1>9. \A x : Ahead(x, a) /\ Ahead(x, b) => Ahead(x, t)
  BY <1>3 DEF Ahead
<1> QED
  BY <1>5, <1>6, <1>7, <1>8, <1>9 DEF Sound, t

\* The pieces of a sound text within some lines are pieces of these lines.
LEMMA LinesOfPieces ==
  ASSUME NEW t \in Texts, Sound(t), NEW L, Chars(t) \subseteq CharsOf(L), NEW k \in Places(t)
  PROVE  t.pieces[k].line \in L
<1>1. t.pieces[k].from \in Nat /\ t.pieces[k].to \in Nat /\ t.pieces[k].from <= t.pieces[k].to
  BY TextType DEF Sound
<1>2. <<t.pieces[k].line, t.pieces[k].from>> \in Characters(t.pieces[k])
  BY <1>1 DEF Characters
<1>3. <<t.pieces[k].line, t.pieces[k].from>> \in CharsOf(L)
  BY <1>2 DEF Chars
<1> QED
  BY <1>3 DEF CharsOf

\* A text within earlier lines is ahead of one within later lines.
LEMMA EarlierLinesAhead ==
  ASSUME NEW t \in Texts, Sound(t), NEW L \in SUBSET Nat, Chars(t) \subseteq CharsOf(L),
         NEW u \in Texts, Sound(u), NEW M \in SUBSET Nat, Chars(u) \subseteq CharsOf(M),
         \A i \in L : \A j \in M : i < j
  PROVE  Ahead(t, u)
  BY LinesOfPieces DEF Ahead, Precedes

-----------------------------------------------------------------------------
(***************************************************************************)
(* Chunks and the text that is not in a chunk yet.                         *)
(***************************************************************************)

\* The chunks cs and the text t behind them hold the lines L, each character
\* once and in reading order.
InOrder(cs, t) ==
  /\ Sound(t)
  /\ \A c \in 1 .. Len(cs) : Sound(cs[c].text) /\ Ahead(cs[c].text, t)
  /\ \A c, d \in 1 .. Len(cs) : c < d => Ahead(cs[c].text, cs[d].text)
CharsIn(cs) == UNION {Chars(cs[c].text) : c \in 1 .. Len(cs)}
Reads(cs, t, L) == InOrder(cs, t) /\ CharsIn(cs) \cup Chars(t) = CharsOf(L)

\* A chunk has a heading and a text.
LEMMA ChunkType ==
  /\ \A h \in Paths, t \in Texts : /\ Chunk(h, t) \in Chunks
                                  /\ Chunk(h, t).text = t /\ Chunk(h, t).heading = h
  /\ \A cs \in Seq(Chunks) : /\ Len(cs) \in Nat
                             /\ \A c \in 1 .. Len(cs) : cs[c] \in Chunks /\ cs[c].text \in Texts
                                                        /\ cs[c].heading \in Paths
<1>1. \A k \in Chunks : k.text \in Texts /\ k.heading \in Paths
  BY DEF Chunks
<1>2. \A cs \in Seq(Chunks) : Len(cs) \in Nat /\ \A c \in 1 .. Len(cs) : cs[c] \in Chunks
  OBVIOUS
<1>3. \A h \in Paths, t \in Texts : /\ Chunk(h, t) \in Chunks
                                   /\ Chunk(h, t).text = t /\ Chunk(h, t).heading = h
  BY DEF Chunk, Chunks
<1> QED
  BY <1>1, <1>2, <1>3

\* The characters in a list of chunks, one chunk more.
LEMMA CharsInAppend ==
  ASSUME NEW cs \in Seq(Chunks), NEW k \in Chunks
  PROVE  CharsIn(Append(cs, k)) = CharsIn(cs) \cup Chars(k.text)
<1> DEFINE n == Len(cs)
           ds == Append(cs, k)
<1>1. /\ n \in Nat /\ Len(ds) = n + 1 /\ ds[n + 1] = k
      /\ \A c \in 1 .. n : ds[c] = cs[c]
  OBVIOUS
<1> HIDE DEF ds, n
<1>2. \A x : x \in CharsIn(ds) <=> \E c \in 1 .. n + 1 : x \in Chars(ds[c].text)
  BY <1>1 DEF CharsIn
<1>3. \A x : x \in CharsIn(cs) <=> \E c \in 1 .. n : x \in Chars(cs[c].text)
  BY DEF CharsIn, n
<1>4. \A x : (\E c \in 1 .. n + 1 : x \in Chars(ds[c].text)) <=>
               (\E c \in 1 .. n : x \in Chars(cs[c].text)) \/ x \in Chars(k.text)
  <2>1. \A c \in 1 .. n + 1 : c \in 1 .. n \/ c = n + 1
    BY <1>1
  <2>2. (\A c \in 1 .. n : c \in 1 .. n + 1) /\ n + 1 \in 1 .. n + 1
    BY <1>1
  <2> QED
    BY <1>1, <2>1, <2>2
<1> QED
  BY <1>2, <1>3, <1>4 DEF ds

\* What is behind the chunks becomes the last of them.
LEMMA ReadsFlush ==
  ASSUME NEW cs \in Seq(Chunks), NEW t \in Texts, NEW h \in Paths, NEW L,
         Reads(cs, t, L)
  PROVE  /\ Append(cs, Chunk(h, t)) \in Seq(Chunks)
         /\ Reads(Append(cs, Chunk(h, t)), Empty, L)
<1> DEFINE n == Len(cs)
           k == Chunk(h, t)
           ds == Append(cs, k)
<1>1. k \in Chunks /\ k.text = t
  BY ChunkType
<1>2. CharsIn(ds) = CharsIn(cs) \cup Chars(t)
  BY <1>1, CharsInAppend
<1> HIDE DEF k
<1>3. /\ n \in Nat /\ ds \in Seq(Chunks) /\ Len(ds) = n + 1 /\ ds[n + 1] = k
      /\ \A c \in 1 .. n : ds[c] = cs[c]
  BY <1>1
<1> HIDE DEF ds
<1>4. InOrder(cs, t)
  BY DEF Reads
<1>5. \A c \in 1 .. Len(ds) : c \in 1 .. n \/ c = n + 1
  BY <1>3
<1>6. \A c \in 1 .. Len(ds) : Sound(ds[c].text) /\ Ahead(ds[c].text, Empty)
  BY <1>1, <1>3, <1>4, <1>5, EmptyText DEF InOrder
<1>7. ASSUME NEW c \in 1 .. Len(ds), NEW d \in 1 .. Len(ds), c < d
      PROVE  Ahead(ds[c].text, ds[d].text)
  <2>1. c \in 1 .. n /\ ds[c] = cs[c]
    BY <1>3, <1>7
  <2>2. CASE d \in 1 .. n
    BY <1>3, <1>4, <1>7, <2>1, <2>2 DEF InOrder
  <2>3. CASE d = n + 1
    BY <1>1, <1>3, <1>4, <2>1, <2>3 DEF InOrder
  <2> QED
    BY <1>5, <2>2, <2>3
<1>8. InOrder(ds, Empty)
  BY <1>6, <1>7, EmptyText DEF InOrder
<1>9. CharsIn(ds) \cup Chars(Empty) = CharsOf(L)
  BY <1>2, EmptyText DEF Reads
<1> QED
  BY <1>3, <1>8, <1>9 DEF Reads, ds, k

\* A text of later lines is joined to what is behind the chunks.
LEMMA ReadsJoin ==
  ASSUME NEW cs \in Seq(Chunks), NEW t \in Texts, NEW L \in SUBSET Nat, Reads(cs, t, L),
         NEW u \in Texts, Sound(u), NEW M \in SUBSET Nat, Chars(u) = CharsOf(M),
         \A i \in L : \A j \in M : i < j,
         NEW sep \in Nat
  PROVE  /\ Join(t, sep, u) \in Texts
         /\ Reads(cs, Join(t, sep, u), L \cup M)
<1> DEFINE v == Join(t, sep, u)
<1>1. InOrder(cs, t) /\ CharsIn(cs) \cup Chars(t) = CharsOf(L)
  BY DEF Reads
<1>2. Sound(t)
  BY <1>1 DEF InOrder
<1>3. Ahead(t, u)
  <2>1. Chars(t) \subseteq CharsOf(L)
    BY <1>1
  <2> QED
    BY <1>2, <2>1, EarlierLinesAhead
<1>4. \A c \in 1 .. Len(cs) : Ahead(cs[c].text, u)
  <2> TAKE c \in 1 .. Len(cs)
  <2>1. cs[c].text \in Texts /\ Sound(cs[c].text)
    BY <1>1, ChunkType DEF InOrder
  <2>2. Chars(cs[c].text) \subseteq CharsOf(L)
    BY <1>1 DEF CharsIn
  <2> QED
    BY <2>1, <2>2, EarlierLinesAhead
<1>5. v \in Texts /\ Sound(v) /\ Chars(v) = Chars(t) \cup Chars(u)
  <2>1. v \in Texts
    BY <1>2, JoinIs
  <2>2. Sound(v) /\ Chars(v) = Chars(t) \cup Chars(u)
    BY <1>2, <1>3, JoinSound
  <2> QED
    BY <2>1, <2>2
<1>6. \A c \in 1 .. Len(cs) : Ahead(cs[c].text, v)
  BY <1>1, <1>2, <1>3, <1>4, JoinSound DEF InOrder
<1> HIDE DEF v
<1>7. InOrder(cs, v)
  BY <1>1, <1>5, <1>6 DEF InOrder
<1>8. CharsOf(L \cup M) = CharsOf(L) \cup CharsOf(M)
  BY DEF CharsOf
<1>9. CharsIn(cs) \cup Chars(v) = CharsOf(L \cup M)
  BY <1>1, <1>5, <1>8
<1> QED
  BY <1>5, <1>7, <1>9 DEF Reads, v

\* Division by the budget.
LEMMA Quotient ==
  ASSUME NEW a \in Nat, NEW m \in Nat \ {0}
  PROVE  a \div m \in Nat /\ (a \div m) * m <= a /\ a < (a \div m) * m + m
  OBVIOUS

\* Products grow with a factor.
LEMMA TimesMonotone ==
  ASSUME NEW a \in Nat, NEW b \in Nat, a <= b, NEW m \in Nat
  PROVE  a * m \in Nat /\ b * m \in Nat /\ a * m <= b * m
<1>1. PICK d \in Nat : b = a + d
  <2>1. b - a \in Nat /\ b = a + (b - a)
    OBVIOUS
  <2> QED
    BY <2>1
<1>2. \A x \in Nat : x * m \in Nat
  OBVIOUS
<1>3. b * m = a * m + d * m
  BY <1>1
<1> QED
  BY <1>2, <1>3

\* The pieces of a line longer than the budget follow each other without a gap.
LEMMA HardPartsAre ==
  ASSUME NEW i \in Nat, doc[i].len \in Nat \ {0}, Section.path \in Paths
  PROVE  LET hs == HardParts(i) IN
         /\ hs \in Seq(Chunks)
         /\ \A k \in 1 .. Len(hs) :
              /\ hs[k].heading = Section.path
              /\ hs[k].text.len \in 1 .. MAX_CHARS
              /\ Len(hs[k].text.pieces) = 1
              /\ hs[k].text.pieces[1].line = i
              /\ hs[k].text.pieces[1].from \in 1 .. doc[i].len
              /\ hs[k].text.pieces[1].to \in 1 .. doc[i].len
              /\ hs[k].text.pieces[1].from <= hs[k].text.pieces[1].to
         /\ \A j, k \in 1 .. Len(hs) :
              j < k => hs[j].text.pieces[1].to < hs[k].text.pieces[1].from
         /\ \A x \in 1 .. doc[i].len : \E k \in 1 .. Len(hs) :
              x \in hs[k].text.pieces[1].from .. hs[k].text.pieces[1].to
<1> DEFINE l == doc[i].len
           M == MAX_CHARS
           n == (l + M - 1) \div M
           From(k) == (k - 1) * M + 1
           To(k) == Least(k * M, l)
           part(k) == Chunk(Section.path,
                            [len |-> To(k) - From(k) + 1,
                             pieces |-> <<[line |-> i, from |-> From(k), to |-> To(k)]>>])
           hs == HardParts(i)
<1>1. l \in Nat \ {0} /\ M \in Nat \ {0}
  BY ConstantTypes
<1>2. hs = [k \in 1 .. n |-> part(k)]
  BY DEF HardParts
<1> DEFINE q == Section.path
<1>0. q \in Paths
  OBVIOUS
<1> HIDE DEF l, M, hs, q
<1>3. n \in Nat /\ n * M <= l + M - 1 /\ l <= n * M
  <2>1. l + M - 1 \in Nat
    BY <1>1
  <2>2. n \in Nat /\ n * M <= l + M - 1 /\ l + M - 1 < n * M + M
    BY <1>1, <2>1, Quotient
  <2>3. n * M \in Nat
    BY <1>1, <2>2
  <2> HIDE DEF n
  <2> QED
    BY <1>1, <2>2, <2>3
<1> HIDE DEF n
<1>4. ASSUME NEW k \in 1 .. n
      PROVE  /\ k * M \in Nat /\ (k - 1) * M \in Nat /\ k * M = (k - 1) * M + M
             /\ (k - 1) * M + 1 <= l
  <2>1. k \in Nat /\ k - 1 \in Nat /\ k <= n
    BY <1>3
  <2>2. k * M \in Nat /\ k * M <= n * M /\ (k - 1) * M \in Nat
    BY <1>1, <1>3, <2>1, TimesMonotone
  <2>3. k * M = (k - 1) * M + M
    BY <1>1, <2>1
  <2>4. n * M \in Nat
    BY <1>1, <1>3
  <2> QED
    BY <1>1, <1>3, <2>2, <2>3, <2>4
<1>5. ASSUME NEW k \in 1 .. n
      PROVE  /\ From(k) \in 1 .. l /\ To(k) \in 1 .. l /\ From(k) <= To(k)
             /\ To(k) - From(k) + 1 \in 1 .. M
  BY <1>1, <1>4 DEF Least
<1>6. ASSUME NEW j \in 1 .. n, NEW k \in 1 .. n, j < k
      PROVE  To(j) < From(k)
  <2>1. j \in Nat /\ k - 1 \in Nat /\ j <= k - 1
    BY <1>3, <1>6
  <2>2. j * M \in Nat /\ (k - 1) * M \in Nat /\ j * M <= (k - 1) * M
    BY <1>1, <2>1, TimesMonotone
  <2> QED
    BY <1>1, <2>2 DEF Least
<1>7. ASSUME NEW x \in 1 .. l
      PROVE  \E k \in 1 .. n : x \in From(k) .. To(k)
  <2> DEFINE d == (x - 1) \div M
  <2>1. x - 1 \in Nat
    BY <1>1
  <2>2. d \in Nat /\ d * M <= x - 1 /\ x - 1 < d * M + M
    BY <1>1, <2>1, Quotient
  <2> HIDE DEF d
  <2>3. d * M \in Nat /\ (d + 1) * M = d * M + M /\ (d + 1) - 1 = d
    BY <1>1, <2>2
  <2>4. d + 1 <= n
    <3> SUFFICES ASSUME n <= d PROVE FALSE
      BY <1>3, <2>2
    <3>1. n * M <= d * M /\ n * M \in Nat
      BY <1>1, <1>3, <2>2, TimesMonotone
    <3> QED
      BY <1>1, <1>3, <2>2, <2>3, <3>1
  <2>5. d + 1 \in 1 .. n
    BY <1>3, <2>2, <2>4
  <2>6. From(d + 1) = d * M + 1 /\ To(d + 1) = Least(d * M + M, l)
    BY <2>3
  <2>7. x \in From(d + 1) .. To(d + 1)
    BY <1>1, <2>2, <2>3, <2>6 DEF Least
  <2> QED
    BY <2>5, <2>7
<1> HIDE DEF From, To
<1>8. ASSUME NEW k \in 1 .. n
      PROVE  /\ part(k) \in Chunks
             /\ part(k).heading = q
             /\ part(k).text.len = To(k) - From(k) + 1
             /\ Len(part(k).text.pieces) = 1
             /\ part(k).text.pieces[1] = [line |-> i, from |-> From(k), to |-> To(k)]
  <2> DEFINE p == [line |-> i, from |-> From(k), to |-> To(k)]
             t == [len |-> To(k) - From(k) + 1, pieces |-> <<p>>]
  <2>1. p \in Pieces
    BY <1>1, <1>5 DEF Pieces
  <2> HIDE DEF p
  <2>2. <<p>> \in Seq(Pieces) /\ Len(<<p>>) = 1 /\ <<p>>[1] = p
    BY <2>1
  <2>3. To(k) - From(k) + 1 \in Nat
    BY <1>1, <1>5
  <2>4. t \in Texts /\ t.len = To(k) - From(k) + 1 /\ t.pieces = <<p>>
    BY <2>2, <2>3 DEF Texts
  <2> HIDE DEF t
  <2>5. part(k) = Chunk(q, t)
    BY DEF t, p, q
  <2> QED
    BY <1>0, <2>2, <2>4, <2>5, ChunkType DEF p
<1> HIDE DEF part
<1>9. hs \in Seq(Chunks) /\ Len(hs) = n /\ \A k \in 1 .. n : hs[k] = part(k)
  <2>1. \A k \in 1 .. n : part(k) \in Chunks
    BY <1>8
  <2>2. hs \in [1 .. n -> Chunks] /\ \A k \in 1 .. n : hs[k] = part(k)
    BY <1>2, <2>1, Zenon
  <2>3. hs \in Seq(Chunks) /\ Len(hs) = n
    BY <1>3, <2>2
  <2> QED
    BY <2>2, <2>3
<1>10. \A k \in 1 .. n :
         /\ hs[k].heading = q
         /\ hs[k].text.len = To(k) - From(k) + 1
         /\ Len(hs[k].text.pieces) = 1
         /\ hs[k].text.pieces[1].line = i
         /\ hs[k].text.pieces[1].from = From(k)
         /\ hs[k].text.pieces[1].to = To(k)
  <2> TAKE k \in 1 .. n
  <2> DEFINE p == [line |-> i, from |-> From(k), to |-> To(k)]
  <2>1. p.line = i /\ p.from = From(k) /\ p.to = To(k)
    OBVIOUS
  <2> HIDE DEF p
  <2>2. hs[k] = part(k) /\ part(k).text.pieces[1] = p
    BY <1>8, <1>9, Zenon DEF p
  <2>3. hs[k].text.pieces[1] = p
    BY <2>2, Zenon
  <2>4. /\ hs[k].heading = q
        /\ hs[k].text.len = To(k) - From(k) + 1
        /\ Len(hs[k].text.pieces) = 1
    BY <1>8, <2>2, Zenon
  <2> QED
    BY <2>1, <2>3, <2>4
<1>11. \A k \in 1 .. n : /\ hs[k].text.len \in 1 .. M
                         /\ hs[k].text.pieces[1].from \in 1 .. l
                         /\ hs[k].text.pieces[1].to \in 1 .. l
                         /\ hs[k].text.pieces[1].from <= hs[k].text.pieces[1].to
  BY <1>5, <1>10
<1>12. \A j, k \in 1 .. n : j < k => hs[j].text.pieces[1].to < hs[k].text.pieces[1].from
  BY <1>6, <1>10
<1>13. \A x \in 1 .. l : \E k \in 1 .. n :
         x \in hs[k].text.pieces[1].from .. hs[k].text.pieces[1].to
  BY <1>7, <1>10
<1> QED
  BY <1>9, <1>10, <1>11, <1>12, <1>13 DEF hs, l, M, q

\* The parts of a line behind the chunks become chunks.
LEMMA ReadsHardSplit ==
  ASSUME NEW cs \in Seq(Chunks), NEW L \in SUBSET Nat, Reads(cs, Empty, L),
         NEW i \in Nat, doc[i].len \in Nat \ {0}, \A j \in L : j < i,
         Section.path \in Paths
  PROVE  /\ cs \o HardParts(i) \in Seq(Chunks)
         /\ Reads(cs \o HardParts(i), Empty, L \cup {i})
<1> DEFINE hs == HardParts(i)
           m == Len(cs)
           n == Len(hs)
           ds == cs \o hs
           t(k) == hs[k].text
           p(k) == hs[k].text.pieces[1]
<1>1. /\ hs \in Seq(Chunks)
      /\ \A k \in 1 .. n :
           /\ t(k).len \in 1 .. MAX_CHARS
           /\ Len(t(k).pieces) = 1
           /\ p(k).line = i
           /\ p(k).from \in 1 .. doc[i].len
           /\ p(k).to \in 1 .. doc[i].len
           /\ p(k).from <= p(k).to
      /\ \A j, k \in 1 .. n : j < k => p(j).to < p(k).from
      /\ \A x \in 1 .. doc[i].len : \E k \in 1 .. n : x \in p(k).from .. p(k).to
  BY HardPartsAre, Zenon
<1> HIDE DEF hs
<1>2. /\ m \in Nat /\ n \in Nat /\ ds \in Seq(Chunks) /\ Len(ds) = m + n
      /\ \A c \in 1 .. m : ds[c] = cs[c]
      /\ \A k \in 1 .. n : ds[m + k] = hs[k]
      /\ \A c \in 1 .. m + n : c \in 1 .. m \/ c - m \in 1 .. n
  BY <1>1, ConcatIs
<1>3. InOrder(cs, Empty) /\ CharsIn(cs) = CharsOf(L)
  BY EmptyText DEF Reads
<1>4. ASSUME NEW k \in 1 .. n
      PROVE  /\ Sound(t(k)) /\ t(k) \in Texts /\ Places(t(k)) = {1}
             /\ Chars(t(k)) = {i} \X (p(k).from .. p(k).to)
             /\ Chars(t(k)) \subseteq CharsOf({i})
  <2>1. Places(t(k)) = {1}
    <3>1. 1 .. 1 = {1}
      OBVIOUS
    <3> QED
      BY <1>1, <3>1 DEF Places
  <2>2. Sound(t(k))
    <3>1. t(k).len # 0 /\ Len(t(k).pieces) # 0
      BY <1>1, ConstantTypes
    <3> QED
      BY <1>1, <2>1, <3>1 DEF Sound
  <2>3. t(k) \in Texts
    BY <1>1, ChunkType
  <2>4. Chars(t(k)) = {i} \X (p(k).from .. p(k).to)
    BY <1>1, <2>1 DEF Chars, Characters
  <2>5. p(k).from .. p(k).to \subseteq 1 .. doc[i].len
    BY <1>1
  <2>6. Chars(t(k)) \subseteq CharsOf({i})
    BY <2>4, <2>5 DEF CharsOf
  <2> QED
    BY <2>1, <2>2, <2>3, <2>4, <2>6
<1>5. ASSUME NEW c \in 1 .. m, NEW k \in 1 .. n
      PROVE  Ahead(cs[c].text, t(k))
  <2>1. cs[c].text \in Texts /\ Sound(cs[c].text) /\ Chars(cs[c].text) \subseteq CharsOf(L)
    BY <1>3, ChunkType DEF InOrder, CharsIn
  <2>2. {i} \in SUBSET Nat /\ \A a \in L : \A b \in {i} : a < b
    OBVIOUS
  <2>3. t(k) \in Texts /\ Sound(t(k)) /\ Chars(t(k)) \subseteq CharsOf({i})
    BY <1>4
  <2> HIDE DEF t
  <2> QED
    BY <2>1, <2>2, <2>3, EarlierLinesAhead
<1>6. ASSUME NEW j \in 1 .. n, NEW k \in 1 .. n, j < k
      PROVE  Ahead(t(j), t(k))
  <2>1. Places(t(j)) = {1} /\ Places(t(k)) = {1}
    BY <1>4
  <2>2. Precedes(p(j), p(k))
    BY <1>1, <1>6 DEF Precedes
  <2> QED
    BY <2>1, <2>2 DEF Ahead
<1> HIDE DEF ds
<1>7. InOrder(ds, Empty)
  <2>1. ASSUME NEW c \in 1 .. Len(ds)
        PROVE  Sound(ds[c].text)
    <3>1. CASE c \in 1 .. m
      BY <1>2, <1>3, <3>1 DEF InOrder
    <3>2. CASE c - m \in 1 .. n
      <4>1. ds[c] = hs[c - m]
        <5>1. m + (c - m) = c
          BY <1>2
        <5> QED
          BY <1>2, <3>2, <5>1
      <4> QED
        BY <1>4, <3>2, <4>1
    <3> QED
      BY <1>2, <3>1, <3>2
  <2>2. ASSUME NEW c \in 1 .. Len(ds), NEW d \in 1 .. Len(ds), c < d
        PROVE  Ahead(ds[c].text, ds[d].text)
    <3>1. \A e \in 1 .. Len(ds) : \/ e \in 1 .. m /\ ds[e] = cs[e]
                                  \/ e - m \in 1 .. n /\ ds[e] = hs[e - m]
      <4> TAKE e \in 1 .. Len(ds)
      <4>1. m + (e - m) = e
        BY <1>2
      <4> QED
        BY <1>2, <4>1
    <3>2. CASE c \in 1 .. m /\ ds[c] = cs[c] /\ d \in 1 .. m /\ ds[d] = cs[d]
      BY <1>3, <2>2, <3>2 DEF InOrder
    <3>3. CASE c \in 1 .. m /\ ds[c] = cs[c] /\ d - m \in 1 .. n /\ ds[d] = hs[d - m]
      BY <1>5, <3>3
    <3>4. CASE c - m \in 1 .. n /\ ds[c] = hs[c - m] /\ d - m \in 1 .. n /\ ds[d] = hs[d - m]
      <4>1. c - m < d - m
        BY <1>2, <2>2
      <4> QED
        BY <1>6, <3>4, <4>1
    <3>5. ~(c - m \in 1 .. n /\ d \in 1 .. m)
      BY <1>2, <2>2
    <3> QED
      BY <3>1, <3>2, <3>3, <3>4, <3>5
  <2> QED
    BY <2>1, <2>2, EmptyText DEF InOrder
<1>8. CharsIn(ds) \cup Chars(Empty) = CharsOf(L \cup {i})
  <2>1. \A x : x \in CharsOf(L \cup {i}) <=> x \in CharsOf(L) \/ x \in {i} \X (1 .. doc[i].len)
    BY DEF CharsOf
  <2>2. \A x : x \in CharsIn(ds) <=> x \in CharsIn(cs) \/ \E k \in 1 .. n : x \in Chars(t(k))
    <3>1. \A c \in 1 .. m : c \in 1 .. Len(ds)
      BY <1>2
    <3>2. \A k \in 1 .. n : m + k \in 1 .. Len(ds)
      BY <1>2
    <3>3. \A e \in 1 .. Len(ds) : \/ e \in 1 .. m /\ ds[e] = cs[e]
                                  \/ e - m \in 1 .. n /\ ds[e] = hs[e - m]
      <4> TAKE e \in 1 .. Len(ds)
      <4>1. m + (e - m) = e
        BY <1>2
      <4> QED
        BY <1>2, <4>1
    <3>4. ASSUME NEW x, x \in CharsIn(ds)
          PROVE  x \in CharsIn(cs) \/ \E k \in 1 .. n : x \in Chars(t(k))
      <4>1. PICK e \in 1 .. Len(ds) : x \in Chars(ds[e].text)
        BY <3>4 DEF CharsIn
      <4> QED
        BY <3>3, <4>1 DEF CharsIn
    <3>5. ASSUME NEW x, x \in CharsIn(cs)
          PROVE  x \in CharsIn(ds)
      BY <1>2, <3>1, <3>5 DEF CharsIn
    <3>6. ASSUME NEW x, NEW k \in 1 .. n, x \in Chars(t(k))
          PROVE  x \in CharsIn(ds)
      <4>1. m + k \in 1 .. Len(ds) /\ x \in Chars(ds[m + k].text)
        BY <1>2, <3>2, <3>6
      <4> QED
        BY <4>1 DEF CharsIn
    <3> QED
      BY <3>4, <3>5, <3>6
  <2>3. \A x : x \in {i} \X (1 .. doc[i].len) <=> \E k \in 1 .. n : x \in Chars(t(k))
    <3>1. ASSUME NEW x \in {i} \X (1 .. doc[i].len)
          PROVE  \E k \in 1 .. n : x \in Chars(t(k))
      <4>1. PICK a \in 1 .. doc[i].len : x = <<i, a>>
        BY <3>1
      <4>2. PICK k \in 1 .. n : a \in p(k).from .. p(k).to
        BY <1>1
      <4> QED
        BY <1>4, <4>1, <4>2
    <3>2. \A k \in 1 .. n : Chars(t(k)) \subseteq {i} \X (1 .. doc[i].len)
      BY <1>4 DEF CharsOf
    <3> QED
      BY <3>1, <3>2
  <2> HIDE DEF t
  <2> QED
    BY <1>3, <2>1, <2>2, <2>3, EmptyText
<1> QED
  BY <1>2, <1>7, <1>8 DEF Reads, ds, hs

\* Folding a trailing scrap puts its pieces behind those of the chunk before it.
LEMMA ReadsFold ==
  ASSUME NEW cs \in Seq(Chunks), NEW L, Reads(cs, Empty, L)
  PROVE  FoldScrap(cs) \in Seq(Chunks) /\ Reads(FoldScrap(cs), Empty, L)
<1> DEFINE n == Len(cs)
           rest == SubSeq(cs, 1, n - 2)
           a == cs[n - 1].text
           b == cs[n].text
           t == Join(a, 2, b)
<1>0. n \in Nat
  OBVIOUS
<1> SUFFICES ASSUME n > 1, FoldScrap(cs) = Append(rest, Chunk(cs[n].heading, t))
             PROVE  FoldScrap(cs) \in Seq(Chunks) /\ Reads(FoldScrap(cs), Empty, L)
  BY DEF FoldScrap
<1>1. n - 2 \in Nat /\ n - 1 \in 1 .. n /\ n \in 1 .. n /\ n - 1 < n
  BY <1>0
<1>2. /\ rest \in Seq(Chunks) /\ Len(rest) = n - 2
      /\ \A c \in 1 .. n - 2 : rest[c] = cs[c] /\ c \in 1 .. n /\ c < n - 1 /\ c < n
  <2>1. n - 2 <= Len(cs) /\ n - 2 >= 0 /\ n - 2 \in Int
    BY <1>0, <1>1
  <2> DEFINE m == n - 2
  <2>2. m \in Nat /\ m <= Len(cs)
    BY <2>1
  <2> HIDE DEF m
  <2>3. /\ SubSeq(cs, 1, m) \in Seq(Chunks) /\ Len(SubSeq(cs, 1, m)) = m
        /\ \A c \in 1 .. m : SubSeq(cs, 1, m)[c] = cs[c]
    BY <2>2
  <2>4. \A c \in 1 .. n - 2 : c \in 1 .. n /\ c < n - 1 /\ c < n
    BY <1>0
  <2> QED
    BY <2>3, <2>4 DEF m
<1>3. InOrder(cs, Empty) /\ CharsIn(cs) = CharsOf(L)
  BY EmptyText DEF Reads
<1>4. /\ a \in Texts /\ b \in Texts /\ Sound(a) /\ Sound(b) /\ Ahead(a, b)
      /\ cs[n].heading \in Paths
  BY <1>1, <1>3, ChunkType DEF InOrder
<1>5. t \in Texts /\ Sound(t) /\ Chars(t) = Chars(a) \cup Chars(b)
  <2> HIDE DEF a, b
  <2>1. t \in Texts
    BY <1>4, JoinIs, 2 \in Nat
  <2>2. Sound(t) /\ Chars(t) = Chars(a) \cup Chars(b)
    BY <1>4, JoinSound, 2 \in Nat
  <2> QED
    BY <2>1, <2>2
<1>6. \A c \in 1 .. n - 2 : Sound(rest[c].text) /\ Ahead(rest[c].text, t)
  <2> TAKE c \in 1 .. n - 2
  <2>1. rest[c] = cs[c] /\ Sound(cs[c].text) /\ Ahead(cs[c].text, a) /\ Ahead(cs[c].text, b)
    BY <1>1, <1>2, <1>3 DEF InOrder
  <2> HIDE DEF a, b
  <2> QED
    BY <1>4, <2>1, JoinSound
<1>7. \A c, d \in 1 .. n - 2 : c < d => Ahead(rest[c].text, rest[d].text)
  BY <1>2, <1>3 DEF InOrder
<1>8. InOrder(rest, t)
  BY <1>2, <1>5, <1>6, <1>7 DEF InOrder
<1>9. CharsIn(rest) \cup Chars(t) = CharsOf(L)
  <2>1. \A c \in 1 .. n : c \in 1 .. n - 2 \/ c = n - 1 \/ c = n
    BY <1>0, <1>1
  <2>2. \A x : x \in CharsIn(cs) <=> \E c \in 1 .. n : x \in Chars(cs[c].text)
    BY DEF CharsIn
  <2>3. \A x : x \in CharsIn(rest) <=> \E c \in 1 .. n - 2 : x \in Chars(cs[c].text)
    BY <1>2 DEF CharsIn
  <2>4. \A x : x \in CharsIn(cs) <=> x \in CharsIn(rest) \/ x \in Chars(a) \/ x \in Chars(b)
    BY <1>1, <1>2, <2>1, <2>2, <2>3
  <2> HIDE DEF rest, a, b, t
  <2> QED
    BY <1>3, <1>5, <2>4
<1>10. Reads(rest, t, L)
  BY <1>8, <1>9 DEF Reads
<1> HIDE DEF rest, t
<1> QED
  BY <1>2, <1>4, <1>5, <1>10, ReadsFlush

-----------------------------------------------------------------------------
(***************************************************************************)
(* The inductive invariant.                                                *)
(***************************************************************************)

TypeInv ==
  /\ doc \in Seq(Lines)
  /\ pc \in {"split", "pack", "sentences", "done"}
  /\ next \in Nat \ {0} /\ sentence \in Nat \ {0}
  /\ inFence \in BOOLEAN /\ stack \in Paths
  /\ current \in Sections /\ sections \in Seq(Sections)
  /\ pending \in Texts /\ pendingHeading \in Paths
  /\ chunks \in Seq(Chunks) /\ buf \in Texts

\* A section's text is made of whole lines in their order.
LinesOf(t) == {t.pieces[k].line : k \in Places(t)}
WholeLines(t) ==
  /\ Sound(t)
  /\ \A k \in Places(t) : /\ t.pieces[k].line \in Content
                          /\ t.pieces[k].from = 1
                          /\ t.pieces[k].to = doc[t.pieces[k].line].len

\* The lines of the first n of some sections.
LinesBefore(n) == UNION {LinesOf(sections[s].text) : s \in 1 .. n}

\* Sections hold the content lines that were read, in order; the current one
\* holds those since the last heading.
SectionsInv ==
  /\ \A s \in 1 .. Len(sections) : WholeLines(sections[s].text)
  /\ \A s, u \in 1 .. Len(sections) : s < u =>
       \A i \in LinesOf(sections[s].text) : \A j \in LinesOf(sections[u].text) : i < j
SplitInv ==
  pc = "split" =>
    /\ next <= Len(doc) + 1
    /\ inFence = InFence(next)
    /\ WholeLines(current.text)
    /\ \A i \in LinesBefore(Len(sections)) : \A j \in LinesOf(current.text) : i < j
    /\ LinesBefore(Len(sections)) \cup LinesOf(current.text) = {i \in Content : i < next}
    /\ chunks = <<>> /\ pending = Empty /\ buf = Empty
SplitDone == pc # "split" => LinesBefore(Len(sections)) = Content

\* The sentences of the section that were cut or are in the buffer.
LinesCut == {Sentences[k].line : k \in 1 .. sentence - 1}

\* What is read of the sections is in the chunks, or behind them in pending or
\* in the buffer.
PackInv ==
  /\ pc = "pack" =>
       /\ next <= Len(sections) + 1 /\ buf = Empty
       /\ Reads(chunks, pending, LinesBefore(next - 1))
  /\ pc = "sentences" =>
       /\ next <= Len(sections) /\ sentence <= Len(Sentences) + 1 /\ pending = Empty
       /\ Reads(chunks, buf, LinesBefore(next - 1) \cup LinesCut)
  /\ pc = "done" => Reads(chunks, Empty, Content)

ContentInv == SectionsInv /\ SplitInv /\ SplitDone /\ PackInv

-----------------------------------------------------------------------------
(***************************************************************************)
(* Reading the lines.                                                      *)
(***************************************************************************)

\* The fields of a line.
LEMMA LineType ==
  ASSUME TypeInv, NEW i \in 1 .. Len(doc)
  PROVE  /\ Len(doc) \in Nat /\ DOMAIN doc = 1 .. Len(doc) /\ i \in Nat
         /\ doc[i] \in Lines /\ doc[i].kind \in {"fence", "heading", "text"}
         /\ doc[i].level \in 1 .. 6 /\ doc[i].len \in Nat \ {0} /\ doc[i].title \in Titles
<1>1. doc[i] \in Lines /\ Len(doc) \in Nat /\ DOMAIN doc = 1 .. Len(doc)
  BY DEF TypeInv
<1> QED
  BY <1>1, ConstantTypes

\* The content lines are lines.
LEMMA ContentLines ==
  ASSUME TypeInv
  PROVE  /\ Content \subseteq 1 .. Len(doc) /\ Content \subseteq Nat /\ Len(doc) \in Nat
         /\ \A i \in Content : doc[i].len \in Nat \ {0}
<1>1. Len(doc) \in Nat /\ DOMAIN doc = 1 .. Len(doc)
  BY DEF TypeInv
<1>2. Content \subseteq 1 .. Len(doc)
  BY <1>1 DEF Content
<1> QED
  BY <1>1, <1>2, LineType

\* A whole line as a text.
LEMMA WholeIs ==
  ASSUME TypeInv, NEW i \in 1 .. Len(doc)
  PROVE  /\ Whole(i) \in Texts /\ Sound(Whole(i)) /\ Places(Whole(i)) = {1}
         /\ Whole(i).len = doc[i].len
         /\ Len(Whole(i).pieces) = 1
         /\ Whole(i).pieces[1] = [line |-> i, from |-> 1, to |-> doc[i].len]
         /\ LinesOf(Whole(i)) = {i} /\ Chars(Whole(i)) = CharsOf({i})
<1> DEFINE p == [line |-> i, from |-> 1, to |-> doc[i].len]
           t == Whole(i)
<1>1. i \in Nat /\ doc[i].len \in Nat \ {0}
  BY LineType
<1>2. p \in Pieces /\ p.line = i /\ p.from = 1 /\ p.to = doc[i].len
  BY <1>1 DEF Pieces
<1>3. t = [len |-> doc[i].len, pieces |-> <<p>>]
  BY DEF Whole
<1> HIDE DEF p, t
<1>4. <<p>> \in Seq(Pieces) /\ Len(<<p>>) = 1 /\ <<p>>[1] = p
  BY <1>2
<1>5. t \in Texts /\ t.len = doc[i].len /\ t.pieces = <<p>>
  BY <1>1, <1>3, <1>4 DEF Texts
<1>6. Places(t) = {1}
  <2>1. 1 .. 1 = {1}
    OBVIOUS
  <2> QED
    BY <1>4, <1>5, <2>1 DEF Places
<1>7. Sound(t)
  BY <1>1, <1>2, <1>4, <1>5, <1>6 DEF Sound
<1>8. LinesOf(t) = {i}
  BY <1>2, <1>4, <1>5, <1>6 DEF LinesOf
<1>9. Chars(t) = {i} \X (1 .. doc[i].len)
  BY <1>2, <1>4, <1>5, <1>6 DEF Chars, Characters
<1>10. CharsOf({i}) = {i} \X (1 .. doc[i].len)
  BY DEF CharsOf
<1> QED
  BY <1>4, <1>5, <1>6, <1>7, <1>8, <1>9, <1>10 DEF p, t

\* A text of whole lines holds the characters of these lines.
LEMMA WholeLinesChars ==
  ASSUME NEW t, WholeLines(t)
  PROVE  Chars(t) = CharsOf(LinesOf(t)) /\ LinesOf(t) \subseteq Content
<1>1. \A k \in Places(t) : Characters(t.pieces[k]) =
        {t.pieces[k].line} \X (1 .. doc[t.pieces[k].line].len)
  BY DEF WholeLines, Characters
<1>2. \A x : x \in Chars(t) <=> \E k \in Places(t) : x \in Characters(t.pieces[k])
  BY DEF Chars
<1>3. \A x : x \in CharsOf(LinesOf(t)) <=>
        \E k \in Places(t) : x \in {t.pieces[k].line} \X (1 .. doc[t.pieces[k].line].len)
  BY DEF CharsOf, LinesOf
<1>4. LinesOf(t) \subseteq Content
  BY DEF WholeLines, LinesOf
<1> QED
  BY <1>1, <1>2, <1>3, <1>4

\* A line of content goes to the end of a text of earlier lines.
LEMMA ExtendedIs ==
  ASSUME TypeInv, NEW t \in Texts, WholeLines(t), NEW n \in Content,
         \A i \in LinesOf(t) : i < n
  PROVE  /\ Join(t, 1, Whole(n)) \in Texts
         /\ WholeLines(Join(t, 1, Whole(n)))
         /\ LinesOf(Join(t, 1, Whole(n))) = LinesOf(t) \cup {n}
<1> DEFINE u == Whole(n)
           v == Join(t, 1, u)
           m == Len(t.pieces)
<1>0. n \in 1 .. Len(doc)
  BY ContentLines
<1>1. /\ u \in Texts /\ Sound(u) /\ Places(u) = {1} /\ Len(u.pieces) = 1
      /\ u.pieces[1] = [line |-> n, from |-> 1, to |-> doc[n].len]
  BY <1>0, WholeIs
<1> HIDE DEF u
<1>2. Sound(t)
  BY DEF WholeLines
<1>3. Ahead(t, u)
  BY <1>1 DEF Ahead, Precedes, LinesOf
<1>4. /\ v \in Texts
      /\ Len(v.pieces) = m + 1
      /\ \A k \in Places(t) : v.pieces[k] = t.pieces[k]
      /\ \A k \in Places(u) : v.pieces[m + k] = u.pieces[k]
      /\ \A k \in Places(v) : k \in Places(t) \/ k - m \in Places(u)
  <2>1. /\ v \in Texts
        /\ Len(v.pieces) = m + Len(u.pieces)
        /\ \A k \in Places(t) : v.pieces[k] = t.pieces[k]
        /\ \A k \in Places(u) : v.pieces[m + k] = u.pieces[k]
        /\ \A k \in Places(v) : k \in Places(t) \/ k - m \in Places(u)
    BY <1>1, <1>2, JoinIs, 1 \in Nat
  <2> HIDE DEF v, m
  <2> QED
    BY <1>1, <2>1
<1>5. Sound(v)
  BY <1>1, <1>2, <1>3, JoinSound
<1>6. m \in Nat /\ Places(t) = 1 .. m
  BY TextType DEF Places
<1> HIDE DEF v, m
<1>7. /\ Places(v) = 1 .. m + 1
      /\ v.pieces[m + 1] = [line |-> n, from |-> 1, to |-> doc[n].len]
  BY <1>1, <1>4 DEF Places
<1>8. \A k \in Places(v) : \/ k \in Places(t) /\ v.pieces[k] = t.pieces[k]
                           \/ k = m + 1
  BY <1>4, <1>6, <1>7
<1>9. \A k \in Places(v) : /\ v.pieces[k].line \in Content
                           /\ v.pieces[k].from = 1
                           /\ v.pieces[k].to = doc[v.pieces[k].line].len
  BY <1>7, <1>8 DEF WholeLines
<1>10. LinesOf(v) = LinesOf(t) \cup {n}
  <2>1. \A x \in LinesOf(v) : x \in LinesOf(t) \cup {n}
    BY <1>7, <1>8 DEF LinesOf
  <2>2. \A x \in LinesOf(t) : x \in LinesOf(v)
    BY <1>4, <1>6, <1>7 DEF LinesOf
  <2>3. n \in LinesOf(v)
    BY <1>6, <1>7 DEF LinesOf
  <2> QED
    BY <2>1, <2>2, <2>3
<1> QED
  BY <1>4, <1>5, <1>9, <1>10 DEF WholeLines, v, u

\* A fence opens or closes at its own line.
LEMMA InFenceStep ==
  ASSUME TypeInv, NEW n \in 1 .. Len(doc)
  PROVE  InFence(n + 1) = IF doc[n].kind = "fence" THEN ~InFence(n) ELSE InFence(n)
<1> DEFINE fences(i) == {j \in 1 .. i - 1 : doc[j].kind = "fence"}
           c == Cardinality(fences(n))
<1>0. n \in Nat \ {0}
  BY LineType
<1>1. IsFiniteSet(fences(n)) /\ c \in Nat
  <2>1. IsFiniteSet(1 .. n - 1)
    BY <1>0, FS_Interval
  <2>2. IsFiniteSet(fences(n))
    BY <2>1, FS_Subset
  <2> QED
    BY <2>2, FS_CardinalityType
<1>2. (1 .. (n + 1) - 1) = (1 .. n - 1) \cup {n} /\ ~(n \in 1 .. n - 1)
  BY <1>0
<1>3. CASE doc[n].kind = "fence"
  <2>1. fences(n + 1) = fences(n) \cup {n} /\ ~(n \in fences(n))
    BY <1>2, <1>3
  <2>2. Cardinality(fences(n + 1)) = c + 1
    BY <1>1, <2>1, FS_AddElement
  <2>3. (c + 1) % 2 = 1 <=> ~(c % 2 = 1)
    <3> HIDE DEF c
    <3> QED
      BY <1>1
  <2> QED
    BY <1>3, <2>2, <2>3 DEF InFence
<1>4. CASE doc[n].kind # "fence"
  <2>1. fences(n + 1) = fences(n)
    BY <1>2, <1>4
  <2> QED
    BY <1>4, <2>1 DEF InFence
<1> QED
  BY <1>3, <1>4

\* The lines of the first n + 1 sections.
LEMMA LinesBeforeStep ==
  ASSUME NEW n \in Nat
  PROVE  LinesBefore(n + 1) = LinesBefore(n) \cup LinesOf(sections[n + 1].text)
<1>1. \A s : s \in 1 .. n + 1 <=> s \in 1 .. n \/ s = n + 1
  OBVIOUS
<1>2. \A x : x \in LinesBefore(n + 1) <=>
        \E s \in 1 .. n + 1 : x \in LinesOf(sections[s].text)
  BY DEF LinesBefore
<1>3. \A x : x \in LinesBefore(n) <=> \E s \in 1 .. n : x \in LinesOf(sections[s].text)
  BY DEF LinesBefore
<1> QED
  BY <1>1, <1>2, <1>3

\* No lines before the first section.
LEMMA LinesBeforeNone == LinesBefore(0) = {}
  BY DEF LinesBefore

\* Where a line stands, as the loop sees it.
LEMMA ReadingLine ==
  ASSUME TypeInv, SplitInv, pc = "split", next <= Len(doc)
  PROVE  /\ next \in 1 .. Len(doc)
         /\ next \in Content <=> ~(doc[next].kind = "heading" /\ ~inFence)
<1>1. next \in 1 .. Len(doc) /\ DOMAIN doc = 1 .. Len(doc)
  BY DEF TypeInv
<1>2. inFence = InFence(next)
  BY DEF SplitInv
<1> QED
  BY <1>1, <1>2 DEF Content, IsHeading

\* A section's fields.
LEMMA SectionType ==
  ASSUME TypeInv
  PROVE  /\ Len(sections) \in Nat
         /\ \A s \in 1 .. Len(sections) : /\ sections[s] \in Sections
                                          /\ sections[s].path \in Paths
                                          /\ sections[s].text \in Texts
         /\ current.path \in Paths /\ current.text \in Texts
<1>1. /\ Len(sections) \in Nat /\ \A s \in 1 .. Len(sections) : sections[s] \in Sections
      /\ current \in Sections
  BY DEF TypeInv
<1>2. \A x \in Sections : x.path \in Paths /\ x.text \in Texts
  BY DEF Sections
<1> QED
  BY <1>1, <1>2

\* Nothing but the document tells its content.
LEMMA SameDoc ==
  ASSUME doc' = doc
  PROVE  /\ Content' = Content
         /\ \A i : InFence(i)' <=> InFence(i)
         /\ \A t : WholeLines(t)' <=> WholeLines(t)
<1>1. Content' = Content
  BY DEF Content, IsHeading, InFence
<1>2. \A i : InFence(i)' <=> InFence(i)
  BY DEF InFence
<1>3. \A t : WholeLines(t)' <=> WholeLines(t)
  BY <1>1 DEF WholeLines, Sound, Places, Precedes
<1> QED
  BY <1>1, <1>2, <1>3

\* Nothing but the document and the sections tells the sections' lines.
LEMMA SameSections ==
  ASSUME UNCHANGED <<doc, sections>>
  PROVE  /\ SectionsInv' <=> SectionsInv
         /\ \A n : LinesBefore(n)' = LinesBefore(n)
<1>1. \A t : WholeLines(t)' <=> WholeLines(t)
  BY SameDoc
<1>2. (\A s \in 1 .. Len(sections) : WholeLines(sections[s].text))'
        <=> \A s \in 1 .. Len(sections) : WholeLines(sections[s].text)
  BY <1>1
<1>3. \A n : LinesBefore(n)' = LinesBefore(n)
  BY DEF LinesBefore
<1> QED
  BY <1>2, <1>3 DEF SectionsInv

\* A line of content goes to the current section.
LEMMA ContentLineStep ==
  ASSUME TypeInv, SectionsInv, SplitInv, pc = "split", next <= Len(doc), next \in Content,
         current' = Extended, inFence' = InFence(next + 1), next' = next + 1,
         UNCHANGED <<doc, pc, sections, packVars, buf>>
  PROVE  current' \in Sections /\ ContentInv'
<1> DEFINE t == current.text
<1>0. PICK v : v = Join(t, 1, Whole(next))
  OBVIOUS
<1>1. next \in 1 .. Len(doc) /\ next \in Nat /\ Len(doc) \in Nat
  BY DEF TypeInv
<1>2. /\ WholeLines(t)
      /\ \A i \in LinesBefore(Len(sections)) : \A j \in LinesOf(t) : i < j
      /\ LinesBefore(Len(sections)) \cup LinesOf(t) = {i \in Content : i < next}
      /\ chunks = <<>> /\ pending = Empty /\ buf = Empty
  BY DEF SplitInv
<1>3. \A i \in LinesBefore(Len(sections)) \cup LinesOf(t) : i < next
  BY <1>2
<1>4. v \in Texts /\ WholeLines(v) /\ LinesOf(v) = LinesOf(t) \cup {next}
  BY <1>0, <1>2, <1>3, SectionType, ExtendedIs
<1>5. current' = [current EXCEPT !.text = v] /\ current \in Sections
  BY <1>0 DEF Extended, TypeInv
<1>6. current' \in Sections /\ current'.text = v
  BY <1>4, <1>5 DEF Sections
<1>7. \A i \in LinesBefore(Len(sections)) : \A j \in LinesOf(v) : i < j
  BY <1>2, <1>3, <1>4
<1>8. LinesBefore(Len(sections)) \cup LinesOf(v) = {i \in Content : i < next + 1}
  <2>1. \A i \in Content : i \in Nat
    BY ContentLines
  <2>2. \A i \in Content : i < next + 1 <=> i < next \/ i = next
    BY <1>1, <2>1
  <2> QED
    BY <1>2, <1>4, <2>2
<1>9. SectionsInv'
  BY SameSections
<1>10. LinesBefore(Len(sections))' = LinesBefore(Len(sections)) /\ LinesOf(current.text)' = LinesOf(v)
  BY <1>6 DEF LinesBefore
<1>11. WholeLines(current.text)' /\ Content' = Content
  <2>1. WholeLines(v)'
    BY <1>4, SameDoc
  <2> QED
    BY <1>6, <2>1, SameDoc DEF WholeLines, Sound, Places, Precedes
<1>12. inFence' = InFence(next)'
  BY DEF InFence
<1>13. SplitInv'
  BY <1>1, <1>2, <1>7, <1>8, <1>10, <1>11, <1>12 DEF SplitInv, packVars
<1>14. SplitDone' /\ PackInv'
  BY DEF SplitDone, PackInv, SplitInv
<1> QED
  BY <1>6, <1>9, <1>13, <1>14 DEF ContentInv

\* A section that has text is closed with its lines; one without has no lines.
LEMMA ClosedIs ==
  ASSUME TypeInv, SectionsInv, SplitInv, pc = "split",
         sections' = Closed, doc' = doc
  PROVE  /\ sections' \in Seq(Sections) /\ SectionsInv'
         /\ LinesBefore(Len(sections))' = {i \in Content : i < next}
<1> DEFINE t == current.text
           n == Len(sections)
<1>1. /\ WholeLines(t)
      /\ \A i \in LinesBefore(n) : \A j \in LinesOf(t) : i < j
      /\ LinesBefore(n) \cup LinesOf(t) = {i \in Content : i < next}
  BY DEF SplitInv
<1>2. sections \in Seq(Sections) /\ n \in Nat /\ current \in Sections /\ t \in Texts /\ t.len \in Nat
  BY SectionType, TextType DEF TypeInv
<1>3. CASE t.len = 0
  <2>1. sections' = sections
    BY <1>3 DEF Closed
  <2>2. LinesOf(t) = {}
    BY <1>1, <1>3 DEF WholeLines, Sound, LinesOf, Places
  <2>3. SectionsInv'
    BY <2>1, SameSections
  <2>4. LinesBefore(n)' = LinesBefore(n)
    BY <2>1 DEF LinesBefore
  <2> QED
    BY <1>1, <1>2, <2>1, <2>2, <2>3, <2>4
<1>4. CASE t.len # 0
  <2>1. sections' = Append(sections, current)
    BY <1>2, <1>4 DEF Closed
  <2>2. PICK ss : ss = sections'
    OBVIOUS
  <2>3. /\ ss \in Seq(Sections) /\ Len(ss) = n + 1 /\ ss[n + 1] = current
        /\ \A s \in 1 .. n : ss[s] = sections[s]
    BY <1>2, <2>1, <2>2
  <2>4. \A s \in 1 .. n + 1 : s \in 1 .. n \/ s = n + 1
    BY <1>2
  <2>5. \A s \in 1 .. n + 1 : WholeLines(ss[s].text)
    BY <1>1, <2>3, <2>4 DEF SectionsInv
  <2>6. ASSUME NEW s \in 1 .. n + 1, NEW u \in 1 .. n + 1, s < u,
               NEW i \in LinesOf(ss[s].text), NEW j \in LinesOf(ss[u].text)
        PROVE  i < j
    <3>1. s \in 1 .. n /\ ss[s] = sections[s]
      BY <1>2, <2>3, <2>6
    <3>2. CASE u \in 1 .. n
      BY <2>3, <2>6, <3>1, <3>2 DEF SectionsInv
    <3>3. CASE u = n + 1
      <4>1. i \in LinesBefore(n)
        BY <2>6, <3>1 DEF LinesBefore
      <4> QED
        BY <1>1, <2>3, <2>6, <3>3, <4>1
    <3> QED
      BY <2>4, <3>2, <3>3
  <2>7. UNION {LinesOf(ss[s].text) : s \in 1 .. n + 1} = {i \in Content : i < next}
    <3>1. \A x : x \in UNION {LinesOf(ss[s].text) : s \in 1 .. n + 1} <=>
                   \E s \in 1 .. n + 1 : x \in LinesOf(ss[s].text)
      OBVIOUS
    <3>2. \A x : x \in LinesBefore(n) <=> \E s \in 1 .. n : x \in LinesOf(sections[s].text)
      BY DEF LinesBefore
    <3>3. (\A s \in 1 .. n : s \in 1 .. n + 1) /\ n + 1 \in 1 .. n + 1
      BY <1>2
    <3>4. \A x : (\E s \in 1 .. n + 1 : x \in LinesOf(ss[s].text)) <=>
                   (x \in LinesBefore(n) \/ x \in LinesOf(t))
      BY <2>3, <2>4, <3>2, <3>3
    <3> QED
      BY <1>1, <3>1, <3>4
  <2>8. \A s \in 1 .. n + 1 : WholeLines(ss[s].text)'
    BY <2>5, SameDoc
  <2>9. SectionsInv'
    <3>1. \A s \in 1 .. n + 1 : \A u \in 1 .. n + 1 : s < u =>
            \A i \in LinesOf(ss[s].text) : \A j \in LinesOf(ss[u].text) : i < j
      BY <2>6
    <3>2. Len(ss) = n + 1
      BY <2>3
    <3>3. (\A s \in 1 .. Len(sections) : WholeLines(sections[s].text))'
      BY <2>2, <2>8, <3>2 DEF WholeLines, Sound, Places, Precedes
    <3>4. (\A s, u \in 1 .. Len(sections) : s < u =>
             \A i \in LinesOf(sections[s].text) : \A j \in LinesOf(sections[u].text) : i < j)'
      <4>1. \A s : LinesOf(sections[s].text)' = LinesOf(ss[s].text)
        BY <2>2 DEF LinesOf, Places
      <4>2. Len(sections)' = n + 1
        BY <2>2, <3>2
      <4> QED
        BY <3>1, <4>1, <4>2
    <3> QED
      BY <3>3, <3>4 DEF SectionsInv
  <2>10. LinesBefore(Len(sections))' = UNION {LinesOf(ss[s].text) : s \in 1 .. n + 1}
    BY <2>2, <2>3 DEF LinesBefore
  <2> QED
    BY <2>2, <2>3, <2>7, <2>9, <2>10
<1> QED
  BY <1>3, <1>4

\* The stack of titles after a heading.
LEMMA PushType ==
  ASSUME NEW h \in Lines, stack \in Paths
  PROVE  PushHeading(h) \in Paths
<1> DEFINE m == Least(Len(stack), h.level - 1)
<1>1. Len(stack) \in Nat /\ h.level \in 1 .. 6 /\ h.title \in Titles /\ stack \in Seq(Titles)
  BY ConstantTypes DEF Paths
<1>2. m \in Nat /\ m <= Len(stack)
  BY <1>1 DEF Least
<1> HIDE DEF m
<1>3. SubSeq(stack, 1, m) \in Seq(Titles)
  BY <1>1, <1>2
<1>4. Append(SubSeq(stack, 1, m), h.title) \in Seq(Titles)
  BY <1>1, <1>3
<1> QED
  BY <1>4 DEF PushHeading, Paths, m

\* A heading closes a section and opens one.
LEMMA HeadingStep ==
  ASSUME TypeInv, SectionsInv, SplitInv, Heading
  PROVE  TypeInv' /\ ContentInv'
<1>1. /\ pc = "split" /\ next <= Len(doc) /\ doc[next].kind = "heading" /\ ~inFence
      /\ sections' = Closed /\ stack' = PushHeading(doc[next])
      /\ current' = [path |-> stack', text |-> Empty]
      /\ next' = next + 1
      /\ UNCHANGED <<doc, pc, inFence, packVars, buf, sentence>>
  BY DEF Heading, Reading
<1>2. next \in 1 .. Len(doc) /\ next \notin Content /\ next \in Nat /\ Len(doc) \in Nat
  BY <1>1, ReadingLine DEF TypeInv
<1>3. doc[next] \in Lines /\ doc[next].kind # "fence"
  BY <1>1, <1>2, LineType
<1>4. stack' \in Paths
  BY <1>1, <1>3, PushType DEF TypeInv
<1>5. current' \in Sections /\ current'.text = Empty
  BY <1>1, <1>4, EmptyText DEF Sections
<1>6. /\ sections' \in Seq(Sections) /\ SectionsInv'
      /\ LinesBefore(Len(sections))' = {i \in Content : i < next}
  BY <1>1, ClosedIs
<1>7. TypeInv'
  BY <1>1, <1>2, <1>4, <1>5, <1>6 DEF TypeInv, packVars
<1>8. {i \in Content : i < next} = {i \in Content : i < next + 1}
  <2>1. \A i \in Content : i \in Nat
    BY ContentLines
  <2> QED
    BY <1>2, <2>1
<1>9. InFence(next + 1) = InFence(next)
  BY <1>2, <1>3, InFenceStep
<1>10. WholeLines(current.text)' /\ LinesOf(current.text)' = {}
  BY <1>5, EmptyText DEF WholeLines, Sound, LinesOf, Places
<1>11. inFence' = InFence(next)'
  BY <1>1, <1>9 DEF InFence, SplitInv
<1>12. Content' = Content
  BY <1>1, SameDoc
<1>13. SplitInv'
  BY <1>1, <1>2, <1>6, <1>8, <1>10, <1>11, <1>12 DEF SplitInv, packVars
<1> QED
  BY <1>1, <1>6, <1>7, <1>13 DEF ContentInv, SplitDone, PackInv

\* No chunks and no text hold no lines.
LEMMA ReadsNone == Reads(<<>>, Empty, {})
<1>1. Len(<<>>) = 0 /\ 1 .. 0 = {}
  OBVIOUS
<1> QED
  BY <1>1, EmptyText DEF Reads, InOrder, CharsIn, CharsOf

\* The end of the document closes the last section.
LEMMA EndOfLinesStep ==
  ASSUME TypeInv, SectionsInv, SplitInv, EndOfLines
  PROVE  TypeInv' /\ ContentInv'
<1>1. /\ pc = "split" /\ next > Len(doc) /\ sections' = Closed /\ pc' = "pack" /\ next' = 1
      /\ UNCHANGED <<doc, stack, inFence, current, packVars, buf, sentence>>
  BY DEF EndOfLines
<1>2. /\ sections' \in Seq(Sections) /\ SectionsInv'
      /\ LinesBefore(Len(sections))' = {i \in Content : i < next}
  BY <1>1, ClosedIs
<1>3. TypeInv'
  BY <1>1, <1>2 DEF TypeInv, packVars
<1>4. {i \in Content : i < next} = Content
  <2>1. next \in Nat
    BY DEF TypeInv
  <2>2. \A i \in Content : i \in Nat /\ i <= Len(doc) /\ Len(doc) \in Nat
    BY ContentLines
  <2> QED
    BY <1>1, <2>1, <2>2
<1>5. Content' = Content
  BY <1>1, SameDoc
<1>6. SplitDone' /\ SplitInv'
  BY <1>1, <1>2, <1>4, <1>5 DEF SplitDone, SplitInv
<1>7. chunks' = <<>> /\ pending' = Empty /\ buf' = Empty
  BY <1>1 DEF SplitInv, packVars
<1>8. LinesBefore(next - 1)' = {}
  <2>1. 1 .. 0 = {} /\ next' - 1 = 0
    BY <1>1
  <2> QED
    BY <2>1 DEF LinesBefore
<1>9. Reads(chunks, pending, LinesBefore(next - 1))'
  BY <1>7, <1>8, ReadsNone DEF Reads, InOrder, CharsIn, CharsOf
<1>10. PackInv'
  <2>1. next' <= Len(sections') + 1
    BY <1>1, <1>2
  <2> QED
    BY <1>1, <1>7, <1>9, <2>1 DEF PackInv
<1> QED
  BY <1>2, <1>3, <1>6, <1>10 DEF ContentInv

-----------------------------------------------------------------------------
(***************************************************************************)
(* Packing the sections and splitting the long ones.                       *)
(***************************************************************************)

\* Once the sections are there, they stay.
LEMMA SectionsStay ==
  ASSUME ContentInv, pc # "split", pc' # "split", UNCHANGED <<doc, sections>>
  PROVE  /\ SectionsInv' /\ SplitInv' /\ SplitDone'
         /\ \A n : LinesBefore(n)' = LinesBefore(n)
         /\ Content' = Content
         /\ \A cs, t, L : Reads(cs, t, L)' <=> Reads(cs, t, L)
<1>1. Content' = Content
  BY SameDoc
<1>2. \A n : LinesBefore(n)' = LinesBefore(n)
  BY SameSections
<1>3. SectionsInv'
  BY SameSections DEF ContentInv
<1>4. SplitInv' /\ SplitDone'
  BY <1>1 DEF ContentInv, SplitInv, SplitDone, LinesBefore
<1>5. \A cs, t, L : Reads(cs, t, L)' <=> Reads(cs, t, L)
  BY DEF Reads, InOrder, CharsIn, CharsOf
<1> QED
  BY <1>1, <1>2, <1>3, <1>4, <1>5

\* The lines of a section come after those of the sections before it.
LEMMA SectionIs ==
  ASSUME TypeInv, SectionsInv, NEW n \in 1 .. Len(sections)
  PROVE  LET t == sections[n].text IN
         /\ t \in Texts /\ WholeLines(t) /\ Sound(t)
         /\ LinesOf(t) \subseteq Content /\ LinesOf(t) \in SUBSET Nat
         /\ Chars(t) = CharsOf(LinesOf(t))
         /\ LinesBefore(n - 1) \in SUBSET Nat
         /\ \A i \in LinesBefore(n - 1) : \A j \in LinesOf(t) : i < j
         /\ LinesBefore(n) = LinesBefore(n - 1) \cup LinesOf(t)
<1> DEFINE t == sections[n].text
<1>1. Len(sections) \in Nat /\ t \in Texts
  BY SectionType
<1>2. WholeLines(t) /\ Sound(t)
  BY DEF SectionsInv, WholeLines
<1>3. LinesOf(t) \subseteq Content /\ Chars(t) = CharsOf(LinesOf(t))
  BY <1>2, WholeLinesChars
<1>4. \A s \in 1 .. n - 1 : s \in 1 .. Len(sections) /\ s < n
  BY <1>1
<1>5. LinesBefore(n - 1) \subseteq Content
  <2>1. \A s \in 1 .. Len(sections) : LinesOf(sections[s].text) \subseteq Content
    BY WholeLinesChars DEF SectionsInv
  <2> QED
    BY <1>4, <2>1 DEF LinesBefore
<1>6. \A i \in LinesBefore(n - 1) : \A j \in LinesOf(t) : i < j
  BY <1>4 DEF LinesBefore, SectionsInv
<1>7. n - 1 \in Nat /\ (n - 1) + 1 = n
  BY <1>1
<1>8. LinesBefore(n) = LinesBefore(n - 1) \cup LinesOf(t)
  BY <1>7, LinesBeforeStep
<1> QED
  BY <1>1, <1>2, <1>3, <1>5, <1>6, <1>8, ContentLines

\* A text without length is as good as the empty one.
LEMMA ReadsEmpty ==
  ASSUME NEW cs, NEW t, t.len = 0, Sound(t), NEW L
  PROVE  Reads(cs, t, L) <=> Reads(cs, Empty, L)
<1>1. Places(t) = {}
  BY DEF Sound, Places
<1>2. Chars(t) = {} /\ \A x : Ahead(x, t)
  BY <1>1 DEF Chars, Ahead
<1> QED
  BY <1>2, EmptyText DEF Reads, InOrder

\* What flush leaves.
LEMMA FlushIs ==
  ASSUME NEW cs \in Seq(Chunks), NEW t \in Texts, NEW h \in Paths, NEW L,
         Reads(cs, t, L)
  PROVE  LET ds == IF t.len > 0 THEN Append(cs, Chunk(h, t)) ELSE cs IN
         ds \in Seq(Chunks) /\ Reads(ds, Empty, L)
<1>1. CASE t.len > 0
  BY <1>1, ReadsFlush
<1>2. CASE ~(t.len > 0)
  <2>1. t.len = 0 /\ Sound(t)
    BY <1>2, TextType DEF Reads, InOrder
  <2> QED
    BY <1>2, <2>1, ReadsEmpty
<1> QED
  BY <1>1, <1>2

\* A text of later lines right behind the chunks.
LEMMA ReadsNew ==
  ASSUME NEW cs \in Seq(Chunks), NEW L \in SUBSET Nat, Reads(cs, Empty, L),
         NEW u \in Texts, Sound(u), NEW M \in SUBSET Nat, Chars(u) = CharsOf(M),
         \A i \in L : \A j \in M : i < j
  PROVE  Reads(cs, u, L \cup M)
<1>1. Join(Empty, 1, u) = u
  BY EmptyText DEF Join
<1> QED
  BY <1>1, EmptyText, ReadsJoin, 1 \in Nat

\* A section within the budget is packed.
LEMMA PackStep ==
  ASSUME TypeInv, ContentInv, Pack
  PROVE  TypeInv' /\ ContentInv'
<1> DEFINE s == sections[next]
           L == LinesBefore(next - 1)
           M == LinesOf(s.text)
<1>1. /\ pc = "pack" /\ pc' = "pack" /\ next <= Len(sections)
      /\ IF MustFlush(s)
           THEN chunks' = Flushed /\ pending' = s.text
           ELSE pending' = Join(pending, 2, s.text) /\ chunks' = chunks
      /\ pendingHeading' = s.path
      /\ next' = next + 1
      /\ UNCHANGED <<doc, splitVars, buf, sentence>>
  BY DEF Pack
<1>2. next \in 1 .. Len(sections) /\ next \in Nat /\ Len(sections) \in Nat
  BY <1>1, SectionType DEF TypeInv
<1>3. /\ buf = Empty /\ Reads(chunks, pending, L)
      /\ chunks \in Seq(Chunks) /\ pending \in Texts /\ pendingHeading \in Paths
  BY <1>1 DEF ContentInv, PackInv, TypeInv
<1>4. /\ s.text \in Texts /\ Sound(s.text) /\ Chars(s.text) = CharsOf(M)
      /\ L \in SUBSET Nat /\ M \in SUBSET Nat /\ \A i \in L : \A j \in M : i < j
      /\ LinesBefore(next) = L \cup M
      /\ s.path \in Paths
  BY <1>2, SectionIs, SectionType DEF ContentInv
<1> HIDE DEF s, L, M
<1>5. pending' \in Texts /\ chunks' \in Seq(Chunks) /\ Reads(chunks', pending', L \cup M)
  <2>1. CASE MustFlush(s)
    <3>1. Flushed \in Seq(Chunks) /\ Reads(Flushed, Empty, L)
      BY <1>3, FlushIs DEF Flushed
    <3>2. Reads(Flushed, s.text, L \cup M)
      BY <1>4, <3>1, ReadsNew
    <3> QED
      BY <1>1, <1>4, <2>1, <3>1, <3>2
  <2>2. CASE ~MustFlush(s)
    <3>1. Join(pending, 2, s.text) \in Texts /\ Reads(chunks, Join(pending, 2, s.text), L \cup M)
      BY <1>3, <1>4, ReadsJoin, 2 \in Nat
    <3> QED
      BY <1>1, <1>3, <2>2, <3>1
  <2> QED
    BY <2>1, <2>2
<1>6. TypeInv'
  BY <1>1, <1>2, <1>4, <1>5 DEF TypeInv, splitVars
<1>7. SectionsInv' /\ SplitInv' /\ SplitDone' /\ \A n : LinesBefore(n)' = LinesBefore(n)
  BY <1>1, SectionsStay DEF splitVars
<1>8. Reads(chunks, pending, LinesBefore(next - 1))'
  <2>1. next' - 1 = next
    BY <1>1, <1>2
  <2>2. LinesBefore(next - 1)' = L \cup M
    <3>1. LinesBefore(next - 1)' = LinesBefore(next)
      BY <1>1, <2>1 DEF LinesBefore, splitVars
    <3> QED
      BY <1>4, <3>1
  <2> QED
    BY <1>1, <1>5, <2>2
       DEF Reads, InOrder, CharsIn, CharsOf
<1>9. PackInv'
  BY <1>1, <1>2, <1>3, <1>8 DEF PackInv, splitVars
<1> QED
  BY <1>6, <1>7, <1>9 DEF ContentInv

\* A longer one waits until pending is flushed.
LEMMA OversizedStep ==
  ASSUME TypeInv, ContentInv, Oversized
  PROVE  TypeInv' /\ ContentInv'
<1>1. /\ pc = "pack" /\ pc' = "sentences" /\ next <= Len(sections)
      /\ chunks' = Flushed /\ pending' = Empty /\ buf' = Empty /\ sentence' = 1
      /\ UNCHANGED <<doc, next, splitVars, pendingHeading>>
  BY DEF Oversized
<1>2. /\ Reads(chunks, pending, LinesBefore(next - 1))
      /\ chunks \in Seq(Chunks) /\ pending \in Texts /\ pendingHeading \in Paths
  BY <1>1 DEF ContentInv, PackInv, TypeInv
<1>3. chunks' \in Seq(Chunks) /\ Reads(chunks', Empty, LinesBefore(next - 1))
  BY <1>1, <1>2, FlushIs DEF Flushed
<1>4. TypeInv'
  BY <1>1, <1>3, EmptyText DEF TypeInv, splitVars
<1>5. SectionsInv' /\ SplitInv' /\ SplitDone'
  BY <1>1, SectionsStay DEF splitVars
<1>6. Reads(chunks, buf, LinesBefore(next - 1) \cup LinesCut)'
  <2>1. LinesCut' = {}
    <3>1. 1 .. sentence' - 1 = {}
      BY <1>1
    <3> QED
      BY <3>1 DEF LinesCut
  <2>2. LinesBefore(next - 1)' = LinesBefore(next - 1)
    BY <1>1 DEF LinesBefore, splitVars
  <2> QED
    BY <1>1, <1>3, <2>1, <2>2
       DEF Reads, InOrder, CharsIn, CharsOf
<1>7. PackInv'
  <2>1. sections \in Seq(Sections) /\ next \in 1 .. Len(sections)
    BY <1>1 DEF TypeInv
  <2>2. Len(sections[next].text.pieces) \in Nat
    BY <2>1, SectionType, TextType
  <2>3. Len(Sentences') \in Nat
    BY <1>1, <2>2 DEF Sentences, Section, splitVars
  <2>4. sentence' <= Len(Sentences') + 1
    BY <1>1, <2>3
  <2> QED
    BY <1>1, <1>6, <2>4 DEF PackInv, splitVars
<1> QED
  BY <1>4, <1>5, <1>7 DEF ContentInv

\* The end of the sections.
LEMMA FinishStep ==
  ASSUME TypeInv, ContentInv, Finish
  PROVE  TypeInv' /\ ContentInv'
<1>1. /\ pc = "pack" /\ pc' = "done" /\ next > Len(sections)
      /\ chunks' = FoldScrap(Flushed) /\ pending' = Empty
      /\ UNCHANGED <<doc, next, splitVars, pendingHeading, buf, sentence>>
  BY DEF Finish
<1>2. /\ Reads(chunks, pending, LinesBefore(next - 1)) /\ next <= Len(sections) + 1
      /\ chunks \in Seq(Chunks) /\ pending \in Texts /\ pendingHeading \in Paths
  BY <1>1 DEF ContentInv, PackInv, TypeInv
<1>3. LinesBefore(next - 1) = Content
  <2>1. Len(sections) \in Nat /\ next \in Nat
    BY DEF TypeInv
  <2>2. next - 1 = Len(sections)
    BY <1>1, <1>2, <2>1
  <2> QED
    BY <1>1, <2>2 DEF ContentInv, SplitDone
<1>4. Flushed \in Seq(Chunks) /\ Reads(Flushed, Empty, Content)
  BY <1>2, <1>3, FlushIs DEF Flushed
<1>5. chunks' \in Seq(Chunks) /\ Reads(chunks', Empty, Content)
  BY <1>1, <1>4, ReadsFold
<1>6. TypeInv'
  BY <1>1, <1>5, EmptyText DEF TypeInv, splitVars
<1>7. SectionsInv' /\ SplitInv' /\ SplitDone' /\ Content' = Content
  BY <1>1, SectionsStay DEF splitVars
<1>8. Reads(chunks, Empty, Content)'
  BY <1>1, <1>5, <1>7
     DEF Reads, InOrder, CharsIn, CharsOf
<1> QED
  BY <1>1, <1>6, <1>7, <1>8 DEF ContentInv, PackInv

\* The lines of a text of whole lines are in their order.
LEMMA LinesAscend ==
  ASSUME TypeInv, NEW t \in Texts, WholeLines(t),
         NEW j \in Places(t), NEW k \in Places(t), j < k
  PROVE  t.pieces[j].line < t.pieces[k].line
<1>1. /\ t.pieces[j].line \in Content /\ t.pieces[j].to = doc[t.pieces[j].line].len
      /\ t.pieces[k].from = 1 /\ Precedes(t.pieces[j], t.pieces[k])
  BY DEF WholeLines, Sound
<1>2. t.pieces[j].to \in Nat \ {0}
  BY <1>1, ContentLines
<1> QED
  BY <1>1, <1>2 DEF Precedes

\* The sentence that is next comes after what is cut and buffered.
LEMMA SentenceIs ==
  ASSUME TypeInv, ContentInv, AtSentence
  PROVE  LET i == Sentences[sentence].line
             L == LinesBefore(next - 1) \cup LinesCut
         IN
         /\ next \in 1 .. Len(sections) /\ sentence \in Places(Section.text)
         /\ i \in LinesOf(Section.text) /\ i \in Content
         /\ i \in 1 .. Len(doc) /\ i \in Nat /\ {i} \in SUBSET Nat
         /\ Section.path \in Paths
         /\ Sentence \in Texts /\ Sound(Sentence) /\ Chars(Sentence) = CharsOf({i})
         /\ Sentence.len = doc[i].len /\ doc[i].len \in Nat \ {0}
         /\ L \in SUBSET Nat /\ \A j \in L : j < i
         /\ Reads(chunks, buf, L)
         /\ chunks \in Seq(Chunks) /\ buf \in Texts /\ pending = Empty
<1> DEFINE t == sections[next].text
           i == t.pieces[sentence].line
<1>1. /\ pc = "sentences" /\ sentence <= Len(t.pieces)
      /\ Sentences = t.pieces /\ Section.text = t /\ Section = sections[next]
  BY DEF AtSentence, Sentences, Section
<1>2. /\ next <= Len(sections) /\ pending = Empty
      /\ Reads(chunks, buf, LinesBefore(next - 1) \cup LinesCut)
      /\ chunks \in Seq(Chunks) /\ buf \in Texts
  BY <1>1 DEF ContentInv, PackInv, TypeInv
<1>3. next \in 1 .. Len(sections) /\ sentence \in Nat \ {0}
  BY <1>2 DEF TypeInv
<1>4. /\ t \in Texts /\ WholeLines(t) /\ LinesOf(t) \subseteq Content
      /\ LinesBefore(next - 1) \in SUBSET Nat
      /\ \A a \in LinesBefore(next - 1) : \A b \in LinesOf(t) : a < b
  BY <1>3, SectionIs DEF ContentInv
<1>5. Section.path \in Paths
  BY <1>1, <1>3, SectionType
<1> HIDE DEF t
<1>6. sentence \in Places(t) /\ \A k \in 1 .. sentence - 1 : k \in Places(t) /\ k < sentence
  <2>1. Len(t.pieces) \in Nat
    BY <1>4, TextType
  <2> QED
    BY <1>1, <1>3, <2>1 DEF Places
<1>7. i \in LinesOf(t) /\ i \in Content
  BY <1>4, <1>6 DEF LinesOf
<1>8. i \in 1 .. Len(doc) /\ i \in Nat /\ doc[i].len \in Nat \ {0}
  BY <1>7, ContentLines
<1>9. /\ Whole(i) \in Texts /\ Sound(Whole(i)) /\ Chars(Whole(i)) = CharsOf({i})
      /\ Whole(i).len = doc[i].len
  BY <1>8, WholeIs
<1>10. Sentence = Whole(i)
  BY <1>1 DEF Sentence
<1>11. LinesCut \subseteq Nat /\ \A j \in LinesCut : j < i
  <2>1. \A k \in 1 .. sentence - 1 : t.pieces[k].line \in Nat /\ t.pieces[k].line < i
    BY <1>4, <1>6, LinesAscend, TextType
  <2> HIDE DEF i
  <2> QED
    BY <1>1, <2>1 DEF LinesCut
<1>12. \A j \in LinesBefore(next - 1) : j < i
  BY <1>4, <1>7
<1> HIDE DEF i
<1>13. Sentences[sentence].line = i
  BY <1>1 DEF i
<1> QED
  BY <1>1, <1>2, <1>3, <1>4, <1>5, <1>6, <1>7, <1>8, <1>9, <1>10, <1>11, <1>12, <1>13

\* When the sentence is in the chunks or in the buffer, the next one is due.
LEMMA SentenceDone ==
  ASSUME TypeInv, ContentInv, AtSentence,
         UNCHANGED <<doc, pc, next, splitVars, pending, pendingHeading>>,
         sentence' = sentence + 1, chunks' \in Seq(Chunks), buf' \in Texts,
         Reads(chunks', buf', (LinesBefore(next - 1) \cup LinesCut) \cup {Sentences[sentence].line})
  PROVE  TypeInv' /\ ContentInv'
<1>1. pc = "sentences" /\ sentence <= Len(Sentences)
  BY DEF AtSentence
<1>2. sentence \in Nat \ {0} /\ Len(Sentences) \in Nat
  <2>1. Section.text \in Texts
    BY SentenceIs, SectionType DEF Section
  <2> QED
    BY <2>1, TextType DEF TypeInv, Sentences
<1>3. TypeInv'
  BY <1>2 DEF TypeInv, splitVars
<1>4. SectionsInv' /\ SplitInv' /\ SplitDone'
  BY <1>1, SectionsStay DEF splitVars
<1>5. LinesCut' = LinesCut \cup {Sentences[sentence].line}
  <2>1. \A k : k \in 1 .. (sentence + 1) - 1 <=> k \in 1 .. sentence - 1 \/ k = sentence
    BY <1>2
  <2>2. Sentences' = Sentences
    BY DEF Sentences, Section, splitVars
  <2>3. LinesCut' = {Sentences[k].line : k \in 1 .. (sentence + 1) - 1}
    BY <2>2 DEF LinesCut
  <2> HIDE DEF Sentences
  <2> QED
    BY <2>1, <2>3 DEF LinesCut
<1>6. LinesBefore(next - 1)' = LinesBefore(next - 1)
  BY DEF LinesBefore, splitVars
<1>7. Reads(chunks, buf, LinesBefore(next - 1) \cup LinesCut)'
  <2>1. (LinesBefore(next - 1) \cup LinesCut)'
          = (LinesBefore(next - 1) \cup LinesCut) \cup {Sentences[sentence].line}
    BY <1>5, <1>6
  <2> HIDE DEF Sentences
  <2> QED
    BY <2>1 DEF Reads, InOrder, CharsIn, CharsOf
<1>8. PackInv'
  <2>1. sentence' <= Len(Sentences') + 1
    BY <1>1, <1>2 DEF Sentences, Section, splitVars
  <2> QED
    BY <1>1, <1>7, <2>1 DEF PackInv, ContentInv, splitVars
<1> QED
  BY <1>3, <1>4, <1>8 DEF ContentInv

\* A sentence that fits is buffered.
LEMMA GrowStep ==
  ASSUME TypeInv, ContentInv, Grow
  PROVE  TypeInv' /\ ContentInv'
<1> DEFINE i == Sentences[sentence].line
           L == LinesBefore(next - 1) \cup LinesCut
<1>1. /\ AtSentence /\ buf' = Join(buf, 1, Sentence) /\ sentence' = sentence + 1
      /\ UNCHANGED <<doc, pc, next, splitVars, packVars>>
  BY DEF Grow
<1>2. /\ {i} \in SUBSET Nat /\ L \in SUBSET Nat /\ \A a \in L : \A b \in {i} : a < b
      /\ Sentence \in Texts /\ Sound(Sentence) /\ Chars(Sentence) = CharsOf({i})
      /\ Reads(chunks, buf, L) /\ chunks \in Seq(Chunks) /\ buf \in Texts
  BY <1>1, SentenceIs
<1> HIDE DEF i, L
<1>3. Join(buf, 1, Sentence) \in Texts /\ Reads(chunks, Join(buf, 1, Sentence), L \cup {i})
  BY <1>2, ReadsJoin, 1 \in Nat
<1>4. chunks' = chunks /\ pending' = pending /\ pendingHeading' = pendingHeading
  BY <1>1 DEF packVars
<1>5. Reads(chunks', buf', L \cup {i}) /\ buf' \in Texts /\ chunks' \in Seq(Chunks)
  BY <1>1, <1>2, <1>3, <1>4
<1> QED
  BY <1>1, <1>4, <1>5, SentenceDone DEF i, L

\* One that does not is what the next part starts with.
LEMMA CutStep ==
  ASSUME TypeInv, ContentInv, Cut
  PROVE  TypeInv' /\ ContentInv'
<1> DEFINE i == Sentences[sentence].line
           L == LinesBefore(next - 1) \cup LinesCut
<1>1. /\ AtSentence /\ sentence' = sentence + 1
      /\ chunks' = Append(chunks, Chunk(Section.path, buf))
      /\ UNCHANGED <<doc, pc, next, splitVars, pending, pendingHeading>>
  BY DEF Cut
<1>2. /\ {i} \in SUBSET Nat /\ L \in SUBSET Nat /\ \A a \in L : \A b \in {i} : a < b
      /\ Sentence \in Texts /\ Sound(Sentence) /\ Chars(Sentence) = CharsOf({i})
      /\ Sentence.len \in Nat \ {0}
      /\ Reads(chunks, buf, L) /\ chunks \in Seq(Chunks) /\ buf \in Texts
      /\ Section.path \in Paths
  BY <1>1, SentenceIs
<1>3. PICK m \in Nat : buf' = [Sentence EXCEPT !.len = @ + m]
  <2>1. PICK n \in Overlaps(buf) :
          buf' = [Sentence EXCEPT !.len = @ + IF n = 0 THEN 0 ELSE n + 1]
    BY DEF Cut
  <2>2. n \in Nat
    BY <2>1 DEF Overlaps
  <2> QED
    BY <2>1, <2>2
<1> HIDE DEF i, L
<1>4. buf' \in Texts /\ buf'.pieces = Sentence.pieces /\ buf'.len # 0
  <2>1. PICK u \in Texts : u = Sentence
    BY <1>2
  <2>2. u.len + m \in Nat \ {0} /\ u.pieces \in Seq(Pieces)
    BY <1>2, <2>1, TextType
  <2>3. [u EXCEPT !.len = @ + m] = [len |-> u.len + m, pieces |-> u.pieces]
    BY DEF Texts
  <2>4. buf' = [len |-> u.len + m, pieces |-> u.pieces]
    BY <1>3, <2>1, <2>3
  <2> QED
    BY <2>1, <2>2, <2>4 DEF Texts
<1>5. Sound(buf') /\ Chars(buf') = CharsOf({i})
  BY <1>2, <1>4 DEF Sound, Chars, Places
<1>6. chunks' \in Seq(Chunks) /\ Reads(chunks', Empty, L)
  BY <1>1, <1>2, ReadsFlush
<1>7. Reads(chunks', buf', L \cup {i})
  BY <1>2, <1>4, <1>5, <1>6, ReadsNew
<1> QED
  BY <1>1, <1>4, <1>6, <1>7, SentenceDone DEF i, L

\* One longer than the budget becomes chunks of its own.
LEMMA HardSplitStep ==
  ASSUME TypeInv, ContentInv, HardSplit
  PROVE  TypeInv' /\ ContentInv'
<1> DEFINE i == Sentences[sentence].line
           L == LinesBefore(next - 1) \cup LinesCut
<1>1. /\ AtSentence /\ buf.len = 0 /\ sentence' = sentence + 1
      /\ chunks' = chunks \o HardParts(i)
      /\ UNCHANGED <<doc, pc, next, splitVars, pending, pendingHeading, buf>>
  BY DEF HardSplit
<1>2. /\ i \in Nat /\ doc[i].len \in Nat \ {0} /\ L \in SUBSET Nat /\ \A j \in L : j < i
      /\ Reads(chunks, buf, L) /\ chunks \in Seq(Chunks) /\ buf \in Texts
      /\ Section.path \in Paths
  BY <1>1, SentenceIs
<1> HIDE DEF i, L
<1>3. Sound(buf)
  BY <1>2 DEF Reads, InOrder
<1>4. Reads(chunks, Empty, L)
  BY <1>1, <1>2, <1>3, ReadsEmpty
<1>5. chunks' \in Seq(Chunks) /\ Reads(chunks', Empty, L \cup {i})
  BY <1>1, <1>2, <1>4, ReadsHardSplit
<1>6. Reads(chunks', buf, L \cup {i})
  BY <1>1, <1>3, <1>5, ReadsEmpty
<1>7. Reads(chunks', buf', L \cup {i}) /\ buf' \in Texts
  BY <1>1, <1>2, <1>6
<1> QED
  BY <1>1, <1>5, <1>7, SentenceDone DEF i, L

\* The end of a long section.
LEMMA EndOfSectionStep ==
  ASSUME TypeInv, ContentInv, EndOfSection
  PROVE  TypeInv' /\ ContentInv'
<1> DEFINE t == sections[next].text
           L == LinesBefore(next - 1) \cup LinesCut
<1>1. /\ pc = "sentences" /\ sentence > Len(Sentences)
      /\ chunks' = IF buf.len > 0 THEN Append(chunks, Chunk(Section.path, buf)) ELSE chunks
      /\ pendingHeading' = Section.path /\ buf' = Empty /\ pc' = "pack" /\ next' = next + 1
      /\ UNCHANGED <<doc, splitVars, pending, sentence>>
  BY DEF EndOfSection
<1>2. /\ next <= Len(sections) /\ pending = Empty /\ sentence <= Len(Sentences) + 1
      /\ Reads(chunks, buf, L)
      /\ chunks \in Seq(Chunks) /\ buf \in Texts
  BY <1>1 DEF ContentInv, PackInv, TypeInv
<1>3. next \in 1 .. Len(sections) /\ next \in Nat /\ Len(sections) \in Nat /\ sentence \in Nat
  BY <1>2 DEF TypeInv
<1>4. t \in Texts /\ Section.path \in Paths /\ Len(t.pieces) \in Nat /\ Sentences = t.pieces
  BY <1>3, SectionType, TextType DEF Section, Sentences
<1>5. L = LinesBefore(next)
  <2>1. sentence - 1 = Len(t.pieces)
    BY <1>1, <1>2, <1>3, <1>4
  <2>2. LinesCut = LinesOf(t)
    BY <1>4, <2>1 DEF LinesCut, LinesOf, Places
  <2> QED
    BY <1>3, <2>2, SectionIs DEF ContentInv
<1> HIDE DEF t, L
<1>6. chunks' \in Seq(Chunks) /\ Reads(chunks', Empty, L)
  BY <1>1, <1>2, <1>4, FlushIs
<1>7. TypeInv'
  BY <1>1, <1>2, <1>3, <1>4, <1>6, EmptyText DEF TypeInv, splitVars
<1>8. SectionsInv' /\ SplitInv' /\ SplitDone'
  BY <1>1, SectionsStay DEF splitVars
<1>9. Reads(chunks, pending, LinesBefore(next - 1))'
  <2>1. next' - 1 = next
    BY <1>1, <1>3
  <2>2. LinesBefore(next - 1)' = L
    <3>1. LinesBefore(next - 1)' = LinesBefore(next)
      BY <1>1, <2>1 DEF LinesBefore, splitVars
    <3> QED
      BY <1>5, <3>1
  <2>3. pending' = Empty
    BY <1>1, <1>2
  <2> QED
    BY <1>1, <1>6, <2>2, <2>3 DEF Reads, InOrder, CharsIn, CharsOf
<1>10. PackInv'
  BY <1>1, <1>3, <1>9, <1>2 DEF PackInv, splitVars
<1> QED
  BY <1>7, <1>8, <1>10 DEF ContentInv

-----------------------------------------------------------------------------
(***************************************************************************)
(* Nothing is lost.                                                        *)
(***************************************************************************)

LEMMA ContentInit == Init => TypeInv /\ ContentInv
<1> SUFFICES ASSUME Init PROVE TypeInv /\ ContentInv
  OBVIOUS
<1>1. /\ doc \in SeqOf(Lines, MaxLines)
      /\ pc = "split" /\ next = 1 /\ stack = <<>> /\ inFence = FALSE
      /\ current = [path |-> <<>>, text |-> Empty] /\ sections = <<>>
      /\ pending = Empty /\ pendingHeading = <<>> /\ chunks = <<>>
      /\ buf = Empty /\ sentence = 1
  BY DEF Init
<1>2. doc \in Seq(Lines)
  BY <1>1 DEF SeqOf
<1>3. current \in Sections /\ current.text = Empty
  BY <1>1, EmptyText DEF Sections, Paths
<1>4. TypeInv
  <2>1. /\ <<>> \in Paths /\ <<>> \in Seq(Sections) /\ <<>> \in Seq(Chunks)
        /\ 1 \in Nat \ {0} /\ FALSE \in BOOLEAN
    BY DEF Paths
  <2> QED
    BY <1>1, <1>2, <1>3, <2>1, EmptyText DEF TypeInv
<1>5. Len(sections) = 0 /\ 1 .. 0 = {}
  BY <1>1
<1>6. SectionsInv /\ LinesBefore(Len(sections)) = {}
  BY <1>5 DEF SectionsInv, LinesBefore
<1>7. WholeLines(current.text) /\ LinesOf(current.text) = {}
  BY <1>3, EmptyText DEF WholeLines, LinesOf
<1>8. InFence(1) = FALSE
  <2>1. {j \in 1 .. 1 - 1 : doc[j].kind = "fence"} = {}
    OBVIOUS
  <2>2. Cardinality({}) = 0
    BY FS_EmptySet
  <2> QED
    BY <2>1, <2>2 DEF InFence
<1>9. {i \in Content : i < next} = {}
  BY <1>1, <1>4, ContentLines
<1>10. next <= Len(doc) + 1
  BY <1>1, <1>2
<1>11. SplitInv
  BY <1>1, <1>6, <1>7, <1>8, <1>9, <1>10 DEF SplitInv
<1>12. SplitDone /\ PackInv
  BY <1>1 DEF SplitDone, PackInv
<1> QED
  BY <1>4, <1>6, <1>11, <1>12 DEF ContentInv

LEMMA ContentStep == TypeInv /\ ContentInv /\ [Next]_vars => TypeInv' /\ ContentInv'
<1> SUFFICES ASSUME TypeInv, ContentInv, [Next]_vars
             PROVE  TypeInv' /\ ContentInv'
  OBVIOUS
<1>0. SectionsInv /\ SplitInv
  BY DEF ContentInv
<1>1. CASE Fence
  <2>1. /\ pc = "split" /\ next <= Len(doc) /\ doc[next].kind = "fence"
        /\ inFence' = ~inFence /\ current' = Extended /\ next' = next + 1
        /\ UNCHANGED <<doc, pc, stack, sections, packVars, buf, sentence>>
    BY <1>1 DEF Fence, Reading
  <2>2. next \in 1 .. Len(doc) /\ next \in Content
    BY <1>0, <2>1, ReadingLine
  <2>3. inFence' = InFence(next + 1)
    BY <1>0, <2>1, <2>2, InFenceStep DEF SplitInv, TypeInv
  <2>4. current' \in Sections /\ ContentInv'
    BY <1>0, <2>1, <2>2, <2>3, ContentLineStep
  <2>5. inFence' \in BOOLEAN
    BY <2>1 DEF TypeInv
  <2> QED
    BY <2>1, <2>4, <2>5 DEF TypeInv, packVars
<1>2. CASE Prose
  <2>1. /\ pc = "split" /\ next <= Len(doc)
        /\ doc[next].kind = "text" \/ (doc[next].kind = "heading" /\ inFence)
        /\ current' = Extended /\ next' = next + 1
        /\ UNCHANGED <<doc, pc, stack, inFence, sections, packVars, buf, sentence>>
    BY <1>2 DEF Prose, Reading
  <2>2. next \in 1 .. Len(doc) /\ next \in Content
    BY <1>0, <2>1, ReadingLine
  <2>3. inFence' = InFence(next + 1)
    BY <1>0, <2>1, <2>2, InFenceStep DEF SplitInv
  <2>4. current' \in Sections /\ ContentInv'
    BY <1>0, <2>1, <2>2, <2>3, ContentLineStep
  <2> QED
    BY <2>1, <2>4 DEF TypeInv, packVars
<1>3. CASE Heading
  BY <1>0, <1>3, HeadingStep
<1>4. CASE EndOfLines
  BY <1>0, <1>4, EndOfLinesStep
<1>5. CASE Pack
  BY <1>5, PackStep
<1>6. CASE Oversized
  BY <1>6, OversizedStep
<1>7. CASE Finish
  BY <1>7, FinishStep
<1>8. CASE Grow
  BY <1>8, GrowStep
<1>9. CASE Cut
  BY <1>9, CutStep
<1>10. CASE HardSplit
  BY <1>10, HardSplitStep
<1>11. CASE EndOfSection
  BY <1>11, EndOfSectionStep
<1>12. CASE UNCHANGED vars
  <2>1. UNCHANGED <<doc, pc, next, stack, inFence, current, sections, pending, pendingHeading,
                    chunks, buf, sentence>>
    BY <1>12 DEF vars, splitVars, packVars
  <2>2. TypeInv'
    BY <2>1 DEF TypeInv
  <2>3. Content' = Content /\ (\A i : InFence(i)' <=> InFence(i))
    BY <2>1, SameDoc
  <2>4. SectionsInv'
    BY <2>1, <1>0, SameSections
  <2>5. SplitInv' /\ SplitDone'
    BY <2>1, <2>3 DEF ContentInv, SplitInv, SplitDone, LinesBefore, WholeLines, InFence
  <2>6. PackInv'
    <3>1. /\ LinesBefore(next - 1)' = LinesBefore(next - 1) /\ LinesCut' = LinesCut
          /\ Sentences' = Sentences
      BY <2>1 DEF LinesBefore, LinesCut, Sentences, Section
    <3>2. /\ Reads(chunks, pending, LinesBefore(next - 1))'
               <=> Reads(chunks, pending, LinesBefore(next - 1))
          /\ Reads(chunks, buf, LinesBefore(next - 1) \cup LinesCut)'
               <=> Reads(chunks, buf, LinesBefore(next - 1) \cup LinesCut)
          /\ Reads(chunks, Empty, Content)' <=> Reads(chunks, Empty, Content)
      BY <2>1, <2>3, <3>1 DEF Reads, InOrder, CharsIn, CharsOf
    <3> QED
      BY <2>1, <3>1, <3>2 DEF ContentInv, PackInv
  <2> QED
    BY <2>2, <2>4, <2>5, <2>6 DEF ContentInv
<1> QED
  BY <1>1, <1>2, <1>3, <1>4, <1>5, <1>6, <1>7, <1>8, <1>9, <1>10, <1>11, <1>12 DEF Next

LEMMA ContentAlways == Spec => [](TypeInv /\ ContentInv)
<1>1. Init => TypeInv /\ ContentInv
  BY ContentInit
<1>2. (TypeInv /\ ContentInv) /\ [Next]_vars => (TypeInv /\ ContentInv)'
  BY ContentStep
<1> QED
  BY <1>1, <1>2, PTL DEF Spec

\* The characters of the chunks, and the order of their pieces.
LEMMA NothingLostNow == TypeInv /\ ContentInv => NothingLost
<1> SUFFICES ASSUME TypeInv, ContentInv, pc = "done"
             PROVE  /\ UNION {Characters(PieceAt(p)) : p \in Positions} = CharsOf(Content)
                    /\ \A p, q \in Positions : Earlier(p, q) => Precedes(PieceAt(p), PieceAt(q))
  BY DEF NothingLost, CharsOf
<1>1. chunks \in Seq(Chunks) /\ DOMAIN chunks = 1 .. Len(chunks)
  BY DEF TypeInv
<1>2. InOrder(chunks, Empty) /\ CharsIn(chunks) = CharsOf(Content)
  BY EmptyText DEF ContentInv, PackInv, Reads
<1>3. \A c \in 1 .. Len(chunks) : DOMAIN chunks[c].text.pieces = Places(chunks[c].text)
  BY <1>1, ChunkType, TextType DEF Places
<1>4. \A p : p \in Positions <=>
        \E c \in 1 .. Len(chunks) : \E k \in Places(chunks[c].text) : p = <<c, k>>
  <2>1. \A p : p \in Positions <=>
          \E c \in 1 .. Len(chunks) : p \in {c} \X Places(chunks[c].text)
    BY <1>1, <1>3 DEF Positions
  <2>2. \A p, c : p \in {c} \X Places(chunks[c].text) <=>
          \E k \in Places(chunks[c].text) : p = <<c, k>>
    OBVIOUS
  <2> QED
    BY <2>1, <2>2
<1>5. \A p \in Positions : /\ p[1] \in 1 .. Len(chunks) /\ p[2] \in Places(chunks[p[1]].text)
                           /\ PieceAt(p) = chunks[p[1]].text.pieces[p[2]]
  BY <1>4 DEF PieceAt
<1>6. \A c \in 1 .. Len(chunks) : \A k \in Places(chunks[c].text) :
        <<c, k>> \in Positions /\ PieceAt(<<c, k>>) = chunks[c].text.pieces[k]
  BY <1>4 DEF PieceAt
<1>7. \A x : x \in CharsIn(chunks) <=>
        \E c \in 1 .. Len(chunks) : \E k \in Places(chunks[c].text) :
          x \in Characters(chunks[c].text.pieces[k])
  BY DEF CharsIn, Chars
<1>8. \A x : x \in CharsIn(chunks) <=> \E p \in Positions : x \in Characters(PieceAt(p))
  <2>1. ASSUME NEW x, x \in CharsIn(chunks)
        PROVE  \E p \in Positions : x \in Characters(PieceAt(p))
    <3>1. PICK c \in 1 .. Len(chunks) :
            \E k \in Places(chunks[c].text) : x \in Characters(chunks[c].text.pieces[k])
      BY <1>7, <2>1
    <3>2. PICK k \in Places(chunks[c].text) : x \in Characters(chunks[c].text.pieces[k])
      BY <3>1
    <3>3. <<c, k>> \in Positions /\ PieceAt(<<c, k>>) = chunks[c].text.pieces[k]
      BY <1>6
    <3>4. x \in Characters(PieceAt(<<c, k>>))
      BY <3>2, <3>3, Zenon
    <3> QED
      BY <3>3, <3>4
  <2>2. ASSUME NEW x, NEW p \in Positions, x \in Characters(PieceAt(p))
        PROVE  x \in CharsIn(chunks)
    <3>1. x \in Characters(chunks[p[1]].text.pieces[p[2]])
      BY <1>5, <2>2, Zenon
    <3> QED
      BY <1>5, <1>7, <3>1
  <2> QED
    BY <2>1, <2>2
<1>9. \A p, q \in Positions : Earlier(p, q) => Precedes(PieceAt(p), PieceAt(q))
  BY <1>2, <1>5 DEF Earlier, InOrder, Ahead, Sound
<1> QED
  BY <1>2, <1>8, <1>9

\* For every document, every set of lines and all budgets, the chunks hold the
\* characters of the document's content, each once and in reading order.
THEOREM EverythingIsChunked == Spec => []NothingLost
  BY ContentAlways, NothingLostNow, PTL

-----------------------------------------------------------------------------
(***************************************************************************)
(* Sizes.                                                                  *)
(***************************************************************************)

Bounded(cs, b) == \A c \in 1 .. Len(cs) : cs[c].text.len <= b

\* What SizeIsBounded supposes: no sentence is longer than the budget, and two
\* sections packed up to the target are not either.
Ordinary ==
  /\ TARGET_CHARS + 2 <= MAX_CHARS
  /\ \A i \in Content : doc[i].len <= MAX_CHARS

\* Only what a cut leaves in the buffer, an overlap and a sentence, exceeds the
\* budget before the scrap is folded.
SizeInv ==
  Ordinary =>
    /\ pending.len <= MAX_CHARS
    /\ buf.len <= MAX_CHARS + OVERLAP_CHARS
    /\ IF pc = "done" THEN Bounded(chunks, MAX_CHARS + OVERLAP_CHARS + MIN_CHARS + 1)
                      ELSE Bounded(chunks, MAX_CHARS + OVERLAP_CHARS)

LEMMA BoundedAppend ==
  ASSUME NEW cs \in Seq(Chunks), NEW h \in Paths, NEW t \in Texts, NEW b \in Nat,
         Bounded(cs, b), t.len <= b
  PROVE  Bounded(Append(cs, Chunk(h, t)), b)
<1> DEFINE k == Chunk(h, t)
<1>1. k \in Chunks /\ k.text = t
  BY ChunkType
<1> HIDE DEF k
<1>2. /\ Len(Append(cs, k)) = Len(cs) + 1 /\ Append(cs, k)[Len(cs) + 1] = k /\ Len(cs) \in Nat
      /\ \A c \in 1 .. Len(cs) : Append(cs, k)[c] = cs[c]
  BY <1>1
<1>3. \A c \in 1 .. Len(cs) + 1 : c \in 1 .. Len(cs) \/ c = Len(cs) + 1
  BY <1>2
<1> QED
  BY <1>1, <1>2, <1>3 DEF Bounded, k

LEMMA FlushedBounded ==
  ASSUME TypeInv, NEW b \in Nat, Bounded(chunks, b), pending.len <= b
  PROVE  Flushed \in Seq(Chunks) /\ Bounded(Flushed, b)
<1>1. chunks \in Seq(Chunks) /\ pendingHeading \in Paths /\ pending \in Texts
  BY DEF TypeInv
<1>2. Append(chunks, Chunk(pendingHeading, pending)) \in Seq(Chunks)
  BY <1>1, ChunkType
<1> QED
  BY <1>1, <1>2, BoundedAppend DEF Flushed

\* Two sections in one chunk are within the budget.
LEMMA SizePack ==
  ASSUME TypeInv, ContentInv, TARGET_CHARS + 2 <= MAX_CHARS, Pack,
         pending.len <= MAX_CHARS, NEW b \in Nat, MAX_CHARS <= b, Bounded(chunks, b)
  PROVE  pending'.len <= MAX_CHARS /\ Bounded(chunks, b)'
<1> DEFINE s == sections[next]
<1>1. /\ pc = "pack" /\ next <= Len(sections) /\ s.text.len <= MAX_CHARS
      /\ IF MustFlush(s)
           THEN chunks' = Flushed /\ pending' = s.text
           ELSE pending' = Join(pending, 2, s.text) /\ chunks' = chunks
  BY DEF Pack
<1>2. s.text \in Texts /\ pending \in Texts
  BY <1>1, SectionType DEF TypeInv
<1>3. s.text.len \in Nat /\ pending.len \in Nat /\ MAX_CHARS \in Nat /\ TARGET_CHARS \in Nat
  BY <1>2, TextType, ConstantTypes
<1>4. CASE MustFlush(s)
  <2>1. pending.len <= b
    BY <1>3
  <2> QED
    BY <1>1, <1>4, <2>1, FlushedBounded DEF Bounded
<1>5. CASE ~MustFlush(s)
  <2>1. Sound(pending)
    BY <1>1 DEF ContentInv, PackInv, Reads, InOrder
  <2>2. Join(pending, 2, s.text).len
          = IF pending.len = 0 THEN s.text.len ELSE pending.len + 2 + s.text.len
    BY <1>2, <2>1, JoinIs, 2 \in Nat
  <2>3. pending.len = 0 \/ pending.len + s.text.len <= TARGET_CHARS
    BY <1>3, <1>5 DEF MustFlush
  <2> HIDE DEF s
  <2>4. pending'.len <= MAX_CHARS
    BY <1>1, <1>3, <1>5, <2>2, <2>3
  <2> QED
    BY <1>1, <1>5, <2>4 DEF Bounded
<1> QED
  BY <1>4, <1>5

\* A part is what fits, or an overlap and one sentence.
LEMMA SizeSentence ==
  ASSUME TypeInv, ContentInv, Ordinary, Grow \/ Cut \/ HardSplit,
         buf.len <= MAX_CHARS + OVERLAP_CHARS, Bounded(chunks, MAX_CHARS + OVERLAP_CHARS)
  PROVE  /\ buf'.len <= MAX_CHARS + OVERLAP_CHARS
         /\ Bounded(chunks, MAX_CHARS + OVERLAP_CHARS)'
<1> DEFINE B == MAX_CHARS + OVERLAP_CHARS
           i == Sentences[sentence].line
<1>0. AtSentence /\ MAX_CHARS \in Nat \ {0} /\ OVERLAP_CHARS \in Nat \ {0} /\ B \in Nat
  BY ConstantTypes DEF Grow, Cut, HardSplit
<1>1. /\ Sentence \in Texts /\ Sound(Sentence) /\ Sentence.len = doc[i].len
      /\ i \in Content /\ i \in Nat /\ doc[i].len \in Nat \ {0}
      /\ Section.path \in Paths /\ chunks \in Seq(Chunks) /\ buf \in Texts
      /\ Sound(buf)
  BY <1>0, SentenceIs DEF Reads, InOrder
<1>2. Sentence.len <= MAX_CHARS /\ Sentence.len \in Nat /\ buf.len \in Nat
  BY <1>1, TextType DEF Ordinary
<1> HIDE DEF i, B
<1>3. CASE Grow
  <2>1. buf.len + Sentence.len + 1 <= MAX_CHARS /\ buf' = Join(buf, 1, Sentence) /\ chunks' = chunks
    BY <1>3 DEF Grow, Fits, packVars
  <2>2. buf'.len = IF buf.len = 0 THEN Sentence.len ELSE buf.len + 1 + Sentence.len
    BY <1>1, <2>1, JoinIs, 1 \in Nat
  <2>3. buf'.len <= MAX_CHARS + OVERLAP_CHARS
    BY <1>0, <1>2, <2>1, <2>2
  <2> QED
    BY <2>1, <2>3 DEF Bounded
<1>4. CASE Cut
  <2>1. PICK n \in Overlaps(buf) :
          buf' = [Sentence EXCEPT !.len = @ + IF n = 0 THEN 0 ELSE n + 1]
    BY <1>4 DEF Cut
  <2>2. n \in Nat /\ n + 1 <= OVERLAP_CHARS
    BY <1>0, <1>2, <2>1 DEF Overlaps, Least
  <2>3. buf'.len = Sentence.len + IF n = 0 THEN 0 ELSE n + 1
    BY <1>1, <2>1 DEF Texts
  <2>4. buf'.len <= MAX_CHARS + OVERLAP_CHARS
    BY <1>0, <1>2, <2>2, <2>3
  <2>5. chunks' = Append(chunks, Chunk(Section.path, buf))
    BY <1>4 DEF Cut
  <2>6. Bounded(Append(chunks, Chunk(Section.path, buf)), B)
    BY <1>0, <1>1, BoundedAppend DEF B
  <2> QED
    BY <2>4, <2>5, <2>6 DEF Bounded, B
<1>5. CASE HardSplit
  <2> DEFINE hs == HardParts(i)
  <2>1. chunks' = chunks \o hs /\ buf' = buf
    BY <1>5 DEF HardSplit, i
  <2>2. hs \in Seq(Chunks) /\ \A k \in 1 .. Len(hs) : hs[k].text.len \in 1 .. MAX_CHARS
    BY <1>1, HardPartsAre
  <2> HIDE DEF hs
  <2>3. PICK ds : ds = chunks \o hs
    OBVIOUS
  <2>4. /\ Len(chunks) \in Nat /\ \A c \in 1 .. Len(chunks) : ds[c] = chunks[c]
        /\ \A k \in 1 .. Len(hs) : ds[Len(chunks) + k] = hs[k]
        /\ \A c \in 1 .. Len(ds) : c \in 1 .. Len(chunks) \/ c - Len(chunks) \in 1 .. Len(hs)
        /\ Len(ds) \in Nat
    BY <1>1, <2>2, <2>3, ConcatIs
  <2>5. ASSUME NEW c \in 1 .. Len(ds)
        PROVE  ds[c].text.len <= B
    <3>1. CASE c \in 1 .. Len(chunks)
      BY <2>4, <3>1 DEF Bounded, B
    <3>2. CASE c - Len(chunks) \in 1 .. Len(hs)
      <4>1. ds[c] = hs[c - Len(chunks)]
        <5>1. Len(chunks) + (c - Len(chunks)) = c
          BY <2>4
        <5> QED
          BY <2>4, <3>2, <5>1
      <4>2. hs[c - Len(chunks)].text.len \in 1 .. MAX_CHARS
        BY <2>2, <3>2
      <4> QED
        BY <1>0, <4>1, <4>2 DEF B
    <3> QED
      BY <2>4, <3>1, <3>2
  <2> QED
    BY <2>1, <2>3, <2>5 DEF Bounded, B
<1> QED
  BY <1>3, <1>4, <1>5

\* A folded scrap is short.
LEMMA SizeFold ==
  ASSUME NEW cs \in Seq(Chunks), NEW L, Reads(cs, Empty, L), NEW b \in Nat, Bounded(cs, b)
  PROVE  Bounded(FoldScrap(cs), b + MIN_CHARS + 1)
<1> DEFINE n == Len(cs)
           d == b + MIN_CHARS + 1
<1>1. n \in Nat /\ MIN_CHARS \in Nat \ {0} /\ d \in Nat
  BY ConstantTypes
<1>2. \A c \in 1 .. n : cs[c].text.len <= d /\ cs[c].text \in Texts /\ cs[c].text.len \in Nat
                        /\ cs[c].heading \in Paths
  <2>1. \A c \in 1 .. n : cs[c].text \in Texts /\ cs[c].text.len \in Nat /\ cs[c].heading \in Paths
    BY ChunkType, TextType
  <2> QED
    BY <1>1, <2>1 DEF Bounded
<1>3. CASE FoldScrap(cs) = cs
  BY <1>2, <1>3 DEF Bounded
<1>4. CASE FoldScrap(cs) # cs
  <2> DEFINE rest == SubSeq(cs, 1, n - 2)
             t == Join(cs[n - 1].text, 2, cs[n].text)
  <2>1. /\ n > 1 /\ cs[n].text.len < MIN_CHARS
        /\ FoldScrap(cs) = Append(rest, Chunk(cs[n].heading, t))
    BY <1>4 DEF FoldScrap
  <2>2. n \in 1 .. n /\ n - 1 \in 1 .. n /\ n - 2 \in Nat
    BY <1>1, <2>1
  <2>3. rest \in Seq(Chunks) /\ Bounded(rest, d)
    <3> DEFINE m == n - 2
    <3>1. m \in Nat /\ m <= Len(cs)
      BY <1>1, <2>2
    <3> HIDE DEF m
    <3>2. /\ SubSeq(cs, 1, m) \in Seq(Chunks) /\ Len(SubSeq(cs, 1, m)) = m
          /\ \A c \in 1 .. m : SubSeq(cs, 1, m)[c] = cs[c] /\ c \in 1 .. n
      BY <3>1
    <3> QED
      BY <1>2, <3>2 DEF Bounded, m
  <2>4. Sound(cs[n - 1].text)
    BY <2>2 DEF Reads, InOrder
  <2>5. /\ t \in Texts
        /\ t.len = IF cs[n - 1].text.len = 0 THEN cs[n].text.len
                   ELSE cs[n - 1].text.len + 2 + cs[n].text.len
    <3> DEFINE x == cs[n - 1].text
               y == cs[n].text
    <3>1. x \in Texts /\ y \in Texts /\ Sound(x) /\ 2 \in Nat
      BY <1>2, <2>2, <2>4
    <3> HIDE DEF x, y
    <3>2. /\ Join(x, 2, y) \in Texts
          /\ Join(x, 2, y).len = IF x.len = 0 THEN y.len ELSE x.len + 2 + y.len
      BY <3>1, JoinIs
    <3> QED
      BY <3>2 DEF x, y
  <2>6. cs[n - 1].text.len <= b
    BY <2>2 DEF Bounded
  <2> HIDE DEF t, rest
  <2>7. t.len <= d
    <3>1. \A x, y, z \in Nat : x <= b /\ y < MIN_CHARS
            /\ z = (IF x = 0 THEN y ELSE x + 2 + y) => z <= d
      BY <1>1
    <3>2. /\ cs[n - 1].text.len \in Nat /\ cs[n].text.len \in Nat
          /\ t.len \in Nat
      BY <1>2, <2>2, <2>5, TextType
    <3> HIDE DEF d
    <3> QED
      BY <2>1, <2>5, <2>6, <3>1, <3>2
  <2> HIDE DEF d
  <2>8. cs[n].heading \in Paths
    BY <1>2, <2>2
  <2>9. Bounded(FoldScrap(cs), d)
    BY <1>1, <2>1, <2>3, <2>5, <2>7, <2>8, BoundedAppend
  <2> QED
    BY <2>9 DEF d
<1> QED
  BY <1>3, <1>4

LEMMA SizeInit == Init => SizeInv
<1> SUFFICES ASSUME Init PROVE SizeInv
  OBVIOUS
<1>1. pending = Empty /\ buf = Empty /\ chunks = <<>> /\ pc = "split"
  BY DEF Init
<1>2. Empty.len = 0 /\ MAX_CHARS \in Nat /\ OVERLAP_CHARS \in Nat
  BY EmptyText, ConstantTypes
<1>3. Len(chunks) = 0 /\ 1 .. 0 = {}
  BY <1>1
<1> QED
  BY <1>1, <1>2, <1>3 DEF SizeInv, Bounded

LEMMA SizeStep ==
  ASSUME TypeInv, ContentInv, SizeInv, [Next]_vars
  PROVE  SizeInv'
<1> DEFINE B == MAX_CHARS + OVERLAP_CHARS
<1>0. MAX_CHARS \in Nat /\ OVERLAP_CHARS \in Nat /\ MIN_CHARS \in Nat /\ B \in Nat /\ MAX_CHARS <= B
  BY ConstantTypes
<1>1. doc' = doc
  BY DEF Next, Fence, Prose, Heading, EndOfLines, Pack, Oversized, Finish, Grow, Cut, HardSplit,
         EndOfSection, vars
<1>2. SUFFICES ASSUME Ordinary
               PROVE  /\ pending'.len <= MAX_CHARS /\ buf'.len <= B
                      /\ IF pc' = "done" THEN Bounded(chunks, B + MIN_CHARS + 1)'
                                         ELSE Bounded(chunks, B)'
  BY <1>1, SameDoc DEF SizeInv, Ordinary
<1>3. /\ pending.len <= MAX_CHARS /\ buf.len <= B
      /\ pc = "done" => Bounded(chunks, B + MIN_CHARS + 1)
      /\ pc # "done" => Bounded(chunks, B)
  BY <1>2 DEF SizeInv
<1>4. Empty.len = 0
  BY EmptyText
<1> HIDE DEF B
<1>5. CASE Fence \/ Prose \/ Heading \/ EndOfLines
  <2>1. /\ pending' = pending /\ buf' = buf /\ chunks' = chunks
        /\ pc = "split" /\ pc' # "done"
    BY <1>5 DEF Fence, Prose, Heading, EndOfLines, Reading, packVars
  <2> QED
    BY <1>3, <2>1 DEF Bounded
<1>6. CASE Pack
  <2>1. buf' = buf /\ pc = "pack" /\ pc' = "pack"
    BY <1>6 DEF Pack
  <2>2. pending'.len <= MAX_CHARS /\ Bounded(chunks, B)'
    BY <1>0, <1>2, <1>3, <1>6, <2>1, SizePack DEF Ordinary, Bounded
  <2> QED
    BY <1>3, <2>1, <2>2
<1>7. CASE Oversized
  <2>1. /\ pending' = Empty /\ buf' = Empty /\ chunks' = Flushed
        /\ pc = "pack" /\ pc' = "sentences"
    BY <1>7 DEF Oversized
  <2>2. pending.len <= B
    BY <1>0, <1>3, TextType DEF TypeInv
  <2>3. Bounded(Flushed, B)
    BY <1>0, <1>3, <2>1, <2>2, FlushedBounded
  <2> QED
    BY <1>0, <1>4, <2>1, <2>3 DEF Bounded
<1>8. CASE Grow \/ Cut \/ HardSplit
  <2>1. pending' = pending /\ pc = "sentences" /\ pc' = pc
    BY <1>8 DEF Grow, Cut, HardSplit, packVars, AtSentence
  <2>2. buf'.len <= B /\ Bounded(chunks, B)'
    BY <1>2, <1>3, <1>8, <2>1, SizeSentence DEF B
  <2> QED
    BY <1>3, <2>1, <2>2
<1>9. CASE EndOfSection
  <2>1. /\ pending' = pending /\ buf' = Empty /\ pc = "sentences" /\ pc' = "pack"
        /\ chunks' = IF buf.len > 0 THEN Append(chunks, Chunk(Section.path, buf)) ELSE chunks
    BY <1>9 DEF EndOfSection
  <2>2. Section.path \in Paths
    <3>1. next \in 1 .. Len(sections)
      BY <2>1 DEF TypeInv, ContentInv, PackInv
    <3> QED
      BY <3>1, SectionType DEF Section
  <2>3. Bounded(Append(chunks, Chunk(Section.path, buf)), B)
    BY <1>0, <1>3, <2>1, <2>2, BoundedAppend DEF TypeInv
  <2> QED
    BY <1>0, <1>3, <1>4, <2>1, <2>3 DEF Bounded
<1>10. CASE Finish
  <2>1. /\ pending' = Empty /\ buf' = buf /\ chunks' = FoldScrap(Flushed)
        /\ pc = "pack" /\ pc' = "done"
    BY <1>10 DEF Finish
  <2>2. pending.len <= B
    BY <1>0, <1>3, TextType DEF TypeInv
  <2>3. Flushed \in Seq(Chunks) /\ Bounded(Flushed, B)
    BY <1>0, <1>3, <2>1, <2>2, FlushedBounded
  <2>4. Reads(Flushed, Empty, LinesBefore(next - 1))
    BY <2>1, FlushIs DEF Flushed, TypeInv, ContentInv, PackInv
  <2>5. Bounded(FoldScrap(Flushed), B + MIN_CHARS + 1)
    BY <1>0, <2>3, <2>4, SizeFold
  <2> QED
    BY <1>0, <1>3, <1>4, <2>1, <2>5 DEF Bounded
<1>11. CASE UNCHANGED vars
  <2>1. pending' = pending /\ buf' = buf /\ chunks' = chunks /\ pc' = pc
    BY <1>11 DEF vars, packVars
  <2> QED
    BY <1>3, <2>1 DEF Bounded
<1> QED
  BY <1>5, <1>6, <1>7, <1>8, <1>9, <1>10, <1>11 DEF Next

\* For every document without a sentence over the budget, and all budgets that
\* leave room for two packed sections, a chunk exceeds the budget by no more
\* than an overlap and a folded scrap.
THEOREM ChunksAreBounded == Spec => []SizeIsBounded
<1>1. Init => TypeInv /\ ContentInv /\ SizeInv
  BY ContentInit, SizeInit
<1>2. (TypeInv /\ ContentInv /\ SizeInv) /\ [Next]_vars => (TypeInv /\ ContentInv /\ SizeInv)'
  BY ContentStep, SizeStep
<1>3. TypeInv /\ SizeInv => SizeIsBounded
  <2>1. TypeInv => DOMAIN chunks = 1 .. Len(chunks)
    BY DEF TypeInv
  <2> QED
    BY <2>1 DEF SizeInv, SizeIsBounded, Ordinary, Bounded
<1> QED
  BY <1>1, <1>2, <1>3, PTL DEF Spec

-----------------------------------------------------------------------------
(***************************************************************************)
(* Outlines, of documents that skip no heading level.                      *)
(***************************************************************************)

\* All of t stands under the headings h.
Under(h, t) == \A k \in Places(t) : Outline(t.pieces[k].line) = h

AllUnder(cs) == \A c \in 1 .. Len(cs) : Under(cs[c].heading, cs[c].text)

\* While lines are read, the stack is their outline; what is cut from the
\* sections and packed keeps the outline of its lines.
OutlineInv ==
  NoLevelSkipped =>
    /\ pc = "split" => /\ stack = Outline(next - 1) /\ current.path = stack
                       /\ Under(current.path, current.text)
    /\ \A s \in 1 .. Len(sections) : Under(sections[s].path, sections[s].text)
    /\ AllUnder(chunks) /\ Under(pendingHeading, pending)
    /\ pc = "sentences" => Under(Section.path, buf)

\* The headings above a heading that is above line i.
LEMMA AboveOfAbove ==
  ASSUME TypeInv, NEW i \in 0 .. Len(doc), NEW h \in Above(i)
  PROVE  /\ h \in 1 .. i /\ h \in 1 .. Len(doc) /\ IsHeading(h)
         /\ Above(h) = {g \in Above(i) : g <= h}
         /\ \A g \in Above(i) : g < h => doc[g].level < doc[h].level
<1>1. Len(doc) \in Nat /\ i \in Nat /\ i <= Len(doc)
  BY DEF TypeInv
<1>2. /\ h \in 1 .. i /\ IsHeading(h)
      /\ \A k \in h + 1 .. i : IsHeading(k) => doc[k].level > doc[h].level
  BY DEF Above
<1>3. \A g \in 1 .. i : g \in 1 .. Len(doc) /\ g \in Nat /\ doc[g].level \in Nat
  <2>1. \A g \in 1 .. i : g \in 1 .. Len(doc) /\ g \in Nat
    BY <1>1
  <2> QED
    BY <2>1, LineType
<1>4. \A g \in Above(i) : g < h => doc[g].level < doc[h].level
  <2>1. SUFFICES ASSUME NEW g \in Above(i), g < h
                 PROVE  doc[g].level < doc[h].level
    OBVIOUS
  <2>2. g \in 1 .. i /\ \A k \in g + 1 .. i : IsHeading(k) => doc[k].level > doc[g].level
    BY DEF Above
  <2>3. h \in g + 1 .. i
    BY <1>1, <1>2, <2>1, <2>2
  <2> QED
    BY <1>2, <1>3, <2>2, <2>3
<1>5. ASSUME NEW g \in Above(i), g <= h
      PROVE  g \in Above(h)
  <2>1. /\ g \in 1 .. i /\ IsHeading(g)
        /\ \A k \in g + 1 .. i : IsHeading(k) => doc[k].level > doc[g].level
    BY DEF Above
  <2>2. g \in 1 .. h /\ \A k \in g + 1 .. h : k \in g + 1 .. i
    BY <1>1, <1>2, <1>5, <2>1
  <2> QED
    BY <2>1, <2>2 DEF Above
<1>6. ASSUME NEW g \in Above(h)
      PROVE  g \in Above(i) /\ g <= h
  <2>1. /\ g \in 1 .. h /\ IsHeading(g)
        /\ \A k \in g + 1 .. h : IsHeading(k) => doc[k].level > doc[g].level
    BY DEF Above
  <2>2. g \in 1 .. i /\ g <= h /\ g \in Nat
    BY <1>1, <1>2, <2>1
  <2>3. doc[g].level <= doc[h].level
    <3>1. CASE g = h
      BY <1>2, <1>3, <3>1
    <3>2. CASE g # h
      <4>1. h \in g + 1 .. h
        BY <1>1, <1>2, <2>2, <3>2
      <4> QED
        BY <1>2, <1>3, <2>1, <2>2, <4>1
    <3> QED
      BY <3>1, <3>2
  <2>4. ASSUME NEW k \in g + 1 .. i, IsHeading(k)
        PROVE  doc[k].level > doc[g].level
    <3>0. k \in Nat /\ k \in 1 .. i
      BY <1>1, <2>2
    <3>1. CASE k <= h
      <4>1. k \in g + 1 .. h
        BY <1>1, <1>2, <2>2, <3>1
      <4> QED
        BY <2>1, <2>4, <4>1
    <3>2. CASE ~(k <= h)
      <4>1. k \in h + 1 .. i
        BY <1>1, <1>2, <2>2, <3>0, <3>2
      <4>2. doc[k].level > doc[h].level
        BY <1>2, <2>4, <4>1
      <4> QED
        BY <1>2, <1>3, <2>2, <2>3, <3>0, <4>2
    <3> QED
      BY <3>1, <3>2
  <2> QED
    BY <2>1, <2>2, <2>4 DEF Above
<1>7. h \in 1 .. Len(doc)
  BY <1>2, <1>3
<1>8. Above(h) = {g \in Above(i) : g <= h}
  BY <1>5, <1>6
<1> QED
  BY <1>2, <1>4, <1>7, <1>8

\* The headings above a line are as many as the outline has titles.
LEMMA AboveFinite ==
  ASSUME TypeInv, NEW i \in 0 .. Len(doc)
  PROVE  IsFiniteSet(Above(i)) /\ Cardinality(Above(i)) \in Nat
<1>1. i \in Nat /\ IsFiniteSet(1 .. i)
  BY FS_Interval DEF TypeInv
<1>2. Above(i) \in SUBSET (1 .. i)
  BY DEF Above
<1> QED
  BY <1>1, <1>2, FS_Subset, FS_CardinalityType

\* If no level is skipped, the headings above a line have the levels 1, 2, 3 ...
\* and the outline holds their titles in that order.
LEMMA OutlineIs ==
  ASSUME TypeInv, NoLevelSkipped, NEW i \in 0 .. Len(doc)
  PROVE  LET c == Cardinality(Above(i)) IN
         /\ c \in Nat
         /\ Outline(i) \in Seq(Titles) /\ Len(Outline(i)) = c /\ DOMAIN Outline(i) = 1 .. c
         /\ \A h \in Above(i) : /\ doc[h].level \in 1 .. c
                                /\ Outline(i)[doc[h].level] = doc[h].title
         /\ \A m \in 1 .. c : \E h \in Above(i) : doc[h].level = m
<1> DEFINE S == Above(i)
           c == Cardinality(S)
           rank(h) == Cardinality({g \in S : g <= h})
           f == [h \in S |-> doc[h].level]
<1>1. IsFiniteSet(S) /\ c \in Nat
  BY AboveFinite
<1>2. \A h \in S : h \in 1 .. Len(doc) /\ h \in Nat /\ IsHeading(h)
                   /\ doc[h].level \in Nat \ {0} /\ doc[h].title \in Titles
  BY AboveOfAbove, LineType
<1>3. \A h \in S : rank(h) = doc[h].level
  <2>1. \A h \in S : Above(h) = {g \in S : g <= h} /\ h \in DOMAIN doc /\ IsHeading(h)
    BY AboveOfAbove, LineType
  <2> QED
    BY <2>1 DEF NoLevelSkipped
<1>4. \A g, h \in S : g < h => doc[g].level < doc[h].level
  BY AboveOfAbove
<1> HIDE DEF S
<1>5. \A h \in S : rank(h) <= c
  <2> TAKE h \in S
  <2>1. {g \in S : g <= h} \in SUBSET S
    OBVIOUS
  <2> QED
    BY <1>1, <2>1, FS_Subset
<1> HIDE DEF rank
<1>6. \A h \in S : doc[h].level \in 1 .. c
  BY <1>1, <1>2, <1>3, <1>5
<1>7. \A g, h \in S : doc[g].level = doc[h].level => g = h
  BY <1>2, <1>4
<1>8. f \in Injection(S, 1 .. c)
  BY <1>6, <1>7 DEF Injection, IsInjective
<1>9. f \in Surjection(S, 1 .. c)
  <2>1. IsFiniteSet(1 .. c) /\ Cardinality(1 .. c) = c
    BY <1>1, FS_Interval
  <2> HIDE DEF f
  <2> QED
    BY <1>8, <2>1, FS_Injection
<1>10. \A m \in 1 .. c : \E h \in S : doc[h].level = m
  BY <1>9 DEF Surjection
<1>11. \A h \in S : Nth(S, doc[h].level) = h
  <2> TAKE h \in S
  <2>1. h \in S /\ rank(h) = doc[h].level
    BY <1>3
  <2>2. \A g \in S : rank(g) = doc[h].level => g = h
    BY <1>3, <1>7
  <2>3. Nth(S, doc[h].level) = CHOOSE g \in S : rank(g) = doc[h].level
    BY DEF Nth, rank
  <2> QED
    BY <2>1, <2>2, <2>3
<1>12. Outline(i) = [n \in 1 .. c |-> doc[Nth(S, n)].title]
  BY DEF Outline, S
<1> HIDE DEF c
<1>13. \A n \in 1 .. c : doc[Nth(S, n)].title \in Titles
  BY <1>2, <1>10, <1>11
<1>14. Outline(i) \in [1 .. c -> Titles]
  BY <1>12, <1>13
<1>15. Outline(i) \in Seq(Titles) /\ Len(Outline(i)) = c /\ DOMAIN Outline(i) = 1 .. c
  BY <1>1, <1>14
<1>16. \A h \in S : Outline(i)[doc[h].level] = doc[h].title
  BY <1>6, <1>11, <1>12
<1> QED
  BY <1>1, <1>6, <1>10, <1>15, <1>16 DEF S, c

\* A line of content stands where the line before it does.
LEMMA OutlineOfContent ==
  ASSUME TypeInv, NEW n \in 1 .. Len(doc), n \in Content
  PROVE  Outline(n) = Outline(n - 1)
<1>1. n \in Nat \ {0} /\ ~IsHeading(n)
  BY LineType DEF Content
<1>2. \A h : h \in 1 .. n /\ IsHeading(h) <=> h \in 1 .. n - 1 /\ IsHeading(h)
  BY <1>1
<1>3. \A h \in 1 .. n - 1 :
        (\A k \in h + 1 .. n : IsHeading(k) => doc[k].level > doc[h].level)
          <=> (\A k \in h + 1 .. n - 1 : IsHeading(k) => doc[k].level > doc[h].level)
  <2>1. \A h \in 1 .. n - 1 : \A k : k \in h + 1 .. n <=> k \in h + 1 .. n - 1 \/ k = n
    BY <1>1
  <2> QED
    BY <1>1, <2>1
<1>4. Above(n) = Above(n - 1)
  BY <1>2, <1>3 DEF Above
<1> QED
  BY <1>4 DEF Outline

\* A heading keeps those above the line before it that are higher.
LEMMA AboveHeading ==
  ASSUME TypeInv, NEW n \in 1 .. Len(doc), IsHeading(n)
  PROVE  /\ n \in Above(n)
         /\ \A h \in Above(n) : h = n \/ h \in Above(n - 1)
<1>1. n \in Nat \ {0}
  BY LineType
<1>2. n \in Above(n)
  <2>1. n \in 1 .. n /\ n + 1 .. n = {}
    BY <1>1
  <2> QED
    BY <2>1 DEF Above
<1>3. ASSUME NEW h \in Above(n), h # n
      PROVE  h \in Above(n - 1)
  <2>1. /\ h \in 1 .. n /\ IsHeading(h)
        /\ \A k \in h + 1 .. n : IsHeading(k) => doc[k].level > doc[h].level
    BY DEF Above
  <2>2. h \in 1 .. n - 1 /\ \A k \in h + 1 .. n - 1 : k \in h + 1 .. n
    BY <1>1, <1>3, <2>1
  <2> QED
    BY <2>1, <2>2 DEF Above
<1> QED
  BY <1>2, <1>3

\* Popping to the parent level and pushing the title makes the outline of the
\* line before a heading that of the heading.
LEMMA OutlineOfHeading ==
  ASSUME TypeInv, NoLevelSkipped, NEW n \in 1 .. Len(doc), IsHeading(n),
         stack = Outline(n - 1)
  PROVE  PushHeading(doc[n]) = Outline(n)
<1> DEFINE l == doc[n].level
           c == Cardinality(Above(n - 1))
           o == Outline(n - 1)
           p == Outline(n)
<1>1. n \in Nat \ {0} /\ n - 1 \in 0 .. Len(doc) /\ n \in 0 .. Len(doc) /\ l \in Nat \ {0}
      /\ doc[n].title \in Titles /\ n \in DOMAIN doc
  BY LineType
<1>2. Cardinality(Above(n)) = l
  BY <1>1 DEF NoLevelSkipped
<1>3. /\ p \in Seq(Titles) /\ Len(p) = l /\ DOMAIN p = 1 .. l
      /\ \A h \in Above(n) : p[doc[h].level] = doc[h].title
      /\ \A m \in 1 .. l : \E h \in Above(n) : doc[h].level = m
  BY <1>1, <1>2, OutlineIs
<1>4. /\ c \in Nat /\ o \in Seq(Titles) /\ Len(o) = c
      /\ \A h \in Above(n - 1) : doc[h].level \in 1 .. c /\ o[doc[h].level] = doc[h].title
  BY <1>1, OutlineIs
<1>5. n \in Above(n) /\ \A h \in Above(n) : h = n \/ h \in Above(n - 1)
  BY AboveHeading
<1> HIDE DEF c, o, p
<1>6. \A m \in 1 .. l - 1 : m \in 1 .. c /\ o[m] = p[m]
  <2> TAKE m \in 1 .. l - 1
  <2>1. m \in 1 .. l /\ m # l
    BY <1>1
  <2>2. PICK h \in Above(n) : doc[h].level = m
    BY <1>3, <2>1
  <2>3. h \in Above(n - 1)
    BY <1>5, <2>1, <2>2
  <2> QED
    BY <1>3, <1>4, <2>2, <2>3
<1>7. p[l] = doc[n].title
  BY <1>3, <1>5
<1> HIDE DEF l
<1>8. l - 1 \in Nat /\ l - 1 <= c /\ Least(c, l - 1) = l - 1
  <2>1. l - 1 \in Nat
    BY <1>1
  <2>2. l - 1 <= c
    <3>1. CASE l = 1
      BY <1>4, <3>1
    <3>2. CASE l # 1
      <4>1. l - 1 \in 1 .. l - 1
        BY <1>1, <3>2
      <4> QED
        BY <1>4, <1>6, <4>1
    <3> QED
      BY <3>1, <3>2
  <2> QED
    BY <1>4, <2>1, <2>2 DEF Least
<1> DEFINE q == SubSeq(o, 1, l - 1)
           r == Append(q, doc[n].title)
<1>9. /\ q \in Seq(Titles) /\ Len(q) = l - 1
      /\ \A m \in 1 .. l - 1 : q[m] = o[m]
  <2> DEFINE d == l - 1
  <2>1. d \in Nat /\ d <= Len(o)
    BY <1>4, <1>8
  <2> HIDE DEF d
  <2>2. /\ SubSeq(o, 1, d) \in Seq(Titles) /\ Len(SubSeq(o, 1, d)) = d
        /\ \A m \in 1 .. d : SubSeq(o, 1, d)[m] = o[m]
    BY <1>4, <2>1
  <2> QED
    BY <2>2 DEF d
<1> HIDE DEF q
<1>10. /\ r \in Seq(Titles) /\ Len(r) = l
       /\ \A m \in 1 .. l - 1 : r[m] = q[m]
       /\ r[l] = doc[n].title
  <2>1. Len(r) = Len(q) + 1 /\ r[Len(q) + 1] = doc[n].title /\ r \in Seq(Titles)
        /\ \A m \in 1 .. Len(q) : r[m] = q[m]
    BY <1>1, <1>9
  <2>2. (l - 1) + 1 = l
    BY <1>1
  <2> HIDE DEF r
  <2> QED
    BY <1>9, <2>1, <2>2
<1> HIDE DEF r
<1>11. \A m \in 1 .. l : r[m] = p[m]
  <2>1. \A m \in 1 .. l : m \in 1 .. l - 1 \/ m = l
    BY <1>1
  <2> QED
    BY <1>6, <1>7, <1>9, <1>10, <2>1
<1>12. r = p
  BY <1>1, <1>3, <1>10, <1>11
<1>13. PushHeading(doc[n]) = r
  <2>1. stack = o /\ Len(stack) = c /\ doc[n].level = l
    BY <1>4 DEF o, l
  <2> QED
    BY <1>8, <2>1 DEF PushHeading, r, q
<1> QED
  BY <1>12, <1>13 DEF p

\* A join of two texts under the same headings.
LEMMA UnderJoin ==
  ASSUME NEW a \in Texts, Sound(a), NEW b \in Texts, NEW sep \in Nat, NEW h,
         Under(h, a), Under(h, b)
  PROVE  Under(h, Join(a, sep, b))
<1> DEFINE t == Join(a, sep, b)
           m == Len(a.pieces)
<1>1. /\ \A k \in Places(a) : t.pieces[k] = a.pieces[k]
      /\ \A k \in Places(b) : t.pieces[m + k] = b.pieces[k]
      /\ \A k \in Places(t) : k \in Places(a) \/ k - m \in Places(b)
      /\ t \in Texts
  BY JoinIs
<1>2. m \in Nat /\ Len(t.pieces) \in Nat
  BY <1>1, TextType
<1> HIDE DEF t, m
<1>3. ASSUME NEW k \in Places(t)
      PROVE  Outline(t.pieces[k].line) = h
  <2>1. CASE k \in Places(a)
    BY <1>1, <2>1 DEF Under
  <2>2. CASE k - m \in Places(b)
    <3>1. m + (k - m) = k
      BY <1>2 DEF Places
    <3>2. t.pieces[k] = b.pieces[k - m]
      BY <1>1, <2>2, <3>1
    <3> QED
      BY <2>2, <3>2 DEF Under
  <2> QED
    BY <1>1, <2>1, <2>2
<1> QED
  BY <1>3 DEF Under, t

\* A chunk more, under its own headings.
LEMMA UnderAppend ==
  ASSUME NEW cs \in Seq(Chunks), NEW h \in Paths, NEW t \in Texts, Under(h, t), AllUnder(cs)
  PROVE  AllUnder(Append(cs, Chunk(h, t)))
<1> DEFINE k == Chunk(h, t)
<1>1. k \in Chunks /\ k.text = t /\ k.heading = h
  BY ChunkType
<1> HIDE DEF k
<1>2. /\ Len(Append(cs, k)) = Len(cs) + 1 /\ Append(cs, k)[Len(cs) + 1] = k /\ Len(cs) \in Nat
      /\ \A c \in 1 .. Len(cs) : Append(cs, k)[c] = cs[c]
  BY <1>1
<1>3. \A c \in 1 .. Len(cs) + 1 : c \in 1 .. Len(cs) \/ c = Len(cs) + 1
  BY <1>2
<1> QED
  BY <1>1, <1>2, <1>3 DEF AllUnder, k

\* flush leaves the headings of pending with its text.
LEMMA FlushedUnder ==
  ASSUME TypeInv, AllUnder(chunks), Under(pendingHeading, pending)
  PROVE  AllUnder(Flushed)
  BY UnderAppend DEF Flushed, TypeInv

\* A text without pieces is under any heading.
LEMMA UnderEmpty == \A h : Under(h, Empty)
  BY EmptyText DEF Under

\* The lines of a section have its outline, if its text does.
LEMMA SentenceUnder ==
  ASSUME TypeInv, ContentInv, AtSentence, Under(Section.path, Section.text)
  PROVE  /\ Under(Section.path, Sentence)
         /\ Outline(Sentences[sentence].line) = Section.path
<1> DEFINE i == Sentences[sentence].line
<1>1. sentence \in Places(Section.text) /\ i \in 1 .. Len(doc)
  BY SentenceIs
<1>2. Outline(i) = Section.path
  BY <1>1 DEF Under, Sentences
<1>3. Sentence = Whole(i)
  BY DEF Sentence
<1> HIDE DEF i
<1>4. Places(Whole(i)) = {1} /\ Whole(i).pieces[1] = [line |-> i, from |-> 1, to |-> doc[i].len]
  BY <1>1, WholeIs
<1> QED
  BY <1>2, <1>3, <1>4 DEF Under, i

\* The pieces of a line carry the outline of the line.
LEMMA HardSplitUnder ==
  ASSUME NEW cs \in Seq(Chunks), AllUnder(cs),
         NEW i \in Nat, doc[i].len \in Nat \ {0}, Section.path \in Paths,
         Outline(i) = Section.path
  PROVE  AllUnder(cs \o HardParts(i))
<1> DEFINE hs == HardParts(i)
<1>1. /\ hs \in Seq(Chunks)
      /\ \A k \in 1 .. Len(hs) : /\ hs[k].heading = Section.path
                                 /\ Len(hs[k].text.pieces) = 1
                                 /\ hs[k].text.pieces[1].line = i
  BY HardPartsAre
<1> HIDE DEF hs
<1>2. \A k \in 1 .. Len(hs) : Under(hs[k].heading, hs[k].text)
  <2>1. 1 .. 1 = {1}
    OBVIOUS
  <2>2. \A k \in 1 .. Len(hs) : Places(hs[k].text) = {1}
    BY <1>1, <2>1 DEF Places
  <2> QED
    BY <1>1, <2>2 DEF Under
<1>3. PICK ds : ds = cs \o hs
  OBVIOUS
<1>4. /\ Len(cs) \in Nat /\ \A c \in 1 .. Len(cs) : ds[c] = cs[c]
      /\ \A k \in 1 .. Len(hs) : ds[Len(cs) + k] = hs[k]
      /\ \A c \in 1 .. Len(ds) : c \in 1 .. Len(cs) \/ c - Len(cs) \in 1 .. Len(hs)
      /\ Len(ds) \in Nat
  BY <1>1, <1>3, ConcatIs
<1>5. ASSUME NEW c \in 1 .. Len(ds)
      PROVE  Under(ds[c].heading, ds[c].text)
  <2>1. CASE c \in 1 .. Len(cs)
    BY <1>4, <2>1 DEF AllUnder
  <2>2. CASE c - Len(cs) \in 1 .. Len(hs)
    <3>1. Len(cs) + (c - Len(cs)) = c
      BY <1>4
    <3>2. ds[c] = hs[c - Len(cs)]
      BY <1>4, <2>2, <3>1
    <3> QED
      BY <1>2, <2>2, <3>2
  <2> QED
    BY <1>4, <2>1, <2>2
<1> QED
  BY <1>3, <1>5 DEF AllUnder, hs

\* A scrap is folded into a chunk under the same heading.
LEMMA FoldUnder ==
  ASSUME NEW cs \in Seq(Chunks), NEW L, Reads(cs, Empty, L), AllUnder(cs)
  PROVE  AllUnder(FoldScrap(cs))
<1> DEFINE n == Len(cs)
           rest == SubSeq(cs, 1, n - 2)
           t == Join(cs[n - 1].text, 2, cs[n].text)
<1>1. SUFFICES ASSUME n > 1, cs[n].heading = cs[n - 1].heading,
                      FoldScrap(cs) = Append(rest, Chunk(cs[n].heading, t))
               PROVE  AllUnder(FoldScrap(cs))
  BY DEF FoldScrap
<1>2. n \in Nat /\ n \in 1 .. n /\ n - 1 \in 1 .. n /\ n - 2 \in Nat
  BY <1>1
<1>3. rest \in Seq(Chunks) /\ AllUnder(rest)
  <2> DEFINE m == n - 2
  <2>1. m \in Nat /\ m <= Len(cs)
    BY <1>2
  <2> HIDE DEF m
  <2>2. /\ SubSeq(cs, 1, m) \in Seq(Chunks) /\ Len(SubSeq(cs, 1, m)) = m
        /\ \A c \in 1 .. m : SubSeq(cs, 1, m)[c] = cs[c] /\ c \in 1 .. n
    BY <2>1
  <2> QED
    BY <2>2 DEF AllUnder, m
<1>4. /\ cs[n].text \in Texts /\ cs[n - 1].text \in Texts /\ cs[n].heading \in Paths
      /\ Sound(cs[n - 1].text)
      /\ Under(cs[n].heading, cs[n].text) /\ Under(cs[n].heading, cs[n - 1].text)
  BY <1>1, <1>2, ChunkType DEF Reads, InOrder, AllUnder
<1>5. t \in Texts /\ Under(cs[n].heading, t)
  BY <1>4, UnderJoin, JoinIs, 2 \in Nat
<1> HIDE DEF rest, t
<1> QED
  BY <1>1, <1>3, <1>4, <1>5, UnderAppend

\* Only the document tells the outline.
LEMMA SameOutline ==
  ASSUME doc' = doc
  PROVE  /\ \A i : Outline(i)' = Outline(i)
         /\ NoLevelSkipped' <=> NoLevelSkipped
<1>1. \A i : IsHeading(i)' <=> IsHeading(i)
  BY SameDoc DEF IsHeading
<1>2. \A i : Above(i)' = Above(i)
  BY <1>1 DEF Above
<1>3. \A i : Outline(i)' = Outline(i)
  BY <1>2 DEF Outline
<1>4. NoLevelSkipped' <=> NoLevelSkipped
  BY <1>1, <1>2 DEF NoLevelSkipped
<1> QED
  BY <1>3, <1>4

\* The invariant after a step, in terms of the outline before it.
LEMMA OutlineKept ==
  ASSUME doc' = doc,
         NoLevelSkipped =>
           /\ pc' = "split" => /\ stack' = Outline(next' - 1) /\ current'.path = stack'
                               /\ Under(current'.path, current'.text)
           /\ \A s \in 1 .. Len(sections') : Under(sections'[s].path, sections'[s].text)
           /\ AllUnder(chunks') /\ Under(pendingHeading', pending')
           /\ pc' = "sentences" => Under(sections'[next'].path, buf')
  PROVE  OutlineInv'
<1>1. NoLevelSkipped' <=> NoLevelSkipped
  BY SameOutline
<1>2. \A h, t : Under(h, t)' <=> Under(h, t)
  BY SameOutline DEF Under
<1>3. \A cs : AllUnder(cs)' <=> AllUnder(cs)
  BY <1>2 DEF AllUnder
<1>4. \A i : Outline(i)' = Outline(i)
  BY SameOutline
<1> QED
  BY <1>1, <1>2, <1>3, <1>4 DEF OutlineInv, Section

LEMMA OutlineInit == Init => OutlineInv
<1> SUFFICES ASSUME Init PROVE OutlineInv
  OBVIOUS
<1>1. /\ pc = "split" /\ next = 1 /\ stack = <<>> /\ current = [path |-> <<>>, text |-> Empty]
      /\ sections = <<>> /\ chunks = <<>> /\ pending = Empty
  BY DEF Init
<1>2. Outline(0) = <<>>
  <2>1. Above(0) = {}
    <3>1. 1 .. 0 = {}
      OBVIOUS
    <3> QED
      BY <3>1 DEF Above
  <2>2. Cardinality(Above(0)) = 0
    BY <2>1, FS_EmptySet
  <2>3. DOMAIN Outline(0) = {}
    <3>1. DOMAIN Outline(0) = 1 .. 0
      BY <2>2 DEF Outline
    <3> QED
      BY <3>1
  <2>4. Outline(0) = [n \in 1 .. Cardinality(Above(0)) |-> doc[Nth(Above(0), n)].title]
    BY DEF Outline
  <2>5. Outline(0) \in [1 .. 0 -> Titles]
    BY <2>2, <2>3, <2>4
  <2>6. Outline(0) \in Seq(Titles) /\ Len(Outline(0)) = 0
    BY <2>5
  <2> QED
    BY <2>6
<1>3. Len(sections) = 0 /\ Len(chunks) = 0 /\ 1 .. 0 = {} /\ next - 1 = 0
  BY <1>1
<1>4. current.path = <<>> /\ current.text = Empty
  BY <1>1
<1> QED
  BY <1>1, <1>2, <1>3, <1>4, UnderEmpty DEF OutlineInv, AllUnder

\* The line that was read stands under the stack.
LEMMA OutlineOfLine ==
  ASSUME TypeInv, ContentInv, NoLevelSkipped, OutlineInv, Fence \/ Prose
  PROVE  /\ stack' = Outline(next' - 1) /\ current'.path = stack'
         /\ Under(current'.path, current'.text)
<1>1. /\ pc = "split" /\ next <= Len(doc) /\ next' = next + 1 /\ stack' = stack
      /\ current' = Extended /\ ~(doc[next].kind = "heading" /\ ~inFence)
  BY DEF Fence, Prose, Reading
<1>2. next \in 1 .. Len(doc) /\ next \in Content /\ next \in Nat
  BY <1>1, ReadingLine DEF ContentInv, TypeInv
<1>3. stack = Outline(next - 1) /\ current.path = stack /\ Under(current.path, current.text)
  BY <1>1 DEF OutlineInv
<1>4. Outline(next) = stack /\ next' - 1 = next
  BY <1>1, <1>2, <1>3, OutlineOfContent
<1>5. /\ Whole(next) \in Texts /\ Places(Whole(next)) = {1}
      /\ Whole(next).pieces[1] = [line |-> next, from |-> 1, to |-> doc[next].len]
  BY <1>2, WholeIs
<1>6. Under(current.path, Whole(next))
  BY <1>3, <1>4, <1>5 DEF Under
<1>7. current.text \in Texts /\ Sound(current.text)
  BY <1>1, SectionType DEF ContentInv, SplitInv, WholeLines
<1>8. Under(current.path, Join(current.text, 1, Whole(next)))
  BY <1>3, <1>5, <1>6, <1>7, UnderJoin, 1 \in Nat
<1>9. current'.path = current.path /\ current'.text = Join(current.text, 1, Whole(next))
  <2>1. current' = [current EXCEPT !.text = Join(current.text, 1, Whole(next))]
    BY <1>1 DEF Extended
  <2> QED
    BY <2>1 DEF TypeInv, Sections
<1> QED
  BY <1>1, <1>3, <1>4, <1>8, <1>9

\* The closed section is under its path.
LEMMA ClosedUnder ==
  ASSUME TypeInv, Under(current.path, current.text),
         \A s \in 1 .. Len(sections) : Under(sections[s].path, sections[s].text)
  PROVE  \A s \in 1 .. Len(Closed) : Under(Closed[s].path, Closed[s].text)
<1>1. sections \in Seq(Sections) /\ current \in Sections
  BY DEF TypeInv
<1>2. PICK ss : ss = Append(sections, current)
  OBVIOUS
<1>3. /\ Len(ss) = Len(sections) + 1 /\ ss[Len(sections) + 1] = current
      /\ Len(sections) \in Nat /\ \A s \in 1 .. Len(sections) : ss[s] = sections[s]
  BY <1>1, <1>2
<1>4. \A s \in 1 .. Len(sections) + 1 : s \in 1 .. Len(sections) \/ s = Len(sections) + 1
  BY <1>3
<1>5. \A s \in 1 .. Len(ss) : Under(ss[s].path, ss[s].text)
  BY <1>3, <1>4
<1> QED
  BY <1>2, <1>5 DEF Closed

LEMMA OutlineStep ==
  ASSUME TypeInv, ContentInv, OutlineInv, [Next]_vars
  PROVE  OutlineInv'
<1>1. doc' = doc
  BY DEF Next, Fence, Prose, Heading, EndOfLines, Pack, Oversized, Finish, Grow, Cut, HardSplit,
         EndOfSection, vars
<1> SUFFICES ASSUME NoLevelSkipped
             PROVE  /\ pc' = "split" => /\ stack' = Outline(next' - 1) /\ current'.path = stack'
                                        /\ Under(current'.path, current'.text)
                    /\ \A s \in 1 .. Len(sections') : Under(sections'[s].path, sections'[s].text)
                    /\ AllUnder(chunks') /\ Under(pendingHeading', pending')
                    /\ pc' = "sentences" => Under(sections'[next'].path, buf')
  BY <1>1, OutlineKept
<1>2. /\ pc = "split" => /\ stack = Outline(next - 1) /\ current.path = stack
                         /\ Under(current.path, current.text)
      /\ \A s \in 1 .. Len(sections) : Under(sections[s].path, sections[s].text)
      /\ AllUnder(chunks) /\ Under(pendingHeading, pending)
      /\ pc = "sentences" => Under(sections[next].path, buf)
  BY DEF OutlineInv, Section
<1>3. CASE Fence \/ Prose
  <2>1. /\ pc' = "split" /\ sections' = sections /\ chunks' = chunks
        /\ pending' = pending /\ pendingHeading' = pendingHeading
    BY <1>3 DEF Fence, Prose, Reading, packVars
  <2>2. /\ stack' = Outline(next' - 1) /\ current'.path = stack'
        /\ Under(current'.path, current'.text)
    BY <1>3, OutlineOfLine
  <2> QED
    BY <1>2, <2>1, <2>2
<1>4. CASE Heading
  <2>1. /\ pc = "split" /\ pc' = "split" /\ next <= Len(doc)
        /\ doc[next].kind = "heading" /\ ~inFence
        /\ sections' = Closed /\ stack' = PushHeading(doc[next])
        /\ current' = [path |-> stack', text |-> Empty] /\ next' = next + 1
        /\ chunks' = chunks /\ pending' = pending /\ pendingHeading' = pendingHeading
    BY <1>4 DEF Heading, Reading, packVars
  <2>2. next \in 1 .. Len(doc) /\ IsHeading(next) /\ next' - 1 = next
    <3>1. next \in 1 .. Len(doc) /\ next \notin Content /\ next \in Nat
      BY <2>1, ReadingLine DEF ContentInv, TypeInv
    <3>2. next \in DOMAIN doc
      BY <3>1, LineType
    <3> QED
      BY <2>1, <3>1, <3>2 DEF Content
  <2>3. stack' = Outline(next' - 1)
    BY <1>2, <2>1, <2>2, OutlineOfHeading
  <2>4. current'.path = stack' /\ Under(current'.path, current'.text)
    BY <2>1, UnderEmpty
  <2>5. \A s \in 1 .. Len(sections') : Under(sections'[s].path, sections'[s].text)
    BY <1>2, <2>1, ClosedUnder
  <2> QED
    BY <1>2, <2>1, <2>3, <2>4, <2>5
<1>5. CASE EndOfLines
  <2>1. /\ pc = "split" /\ pc' = "pack" /\ sections' = Closed
        /\ chunks' = chunks /\ pending' = pending /\ pendingHeading' = pendingHeading
    BY <1>5 DEF EndOfLines, packVars
  <2>2. \A s \in 1 .. Len(sections') : Under(sections'[s].path, sections'[s].text)
    BY <1>2, <2>1, ClosedUnder
  <2> QED
    BY <1>2, <2>1, <2>2
<1>6. CASE Pack
  <2> DEFINE s == sections[next]
  <2>1. /\ pc = "pack" /\ pc' = "pack" /\ next <= Len(sections) /\ sections' = sections
        /\ IF MustFlush(s)
             THEN chunks' = Flushed /\ pending' = s.text
             ELSE pending' = Join(pending, 2, s.text) /\ chunks' = chunks
        /\ pendingHeading' = s.path
    BY <1>6 DEF Pack, splitVars
  <2>2. next \in 1 .. Len(sections)
    BY <2>1 DEF TypeInv
  <2>3. s.text \in Texts /\ pending \in Texts /\ Sound(pending) /\ Under(s.path, s.text)
    BY <1>2, <2>1, <2>2, SectionType DEF TypeInv, ContentInv, PackInv, Reads, InOrder
  <2> HIDE DEF s
  <2>4. CASE MustFlush(s)
    <3>1. AllUnder(Flushed)
      BY <1>2, FlushedUnder
    <3> QED
      BY <1>2, <2>1, <2>3, <2>4, <3>1
  <2>5. CASE ~MustFlush(s)
    <3>1. Under(s.path, pending)
      <4>1. CASE pending.len = 0
        BY <2>3, <4>1 DEF Sound, Under, Places
      <4>2. CASE pending.len # 0
        <5>1. pending.len > 0
          BY <2>3, <4>2, TextType
        <5>2. s.path = pendingHeading
          BY <2>5, <5>1 DEF MustFlush
        <5> QED
          BY <1>2, <5>2
      <4> QED
        BY <4>1, <4>2
    <3>2. Under(s.path, Join(pending, 2, s.text))
      BY <2>3, <3>1, UnderJoin, 2 \in Nat
    <3> QED
      BY <1>2, <2>1, <2>5, <3>2
  <2> QED
    BY <2>4, <2>5
<1>7. CASE Oversized
  <2>1. /\ pc' = "sentences" /\ chunks' = Flushed /\ pending' = Empty /\ buf' = Empty
        /\ sections' = sections
    BY <1>7 DEF Oversized, splitVars
  <2> QED
    BY <1>2, <2>1, FlushedUnder, UnderEmpty
<1>8. CASE Grow \/ Cut \/ HardSplit
  <2>1. /\ AtSentence /\ pc = "sentences" /\ pc' = pc /\ sections' = sections /\ next' = next
        /\ pending' = pending /\ pendingHeading' = pendingHeading
    BY <1>8 DEF Grow, Cut, HardSplit, AtSentence, packVars, splitVars
  <2> DEFINE i == Sentences[sentence].line
  <2>2. /\ next \in 1 .. Len(sections) /\ i \in Nat /\ doc[i].len \in Nat \ {0}
        /\ Section.path \in Paths /\ Sentence \in Texts
        /\ chunks \in Seq(Chunks) /\ buf \in Texts /\ Sound(buf)
    BY <2>1, SentenceIs DEF Reads, InOrder
  <2>3. Under(Section.path, Section.text) /\ Under(Section.path, buf)
    BY <1>2, <2>1, <2>2 DEF Section
  <2>4. Under(Section.path, Sentence) /\ Outline(i) = Section.path
    BY <2>1, <2>3, SentenceUnder
  <2> HIDE DEF i
  <2>5. AllUnder(chunks') /\ Under(Section.path, buf')
    <3>1. CASE Grow
      <4>1. buf' = Join(buf, 1, Sentence) /\ chunks' = chunks
        BY <3>1 DEF Grow, packVars
      <4>2. Under(Section.path, Join(buf, 1, Sentence))
        BY <2>2, <2>3, <2>4, UnderJoin, 1 \in Nat
      <4> QED
        BY <1>2, <4>1, <4>2
    <3>2. CASE Cut
      <4>1. chunks' = Append(chunks, Chunk(Section.path, buf)) /\ buf'.pieces = Sentence.pieces
        BY <2>2, <3>2 DEF Cut, Texts
      <4>2. Under(Section.path, buf')
        BY <2>4, <4>1 DEF Under, Places
      <4> QED
        BY <1>2, <2>2, <2>3, <4>1, <4>2, UnderAppend
    <3>3. CASE HardSplit
      <4>1. chunks' = chunks \o HardParts(i) /\ buf' = buf
        BY <3>3 DEF HardSplit, i
      <4> QED
        BY <1>2, <2>2, <2>3, <2>4, <4>1, HardSplitUnder
    <3> QED
      BY <1>8, <3>1, <3>2, <3>3
  <2> QED
    BY <1>2, <2>1, <2>5 DEF Section
<1>9. CASE EndOfSection
  <2>1. /\ pc = "sentences" /\ pc' = "pack" /\ pending' = pending /\ sections' = sections
        /\ chunks' = IF buf.len > 0 THEN Append(chunks, Chunk(Section.path, buf)) ELSE chunks
    BY <1>9 DEF EndOfSection, splitVars
  <2>2. next \in 1 .. Len(sections) /\ pending = Empty
    BY <2>1 DEF TypeInv, ContentInv, PackInv
  <2>3. Section.path \in Paths /\ Under(Section.path, buf)
    BY <1>2, <2>1, <2>2, SectionType DEF Section
  <2>4. AllUnder(Append(chunks, Chunk(Section.path, buf)))
    BY <1>2, <2>3, UnderAppend DEF TypeInv
  <2> QED
    BY <1>2, <2>1, <2>2, <2>4, UnderEmpty
<1>10. CASE Finish
  <2>1. /\ pc = "pack" /\ pc' = "done" /\ chunks' = FoldScrap(Flushed) /\ pending' = Empty
        /\ sections' = sections
    BY <1>10 DEF Finish, splitVars
  <2>2. Flushed \in Seq(Chunks) /\ Reads(Flushed, Empty, LinesBefore(next - 1))
    BY <2>1, FlushIs DEF Flushed, TypeInv, ContentInv, PackInv
  <2>3. AllUnder(FoldScrap(Flushed))
    BY <1>2, <2>2, FlushedUnder, FoldUnder
  <2> QED
    BY <1>2, <2>1, <2>3, UnderEmpty
<1>11. CASE UNCHANGED vars
  <2>1. UNCHANGED <<pc, next, stack, current, sections, pending, pendingHeading, chunks, buf>>
    BY <1>11 DEF vars, splitVars, packVars
  <2> QED
    BY <1>2, <2>1
<1> QED
  BY <1>3, <1>4, <1>5, <1>6, <1>7, <1>8, <1>9, <1>10, <1>11 DEF Next

\* For every document that skips no heading level, and all budgets, a chunk
\* carries the outline of every line in it.
THEOREM HeadingsAreTheirs == Spec => []OneSubject
<1>1. Init => TypeInv /\ ContentInv /\ OutlineInv
  BY ContentInit, OutlineInit
<1>2. (TypeInv /\ ContentInv /\ OutlineInv) /\ [Next]_vars
        => (TypeInv /\ ContentInv /\ OutlineInv)'
  BY ContentStep, OutlineStep
<1>3. TypeInv /\ OutlineInv => OneSubject
  <2> SUFFICES ASSUME TypeInv, OutlineInv, NoLevelSkipped,
                      NEW c \in DOMAIN chunks, NEW p \in ToSet(chunks[c].text.pieces)
               PROVE  chunks[c].heading = Outline(p.line)
    BY DEF OneSubject
  <2>1. chunks \in Seq(Chunks) /\ c \in 1 .. Len(chunks)
    BY DEF TypeInv
  <2>2. DOMAIN chunks[c].text.pieces = Places(chunks[c].text)
    BY <2>1, ChunkType, TextType DEF Places
  <2>3. PICK k \in Places(chunks[c].text) : p = chunks[c].text.pieces[k]
    BY <2>2 DEF ToSet
  <2> QED
    BY <2>1, <2>3 DEF OutlineInv, AllUnder, Under
<1> QED
  BY <1>1, <1>2, <1>3, PTL DEF Spec

=============================================================================
