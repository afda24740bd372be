-------------------------- MODULE RetrievalProofs --------------------------
(***************************************************************************)
(* Proofs about fusion and reranking for every corpus, every pair of       *)
(* rankings, every reply of the scoring model and every value of the       *)
(* settings.                                                               *)
(***************************************************************************)
EXTENDS Retrieval, FiniteSetTheorems, FunctionTheorems, WellFoundedInduction, TLAPS

-----------------------------------------------------------------------------
(***************************************************************************)
(* OrderedBy.                                                              *)
(***************************************************************************)

\* R puts the members of S in one line.
Orders(R, S) ==
  /\ \A a, b \in S : a # b => <<a, b>> \in R \/ <<b, a>> \in R
  /\ \A a, b \in S : ~(<<a, b>> \in R /\ <<b, a>> \in R)
  /\ \A a, b, c \in S : <<a, b>> \in R /\ <<b, c>> \in R => <<a, c>> \in R

\* s lists the members of S in the order of R.
Lists(s, S, R) ==
  /\ s \in [1 .. Cardinality(S) -> S]
  /\ \A i, j \in 1 .. Cardinality(S) : i < j => <<s[i], s[j]>> \in R

\* A set of natural numbers has a least element.
LEMMA LeastNat ==
  ASSUME NEW T \in SUBSET Nat, T # {}
  PROVE  \E x \in T : \A y \in T : x <= y
<1>1. PICK R : /\ \A x, y \in Nat : <<y, x>> \in R <=> y < x
               /\ IsWellFoundedOn(R, Nat)
  <2> DEFINE less == {ss \in Nat \X Nat : ss[1] < ss[2]}
  <2>1. OpToRel(<, Nat) = less
    BY DEF OpToRel
  <2>2. IsWellFoundedOn(less, Nat)
    BY NatLessThanWellFounded, <2>1, Zenon
  <2>3. \A x, y \in Nat : <<y, x>> \in less <=> y < x
    OBVIOUS
  <2> QED
    BY <2>2, <2>3, Zenon
<1>2. PICK x \in T : \A y \in T : ~ (<<y, x>> \in R)
  BY <1>1, WFMin, Zenon
<1>3. \A y \in T : ~ (y < x)
  BY <1>1, <1>2, Zenon
<1> QED
  BY <1>3

\* A finite set that is not empty has a first member: one with the fewest
\* members ahead of it.
LEMMA FirstExists ==
  ASSUME NEW T, IsFiniteSet(T), T # {}, NEW R, Orders(R, T)
  PROVE  \E x \in T : \A y \in T : y # x => <<x, y>> \in R
<1> DEFINE ahead(x) == {y \in T : <<y, x>> \in R}
           counts == {Cardinality(ahead(x)) : x \in T}
<1>1. \A x \in T : IsFiniteSet(ahead(x)) /\ Cardinality(ahead(x)) \in Nat
  <2> TAKE x \in T
  <2>1. ahead(x) \in SUBSET T
    OBVIOUS
  <2>2. IsFiniteSet(ahead(x))
    BY <2>1, FS_Subset
  <2> QED
    BY <2>2, FS_CardinalityType
<1>2. PICK n \in counts : \A m \in counts : n <= m
  <2>1. counts \in SUBSET Nat
    BY <1>1
  <2>2. counts # {}
    OBVIOUS
  <2> QED
    BY <2>1, <2>2, LeastNat
<1>3. PICK x \in T : Cardinality(ahead(x)) = n
  BY <1>2
<1>4. ASSUME NEW y \in T, y # x, ~(<<x, y>> \in R)
      PROVE  FALSE
  <2>1. <<y, x>> \in R
    BY <1>4 DEF Orders
  <2>2. ahead(y) \in SUBSET ahead(x)
    BY <2>1 DEF Orders
  <2>3. y \in ahead(x) /\ ~(y \in ahead(y))
    BY <2>1 DEF Orders
  <2>4. Cardinality(ahead(y)) <= Cardinality(ahead(x))
        /\ Cardinality(ahead(y)) # Cardinality(ahead(x))
    BY <2>2, <2>3, <1>1, FS_Subset
  <2>5. n <= Cardinality(ahead(y))
    BY <1>2
  <2> QED
    BY <2>4, <2>5, <1>1, <1>3
<1> QED
  BY <1>4

\* Every finite set can be listed: take a smallest part of it that cannot, list
\* that without its first member, and put the first member in front.
LEMMA ListingExists ==
  ASSUME NEW S, IsFiniteSet(S), NEW R, Orders(R, S)
  PROVE  \E s : Lists(s, S, R)
<1> DEFINE Unlisted(T) == ~\E s : Lists(s, T, R)
           sizes == {n \in Nat : \E T \in SUBSET S : Unlisted(T) /\ Cardinality(T) = n}
<1> SUFFICES ASSUME ~\E s : Lists(s, S, R) PROVE FALSE
  OBVIOUS
<1>1. sizes # {}
  <2>1. Unlisted(S) /\ S \in SUBSET S
    OBVIOUS
  <2>2. Cardinality(S) \in Nat
    BY FS_CardinalityType
  <2> QED
    BY <2>1, <2>2
<1>2. PICK n \in sizes : \A m \in sizes : n <= m
  BY <1>1, LeastNat
<1>3. PICK T \in SUBSET S : Unlisted(T) /\ Cardinality(T) = n
  BY <1>2
<1>4. IsFiniteSet(T) /\ Orders(R, T)
  BY FS_Subset DEF Orders
<1>5. T # {}
  <2> SUFFICES ASSUME T = {} PROVE FALSE
    OBVIOUS
  <2>1. Cardinality(T) = 0
    BY FS_EmptySet
  <2>2. Lists([i \in 1 .. Cardinality(T) |-> 0], T, R)
    BY <2>1 DEF Lists
  <2> QED
    BY <1>3, <2>2
<1>6. PICK x \in T : \A y \in T : y # x => <<x, y>> \in R
  BY <1>4, <1>5, FirstExists
<1> DEFINE rest == T \ {x}
<1>7. Cardinality(rest) = n - 1 /\ rest \in SUBSET S /\ n \in Nat
  BY <1>3, <1>2, <1>4, FS_RemoveElement
<1>8. n - 1 \in Nat /\ ~(n - 1 \in sizes)
  <2>1. IsFiniteSet(rest)
    BY <1>4, FS_RemoveElement
  <2> QED
    BY <2>1, <1>7, <1>2, FS_CardinalityType
<1>9. PICK s : Lists(s, rest, R)
  BY <1>7, <1>8
<1> DEFINE t == [i \in 1 .. n |-> IF i = 1 THEN x ELSE s[i - 1]]
<1>10. s \in [1 .. n - 1 -> rest] /\ \A i, j \in 1 .. n - 1 : i < j => <<s[i], s[j]>> \in R
  BY <1>9, <1>7 DEF Lists
<1>11. \A i \in 1 .. n : i # 1 => i - 1 \in 1 .. n - 1
  BY <1>7
<1>12. t \in [1 .. n -> T]
  BY <1>10, <1>11
<1>13. ASSUME NEW i \in 1 .. n, NEW j \in 1 .. n, i < j
       PROVE  <<t[i], t[j]>> \in R
  <2>1. j # 1 /\ t[j] = s[j - 1] /\ s[j - 1] \in rest
    BY <1>13, <1>10, <1>11
  <2>2. CASE i = 1
    BY <2>1, <2>2, <1>6
  <2>3. CASE i # 1
    <3>1. t[i] = s[i - 1]
      BY <2>3
    <3>2. i - 1 \in 1 .. n - 1 /\ j - 1 \in 1 .. n - 1 /\ i - 1 < j - 1
      BY <2>1, <2>3, <1>13, <1>11
    <3> QED
      BY <2>1, <3>1, <3>2, <1>10
  <2> QED
    BY <2>2, <2>3
<1>14. Lists(t, T, R)
  <2> HIDE DEF t
  <2> QED
    BY <1>3, <1>12, <1>13 DEF Lists
<1> QED
  BY <1>3, <1>14

\* What OrderedBy returns is a listing of S, with every member at one place.
LEMMA OrderedByLists ==
  ASSUME NEW S, IsFiniteSet(S), NEW R, Orders(R, S)
  PROVE  /\ Lists(OrderedBy(S, R), S, R)
         /\ \A x \in S : \E i \in 1 .. Cardinality(S) : OrderedBy(S, R)[i] = x
         /\ \A i, j \in 1 .. Cardinality(S) :
              OrderedBy(S, R)[i] = OrderedBy(S, R)[j] => i = j
<1> DEFINE n == Cardinality(S)
           Good(s) == \A i, j \in DOMAIN s : i < j => <<s[i], s[j]>> \in R
           o == OrderedBy(S, R)
<1>0. n \in Nat
  BY FS_CardinalityType
<1>1. \E s \in [1 .. n -> S] : Good(s)
  <2>1. PICK s : Lists(s, S, R)
    BY ListingExists
  <2>2. s \in [1 .. n -> S] /\ DOMAIN s = 1 .. n
    BY <2>1 DEF Lists
  <2>3. Good(s)
    BY <2>1, <2>2 DEF Lists
  <2> QED
    BY <2>2, <2>3
<1>2. o \in [1 .. n -> S] /\ Good(o)
  <2>1. o = CHOOSE s \in [1 .. n -> S] : Good(s)
    BY DEF OrderedBy
  <2> HIDE DEF Good, n, o
  <2> QED
    BY <1>1, <2>1, Zenon
<1>3. DOMAIN o = 1 .. n
  BY <1>2
<1> HIDE DEF o
<1>4. Lists(o, S, R)
  BY <1>2, <1>3 DEF Lists
<1>5. ASSUME NEW i \in 1 .. n, NEW j \in 1 .. n, o[i] = o[j]
      PROVE  i = j
  <2>1. o[i] \in S
    BY <1>2
  <2>2. ~(<<o[i], o[i]>> \in R)
    BY <2>1 DEF Orders
  <2>3. ~(i < j) /\ ~(j < i)
    BY <1>2, <1>3, <1>5, <2>2
  <2> QED
    BY <1>0, <2>3
<1>6. o \in Injection(1 .. n, S)
  BY <1>2, <1>5 DEF Injection, IsInjective
<1>7. Cardinality(1 .. n) = n
  BY <1>0, FS_Interval
<1>8. o \in Surjection(1 .. n, S)
  BY <1>6, <1>7, FS_Injection
<1>9. \A x \in S : \E i \in 1 .. n : o[i] = x
  BY <1>8 DEF Surjection
<1> QED
  BY <1>4, <1>5, <1>9 DEF o

-----------------------------------------------------------------------------
(***************************************************************************)
(* Fractions.                                                              *)
(***************************************************************************)

Fractions == Nat \X (Nat \ {0})

\* Products grow with their factors.
LEMMA TimesMonotone ==
  ASSUME NEW a \in Nat, NEW b \in Nat, NEW m \in Nat \ {0}
  PROVE  (a >= b => a * m >= b * m) /\ (a > b => a * m > b * m)
<1>1. PICK d \in Int : a = b + d
  <2>1. a = b + (a - b) /\ a - b \in Int
    OBVIOUS
  <2> QED
    BY <2>1
<1>2. a * m = b * m + d * m
  BY <1>1
<1>3. d >= 0 => d * m >= 0
  OBVIOUS
<1>4. d > 0 => d * m > 0
  OBVIOUS
<1> QED
  BY <1>1, <1>2, <1>3, <1>4

\* A product's products are natural numbers.
LEMMA TimesType ==
  \A a, b \in Nat : a * b \in Nat /\ (a # 0 /\ b # 0 => a * b # 0)
<1> SUFFICES ASSUME NEW a \in Nat, NEW b \in Nat
             PROVE  a * b \in Nat /\ (a # 0 /\ b # 0 => a * b # 0)
  OBVIOUS
<1>1. CASE a = 0
  BY <1>1
<1>2. CASE a # 0
  <2>1. CASE b = 0
    BY <2>1
  <2>2. CASE b # 0
    <3>1. b * 1 \in Nat /\ 1 * b <= a * b
      BY <1>2, <2>2, TimesMonotone
    <3>2. a * b \in Int
      OBVIOUS
    <3> QED
      BY <2>2, <3>1, <3>2
  <2> QED
    BY <2>1, <2>2
<1> QED
  BY <1>1, <1>2

\* Exceeds is a strict order, and what is not exceeded is at least as much.
LEMMA ExceedsTransitive ==
  ASSUME NEW x \in Fractions, NEW y \in Fractions, NEW z \in Fractions
  PROVE  /\ ~Exceeds(y, x) /\ ~Exceeds(z, y) => ~Exceeds(z, x)
         /\ Exceeds(x, y) /\ ~Exceeds(z, y) => Exceeds(x, z)
         /\ ~Exceeds(y, x) /\ Exceeds(y, z) => Exceeds(x, z)
<1>1. PICK a \in Nat, b \in Nat \ {0} : x = <<a, b>>
  BY DEF Fractions
<1>2. PICK c \in Nat, d \in Nat \ {0} : y = <<c, d>>
  BY DEF Fractions
<1>3. PICK e \in Nat, f \in Nat \ {0} : z = <<e, f>>
  BY DEF Fractions
<1> DEFINE ad == a * d  cb == c * b  cf == c * f  ed == e * d  af == a * f  eb == e * b
<1>4. ad \in Nat /\ cb \in Nat /\ cf \in Nat /\ ed \in Nat /\ af \in Nat /\ eb \in Nat
  BY TimesType
<1>5. ad * f = af * d /\ cb * f = cf * b /\ ed * b = eb * d
  OBVIOUS
<1>6. /\ Exceeds(y, x) <=> cb > ad
      /\ Exceeds(x, y) <=> ad > cb
      /\ Exceeds(z, y) <=> ed > cf
      /\ Exceeds(y, z) <=> cf > ed
      /\ Exceeds(z, x) <=> eb > af
      /\ Exceeds(x, z) <=> af > eb
  BY <1>1, <1>2, <1>3 DEF Exceeds
<1> HIDE DEF ad, cb, cf, ed, af, eb
<1>7. /\ ad >= cb => ad * f >= cb * f
      /\ ad > cb => ad * f > cb * f
      /\ cf >= ed => cf * b >= ed * b
      /\ cf > ed => cf * b > ed * b
      /\ eb > af => eb * d > af * d
      /\ eb >= af => eb * d >= af * d
  BY <1>4, TimesMonotone
<1>8. /\ ad * f \in Int /\ cb * f \in Int /\ cf * b \in Int
      /\ ed * b \in Int /\ eb * d \in Int /\ af * d \in Int
  BY <1>4
<1> DEFINE p == ad * f  q == cb * f  r == ed * b
<1>9. /\ ad >= cb => p >= q
      /\ ad > cb => p > q
      /\ cf >= ed => q >= r
      /\ cf > ed => q > r
      /\ eb > af => r > p
      /\ eb >= af => r >= p
      /\ p \in Int /\ q \in Int /\ r \in Int
  BY <1>5, <1>7, <1>8
<1> HIDE DEF p, q, r
<1> QED
  BY <1>4, <1>6, <1>9

\* No fraction exceeds one that exceeds it.
LEMMA ExceedsAsymmetric ==
  ASSUME NEW x \in Fractions, NEW y \in Fractions, Exceeds(x, y)
  PROVE  ~Exceeds(y, x)
<1>1. x[1] * y[2] \in Int /\ y[1] * x[2] \in Int
  BY DEF Fractions
<1> QED
  BY <1>1 DEF Exceeds

\* A sum is a fraction.
LEMMA PlusType ==
  ASSUME NEW x \in Fractions, NEW y \in Fractions
  PROVE  Plus(x, y) \in Fractions
<1>1. /\ x[1] \in Nat /\ x[2] \in Nat \ {0}
      /\ y[1] \in Nat /\ y[2] \in Nat \ {0}
  BY DEF Fractions
<1>2. x[1] * y[2] \in Nat /\ y[1] * x[2] \in Nat /\ x[2] * y[2] \in Nat \ {0}
  BY <1>1, TimesType
<1> QED
  BY <1>2 DEF Plus, Fractions

\* A sum grows with its terms.
LEMMA PlusMonotone ==
  ASSUME NEW x \in Fractions, NEW y \in Fractions,
         NEW u \in Fractions, NEW v \in Fractions,
         \/ Exceeds(x, u) /\ ~Exceeds(v, y)
         \/ ~Exceeds(u, x) /\ Exceeds(y, v)
  PROVE  Exceeds(Plus(x, y), Plus(u, v))
<1>1. PICK a \in Nat, b \in Nat \ {0} : x = <<a, b>>
  BY DEF Fractions
<1>2. PICK e \in Nat, f \in Nat \ {0} : y = <<e, f>>
  BY DEF Fractions
<1>3. PICK c \in Nat, d \in Nat \ {0} : u = <<c, d>>
  BY DEF Fractions
<1>4. PICK g \in Nat, h \in Nat \ {0} : v = <<g, h>>
  BY DEF Fractions
<1> DEFINE ad == a * d  cb == c * b  eh == e * h  gf == g * f  fh == f * h  bd == b * d
<1>5. /\ ad \in Nat /\ cb \in Nat /\ eh \in Nat /\ gf \in Nat
      /\ fh \in Nat \ {0} /\ bd \in Nat \ {0}
  BY TimesType
<1>6. \/ ad > cb /\ eh >= gf
      \/ ad >= cb /\ eh > gf
  BY <1>1, <1>2, <1>3, <1>4, <1>5 DEF Exceeds
<1>7. /\ (a * f + e * b) * (d * h) = ad * fh + eh * bd
      /\ (c * h + g * d) * (b * f) = cb * fh + gf * bd
  OBVIOUS
<1>8. ad * fh + eh * bd > cb * fh + gf * bd
  <2> HIDE DEF ad, cb, eh, gf, fh, bd
  <2>1. /\ ad >= cb => ad * fh >= cb * fh
        /\ ad > cb => ad * fh > cb * fh
        /\ eh >= gf => eh * bd >= gf * bd
        /\ eh > gf => eh * bd > gf * bd
    BY <1>5, TimesMonotone
  <2>2. ad * fh \in Int /\ cb * fh \in Int /\ eh * bd \in Int /\ gf * bd \in Int
    BY <1>5
  <2>3. ad >= cb /\ eh >= gf
    BY <1>5, <1>6
  <2> QED
    BY <1>6, <2>1, <2>2, <2>3
<1>9. /\ Plus(x, y) = <<a * f + e * b, b * f>>
      /\ Plus(u, v) = <<c * h + g * d, d * h>>
  BY <1>1, <1>2, <1>3, <1>4 DEF Plus
<1> HIDE DEF ad, cb, eh, gf, fh, bd
<1>10. Exceeds(Plus(x, y), Plus(u, v)) <=>
         (a * f + e * b) * (d * h) > (c * h + g * d) * (b * f)
  BY <1>9 DEF Exceeds
<1> QED
  BY <1>7, <1>8, <1>10

-----------------------------------------------------------------------------
(***************************************************************************)
(* Rankings and the candidates cut from them.                              *)
(***************************************************************************)

\* The constants are numbers, those that bound a list positive.
LEMMA ConstantTypes ==
  /\ IsFiniteSet(Ids) /\ Ids \subseteq Nat
  /\ VectorTopK \in Nat \ {0} /\ KeywordTopK \in Nat \ {0} /\ RRFK \in Nat \ {0}
  /\ RerankTopN \in Nat \ {0} /\ MaxCandidates \in Nat \ {0}
  BY RetrievalAssumption

\* A ranking of chunks of X: no chunk twice.
Ranking(s, X) == s \in Seq(X) /\ \A i, j \in 1 .. Len(s) : s[i] = s[j] => i = j

\* The members of Rankings are rankings, of at most k chunks.
LEMMA RankingsType ==
  ASSUME NEW k \in Nat, NEW s \in Rankings(k)
  PROVE  Ranking(s, Ids) /\ Len(s) <= k
<1>1. PICK m \in 0 .. k : s \in [1 .. m -> Ids]
  BY DEF Rankings, SeqOf
<1>2. s \in Seq(Ids) /\ Len(s) = m
  BY <1>1
<1>3. DOMAIN s = 1 .. Len(s)
  BY <1>1, <1>2
<1> QED
  BY <1>1, <1>2, <1>3 DEF Rankings, IsInjective, Ranking

\* The chunks of a ranking are the entries at its places.
LEMMA RankingSet ==
  ASSUME NEW X, NEW s, Ranking(s, X)
  PROVE  /\ Len(s) \in Nat /\ DOMAIN s = 1 .. Len(s)
         /\ ToSet(s) \subseteq X /\ IsInjective(s)
         /\ \A c : c \in ToSet(s) <=> \E i \in 1 .. Len(s) : s[i] = c
  BY DEF Ranking, ToSet, IsInjective

\* First keeps the first n entries, or all.
LEMMA FirstKeeps ==
  ASSUME NEW X, NEW s, Ranking(s, X), NEW n \in Nat
  PROVE  /\ Ranking(First(s, n), X)
         /\ Len(First(s, n)) = Least(n, Len(s))
         /\ Least(n, Len(s)) \in Nat /\ Least(n, Len(s)) <= n /\ Least(n, Len(s)) <= Len(s)
         /\ \A i \in 1 .. Least(n, Len(s)) : First(s, n)[i] = s[i]
<1> DEFINE m == Least(n, Len(s))
<1>1. m \in Nat /\ m <= n /\ m <= Len(s)
  BY DEF Least, Ranking
<1>2. First(s, n) = SubSeq(s, 1, m)
  BY DEF First
<1> HIDE DEF m
<1>3. /\ SubSeq(s, 1, m) \in Seq(X) /\ Len(SubSeq(s, 1, m)) = m
      /\ \A i \in 1 .. m : SubSeq(s, 1, m)[i] = s[i]
  BY <1>1 DEF Ranking
<1>4. Ranking(First(s, n), X)
  BY <1>1, <1>2, <1>3 DEF Ranking
<1> QED
  BY <1>1, <1>2, <1>3, <1>4 DEF m

\* The place of an entry is its position, the place of any other is past the end.
LEMMA PlaceIs ==
  ASSUME NEW X, NEW s, Ranking(s, X)
  PROVE  /\ \A i \in 1 .. Len(s) : Place(s, s[i]) = i
         /\ \A c : c \in ToSet(s) => /\ Place(s, c) \in 1 .. Len(s) /\ s[Place(s, c)] = c
                                     /\ RankOf(s, c) = Place(s, c)
         /\ \A c : ~(c \in ToSet(s)) => Place(s, c) = Len(s) + 1
<1>1. DOMAIN s = 1 .. Len(s)
  BY RankingSet
<1>2. ASSUME NEW c, c \in ToSet(s)
      PROVE  Place(s, c) \in 1 .. Len(s) /\ s[Place(s, c)] = c /\ RankOf(s, c) = Place(s, c)
  <2>1. \E i \in 1 .. Len(s) : s[i] = c
    BY <1>2, RankingSet
  <2>2. Place(s, c) = CHOOSE i \in 1 .. Len(s) : s[i] = c
    BY <1>1, <2>1 DEF Place
  <2>3. RankOf(s, c) = CHOOSE i \in 1 .. Len(s) : s[i] = c
    BY <1>1 DEF RankOf
  <2> QED
    BY <2>1, <2>2, <2>3
<1>3. ASSUME NEW i \in 1 .. Len(s)
      PROVE  Place(s, s[i]) = i
  <2>1. s[i] \in ToSet(s)
    BY RankingSet
  <2> QED
    BY <2>1, <1>2 DEF Ranking
<1>4. ASSUME NEW c, ~(c \in ToSet(s))
      PROVE  Place(s, c) = Len(s) + 1
  <2>1. ~\E i \in DOMAIN s : s[i] = c
    BY <1>1, <1>4, RankingSet
  <2> QED
    BY <2>1 DEF Place
<1> QED
  BY <1>2, <1>3, <1>4

\* Cutting a list leaves the order of what it keeps, and what it keeps was ahead
\* of what it drops.
LEMMA CutKeepsOrder ==
  ASSUME NEW X, NEW s, Ranking(s, X), NEW n \in Nat,
         NEW i \in 1 .. Len(s), NEW j \in 1 .. Len(s), i < j,
         s[j] \in ToSet(First(s, n))
  PROVE  Before(First(s, n), s[i], s[j])
<1> DEFINE f == First(s, n)
<1>1. /\ Ranking(f, X) /\ Len(f) \in Nat /\ Len(f) <= Len(s)
      /\ \A k \in 1 .. Len(f) : f[k] = s[k]
  BY FirstKeeps
<1>2. PICK k \in 1 .. Len(f) : f[k] = s[j]
  BY <1>1, RankingSet
<1>3. s[k] = s[j] /\ k \in 1 .. Len(s)
  BY <1>1, <1>2 DEF Ranking
<1>4. k = j
  BY <1>3 DEF Ranking
<1>5. i \in 1 .. Len(f) /\ j \in 1 .. Len(f)
  BY <1>1, <1>4
<1>6. f[i] = s[i] /\ f[j] = s[j]
  BY <1>1, <1>5
<1>7. Place(f, f[i]) = i /\ Place(f, f[j]) = j
  BY <1>1, <1>5, PlaceIs
<1> QED
  BY <1>6, <1>7 DEF Before

-----------------------------------------------------------------------------
(***************************************************************************)
(* Reciprocal Rank Fusion.                                                 *)
(***************************************************************************)

\* What holds of the two rankings in every state.
RankingsInv ==
  /\ Ranking(vector, Ids) /\ Len(vector) <= VectorTopK
  /\ Ranking(matches, Ids)

\* The keyword hits are the first of the matches.
LEMMA KeywordHitsType ==
  ASSUME RankingsInv
  PROVE  Ranking(KeywordHits, Ids) /\ Len(KeywordHits) <= KeywordTopK
  BY ConstantTypes, FirstKeeps DEF RankingsInv, KeywordHits

\* A row's score is a fraction; being ahead is worth more, not being behind at
\* least as much.
LEMMA RowScoreMonotone ==
  ASSUME NEW s, Ranking(s, Ids), NEW a, NEW b
  PROVE  /\ RowScore(s, a) \in Fractions
         /\ Before(s, a, b) => Exceeds(RowScore(s, a), RowScore(s, b))
         /\ ~Before(s, b, a) => ~Exceeds(RowScore(s, b), RowScore(s, a))
<1> DEFINE n == Len(s)
           p == Place(s, a)
           q == Place(s, b)
<1>0. n \in Nat /\ RRFK \in Nat \ {0}
  BY ConstantTypes, RankingSet
<1>1. /\ a \in ToSet(s) => p \in 1 .. n /\ RowScore(s, a) = <<1, RRFK + p>>
      /\ ~(a \in ToSet(s)) => p = n + 1 /\ RowScore(s, a) = <<0, 1>>
  BY PlaceIs DEF RowScore
<1>2. /\ b \in ToSet(s) => q \in 1 .. n /\ RowScore(s, b) = <<1, RRFK + q>>
      /\ ~(b \in ToSet(s)) => q = n + 1 /\ RowScore(s, b) = <<0, 1>>
  BY PlaceIs DEF RowScore
<1>3. RowScore(s, a) \in Fractions
  BY <1>0, <1>1 DEF Fractions
<1>4. (Before(s, a, b) <=> p < q) /\ (Before(s, b, a) <=> q < p)
  BY DEF Before
<1> HIDE DEF p, q, n
<1>5. CASE a \in ToSet(s) /\ b \in ToSet(s)
  BY <1>0, <1>1, <1>2, <1>3, <1>4, <1>5 DEF Exceeds
<1>6. CASE a \in ToSet(s) /\ ~(b \in ToSet(s))
  BY <1>0, <1>1, <1>2, <1>3, <1>4, <1>6 DEF Exceeds
<1>7. CASE ~(a \in ToSet(s)) /\ b \in ToSet(s)
  BY <1>0, <1>1, <1>2, <1>3, <1>4, <1>7 DEF Exceeds
<1>8. CASE ~(a \in ToSet(s)) /\ ~(b \in ToSet(s))
  BY <1>0, <1>1, <1>2, <1>3, <1>4, <1>8 DEF Exceeds
<1> QED
  BY <1>5, <1>6, <1>7, <1>8

\* A chunk ahead in one ranking and not behind in the other has the higher RRF.
LEMMA RRFMonotone ==
  ASSUME RankingsInv, NEW a, NEW b,
         \/ Before(vector, a, b) /\ ~Before(KeywordHits, b, a)
         \/ Before(KeywordHits, a, b) /\ ~Before(vector, b, a)
  PROVE  Exceeds(RRF(a), RRF(b))
<1>1. Ranking(vector, Ids) /\ Ranking(KeywordHits, Ids)
  BY KeywordHitsType DEF RankingsInv
<1>2. /\ RowScore(vector, a) \in Fractions /\ RowScore(vector, b) \in Fractions
      /\ RowScore(KeywordHits, a) \in Fractions /\ RowScore(KeywordHits, b) \in Fractions
  BY <1>1, RowScoreMonotone
<1>3. \/ /\ Exceeds(RowScore(vector, a), RowScore(vector, b))
         /\ ~Exceeds(RowScore(KeywordHits, b), RowScore(KeywordHits, a))
      \/ /\ ~Exceeds(RowScore(vector, b), RowScore(vector, a))
         /\ Exceeds(RowScore(KeywordHits, a), RowScore(KeywordHits, b))
  BY <1>1, RowScoreMonotone
<1> QED
  BY <1>2, <1>3, PlusMonotone DEF RRF

\* A chunk in both rankings has a higher RRF than one in a single ranking, when
\* k is at least the length of the rankings: 1 / 2k twice is 1 / k.
LEMMA RRFAgreement ==
  ASSUME RankingsInv, RRFK >= VectorTopK, RRFK >= KeywordTopK,
         NEW a \in ToSet(vector) \cap ToSet(KeywordHits),
         NEW b \in Found, ~(b \in ToSet(vector) \cap ToSet(KeywordHits))
  PROVE  Exceeds(RRF(a), RRF(b))
<1> DEFINE x == RRFK + RankOf(vector, a)
           y == RRFK + RankOf(KeywordHits, a)
<1>1. /\ Ranking(vector, Ids) /\ Ranking(KeywordHits, Ids)
      /\ Len(vector) \in Nat /\ Len(vector) <= VectorTopK
      /\ Len(KeywordHits) \in Nat /\ Len(KeywordHits) <= KeywordTopK
  BY KeywordHitsType, RankingSet DEF RankingsInv
<1>2. RRFK \in Nat \ {0} /\ VectorTopK \in Nat /\ KeywordTopK \in Nat
  BY ConstantTypes
<1>3. x \in Nat \ {0} /\ y \in Nat \ {0} /\ x <= 2 * RRFK /\ y <= 2 * RRFK
  <2>1. RankOf(vector, a) \in 1 .. Len(vector)
    BY <1>1, PlaceIs
  <2>2. RankOf(KeywordHits, a) \in 1 .. Len(KeywordHits)
    BY <1>1, PlaceIs
  <2> QED
    BY <1>1, <1>2, <2>1, <2>2
<1>4. RRF(a) = <<x + y, x * y>>
  BY <1>3 DEF RRF, RowScore, Plus
<1>5. PICK z \in Nat : z > RRFK /\ RRF(b) = <<1, z>>
  <2>1. CASE b \in ToSet(vector)
    <3>1. RankOf(vector, b) \in 1 .. Len(vector)
      BY <1>1, <2>1, PlaceIs
    <3>2. ~(b \in ToSet(KeywordHits))
      BY <2>1
    <3> DEFINE r == RankOf(vector, b)
    <3>3. RRF(b) = <<1 * 1 + 0 * (RRFK + r), (RRFK + r) * 1>>
      BY <2>1, <3>2 DEF RRF, RowScore, Plus
    <3>4. r \in Nat /\ r > 0
      BY <1>1, <3>1
    <3> HIDE DEF r
    <3> QED
      BY <1>2, <3>3, <3>4
  <2>2. CASE b \in ToSet(KeywordHits)
    <3>1. RankOf(KeywordHits, b) \in 1 .. Len(KeywordHits)
      BY <1>1, <2>2, PlaceIs
    <3>2. ~(b \in ToSet(vector))
      BY <2>2
    <3> DEFINE r == RankOf(KeywordHits, b)
    <3>3. RRF(b) = <<0 * (RRFK + r) + 1 * 1, 1 * (RRFK + r)>>
      BY <2>2, <3>2 DEF RRF, RowScore, Plus
    <3>4. r \in Nat /\ r > 0
      BY <1>1, <3>1
    <3> HIDE DEF r
    <3> QED
      BY <1>2, <3>3, <3>4
  <2> QED
    BY <2>1, <2>2 DEF Found
<1> HIDE DEF x, y
<1>6. (x + y) * z > x * y
  <2>1. x * y <= (2 * RRFK) * y /\ y * x <= (2 * RRFK) * x
    BY <1>2, <1>3, TimesMonotone
  <2>2. x * y <= RRFK * (x + y)
    BY <1>2, <1>3, <2>1
  <2>3. RRFK * (x + y) < z * (x + y)
    <3>1. x + y \in Nat \ {0} /\ RRFK \in Nat
      BY <1>2, <1>3
    <3> QED
      BY <1>5, <3>1, TimesMonotone
  <2> QED
    BY <1>2, <1>3, <1>5, <2>2, <2>3
<1> QED
  BY <1>3, <1>4, <1>5, <1>6 DEF Exceeds

\* The ORDER BY of the fusion puts the chunks found in one line.
LEMMA FusedOrders ==
  ASSUME RankingsInv
  PROVE  IsFiniteSet(Found) /\ Found \subseteq Ids /\ Orders(FusedOrder, Found)
<1>1. Found \subseteq Ids
  BY KeywordHitsType, RankingSet DEF RankingsInv, Found
<1>2. IsFiniteSet(Found)
  BY <1>1, ConstantTypes, FS_Subset
<1>3. \A a \in Found : RRF(a) \in Fractions /\ a \in Nat
  <2> TAKE a \in Found
  <2>1. RowScore(vector, a) \in Fractions /\ RowScore(KeywordHits, a) \in Fractions
    BY KeywordHitsType, RowScoreMonotone DEF RankingsInv
  <2> QED
    BY <1>1, <2>1, ConstantTypes, PlusType DEF RRF
<1>4. \A a, b \in Found :
        <<a, b>> \in FusedOrder <=>
          Exceeds(RRF(a), RRF(b)) \/ (~Exceeds(RRF(b), RRF(a)) /\ a < b)
  BY DEF FusedOrder
<1>5. ASSUME NEW a \in Found, NEW b \in Found, a # b
      PROVE  <<a, b>> \in FusedOrder \/ <<b, a>> \in FusedOrder
  <2>1. a < b \/ b < a
    BY <1>3, <1>5
  <2> QED
    BY <1>4, <2>1
<1>6. ASSUME NEW a \in Found, NEW b \in Found,
             <<a, b>> \in FusedOrder, <<b, a>> \in FusedOrder
      PROVE  FALSE
  <2>1. ~(Exceeds(RRF(a), RRF(b)) /\ Exceeds(RRF(b), RRF(a)))
    BY <1>3, ExceedsAsymmetric
  <2>2. ~(a < b /\ b < a)
    BY <1>3
  <2> QED
    BY <1>4, <1>6, <2>1, <2>2
<1>7. ASSUME NEW a \in Found, NEW b \in Found, NEW c \in Found,
             <<a, b>> \in FusedOrder, <<b, c>> \in FusedOrder
      PROVE  <<a, c>> \in FusedOrder
  <2> DEFINE x == RRF(a)  y == RRF(b)  z == RRF(c)
  <2>1. x \in Fractions /\ y \in Fractions /\ z \in Fractions
    BY <1>3
  <2>2. Exceeds(x, y) \/ (~Exceeds(y, x) /\ a < b)
    BY <1>4, <1>7
  <2>3. Exceeds(y, z) \/ (~Exceeds(z, y) /\ b < c)
    BY <1>4, <1>7
  <2>4. /\ Exceeds(x, y) => ~Exceeds(y, x)
        /\ Exceeds(y, z) => ~Exceeds(z, y)
    BY <2>1, ExceedsAsymmetric
  <2>5. /\ ~Exceeds(y, x) /\ ~Exceeds(z, y) => ~Exceeds(z, x)
        /\ Exceeds(x, y) /\ ~Exceeds(z, y) => Exceeds(x, z)
        /\ ~Exceeds(y, x) /\ Exceeds(y, z) => Exceeds(x, z)
    BY <2>1, ExceedsTransitive
  <2>6. a < b /\ b < c => a < c
    BY <1>3
  <2>7. <<a, c>> \in FusedOrder <=> Exceeds(x, z) \/ (~Exceeds(z, x) /\ a < c)
    BY <1>4
  <2> HIDE DEF x, y, z
  <2> QED
    BY <2>2, <2>3, <2>4, <2>5, <2>6, <2>7
<1> QED
  BY <1>1, <1>2, <1>5, <1>6, <1>7 DEF Orders

\* The fused list ranks chunks that were found, and of two chunks the one with
\* the higher RRF is ahead.
LEMMA FusedRanks ==
  ASSUME RankingsInv
  PROVE  /\ Ranking(Fused, Found)
         /\ \A a, b \in Found :
              Exceeds(RRF(a), RRF(b)) /\ b \in ToSet(Fused) => Before(Fused, a, b)
<1> DEFINE o == OrderedBy(Found, FusedOrder)
           n == Cardinality(Found)
<1>1. IsFiniteSet(Found) /\ Found \subseteq Ids /\ Orders(FusedOrder, Found)
  BY FusedOrders
<1>2. n \in Nat
  BY <1>1, FS_CardinalityType
<1>3. /\ o \in [1 .. n -> Found]
      /\ \A i, j \in 1 .. n : i < j => <<o[i], o[j]>> \in FusedOrder
      /\ \A x \in Found : \E i \in 1 .. n : o[i] = x
      /\ \A i, j \in 1 .. n : o[i] = o[j] => i = j
  BY <1>1, OrderedByLists DEF Lists
<1>4. Fused = First(o, RerankTopN)
  BY DEF Fused
<1> HIDE DEF o, n
<1>5. o \in Seq(Found) /\ Len(o) = n
  BY <1>2, <1>3
<1>6. Ranking(o, Found)
  BY <1>3, <1>5 DEF Ranking
<1>7. Ranking(Fused, Found)
  BY <1>4, <1>6, ConstantTypes, FirstKeeps
<1>8. ASSUME NEW a \in Found, NEW b \in Found,
             Exceeds(RRF(a), RRF(b)), b \in ToSet(Fused)
      PROVE  Before(Fused, a, b)
  <2>1. PICK i \in 1 .. n : o[i] = a
    BY <1>3
  <2>2. PICK j \in 1 .. n : o[j] = b
    BY <1>3
  <2>3. RRF(a) \in Fractions /\ RRF(b) \in Fractions
    <3>1. /\ RowScore(vector, a) \in Fractions /\ RowScore(KeywordHits, a) \in Fractions
          /\ RowScore(vector, b) \in Fractions /\ RowScore(KeywordHits, b) \in Fractions
      BY KeywordHitsType, RowScoreMonotone DEF RankingsInv
    <3> QED
      BY <3>1, PlusType DEF RRF
  <2>4. ~Exceeds(RRF(b), RRF(a))
    BY <1>8, <2>3, ExceedsAsymmetric
  <2>5. a # b
    BY <1>8, <2>4
  <2>6. ~(<<b, a>> \in FusedOrder)
    BY <1>8, <2>4 DEF FusedOrder
  <2>7. ~(j < i) /\ i # j
    BY <1>3, <2>1, <2>2, <2>5, <2>6
  <2>8. i < j
    BY <1>2, <2>7
  <2> QED
    BY <1>4, <1>5, <1>6, <1>8, <2>1, <2>2, <2>8, ConstantTypes, CutKeepsOrder
<1> QED
  BY <1>7, <1>8

-----------------------------------------------------------------------------
(***************************************************************************)
(* The state.                                                              *)
(***************************************************************************)

\* The candidates are a ranking, and there is no reply before the reranker ran.
TypeInv ==
  /\ RankingsInv
  /\ Ranking(candidates, Ids)
  /\ pc \in {"search", "rerank", "done"}
  /\ topN \in Nat \ {0}
  /\ pc # "done" => reply = NoReply

\* A ranking of some chunks is a ranking of the chunks around them.
LEMMA RankingWiden ==
  ASSUME NEW X, NEW Y, NEW s, Ranking(s, X), X \subseteq Y
  PROVE  Ranking(s, Y)
  BY DEF Ranking

\* A ranking ranks its own chunks.
LEMMA RankingOfOwn ==
  ASSUME NEW X, NEW s, Ranking(s, X)
  PROVE  Ranking(s, ToSet(s))
<1>1. s \in Seq(X) /\ Len(s) \in Nat /\ \A i \in 1 .. Len(s) : s[i] \in ToSet(s)
  BY RankingSet DEF Ranking
<1>2. s \in Seq(ToSet(s))
  BY <1>1
<1> QED
  BY <1>2 DEF Ranking

\* The empty list is a ranking.
LEMMA EmptyRanking == Ranking(<<>>, Ids) /\ Len(<<>>) = 0 /\ ToSet(<<>>) = {}
  BY DEF Ranking, ToSet

\* The search starts from two rankings.
LEMMA InitType == Init => TypeInv
<1> SUFFICES ASSUME Init PROVE TypeInv
  OBVIOUS
<1>1. Ranking(vector, Ids) /\ Len(vector) <= VectorTopK
  BY ConstantTypes, RankingsType DEF Init
<1>2. Ranking(matches, Ids)
  <2>1. Cardinality(Ids) \in Nat
    BY ConstantTypes, FS_CardinalityType
  <2> QED
    BY <2>1, RankingsType DEF Init
<1>3. topN \in Nat \ {0}
  BY RetrievalAssumption DEF Init
<1> QED
  BY <1>1, <1>2, <1>3, EmptyRanking DEF Init, TypeInv, RankingsInv

\* A step keeps the rankings or, without an embedding, drops the vector hits.
LEMMA StepType == TypeInv /\ [Next]_vars => TypeInv'
<1> SUFFICES ASSUME TypeInv, [Next]_vars PROVE TypeInv'
  OBVIOUS
<1>1. CASE HybridSearch
  <2>1. Ranking(Fused, Ids)
    BY FusedRanks, FusedOrders, RankingWiden DEF TypeInv
  <2> QED
    BY <1>1, <2>1 DEF HybridSearch, TypeInv, RankingsInv
<1>2. CASE KeywordSearch
  <2>1. Ranking(First(matches, RerankTopN), Ids)
    BY ConstantTypes, FirstKeeps DEF TypeInv, RankingsInv
  <2>2. Len(vector') <= VectorTopK /\ Ranking(vector', Ids)
    BY <1>2, ConstantTypes, EmptyRanking DEF KeywordSearch
  <2> QED
    BY <1>2, <2>1, <2>2 DEF KeywordSearch, TypeInv, RankingsInv
<1>3. CASE KeepOrder
  BY <1>3 DEF KeepOrder, TypeInv, RankingsInv
<1>4. CASE Degrade
  BY <1>4 DEF Degrade, Scored, TypeInv, RankingsInv
<1>5. CASE Rerank
  BY <1>5 DEF Rerank, Scored, TypeInv, RankingsInv
<1>6. CASE UNCHANGED vars
  BY <1>6 DEF vars, TypeInv, RankingsInv
<1> QED
  BY <1>1, <1>2, <1>3, <1>4, <1>5, <1>6 DEF Next

\* The rankings and the candidates keep their types.
THEOREM TypeInvariant == Spec => []TypeInv
  BY InitType, StepType, PTL DEF Spec

-----------------------------------------------------------------------------
(***************************************************************************)
(* The candidates.                                                         *)
(***************************************************************************)

\* What the search leaves in the candidates; later steps do not touch it.
FusionInv == FusionIsMonotone /\ AgreementWins

\* Fusion keeps what the rankers agree on.
LEMMA HybridFusion == TypeInv /\ HybridSearch => FusionInv'
<1> SUFFICES ASSUME TypeInv, HybridSearch PROVE FusionInv'
  OBVIOUS
<1>1. candidates' = Fused /\ vector' = vector /\ matches' = matches
  BY DEF HybridSearch
<1>2. KeywordHits' = KeywordHits /\ Found' = Found
  BY <1>1 DEF KeywordHits, Found
<1>3. RankingsInv
  BY DEF TypeInv
<1>4. FusionIsMonotone'
  <2>1. \A a, b \in Found :
          /\ \/ Before(vector, a, b) /\ ~Before(KeywordHits, b, a)
             \/ Before(KeywordHits, a, b) /\ ~Before(vector, b, a)
          /\ b \in ToSet(Fused)
          => Before(Fused, a, b)
    BY <1>3, RRFMonotone, FusedRanks
  <2> QED
    BY <1>1, <1>2, <2>1 DEF FusionIsMonotone
<1>5. AgreementWins'
  <2>1. ASSUME RRFK >= VectorTopK, RRFK >= KeywordTopK,
               NEW a \in ToSet(vector) \cap ToSet(KeywordHits),
               NEW b \in ToSet(Fused) \ (ToSet(vector) \cap ToSet(KeywordHits))
        PROVE  Before(Fused, a, b)
    <3>1. a \in Found /\ b \in Found
      BY <1>3, FusedRanks, RankingSet DEF Found
    <3>2. Exceeds(RRF(a), RRF(b))
      BY <1>3, <2>1, <3>1, RRFAgreement
    <3> QED
      BY <1>3, <2>1, <3>1, <3>2, FusedRanks
  <2> QED
    BY <1>1, <1>2, <2>1 DEF AgreementWins
<1> QED
  BY <1>4, <1>5 DEF FusionInv

\* Without an embedding the keyword ranking is the only one, and is kept.
LEMMA KeywordFusion == TypeInv /\ KeywordSearch => FusionInv'
<1> SUFFICES ASSUME TypeInv, KeywordSearch PROVE FusionInv'
  OBVIOUS
<1>1. candidates' = First(matches, RerankTopN) /\ vector' = <<>> /\ matches' = matches
  BY DEF KeywordSearch
<1>2. KeywordHits' = KeywordHits /\ ToSet(vector') = {} /\ Found' = ToSet(KeywordHits)
  BY <1>1, EmptyRanking DEF KeywordHits, Found
<1>3. /\ Ranking(matches, Ids) /\ Ranking(KeywordHits, Ids)
      /\ Len(KeywordHits) \in Nat /\ Len(KeywordHits) <= Len(matches)
      /\ \A i \in 1 .. Len(KeywordHits) : KeywordHits[i] = matches[i]
  BY ConstantTypes, FirstKeeps DEF TypeInv, RankingsInv, KeywordHits
<1>4. AgreementWins'
  BY <1>2 DEF AgreementWins
<1>5. ASSUME NEW a \in ToSet(KeywordHits), NEW b \in ToSet(KeywordHits),
             Before(KeywordHits, a, b), b \in ToSet(First(matches, RerankTopN))
      PROVE  Before(First(matches, RerankTopN), a, b)
  <2> DEFINE i == Place(KeywordHits, a)
             j == Place(KeywordHits, b)
  <2>1. i \in 1 .. Len(KeywordHits) /\ j \in 1 .. Len(KeywordHits) /\ i < j
    BY <1>3, <1>5, PlaceIs DEF Before
  <2>2. KeywordHits[i] = a /\ KeywordHits[j] = b
    BY <1>3, PlaceIs
  <2>3. Len(matches) \in Nat
    BY <1>3, RankingSet
  <2> HIDE DEF i, j
  <2>4. i \in 1 .. Len(matches) /\ j \in 1 .. Len(matches) /\ matches[i] = a /\ matches[j] = b
    BY <1>3, <2>1, <2>2, <2>3
  <2> QED
    BY <1>3, <1>5, <2>1, <2>4, ConstantTypes, CutKeepsOrder
<1>6. \A a, b : ~Before(vector', a, b)
  <2>1. \A a : Place(vector', a) = 1
    BY <1>1, EmptyRanking, PlaceIs
  <2> QED
    BY <2>1 DEF Before
<1>7. FusionIsMonotone'
  BY <1>1, <1>2, <1>5, <1>6 DEF FusionIsMonotone
<1> QED
  BY <1>4, <1>7 DEF FusionInv

\* The reranker leaves the candidates and the rankings alone.
LEMMA StepFusion == TypeInv /\ FusionInv /\ [Next]_vars => FusionInv'
<1> SUFFICES ASSUME TypeInv, FusionInv, [Next]_vars PROVE FusionInv'
  OBVIOUS
<1>1. CASE HybridSearch
  BY <1>1, HybridFusion
<1>2. CASE KeywordSearch
  BY <1>2, KeywordFusion
<1>3. CASE KeepOrder \/ Degrade \/ Rerank \/ UNCHANGED vars
  <2>1. /\ vector' = vector /\ matches' = matches /\ candidates' = candidates
        /\ pc # "search" \/ pc' = pc
    BY <1>3 DEF KeepOrder, Degrade, Rerank, Scored, vars
  <2>2. KeywordHits' = KeywordHits /\ Found' = Found
    BY <2>1 DEF KeywordHits, Found
  <2> QED
    BY <2>1, <2>2 DEF FusionInv, FusionIsMonotone, AgreementWins
<1> QED
  BY <1>1, <1>2, <1>3 DEF Next

\* Before the search there are no candidates to order.
LEMMA InitFusion == Init => FusionInv
  BY DEF Init, FusionInv, FusionIsMonotone, AgreementWins

\* Fusion never contradicts two rankers that agree.
THEOREM FusionMonotone == Spec => []FusionIsMonotone
<1>1. FusionInv => FusionIsMonotone
  BY DEF FusionInv
<1> QED
  BY <1>1, InitFusion, StepFusion, TypeInvariant, PTL DEF Spec

\* A chunk that both rankers found is ahead of every chunk that only one found.
THEOREM AgreementFirst == Spec => []AgreementWins
<1>1. FusionInv => AgreementWins
  BY DEF FusionInv
<1> QED
  BY <1>1, InitFusion, StepFusion, TypeInvariant, PTL DEF Spec

-----------------------------------------------------------------------------
(***************************************************************************)
(* The scoring reply.                                                      *)
(***************************************************************************)

\* A set of natural numbers with a bound has a greatest element.
LEMMA GreatestNat ==
  ASSUME NEW T \in SUBSET Nat, T # {}, NEW n \in Nat, \A t \in T : t <= n
  PROVE  \E x \in T : \A y \in T : y <= x
<1> DEFINE U == {n - t : t \in T}
<1>1. U \in SUBSET Nat /\ U # {}
  <2>1. \A t \in T : n - t \in Nat
    OBVIOUS
  <2> QED
    BY <2>1
<1>2. PICK u \in U : \A v \in U : u <= v
  BY <1>1, LeastNat
<1>3. PICK x \in T : u = n - x
  BY <1>2
<1>4. \A y \in T : n - x <= n - y
  BY <1>2, <1>3
<1>5. \A y \in T : y <= x
  <2> HIDE DEF U
  <2> TAKE y \in T
  <2>1. y \in Nat /\ x \in Nat /\ n - x <= n - y
    BY <1>4
  <2> QED
    BY <2>1
<1> QED
  BY <1>5

Item == [index : Int, score : Int]

\* A reply is a list of lists of items.
LEMMA ReplyType ==
  ASSUME NEW x \in Replies
  PROVE  x.groups \in Seq(Seq(Item))
<1>1. Items \subseteq Seq(Item)
  <2> SUFFICES ASSUME NEW s \in Items PROVE s \in Seq(Item)
    OBVIOUS
  <2>1. PICK m \in 0 .. MaxItems : s \in [1 .. m -> [index : Indexes, score : Scores]]
    BY DEF Items, SeqOf
  <2>2. [index : Indexes, score : Scores] \subseteq Item
    BY RetrievalAssumption DEF Item
  <2>3. m \in Nat
    BY RetrievalAssumption
  <2>4. s \in [1 .. m -> Item]
    BY <2>1, <2>2
  <2> QED
    BY <2>3, <2>4
<1>2. Numbers \subseteq Seq(Item)
  <2> SUFFICES ASSUME NEW s \in Numbers PROVE s \in Seq(Item)
    OBVIOUS
  <2>1. PICK m \in 0 .. MaxNumbers : s \in [1 .. m -> [index : {0}, score : Scores]]
    BY DEF Numbers, SeqOf
  <2>2. [index : {0}, score : Scores] \subseteq Item
    <3>1. Scores \subseteq Int /\ 0 \in Int
      BY RetrievalAssumption
    <3>2. ASSUME NEW r \in [index : {0}, score : Scores] PROVE r \in [index : Int, score : Int]
      <4>1. r = [index |-> r.index, score |-> r.score] /\ r.index = 0 /\ r.score \in Scores
        BY <3>2
      <4>2. r.index \in Int /\ r.score \in Int
        BY <3>1, <4>1
      <4> QED
        BY <4>1, <4>2
    <3> QED
      BY <3>2 DEF Item
  <2>3. m \in Nat
    BY RetrievalAssumption
  <2>4. s \in [1 .. m -> Item]
    BY <2>1, <2>2
  <2> QED
    BY <2>3, <2>4
<1>3. SeqOf(Items, MaxItems) \subseteq Seq(Seq(Item))
  <2> SUFFICES ASSUME NEW g \in SeqOf(Items, MaxItems) PROVE g \in Seq(Seq(Item))
    OBVIOUS
  <2>1. PICK m \in 0 .. MaxItems : g \in [1 .. m -> Items]
    BY DEF SeqOf
  <2>2. m \in Nat
    BY RetrievalAssumption
  <2>3. g \in [1 .. m -> Seq(Item)]
    BY <1>1, <2>1
  <2> QED
    BY <2>2, <2>3
<1>4. CASE \E s \in Items : x = [form |-> "objects", groups |-> <<s>>]
  BY <1>1, <1>4
<1>5. CASE \E g \in SeqOf(Items, MaxItems) : x = [form |-> "nested", groups |-> g]
  BY <1>3, <1>5
<1>6. CASE \E s \in Numbers : x = [form |-> "numbers", groups |-> <<s>>]
  BY <1>2, <1>6
<1> QED
  BY <1>4, <1>5, <1>6 DEF Replies

\* An entry has a position, an index and a score.
LEMMA EntryType ==
  ASSUME NEW x \in Replies, NEW p \in Entries(x.groups)
  PROVE  /\ p = <<p[1], p[2]>>
         /\ p[1] \in 1 .. Len(x.groups) /\ p[2] \in 1 .. Len(x.groups[p[1]])
         /\ Len(x.groups) \in Nat /\ Len(x.groups[p[1]]) \in Nat
         /\ x.groups[p[1]][p[2]] \in Item
         /\ IndexAt(x, p) \in Int /\ ScoreAt(x, p) \in Int
<1>1. x.groups \in Seq(Seq(Item))
  BY ReplyType
<1>2. PICK k \in DOMAIN x.groups : p \in {k} \X (DOMAIN x.groups[k])
  BY DEF Entries
<1>3. p = <<k, p[2]>> /\ p[1] = k /\ p[2] \in DOMAIN x.groups[k]
  BY <1>2
<1>4. k \in 1 .. Len(x.groups) /\ Len(x.groups) \in Nat
  BY <1>1
<1>5. x.groups[k] \in Seq(Item)
  BY <1>1, <1>4
<1>6. p[2] \in 1 .. Len(x.groups[k]) /\ Len(x.groups[k]) \in Nat
  BY <1>3, <1>5
<1>7. x.groups[k][p[2]] \in Item
  BY <1>5, <1>6
<1>8. x.groups[p[1]][p[2]].index \in Int /\ x.groups[p[1]][p[2]].score \in Int
  BY <1>3, <1>7 DEF Item
<1>9. IndexAt(x, p) \in Int /\ ScoreAt(x, p) \in Int
  BY <1>6, <1>8 DEF IndexAt, ScoreAt
<1> QED
  BY <1>3, <1>4, <1>6, <1>7, <1>9

\* Of some entries of a reply one is the last.
LEMMA LastExists ==
  ASSUME NEW x \in Replies, NEW S \in SUBSET Entries(x.groups), S # {}
  PROVE  \E p \in S : \A q \in S \ {p} : After(p, q)
<1> DEFINE firsts == {p[1] : p \in S}
<1>1. Len(x.groups) \in Nat /\ firsts \in SUBSET Nat /\ firsts # {}
      /\ \A k \in firsts : k <= Len(x.groups)
  BY EntryType
<1>2. PICK k \in firsts : \A l \in firsts : l <= k
  BY <1>1, GreatestNat
<1> DEFINE seconds == {p[2] : p \in {q \in S : q[1] = k}}
<1>3. Len(x.groups[k]) \in Nat /\ seconds \in SUBSET Nat /\ seconds # {}
      /\ \A i \in seconds : i <= Len(x.groups[k])
  <2>1. PICK p0 \in S : p0[1] = k
    BY <1>2
  <2>2. Len(x.groups[k]) \in Nat
    BY <2>1, EntryType
  <2>3. seconds # {}
    BY <2>1
  <2>4. \A p \in S : p[1] = k => p[2] \in Nat /\ p[2] <= Len(x.groups[k])
    BY EntryType
  <2> QED
    BY <2>2, <2>3, <2>4
<1>4. PICK i \in seconds : \A j \in seconds : j <= i
  BY <1>3, GreatestNat
<1>5. PICK p \in S : p[1] = k /\ p[2] = i
  BY <1>4
<1>6. ASSUME NEW q \in S \ {p}
      PROVE  After(p, q)
  <2>1. q[1] \in Nat /\ q[2] \in Nat /\ q = <<q[1], q[2]>> /\ p = <<p[1], p[2]>>
        /\ p[1] \in Nat /\ p[2] \in Nat
    BY EntryType
  <2>2. q[1] <= k
    BY <1>2
  <2>3. CASE q[1] = k
    <3>1. q[2] <= i
      BY <1>4, <2>3
    <3>2. q[2] # i
      BY <1>5, <1>6, <2>1, <2>3
    <3> QED
      BY <1>5, <2>1, <2>3, <3>1, <3>2 DEF After
  <2>4. CASE q[1] # k
    BY <1>5, <2>1, <2>2, <2>4 DEF After
  <2> QED
    BY <2>3, <2>4
<1> QED
  BY <1>6

\* What parseScores keeps of some entries is the score of one of them.
LEMMA LastScoreIs ==
  ASSUME NEW x \in Replies, NEW S \in SUBSET Entries(x.groups)
  PROVE  /\ S = {} => LastScore(x, S) = 0
         /\ S # {} => \E p \in S : LastScore(x, S) = ScoreAt(x, p)
         /\ LastScore(x, S) \in Int
<1>1. S = {} => LastScore(x, S) = 0
  BY DEF LastScore
<1>2. ASSUME S # {} PROVE \E p \in S : LastScore(x, S) = ScoreAt(x, p)
  <2> DEFINE Final(p) == \A q \in S \ {p} : After(p, q)
  <2>1. \E p \in S : Final(p)
    BY <1>2, LastExists
  <2>2. LastScore(x, S) = ScoreAt(x, CHOOSE p \in S : Final(p))
    BY <1>2 DEF LastScore
  <2> HIDE DEF Final
  <2>3. (CHOOSE p \in S : Final(p)) \in S
    BY <2>1
  <2> QED
    BY <2>2, <2>3
<1> QED
  BY <1>1, <1>2, EntryType

-----------------------------------------------------------------------------
(***************************************************************************)
(* Reordering.                                                             *)
(***************************************************************************)

\* The pool ranks candidates, as many as fit the scoring prompt.
LEMMA PoolType ==
  ASSUME TypeInv
  PROVE  /\ Ranking(candidates, ToSet(candidates)) /\ Len(candidates) \in Nat
         /\ Ranking(Pool, ToSet(candidates)) /\ DOMAIN Pool = 1 .. Len(Pool)
         /\ Len(Pool) \in Nat /\ Len(Pool) <= Len(candidates)
         /\ Len(candidates) > 0 => Len(Pool) > 0
<1>1. Ranking(candidates, ToSet(candidates)) /\ Len(candidates) \in Nat
  BY RankingOfOwn, RankingSet DEF TypeInv
<1>2. /\ Ranking(Pool, ToSet(candidates)) /\ Len(Pool) = Least(MaxCandidates, Len(candidates))
      /\ Len(Pool) \in Nat /\ Len(Pool) <= Len(candidates)
  BY <1>1, ConstantTypes, FirstKeeps DEF Pool
<1> QED
  BY <1>1, <1>2, ConstantTypes, RankingSet DEF Least

\* The stable sort puts the places of the pool in one line.
LEMMA ByScoreOrders ==
  ASSUME NEW n \in Nat, NEW f \in [1 .. n -> Int]
  PROVE  Orders(ByScore(f), 1 .. n)
<1>1. \A i, j \in 1 .. n :
        <<i, j>> \in ByScore(f) <=> f[i] > f[j] \/ (f[i] = f[j] /\ i < j)
  BY DEF ByScore
<1>2. \A i \in 1 .. n : f[i] \in Int /\ i \in Int
  OBVIOUS
<1>3. ASSUME NEW i \in 1 .. n, NEW j \in 1 .. n, i # j
      PROVE  <<i, j>> \in ByScore(f) \/ <<j, i>> \in ByScore(f)
  BY <1>1, <1>2, <1>3
<1>4. ASSUME NEW i \in 1 .. n, NEW j \in 1 .. n
      PROVE  ~(<<i, j>> \in ByScore(f) /\ <<j, i>> \in ByScore(f))
  BY <1>1, <1>2
<1>5. ASSUME NEW i \in 1 .. n, NEW j \in 1 .. n, NEW k \in 1 .. n,
             <<i, j>> \in ByScore(f), <<j, k>> \in ByScore(f)
      PROVE  <<i, k>> \in ByScore(f)
  BY <1>1, <1>2, <1>5
<1> QED
  BY <1>3, <1>4, <1>5 DEF Orders

\* Every place of the pool has a score.
LEMMA ParseScoresType ==
  ASSUME TypeInv, NEW x \in Replies
  PROVE  ParseScores(x) \in [1 .. Len(Pool) -> Int]
<1>1. \A i \in 1 .. Len(Pool) : LastScore(x, ScoresOf(x, i - 1)) \in Int
  BY LastScoreIs DEF ScoresOf
<1> QED
  BY <1>1, PoolType DEF ParseScores

\* Reordering loses no passage of the pool and serves none twice, and puts a
\* passage with the highest score first.
LEMMA ReorderRanks ==
  ASSUME TypeInv, NEW x \in Replies
  PROVE  /\ Ranking(Reorder(x), ToSet(candidates))
         /\ Len(Reorder(x)) = Len(Pool)
         /\ \A i \in 1 .. Len(Pool) :
              (\A j \in 1 .. Len(Pool) : j # i => ParseScores(x)[i] > ParseScores(x)[j])
                => Reorder(x)[1] = Pool[i]
<1> DEFINE n == Len(Pool)
           f == ParseScores(x)
           o == OrderedBy(DOMAIN Pool, ByScore(f))
<1>1. n \in Nat /\ DOMAIN Pool = 1 .. n /\ Ranking(Pool, ToSet(candidates))
  BY PoolType
<1>2. f \in [1 .. n -> Int]
  BY ParseScoresType
<1>3. IsFiniteSet(1 .. n) /\ Cardinality(1 .. n) = n
  <2> HIDE DEF n
  <2>1. 1 \in Int /\ n \in Int
    BY <1>1
  <2>2. IsFiniteSet(1 .. n) /\ Cardinality(1 .. n) = IF 1 > n THEN 0 ELSE n - 1 + 1
    BY <2>1, FS_Interval
  <2> QED
    BY <1>1, <2>2
<1>4. Orders(ByScore(f), 1 .. n)
  BY <1>1, <1>2, ByScoreOrders
<1>5. /\ o \in [1 .. n -> 1 .. n]
      /\ \A i, j \in 1 .. n : i < j => <<o[i], o[j]>> \in ByScore(f)
      /\ \A k \in 1 .. n : \E i \in 1 .. n : o[i] = k
      /\ \A i, j \in 1 .. n : o[i] = o[j] => i = j
  BY <1>1, <1>3, <1>4, OrderedByLists DEF Lists
<1>6. Reorder(x) = [i \in 1 .. n |-> Pool[o[i]]]
  BY <1>5 DEF Reorder
<1> HIDE DEF n, f, o
<1>7. \A i \in 1 .. n : Pool[o[i]] \in ToSet(candidates)
  BY <1>1, <1>5 DEF Ranking, n
<1>8. Reorder(x) \in Seq(ToSet(candidates)) /\ Len(Reorder(x)) = n
  BY <1>1, <1>6, <1>7
<1>9. Ranking(Reorder(x), ToSet(candidates))
  <2>1. ASSUME NEW i \in 1 .. n, NEW j \in 1 .. n, Pool[o[i]] = Pool[o[j]]
        PROVE  i = j
    <3>1. o[i] \in 1 .. n /\ o[j] \in 1 .. n
      BY <1>5
    <3>2. o[i] = o[j]
      BY <1>1, <2>1, <3>1 DEF Ranking, n
    <3> QED
      BY <1>5, <3>2
  <2> QED
    BY <1>6, <1>8, <2>1 DEF Ranking
<1>10. ASSUME NEW i \in 1 .. n, \A j \in 1 .. n : j # i => f[i] > f[j]
       PROVE  Reorder(x)[1] = Pool[i]
  <2>1. PICK k \in 1 .. n : o[k] = i
    BY <1>5
  <2>2. k = 1
    <3> SUFFICES ASSUME k # 1 PROVE FALSE
      OBVIOUS
    <3>1. 1 \in 1 .. n /\ 1 < k
      BY <1>1, <2>1
    <3>2. <<o[1], i>> \in ByScore(f) /\ o[1] \in 1 .. n /\ o[1] # i
      BY <1>5, <2>1, <3>1
    <3>3. f[o[1]] >= f[i]
      BY <1>2, <3>2 DEF ByScore
    <3>4. f[i] > f[o[1]]
      BY <1>10, <3>2
    <3> QED
      BY <1>2, <3>2, <3>3, <3>4
  <2> QED
    BY <1>6, <2>1, <2>2
<1> QED
  BY <1>8, <1>9, <1>10 DEF n, f

\* Each way of serving gives the candidates, each once, as many as asked for and
\* as the scoring prompt holds.
Serves(s) ==
  /\ IsInjective(s) /\ ToSet(s) \subseteq ToSet(candidates)
  /\ Len(s) >= Least(topN, Len(Pool))

\* The fusion order serves.
LEMMA NoopServes ==
  ASSUME TypeInv
  PROVE  Serves(Noop(candidates, topN))
<1>1. topN \in Nat
  BY DEF TypeInv
<1>2. /\ Ranking(First(candidates, topN), ToSet(candidates))
      /\ Len(First(candidates, topN)) = Least(topN, Len(candidates))
  BY <1>1, PoolType, FirstKeeps
<1>3. Least(topN, Len(candidates)) >= Least(topN, Len(Pool))
  BY <1>1, PoolType DEF Least
<1> QED
  BY <1>2, <1>3, RankingSet DEF Serves, Noop

\* The scored order serves.
LEMMA ReorderServes ==
  ASSUME TypeInv, NEW x \in Replies
  PROVE  Serves(Noop(Reorder(x), topN))
<1>1. topN \in Nat
  BY DEF TypeInv
<1>2. /\ Ranking(First(Reorder(x), topN), ToSet(candidates))
      /\ Len(First(Reorder(x), topN)) = Least(topN, Len(Pool))
  BY <1>1, ReorderRanks, FirstKeeps
<1>3. Least(topN, Len(Pool)) \in Nat
  BY <1>1, PoolType DEF Least
<1> QED
  BY <1>2, <1>3, RankingSet DEF Serves, Noop

\* The claims of a reply, by its entries.
LEMMA ClaimsOfEntries ==
  ASSUME NEW x \in Replies, NEW c
  PROVE  c \in Claims(x) <=>
           \E p \in Entries(x.groups) : c = <<IndexAt(x, p) + 1, ScoreAt(x, p)>>
<1> DEFINE Claim(p) == <<IF x.form = "numbers" THEN p[2]
                           ELSE x.groups[p[1]][p[2]].index + 1,
                         x.groups[p[1]][p[2]].score>>
<1>1. \A p \in Entries(x.groups) : Claim(p) = <<IndexAt(x, p) + 1, ScoreAt(x, p)>>
  <2> TAKE p \in Entries(x.groups)
  <2>1. p[2] \in Nat
    BY EntryType
  <2> QED
    BY <2>1 DEF IndexAt, ScoreAt
<1>2. ASSUME NEW k \in DOMAIN x.groups, NEW i \in DOMAIN x.groups[k]
      PROVE  <<k, i>> \in Entries(x.groups)
  BY DEF Entries
<1>3. ASSUME NEW p \in Entries(x.groups)
      PROVE  p[1] \in DOMAIN x.groups /\ p[2] \in DOMAIN x.groups[p[1]]
  BY DEF Entries
<1>4. c \in Claims(x) <=> \E k \in DOMAIN x.groups : \E i \in DOMAIN x.groups[k] :
                         c = <<IF x.form = "numbers" THEN i
                                 ELSE x.groups[k][i].index + 1,
                               x.groups[k][i].score>>
  BY DEF Claims
<1>5. ASSUME c \in Claims(x) PROVE \E p \in Entries(x.groups) : c = Claim(p)
  <2>0. PICK k \in DOMAIN x.groups : \E i \in DOMAIN x.groups[k] :
               c = <<IF x.form = "numbers" THEN i
                       ELSE x.groups[k][i].index + 1,
                     x.groups[k][i].score>>
    BY <1>4, <1>5
  <2>1. PICK i \in DOMAIN x.groups[k] :
               c = <<IF x.form = "numbers" THEN i
                       ELSE x.groups[k][i].index + 1,
                     x.groups[k][i].score>>
    BY <2>0
  <2>2. c = Claim(<<k, i>>)
    BY <2>1
  <2> QED
    BY <1>2, <2>2
<1>6. ASSUME NEW p \in Entries(x.groups), c = Claim(p) PROVE c \in Claims(x)
  BY <1>3, <1>4, <1>6
<1> QED
  BY <1>1, <1>5, <1>6

\* The passage that a reply puts above all others is the first of the reordered.
LEMMA BestIsFirst ==
  ASSUME TypeInv, NEW x \in Replies, NEW c \in Claims(x),
         c[1] \in DOMAIN Pool, c[2] > 0,
         \A o \in Claims(x) \ {c} : o[1] # c[1] /\ o[2] < c[2]
  PROVE  Usable(x) /\ Noop(Reorder(x), topN)[1] = Pool[c[1]]
<1> DEFINE n == Len(Pool)
           i == c[1]
           f == ParseScores(x)
<1>1. n \in Nat /\ DOMAIN Pool = 1 .. n /\ i \in 1 .. n
  BY PoolType
<1>2. PICK p \in Entries(x.groups) : c = <<IndexAt(x, p) + 1, ScoreAt(x, p)>>
  BY ClaimsOfEntries
<1>3. /\ \A q \in Entries(x.groups) : IndexAt(x, q) \in Int /\ ScoreAt(x, q) \in Int
      /\ c[1] \in Int /\ c[2] \in Int
  BY <1>2, EntryType
<1>4. p \in ScoresOf(x, i - 1)
  BY <1>2, <1>3 DEF ScoresOf
<1>5. Usable(x)
  BY <1>1, <1>4 DEF Usable
<1>6. ASSUME NEW q \in Entries(x.groups)
      PROVE  /\ IndexAt(x, q) = i - 1 => ScoreAt(x, q) = c[2]
             /\ IndexAt(x, q) # i - 1 => ScoreAt(x, q) < c[2]
  <2> DEFINE o == <<IndexAt(x, q) + 1, ScoreAt(x, q)>>
  <2>1. o \in Claims(x)
    BY ClaimsOfEntries
  <2>2. o = c \/ (o[1] # c[1] /\ o[2] < c[2])
    BY <2>1
  <2> QED
    BY <1>2, <1>3, <2>2
<1>7. f[i] = c[2]
  <2>1. f[i] = LastScore(x, ScoresOf(x, i - 1))
    BY <1>1 DEF ParseScores
  <2>2. ScoresOf(x, i - 1) \subseteq Entries(x.groups) /\ ScoresOf(x, i - 1) # {}
    BY <1>4 DEF ScoresOf
  <2>3. PICK q \in ScoresOf(x, i - 1) : f[i] = ScoreAt(x, q)
    BY <2>1, <2>2, LastScoreIs
  <2> QED
    BY <1>6, <2>3 DEF ScoresOf
<1>8. ASSUME NEW j \in 1 .. n, j # i
      PROVE  f[i] > f[j]
  <2>1. f[j] = LastScore(x, ScoresOf(x, j - 1))
    BY <1>1 DEF ParseScores
  <2>2. ScoresOf(x, j - 1) \subseteq Entries(x.groups)
    BY DEF ScoresOf
  <2>3. CASE ScoresOf(x, j - 1) = {}
    <3>1. f[j] = 0
      BY <2>1, <2>2, <2>3, LastScoreIs
    <3> HIDE DEF f
    <3> QED
      BY <1>3, <1>7, <3>1
  <2>4. CASE ScoresOf(x, j - 1) # {}
    <3>1. PICK q \in ScoresOf(x, j - 1) : f[j] = ScoreAt(x, q)
      BY <2>1, <2>2, <2>4, LastScoreIs
    <3>2. q \in Entries(x.groups) /\ IndexAt(x, q) = j - 1
      BY <3>1 DEF ScoresOf
    <3>3. IndexAt(x, q) # i - 1
      BY <1>1, <1>8, <3>2
    <3>4. ScoreAt(x, q) < c[2]
      BY <1>6, <3>2, <3>3
    <3> HIDE DEF f
    <3> QED
      BY <1>3, <1>7, <3>1, <3>2, <3>4
  <2> QED
    BY <2>3, <2>4
<1>9. Reorder(x)[1] = Pool[i]
  BY <1>1, <1>8, ReorderRanks
<1>10. Noop(Reorder(x), topN)[1] = Reorder(x)[1]
  <2>1. topN \in Nat \ {0}
    BY DEF TypeInv
  <2>2. Ranking(Reorder(x), ToSet(candidates)) /\ Len(Reorder(x)) = n
    BY ReorderRanks
  <2>3. 1 \in 1 .. Least(topN, n)
    BY <1>1, <2>1 DEF Least
  <2> QED
    BY <2>1, <2>2, <2>3, FirstKeeps DEF Noop
<1> QED
  BY <1>5, <1>9, <1>10

-----------------------------------------------------------------------------
(***************************************************************************)
(* What is served.                                                         *)
(***************************************************************************)

\* Both properties speak of the served result only.
ServeInv == BestScoreFirst /\ DegradedStillServes

\* Serving the fusion order claims nothing of the scoring model.
LEMMA FallbackServes ==
  ASSUME TypeInv, candidates' = candidates, topN' = topN, reply' = reply,
         pc = "rerank", result' = Noop(candidates, topN)
  PROVE  ServeInv'
<1>1. reply' = NoReply
  BY DEF TypeInv
<1>2. Claims(reply') = {}
  BY <1>1 DEF Claims, NoReply
<1>3. Pool' = Pool
  BY DEF Pool
<1>4. Serves(result')
  BY NoopServes
<1> QED
  BY <1>2, <1>3, <1>4 DEF ServeInv, BestScoreFirst, DegradedStillServes, Serves

\* A reply is served in its own order if it names a passage of the pool, and as
\* if there were none otherwise.
LEMMA RerankServes == TypeInv /\ Rerank => ServeInv'
<1> SUFFICES ASSUME TypeInv, Rerank PROVE ServeInv'
  OBVIOUS
<1>1. PICK x \in Replies :
        /\ reply' = x
        /\ result' = IF Usable(x) THEN Noop(Reorder(x), topN) ELSE Fallback
  BY DEF Rerank
<1>2. candidates' = candidates /\ topN' = topN
  BY DEF Rerank
<1>3. Pool' = Pool
  BY <1>2 DEF Pool
<1>4. Serves(result')
  BY <1>1, NoopServes, ReorderServes DEF Fallback
<1>5. DegradedStillServes'
  BY <1>2, <1>3, <1>4 DEF DegradedStillServes, Serves
<1>6. BestScoreFirst'
  <2>1. ASSUME NEW c \in Claims(x), c[1] \in DOMAIN Pool, c[2] > 0,
               \A o \in Claims(x) \ {c} : o[1] # c[1] /\ o[2] < c[2]
        PROVE  result'[1] = Pool[c[1]]
    BY <1>1, <2>1, BestIsFirst
  <2> QED
    BY <1>1, <1>3, <2>1 DEF BestScoreFirst
<1> QED
  BY <1>5, <1>6 DEF ServeInv

\* No step after the reranker changes what is served.
LEMMA StepServe == TypeInv /\ ServeInv /\ [Next]_vars => ServeInv'
<1> SUFFICES ASSUME TypeInv, ServeInv, [Next]_vars PROVE ServeInv'
  OBVIOUS
<1>1. CASE HybridSearch \/ KeywordSearch
  BY <1>1 DEF HybridSearch, KeywordSearch, ServeInv, BestScoreFirst, DegradedStillServes
<1>2. CASE KeepOrder
  BY <1>2, FallbackServes DEF KeepOrder
<1>3. CASE Degrade
  BY <1>3, FallbackServes DEF Degrade, Scored, Fallback
<1>4. CASE Rerank
  BY <1>4, RerankServes
<1>5. CASE UNCHANGED vars
  <2>1. Pool' = Pool
    BY <1>5 DEF vars, Pool
  <2> QED
    BY <1>5, <2>1 DEF vars, ServeInv, BestScoreFirst, DegradedStillServes
<1> QED
  BY <1>1, <1>2, <1>3, <1>4, <1>5 DEF Next

\* Nothing is served before the reranker ran.
LEMMA InitServe == Init => ServeInv
  BY DEF Init, ServeInv, BestScoreFirst, DegradedStillServes

\* The passage that the scoring model puts above all others is served first,
\* for every reply in one of the three shapes.
THEOREM BestServedFirst == Spec => []BestScoreFirst
<1>1. ServeInv => BestScoreFirst
  BY DEF ServeInv
<1> QED
  BY <1>1, InitServe, StepServe, TypeInvariant, PTL DEF Spec

\* Whatever becomes of the scoring call, what was found is served, each chunk
\* once, and not fewer than asked for and scored.
THEOREM DegradedServes == Spec => []DegradedStillServes
<1>1. ServeInv => DegradedStillServes
  BY DEF ServeInv
<1> QED
  BY <1>1, InitServe, StepServe, TypeInvariant, PTL DEF Spec
=============================================================================
