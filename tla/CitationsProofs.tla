-------------------------- MODULE CitationsProofs --------------------------
(***************************************************************************)
(* Proofs about an answer's citations, for every stream, every number in   *)
(* brackets and every number of sources. They rest on one fact about       *)
(* numbers: a finite set of them has exactly one increasing enumeration.   *)
(***************************************************************************)
EXTENDS Citations, FiniteSetTheorems, FunctionTheorems, WellFoundedInduction, TLAPS

-----------------------------------------------------------------------------
(***************************************************************************)
(* Increasing enumerations.                                                *)
(***************************************************************************)

Increasing(s) == \A i, j \in DOMAIN s : i < j => s[i] < s[j]

\* s lists the numbers of S in order.
Lists(s, S) == s \in [1 .. Cardinality(S) -> S] /\ Increasing(s)

\* A set of natural numbers has a least element.
LEMMA LeastNat ==
  ASSUME NEW T \in SUBSET Nat, T # {}
  PROVE  \E x \in T : \A y \in T : x <= y
<1>1. PICK R : /\ \A x, y \in Nat : <<y, x>> \in R <=> y < x
               /\ IsWellFoundedOn(R, Nat)
  <2> DEFINE less == {ss \in Nat \X Nat : ss[1] < ss[2]}
  <2>1. OpToRel(<, Nat) = less
    BY DEF OpToRel
  <2>2. IsWellFoundedOn(less, Nat)
    BY NatLessThanWellFounded, <2>1, Zenon
  <2>3. \A x, y \in Nat : <<y, x>> \in less <=> y < x
    OBVIOUS
  <2> QED
    BY <2>2, <2>3, Zenon
<1>2. PICK x \in T : \A y \in T : ~ (<<y, x>> \in R)
  BY <1>1, WFMin, Zenon
<1>3. \A y \in T : ~ (y < x)
  BY <1>1, <1>2, Zenon
<1> QED
  BY <1>3

\* Every finite set of numbers can be listed in order: take a smallest set
\* that cannot, list it without its least number, and put that in front.
LEMMA ListingExists ==
  ASSUME NEW S \in SUBSET Nat, IsFiniteSet(S)
  PROVE  \E s : Lists(s, S)
<1> DEFINE Unlisted(T) == T \in SUBSET Nat /\ IsFiniteSet(T) /\ ~\E s : Lists(s, T)
           sizes == {n \in Nat : \E T \in SUBSET Nat : Unlisted(T) /\ Cardinality(T) = n}
<1> SUFFICES ASSUME ~\E s : Lists(s, S) PROVE FALSE
  OBVIOUS
<1>1. sizes # {}
  <2>1. Unlisted(S)
    OBVIOUS
  <2>2. Cardinality(S) \in Nat
    BY FS_CardinalityType
  <2> QED
    BY <2>1, <2>2
<1>2. PICK n \in sizes : \A m \in sizes : n <= m
  BY <1>1, LeastNat
<1>3. PICK T \in SUBSET Nat : Unlisted(T) /\ Cardinality(T) = n
  BY <1>2
<1>4. T # {}
  <2> SUFFICES ASSUME T = {} PROVE FALSE
    OBVIOUS
  <2>1. Cardinality(T) = 0
    BY FS_EmptySet
  <2>2. Lists([i \in 1 .. Cardinality(T) |-> 0], T)
    BY <2>1 DEF Lists, Increasing
  <2> QED
    BY <1>3, <2>2
<1>5. PICK x \in T : \A y \in T : x <= y
  BY <1>4, LeastNat
<1> DEFINE rest == T \ {x}
<1>6. IsFiniteSet(rest) /\ Cardinality(rest) = n - 1 /\ rest \in SUBSET Nat /\ n \in Nat
  BY <1>3, <1>2, FS_RemoveElement
<1>7. n - 1 \in Nat /\ ~(n - 1 \in sizes)
  BY <1>6, <1>2, FS_CardinalityType
<1>8. PICK s : Lists(s, rest)
  BY <1>6, <1>7
<1> DEFINE t == [i \in 1 .. n |-> IF i = 1 THEN x ELSE s[i - 1]]
<1>9. s \in [1 .. n - 1 -> rest] /\ \A i, j \in 1 .. n - 1 : i < j => s[i] < s[j]
  BY <1>8, <1>6 DEF Lists, Increasing
<1>10. \A i \in 1 .. n : i # 1 => i - 1 \in 1 .. n - 1
  BY <1>6
<1>11. t \in [1 .. n -> T]
  BY <1>9, <1>10
<1>12. ASSUME NEW i \in 1 .. n, NEW j \in 1 .. n, i < j
       PROVE  t[i] < t[j]
  <2>1. j # 1 /\ t[j] = s[j - 1] /\ s[j - 1] \in rest
    BY <1>12, <1>9, <1>10
  <2>2. CASE i = 1
    <3>1. t[i] = x /\ x <= s[j - 1] /\ x # s[j - 1] /\ x \in Nat /\ s[j - 1] \in Nat
      BY <2>1, <2>2, <1>5
    <3> QED
      BY <2>1, <3>1
  <2>3. CASE i # 1
    <3>1. t[i] = s[i - 1] /\ s[i - 1] < s[j - 1]
      BY <2>1, <2>3, <1>12, <1>9, <1>10
    <3> QED
      BY <2>1, <3>1
  <2> QED
    BY <2>2, <2>3
<1>13. Lists(t, T)
  <2>1. DOMAIN t = 1 .. n
    OBVIOUS
  <2> HIDE DEF t
  <2> QED
    BY <2>1, <1>3, <1>11, <1>12 DEF Lists, Increasing
<1> QED
  BY <1>3, <1>13

\* A listing leaves no number out.
LEMMA ListingCovers ==
  ASSUME NEW S \in SUBSET Nat, IsFiniteSet(S), NEW s, Lists(s, S)
  PROVE  \A m \in S : \E i \in 1 .. Cardinality(S) : s[i] = m
<1> DEFINE n == Cardinality(S)
<1>1. n \in Nat
  BY FS_CardinalityType
<1>2. s \in [1 .. n -> S] /\ \A i, j \in 1 .. n : i < j => s[i] < s[j]
  BY DEF Lists, Increasing
<1>3. ASSUME NEW i \in 1 .. n, NEW j \in 1 .. n, s[i] = s[j]
      PROVE  i = j
  <2>1. s[i] \in Nat
    BY <1>2
  <2>2. ~(i < j) /\ ~(j < i)
    BY <1>2, <1>3, <2>1
  <2> QED
    BY <1>1, <2>2
<1>4. s \in Injection(1 .. n, S)
  BY <1>2, <1>3 DEF Injection, IsInjective
<1>5. Cardinality(1 .. n) = n
  BY <1>1, FS_Interval
<1>6. s \in Surjection(1 .. n, S)
  BY <1>4, <1>5, FS_Injection
<1> QED
  BY <1>6 DEF Surjection

\* Two listings of a set agree: where they first differed, the smaller number
\* would have no place in the other.
LEMMA ListingUnique ==
  ASSUME NEW S \in SUBSET Nat, IsFiniteSet(S),
         NEW s, Lists(s, S), NEW t, Lists(t, S)
  PROVE  s = t
<1> DEFINE n == Cardinality(S)
           differ == {i \in 1 .. n : s[i] # t[i]}
<1>1. n \in Nat
  BY FS_CardinalityType
<1>2. /\ s \in [1 .. n -> S] /\ \A i, j \in 1 .. n : i < j => s[i] < s[j]
      /\ t \in [1 .. n -> S] /\ \A i, j \in 1 .. n : i < j => t[i] < t[j]
  BY DEF Lists, Increasing
<1>3. /\ \A m \in S : \E i \in 1 .. n : s[i] = m
      /\ \A m \in S : \E i \in 1 .. n : t[i] = m
  BY ListingCovers
<1> SUFFICES ASSUME differ # {} PROVE FALSE
  <2>1. ASSUME differ = {} PROVE s = t
    <3>1. \A i \in 1 .. n : s[i] = t[i]
      BY <2>1
    <3>2. s = [i \in 1 .. n |-> s[i]] /\ t = [i \in 1 .. n |-> t[i]]
      BY <1>2
    <3> HIDE DEF n
    <3> QED
      BY <3>1, <3>2, Zenon
  <2> QED
    BY <2>1
<1>4. PICK i \in differ : \A j \in differ : i <= j
  <2>1. differ \in SUBSET Nat
    BY <1>1
  <2> QED
    BY <2>1, LeastNat
<1>5. /\ i \in 1 .. n /\ s[i] # t[i] /\ s[i] \in Nat /\ t[i] \in Nat
      /\ \A j \in 1 .. n : j < i => s[j] = t[j]
  <2>1. i \in 1 .. n /\ s[i] # t[i]
    BY <1>4
  <2>2. s[i] \in Nat /\ t[i] \in Nat
    BY <1>2, <2>1
  <2>3. ASSUME NEW j \in 1 .. n, j < i, s[j] # t[j] PROVE FALSE
    <3>1. i <= j
      BY <2>3, <1>4
    <3> QED
      BY <1>1, <2>1, <2>3, <3>1
  <2> QED
    BY <2>1, <2>2, <2>3
<1>6. CASE s[i] < t[i]
  <2>1. PICK j \in 1 .. n : t[j] = s[i]
    BY <1>2, <1>3, <1>5
  <2>2. ~(j < i)
    BY <1>2, <1>5, <2>1
  <2>3. ~(i < j)
    BY <1>2, <1>5, <1>6, <2>1
  <2> QED
    BY <1>1, <1>5, <2>1, <2>2, <2>3
<1>7. CASE t[i] < s[i]
  <2>1. PICK j \in 1 .. n : s[j] = t[i]
    BY <1>2, <1>3, <1>5
  <2>2. ~(j < i)
    BY <1>2, <1>5, <2>1
  <2>3. ~(i < j)
    BY <1>2, <1>5, <1>7, <2>1
  <2> QED
    BY <1>1, <1>5, <2>1, <2>2, <2>3
<1> QED
  BY <1>5, <1>6, <1>7

\* SortedSeq is the listing.
LEMMA SortedIsListing ==
  ASSUME NEW S \in SUBSET Nat, IsFiniteSet(S)
  PROVE  /\ Lists(SortedSeq(S), S)
         /\ \A s : Lists(s, S) => s = SortedSeq(S)
         /\ {SortedSeq(S)[i] : i \in DOMAIN SortedSeq(S)} = S
<1>1. \E s \in [1 .. Cardinality(S) -> S] :
        \A i, j \in DOMAIN s : i < j => s[i] < s[j]
  BY ListingExists DEF Lists, Increasing
<1>2. Lists(SortedSeq(S), S)
  BY <1>1 DEF SortedSeq, Lists, Increasing
<1>3. \A s : Lists(s, S) => s = SortedSeq(S)
  BY <1>2, ListingUnique
<1>4. /\ SortedSeq(S) \in [1 .. Cardinality(S) -> S]
      /\ \A m \in S : \E i \in 1 .. Cardinality(S) : SortedSeq(S)[i] = m
  BY <1>2, ListingCovers DEF Lists
<1> QED
  BY <1>2, <1>3, <1>4

\* The numbers from 1 to n are listed by themselves.
LEMMA SortedInterval ==
  ASSUME NEW n \in Nat
  PROVE  SortedSeq(1 .. n) = [i \in 1 .. n |-> i]
<1>1. 1 .. n \in SUBSET Nat /\ IsFiniteSet(1 .. n) /\ Cardinality(1 .. n) = n
  BY FS_Interval
<1>2. Lists([i \in 1 .. n |-> i], 1 .. n)
  BY <1>1 DEF Lists, Increasing
<1> QED
  BY <1>1, <1>2, SortedIsListing

\* A number above all others comes last.
LEMMA SortedGrows ==
  ASSUME NEW S \in SUBSET Nat, IsFiniteSet(S), NEW x \in Nat, \A y \in S : y < x
  PROVE  LET n == Cardinality(S) IN
         /\ n \in Nat /\ SortedSeq(S) \in [1 .. n -> S]
         /\ SortedSeq(S \cup {x}) =
              [i \in 1 .. n + 1 |-> IF i = n + 1 THEN x ELSE SortedSeq(S)[i]]
<1> DEFINE n == Cardinality(S)
           s == SortedSeq(S)
           t == [i \in 1 .. n + 1 |-> IF i = n + 1 THEN x ELSE s[i]]
<1>1. n \in Nat
  BY FS_CardinalityType
<1>2. s \in [1 .. n -> S] /\ \A i, j \in 1 .. n : i < j => s[i] < s[j]
  BY SortedIsListing DEF Lists, Increasing
<1>3. /\ S \cup {x} \in SUBSET Nat /\ IsFiniteSet(S \cup {x})
      /\ Cardinality(S \cup {x}) = n + 1
  BY FS_AddElement
<1> HIDE DEF n, s
<1>4. t \in [1 .. n + 1 -> S \cup {x}]
  BY <1>1, <1>2
<1>5. ASSUME NEW i \in 1 .. n + 1, NEW j \in 1 .. n + 1, i < j
      PROVE  t[i] < t[j]
  <2>1. i \in 1 .. n /\ t[i] = s[i] /\ s[i] \in S
    BY <1>1, <1>2, <1>5
  <2>2. CASE j = n + 1
    BY <2>1, <2>2
  <2>3. CASE j # n + 1
    BY <1>1, <1>2, <1>5, <2>1, <2>3
  <2> QED
    BY <2>2, <2>3
<1>6. Lists(t, S \cup {x})
  <2>1. DOMAIN t = 1 .. n + 1
    OBVIOUS
  <2> HIDE DEF t
  <2> QED
    BY <1>3, <1>4, <1>5, <2>1 DEF Lists, Increasing
<1>7. SortedSeq(S \cup {x}) = t
  BY <1>3, <1>6, SortedIsListing
<1> QED
  BY <1>1, <1>2, <1>7 DEF n, s

-----------------------------------------------------------------------------
(***************************************************************************)
(* Keeping some positions of a sequence.                                   *)
(***************************************************************************)

\* What is kept is a sequence of exactly the values at those positions.
LEMMA KeptFacts ==
  ASSUME NEW s, NEW I \in SUBSET Nat, IsFiniteSet(I)
  PROVE  /\ Cardinality(I) \in Nat
         /\ Kept(s, I) \in [1 .. Cardinality(I) -> {s[k] : k \in I}]
         /\ ToSet(Kept(s, I)) = {s[k] : k \in I}
<1> DEFINE k == SortedSeq(I)
<1>1. Cardinality(I) \in Nat
  BY FS_CardinalityType
<1>2. k \in [1 .. Cardinality(I) -> I] /\ {k[i] : i \in DOMAIN k} = I
  BY SortedIsListing DEF Lists
<1>3. Kept(s, I) = [i \in DOMAIN k |-> s[k[i]]]
  BY DEF Kept
<1> HIDE DEF k
<1>4. Kept(s, I) \in [1 .. Cardinality(I) -> {s[j] : j \in I}]
  BY <1>2, <1>3
<1>5. ToSet(Kept(s, I)) = {s[k[i]] : i \in DOMAIN k}
  BY <1>3 DEF ToSet
<1>6. {s[k[i]] : i \in DOMAIN k} = {s[j] : j \in I}
  BY <1>2
<1> QED
  BY <1>1, <1>4, <1>5, <1>6

\* Every position: the sequence itself.
LEMMA KeptAll ==
  ASSUME NEW S, NEW s \in Seq(S)
  PROVE  Kept(s, DOMAIN s) = s
<1>1. DOMAIN s = 1 .. Len(s) /\ Len(s) \in Nat /\ s = [i \in 1 .. Len(s) |-> s[i]]
  OBVIOUS
<1>2. SortedSeq(DOMAIN s) = [i \in 1 .. Len(s) |-> i]
  BY <1>1, SortedInterval
<1> QED
  BY <1>1, <1>2 DEF Kept

\* One more position behind the others: one more value at the end.
LEMMA KeptGrows ==
  ASSUME NEW S, NEW s, NEW I \in SUBSET Nat, IsFiniteSet(I),
         \A k \in I : s[k] \in S,
         NEW x \in Nat, \A y \in I : y < x
  PROVE  Kept(s, I \cup {x}) = Append(Kept(s, I), s[x])
<1> DEFINE n == Cardinality(I)
           k == SortedSeq(I)
           l == SortedSeq(I \cup {x})
<1>1. /\ n \in Nat /\ k \in [1 .. n -> I]
      /\ l = [i \in 1 .. n + 1 |-> IF i = n + 1 THEN x ELSE k[i]]
  BY SortedGrows
<1>2. Kept(s, I) = [i \in DOMAIN k |-> s[k[i]]] /\ Kept(s, I \cup {x}) = [i \in DOMAIN l |-> s[l[i]]]
  BY DEF Kept
<1> HIDE DEF n, k, l
<1>3. Kept(s, I) \in Seq(S) /\ Len(Kept(s, I)) = n
  <2>1. Kept(s, I) = [i \in 1 .. n |-> s[k[i]]]
    BY <1>1, <1>2
  <2>2. \A i \in 1 .. n : s[k[i]] \in S
    BY <1>1
  <2> QED
    BY <1>1, <2>1, <2>2
<1>4. /\ Append(Kept(s, I), s[x]) =
           [i \in 1 .. n + 1 |-> IF i = n + 1 THEN s[x] ELSE Kept(s, I)[i]]
  BY <1>1, <1>3
<1>5. Kept(s, I \cup {x}) = [i \in 1 .. n + 1 |-> s[l[i]]]
  BY <1>1, <1>2
<1>6. \A i \in 1 .. n + 1 : s[l[i]] = IF i = n + 1 THEN s[x] ELSE Kept(s, I)[i]
  BY <1>1, <1>2
<1> QED
  BY <1>4, <1>5, <1>6

\* Stripping takes the bad numbers, and nothing else.
LEMMA StripMarkers ==
  ASSUME NEW t \in Seq(Seq(Nat)), NEW bad
  PROVE  /\ Markers(StripUnknownMarkers(t, bad)) = Markers(t) \ bad
         /\ bad \cap Markers(t) = {} => StripUnknownMarkers(t, bad) = t
<1> DEFINE good(i) == {k \in DOMAIN t[i] : t[i][k] \notin bad}
           u == StripUnknownMarkers(t, bad)
<1>1. u = [i \in DOMAIN t |-> Kept(t[i], good(i))]
  BY DEF StripUnknownMarkers
<1>2. ASSUME NEW i \in DOMAIN t
      PROVE  ToSet(u[i]) = ToSet(t[i]) \ bad
  <2>1. t[i] \in Seq(Nat) /\ DOMAIN t[i] = 1 .. Len(t[i]) /\ Len(t[i]) \in Nat
    OBVIOUS
  <2>2. IsFiniteSet(1 .. Len(t[i])) /\ 1 .. Len(t[i]) \in SUBSET Nat
    BY <2>1, FS_Interval
  <2>3. good(i) \in SUBSET Nat /\ IsFiniteSet(good(i))
    BY <2>1, <2>2, FS_Subset
  <2>4. ToSet(u[i]) = {t[i][k] : k \in good(i)}
    BY <1>1, <2>3, KeptFacts
  <2> QED
    BY <2>4 DEF ToSet
<1>3. DOMAIN u = DOMAIN t
  BY <1>1
<1>4. Markers(u) = Markers(t) \ bad
  <2> HIDE DEF u
  <2> QED
    BY <1>2, <1>3 DEF Markers
<1>5. ASSUME bad \cap Markers(t) = {} PROVE u = t
  <2>1. ASSUME NEW i \in DOMAIN t PROVE Kept(t[i], good(i)) = t[i]
    <3>1. ToSet(t[i]) \cap bad = {}
      BY <1>5 DEF Markers
    <3>2. good(i) = DOMAIN t[i]
      BY <3>1 DEF ToSet
    <3> QED
      BY <3>2, KeptAll
  <2>2. t = [i \in DOMAIN t |-> t[i]]
    OBVIOUS
  <2> HIDE DEF good
  <2> QED
    BY <1>1, <2>1, <2>2
<1> QED
  BY <1>4, <1>5

-----------------------------------------------------------------------------
(***************************************************************************)
(* The invariant: what was shown is what has been read, and what is kept   *)
(* of a verified answer was computed from all of it.                       *)
(***************************************************************************)

ShapeOK ==
  /\ pc \in {"stream", "failed", "verified", "replayed"}
  /\ count \in Nat /\ frames \in Seq(Seq(Nat)) /\ read \in 0 .. Len(frames)

\* The frames with usable text among the first n.
Spoken(n) == (1 .. n) \ mute

ShownIsRead == shown = Kept(frames, Spoken(read))

\* answer, citations and entry are what Verify makes of the text shown.
VerifiedOnce ==
  Verified =>
    LET used == UsedMarkers(shown, count) IN
    /\ read = Len(frames)
    /\ answer = StripUnknownMarkers(shown, UnknownMarkers(shown, count))
    /\ citations = [i \in DOMAIN used |-> [marker |-> used[i], chunk |-> Ranked[used[i]]]]
    /\ entry = [answer |-> answer, ids |-> [i \in DOMAIN used |-> Ranked[used[i]]]]

HitIsHydrated == pc = "replayed" => replay = Hydrate(entry.ids)

CiteInv == ShapeOK /\ ShownIsRead /\ VerifiedOnce /\ HitIsHydrated

\* What is shown is a text.
LEMMA ShownIsText ==
  ASSUME CiteInv
  PROVE  shown \in Seq(Seq(Nat))
<1>1. frames \in Seq(Seq(Nat)) /\ Len(frames) \in Nat /\ read \in 0 .. Len(frames)
  BY DEF CiteInv, ShapeOK
<1>2. Spoken(read) \in SUBSET Nat /\ IsFiniteSet(Spoken(read))
  <2>1. IsFiniteSet(1 .. read) /\ 1 .. read \in SUBSET Nat
    BY <1>1, FS_Interval
  <2> QED
    BY <2>1, FS_Subset DEF Spoken
<1>3. \A k \in Spoken(read) : frames[k] \in Seq(Nat)
  BY <1>1 DEF Spoken
<1>4. /\ Cardinality(Spoken(read)) \in Nat
      /\ shown \in [1 .. Cardinality(Spoken(read)) -> {frames[k] : k \in Spoken(read)}]
  BY <1>2, KeptFacts DEF CiteInv, ShownIsRead
<1>5. shown \in [1 .. Cardinality(Spoken(read)) -> Seq(Nat)]
  BY <1>3, <1>4
<1> QED
  BY <1>4, <1>5

\* The valid markers of a text with count sources.
LEMMA ValidFacts ==
  ASSUME NEW t \in Seq(Seq(Nat)), NEW n \in Nat
  PROVE  /\ ValidMarkers(t, n) \in SUBSET Nat /\ IsFiniteSet(ValidMarkers(t, n))
         /\ ValidMarkers(t, n) \subseteq 1 .. n
         /\ Markers(StripUnknownMarkers(t, UnknownMarkers(t, n))) = ValidMarkers(t, n)
<1>1. Markers(t) \subseteq Nat
  BY DEF Markers, ToSet
<1>2. ValidMarkers(t, n) \subseteq 1 .. n
  BY <1>1 DEF ValidMarkers
<1>3. IsFiniteSet(1 .. n)
  BY FS_Interval
<1>4. Markers(StripUnknownMarkers(t, UnknownMarkers(t, n))) = Markers(t) \ UnknownMarkers(t, n)
  BY StripMarkers
<1>5. Markers(t) \ UnknownMarkers(t, n) = ValidMarkers(t, n)
  BY DEF UnknownMarkers, ValidMarkers
<1> QED
  BY <1>1, <1>2, <1>3, <1>4, <1>5, FS_Subset

LEMMA CiteInit ==
  ASSUME Init
  PROVE  CiteInv
<1>1. PICK n \in 0 .. MaxGroups : frames \in [1 .. n -> Groups]
  BY DEF Init, Texts, SeqOf
<1>2. Groups \subseteq Seq(Nat)
  <2> SUFFICES ASSUME NEW g \in Groups PROVE g \in Seq(Nat)
    OBVIOUS
  <2>1. PICK m \in 0 .. MaxSize : g \in [1 .. m -> Numbers]
    BY DEF Groups, SeqOf
  <2>2. m \in Nat /\ g \in [1 .. m -> Nat]
    <3>1. Numbers \subseteq Nat
      BY CitationsAssumption
    <3>2. m \in Nat
      BY <2>1
    <3>3. \A i \in 1 .. m : g[i] \in Nat
      BY <2>1, <3>1
    <3> QED
      BY <2>1, <3>2, <3>3
  <2> QED
    BY <2>2
<1>3. n \in Nat /\ frames \in [1 .. n -> Seq(Nat)]
  BY <1>1, <1>2
<1>4. frames \in Seq(Seq(Nat)) /\ Len(frames) \in Nat
  BY <1>3
<1>5. ShapeOK
  BY <1>4 DEF Init, ShapeOK
<1>6. ShownIsRead
  <2>1. Spoken(read) = {} /\ shown = <<>>
    BY DEF Init, Spoken
  <2>2. Cardinality(Spoken(read)) = 0 /\ IsFiniteSet(Spoken(read))
    BY <2>1, FS_EmptySet
  <2>3. Kept(frames, {}) \in [1 .. 0 -> {frames[k] : k \in {}}]
    BY <2>1, <2>2, KeptFacts
  <2>4. Kept(frames, {}) = <<>>
    BY <2>3
  <2> QED
    BY <2>1, <2>4 DEF ShownIsRead
<1> QED
  BY <1>5, <1>6 DEF Init, CiteInv, VerifiedOnce, Verified, HitIsHydrated

\* A frame is read: it goes to the end of what is shown, or nowhere.
LEMMA StreamKeeps ==
  ASSUME CiteInv, Stream
  PROVE  CiteInv'
<1>1. /\ frames \in Seq(Seq(Nat)) /\ Len(frames) \in Nat /\ read \in 0 .. Len(frames)
      /\ read' = read + 1 /\ read' <= Len(frames) /\ read' \in Nat
      /\ UNCHANGED <<pc, count, frames, mute>> /\ pc = "stream"
  BY DEF CiteInv, ShapeOK, Stream
<1>2. ShapeOK'
  BY <1>1 DEF CiteInv, ShapeOK
<1>3. ShownIsRead'
  <2>1. CASE read' \in mute
    <3>1. (1 .. read + 1) \ mute = (1 .. read) \ mute
      BY <1>1, <2>1
    <3>2. shown' = Kept(frames, (1 .. read) \ mute)
      BY <2>1 DEF Stream, CiteInv, ShownIsRead, Spoken
    <3> QED
      BY <1>1, <3>1, <3>2 DEF ShownIsRead, Spoken
  <2>2. CASE read' \notin mute
    <3> DEFINE I == (1 .. read) \ mute
    <3>1. (1 .. read + 1) \ mute = I \cup {read + 1}
      <4>1. 1 .. read + 1 = (1 .. read) \cup {read + 1}
        <5>1. read \in Nat
          BY <1>1
        <5>2. \A y \in Int : y \in 1 .. read + 1 <=> y \in 1 .. read \/ y = read + 1
          BY <5>1
        <5> QED
          BY <5>1, <5>2
      <4>2. read + 1 \notin mute
        BY <1>1, <2>2
      <4> QED
        BY <4>1, <4>2
    <3>2. I \in SUBSET Nat /\ \A y \in I : y < read + 1 /\ frames[y] \in Seq(Nat)
      BY <1>1
    <3>3. IsFiniteSet(I)
      <4>1. IsFiniteSet(1 .. read)
        BY <1>1, FS_Interval
      <4> QED
        BY <4>1, FS_Subset
    <3>4. shown = Kept(frames, I)
      BY DEF CiteInv, ShownIsRead, Spoken
    <3>5. shown' = Append(shown, frames[read + 1])
      BY <1>1, <2>2 DEF Stream
    <3> HIDE DEF I
    <3>6. Kept(frames, I \cup {read + 1}) = Append(Kept(frames, I), frames[read + 1])
      <4>1. /\ I \in SUBSET Nat /\ read + 1 \in Nat
            /\ \A k \in I : frames[k] \in Seq(Nat)
            /\ \A y \in I : y < read + 1
        BY <1>1, <3>2
      <4> QED
        BY <4>1, <3>3, KeptGrows, Zenon
    <3>7. shown' = Kept(frames, (1 .. read + 1) \ mute)
      BY <3>1, <3>4, <3>5, <3>6
    <3> QED
      BY <1>1, <3>7 DEF ShownIsRead, Spoken
  <2> QED
    BY <2>1, <2>2
<1> QED
  BY <1>1, <1>2, <1>3 DEF CiteInv, VerifiedOnce, Verified, HitIsHydrated

\* The stream has ended: an answer without unknown markers is what stripping
\* them would leave.
LEMMA VerifyKeeps ==
  ASSUME CiteInv, Verify
  PROVE  CiteInv'
<1> DEFINE unknown == UnknownMarkers(shown, count)
           final == StripUnknownMarkers(shown, unknown)
<1>1. unknown = {} => final = shown
  BY ShownIsText, StripMarkers
<1>2. /\ answer' = final /\ entry'.answer = final
      /\ entry' = [answer |-> final, ids |-> entry'.ids]
  BY <1>1 DEF Verify
<1>3. UNCHANGED <<count, frames, mute, read, shown>> /\ pc' = "verified" /\ read = Len(frames)
  BY DEF Verify, AtEnd, stream
<1>4. VerifiedOnce'
  BY <1>2, <1>3 DEF Verify, VerifiedOnce
<1> QED
  BY <1>3, <1>4 DEF CiteInv, ShapeOK, ShownIsRead, Spoken, HitIsHydrated

\* CiteInv holds in every state.
THEOREM CiteInvariant == Spec => []CiteInv
<1>1. Init => CiteInv
  BY CiteInit
<1>2. CiteInv /\ [Next]_vars => CiteInv'
  <2> SUFFICES ASSUME CiteInv, [Next]_vars PROVE CiteInv'
    OBVIOUS
  <2>1. CASE Stream
    BY <2>1, StreamKeeps
  <2>2. CASE Break
    BY <2>2 DEF Break, stream, CiteInv, ShapeOK, ShownIsRead, Spoken, VerifiedOnce,
                Verified, HitIsHydrated
  <2>3. CASE Verify
    BY <2>3, VerifyKeeps
  <2>4. CASE Hit
    BY <2>4 DEF Hit, stream, CiteInv, ShapeOK, ShownIsRead, Spoken, VerifiedOnce,
                Verified, HitIsHydrated
  <2>5. CASE UNCHANGED vars
    BY <2>5 DEF vars, CiteInv, ShapeOK, ShownIsRead, Spoken, VerifiedOnce,
                Verified, HitIsHydrated
  <2> QED
    BY <2>1, <2>2, <2>3, <2>4, <2>5 DEF Next
<1> QED
  BY <1>1, <1>2, PTL DEF Spec

-----------------------------------------------------------------------------
\* parseCitations, stripUnknownMarkers and the assembly of the citations fit
\* together: the markers left in a verified answer are exactly the ones its
\* citations explain, each with the chunk the model saw under that number.
THEOREM AnswersResolve == Spec => []VerifiedAnswerResolves
<1>1. CiteInv => VerifiedAnswerResolves
  <2> SUFFICES ASSUME CiteInv, Verified PROVE Resolves(answer, citations)
    BY DEF VerifiedAnswerResolves
  <2> DEFINE valid == ValidMarkers(shown, count)
             used == SortedSeq(valid)
  <2>1. /\ valid \in SUBSET Nat /\ IsFiniteSet(valid) /\ valid \subseteq 1 .. count
        /\ Markers(answer) = valid
    BY ShownIsText, ValidFacts DEF CiteInv, ShapeOK, VerifiedOnce
  <2>2. citations = [i \in DOMAIN used |-> [marker |-> used[i], chunk |-> Ranked[used[i]]]]
    BY DEF CiteInv, VerifiedOnce, UsedMarkers
  <2>3. {used[i] : i \in DOMAIN used} = valid
    BY <2>1, SortedIsListing
  <2> HIDE DEF used, valid
  <2>4. {citations[i].marker : i \in DOMAIN citations} = {used[i] : i \in DOMAIN used}
    BY <2>2
  <2>5. \A i \in DOMAIN citations :
          citations[i].marker \in valid /\ citations[i].chunk = Ranked[citations[i].marker]
    BY <2>2, <2>3
  <2> QED
    BY <2>1, <2>3, <2>4, <2>5 DEF Resolves
<1> QED
  BY <1>1, CiteInvariant, PTL

\* PutAnswer only ever stores what was made of the whole stream: a cut one
\* leaves nothing for a later request to be served.
THEOREM CacheHoldsWholeAnswers == Spec => []CachedIsWhole
<1>1. CiteInv => CachedIsWhole
  <2> SUFFICES ASSUME CiteInv, Verified
               PROVE  LET whole == Kept(frames, DOMAIN frames \ mute)
                      IN  entry.answer = StripUnknownMarkers(whole, UnknownMarkers(whole, count))
    BY DEF CachedIsWhole
  <2>1. DOMAIN frames = 1 .. read
    BY DEF CiteInv, ShapeOK, VerifiedOnce
  <2>2. shown = Kept(frames, DOMAIN frames \ mute)
    BY <2>1 DEF CiteInv, ShownIsRead, Spoken
  <2>3. entry.answer = StripUnknownMarkers(shown, UnknownMarkers(shown, count))
    BY DEF CiteInv, VerifiedOnce
  <2> QED
    BY <2>2, <2>3
<1> QED
  BY <1>1, CiteInvariant, PTL

\* hydrateCitations names the chunks of the first answer in their order, and
\* its numbers fit the text exactly when the model left no gap.
THEOREM ReplaysKeepSources == Spec => []ReplayKeepsSources
<1>1. CiteInv => ReplayKeepsSources
  <2> SUFFICES ASSUME CiteInv, pc = "replayed"
               PROVE  /\ [i \in DOMAIN replay |-> replay[i].chunk]
                           = [i \in DOMAIN citations |-> citations[i].chunk]
                      /\ Resolves(entry.answer, replay)
                           <=> Markers(entry.answer) = 1 .. Len(entry.ids)
    BY DEF ReplayKeepsSources
  <2> DEFINE valid == ValidMarkers(shown, count)
             used == SortedSeq(valid)
             n == Cardinality(valid)
  <2>1. Verified
    BY DEF Verified
  <2>2. /\ valid \in SUBSET Nat /\ IsFiniteSet(valid) /\ valid \subseteq 1 .. count
        /\ Markers(entry.answer) = valid
    BY <2>1, ShownIsText, ValidFacts DEF CiteInv, ShapeOK, VerifiedOnce
  <2>3. n \in Nat /\ used \in [1 .. n -> valid]
    BY <2>2, SortedIsListing, FS_CardinalityType DEF Lists
  <2>4. /\ citations = [i \in DOMAIN used |-> [marker |-> used[i], chunk |-> Ranked[used[i]]]]
        /\ entry.ids = [i \in DOMAIN used |-> Ranked[used[i]]]
    BY <2>1 DEF CiteInv, VerifiedOnce, UsedMarkers
  <2>5. valid = 1 .. n => \A i \in 1 .. n : used[i] = i
    BY <2>3, SortedInterval
  <2> HIDE DEF used, n
  <2>6. Len(entry.ids) = n /\ DOMAIN entry.ids = 1 .. n
    BY <2>3, <2>4
  <2>7. replay = [i \in 1 .. n |-> [marker |-> i, chunk |-> Ranked[used[i]]]]
    BY <2>3, <2>4, <2>6 DEF CiteInv, HitIsHydrated, Hydrate
  <2>8. [i \in DOMAIN replay |-> replay[i].chunk] = [i \in DOMAIN citations |-> citations[i].chunk]
    BY <2>3, <2>4, <2>7
  <2>9. {replay[i].marker : i \in DOMAIN replay} = 1 .. n
    BY <2>7
  <2>10. Resolves(entry.answer, replay) => valid = 1 .. n
    BY <2>2, <2>9 DEF Resolves
  <2>11. ASSUME valid = 1 .. n PROVE Resolves(entry.answer, replay)
    <3>1. \A i \in DOMAIN replay : i \in valid /\ replay[i] = [marker |-> i, chunk |-> Ranked[i]]
      BY <2>5, <2>7, <2>11
    <3> QED
      BY <2>2, <2>9, <2>11, <3>1 DEF Resolves
  <2> QED
    BY <2>2, <2>6, <2>8, <2>10, <2>11
<1> QED
  BY <1>1, CiteInvariant, PTL
=============================================================================
