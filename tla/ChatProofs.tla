----------------------------- MODULE ChatProofs -----------------------------
(***************************************************************************)
(* Proofs about chat requests, for any number of documents, requests and   *)
(* conversations, and any pattern of failing calls and leaving clients.    *)
(***************************************************************************)
EXTENDS Chat, FiniteSetTheorems, SequenceTheorems, WellFoundedInduction, TLAPS

-----------------------------------------------------------------------------
(***************************************************************************)
(* The answer cache never hides a document. The argument rests on the      *)
(* chunk count in the version: it only grows, and it grows with every      *)
(* document that becomes searchable, so two requests that have read the    *)
(* same version have seen the same documents. Stamps play no part in it.   *)
(***************************************************************************)

\* The typing the argument needs.
ShapeOK ==
  /\ index \in [Docs -> Nat] /\ chunks \in Nat
  /\ pc \in [Requests -> PC]
  /\ outcome \in [Requests -> Outcomes]
  /\ DOMAIN version = Requests
  /\ seen \in [Requests -> [Docs -> Nat]]
  /\ ground \in [Requests -> [Docs -> Nat]]
  /\ served \in [Requests -> Requests]

\* What a request has seen is still there; as long as the count is the same
\* it is all there is.
SeenRemains ==
  \A r \in Requests :
    /\ Indexed(seen[r]) \subseteq Indexed(index)
    /\ version[r].known =>
         /\ version[r].chunks \in Nat /\ version[r].chunks <= chunks
         /\ version[r].chunks = chunks => Indexed(index) \subseteq Indexed(seen[r])

\* The chunk count identifies the documents.
CountIdentifies ==
  \A r, s \in Requests :
    version[r].known /\ version[s].known /\ version[r].chunks = version[s].chunks =>
      Indexed(seen[r]) = Indexed(seen[s])

\* The search comes after the version.
GroundCoversSeen(r) == Indexed(seen[r]) \subseteq Indexed(ground[r])

SearchIsLater ==
  \A r \in Requests : pc[r] \in {"generate", "put"} => GroundCoversSeen(r)

Past(r) == pc[r] \in {"user", "assistant", "log", "done"}

\* A cached answer, and one that has been served, has this of its author a.
Authored(v, a) ==
  a \in Requests /\ Past(a) /\ version[a] = v /\ GroundCoversSeen(a)

EntriesGrounded == \A e \in cache : Authored(e.version, e.by)

HitsGrounded ==
  \A r \in Requests : outcome[r] = "hit" =>
    pc[r] \in {"log", "done"} /\ Authored(version[r], served[r])

ChatInv == /\ ShapeOK /\ SeenRemains /\ CountIdentifies /\ SearchIsLater
           /\ EntriesGrounded /\ HitsGrounded

\* Together the parts say that a hit hides nothing.
LEMMA InvImpliesSeen == ChatInv => NewDocumentsSeen
BY ZenonT(60) DEF ChatInv, ShapeOK, CountIdentifies, HitsGrounded, Authored, GroundCoversSeen,
   NewDocumentsSeen

\* Before the first request nothing has been seen.
LEMMA ChatInvInit == Init => ChatInv
<1> SUFFICES ASSUME Init PROVE ChatInv
  OBVIOUS
<1>1. ShapeOK
  BY DEF Init, CorpusInit, ShapeOK, PC, Outcomes
<1>2. SeenRemains /\ CountIdentifies
  BY DEF Init, CorpusInit, SeenRemains, CountIdentifies, Indexed, NoVersion
<1>3. SearchIsLater /\ EntriesGrounded /\ HitsGrounded
  BY DEF Init, SearchIsLater, EntriesGrounded, HitsGrounded
<1> QED
  BY <1>1, <1>2, <1>3 DEF ChatInv

\* A step that leaves the corpus and what requests have read alone.
LEMMA NothingRead ==
  ASSUME ChatInv, UNCHANGED <<index, chunks, version, seen>>
  PROVE  SeenRemains' /\ CountIdentifies'
BY DEF ChatInv, SeenRemains, CountIdentifies, Indexed

\* An author stays one while nobody reads or searches in its name.
LEMMA AuthorStays ==
  ASSUME ChatInv, NEW v, NEW a, Authored(v, a),
         version'[a] = version[a], seen'[a] = seen[a], ground'[a] = ground[a],
         Past(a)'
  PROVE  Authored(v, a)'
BY DEF Authored, GroundCoversSeen, Indexed

\* A commit of the ingestion pipeline keeps the invariant.
LEMMA IngestPreserves ==
  ASSUME ChatInv, NEW d \in Docs, IngestCommits(d)
  PROVE  ChatInv'
<1>1. /\ index' = [index EXCEPT ![d] = index[d] + 1]
      /\ chunks' = IF index[d] = 0 THEN chunks + NChunks[d] ELSE chunks
      /\ UNCHANGED <<cache, pc, outcome, version, seen, ground, served>>
  BY DEF IngestCommits, reqState
<1>2. NChunks[d] \in Nat /\ NChunks[d] > 0
  BY ChatAssumption
<1>3. ShapeOK'
  BY <1>1, <1>2 DEF ChatInv, ShapeOK
<1>4. Indexed(index) \subseteq Indexed(index')
  BY <1>1 DEF ChatInv, ShapeOK, Indexed
<1>5. SeenRemains'
  <2>1. CASE index[d] = 0
    <3>1. chunks' > chunks /\ chunks \in Nat /\ chunks' \in Nat
      BY <1>1, <1>2, <2>1 DEF ChatInv, ShapeOK
    <3> QED
      BY <1>1, <1>4, <3>1 DEF ChatInv, SeenRemains, Indexed
  <2>2. CASE index[d] # 0
    <3>1. chunks' = chunks
      BY <1>1, <2>2
    <3>2. Indexed(index') = Indexed(index)
      BY <1>1, <2>2 DEF ChatInv, ShapeOK, Indexed
    <3>3. \A r \in Requests : Indexed(seen[r])' = Indexed(seen[r])
      BY <1>1 DEF Indexed
    <3> QED
      BY <1>1, <3>1, <3>2, <3>3 DEF ChatInv, SeenRemains, Indexed
  <2> QED
    BY <2>1, <2>2
<1>6. CountIdentifies' /\ SearchIsLater'
  BY <1>1 DEF ChatInv, CountIdentifies, SearchIsLater, GroundCoversSeen, Indexed
<1>7. EntriesGrounded' /\ HitsGrounded'
  BY <1>1 DEF ChatInv, EntriesGrounded, HitsGrounded, Authored, Past,
     GroundCoversSeen, Indexed
<1> QED
  BY <1>3, <1>5, <1>6, <1>7 DEF ChatInv

\* Most steps of a request only move it on: forward, and into the generation
\* only from there.
LEMMA QuietStep ==
  ASSUME ChatInv, NEW r \in Requests, NEW l \in PC,
         pc' = [pc EXCEPT ![r] = l],
         UNCHANGED <<index, chunks, version, seen, ground, served, cache>>,
         outcome' \in [Requests -> Outcomes],
         \A x \in Requests : outcome'[x] = "hit" => outcome[x] = "hit",
         Past(r) => l \in {"user", "assistant", "log", "done"},
         l \in {"generate", "put"} => pc[r] = "generate",
         pc[r] = "log" => l = "done",
         pc[r] # "done"
  PROVE  ChatInv'
<1>1. ShapeOK'
  BY DEF ChatInv, ShapeOK
<1>2. SeenRemains' /\ CountIdentifies'
  BY NothingRead
<1>3. SearchIsLater'
  BY DEF ChatInv, ShapeOK, SearchIsLater, GroundCoversSeen, Indexed
<1>4. \A a \in Requests : Past(a) => Past(a)'
  BY DEF ChatInv, ShapeOK, Past
<1>5. \A v, a : Authored(v, a) => Authored(v, a)'
  BY <1>4, AuthorStays DEF Authored
<1>6. EntriesGrounded'
  BY <1>5 DEF ChatInv, EntriesGrounded
<1>7. HitsGrounded'
  <2> SUFFICES ASSUME NEW x \in Requests, outcome'[x] = "hit"
               PROVE  pc'[x] \in {"log", "done"} /\ Authored(version[x], served[x])'
    BY DEF HitsGrounded
  <2>1. pc[x] \in {"log", "done"} /\ Authored(version[x], served[x])
    BY DEF ChatInv, HitsGrounded
  <2>2. pc'[x] \in {"log", "done"}
    BY <2>1 DEF ChatInv, ShapeOK
  <2> QED
    BY <1>5, <2>1, <2>2
<1> QED
  BY <1>1, <1>2, <1>3, <1>6, <1>7 DEF ChatInv

\* Reading the version: the request now knows what there is.
LEMMA ReadVersionGrounded ==
  ASSUME ChatInv, NEW r \in Requests, ReadVersion(r)
  PROVE  ChatInv'
<1>1. /\ pc[r] = "version" /\ pc' = [pc EXCEPT ![r] = "lookup"]
      /\ seen' = [seen EXCEPT ![r] = index]
      /\ UNCHANGED <<index, chunks, cache, outcome, ground, served>>
  BY DEF ReadVersion, GoTo, corpusState
<1>2. \E v \in {Fingerprint, Unknown} : version' = [version EXCEPT ![r] = v]
  BY DEF ReadVersion
<1>3. \A x \in Requests \ {r} : version'[x] = version[x] /\ seen'[x] = seen[x]
  BY <1>1, <1>2 DEF ChatInv, ShapeOK
<1>4. /\ seen'[r] = index
      /\ version'[r].known => version'[r].chunks = chunks
  BY <1>1, <1>2 DEF ChatInv, ShapeOK, Fingerprint, Unknown
<1>5. ShapeOK'
  BY <1>1, <1>2 DEF ChatInv, ShapeOK, PC
<1>6. SeenRemains'
  BY <1>1, <1>3, <1>4 DEF ChatInv, ShapeOK, SeenRemains, Indexed
<1>7. CountIdentifies'
  <2> SUFFICES ASSUME NEW x \in Requests, NEW y \in Requests,
                      version'[x].known, version'[y].known,
                      version'[x].chunks = version'[y].chunks
               PROVE  Indexed(seen'[x]) = Indexed(seen'[y])
    BY DEF CountIdentifies, Indexed
  <2>1. \A z \in Requests \ {r} : version[z].known /\ version[z].chunks = chunks =>
          Indexed(seen[z]) = Indexed(index)
    BY DEF ChatInv, SeenRemains
  <2>2. CASE x # r /\ y # r
    BY <1>3, <2>2 DEF ChatInv, CountIdentifies
  <2>3. CASE x = r \/ y = r
    BY <1>3, <1>4, <2>1, <2>3
  <2> QED
    BY <2>2, <2>3
<1>8. SearchIsLater'
  BY <1>1, <1>3 DEF ChatInv, ShapeOK, SearchIsLater, GroundCoversSeen, Indexed
<1>9. \A v, a : Authored(v, a) => a # r /\ Authored(v, a)'
  <2> SUFFICES ASSUME NEW v, NEW a, Authored(v, a)
               PROVE  a # r /\ Authored(v, a)'
    OBVIOUS
  <2>1. a \in Requests /\ a # r /\ Past(a)'
    BY <1>1 DEF ChatInv, ShapeOK, Authored, Past
  <2> QED
    BY <1>1, <1>3, <2>1, AuthorStays
<1>10. EntriesGrounded'
  BY <1>1, <1>9 DEF ChatInv, EntriesGrounded
<1>11. HitsGrounded'
  <2> SUFFICES ASSUME NEW x \in Requests, outcome'[x] = "hit"
               PROVE  pc'[x] \in {"log", "done"} /\ Authored(version[x], served[x])'
    BY DEF HitsGrounded
  <2>1. pc[x] \in {"log", "done"} /\ Authored(version[x], served[x])
    BY <1>1 DEF ChatInv, HitsGrounded
  <2>2. x # r /\ pc'[x] = pc[x] /\ version'[x] = version[x] /\ served'[x] = served[x]
    BY <1>1, <1>3, <2>1 DEF ChatInv, ShapeOK
  <2>3. Authored(version[x], served[x])'
    BY <1>9, <2>1, <2>2 DEF Authored, GroundCoversSeen, Past, Indexed
  <2> QED
    BY <2>1, <2>2, <2>3
<1> QED
  BY <1>5, <1>6, <1>7, <1>8, <1>10, <1>11 DEF ChatInv

\* A hit takes over the entry's author.
LEMMA LookupGrounded ==
  ASSUME ChatInv, NEW r \in Requests, Lookup(r)
  PROVE  ChatInv'
<1>1. /\ pc[r] = "lookup"
      /\ UNCHANGED <<index, chunks, cache, version, seen, ground>>
  BY DEF Lookup, corpusState
<1>2. CASE /\ pc' = [pc EXCEPT ![r] = "retrieve"]
           /\ UNCHANGED <<served, outcome>>
  BY <1>1, <1>2, QuietStep DEF ChatInv, ShapeOK, PC, Past
<1>3. ASSUME NEW e \in cache, HasKey(e, r),
             served' = [served EXCEPT ![r] = e.by],
             outcome' = [outcome EXCEPT ![r] = "hit"],
             pc' = [pc EXCEPT ![r] = "log"]
      PROVE  ChatInv'
  <2>1. Authored(version[r], e.by)
    BY <1>3 DEF ChatInv, EntriesGrounded, HasKey
  <2>2. ShapeOK'
    BY <1>1, <1>3, <2>1 DEF ChatInv, ShapeOK, Authored, PC, Outcomes
  <2>3. SeenRemains' /\ CountIdentifies'
    BY <1>1, NothingRead
  <2>4. SearchIsLater'
    BY <1>1, <1>3 DEF ChatInv, ShapeOK, SearchIsLater, GroundCoversSeen, Indexed
  <2>5. \A v, a : Authored(v, a) => Authored(v, a)'
    <3>1. \A a \in Requests : Past(a) => Past(a)'
      BY <1>1, <1>3 DEF ChatInv, ShapeOK, Past
    <3> QED
      BY <1>1, <3>1, AuthorStays DEF Authored
  <2>6. EntriesGrounded'
    BY <1>1, <2>5 DEF ChatInv, EntriesGrounded
  <2>7. HitsGrounded'
    <3> SUFFICES ASSUME NEW x \in Requests, outcome'[x] = "hit"
                 PROVE  pc'[x] \in {"log", "done"} /\ Authored(version[x], served[x])'
      BY DEF HitsGrounded
    <3>1. CASE x = r
      <4>1. pc'[x] = "log" /\ served'[x] = e.by /\ version'[x] = version[r]
        BY <1>1, <1>3, <3>1 DEF ChatInv, ShapeOK
      <4> QED
        BY <2>1, <2>5, <3>1, <4>1 DEF Authored, GroundCoversSeen, Past, Indexed
    <3>2. CASE x # r
      <4>1. /\ pc'[x] = pc[x] /\ served'[x] = served[x] /\ version'[x] = version[x]
            /\ pc[x] \in {"log", "done"} /\ Authored(version[x], served[x])
        BY <1>1, <1>3, <3>2 DEF ChatInv, ShapeOK, HitsGrounded
      <4> QED
        BY <2>5, <4>1 DEF Authored, GroundCoversSeen, Past, Indexed
    <3> QED
      BY <3>1, <3>2
  <2> QED
    BY <2>2, <2>3, <2>4, <2>6, <2>7 DEF ChatInv
<1> QED
  BY <1>2, <1>3 DEF Lookup, GoTo

\* The search sees at least what was there when the version was read.
LEMMA RetrieveGrounded ==
  ASSUME ChatInv, NEW r \in Requests, Retrieve(r)
  PROVE  ChatInv'
<1>1. /\ pc[r] = "retrieve"
      /\ UNCHANGED <<index, chunks, cache, version, seen, served>>
  BY DEF Retrieve, corpusState
<1>2. CASE /\ pc' = [pc EXCEPT ![r] = "done"]
           /\ outcome' = [outcome EXCEPT ![r] = "error"]
           /\ UNCHANGED ground
  BY <1>1, <1>2, QuietStep DEF ChatInv, ShapeOK, PC, Past, Outcomes
<1>3. ASSUME NEW l \in {"generate", "log"}, NEW o \in Outcomes \ {"hit"},
             pc' = [pc EXCEPT ![r] = l],
             outcome' \in {outcome, [outcome EXCEPT ![r] = o]},
             ground' = [ground EXCEPT ![r] = index]
      PROVE  ChatInv'
  <2>1. ShapeOK'
    BY <1>1, <1>3 DEF ChatInv, ShapeOK, PC
  <2>2. SeenRemains' /\ CountIdentifies'
    BY <1>1, NothingRead
  <2>3. ground'[r] = index /\ \A x \in Requests \ {r} : ground'[x] = ground[x]
    BY <1>3 DEF ChatInv, ShapeOK
  <2>4. SearchIsLater'
    <3> SUFFICES ASSUME NEW x \in Requests, pc'[x] \in {"generate", "put"}
                 PROVE  Indexed(seen[x]) \subseteq Indexed(ground'[x])
      BY <1>1 DEF SearchIsLater, GroundCoversSeen, Indexed
    <3>1. CASE x = r
      BY <2>3, <3>1 DEF ChatInv, SeenRemains
    <3>2. CASE x # r
      BY <1>3, <2>3, <3>2 DEF ChatInv, ShapeOK, SearchIsLater, GroundCoversSeen
    <3> QED
      BY <3>1, <3>2
  <2>5. \A v, a : Authored(v, a) => Authored(v, a)'
    <3> SUFFICES ASSUME NEW v, NEW a, Authored(v, a) PROVE Authored(v, a)'
      OBVIOUS
    <3>1. a \in Requests \ {r} /\ Past(a)'
      BY <1>1, <1>3 DEF ChatInv, ShapeOK, Authored, Past
    <3> QED
      BY <1>1, <2>3, <3>1, AuthorStays
  <2>6. EntriesGrounded'
    BY <1>1, <2>5 DEF ChatInv, EntriesGrounded
  <2>7. HitsGrounded'
    <3> SUFFICES ASSUME NEW x \in Requests, outcome'[x] = "hit"
                 PROVE  pc'[x] \in {"log", "done"} /\ Authored(version[x], served[x])'
      BY DEF HitsGrounded
    <3>1. outcome[x] = "hit"
      BY <1>3 DEF ChatInv, ShapeOK
    <3>2. pc[x] \in {"log", "done"} /\ Authored(version[x], served[x])
      BY <3>1 DEF ChatInv, HitsGrounded
    <3>3. pc'[x] = pc[x]
      BY <1>1, <1>3, <3>2 DEF ChatInv, ShapeOK
    <3> QED
      BY <1>1, <2>5, <3>2, <3>3
  <2> QED
    BY <2>1, <2>2, <2>4, <2>6, <2>7 DEF ChatInv
<1>4. \/ /\ pc' = [pc EXCEPT ![r] = "done"]
         /\ outcome' = [outcome EXCEPT ![r] = "error"]
         /\ UNCHANGED ground
      \/ /\ ground' = [ground EXCEPT ![r] = index]
         /\ \/ pc' = [pc EXCEPT ![r] = "generate"] /\ outcome' = outcome
            \/ /\ pc' = [pc EXCEPT ![r] = "log"]
               /\ outcome' = [outcome EXCEPT ![r] = "refused"]
  BY DEF Retrieve, End, GoTo
<1>5. "refused" \in Outcomes \ {"hit"}
  BY DEF Outcomes
<1> QED
  BY <1>2, <1>3, <1>4, <1>5

\* Storing an answer makes its request an author.
LEMMA PutGrounded ==
  ASSUME ChatInv, NEW r \in Requests, Put(r)
  PROVE  ChatInv'
<1>1. /\ pc[r] = "put" /\ pc' = [pc EXCEPT ![r] = "user"]
      /\ UNCHANGED <<index, chunks, version, seen, ground, served, outcome>>
  BY DEF Put, GoTo, corpusState, reqState
<1>2. \A e \in cache' : e \in cache \/ (e.version = version[r] /\ e.by = r)
  BY DEF Put
<1>3. ShapeOK'
  BY <1>1 DEF ChatInv, ShapeOK, PC
<1>4. SeenRemains' /\ CountIdentifies'
  BY <1>1, NothingRead
<1>5. SearchIsLater'
  BY <1>1 DEF ChatInv, ShapeOK, SearchIsLater, GroundCoversSeen, Indexed
<1>6. \A v, a : Authored(v, a) => Authored(v, a)'
  <2>1. \A a \in Requests : Past(a) => Past(a)'
    BY <1>1 DEF ChatInv, ShapeOK, Past
  <2> QED
    BY <1>1, <2>1, AuthorStays DEF Authored
<1>7. EntriesGrounded'
  <2>1. Authored(version[r], r)'
    <3>1. GroundCoversSeen(r)
      BY <1>1 DEF ChatInv, SearchIsLater
    <3> QED
      BY <1>1, <3>1 DEF ChatInv, ShapeOK, Authored, Past, GroundCoversSeen, Indexed
  <2> SUFFICES ASSUME NEW e \in cache' PROVE Authored(e.version, e.by)'
    BY DEF EntriesGrounded
  <2>2. CASE e \in cache
    BY <1>6, <2>2 DEF ChatInv, EntriesGrounded
  <2>3. CASE e.version = version[r] /\ e.by = r
    BY <1>1, <2>1, <2>3 DEF Authored, Past, GroundCoversSeen, Indexed
  <2> QED
    BY <1>2, <2>2, <2>3
<1>8. HitsGrounded'
  <2> SUFFICES ASSUME NEW x \in Requests, outcome'[x] = "hit"
               PROVE  pc'[x] \in {"log", "done"} /\ Authored(version[x], served[x])'
    BY DEF HitsGrounded
  <2>1. pc[x] \in {"log", "done"} /\ Authored(version[x], served[x])
    BY <1>1 DEF ChatInv, HitsGrounded
  <2>2. pc'[x] = pc[x]
    BY <1>1, <2>1 DEF ChatInv, ShapeOK
  <2> QED
    BY <1>1, <1>6, <2>1, <2>2
<1> QED
  BY <1>3, <1>4, <1>5, <1>7, <1>8 DEF ChatInv

\* Every step keeps the invariant.
LEMMA ChatInvNext == ChatInv /\ [Next]_vars => ChatInv'
<1> SUFFICES ASSUME ChatInv, [Next]_vars PROVE ChatInv'
  OBVIOUS
<1>1. ASSUME NEW d \in Docs, IngestCommits(d) PROVE ChatInv'
  BY <1>1, IngestPreserves
\* Steps that leave every variable of the invariant alone, but for the cache,
\* which may lose an entry.
<1>2. ASSUME UNCHANGED <<index, chunks, pc, outcome, version, seen, ground, served>>,
             cache' \subseteq cache
      PROVE  ChatInv'
  BY <1>2 DEF ChatInv, ShapeOK, SeenRemains, CountIdentifies, SearchIsLater,
     EntriesGrounded, HitsGrounded, Authored, Past, GroundCoversSeen, Indexed
<1>3. ASSUME NEW d \in Docs, Reopen(d) PROVE ChatInv'
  BY <1>2, <1>3 DEF Reopen, Unready, reqState
<1>4. ASSUME NEW e \in cache, Expire(e) PROVE ChatInv'
  BY <1>2, <1>4 DEF Expire, corpusState, reqState
<1>5. CASE Tick
  BY <1>2, <1>5 DEF Tick, reqState
<1>6. ASSUME NEW r \in Requests, Disconnect(r) PROVE ChatInv'
  BY <1>2, <1>6 DEF Disconnect, corpusState, reqState
<1>7. CASE UNCHANGED vars
  BY <1>2, <1>7 DEF vars, corpusState, reqState
<1>8. ASSUME NEW r \in Requests, Start(r) PROVE ChatInv'
  BY <1>8, QuietStep DEF Start, GoTo, corpusState, ChatInv, ShapeOK, PC, Past
<1>9. ASSUME NEW r \in Requests, Admit(r) PROVE ChatInv'
  <2>1. CASE pc' = [pc EXCEPT ![r] = "history"] /\ UNCHANGED outcome
    BY <1>9, <2>1, QuietStep DEF Admit, corpusState, ChatInv, ShapeOK, PC, Past
  <2>2. CASE End(r, "limited")
    BY <1>9, <2>2, QuietStep
       DEF Admit, End, GoTo, corpusState, ChatInv, ShapeOK, PC, Past, Outcomes
  <2> QED
    BY <1>9, <2>1, <2>2 DEF Admit, GoTo
<1>10. ASSUME NEW r \in Requests, ReadHistory(r) PROVE ChatInv'
  BY <1>10, QuietStep DEF ReadHistory, GoTo, corpusState, ChatInv, ShapeOK, PC, Past
<1>11. ASSUME NEW r \in Requests, Generate(r) PROVE ChatInv'
  <2>1. CASE /\ outcome' = [outcome EXCEPT ![r] = "answered"]
             /\ pc' = [pc EXCEPT ![r] = "put"]
    BY <1>11, <2>1, QuietStep
       DEF Generate, corpusState, ChatInv, ShapeOK, PC, Past, Outcomes
  <2>2. CASE End(r, "error")
    BY <1>11, <2>2, QuietStep
       DEF Generate, End, GoTo, corpusState, ChatInv, ShapeOK, PC, Past, Outcomes
  <2> QED
    BY <1>11, <2>1, <2>2 DEF Generate, GoTo
<1>12. ASSUME NEW r \in Requests, AppendUser(r) PROVE ChatInv'
  BY <1>12, QuietStep
     DEF AppendUser, GoTo, corpusState, reqState, ChatInv, ShapeOK, PC, Past
<1>13. ASSUME NEW r \in Requests, AppendAssistant(r) PROVE ChatInv'
  BY <1>13, QuietStep
     DEF AppendAssistant, GoTo, corpusState, reqState, ChatInv, ShapeOK, PC, Past
<1>14. ASSUME NEW r \in Requests, LogQuery(r) PROVE ChatInv'
  BY <1>14, QuietStep
     DEF LogQuery, GoTo, corpusState, reqState, ChatInv, ShapeOK, PC, Past
<1> QED
  BY <1>1, <1>3, <1>4, <1>5, <1>6, <1>7, <1>8, <1>9, <1>10, <1>11, <1>12, <1>13,
     <1>14, ReadVersionGrounded, LookupGrounded, RetrieveGrounded, PutGrounded
     DEF Next, Environment, Answer

\* An answer served from the cache is grounded in every document that was
\* searchable when its request read the corpus version.
THEOREM CacheHidesNothing == Spec => []NewDocumentsSeen
BY ChatInvInit, ChatInvNext, InvImpliesSeen, PTL DEF Spec

-----------------------------------------------------------------------------
(***************************************************************************)
(* One request among the others: what it leaves in its conversation, in    *)
(* the answer cache and in query_logs, and what may make it fail.          *)
(***************************************************************************)

-----------------------------------------------------------------------------
(***************************************************************************)
(* The invariant. But for the cache it is about each request by itself;    *)
(* other requests only add to the tables that it speaks of.                *)
(***************************************************************************)

\* What typing needs beside TypeOK: no stamp is in the future, and only ingested
\* documents are ready.
StoreInv ==
  /\ req \in [Requests -> Request \cup {[conv |-> NoConv]}]
  /\ \A d \in Docs : stamp[d] <= clock
  /\ IsFiniteSet(ready)

\* The outcome goes with the control.
Stage(r) ==
  /\ pc[r] \in {"idle", "admit", "history", "version", "lookup", "retrieve",
                "generate"} => outcome[r] = "none"
  /\ pc[r] \in {"put", "user", "assistant"} => outcome[r] = "answered"
  /\ pc[r] = "log" => outcome[r] \in {"hit", "refused", "answered"}

Logged(r) ==
  pc[r] = "done" /\ outcome[r] \in {"hit", "answered"} /\ "db" \notin blame[r] =>
    r \in logged

Blamed(r) == outcome[r] = "error" => gone[r] \/ blame[r] \cap {"db", "llm"} # {}

\* The row of the conversation is there before any message needs it.
Ensured(r) == pc[r] # "idle" /\ Clean(r) => req[r].conv \in convs

Said(r, role, i) ==
  /\ i \in 1 .. Len(messages[req[r].conv])
  /\ messages[req[r].conv][i] = [role |-> role, by |-> r]
Asked(r) == \E i \in Nat : Said(r, "user", i)
Turn(r) == \E i, j \in Nat : i < j /\ Said(r, "user", i) /\ Said(r, "assistant", j)

Recorded(r) ==
  /\ pc[r] = "assistant" /\ Clean(r) => Asked(r)
  /\ pc[r] \in {"log", "done"} /\ outcome[r] = "answered" /\ Clean(r) => Turn(r)

Course(r) == Stage(r) /\ Logged(r) /\ Blamed(r) /\ Ensured(r) /\ Recorded(r)

\* An entry's author had no history, and will read none.
EntriesPrivate ==
  \A e \in cache : /\ pc[e.by] \in {"user", "assistant", "log", "done"}
                   /\ hist[e.by] = <<>>

TurnInv == TypeOK /\ StoreInv /\ EntriesPrivate /\ \A r \in Requests : Course(r)

-----------------------------------------------------------------------------
(***************************************************************************)
(* The last ingest: a set of stamps that is bounded has a last one.        *)
(***************************************************************************)

LEMMA LeastNat ==
  ASSUME NEW T \in SUBSET Nat, T # {}
  PROVE  \E x \in T : \A y \in T : x <= y
<1>1. PICK R : /\ \A x, y \in Nat : <<y, x>> \in R <=> y < x
               /\ IsWellFoundedOn(R, Nat)
  <2> DEFINE less == {ss \in Nat \X Nat : ss[1] < ss[2]}
  <2>1. OpToRel(<, Nat) = less
    BY DEF OpToRel
  <2>2. IsWellFoundedOn(less, Nat)
    BY NatLessThanWellFounded, <2>1, Zenon
  <2>3. \A x, y \in Nat : <<y, x>> \in less <=> y < x
    OBVIOUS
  <2> QED
    BY <2>2, <2>3, Zenon
<1>2. PICK x \in T : \A y \in T : ~ (<<y, x>> \in R)
  BY <1>1, WFMin, Zenon
<1>3. \A y \in T : ~ (y < x)
  BY <1>1, <1>2, Zenon
<1> QED
  BY <1>3

LEMMA LastIngestTyped ==
  ASSUME stamp \in [Docs -> Nat], clock \in Nat, \A d \in Docs : stamp[d] <= clock
  PROVE  LastIngest \in Nat
<1> DEFINE bound == {n \in Nat : \A d \in Docs : stamp[d] <= n}
           stamps == {0} \cup {stamp[d] : d \in Docs}
<1>1. clock \in bound /\ bound \in SUBSET Nat
  OBVIOUS
<1>2. PICK n \in bound : \A m \in bound : n <= m
  BY <1>1, LeastNat
<1>3. n \in stamps
  <2> SUFFICES ASSUME n # 0, \A d \in Docs : stamp[d] # n PROVE FALSE
    OBVIOUS
  <2>1. n - 1 \in bound
    OBVIOUS
  <2> QED
    BY <1>2, <2>1
<1>4. \E t \in stamps : \A d \in Docs : stamp[d] <= t
  BY <1>2, <1>3
<1>5. (CHOOSE t \in stamps : \A d \in Docs : stamp[d] <= t) \in stamps
  BY <1>4
<1>6. stamps \subseteq Nat
  OBVIOUS
<1>7. LastIngest \in stamps
  BY <1>5 DEF LastIngest
<1> QED
  BY <1>6, <1>7

LEMMA FingerprintTyped ==
  ASSUME TypeOK, StoreInv
  PROVE  Fingerprint \in Version /\ Unknown \in Version
<1>1. Cardinality(ready) \in Nat
  BY FS_CardinalityType DEF StoreInv
<1>2. LastIngest \in Nat
  BY LastIngestTyped DEF TypeOK, StoreInv
<1> QED
  BY <1>1, <1>2 DEF TypeOK, Fingerprint, Unknown, Version

LEMMA HistoryTyped ==
  ASSUME TypeOK, NEW c \in Convs
  PROVE  History(c, 2 * HistoryTurns) \in Seq(Message)
<1>1. messages[c] \in Seq(Message) /\ 2 * HistoryTurns \in Nat
  BY ChatAssumption DEF TypeOK
<1> DEFINE n == 2 * HistoryTurns
           m == messages[c]
           from == IF Len(m) > n THEN Len(m) - n + 1 ELSE 1
<1>2. from \in Nat \ {0} /\ Len(m) \in Nat
  BY <1>1
<1>3. SubSeq(m, from, Len(m)) \in Seq(Message)
  <2>1. \A i \in from .. Len(m) : m[i] \in Message
    BY <1>1, <1>2
  <2> HIDE DEF from, m
  <2> QED
    BY <1>2, <2>1, SubSeqProperties
<1> QED
  BY <1>3 DEF History

-----------------------------------------------------------------------------
(***************************************************************************)
(* The steps of one request, as far as the others can see.                 *)
(***************************************************************************)

\* Nothing is taken back: conversations, messages, rows of query_logs, blame.
Grows(r) ==
  /\ convs \subseteq convs'
  /\ \A c \in Convs :
       /\ Len(messages[c]) <= Len(messages'[c])
       /\ \A i \in 1 .. Len(messages[c]) : messages'[c][i] = messages[c][i]
  /\ logged \subseteq logged' /\ logged' \subseteq logged \cup {r}
  /\ gone' = gone /\ blame[r] \subseteq blame'[r]
  /\ \A x \in Requests \ {r} :
       /\ pc'[x] = pc[x] /\ req'[x] = req[x] /\ hist'[x] = hist[x]
       /\ outcome'[x] = outcome[x] /\ blame'[x] = blame[x]

LEMMA TurnInvInit == Init => TurnInv
<1> SUFFICES ASSUME Init PROVE TurnInv
  OBVIOUS
<1>1. index = [d \in Docs |-> 0] /\ ready = {}
  BY DEF Init, CorpusInit
<1>2. /\ CorpusTypeOK
      /\ stamp \in [Docs -> Nat] /\ chunks \in Nat /\ clock \in Nat
      /\ seen \in [Requests -> [Docs -> Nat]] /\ ground \in [Requests -> [Docs -> Nat]]
  BY <1>1 DEF Init, CorpusTypeOK
<1>3. /\ cache \subseteq Entry /\ convs \subseteq Convs /\ logged \subseteq Requests
      /\ pc \in [Requests -> PC]
      /\ \A r \in Requests : pc[r] = "idle"
  BY DEF Init, PC
<1>4. messages \in [Convs -> Seq(Message)] /\ hist \in [Requests -> Seq(Message)]
  BY DEF Init
<1>5. version \in [Requests -> Version] /\ served \in [Requests -> Requests]
  BY DEF Init, NoVersion, Version
<1>6. /\ outcome \in [Requests -> Outcomes] /\ gone \in [Requests -> BOOLEAN]
      /\ blame \in [Requests -> SUBSET Services] /\ prior \in [Requests -> SUBSET Requests]
      /\ faults \in Nat
  BY DEF Init, Outcomes
<1>7. TypeOK
  BY <1>2, <1>3, <1>4, <1>5, <1>6 DEF TypeOK
<1>8. StoreInv
  BY <1>1, FS_EmptySet DEF Init, StoreInv
<1>9. EntriesPrivate
  BY DEF Init, EntriesPrivate
<1>10. ASSUME NEW r \in Requests PROVE Course(r)
  BY DEF Init, Course, Stage, Logged, Blamed, Ensured, Recorded
<1> QED
  BY <1>7, <1>8, <1>9, <1>10 DEF TurnInv

\* A call that works, or fails on service s.
Called(r, s) ==
  /\ blame' \in {blame, [blame EXCEPT ![r] = @ \cup {s}]}
  /\ faults' \in {faults, faults + 1}

LEMMA CalledTyped ==
  ASSUME TypeOK, NEW r \in Requests, NEW s \in Services, Called(r, s)
  PROVE  /\ blame' \in [Requests -> SUBSET Services] /\ faults' \in Nat
         /\ blame[r] \subseteq blame'[r]
         /\ \A x \in Requests \ {r} : blame'[x] = blame[x]
<1>1. blame \in [Requests -> SUBSET Services] /\ faults \in Nat
  BY DEF TypeOK
<1>2. faults' \in Nat
  BY <1>1 DEF Called
<1>3. CASE blame' = blame
  BY <1>1, <1>2, <1>3
<1>4. CASE blame' = [blame EXCEPT ![r] = @ \cup {s}]
  <2>1. blame[r] \cup {s} \in SUBSET Services
    BY <1>1
  <2> QED
    BY <1>1, <1>2, <1>4, <2>1
<1> QED
  BY <1>3, <1>4 DEF Called

LEMMA CallIsCalled ==
  ASSUME NEW r, NEW s, Works(r) \/ Fails(r, s) \/ Fault(r, s) \/ UNCHANGED faultState
  PROVE  Called(r, s)
BY DEF Works, Fails, Fault, faultState, Called

\* A failing call of the database is remembered, unless the client is gone.
LEMMA FailureIsBlamed ==
  ASSUME TypeOK, NEW r \in Requests, NEW s, Fails(r, s)
  PROVE  gone[r] \/ s \in blame'[r]
BY DEF TypeOK, Fails, Fault

\* What a request that takes no part in the step keeps.
LEMMA BystanderKeeps ==
  ASSUME TurnInv, TypeOK', NEW r \in Requests, Grows(r), NEW x \in Requests \ {r}
  PROVE  Course(x)'
<1>1. Course(x) /\ req[x].conv \in Convs \cup {NoConv}
  BY DEF TurnInv, StoreInv, Request
<1>2. /\ pc'[x] = pc[x] /\ req'[x] = req[x] /\ outcome'[x] = outcome[x]
      /\ blame'[x] = blame[x] /\ gone' = gone /\ convs \subseteq convs'
      /\ x \in logged' <=> x \in logged
  BY DEF Grows
<1>3. Stage(x)' /\ Logged(x)' /\ Blamed(x)'
  BY <1>1, <1>2 DEF Course, Stage, Logged, Blamed
<1>4. Clean(x)' <=> Clean(x)
  BY <1>2 DEF Clean
<1>5. Ensured(x)'
  BY <1>1, <1>2, <1>4 DEF Course, Ensured
<1>6. ASSUME Clean(x), NEW role, NEW i \in Nat, Said(x, role, i)
      PROVE  Said(x, role, i)'
  <2>1. req[x].conv \in Convs
    BY <1>1, <1>6 DEF Clean
  <2>2. /\ Len(messages[req[x].conv]) \in Nat /\ Len(messages'[req[x].conv]) \in Nat
    BY <2>1 DEF TurnInv, TypeOK
  <2> QED
    BY <1>2, <1>6, <2>1, <2>2 DEF Said, Grows
<1>7. (Clean(x) /\ Asked(x) => Asked(x)') /\ (Clean(x) /\ Turn(x) => Turn(x)')
  BY <1>6 DEF Asked, Turn
<1>8. Recorded(x)'
  BY <1>1, <1>2, <1>4, <1>7 DEF Course, Recorded
<1> QED
  BY <1>3, <1>5, <1>8 DEF Course

\* A step of r that shows nothing new of r itself in the tables.
LEMMA MovesOn ==
  ASSUME TurnInv, TypeOK', StoreInv', EntriesPrivate', NEW r \in Requests, Grows(r),
         Course(r)'
  PROVE  TurnInv'
BY BystanderKeeps DEF TurnInv

\* What most steps of a request leave alone.
LEMMA GrowsQuietly ==
  ASSUME TypeOK, NEW r \in Requests, NEW s \in Services, Called(r, s),
         UNCHANGED <<convs, messages, logged, gone, req>>,
         NEW l, pc' = [pc EXCEPT ![r] = l],
         \A x \in Requests \ {r} : hist'[x] = hist[x] /\ outcome'[x] = outcome[x]
  PROVE  Grows(r)
<1>1. /\ blame[r] \subseteq blame'[r]
      /\ \A x \in Requests \ {r} : blame'[x] = blame[x]
  BY CalledTyped
<1>2. \A x \in Requests \ {r} : pc'[x] = pc[x]
  BY DEF TypeOK
<1>3. \A c \in Convs : Len(messages[c]) \in Nat
  BY DEF TypeOK
<1> QED
  BY <1>1, <1>2, <1>3 DEF Grows

\* Entries stay as they are while no author reads a history.
LEMMA EntriesStay ==
  ASSUME TurnInv, NEW r \in Requests, NEW l, pc' = [pc EXCEPT ![r] = l],
         pc[r] \in {"user", "assistant", "log", "done"} =>
           l \in {"user", "assistant", "log", "done"} /\ hist'[r] = hist[r],
         \A x \in Requests \ {r} : hist'[x] = hist[x],
         cache' \subseteq cache
  PROVE  EntriesPrivate'
<1>1. \A e \in cache : e.by \in Requests
  BY DEF TurnInv, TypeOK, Entry
<1> QED
  BY <1>1 DEF TurnInv, TypeOK, EntriesPrivate

-----------------------------------------------------------------------------
(***************************************************************************)
(* The invariant is inductive.                                             *)
(***************************************************************************)

\* What a step of r that changes no table but the cache has to show of typing.
LEMMA TypedQuietly ==
  ASSUME TypeOK, StoreInv, NEW r \in Requests, NEW s \in Services, Called(r, s),
         UNCHANGED <<corpusState, convs, messages, logged, gone, req, prior>>,
         cache' \subseteq Entry,
         NEW l \in PC, pc[r] # "idle", pc' = [pc EXCEPT ![r] = l],
         hist' \in [Requests -> Seq(Message)], version' \in [Requests -> Version],
         seen' \in [Requests -> [Docs -> Nat]], ground' \in [Requests -> [Docs -> Nat]],
         served' \in [Requests -> Requests], outcome' \in [Requests -> Outcomes]
  PROVE  TypeOK' /\ StoreInv'
<1>1. blame' \in [Requests -> SUBSET Services] /\ faults' \in Nat
  BY CalledTyped
<1>2. /\ pc' \in [Requests -> PC]
      /\ \A x \in Requests : pc'[x] # "idle" => req[x] \in Request
  BY DEF TypeOK
<1>3. TypeOK'
  BY <1>1, <1>2 DEF TypeOK, CorpusTypeOK, corpusState
<1>4. StoreInv'
  BY DEF StoreInv, corpusState
<1> QED
  BY <1>3, <1>4

LEMMA StartPreserves == ASSUME TurnInv, NEW r \in Requests, Start(r) PROVE TurnInv'
<1>1. TypeOK /\ StoreInv /\ EntriesPrivate /\ Course(r)
  BY DEF TurnInv
<1>2. PICK a \in Asks :
        /\ req' = [req EXCEPT ![r] = a]
        /\ prior' = [prior EXCEPT ![r] = Answers(a.conv)]
        /\ EnsureConversation(r, a.conv)
  BY DEF Start
<1>3. /\ pc[r] = "idle" /\ pc' = [pc EXCEPT ![r] = "admit"]
      /\ UNCHANGED <<corpusState, cache, messages, logged, hist, version, seen,
                     ground, served, outcome, gone>>
  BY DEF Start, GoTo
<1>4. a \in Request /\ a.conv \in Convs \cup {NoConv}
  BY ChatAssumption DEF Request
<1>5. Called(r, "db") /\ "db" \in Services
  BY <1>2, CallIsCalled DEF EnsureConversation, Services
<1>6. /\ blame' \in [Requests -> SUBSET Services] /\ faults' \in Nat
      /\ blame[r] \subseteq blame'[r]
      /\ \A x \in Requests \ {r} : blame'[x] = blame[x]
  BY <1>1, <1>5, CalledTyped
<1>7. /\ convs' \subseteq Convs /\ convs \subseteq convs'
      /\ a.conv # NoConv => a.conv \in convs' \/ gone[r] \/ "db" \in blame'[r]
  <2>1. CASE a.conv = NoConv /\ UNCHANGED <<convs, faultState>>
    BY <1>1, <2>1 DEF TypeOK
  <2>2. CASE a.conv # NoConv /\ convs' = convs \cup {a.conv}
    BY <1>1, <1>4, <2>2 DEF TypeOK
  <2>3. CASE Fails(r, "db") /\ UNCHANGED convs
    BY <1>1, <2>3, FailureIsBlamed DEF TypeOK
  <2> QED
    BY <1>2, <2>1, <2>2, <2>3 DEF EnsureConversation
<1>8. /\ pc' \in [Requests -> PC]
      /\ req' \in [Requests -> Request \cup {[conv |-> NoConv]}]
      /\ req'[r] = a /\ pc'[r] = "admit"
      /\ \A x \in Requests \ {r} : req'[x] = req[x] /\ pc'[x] = pc[x]
  BY <1>1, <1>2, <1>3, <1>4 DEF TypeOK, StoreInv, PC
<1>9. prior' \in [Requests -> SUBSET Requests]
  BY <1>1, <1>2 DEF TypeOK, Answers
<1>10. TypeOK'
  <2>1. \A x \in Requests : pc'[x] # "idle" => req'[x] \in Request
    BY <1>1, <1>4, <1>8 DEF TypeOK
  <2> QED
    BY <1>1, <1>3, <1>6, <1>7, <1>8, <1>9, <2>1 DEF TypeOK, CorpusTypeOK, corpusState
<1>11. StoreInv'
  BY <1>1, <1>3, <1>8 DEF StoreInv, corpusState
<1>12. EntriesPrivate'
  BY <1>3, EntriesStay
<1>13. Grows(r)
  <2>1. \A c \in Convs : Len(messages[c]) \in Nat
    BY <1>1 DEF TypeOK
  <2> QED
    BY <1>3, <1>6, <1>7, <1>8, <2>1 DEF Grows
<1>14. Course(r)'
  BY <1>1, <1>3, <1>7, <1>8 DEF Course, Stage, Logged, Blamed, Ensured, Recorded, Clean
<1> QED
  BY <1>10, <1>11, <1>12, <1>13, <1>14, MovesOn

\* From the limiter to the search: nothing is stored, and no outcome is final
\* but a refusal of the limiter or an error.
LEMMA AdmitPreserves == ASSUME TurnInv, NEW r \in Requests, Admit(r) PROVE TurnInv'
<1>1. TypeOK /\ StoreInv /\ EntriesPrivate /\ Course(r)
  BY DEF TurnInv
<1>2. /\ pc[r] = "admit"
      /\ UNCHANGED <<corpusState, cache, convs, messages, logged, req, hist, version,
                     seen, ground, served, gone, prior>>
  BY DEF Admit, convState
<1>3. Called(r, "redis") /\ "redis" \in Services
  BY CallIsCalled DEF Admit, Services
<1>4. PICK l \in {"history", "done"}, o \in {"none", "limited"} :
        /\ pc' = [pc EXCEPT ![r] = l] /\ outcome' = [outcome EXCEPT ![r] = o]
        /\ l = "history" <=> o = "none"
  <2>1. outcome[r] = "none"
    BY <1>1, <1>2 DEF Course, Stage
  <2>2. CASE GoTo(r, "history") /\ UNCHANGED outcome
    <3>1. outcome' = [outcome EXCEPT ![r] = "none"]
      BY <1>1, <2>1, <2>2 DEF TypeOK
    <3> QED
      BY <2>2, <3>1 DEF GoTo
  <2>3. CASE End(r, "limited")
    BY <2>3 DEF End, GoTo
  <2> QED
    BY <2>2, <2>3 DEF Admit
<1>5. /\ pc'[r] = l /\ outcome'[r] = o /\ outcome' \in [Requests -> Outcomes] /\ l \in PC
      /\ \A x \in Requests \ {r} : outcome'[x] = outcome[x]
  BY <1>1, <1>4 DEF TypeOK, Outcomes, PC
<1>6. TypeOK' /\ StoreInv'
  BY <1>1, <1>2, <1>3, <1>4, <1>5, TypedQuietly DEF TypeOK
<1>7. EntriesPrivate'
  BY <1>2, <1>4, EntriesStay
<1>8. Grows(r)
  BY <1>1, <1>2, <1>3, <1>4, <1>5, GrowsQuietly
<1>9. blame[r] \subseteq blame'[r]
  BY <1>1, <1>3, CalledTyped
<1>10. Course(r)'
  BY <1>1, <1>2, <1>4, <1>5, <1>9
     DEF Course, Stage, Logged, Blamed, Ensured, Recorded, Clean
<1> QED
  BY <1>6, <1>7, <1>8, <1>10, MovesOn

LEMMA ReadHistoryPreserves ==
  ASSUME TurnInv, NEW r \in Requests, ReadHistory(r) PROVE TurnInv'
<1>1. TypeOK /\ StoreInv /\ EntriesPrivate /\ Course(r)
  BY DEF TurnInv
<1>2. /\ pc[r] = "history" /\ pc' = [pc EXCEPT ![r] = "version"] /\ "version" \in PC
      /\ UNCHANGED <<corpusState, cache, convs, messages, logged, req, version,
                     seen, ground, served, outcome, gone, prior>>
  BY DEF ReadHistory, GoTo, convState, PC
<1>3. Called(r, "db") /\ "db" \in Services
  BY CallIsCalled DEF ReadHistory, Services
<1>4. /\ hist' \in [Requests -> Seq(Message)]
      /\ \A x \in Requests \ {r} : hist'[x] = hist[x]
  <2>1. CASE UNCHANGED hist
    BY <1>1, <2>1 DEF TypeOK
  <2>2. CASE /\ req[r].conv # NoConv
             /\ hist' = [hist EXCEPT ![r] = History(req[r].conv, 2 * HistoryTurns)]
    <3>1. req[r].conv \in Convs
      BY <1>1, <1>2, <2>2 DEF TypeOK, Request
    <3>2. History(req[r].conv, 2 * HistoryTurns) \in Seq(Message)
      BY <1>1, <3>1, HistoryTyped
    <3> QED
      BY <1>1, <2>2, <3>2 DEF TypeOK
  <2> QED
    BY <2>1, <2>2 DEF ReadHistory
<1>5. TypeOK' /\ StoreInv'
  BY <1>1, <1>2, <1>3, <1>4, TypedQuietly DEF TypeOK
<1>6. EntriesPrivate'
  BY <1>2, <1>4, EntriesStay
<1>7. Grows(r)
  BY <1>1, <1>2, <1>3, <1>4, GrowsQuietly
<1>8. blame[r] \subseteq blame'[r] /\ pc'[r] = "version"
  BY <1>1, <1>2, <1>3, CalledTyped DEF TypeOK
<1>9. Course(r)'
  BY <1>1, <1>2, <1>8 DEF Course, Stage, Logged, Blamed, Ensured, Recorded, Clean
<1> QED
  BY <1>5, <1>6, <1>7, <1>9, MovesOn

LEMMA ReadVersionPreserves ==
  ASSUME TurnInv, NEW r \in Requests, ReadVersion(r) PROVE TurnInv'
<1>1. TypeOK /\ StoreInv /\ EntriesPrivate /\ Course(r)
  BY DEF TurnInv
<1>2. /\ pc[r] = "version" /\ pc' = [pc EXCEPT ![r] = "lookup"] /\ "lookup" \in PC
      /\ seen' = [seen EXCEPT ![r] = index]
      /\ UNCHANGED <<corpusState, cache, convs, messages, logged, req, hist,
                     ground, served, outcome, gone, prior>>
  BY DEF ReadVersion, GoTo, convState, PC
<1>3. Called(r, "db") /\ "db" \in Services
  BY CallIsCalled DEF ReadVersion, Services
<1>4. version' \in [Requests -> Version] /\ seen' \in [Requests -> [Docs -> Nat]]
  <2>1. \E v \in Version : version' = [version EXCEPT ![r] = v]
    BY <1>1, FingerprintTyped DEF ReadVersion
  <2> QED
    BY <1>1, <1>2, <2>1 DEF TypeOK, CorpusTypeOK
<1>5. TypeOK' /\ StoreInv'
  BY <1>1, <1>2, <1>3, <1>4, TypedQuietly DEF TypeOK
<1>6. EntriesPrivate'
  BY <1>2, EntriesStay
<1>7. Grows(r)
  BY <1>1, <1>2, <1>3, GrowsQuietly
<1>8. blame[r] \subseteq blame'[r] /\ pc'[r] = "lookup"
  BY <1>1, <1>2, <1>3, CalledTyped DEF TypeOK
<1>9. Course(r)'
  BY <1>1, <1>2, <1>8 DEF Course, Stage, Logged, Blamed, Ensured, Recorded, Clean
<1> QED
  BY <1>5, <1>6, <1>7, <1>9, MovesOn

LEMMA LookupPreserves ==
  ASSUME TurnInv, NEW r \in Requests, Lookup(r) PROVE TurnInv'
<1>1. TypeOK /\ StoreInv /\ EntriesPrivate /\ Course(r)
  BY DEF TurnInv
<1>2. /\ pc[r] = "lookup" /\ outcome[r] = "none"
      /\ UNCHANGED <<corpusState, cache, convs, messages, logged, req, hist,
                     version, seen, ground, gone, prior>>
  BY <1>1 DEF Lookup, convState, Course, Stage
<1>3. Called(r, "redis") /\ "redis" \in Services
  BY CallIsCalled DEF Lookup, Services
<1>4. PICK l \in {"retrieve", "log"} : /\ pc' = [pc EXCEPT ![r] = l]
                                     /\ IF l = "log"
                                          THEN outcome' = [outcome EXCEPT ![r] = "hit"]
                                          ELSE UNCHANGED outcome
  BY DEF Lookup, GoTo
<1>5. served' \in [Requests -> Requests]
  <2>1. CASE UNCHANGED served
    BY <1>1, <2>1 DEF TypeOK
  <2>2. ASSUME NEW e \in cache, served' = [served EXCEPT ![r] = e.by]
        PROVE  served' \in [Requests -> Requests]
    BY <1>1, <2>2 DEF TypeOK, Entry
  <2> QED
    BY <2>1, <2>2 DEF Lookup
<1>6. /\ pc'[r] = l /\ outcome'[r] = (IF l = "log" THEN "hit" ELSE "none")
      /\ outcome' \in [Requests -> Outcomes] /\ l \in PC
      /\ \A x \in Requests \ {r} : outcome'[x] = outcome[x]
  BY <1>1, <1>2, <1>4 DEF TypeOK, Outcomes, PC
<1>7. TypeOK' /\ StoreInv'
  BY <1>1, <1>2, <1>3, <1>4, <1>5, <1>6, TypedQuietly DEF TypeOK
<1>8. EntriesPrivate'
  BY <1>2, <1>4, EntriesStay
<1>9. Grows(r)
  BY <1>1, <1>2, <1>3, <1>4, <1>6, GrowsQuietly
<1>10. blame[r] \subseteq blame'[r]
  BY <1>1, <1>3, CalledTyped
<1>11. Course(r)'
  BY <1>1, <1>2, <1>6, <1>10
     DEF Course, Stage, Logged, Blamed, Ensured, Recorded, Clean
<1> QED
  BY <1>7, <1>8, <1>9, <1>11, MovesOn

\* An error of the search or of the model is laid to its service.
LEMMA RetrievePreserves ==
  ASSUME TurnInv, NEW r \in Requests, Retrieve(r) PROVE TurnInv'
<1>1. TypeOK /\ StoreInv /\ EntriesPrivate /\ Course(r)
  BY DEF TurnInv
<1>2. /\ pc[r] = "retrieve" /\ outcome[r] = "none"
      /\ UNCHANGED <<corpusState, cache, convs, messages, logged, req, hist,
                     version, seen, served, gone, prior>>
  BY <1>1 DEF Retrieve, convState, Course, Stage
<1>3. PICK s \in Services : Called(r, s)
  <2>1. "db" \in Services /\ "embed" \in Services
    BY DEF Services
  <2> QED
    BY <2>1, CallIsCalled DEF Retrieve
<1>4. PICK o \in {"error", "none", "refused"} :
        /\ outcome' = [outcome EXCEPT ![r] = o]
        /\ pc' = [pc EXCEPT ![r] = IF o = "error" THEN "done" ELSE
                                   IF o = "none" THEN "generate" ELSE "log"]
        /\ o = "error" => Fails(r, "db")
  <2>1. outcome' = outcome => outcome' = [outcome EXCEPT ![r] = "none"]
    BY <1>1, <1>2 DEF TypeOK
  <2> QED
    BY <2>1 DEF Retrieve, End, GoTo
<1>5. ground' \in [Requests -> [Docs -> Nat]]
  BY <1>1 DEF Retrieve, TypeOK, CorpusTypeOK
<1>6. /\ outcome'[r] = o /\ outcome' \in [Requests -> Outcomes]
      /\ pc'[r] = IF o = "error" THEN "done" ELSE
                  IF o = "none" THEN "generate" ELSE "log"
      /\ pc'[r] \in PC
      /\ \A x \in Requests \ {r} : outcome'[x] = outcome[x]
  BY <1>1, <1>2, <1>4 DEF TypeOK, Outcomes, PC
<1>7. TypeOK' /\ StoreInv'
  BY <1>1, <1>2, <1>3, <1>4, <1>5, <1>6, TypedQuietly DEF TypeOK
<1>8. EntriesPrivate'
  BY <1>2, <1>4, EntriesStay
<1>9. Grows(r)
  BY <1>1, <1>2, <1>3, <1>4, <1>6, GrowsQuietly
<1>10. blame[r] \subseteq blame'[r]
  BY <1>1, <1>3, CalledTyped
<1>11. o = "error" => gone[r] \/ "db" \in blame'[r]
  BY <1>1, <1>4, FailureIsBlamed
<1>12. Course(r)'
  BY <1>1, <1>2, <1>6, <1>10, <1>11
     DEF Course, Stage, Logged, Blamed, Ensured, Recorded, Clean
<1> QED
  BY <1>7, <1>8, <1>9, <1>12, MovesOn

LEMMA GeneratePreserves ==
  ASSUME TurnInv, NEW r \in Requests, Generate(r) PROVE TurnInv'
<1>1. TypeOK /\ StoreInv /\ EntriesPrivate /\ Course(r)
  BY DEF TurnInv
<1>2. /\ pc[r] = "generate" /\ outcome[r] = "none"
      /\ UNCHANGED <<corpusState, cache, convs, messages, logged, req, hist,
                     version, seen, ground, served, gone, prior>>
  BY <1>1 DEF Generate, convState, Course, Stage
<1>3. Called(r, "llm") /\ "llm" \in Services
  BY CallIsCalled DEF Generate, Services
<1>4. PICK o \in {"answered", "error"} :
        /\ outcome' = [outcome EXCEPT ![r] = o]
        /\ pc' = [pc EXCEPT ![r] = IF o = "error" THEN "done" ELSE "put"]
        /\ o = "error" => Fails(r, "llm")
  BY DEF Generate, End, GoTo
<1>5. /\ outcome'[r] = o /\ outcome' \in [Requests -> Outcomes]
      /\ pc'[r] = IF o = "error" THEN "done" ELSE "put"
      /\ pc'[r] \in PC
      /\ \A x \in Requests \ {r} : outcome'[x] = outcome[x]
  BY <1>1, <1>4 DEF TypeOK, Outcomes, PC
<1>6. TypeOK' /\ StoreInv'
  BY <1>1, <1>2, <1>3, <1>4, <1>5, TypedQuietly DEF TypeOK
<1>7. EntriesPrivate'
  BY <1>2, <1>4, EntriesStay
<1>8. Grows(r)
  BY <1>1, <1>2, <1>3, <1>4, <1>5, GrowsQuietly
<1>9. blame[r] \subseteq blame'[r]
  BY <1>1, <1>3, CalledTyped
<1>10. o = "error" => gone[r] \/ "llm" \in blame'[r]
  BY <1>1, <1>4, FailureIsBlamed
<1>11. Course(r)'
  BY <1>1, <1>2, <1>5, <1>9, <1>10
     DEF Course, Stage, Logged, Blamed, Ensured, Recorded, Clean
<1> QED
  BY <1>6, <1>7, <1>8, <1>11, MovesOn

\* An answer is stored only if its request has read no history.
LEMMA PutPreserves == ASSUME TurnInv, NEW r \in Requests, Put(r) PROVE TurnInv'
<1>1. TypeOK /\ StoreInv /\ EntriesPrivate /\ Course(r)
  BY DEF TurnInv
<1>2. /\ pc[r] = "put" /\ pc' = [pc EXCEPT ![r] = "user"] /\ "user" \in PC
      /\ UNCHANGED <<corpusState, convs, messages, logged, req, hist, version, seen,
                     ground, served, outcome, gone, prior>>
  BY DEF Put, GoTo, convState, reqState, PC
<1>3. Called(r, "redis") /\ "redis" \in Services
  BY CallIsCalled DEF Put, Services
<1> DEFINE entry == [q |-> req[r].q, version |-> version[r], by |-> r]
<1>4. \A e \in cache' : e \in cache \/ (e = entry /\ hist[r] = <<>>)
  BY DEF Put, Cacheable
<1>5. entry \in Entry /\ entry.by = r
  BY <1>1, <1>2 DEF TypeOK, Request, Entry
<1> HIDE DEF entry
<1>6. cache' \subseteq Entry
  BY <1>1, <1>4, <1>5 DEF TypeOK
<1>7. TypeOK' /\ StoreInv'
  BY <1>1, <1>2, <1>3, <1>6, TypedQuietly DEF TypeOK
<1>8. pc'[r] = "user" /\ \A x \in Requests \ {r} : pc'[x] = pc[x]
  BY <1>1, <1>2 DEF TypeOK
<1>9. EntriesPrivate'
  <2>1. \A e \in cache : e.by \in Requests
    BY <1>1 DEF TypeOK, Entry
  <2> QED
    BY <1>1, <1>2, <1>4, <1>5, <1>8, <2>1 DEF EntriesPrivate
<1>10. Grows(r)
  BY <1>1, <1>2, <1>3, GrowsQuietly
<1>11. blame[r] \subseteq blame'[r]
  BY <1>1, <1>3, CalledTyped
<1>12. Course(r)'
  BY <1>1, <1>2, <1>8, <1>11
     DEF Course, Stage, Logged, Blamed, Ensured, Recorded, Clean
<1> QED
  BY <1>7, <1>9, <1>10, <1>12, MovesOn

\* A message is put after all others of the conversation, or is refused.
LEMMA AppendFacts ==
  ASSUME TypeOK, NEW r \in Requests, pc[r] # "idle",
         NEW role \in {"user", "assistant"}, AppendMessage(r, role), UNCHANGED req
  PROVE  /\ messages' \in [Convs -> Seq(Message)]
         /\ Called(r, "db")
         /\ \A c \in Convs :
              /\ Len(messages[c]) \in Nat /\ Len(messages[c]) <= Len(messages'[c])
              /\ \A i \in 1 .. Len(messages[c]) : messages'[c][i] = messages[c][i]
         /\ \/ gone[r] \/ "db" \in blame'[r] \/ req[r].conv \notin convs
            \/ /\ req[r].conv \in Convs
               /\ Len(messages'[req[r].conv]) = Len(messages[req[r].conv]) + 1
               /\ \E k \in Nat :
                    k = Len(messages[req[r].conv]) /\ Said(r, role, k + 1)'
<1> DEFINE c == req[r].conv
           m == [role |-> role, by |-> r]
<1>1. \A k \in Convs : messages[k] \in Seq(Message) /\ Len(messages[k]) \in Nat
  BY DEF TypeOK
<1>2. CASE c \in convs /\ Works(r) /\ messages' = [messages EXCEPT ![c] = Append(@, m)]
  <2>1. c \in Convs /\ m \in Message
    BY <1>2 DEF TypeOK, Message
  <2> HIDE DEF m, c
  <2>2. /\ Append(messages[c], m) \in Seq(Message)
        /\ Len(Append(messages[c], m)) = Len(messages[c]) + 1
        /\ \A i \in 1 .. Len(messages[c]) : Append(messages[c], m)[i] = messages[c][i]
        /\ Append(messages[c], m)[Len(messages[c]) + 1] = m
    BY <1>1, <2>1
  <2>3. /\ messages' \in [Convs -> Seq(Message)]
        /\ messages'[c] = Append(messages[c], m)
        /\ \A k \in Convs \ {c} : messages'[k] = messages[k]
    BY <1>2, <2>1, <2>2 DEF TypeOK
  <2>4. \A k \in Convs :
          /\ Len(messages[k]) <= Len(messages'[k])
          /\ \A i \in 1 .. Len(messages[k]) : messages'[k][i] = messages[k][i]
    BY <1>1, <2>1, <2>2, <2>3
  <2>5. Called(r, "db")
    BY <1>2, CallIsCalled
  <2>6. Len(messages'[c]) = Len(messages[c]) + 1
    BY <2>2, <2>3
  <2>7. \E k \in Nat : k = Len(messages[c]) /\ Said(r, role, k + 1)'
    <3>1. PICK k \in Nat : k = Len(messages[c])
      BY <1>1, <2>1
    <3>2. k + 1 \in 1 .. Len(messages'[c]) /\ messages'[c][k + 1] = m
      BY <2>2, <2>3, <2>6, <3>1
    <3>3. Said(r, role, k + 1)'
      BY <3>2 DEF Said, m, c
    <3> QED
      BY <3>1, <3>3
  <2> QED
    BY <1>1, <2>1, <2>3, <2>4, <2>5, <2>6, <2>7 DEF c
<1>3. CASE c \notin convs /\ UNCHANGED <<messages, faultState>>
  BY <1>1, <1>3, CallIsCalled DEF TypeOK
<1>4. CASE Fails(r, "db") /\ UNCHANGED messages
  BY <1>1, <1>4, CallIsCalled, FailureIsBlamed DEF TypeOK
<1> QED
  BY <1>2, <1>3, <1>4 DEF AppendMessage

LEMMA AppendPreserves ==
  ASSUME TurnInv, NEW r \in Requests, AppendUser(r) \/ AppendAssistant(r)
  PROVE  TurnInv'
<1>1. TypeOK /\ StoreInv /\ EntriesPrivate /\ Course(r)
  BY DEF TurnInv
<1>2. PICK role \in {"user", "assistant"}, l \in {"assistant", "log"} :
        /\ pc[r] = role /\ (role = "user" <=> l = "assistant")
        /\ pc' = [pc EXCEPT ![r] = l]
        /\ AppendMessage(r, role)
  BY DEF AppendUser, AppendAssistant, GoTo
<1>3. UNCHANGED <<corpusState, cache, convs, logged, req, hist, version, seen,
                  ground, served, outcome, gone, prior>>
  BY DEF AppendUser, AppendAssistant, reqState
<1>4. outcome[r] = "answered"
  BY <1>1, <1>2 DEF Course, Stage
<1>5. /\ messages' \in [Convs -> Seq(Message)] /\ Called(r, "db")
      /\ \A c \in Convs :
           /\ Len(messages[c]) \in Nat /\ Len(messages[c]) <= Len(messages'[c])
           /\ \A i \in 1 .. Len(messages[c]) : messages'[c][i] = messages[c][i]
      /\ \/ gone[r] \/ "db" \in blame'[r] \/ req[r].conv \notin convs
         \/ /\ req[r].conv \in Convs
            /\ Len(messages'[req[r].conv]) = Len(messages[req[r].conv]) + 1
            /\ \E k \in Nat :
                 k = Len(messages[req[r].conv]) /\ Said(r, role, k + 1)'
  BY <1>1, <1>2, <1>3, AppendFacts
<1>6. /\ blame' \in [Requests -> SUBSET Services] /\ faults' \in Nat
      /\ blame[r] \subseteq blame'[r]
      /\ \A x \in Requests \ {r} : blame'[x] = blame[x]
  <2>1. "db" \in Services
    BY DEF Services
  <2> QED
    BY <1>1, <1>5, <2>1, CalledTyped
<1>7. /\ pc' \in [Requests -> PC] /\ pc'[r] = l
      /\ \A x \in Requests \ {r} : pc'[x] = pc[x]
      /\ \A x \in Requests : pc'[x] # "idle" => req[x] \in Request
  BY <1>1, <1>2 DEF TypeOK, PC
<1>8. TypeOK'
  BY <1>1, <1>3, <1>5, <1>6, <1>7 DEF TypeOK, CorpusTypeOK, corpusState
<1>9. StoreInv'
  BY <1>1, <1>3 DEF StoreInv, corpusState
<1>10. EntriesPrivate'
  BY <1>2, <1>3, EntriesStay
<1>11. Grows(r)
  BY <1>3, <1>5, <1>6, <1>7 DEF Grows
<1>12. Clean(r)' => Clean(r) /\ req[r].conv \in convs
  BY <1>1, <1>2, <1>3, <1>6 DEF Clean, Course, Ensured
<1>13. Recorded(r)'
  <2> SUFFICES ASSUME Clean(r)'
               PROVE  IF l = "assistant" THEN Asked(r)' ELSE Turn(r)'
    BY <1>2, <1>7 DEF Recorded
  <2>1. PICK k \in Nat : k = Len(messages[req[r].conv]) /\ Said(r, role, k + 1)'
    BY <1>3, <1>5, <1>12 DEF Clean
  <2>2. CASE l = "assistant"
    BY <1>2, <2>1, <2>2 DEF Asked
  <2>3. CASE l = "log"
    <3>1. PICK i \in Nat : Said(r, "user", i)
      BY <1>1, <1>2, <1>12, <2>3 DEF Course, Recorded, Asked
    <3>2. i \in 1 .. k /\ messages[req[r].conv][i] = [role |-> "user", by |-> r]
      BY <2>1, <3>1 DEF Said
    <3>3. Said(r, "user", i)'
      <4>1. req[r].conv \in Convs /\ Len(messages'[req[r].conv]) \in Nat
        BY <1>1, <1>5, <1>12 DEF TypeOK
      <4> QED
        BY <1>3, <1>5, <2>1, <3>2, <4>1 DEF Said
    <3>4. i < k + 1 /\ k + 1 \in Nat
      BY <2>1, <3>2
    <3>5. role = "assistant"
      BY <1>2, <2>3
    <3> QED
      BY <2>1, <2>3, <3>3, <3>4, <3>5 DEF Turn
  <2> QED
    BY <2>2, <2>3
<1>14. Stage(r)' /\ Logged(r)' /\ Blamed(r)' /\ Ensured(r)'
  BY <1>1, <1>2, <1>3, <1>4, <1>6, <1>7, <1>12
     DEF Course, Stage, Logged, Blamed, Ensured
<1> QED
  BY <1>8, <1>9, <1>10, <1>11, <1>13, <1>14, MovesOn DEF Course

LEMMA LogQueryPreserves ==
  ASSUME TurnInv, NEW r \in Requests, LogQuery(r) PROVE TurnInv'
<1>1. TypeOK /\ StoreInv /\ EntriesPrivate /\ Course(r)
  BY DEF TurnInv
<1>2. /\ pc[r] = "log" /\ pc' = [pc EXCEPT ![r] = "done"]
      /\ UNCHANGED <<corpusState, cache, convs, messages, req, hist, version, seen,
                     ground, served, outcome, gone, prior>>
  BY DEF LogQuery, GoTo, convState, reqState
<1>3. Called(r, "db") /\ "db" \in Services
  BY CallIsCalled DEF LogQuery, Services
<1>4. /\ blame' \in [Requests -> SUBSET Services] /\ faults' \in Nat
      /\ blame[r] \subseteq blame'[r]
      /\ \A x \in Requests \ {r} : blame'[x] = blame[x]
  BY <1>1, <1>3, CalledTyped
<1>5. /\ pc' \in [Requests -> PC] /\ pc'[r] = "done"
      /\ \A x \in Requests \ {r} : pc'[x] = pc[x]
      /\ \A x \in Requests : pc'[x] # "idle" => req[x] \in Request
  BY <1>1, <1>2 DEF TypeOK, PC
<1>6. \/ logged' = logged \cup {r} /\ outcome[r] # "refused"
      \/ logged' = logged /\ (outcome[r] = "refused" \/ "db" \in blame'[r])
  BY <1>1 DEF LogQuery, LogContext, NullIds, Fault, TypeOK
<1>7. TypeOK'
  BY <1>1, <1>2, <1>4, <1>5, <1>6 DEF TypeOK, CorpusTypeOK, corpusState
<1>8. StoreInv'
  BY <1>1, <1>2 DEF StoreInv, corpusState
<1>9. EntriesPrivate'
  BY <1>2, EntriesStay
<1>10. Grows(r)
  <2>1. \A c \in Convs : Len(messages[c]) \in Nat
    BY <1>1 DEF TypeOK
  <2> QED
    BY <1>2, <1>4, <1>5, <1>6, <2>1 DEF Grows
<1>11. outcome[r] \in {"hit", "refused", "answered"}
  BY <1>1, <1>2 DEF Course, Stage
<1>12. Stage(r)' /\ Logged(r)' /\ Blamed(r)'
  BY <1>1, <1>2, <1>4, <1>5, <1>6, <1>11 DEF Course, Stage, Logged, Blamed
<1>13. Ensured(r)' /\ Recorded(r)'
  BY <1>1, <1>2, <1>4, <1>5
     DEF Course, Ensured, Recorded, Clean, Turn, Said
<1> QED
  BY <1>7, <1>8, <1>9, <1>10, <1>12, <1>13, MovesOn DEF Course

\* The corpus, the clock, entries that expire and clients that leave.
LEMMA WorldStep ==
  ASSUME TurnInv, cache' \subseteq cache,
         CorpusTypeOK', stamp' \in [Docs -> Nat], chunks' \in Nat, clock' \in Nat,
         \A d \in Docs : stamp'[d] <= clock', IsFiniteSet(ready'),
         gone' \in [Requests -> BOOLEAN], \A x \in Requests : gone[x] => gone'[x],
         UNCHANGED <<convs, messages, logged, pc, req, hist, version, seen, ground,
                     served, outcome, prior, blame, faults>>
  PROVE  TurnInv'
<1>1. TypeOK'
  BY DEF TurnInv, TypeOK
<1>2. StoreInv'
  BY DEF TurnInv, StoreInv
<1>3. EntriesPrivate'
  BY DEF TurnInv, EntriesPrivate
<1>4. ASSUME NEW r \in Requests PROVE Course(r)'
  <2>1. Course(r) /\ (Clean(r)' => Clean(r))
    BY DEF TurnInv, Clean
  <2>2. Stage(r)' /\ Logged(r)' /\ Blamed(r)'
    BY <2>1 DEF Course, Stage, Logged, Blamed
  <2>3. Ensured(r)' /\ Recorded(r)'
    BY <2>1 DEF Course, Ensured, Recorded, Asked, Turn, Said
  <2> QED
    BY <2>2, <2>3 DEF Course
<1> QED
  BY <1>1, <1>2, <1>3, <1>4 DEF TurnInv

LEMMA EnvironmentPreserves == ASSUME TurnInv, Environment PROVE TurnInv'
<1>1. TypeOK /\ StoreInv
  BY DEF TurnInv
<1>2. ASSUME NEW d \in Docs, IngestCommits(d) PROVE TurnInv'
  <2>1. /\ index' = [index EXCEPT ![d] = @ + 1] /\ ready' = ready \cup {d}
        /\ chunks' = IF index[d] = 0 THEN chunks + NChunks[d] ELSE chunks
        /\ UNCHANGED <<clock, cache, convs, messages, logged, pc, req, hist, version,
                       seen, ground, served, outcome, gone, prior, blame, faults>>
    BY <1>2 DEF IngestCommits, Replace, convState, reqState, faultState
  <2>2. PICK t \in 1 .. clock : stamp' = [stamp EXCEPT ![d] = t]
    BY <1>2 DEF IngestCommits
  <2>3. CorpusTypeOK' /\ IsFiniteSet(ready')
    <3>1. IsFiniteSet(ready \cup {d})
      BY <1>1, FS_AddElement DEF StoreInv
    <3> QED
      BY <1>1, <2>1, <3>1 DEF TypeOK, CorpusTypeOK
  <2>4. stamp' \in [Docs -> Nat] /\ \A x \in Docs : stamp'[x] <= clock'
    BY <1>1, <2>1, <2>2 DEF TypeOK, StoreInv
  <2>5. chunks' \in Nat
    BY <1>1, <2>1, ChatAssumption DEF TypeOK
  <2> QED
    BY <1>1, <2>1, <2>3, <2>4, <2>5, WorldStep DEF TypeOK
<1>3. ASSUME NEW d \in Docs, Reopen(d) PROVE TurnInv'
  <2>1. /\ index' = index /\ ready' = ready \ {d}
        /\ UNCHANGED <<stamp, chunks, clock, cache, convs, messages, logged, pc, req,
                       hist, version, seen, ground, served, outcome, gone, prior,
                       blame, faults>>
    BY <1>3 DEF Reopen, Unready, convState, reqState, faultState
  <2>2. CorpusTypeOK' /\ IsFiniteSet(ready')
    BY <1>1, <2>1, FS_Subset DEF TypeOK, CorpusTypeOK, StoreInv
  <2> QED
    BY <1>1, <2>1, <2>2, WorldStep DEF TypeOK, StoreInv
<1>4. ASSUME NEW e \in cache, Expire(e) PROVE TurnInv'
  BY <1>1, <1>4, WorldStep
     DEF Expire, TypeOK, CorpusTypeOK, StoreInv, corpusState, convState, reqState, faultState
<1>5. CASE Tick
  <2>1. /\ clock' = clock + 1
        /\ UNCHANGED <<index, ready, stamp, chunks, cache, convs, messages, logged, pc,
                       req, hist, version, seen, ground, served, outcome, gone,
                       prior, blame, faults>>
    BY <1>5 DEF Tick, convState, reqState, faultState
  <2>2. clock' \in Nat /\ \A d \in Docs : stamp'[d] <= clock'
    BY <1>1, <2>1 DEF TypeOK, StoreInv
  <2> QED
    BY <1>1, <2>1, <2>2, WorldStep DEF TypeOK, CorpusTypeOK, StoreInv
<1> QED
  BY <1>2, <1>3, <1>4, <1>5 DEF Environment

\* Every step keeps the invariant.
LEMMA TurnInvNext == TurnInv /\ [Next]_vars => TurnInv'
<1> SUFFICES ASSUME TurnInv, [Next]_vars PROVE TurnInv'
  OBVIOUS
<1>1. TypeOK /\ StoreInv
  BY DEF TurnInv
<1>2. CASE UNCHANGED vars
  BY <1>1, <1>2, WorldStep
     DEF vars, TypeOK, CorpusTypeOK, StoreInv, corpusState, convState, reqState, faultState
<1>3. ASSUME NEW r \in Requests, Disconnect(r) PROVE TurnInv'
  <2>1. gone' \in [Requests -> BOOLEAN] /\ \A x \in Requests : gone[x] => gone'[x]
    BY <1>1, <1>3 DEF Disconnect, TypeOK
  <2> QED
    BY <1>1, <1>3, <2>1, WorldStep
       DEF Disconnect, TypeOK, CorpusTypeOK, StoreInv, corpusState, convState, reqState,
           faultState
<1>4. ASSUME NEW r \in Requests, Answer(r) PROVE TurnInv'
  BY <1>4, StartPreserves, AdmitPreserves, ReadHistoryPreserves, ReadVersionPreserves,
     LookupPreserves, RetrievePreserves, GeneratePreserves, PutPreserves,
     AppendPreserves, LogQueryPreserves DEF Answer
<1> QED
  BY <1>2, <1>3, <1>4, EnvironmentPreserves DEF Next

-----------------------------------------------------------------------------
(***************************************************************************)
(* What a request knows of those before it in its conversation, and who    *)
(* the authors of entries and messages are.                                *)
(***************************************************************************)

\* The earlier requests of the conversation are over.
PriorOver(r) == \A x \in prior[r] : pc[x] = "done" /\ req[x].conv = req[r].conv

\* Between its history and the cache, a follow-up of a generated answer has a
\* history, unless the database or its client has failed it.
Reading == {"version", "lookup", "retrieve", "generate", "put"}
KnowsPrior(r) ==
  pc[r] \in Reading /\ (\E x \in prior[r] : Generated(x)) =>
    hist[r] # <<>> \/ gone[r] \/ "db" \in blame[r]

Follows == HistoryTurns > 0 => FollowUpStaysPrivate /\ \A r \in Requests : KnowsPrior(r)

Authors ==
  /\ \A e \in cache : outcome[e.by] = "answered"
  /\ \A c \in Convs : \A i \in 1 .. Len(messages[c]) :
       outcome[messages[c][i].by] = "answered"

LinkInv == Authors /\ Follows /\ \A r \in Requests : PriorOver(r)

LEMMA LinkInvInit == Init => LinkInv
BY DEF Init, LinkInv, Authors, Follows, FollowUpStaysPrivate, PriorOver, KnowsPrior,
       Reading

\* A step of r is nobody else's, and r was not over; what r has lost it does not
\* get back, and its history and its answer it keeps.
OwnStep(r) ==
  /\ pc[r] # "done" /\ gone' = gone /\ blame[r] \subseteq blame'[r]
  /\ pc[r] # "idle" => prior'[r] = prior[r] /\ req'[r] = req[r]
  /\ pc[r] # "history" => hist'[r] = hist[r]
  /\ pc'[r] \in Reading => pc[r] \in Reading \cup {"history"}
  /\ outcome[r] = "answered" => outcome'[r] = "answered"
  /\ \A x \in Requests \ {r} :
       /\ pc'[x] = pc[x] /\ req'[x] = req[x] /\ hist'[x] = hist[x]
       /\ outcome'[x] = outcome[x] /\ blame'[x] = blame[x] /\ prior'[x] = prior[x]

LEMMA StepIsOwn == ASSUME TurnInv, NEW r \in Requests, Answer(r) PROVE OwnStep(r)
<1>1. TypeOK /\ Stage(r)
  BY DEF TurnInv, Course
<1>2. \A s : Works(r) \/ Fails(r, s) \/ Fault(r, s) \/ UNCHANGED faultState => Called(r, s)
  BY CallIsCalled
<1>3. ASSUME NEW s \in Services, Called(r, s)
      PROVE  /\ blame[r] \subseteq blame'[r]
             /\ \A x \in Requests \ {r} : blame'[x] = blame[x]
  BY <1>1, <1>3, CalledTyped
<1>4. "db" \in Services /\ "redis" \in Services /\ "embed" \in Services /\ "llm" \in Services
  BY DEF Services
<1>5. CASE Start(r)
  <2>1. Called(r, "db")
    BY <1>2, <1>5 DEF Start, EnsureConversation
  <2> QED
    BY <1>1, <1>3, <1>4, <1>5, <2>1 DEF Start, GoTo, TypeOK, StoreInv, OwnStep, Reading, TurnInv
<1>6. CASE Admit(r)
  <2>1. Called(r, "redis")
    BY <1>2, <1>6 DEF Admit
  <2> QED
    BY <1>1, <1>3, <1>4, <1>6, <2>1
       DEF Admit, End, GoTo, TypeOK, Stage, OwnStep, Reading
<1>7. CASE ReadHistory(r)
  <2>1. Called(r, "db")
    BY <1>2, <1>7 DEF ReadHistory
  <2> QED
    BY <1>1, <1>3, <1>4, <1>7, <2>1 DEF ReadHistory, GoTo, TypeOK, OwnStep, Reading
<1>8. CASE ReadVersion(r)
  <2>1. Called(r, "db")
    BY <1>2, <1>8 DEF ReadVersion
  <2> QED
    BY <1>1, <1>3, <1>4, <1>8, <2>1 DEF ReadVersion, GoTo, TypeOK, OwnStep, Reading
<1>9. CASE Lookup(r)
  <2>1. Called(r, "redis")
    BY <1>2, <1>9 DEF Lookup
  <2> QED
    BY <1>1, <1>3, <1>4, <1>9, <2>1 DEF Lookup, GoTo, TypeOK, Stage, OwnStep, Reading
<1>10. CASE Retrieve(r)
  <2>1. Called(r, "db") \/ Called(r, "embed")
    BY <1>2, <1>10 DEF Retrieve
  <2> QED
    BY <1>1, <1>3, <1>4, <1>10, <2>1
       DEF Retrieve, End, GoTo, TypeOK, Stage, OwnStep, Reading
<1>11. CASE Generate(r)
  <2>1. Called(r, "llm")
    BY <1>2, <1>11 DEF Generate
  <2> QED
    BY <1>1, <1>3, <1>4, <1>11, <2>1
       DEF Generate, End, GoTo, TypeOK, Stage, OwnStep, Reading
<1>12. CASE Put(r)
  <2>1. Called(r, "redis")
    BY <1>2, <1>12 DEF Put
  <2> QED
    BY <1>1, <1>3, <1>4, <1>12, <2>1 DEF Put, GoTo, TypeOK, reqState, OwnStep, Reading
<1>13. CASE AppendUser(r) \/ AppendAssistant(r)
  <2>1. Called(r, "db")
    BY <1>2, <1>13 DEF AppendUser, AppendAssistant, AppendMessage
  <2> QED
    BY <1>1, <1>3, <1>4, <1>13, <2>1
       DEF AppendUser, AppendAssistant, GoTo, TypeOK, reqState, OwnStep, Reading
<1>14. CASE LogQuery(r)
  <2>1. Called(r, "db")
    BY <1>2, <1>14 DEF LogQuery
  <2> QED
    BY <1>1, <1>3, <1>4, <1>14, <2>1 DEF LogQuery, GoTo, TypeOK, reqState, OwnStep, Reading
<1> QED
  BY <1>5, <1>6, <1>7, <1>8, <1>9, <1>10, <1>11, <1>12, <1>13, <1>14 DEF Answer

\* Whether an answer that is over was generated does not change any more.
LEMMA GeneratedStays ==
  ASSUME NEW r \in Requests, OwnStep(r), NEW x \in Requests, pc[x] = "done"
  PROVE  pc'[x] = "done" /\ req'[x] = req[x] /\ (Generated(x)' <=> Generated(x))
BY DEF OwnStep, Generated, Clean

\* What follows for a request that keeps its history.
LEMMA FollowerStays ==
  ASSUME TurnInv, LinkInv, NEW r \in Requests, OwnStep(r), NEW x \in Requests,
         x = r => pc[r] # "idle" /\ pc[r] # "history"
  PROVE  PriorOver(x)' /\ (HistoryTurns > 0 => KnowsPrior(x)')
<1>1. /\ prior'[x] = prior[x] /\ req'[x] = req[x] /\ hist'[x] = hist[x]
      /\ blame[x] \subseteq blame'[x] /\ gone' = gone
      /\ pc'[x] \in Reading => pc[x] \in Reading
  BY DEF OwnStep
<1>2. \A y \in prior[x] : y \in Requests /\ pc[y] = "done" /\ req[y].conv = req[x].conv
  BY DEF TurnInv, TypeOK, LinkInv, PriorOver
<1>3. \A y \in prior[x] :
        pc'[y] = "done" /\ req'[y] = req[y] /\ (Generated(y)' <=> Generated(y))
  BY <1>2, GeneratedStays
<1>4. PriorOver(x)'
  BY <1>1, <1>2, <1>3 DEF PriorOver
<1>5. ASSUME HistoryTurns > 0 PROVE KnowsPrior(x)'
  BY <1>1, <1>3, <1>5 DEF LinkInv, Follows, KnowsPrior
<1> QED
  BY <1>4, <1>5

\* The entries that were there before the step stay what they are.
LEMMA EntriesFollow ==
  ASSUME TurnInv, LinkInv, NEW r \in Requests, OwnStep(r), HistoryTurns > 0,
         NEW e \in cache, "db" \notin blame'[e.by], NEW x \in prior'[e.by]
  PROVE  ~Generated(x)'
<1>1. e.by \in Requests /\ pc[e.by] # "idle"
  BY DEF TurnInv, TypeOK, Entry, EntriesPrivate
<1>2. prior'[e.by] = prior[e.by] /\ blame[e.by] \subseteq blame'[e.by]
  BY <1>1 DEF OwnStep
<1>3. x \in Requests /\ pc[x] = "done" /\ ~Generated(x)
  BY <1>1, <1>2 DEF TurnInv, TypeOK, LinkInv, PriorOver, Follows, FollowUpStaysPrivate
<1> QED
  BY <1>3, GeneratedStays

\* A conversation that holds a turn has a history.
LEMMA TurnIsHistory ==
  ASSUME TurnInv, HistoryTurns > 0, NEW x \in Requests, pc[x] = "done", Generated(x)
  PROVE  History(req[x].conv, 2 * HistoryTurns) # <<>>
<1> DEFINE c == req[x].conv
           m == messages[c]
           n == 2 * HistoryTurns
           from == IF Len(m) > n THEN Len(m) - n + 1 ELSE 1
<1>1. Turn(x) /\ c \in Convs
  BY DEF TurnInv, Course, Recorded, Generated, Clean, StoreInv, Request
<1>2. m \in Seq(Message) /\ Len(m) \in Nat /\ Len(m) > 0
  BY <1>1 DEF TurnInv, TypeOK, Turn, Said
<1>3. n \in Nat /\ n > 0
  BY ChatAssumption
<1>4. from \in 1 .. Len(m)
  BY <1>2, <1>3
<1>5. Len(SubSeq(m, from, Len(m))) = Len(m) - from + 1
  <2>1. \A i \in from .. Len(m) : m[i] \in Message
    BY <1>2, <1>4
  <2> HIDE DEF from, m
  <2> QED
    BY <1>2, <1>4, <2>1, SubSeqProperties
<1>6. SubSeq(m, from, Len(m)) # <<>>
  <2>1. Len(m) - from + 1 # 0
    BY <1>2, <1>4
  <2>2. Len(<<>>) = 0
    OBVIOUS
  <2> HIDE DEF from, m
  <2> QED
    BY <1>5, <2>1, <2>2
<1> QED
  BY <1>6 DEF History

\* Those who have answered stay the authors of what there is.
LEMMA AuthorsStay ==
  ASSUME TurnInv, LinkInv, NEW r \in Requests, OwnStep(r)
  PROVE  /\ \A e \in cache : outcome'[e.by] = "answered"
         /\ \A c \in Convs : \A i \in 1 .. Len(messages[c]) :
              outcome'[messages[c][i].by] = "answered"
<1>1. \A x \in Requests : outcome[x] = "answered" => outcome'[x] = "answered"
  BY DEF OwnStep
<1>2. \A e \in cache : e.by \in Requests
  BY DEF TurnInv, TypeOK, Entry
<1>3. ASSUME NEW c \in Convs, NEW i \in 1 .. Len(messages[c])
      PROVE  messages[c][i].by \in Requests
  <2>1. messages[c] \in Seq(Message)
    BY DEF TurnInv, TypeOK
  <2>2. messages[c][i] \in Message
    BY <2>1
  <2> QED
    BY <2>2 DEF Message
<1> QED
  BY <1>1, <1>2, <1>3 DEF LinkInv, Authors

\* A step that stores nothing and reads no history.
LEMMA LinkQuietly ==
  ASSUME TurnInv, LinkInv, NEW r \in Requests, OwnStep(r),
         pc[r] # "idle", pc[r] # "history", cache' = cache, messages' = messages
  PROVE  LinkInv'
<1>1. Authors'
  BY AuthorsStay DEF Authors
<1>2. \A x \in Requests : PriorOver(x)' /\ (HistoryTurns > 0 => KnowsPrior(x)')
  BY FollowerStays
<1>3. HistoryTurns > 0 => FollowUpStaysPrivate'
  BY EntriesFollow DEF FollowUpStaysPrivate
<1> QED
  BY <1>1, <1>2, <1>3 DEF LinkInv, Follows

\* A new request finds the answers of its conversation.
LEMMA StartLinks ==
  ASSUME TurnInv, LinkInv, NEW r \in Requests, Start(r), OwnStep(r)
  PROVE  LinkInv'
<1>1. /\ pc[r] = "idle" /\ pc'[r] = "admit" /\ cache' = cache /\ messages' = messages
      /\ UNCHANGED outcome
  BY DEF Start, GoTo, TurnInv, TypeOK
<1>2. PICK a \in Asks : /\ req' = [req EXCEPT ![r] = a]
                        /\ prior' = [prior EXCEPT ![r] = Answers(a.conv)]
  BY DEF Start
<1>3. req'[r] = a /\ prior'[r] = Answers(a.conv)
  BY <1>2 DEF TurnInv, TypeOK, StoreInv
<1>4. PriorOver(r)'
  <2> SUFFICES ASSUME NEW x \in Answers(a.conv)
               PROVE  pc'[x] = "done" /\ req'[x].conv = a.conv
    BY <1>3 DEF PriorOver
  <2>1. x \in Requests /\ pc[x] = "done" /\ req[x].conv = a.conv
    BY DEF Answers
  <2> QED
    BY <2>1, GeneratedStays
<1>5. KnowsPrior(r)'
  BY <1>1 DEF KnowsPrior, Reading
<1>6. \A x \in Requests \ {r} : PriorOver(x)' /\ (HistoryTurns > 0 => KnowsPrior(x)')
  BY FollowerStays
<1>7. HistoryTurns > 0 => FollowUpStaysPrivate'
  BY <1>1, EntriesFollow DEF FollowUpStaysPrivate
<1>8. Authors'
  BY <1>1, AuthorsStay DEF Authors
<1> QED
  BY <1>4, <1>5, <1>6, <1>7, <1>8 DEF LinkInv, Follows

\* A follow-up of a generated answer finds the turn of that answer, or is failed.
LEMMA ReadHistoryLinks ==
  ASSUME TurnInv, LinkInv, NEW r \in Requests, ReadHistory(r), OwnStep(r)
  PROVE  LinkInv'
<1>1. /\ pc[r] = "history" /\ cache' = cache /\ messages' = messages
      /\ UNCHANGED <<outcome, gone, prior, req>>
  BY DEF ReadHistory, convState
<1>2. \A y \in prior[r] : y \in Requests /\ pc[y] = "done" /\ req[y].conv = req[r].conv
  BY DEF TurnInv, TypeOK, LinkInv, PriorOver
<1>3. \A y \in prior[r] : pc'[y] = "done" /\ (Generated(y)' <=> Generated(y))
  BY <1>2, GeneratedStays
<1>4. PriorOver(r)'
  BY <1>1, <1>2, <1>3 DEF PriorOver
<1>5. ASSUME HistoryTurns > 0 PROVE KnowsPrior(r)'
  <2> SUFFICES ASSUME NEW y \in prior[r], Generated(y)
               PROVE  hist'[r] # <<>> \/ gone'[r] \/ "db" \in blame'[r]
    BY <1>1, <1>3 DEF KnowsPrior
  <2>1. req[r].conv # NoConv /\ History(req[r].conv, 2 * HistoryTurns) # <<>>
    BY <1>2, <1>5, TurnIsHistory DEF Generated, Clean
  <2>2. CASE hist' = [hist EXCEPT ![r] = History(req[r].conv, 2 * HistoryTurns)]
    BY <2>1, <2>2 DEF TurnInv, TypeOK
  <2>3. CASE Fails(r, "db")
    BY <1>1, <2>3, FailureIsBlamed DEF TurnInv
  <2> QED
    BY <2>1, <2>2, <2>3 DEF ReadHistory
<1>6. \A x \in Requests \ {r} : PriorOver(x)' /\ (HistoryTurns > 0 => KnowsPrior(x)')
  BY FollowerStays
<1>7. HistoryTurns > 0 => FollowUpStaysPrivate'
  BY <1>1, EntriesFollow DEF FollowUpStaysPrivate
<1>8. Authors'
  BY <1>1, AuthorsStay DEF Authors
<1> QED
  BY <1>4, <1>5, <1>6, <1>7, <1>8 DEF LinkInv, Follows

\* Only a request without a history stores its answer, on a context that lives.
LEMMA PutLinks ==
  ASSUME TurnInv, LinkInv, NEW r \in Requests, Put(r), OwnStep(r)
  PROVE  LinkInv'
<1>1. /\ pc[r] = "put" /\ messages' = messages
      /\ UNCHANGED <<outcome, gone, prior, req, hist>>
  BY DEF Put, convState, reqState
<1>2. \A e \in cache' : e \in cache \/ (e.by = r /\ hist[r] = <<>> /\ ~gone[r])
  BY DEF Put, Cacheable, Works
<1>3. outcome'[r] = "answered"
  BY <1>1 DEF TurnInv, Course, Stage
<1>4. Authors'
  BY <1>1, <1>2, <1>3, AuthorsStay DEF Authors
<1>5. \A x \in Requests : PriorOver(x)' /\ (HistoryTurns > 0 => KnowsPrior(x)')
  BY <1>1, FollowerStays
<1>6. ASSUME HistoryTurns > 0 PROVE FollowUpStaysPrivate'
  <2> SUFFICES ASSUME NEW e \in cache', "db" \notin blame'[e.by], NEW x \in prior'[e.by]
               PROVE  ~Generated(x)'
    BY DEF FollowUpStaysPrivate
  <2>1. CASE e \in cache
    BY <1>6, <2>1, EntriesFollow
  <2>2. CASE e.by = r /\ hist[r] = <<>> /\ ~gone[r]
    <3>1. x \in Requests /\ pc[x] = "done" /\ x \in prior[r]
      BY <1>1, <2>2 DEF TurnInv, TypeOK, LinkInv, PriorOver
    <3>2. "db" \notin blame[r]
      BY <2>2 DEF OwnStep
    <3>3. ~Generated(x)
      BY <1>1, <1>6, <2>2, <3>1, <3>2 DEF LinkInv, Follows, KnowsPrior, Reading
    <3> QED
      BY <3>1, <3>3, GeneratedStays
  <2> QED
    BY <1>2, <2>1, <2>2
<1> QED
  BY <1>4, <1>5, <1>6 DEF LinkInv, Follows

\* A message bears the name of a request that has answered.
LEMMA AppendLinks ==
  ASSUME TurnInv, LinkInv, NEW r \in Requests, OwnStep(r),
         AppendUser(r) \/ AppendAssistant(r)
  PROVE  LinkInv'
<1>1. /\ pc[r] \in {"user", "assistant"} /\ cache' = cache
      /\ UNCHANGED <<req, outcome>>
  BY DEF AppendUser, AppendAssistant, reqState
<1>2. outcome'[r] = "answered"
  BY <1>1 DEF TurnInv, Course, Stage
<1>3. \A x \in Requests : PriorOver(x)' /\ (HistoryTurns > 0 => KnowsPrior(x)')
  BY <1>1, FollowerStays
<1>4. HistoryTurns > 0 => FollowUpStaysPrivate'
  BY <1>1, EntriesFollow DEF FollowUpStaysPrivate
<1>5. ASSUME NEW c \in Convs, NEW i \in 1 .. Len(messages'[c])
      PROVE  outcome'[messages'[c][i].by] = "answered"
  <2>1. CASE messages' = messages
    BY <1>5, <2>1, AuthorsStay
  <2>2. ASSUME NEW role, c = req[r].conv,
               messages' = [messages EXCEPT ![c] = Append(@, [role |-> role, by |-> r])]
        PROVE  outcome'[messages'[c][i].by] = "answered"
    <3> DEFINE m == [role |-> role, by |-> r]
    <3>1. messages[c] \in Seq(Message) /\ messages'[c] = Append(messages[c], m)
      BY <2>2 DEF TurnInv, TypeOK
    <3>2. m.by = r
      OBVIOUS
    <3> HIDE DEF m
    <3>3. CASE i \in 1 .. Len(messages[c])
      <4>1. messages'[c][i] = messages[c][i]
        BY <3>1, <3>3
      <4> QED
        BY <3>3, <4>1, AuthorsStay
    <3>4. CASE i = Len(messages[c]) + 1
      <4>1. messages'[c][i] = m
        BY <3>1, <3>4
      <4> QED
        BY <1>2, <3>2, <4>1
    <3> QED
      BY <1>5, <3>1, <3>3, <3>4
  <2>3. ASSUME NEW role, NEW k, k # c,
               messages' = [messages EXCEPT ![k] = Append(@, [role |-> role, by |-> r])]
        PROVE  outcome'[messages'[c][i].by] = "answered"
    <3>1. messages'[c] = messages[c]
      BY <2>3 DEF TurnInv, TypeOK
    <3> QED
      BY <1>5, <3>1, AuthorsStay
  <2> QED
    BY <2>1, <2>2, <2>3 DEF AppendUser, AppendAssistant, AppendMessage
<1>6. Authors'
  BY <1>1, <1>5, AuthorsStay DEF Authors
<1> QED
  BY <1>3, <1>4, <1>6 DEF LinkInv, Follows

\* Every step keeps it.
LEMMA LinkInvNext == TurnInv /\ LinkInv /\ [Next]_vars => LinkInv'
<1> SUFFICES ASSUME TurnInv, LinkInv, [Next]_vars PROVE LinkInv'
  OBVIOUS
<1>1. ASSUME NEW r \in Requests, Answer(r) PROVE LinkInv'
  <2>1. OwnStep(r)
    BY <1>1, StepIsOwn
  <2>2. CASE \/ Admit(r) \/ ReadVersion(r) \/ Lookup(r) \/ Retrieve(r) \/ Generate(r)
             \/ LogQuery(r)
    BY <2>1, <2>2, LinkQuietly
       DEF Admit, ReadVersion, Lookup, Retrieve, Generate, LogQuery, convState
  <2> QED
    BY <1>1, <2>1, <2>2, StartLinks, ReadHistoryLinks, PutLinks, AppendLinks DEF Answer
<1>2. ASSUME NEW r \in Requests, Disconnect(r) PROVE LinkInv'
  <2>1. /\ UNCHANGED <<cache, messages, pc, req, hist, outcome, blame, prior>>
        /\ pc[r] # "done" /\ gone' = [gone EXCEPT ![r] = TRUE]
    BY <1>2 DEF Disconnect, convState, reqState, faultState
  <2>2. \A x \in Requests : pc[x] = "done" => (Generated(x)' <=> Generated(x))
    BY <2>1 DEF Generated, Clean, TurnInv, TypeOK
  <2>3. \A x \in Requests : gone[x] => gone'[x]
    BY <2>1 DEF TurnInv, TypeOK
  <2>4. \A x \in Requests : prior[x] \subseteq {y \in Requests : pc[y] = "done"}
    BY DEF TurnInv, TypeOK, LinkInv, PriorOver
  <2>5. Authors' /\ \A x \in Requests : PriorOver(x)'
    BY <2>1 DEF LinkInv, Authors, PriorOver
  <2>6. ASSUME HistoryTurns > 0 PROVE FollowUpStaysPrivate'
    <3>1. \A e \in cache : e.by \in Requests
      BY DEF TurnInv, TypeOK, Entry
    <3> QED
      BY <2>1, <2>2, <2>4, <2>6, <3>1 DEF LinkInv, Follows, FollowUpStaysPrivate
  <2>7. ASSUME HistoryTurns > 0, NEW x \in Requests PROVE KnowsPrior(x)'
    BY <2>1, <2>2, <2>3, <2>4, <2>7 DEF LinkInv, Follows, KnowsPrior
  <2> QED
    BY <2>5, <2>6, <2>7 DEF LinkInv, Follows
<1>3. ASSUME UNCHANGED <<messages, pc, req, hist, outcome, blame, gone, prior>>,
             cache' \subseteq cache
      PROVE  LinkInv'
  <2>1. Authors' /\ \A x \in Requests : PriorOver(x)'
    BY <1>3 DEF LinkInv, Authors, PriorOver
  <2>2. Follows'
    BY <1>3 DEF LinkInv, Follows, FollowUpStaysPrivate, KnowsPrior, Generated, Clean
  <2> QED
    BY <2>1, <2>2 DEF LinkInv
<1>4. CASE Environment \/ UNCHANGED vars
  BY <1>3, <1>4 DEF Environment, IngestCommits, Reopen, Expire, Tick, vars, convState,
                    reqState, faultState
<1> QED
  BY <1>1, <1>2, <1>4 DEF Next

-----------------------------------------------------------------------------
\* The state of the query path is well typed; what it rests on is that the
\* corpus version exists, though stamps may go back from one ingest to the next.
THEOREM ChatTypeCorrect == Spec => []TypeOK
<1>1. TurnInv => TypeOK
  BY DEF TurnInv
<1> QED
  BY <1>1, TurnInvInit, TurnInvNext, PTL DEF Spec

\* A follow-up of a generated answer is not stored for strangers: the turn that the
\* answer has left is found, or the database or the client had failed one of the two.
THEOREM FollowUpsKeepPrivate == Spec => []FollowUpStaysPrivate
<1>1. TurnInv /\ LinkInv => FollowUpStaysPrivate
  BY DEF LinkInv, Follows, FollowUpStaysPrivate
<1> QED
  BY <1>1, TurnInvInit, TurnInvNext, LinkInvInit, LinkInvNext, PTL DEF Spec

\* Whatever others can see of a request that is over, a disconnect in its last
\* steps included, has its row in query_logs.
THEOREM VisibleAreLogged == Spec => []VisibleIsLogged
<1>1. ASSUME TurnInv, LinkInv PROVE VisibleIsLogged
  <2> SUFFICES ASSUME NEW r \in Requests, pc[r] = "done", "db" \notin blame[r], Visible(r)
               PROVE  r \in logged
    BY DEF VisibleIsLogged
  <2>1. outcome[r] \in {"hit", "answered"}
    BY <1>1 DEF Visible, LinkInv, Authors
  <2> QED
    BY <1>1, <2>1 DEF TurnInv, Course, Logged
<1> QED
  BY <1>1, TurnInvInit, TurnInvNext, LinkInvInit, LinkInvNext, PTL DEF Spec

\* Neither Redis nor the embedding API makes a request fail.
THEOREM OnlyEssentialsFail == Spec => []DegradesNotFails
<1>1. TurnInv => DegradesNotFails
  BY DEF TurnInv, Course, Blamed, DegradesNotFails
<1> QED
  BY <1>1, TurnInvInit, TurnInvNext, PTL DEF Spec

\* An answered question that no failure touched is in its conversation, the
\* question before the answer.
THEOREM TurnsAreKept == Spec => []TurnIsRecorded
<1>1. ASSUME TurnInv PROVE TurnIsRecorded
  <2> SUFFICES ASSUME NEW r \in Requests, pc[r] = "done", outcome[r] = "answered", Clean(r)
               PROVE  LET m == messages[req[r].conv] IN
                      \E i, j \in 1 .. Len(m) :
                        /\ i < j
                        /\ m[i] = [role |-> "user", by |-> r]
                        /\ m[j] = [role |-> "assistant", by |-> r]
    BY DEF TurnIsRecorded, Clean
  <2>1. Turn(r)
    BY <1>1 DEF TurnInv, Course, Recorded
  <2> QED
    BY <2>1 DEF Turn, Said
<1> QED
  BY <1>1, TurnInvInit, TurnInvNext, PTL DEF Spec
=============================================================================
