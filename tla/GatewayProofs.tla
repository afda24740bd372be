--------------------------- MODULE GatewayProofs ---------------------------
(***************************************************************************)
(* Proofs about the gateway process, for any number of requests,           *)
(* connections, restarts, kills and failing calls: its state is well typed *)
(* and the pool's limit is kept, a drain is graceful, and an upload whose  *)
(* document is stored and not queued is not told that it was accepted.     *)
(* And about the rate limiter in front of its chat route.                  *)
(***************************************************************************)
EXTENDS Gateway, RateLimiter, FiniteSetTheorems, SequenceTheorems, TLAPS

-----------------------------------------------------------------------------
(***************************************************************************)
(* The invariant.                                                          *)
(***************************************************************************)

\* The stretches of main: before the listener, serving, after Shutdown.
Starting == main \in {"down", "open", "migrate", "redis", "producer"}
Closing == main \in {"closing", "flush", "redisClose", "poolClose", "poolWait"}

\* Requests come in through the listener, and it is open only while main waits
\* for the signal. While it may have been open the pool and the producer exist,
\* and what is closed is closed by the deferred calls.
LifeInv ==
  /\ Starting => listener = "none" /\ InFlight = {}
  /\ listener = "open" => main = "serving"
  /\ main \in {"migrate", "redis", "producer"} => client["db"] # "nil"
  /\ ~Starting => \A x \in Waits : client[x] # "nil"
  /\ (\E x \in Resources : client[x] = "closed") => Closing
  /\ client["model"] = "open"

\* Once Shutdown has returned, what is still under way has outlasted the grace.
DrainInv ==
  /\ Closing => InFlight \subseteq overtaken
  /\ \A r \in Requests : reply[r] = "cut" => r \in overtaken

\* A request is in the middle of a call only on the client of its next call.
UsingInv ==
  /\ IsFiniteSet(using["db"])
  /\ \A x \in Waits : \A r \in using[x] : Pending(r) /\ On(r) = x

\* What an upload has still to do tells what it has done; every other handler
\* has nothing to do with the topic.
Publish == <<Call("kafka", {1}, {})>>
NoTopic(s) == \A i \in DOMAIN s : s[i].on # "kafka"
Progress(r) ==
  \/ todo[r] = uploadDocument /\ r \notin stored /\ r \notin queued
  \/ todo[r] = Publish /\ r \in stored /\ r \notin queued
  \/ NoTopic(todo[r]) /\ (r \in stored <=> r \in queued)

UploadInv ==
  /\ \A r \in Requests : reply[r] = "none" => r \notin stored /\ r \notin queued
  /\ \A r \in InFlight : Progress(r)
  /\ OrphanIsReported

GatewayInv == TypeOK /\ LifeInv /\ DrainInv /\ UsingInv /\ UploadInv

-----------------------------------------------------------------------------
(***************************************************************************)
(* The handlers' plans: what is left of one after some calls is a plan.    *)
(***************************************************************************)
CallType == [on : Resources, works : SUBSET (1 .. End), fails : SUBSET (1 .. End)]

LEMMA CallTyped ==
  ASSUME NEW x \in Resources, NEW w \in SUBSET (1 .. End), NEW f \in SUBSET (1 .. End)
  PROVE  Call(x, w, f) \in CallType
BY DEF Call, CallType

LEMMA Joined ==
  ASSUME NEW s \in Seq(CallType), NEW t \in Seq(CallType)
  PROVE  s \o t \in Seq(CallType) /\ Len(s \o t) = Len(s) + Len(t)
BY ConcatProperties, Zenon

\* Every route is a short sequence of calls.
LEMMA RouteTyped ==
  ASSUME NEW h \in Routes PROVE h \in Seq(CallType) /\ Len(h) < End
<1>1. /\ {1} \in SUBSET (1 .. End) /\ {} \in SUBSET (1 .. End)
      /\ {2} \in SUBSET (1 .. End) /\ {1, 3} \in SUBSET (1 .. End)
      /\ {1, 5} \in SUBSET (1 .. End) /\ {1, 9} \in SUBSET (1 .. End)
      /\ {1, End} \in SUBSET (1 .. End)
  BY DEF End
<1>2. /\ "db" \in Resources /\ "kafka" \in Resources
      /\ "cache" \in Resources /\ "model" \in Resources
  BY DEF Resources
<1>3. uploadDocument \in Seq(CallType) /\ Len(uploadDocument) = 2
  BY <1>1, <1>2, CallTyped DEF uploadDocument
<1>4. embedQuestion \in Seq(CallType) /\ Len(embedQuestion) = 3
  BY <1>1, <1>2, CallTyped DEF embedQuestion
<1>5. /\ getDocument \in Seq(CallType) /\ Len(getDocument) = 1
      /\ listDocuments \in Seq(CallType) /\ Len(listDocuments) = 1
      /\ getConversation \in Seq(CallType) /\ Len(getConversation) = 1
  BY <1>1, <1>2, CallTyped DEF getDocument, listDocuments, getConversation
<1>6. /\ stats \in Seq(CallType) /\ Len(stats) = 2
      /\ readyz \in Seq(CallType) /\ Len(readyz) = 2
      /\ healthz \in Seq(CallType) /\ Len(healthz) = 0
  BY <1>1, <1>2, CallTyped DEF stats, readyz, healthz
<1>7. searchOnly \in Seq(CallType) /\ Len(searchOnly) = 5
  <2>1. <<Call("db", {1}, {}), Call("model", {1}, {1})>> \in Seq(CallType)
    BY <1>1, <1>2, CallTyped
  <2>2. Len(<<Call("db", {1}, {}), Call("model", {1}, {1})>>) = 2
    OBVIOUS
  <2>3. searchOnly \in Seq(CallType) /\ Len(searchOnly) = 3 + 2
    BY <1>4, <2>1, <2>2, Joined, Zenon DEF searchOnly
  <2> QED
    BY <2>3
<1>8. chatStream \in Seq(CallType) /\ Len(chatStream) = 13
  <2> DEFINE a == <<Call("db", {1}, {1}), Call("cache", {1, End}, {1}),
                    Call("db", {1}, {1}), Call("cache", {1, 9}, {1})>>
             b == <<Call("db", {1, 5}, {}), Call("model", {1}, {1}),
                    Call("model", {1}, {}), Call("cache", {1}, {1}),
                    Call("db", {1}, {1}), Call("db", {1}, {1})>>
  <2>1. a \in Seq(CallType) /\ Len(a) = 4
    BY <1>1, <1>2, CallTyped
  <2>2. b \in Seq(CallType) /\ Len(b) = 6
    BY <1>1, <1>2, CallTyped
  <2>3. chatStream = a \o embedQuestion \o b
    BY DEF chatStream
  <2> HIDE DEF a, b
  <2>4. a \o embedQuestion \in Seq(CallType) /\ Len(a \o embedQuestion) = 4 + 3
    BY <1>4, <2>1, Joined, Zenon
  <2>5. chatStream \in Seq(CallType) /\ Len(chatStream) = (4 + 3) + 6
    BY <2>2, <2>3, <2>4, Joined, Zenon
  <2> QED
    BY <2>5
<1>9. \/ h \in {uploadDocument, getDocument, listDocuments, getConversation}
      \/ h \in {stats, healthz, readyz, searchOnly, chatStream}
  BY DEF Routes
<1>10. 0 < End /\ 1 < End /\ 2 < End /\ 5 < End /\ 13 < End
  BY DEF End
<1> QED
  BY <1>3, <1>5, <1>6, <1>7, <1>8, <1>9, <1>10, Zenon

LEMMA TailOfRoute ==
  ASSUME NEW h \in Routes, NEW k \in 1 .. End
  PROVE  SubSeq(h, k, Len(h)) \in Plans
<1>1. \E h2 \in Routes, n \in 1 .. End : SubSeq(h, k, Len(h)) = SubSeq(h2, n, Len(h2))
  OBVIOUS
<1> QED
  BY <1>1 DEF Plans

LEMMA RestIsPlan ==
  ASSUME NEW p \in Plans, NEW n \in 1 .. End
  PROVE  SubSeq(p, n + 1, Len(p)) \in Plans
<1>1. PICK h \in Routes, k \in 1 .. End : p = SubSeq(h, k, Len(h))
  BY DEF Plans
<1>2. h \in Seq(CallType) /\ Len(h) \in Nat /\ Len(h) < End
  BY RouteTyped
<1>3. /\ Len(p) = IF k <= Len(h) THEN Len(h) - k + 1 ELSE 0
      /\ \A i \in 1 .. Len(p) : p[i] = h[k + i - 1]
      /\ p \in Seq(CallType)
  BY <1>1, <1>2 DEF End
<1>4. CASE k + n <= End
  <2>1. SubSeq(p, n + 1, Len(p)) = SubSeq(h, k + n, Len(h))
    BY <1>2, <1>3 DEF End
  <2>2. k + n \in 1 .. End
    BY <1>4 DEF End
  <2> QED
    BY <2>1, <2>2, TailOfRoute
<1>5. CASE k + n > End
  <2>1. Len(p) < n + 1 /\ Len(p) \in Int /\ Len(h) < End
    BY <1>2, <1>3, <1>5 DEF End
  <2>2. SubSeq(p, n + 1, Len(p)) = <<>> /\ SubSeq(h, End, Len(h)) = <<>>
    BY <1>2, <2>1, SubSeqEmpty DEF End
  <2>3. End \in 1 .. End
    BY DEF End
  <2> QED
    BY <2>2, <2>3, TailOfRoute
<1> QED
  BY <1>2, <1>4, <1>5 DEF End

LEMMA PlanTyped ==
  ASSUME NEW p \in Plans
  PROVE  /\ p \in Seq(CallType)
         /\ p # <<>> => Len(p) > 0 /\ Head(p) = p[1] /\ Head(p) \in CallType
<1>1. PICK h \in Routes, k \in 1 .. End : p = SubSeq(h, k, Len(h))
  BY DEF Plans
<1>2. h \in Seq(CallType)
  BY RouteTyped
<1>3. p \in Seq(CallType)
  BY <1>1, <1>2 DEF End
<1> QED
  BY <1>3

\* Before the first call everything of a route is left, after the last nothing.
LEMMA RouteIsPlan == Routes \subseteq Plans /\ <<>> \in Plans
<1>1. ASSUME NEW h \in Routes PROVE h \in Plans
  <2>1. h = SubSeq(h, 1, Len(h))
    BY RouteTyped
  <2>2. 1 \in 1 .. End
    BY DEF End
  <2> QED
    BY <2>1, <2>2, TailOfRoute
<1>2. healthz \in Routes /\ healthz = <<>>
  BY DEF Routes, healthz
<1> QED
  BY <1>1, <1>2

LEMMA NoTopicJoined ==
  ASSUME NEW s \in Seq(CallType), NEW t \in Seq(CallType), NoTopic(s), NoTopic(t)
  PROVE  NoTopic(s \o t)
<1>1. /\ s \o t \in Seq(CallType) /\ Len(s \o t) = Len(s) + Len(t)
      /\ \A i \in 1 .. Len(s) + Len(t) :
           (s \o t)[i] = IF i <= Len(s) THEN s[i] ELSE t[i - Len(s)]
  BY ConcatProperties, Zenon
<1> HIDE DEF Call
<1> QED
  BY <1>1 DEF NoTopic

LEMMA NoTopicRest ==
  ASSUME NEW s \in Seq(CallType), NoTopic(s), NEW n \in 1 .. End
  PROVE  NoTopic(SubSeq(s, n + 1, Len(s)))
<1>1. /\ Len(SubSeq(s, n + 1, Len(s))) = IF n + 1 <= Len(s) THEN Len(s) - n ELSE 0
      /\ \A i \in 1 .. Len(s) - n : SubSeq(s, n + 1, Len(s))[i] = s[n + i]
      /\ SubSeq(s, n + 1, Len(s)) \in Seq(CallType)
  BY DEF End
<1> QED
  BY <1>1 DEF NoTopic, End

\* Only an upload publishes.
LEMMA OnlyUploadPublishes ==
  ASSUME NEW h \in Routes PROVE h = uploadDocument \/ NoTopic(h)
<1>1. /\ NoTopic(getDocument) /\ NoTopic(listDocuments) /\ NoTopic(getConversation)
      /\ NoTopic(stats) /\ NoTopic(healthz) /\ NoTopic(readyz)
  BY DEF NoTopic, Call, getDocument, listDocuments, getConversation, stats, healthz,
     readyz
<1>2. embedQuestion \in Seq(CallType) /\ NoTopic(embedQuestion)
  BY DEF NoTopic, Call, embedQuestion, CallType, Resources, End
<1>3. NoTopic(searchOnly)
  <2> DEFINE a == <<Call("db", {1}, {}), Call("model", {1}, {1})>>
  <2>1. a \in Seq(CallType) /\ NoTopic(a)
    BY DEF NoTopic, Call, CallType, Resources, End
  <2> HIDE DEF a
  <2>2. NoTopic(embedQuestion \o a)
    BY <1>2, <2>1, NoTopicJoined
  <2> QED
    BY <2>2 DEF searchOnly, a
<1>4. NoTopic(chatStream)
  <2> DEFINE a == <<Call("db", {1}, {1}), Call("cache", {1, End}, {1}),
                    Call("db", {1}, {1}), Call("cache", {1, 9}, {1})>>
             b == <<Call("db", {1, 5}, {}), Call("model", {1}, {1}),
                    Call("model", {1}, {}), Call("cache", {1}, {1}),
                    Call("db", {1}, {1}), Call("db", {1}, {1})>>
  <2>1. a \in Seq(CallType) /\ NoTopic(a)
    BY DEF NoTopic, Call, CallType, Resources, End
  <2>2. b \in Seq(CallType) /\ NoTopic(b)
    BY DEF NoTopic, Call, CallType, Resources, End
  <2>3. chatStream = a \o embedQuestion \o b
    BY DEF chatStream
  <2> HIDE DEF a, b
  <2>4. a \o embedQuestion \in Seq(CallType) /\ NoTopic(a \o embedQuestion)
    BY <1>2, <2>1, NoTopicJoined, Joined
  <2> QED
    BY <2>2, <2>3, <2>4, NoTopicJoined
<1>5. \/ h \in {uploadDocument, getDocument, listDocuments, getConversation}
      \/ h \in {stats, healthz, readyz, searchOnly, chatStream}
  BY DEF Routes
<1> QED
  BY <1>1, <1>3, <1>4, <1>5, Zenon

\* The course of an upload.
LEMMA UploadCourse ==
  /\ Head(uploadDocument) = Call("db", {1, End}, {})
  /\ Head(Publish) = Call("kafka", {1}, {})
  /\ SubSeq(uploadDocument, 1 + 1, Len(uploadDocument)) = Publish
  /\ SubSeq(uploadDocument, End + 1, Len(uploadDocument)) = <<>>
  /\ SubSeq(Publish, 1 + 1, Len(Publish)) = <<>>
  /\ uploadDocument # Publish /\ uploadDocument # <<>> /\ Publish # <<>>
  /\ ~NoTopic(uploadDocument) /\ ~NoTopic(Publish) /\ NoTopic(<<>>)
<1>1. Len(uploadDocument) = 2 /\ Len(Publish) = 1
  BY DEF uploadDocument, Publish
<1>2. /\ uploadDocument[1] = Call("db", {1, End}, {})
      /\ uploadDocument[2] = Call("kafka", {1}, {})
      /\ Publish[1] = Call("kafka", {1}, {})
  BY DEF uploadDocument, Publish
<1>3. /\ SubSeq(uploadDocument, 1 + 1, Len(uploadDocument)) = Publish
      /\ Head(uploadDocument) = uploadDocument[1] /\ Head(Publish) = Publish[1]
  <2>1. \A x, y : /\ SubSeq(<<x, y>>, 2, 2) = <<y>>
                  /\ Head(<<x, y>>) = <<x, y>>[1] /\ Head(<<x>>) = <<x>>[1]
    <3> TAKE x, y
    <3>1. <<x, y>> \in Seq({x, y}) /\ Len(<<x, y>>) = 2 /\ <<x, y>>[2] = y
      OBVIOUS
    <3>2. /\ SubSeq(<<x, y>>, 2, 2) \in Seq({x, y})
          /\ Len(SubSeq(<<x, y>>, 2, 2)) = 1 /\ SubSeq(<<x, y>>, 2, 2)[1] = y
      BY <3>1
    <3>3. SubSeq(<<x, y>>, 2, 2) = <<y>>
      <4>1. <<y>> \in Seq({x, y}) /\ Len(<<y>>) = 1 /\ <<y>>[1] = y
        OBVIOUS
      <4> DEFINE rest == SubSeq(<<x, y>>, 2, 2)
      <4>2. Len(rest) = Len(<<y>>) /\ \A i \in 1 .. Len(rest) : rest[i] = <<y>>[i]
        BY <3>2, <4>1
      <4> QED
        BY <3>2, <4>1, <4>2, SeqEqual, Zenon
    <3> QED
      BY <3>3
  <2>2. 1 + 1 = 2
    OBVIOUS
  <2> QED
    BY <1>1, <2>1, <2>2, Zenon DEF uploadDocument, Publish
<1>4. /\ SubSeq(uploadDocument, End + 1, Len(uploadDocument)) = <<>>
      /\ SubSeq(Publish, 1 + 1, Len(Publish)) = <<>>
  BY <1>1, SubSeqEmpty DEF End
<1>5. uploadDocument # Publish /\ uploadDocument # <<>> /\ Publish # <<>>
  BY <1>1
<1>6. ~NoTopic(uploadDocument) /\ ~NoTopic(Publish) /\ NoTopic(<<>>)
  BY DEF NoTopic, uploadDocument, Publish, Call
<1> QED
  BY <1>2, <1>3, <1>4, <1>5, <1>6

-----------------------------------------------------------------------------
(***************************************************************************)
(* The invariant is inductive: main.                                       *)
(***************************************************************************)
Stages == {"down", "open", "migrate", "redis", "producer", "serving", "drain",
           "closing", "flush", "redisClose", "poolClose", "poolWait"}

LEMMA GatewayInvInit == Init => GatewayInv
<1> SUFFICES ASSUME Init PROVE GatewayInv
  OBVIOUS
<1>1. InFlight = {}
  BY DEF Init, InFlight
<1>2. IsFiniteSet({}) /\ Cardinality({}) = 0
  BY FS_EmptySet
<1>3. TypeOK
  <2>1. Cardinality(using["db"]) <= MaxConns
    BY <1>2, GatewayAssumption DEF Init, Waits
  <2>2. todo \in [Requests -> Plans]
    BY RouteIsPlan DEF Init
  <2>3. using \in [Waits -> SUBSET InFlight]
    BY <1>1 DEF Init
  <2>4. attempt \in 0 .. MaxAttempts
    BY GatewayAssumption DEF Init
  <2>5. client \in [Resources -> {"nil", "open", "closed"}]
    BY DEF Init, NoClients
  <2>6. reply \in [Requests -> {"none", "pending", "ok", "failed", "cut"}]
    BY DEF Init
  <2>7. {overtaken, stored, queued} \subseteq SUBSET Requests
    BY DEF Init
  <2>8. {lives, faults} \subseteq Nat
    BY DEF Init
  <2>9. main = "down" /\ done \in BOOLEAN /\ listener = "none"
    BY DEF Init
  <2> QED
    BY <2>1, <2>2, <2>3, <2>4, <2>5, <2>6, <2>7, <2>8, <2>9 DEF TypeOK
<1>4. LifeInv
  BY <1>1 DEF Init, LifeInv, Starting, NoClients, Resources
<1>5. DrainInv /\ UploadInv
  BY <1>1 DEF Init, DrainInv, UploadInv, Closing, OrphanIsReported
<1>6. UsingInv
  BY <1>2 DEF Init, UsingInv, Waits
<1> QED
  BY <1>3, <1>4, <1>5, <1>6 DEF GatewayInv

\* Steps of main that leave requests and tables alone.
LEMMA ProcessStep ==
  ASSUME GatewayInv, UNCHANGED <<requests, database>>,
         main' \in Stages, attempt' \in 0 .. MaxAttempts, done' \in BOOLEAN,
         listener' \in {"none", "starting", "open", "closed"},
         client' \in [Resources -> {"nil", "open", "closed"}],
         lives' \in Nat, faults' \in Nat,
         LifeInv',
         Closing' => InFlight \subseteq overtaken
  PROVE  GatewayInv'
<1>1. InFlight' = InFlight
  BY DEF InFlight, requests
<1>2. TypeOK'
  BY <1>1 DEF GatewayInv, TypeOK, Stages, requests, database
<1>3. DrainInv'
  BY <1>1 DEF GatewayInv, DrainInv, requests
<1>4. UsingInv'
  BY <1>1 DEF GatewayInv, UsingInv, Pending, On, requests
<1>5. UploadInv'
  BY <1>1 DEF GatewayInv, UploadInv, OrphanIsReported, Progress, requests, database
<1> QED
  BY <1>2, <1>3, <1>4, <1>5 DEF GatewayInv

\* The end of the process: it leaves no request under way, and those that were
\* have been overtaken; calls in the middle may have taken effect.
LEMMA ExitStep ==
  ASSUME GatewayInv, Exit, lives' \in Nat, faults' \in Nat,
         overtaken \subseteq overtaken', InFlight \subseteq overtaken',
         overtaken' \subseteq Requests,
         stored \subseteq stored', stored' \subseteq stored \cup InFlight,
         queued \subseteq queued', queued' \subseteq queued \cup InFlight,
         queued' \subseteq stored'
  PROVE  GatewayInv'
<1>1. /\ reply \in [Requests -> {"none", "pending", "ok", "failed", "cut"}]
      /\ InFlight \subseteq Requests
      /\ stored \subseteq Requests /\ queued \subseteq Requests
  BY DEF GatewayInv, TypeOK, InFlight
<1>2. /\ reply' \in [Requests -> {"none", "ok", "failed", "cut"}]
      /\ \A r \in Requests :
           reply'[r] = IF r \in InFlight THEN "cut" ELSE reply[r]
  BY <1>1 DEF Exit, InFlight
<1>3. InFlight' = {}
  BY <1>2 DEF InFlight
<1>4. IsFiniteSet({}) /\ Cardinality({}) = 0
  BY FS_EmptySet
<1>5. TypeOK'
  <2>1. Cardinality(using'["db"]) <= MaxConns
    BY <1>4, GatewayAssumption DEF Exit, Waits
  <2>2. todo' \in [Requests -> Plans]
    BY RouteIsPlan DEF Exit
  <2>3. using' \in [Waits -> SUBSET InFlight']
    BY <1>3 DEF Exit
  <2>4. main' = "down" /\ attempt' \in 0 .. MaxAttempts
    BY GatewayAssumption DEF Exit
  <2> QED
    BY <1>1, <1>2, <2>1, <2>2, <2>3, <2>4 DEF Exit, TypeOK, NoClients
<1>6. LifeInv'
  BY <1>3 DEF Exit, LifeInv, Starting, NoClients, Resources
<1>7. DrainInv'
  BY <1>1, <1>2, <1>3 DEF GatewayInv, DrainInv, Closing
<1>8. UsingInv'
  BY <1>4 DEF Exit, UsingInv, Waits
<1>9. UploadInv'
  <2>1. ASSUME NEW r \in Requests, reply'[r] = "none"
        PROVE  r \notin stored' /\ r \notin queued'
    BY <1>1, <1>2, <2>1 DEF GatewayInv, UploadInv, InFlight
  <2>2. ASSUME NEW r \in stored' \ queued' PROVE reply'[r] # "ok"
    BY <1>1, <1>2, <2>2 DEF GatewayInv, UploadInv, OrphanIsReported
  <2> QED
    BY <1>3, <2>1, <2>2 DEF UploadInv, OrphanIsReported
<1> QED
  BY <1>5, <1>6, <1>7, <1>8, <1>9 DEF GatewayInv

\* main before the listener.
LEMMA StartupPreserves ==
  ASSUME GatewayInv,
         (\E e \in Environments : Start(e)) \/ OpenStore \/ Migrate \/ PingRedis
           \/ OpenProducer
  PROVE  GatewayInv'
<1>1. TypeOK /\ LifeInv
  BY DEF GatewayInv
<1>2. ASSUME NEW e \in Environments, Start(e) PROVE GatewayInv'
  <2>1. /\ main = "down" /\ main' \in {"open", "down"} /\ lives' = lives + 1
        /\ UNCHANGED <<attempt, done, listener, client, requests, database, faults>>
    BY <1>2 DEF Start
  <2>2. LifeInv'
    BY <1>1, <2>1 DEF LifeInv, Starting, Closing, InFlight, requests
  <2> QED
    BY <1>1, <2>1, <2>2, ProcessStep DEF TypeOK, Stages, Closing
<1>3. ASSUME Exit, Starting, UNCHANGED <<overtaken, database, bounds>>
      PROVE  GatewayInv'
  <2>1. InFlight = {} /\ queued \subseteq stored
    BY <1>1, <1>3 DEF LifeInv, GatewayInv, UploadInv, OrphanIsReported
  <2> QED
    BY <1>1, <1>3, <2>1, ExitStep DEF TypeOK, database, bounds
<1>4. CASE OpenStore
  <2>1. CASE /\ main' = "migrate" /\ client' = [client EXCEPT !["db"] = "open"]
             /\ UNCHANGED <<attempt, done, listener, requests>>
    <3>1. LifeInv'
      BY <1>1, <1>4, <2>1
         DEF OpenStore, LifeInv, Starting, Closing, InFlight, requests, TypeOK, Resources
    <3> QED
      BY <1>1, <1>4, <2>1, <3>1, ProcessStep
         DEF OpenStore, TypeOK, Stages, Closing, bounds, Resources
  <2>2. CASE /\ attempt + 1 < MaxAttempts /\ attempt' = attempt + 1
             /\ UNCHANGED <<main, done, listener, client, requests>>
    <3>1. LifeInv'
      BY <1>1, <2>2 DEF LifeInv, Starting, Closing, InFlight, requests
    <3>2. attempt' \in 0 .. MaxAttempts
      BY <1>1, <2>2, GatewayAssumption DEF TypeOK
    <3> QED
      BY <1>1, <1>4, <2>2, <3>1, <3>2, ProcessStep
         DEF OpenStore, TypeOK, Stages, Closing, bounds
  <2>3. CASE Exit /\ UNCHANGED overtaken
    BY <1>3, <1>4, <2>3 DEF OpenStore, Starting
  <2> QED
    BY <1>4, <2>1, <2>2, <2>3 DEF OpenStore
<1>5. CASE Migrate
  <2>1. CASE main' = "redis" /\ UNCHANGED <<attempt, done, listener, client, requests>>
    <3>1. LifeInv'
      BY <1>1, <1>5, <2>1 DEF Migrate, LifeInv, Starting, Closing, InFlight, requests
    <3> QED
      BY <1>1, <1>5, <2>1, <3>1, ProcessStep
         DEF Migrate, TypeOK, Stages, Closing, bounds
  <2>2. CASE Exit /\ UNCHANGED overtaken
    BY <1>3, <1>5, <2>2 DEF Migrate, Starting
  <2> QED
    BY <1>5, <2>1, <2>2 DEF Migrate
<1>6. CASE PingRedis
  <2>1. /\ main = "redis" /\ main' = "producer"
        /\ client' \in {client, [client EXCEPT !["cache"] = "open"]}
        /\ UNCHANGED <<attempt, done, listener, requests, database, bounds>>
    BY <1>6 DEF PingRedis
  <2>2. client' \in [Resources -> {"nil", "open", "closed"}]
    BY <1>1, <2>1 DEF TypeOK
  <2>3. LifeInv'
    BY <1>1, <2>1 DEF LifeInv, Starting, Closing, InFlight, requests, TypeOK, Resources
  <2> QED
    BY <1>1, <2>1, <2>2, <2>3, ProcessStep DEF TypeOK, Stages, Closing, bounds
<1>7. CASE OpenProducer
  <2>1. client' \in [Resources -> {"nil", "open", "closed"}]
    BY <1>1, <1>7 DEF TypeOK, OpenProducer
  <2>2. client["db"] # "nil"
    BY <1>1, <1>7 DEF LifeInv, OpenProducer
  <2>3. LifeInv'
    BY <1>1, <1>7, <2>2
       DEF OpenProducer, LifeInv, Starting, Closing, InFlight, requests, TypeOK,
           Resources, Waits
  <2> QED
    BY <1>1, <1>7, <2>1, <2>3, ProcessStep
       DEF OpenProducer, TypeOK, Stages, Closing, bounds
<1> QED
  BY <1>2, <1>4, <1>5, <1>6, <1>7

\* The listener, and main from the signal to its end.
LEMMA ShutdownPreserves ==
  ASSUME GatewayInv,
         \/ Signal \/ Listen \/ Shutdown \/ ShutdownReturns \/ CloseProducer
         \/ Flushed \/ CloseRedis \/ ClosePool \/ MainReturns
  PROVE  GatewayInv'
<1>1. TypeOK /\ LifeInv /\ DrainInv
  BY DEF GatewayInv
<1>2. CASE Signal
  <2>1. LifeInv'
    BY <1>1, <1>2 DEF Signal, LifeInv, Starting, Closing, InFlight, requests
  <2> QED
    BY <1>1, <1>2, <2>1, ProcessStep
       DEF Signal, TypeOK, Stages, DrainInv, Closing, bounds
<1>3. CASE Listen
  <2>1. LifeInv'
    BY <1>1, <1>3 DEF Listen, LifeInv, Starting, Closing, InFlight, requests
  <2>2. done' \in BOOLEAN /\ listener' \in {"none", "starting", "open", "closed"}
    BY <1>1, <1>3 DEF Listen, TypeOK
  <2> QED
    BY <1>1, <1>3, <2>1, <2>2, ProcessStep
       DEF Listen, TypeOK, Stages, DrainInv, Closing, bounds
<1>4. CASE Shutdown
  <2>1. LifeInv'
    BY <1>1, <1>4 DEF Shutdown, LifeInv, Starting, Closing, InFlight, requests
  <2> QED
    BY <1>1, <1>4, <2>1, ProcessStep DEF Shutdown, TypeOK, Stages, Closing, bounds
<1>5. CASE ShutdownReturns
  <2>1. /\ main = "drain" /\ main' = "closing"
        /\ UNCHANGED <<attempt, done, listener, client, todo, using, reply,
                       database, bounds>>
    BY <1>5 DEF ShutdownReturns
  <2>2. overtaken' \subseteq Requests /\ overtaken \subseteq overtaken'
    BY <1>1, <1>5 DEF ShutdownReturns, TypeOK, InFlight
  <2>3. InFlight \subseteq overtaken'
    BY <1>5 DEF ShutdownReturns, Drained
  <2>4. InFlight' = InFlight
    BY <2>1 DEF InFlight
  <2>5. TypeOK'
    BY <1>1, <2>1, <2>2, <2>4 DEF TypeOK, database, bounds
  <2>6. LifeInv' /\ DrainInv'
    BY <1>1, <2>1, <2>2, <2>3, <2>4 DEF LifeInv, DrainInv, Starting, Closing
  <2>7. UsingInv' /\ UploadInv'
    BY <2>1, <2>4 DEF GatewayInv, UsingInv, UploadInv, Pending, On, Progress,
       OrphanIsReported, database
  <2> QED
    BY <2>5, <2>6, <2>7 DEF GatewayInv
\* The deferred calls.
<1>6. ASSUME NEW x \in Resources \ {"model"}, Closing, Closing',
             client' \in {client, [client EXCEPT ![x] = "closed"]},
             UNCHANGED <<attempt, done, listener, requests, database, bounds>>
      PROVE  GatewayInv'
  <2>1. client' \in [Resources -> {"nil", "open", "closed"}]
    BY <1>1, <1>6 DEF TypeOK
  <2>2. LifeInv'
    BY <1>1, <1>6
       DEF LifeInv, Starting, Closing, InFlight, requests, TypeOK, Resources, Waits
  <2> QED
    BY <1>1, <1>6, <2>1, <2>2, ProcessStep
       DEF TypeOK, Stages, DrainInv, Closing, bounds
<1>7. CASE CloseProducer
  <2>1. "kafka" \in Resources \ {"model"}
    BY DEF Resources
  <2> QED
    BY <1>1, <1>6, <1>7, <2>1 DEF CloseProducer, Close, Closing, TypeOK
<1>8. CASE CloseRedis
  <2>1. "cache" \in Resources \ {"model"}
    BY DEF Resources
  <2> QED
    BY <1>1, <1>6, <1>8, <2>1 DEF CloseRedis, Close, Closing, TypeOK
<1>9. CASE ClosePool
  <2>1. "db" \in Resources \ {"model"}
    BY DEF Resources
  <2> QED
    BY <1>1, <1>6, <1>9, <2>1 DEF ClosePool, Close, Closing, TypeOK
<1>10. CASE Flushed
  <2>1. "kafka" \in Resources \ {"model"}
    BY DEF Resources
  <2> QED
    BY <1>6, <1>10, <2>1 DEF Flushed, Closing
<1>11. CASE MainReturns
  <2>1. InFlight \subseteq overtaken /\ queued \subseteq stored
    BY <1>1, <1>11
       DEF MainReturns, DrainInv, Closing, GatewayInv, UploadInv, OrphanIsReported
  <2> QED
    BY <1>1, <1>11, <2>1, ExitStep DEF MainReturns, TypeOK, database, bounds
<1> QED
  BY <1>2, <1>3, <1>4, <1>5, <1>7, <1>8, <1>9, <1>10, <1>11

\* A job that is being written is that of an upload whose row is stored.
LEMMA KillPreserves == ASSUME GatewayInv, Kill PROVE GatewayInv'
<1>1. PICK S \in SUBSET {r \in using["db"] : Creates(r)} : stored' = stored \cup S
  BY DEF Kill
<1>2. PICK Q \in SUBSET using["kafka"] : queued' = queued \cup Q
  BY DEF Kill
<1>3. using["db"] \subseteq InFlight /\ using["kafka"] \subseteq InFlight
  BY DEF GatewayInv, TypeOK, Waits
<1>4. ASSUME NEW r \in using["kafka"] PROVE r \in stored
  <2>1. r \in InFlight /\ todo[r] # <<>> /\ Head(todo[r]).on = "kafka"
    BY <1>4 DEF GatewayInv, UsingInv, Pending, On, Waits
  <2>2. r \in Requests /\ todo[r] \in Plans
    BY <2>1 DEF GatewayInv, TypeOK, InFlight
  <2>3. todo[r][1].on = "kafka" /\ 1 \in DOMAIN todo[r]
    BY <2>1, <2>2, PlanTyped
  <2>4. ~NoTopic(todo[r])
    BY <2>3 DEF NoTopic
  <2>5. todo[r] # uploadDocument
    BY <2>1, UploadCourse DEF Call
  <2> QED
    BY <2>1, <2>4, <2>5 DEF GatewayInv, UploadInv, Progress
<1>5. queued' \subseteq stored'
  BY <1>1, <1>2, <1>4 DEF GatewayInv, UploadInv, OrphanIsReported
<1>6. InFlight \subseteq Requests
  BY DEF InFlight
<1> QED
  BY <1>1, <1>2, <1>3, <1>5, <1>6, ExitStep DEF Kill, GatewayInv, TypeOK

-----------------------------------------------------------------------------
(***************************************************************************)
(* The invariant is inductive: requests.                                   *)
(***************************************************************************)

\* A request comes in.
LEMMA ArrivePreserves ==
  ASSUME GatewayInv, NEW r \in Requests, NEW h \in Routes, Arrive(r, h)
  PROVE  GatewayInv'
<1>1. /\ listener = "open" /\ reply[r] = "none"
      /\ reply' = [reply EXCEPT ![r] = "pending"]
      /\ todo' = [todo EXCEPT ![r] = h]
      /\ UNCHANGED <<process, using, overtaken, database, bounds>>
  BY DEF Arrive
<1>2. TypeOK /\ LifeInv /\ DrainInv /\ UsingInv /\ UploadInv
  BY DEF GatewayInv
<1>3. InFlight' = InFlight \cup {r} /\ r \notin InFlight
  BY <1>1, <1>2 DEF InFlight, TypeOK
<1>4. h \in Plans
  BY RouteIsPlan
<1>5. TypeOK'
  <2>1. /\ todo' \in [Requests -> Plans]
        /\ reply' \in [Requests -> {"none", "pending", "ok", "failed", "cut"}]
        /\ using' \in [Waits -> SUBSET InFlight']
    BY <1>1, <1>2, <1>3, <1>4 DEF TypeOK
  <2> QED
    BY <1>1, <1>2, <2>1 DEF TypeOK, process, database, bounds
<1>6. main = "serving"
  BY <1>1, <1>2 DEF LifeInv
<1>7. LifeInv' /\ DrainInv'
  BY <1>1, <1>2, <1>3, <1>6
     DEF LifeInv, DrainInv, Starting, Closing, process, TypeOK
<1>8. UsingInv'
  <2> SUFFICES ASSUME NEW x \in Waits, NEW u \in using[x]
               PROVE  Pending(u)' /\ On(u)' = x
    BY <1>1, <1>2 DEF UsingInv
  <2>1. u \in InFlight /\ Pending(u) /\ On(u) = x
    BY <1>2 DEF UsingInv, TypeOK
  <2>2. u \in Requests /\ u # r
    BY <1>3, <2>1 DEF InFlight
  <2> QED
    BY <1>1, <1>2, <1>3, <2>1, <2>2 DEF Pending, On, TypeOK
<1>9. UploadInv'
  <2>1. ASSUME NEW u \in Requests, reply'[u] = "none"
        PROVE  u \notin stored' /\ u \notin queued'
    BY <1>1, <1>2, <2>1 DEF UploadInv, TypeOK, database
  <2>2. ASSUME NEW u \in InFlight' PROVE Progress(u)'
    <3>1. CASE u = r
      BY <1>1, <1>2, <3>1, OnlyUploadPublishes DEF UploadInv, Progress, TypeOK, database
    <3>2. CASE u # r
      <4>1. u \in InFlight /\ u \in Requests
        BY <1>3, <2>2, <3>2 DEF InFlight
      <4> QED
        BY <1>1, <1>2, <3>2, <4>1 DEF UploadInv, Progress, TypeOK, database
    <3> QED
      BY <3>1, <3>2
  <2>3. OrphanIsReported'
    BY <1>1, <1>2 DEF UploadInv, OrphanIsReported, TypeOK, database
  <2> QED
    BY <2>1, <2>2, <2>3 DEF UploadInv
<1> QED
  BY <1>5, <1>7, <1>8, <1>9 DEF GatewayInv

\* Adding a connection in use stays within the pool.
LEMMA BeginPreserves ==
  ASSUME GatewayInv, NEW r \in Requests, Begin(r)
  PROVE  GatewayInv'
<1>1. /\ Pending(r) /\ On(r) \in Waits
      /\ using' = [using EXCEPT ![On(r)] = @ \cup {r}]
      /\ UNCHANGED <<process, todo, reply, overtaken, database, bounds>>
  BY DEF Begin
<1>2. TypeOK /\ LifeInv /\ DrainInv /\ UsingInv /\ UploadInv
  BY DEF GatewayInv
<1>3. InFlight' = InFlight /\ r \in InFlight
  BY <1>1 DEF InFlight, Pending
<1>4. \A x \in Waits : using'[x] = IF x = On(r) THEN using[x] \cup {r} ELSE using[x]
  BY <1>1, <1>2 DEF TypeOK
<1>5. IsFiniteSet(using'["db"]) /\ Cardinality(using'["db"]) <= MaxConns
  <2>1. CASE On(r) = "db"
    <3>1. using'["db"] = using["db"] \cup {r} /\ IsFiniteSet(using["db"])
      BY <1>2, <1>4, <2>1 DEF UsingInv, Waits
    <3>2. r \notin using["db"] /\ Cardinality(using["db"]) < MaxConns
      BY <2>1 DEF Begin
    <3>3. /\ IsFiniteSet(using'["db"])
          /\ Cardinality(using'["db"]) = Cardinality(using["db"]) + 1
          /\ Cardinality(using["db"]) \in Nat
      BY <3>1, <3>2, FS_AddElement, FS_CardinalityType
    <3> QED
      BY <3>2, <3>3, GatewayAssumption
  <2>2. CASE On(r) # "db"
    <3>1. using'["db"] = using["db"]
      BY <1>4, <2>2 DEF Waits
    <3> QED
      BY <1>2, <3>1 DEF UsingInv, TypeOK
  <2> QED
    BY <2>1, <2>2
<1>6. TypeOK'
  <2>1. using' \in [Waits -> SUBSET InFlight']
    BY <1>1, <1>2, <1>3 DEF TypeOK
  <2> QED
    BY <1>1, <1>2, <1>5, <2>1 DEF TypeOK, process, database, bounds
<1>7. LifeInv' /\ DrainInv'
  BY <1>1, <1>2, <1>3 DEF LifeInv, DrainInv, Starting, Closing, process
<1>8. UsingInv'
  BY <1>1, <1>2, <1>3, <1>4, <1>5 DEF UsingInv, Pending, On
<1>9. UploadInv'
  BY <1>1, <1>2, <1>3 DEF UploadInv, Progress, OrphanIsReported, database
<1> QED
  BY <1>6, <1>7, <1>8, <1>9 DEF GatewayInv

\* What a request's own step has to show: it is in the middle of no call
\* afterwards, and what is left of its plan tells what it has done.
LEMMA RequestStep ==
  ASSUME GatewayInv, NEW r \in InFlight,
         UNCHANGED <<process, overtaken, lives>>, faults' \in Nat,
         using' = [x \in Waits |-> using[x] \ {r}],
         NEW p \in Plans, todo' = [todo EXCEPT ![r] = p],
         NEW a \in {"pending", "ok", "failed"}, reply' = [reply EXCEPT ![r] = a],
         stored' \in {stored, stored \cup {r}},
         queued' \in {queued, queued \cup {r}},
         r \in queued' => r \in stored',
         a = "pending" => Progress(r)',
         a = "ok" => (r \in stored' => r \in queued')
  PROVE  GatewayInv'
<1>1. TypeOK /\ LifeInv /\ DrainInv /\ UsingInv /\ UploadInv
  BY DEF GatewayInv
<1>2. r \in Requests /\ reply[r] = "pending" /\ InFlight \subseteq Requests
  BY DEF InFlight
<1>3. InFlight' = IF a = "pending" THEN InFlight ELSE InFlight \ {r}
  BY <1>1, <1>2 DEF InFlight, TypeOK
<1>4. /\ \A u \in Requests : reply'[u] = IF u = r THEN a ELSE reply[u]
      /\ \A u \in Requests \ {r} : todo'[u] = todo[u]
      /\ \A x \in Waits : using'[x] = using[x] \ {r}
  BY <1>1 DEF TypeOK
<1>5. IsFiniteSet(using'["db"]) /\ Cardinality(using'["db"]) <= MaxConns
  <2>1. using'["db"] \subseteq using["db"] /\ IsFiniteSet(using["db"])
    BY <1>1, <1>4 DEF UsingInv, Waits
  <2>2. /\ IsFiniteSet(using'["db"])
        /\ Cardinality(using'["db"]) <= Cardinality(using["db"])
        /\ Cardinality(using["db"]) \in Nat /\ Cardinality(using'["db"]) \in Nat
    BY <2>1, FS_Subset, FS_CardinalityType
  <2> QED
    BY <1>1, <2>2, GatewayAssumption DEF TypeOK
<1>6. TypeOK'
  <2>1. using' \in [Waits -> SUBSET InFlight']
    BY <1>1, <1>3 DEF TypeOK
  <2>2. /\ todo' \in [Requests -> Plans]
        /\ reply' \in [Requests -> {"none", "pending", "ok", "failed", "cut"}]
    BY <1>1 DEF TypeOK
  <2>3. {overtaken', stored', queued'} \subseteq SUBSET Requests
    BY <1>1, <1>2 DEF TypeOK
  <2> QED
    BY <1>1, <1>5, <2>1, <2>2, <2>3 DEF TypeOK, process
<1>7. LifeInv'
  BY <1>1, <1>3 DEF LifeInv, Starting, Closing, process
<1>8. DrainInv'
  BY <1>1, <1>2, <1>3, <1>4 DEF DrainInv, Closing, process
<1>9. UsingInv'
  <2> SUFFICES ASSUME NEW x \in Waits, NEW u \in using'[x]
               PROVE  Pending(u)' /\ On(u)' = x
    BY <1>5 DEF UsingInv
  <2>1. u \in InFlight /\ u # r /\ Pending(u) /\ On(u) = x
    BY <1>1, <1>4 DEF UsingInv, TypeOK
  <2> QED
    BY <1>2, <1>3, <1>4, <2>1 DEF Pending, On
<1>10. UploadInv'
  <2>1. ASSUME NEW u \in Requests, reply'[u] = "none"
        PROVE  u \notin stored' /\ u \notin queued'
    BY <1>1, <1>4, <2>1 DEF UploadInv
  <2>2. ASSUME NEW u \in InFlight' PROVE Progress(u)'
    <3>1. CASE u = r
      BY <1>3, <2>2, <3>1
    <3>2. CASE u # r
      <4>1. u \in InFlight /\ u \in Requests
        BY <1>2, <1>3, <2>2, <3>2
      <4> QED
        BY <1>1, <1>4, <3>2, <4>1 DEF UploadInv, Progress
    <3> QED
      BY <3>1, <3>2
  <2>3. OrphanIsReported'
    <3>1. ASSUME NEW u \in stored' \ queued' PROVE reply'[u] # "ok"
      <4>1. u \in Requests
        BY <1>6, <3>1 DEF TypeOK
      <4> QED
        BY <1>1, <1>2, <1>4, <3>1, <4>1 DEF UploadInv, OrphanIsReported
    <3>2. queued' \subseteq stored'
      BY <1>1 DEF UploadInv, OrphanIsReported
    <3> QED
      BY <3>1, <3>2 DEF OrphanIsReported
  <2> QED
    BY <2>1, <2>2, <2>3 DEF UploadInv
<1> QED
  BY <1>6, <1>7, <1>8, <1>9, <1>10 DEF GatewayInv

\* Where a handler with a call to make can be.
LEMMA CallCases ==
  ASSUME GatewayInv, NEW r, Pending(r)
  PROVE  /\ r \in InFlight /\ r \in Requests /\ todo[r] \in Plans
         /\ Head(todo[r]) \in CallType
         /\ \/ /\ Creates(r) /\ ~Publishes(r) /\ r \notin stored /\ r \notin queued
               /\ Head(todo[r]) = Call("db", {1, End}, {})
            \/ /\ todo[r] = Publish /\ ~Creates(r) /\ Publishes(r)
               /\ r \in stored /\ r \notin queued
               /\ Head(todo[r]) = Call("kafka", {1}, {})
            \/ /\ NoTopic(todo[r]) /\ ~Creates(r) /\ ~Publishes(r)
               /\ r \in stored <=> r \in queued
<1>1. r \in InFlight /\ r \in Requests /\ todo[r] # <<>>
  BY DEF Pending, InFlight
<1>2. todo[r] \in Plans /\ Progress(r)
  BY <1>1 DEF GatewayInv, TypeOK, UploadInv
<1>3. /\ todo[r] \in Seq(CallType) /\ Len(todo[r]) > 0
      /\ Head(todo[r]) = todo[r][1] /\ Head(todo[r]) \in CallType
  BY <1>1, <1>2, PlanTyped
<1>4. CASE todo[r] = uploadDocument /\ r \notin stored /\ r \notin queued
  BY <1>1, <1>2, <1>3, <1>4, UploadCourse DEF Creates, Publishes, On, Call
<1>5. CASE todo[r] = Publish /\ r \in stored /\ r \notin queued
  BY <1>1, <1>2, <1>3, <1>5, UploadCourse DEF Creates, Publishes, On, Call
<1>6. CASE NoTopic(todo[r]) /\ (r \in stored <=> r \in queued)
  <2>1. 1 \in DOMAIN todo[r]
    BY <1>3
  <2>2. ~Publishes(r)
    BY <1>3, <1>6, <2>1 DEF NoTopic, Publishes, On
  <2>3. ~Creates(r)
    BY <1>6, UploadCourse DEF Creates
  <2> QED
    BY <1>1, <1>2, <1>3, <1>6, <2>2, <2>3
<1> QED
  BY <1>2, <1>4, <1>5, <1>6 DEF Progress

\* A handler that is in the middle of no call leaves no call.
LEMMA NotUsing ==
  ASSUME GatewayInv, NEW r, On(r) \in Waits => r \notin using[On(r)], UNCHANGED using
  PROVE  using' = [x \in Waits |-> using[x] \ {r}]
<1>1. \A x \in Waits : r \notin using[x]
  BY DEF GatewayInv, UsingInv
<1>2. using \in [Waits -> SUBSET InFlight]
  BY DEF GatewayInv, TypeOK
<1> QED
  BY <1>1, <1>2

\* Going on with a plan that has nothing to do with the topic.
LEMMA GoesOnStep ==
  ASSUME GatewayInv, NEW r, Pending(r), NoTopic(todo[r]), r \in stored <=> r \in queued,
         NEW n \in 1 .. End, GoesOn(r, n),
         UNCHANGED <<process, overtaken, lives, stored, queued>>, faults' \in Nat,
         using' = [x \in Waits |-> using[x] \ {r}]
  PROVE  GatewayInv'
<1>1. r \in InFlight /\ r \in Requests /\ todo[r] \in Plans
  BY CallCases
<1> DEFINE p == SubSeq(todo[r], n + 1, Len(todo[r]))
<1>2. p \in Plans /\ NoTopic(p)
  BY <1>1, RestIsPlan, PlanTyped, NoTopicRest
<1>3. todo' = [todo EXCEPT ![r] = p]
  BY DEF GoesOn
<1>4. reply' = [reply EXCEPT ![r] = "pending"]
  BY <1>1 DEF GoesOn, InFlight, GatewayInv, TypeOK
<1>5. todo'[r] = p
  BY <1>1, <1>3 DEF GatewayInv, TypeOK
<1> HIDE DEF p
<1>6. Progress(r)'
  BY <1>2, <1>5 DEF Progress
<1>7. r \in queued' => r \in stored'
  OBVIOUS
<1> QED
  BY <1>1, <1>2, <1>3, <1>4, <1>6, <1>7, RequestStep

\* A call that has failed, although it may have taken effect.
LEMMA GivesUpStep ==
  ASSUME GatewayInv, NEW r, Pending(r), GivesUp(r),
         UNCHANGED <<process, overtaken, lives>>, faults' \in Nat,
         using' = [x \in Waits |-> using[x] \ {r}],
         \/ (Creates(r) \/ Publishes(r)) /\ Effect(r, On(r))
         \/ UNCHANGED <<stored, queued>>
  PROVE  GatewayInv'
<1>1. /\ r \in InFlight /\ r \in Requests /\ todo[r] \in Plans
      /\ Head(todo[r]) \in CallType
  BY CallCases
<1>2. CASE Head(todo[r]).fails = {}
  <2>1. /\ reply' = [reply EXCEPT ![r] = "failed"]
        /\ todo' = [todo EXCEPT ![r] = <<>>]
    BY <1>2 DEF GivesUp
  <2>2. /\ stored' \in {stored, stored \cup {r}}
        /\ queued' \in {queued, queued \cup {r}}
    BY DEF Effect
  <2>3. r \in queued' => r \in stored'
    <3>1. CASE Creates(r) /\ ~Publishes(r) /\ r \notin stored /\ r \notin queued
      BY <3>1 DEF Effect, Publishes
    <3>2. CASE Publishes(r) /\ r \in stored
      BY <3>2 DEF Effect, Publishes
    <3>3. CASE ~Creates(r) /\ ~Publishes(r) /\ (r \in stored <=> r \in queued)
      BY <3>3
    <3> QED
      BY <3>1, <3>2, <3>3, CallCases
  <2> QED
    BY <1>1, <2>1, <2>2, <2>3, RequestStep, RouteIsPlan
<1>3. CASE Head(todo[r]).fails # {}
  <2>1. PICK n \in Head(todo[r]).fails : GoesOn(r, n)
    BY <1>3 DEF GivesUp
  <2>2. n \in 1 .. End
    BY <1>1 DEF CallType
  <2>3. NoTopic(todo[r]) /\ ~Creates(r) /\ ~Publishes(r) /\ (r \in stored <=> r \in queued)
    BY <1>3, CallCases DEF Call
  <2> QED
    BY <2>1, <2>2, <2>3, GoesOnStep
<1> QED
  BY <1>2, <1>3

LEMMA WorksPreserves == ASSUME GatewayInv, NEW r, Works(r) PROVE GatewayInv'
<1>1. /\ Pending(r) /\ using' = [x \in Waits |-> using[x] \ {r}]
      /\ UNCHANGED <<process, overtaken, lives, faults>>
      /\ faults' \in Nat
  BY DEF Works, UnderWay, Release, bounds, GatewayInv, TypeOK
<1>2. PICK n \in Head(todo[r]).works :
        /\ GoesOn(r, n)
        /\ IF n = 1 /\ (Creates(r) \/ Publishes(r))
             THEN Effect(r, On(r)) ELSE UNCHANGED <<stored, queued>>
  BY DEF Works
<1>3. r \in InFlight /\ r \in Requests /\ Head(todo[r]) \in CallType
  BY <1>1, CallCases
<1>4. reply' = [reply EXCEPT ![r] = "pending"]
  BY <1>2, <1>3 DEF GoesOn, InFlight, GatewayInv, TypeOK
<1>5. \A p : todo' = [todo EXCEPT ![r] = p] => todo'[r] = p
  BY <1>3 DEF GatewayInv, TypeOK
<1>6. CASE /\ Creates(r) /\ ~Publishes(r) /\ r \notin stored /\ r \notin queued
           /\ Head(todo[r]) = Call("db", {1, End}, {})
  <2>1. todo[r] = uploadDocument /\ On(r) = "db" /\ n \in {1, End}
    BY <1>2, <1>6 DEF Creates, On, Call
  <2>2. CASE n = 1
    <3>1. todo' = [todo EXCEPT ![r] = Publish]
      BY <1>2, <2>1, <2>2, UploadCourse DEF GoesOn
    <3>2. stored' = stored \cup {r} /\ queued' = queued
      BY <1>2, <1>6, <2>1, <2>2 DEF Effect
    <3>3. Progress(r)'
      BY <1>5, <1>6, <3>1, <3>2 DEF Progress
    <3>4. Publish \in Plans
      <4>1. uploadDocument \in Plans
        BY RouteIsPlan DEF Routes
      <4>2. 1 \in 1 .. End
        BY DEF End
      <4> QED
        BY <4>1, <4>2, RestIsPlan, UploadCourse
    <3> QED
      BY <1>1, <1>3, <1>4, <1>6, <3>1, <3>2, <3>3, <3>4, RequestStep
  <2>3. CASE n = End
    <3>1. todo' = [todo EXCEPT ![r] = <<>>]
      BY <1>2, <2>1, <2>3, UploadCourse DEF GoesOn
    <3>2. stored' = stored /\ queued' = queued
      BY <1>2, <2>3 DEF End
    <3>3. Progress(r)'
      BY <1>5, <1>6, <3>1, <3>2, UploadCourse DEF Progress
    <3> QED
      BY <1>1, <1>3, <1>4, <1>6, <3>1, <3>2, <3>3, RequestStep, RouteIsPlan
  <2> QED
    BY <2>1, <2>2, <2>3
<1>7. CASE /\ todo[r] = Publish /\ Publishes(r) /\ r \in stored
           /\ Head(todo[r]) = Call("kafka", {1}, {})
  <2>1. n = 1 /\ On(r) = "kafka"
    BY <1>2, <1>7 DEF On, Call
  <2>2. todo' = [todo EXCEPT ![r] = <<>>]
    BY <1>2, <1>7, <2>1, UploadCourse DEF GoesOn
  <2>3. stored' = stored /\ queued' = queued \cup {r}
    BY <1>2, <1>7, <2>1 DEF Effect
  <2>4. Progress(r)'
    BY <1>5, <1>7, <2>2, <2>3, UploadCourse DEF Progress
  <2> QED
    BY <1>1, <1>3, <1>4, <1>7, <2>2, <2>3, <2>4, RequestStep, RouteIsPlan
<1>8. CASE /\ NoTopic(todo[r]) /\ ~Creates(r) /\ ~Publishes(r)
           /\ r \in stored <=> r \in queued
  <2>1. n \in 1 .. End
    BY <1>2, <1>3 DEF CallType
  <2> QED
    BY <1>1, <1>2, <1>8, <2>1, GoesOnStep
<1> QED
  BY <1>1, <1>6, <1>7, <1>8, CallCases

\* The steps of a handler.
LEMMA HandlePreserves ==
  ASSUME GatewayInv, NEW r \in Requests, Handle(r)
  PROVE  GatewayInv'
<1>1. faults \in Nat /\ faults + 1 \in Nat
  BY DEF GatewayInv, TypeOK
<1>2. CASE Skip(r)
  <2>1. Pending(r) /\ client[On(r)] = "nil" /\ GoesOn(r, 1)
    BY <1>2 DEF Skip
  <2>2. On(r) \notin Waits
    <3>1. ~Starting
      BY <2>1 DEF GatewayInv, LifeInv, Pending
    <3> QED
      BY <2>1, <3>1 DEF GatewayInv, LifeInv
  <2>3. using' = [x \in Waits |-> using[x] \ {r}]
    BY <1>2, <2>2, NotUsing DEF Skip
  <2>4. NoTopic(todo[r]) /\ (r \in stored <=> r \in queued)
    BY <2>1, <2>2, CallCases DEF On, Call, Waits
  <2>5. 1 \in 1 .. End
    BY DEF End
  <2> QED
    BY <1>1, <1>2, <2>1, <2>3, <2>4, <2>5, GoesOnStep DEF Skip, database, bounds
<1>3. CASE Denied(r)
  <2>1. using' = [x \in Waits |-> using[x] \ {r}]
    BY <1>3, NotUsing DEF Denied, UnderWay
  <2> QED
    BY <1>1, <1>3, <2>1, GivesUpStep DEF Denied, database, bounds
<1>4. CASE Fails(r)
  BY <1>1, <1>4, GivesUpStep DEF Fails, UnderWay, Release
<1>5. CASE Respond(r)
  <2>1. r \in InFlight /\ todo[r] = <<>>
    BY <1>5 DEF Respond
  <2>2. \A x \in Waits : r \notin using[x]
    BY <2>1 DEF GatewayInv, UsingInv, Pending
  <2>3. using' = [x \in Waits |-> using[x] \ {r}]
    BY <1>5, <2>2 DEF Respond, GatewayInv, TypeOK
  <2>4. todo' = [todo EXCEPT ![r] = <<>>]
    BY <1>5, <2>1 DEF Respond, GatewayInv, TypeOK
  <2>5. r \in stored <=> r \in queued
    BY <2>1, UploadCourse DEF GatewayInv, UploadInv, Progress
  <2> QED
    BY <1>1, <1>5, <2>1, <2>3, <2>4, <2>5, RequestStep, RouteIsPlan
       DEF Respond, database, bounds
<1> QED
  BY <1>2, <1>3, <1>4, <1>5, BeginPreserves, WorksPreserves DEF Handle

\* Every step keeps the invariant.
LEMMA GatewayInvNext == GatewayInv /\ [Next]_vars => GatewayInv'
<1> SUFFICES ASSUME GatewayInv, [Next]_vars PROVE GatewayInv'
  OBVIOUS
<1>1. CASE UNCHANGED vars
  <2>1. UNCHANGED <<process, requests, database, bounds>>
    BY <1>1 DEF vars
  <2>2. LifeInv'
    BY <2>1 DEF GatewayInv, LifeInv, Starting, Closing, InFlight, process, requests
  <2> QED
    BY <2>1, <2>2, ProcessStep
       DEF GatewayInv, TypeOK, Stages, DrainInv, Closing, process, bounds
<1> QED
  BY <1>1, StartupPreserves, ShutdownPreserves, KillPreserves, HandlePreserves,
     ArrivePreserves DEF Next, Main

-----------------------------------------------------------------------------
\* The gateway's state is well typed; above all no more connections are in use
\* than the pool has, and what is left of a handler is the rest of a route.
THEOREM GatewayTypeCorrect == Spec => []TypeOK
<1>1. GatewayInv => TypeOK
  BY DEF GatewayInv
<1> QED
  BY <1>1, GatewayInvInit, GatewayInvNext, PTL DEF Spec

\* No accepted request is cut off, and none of its clients is closed under it,
\* unless it outlasts the grace or the process is killed.
THEOREM DrainNeverCuts == Spec => []DrainIsGraceful
<1>1. GatewayInv => DrainIsGraceful
  BY DEF GatewayInv, LifeInv, DrainInv, DrainIsGraceful
<1> QED
  BY <1>1, GatewayInvInit, GatewayInvNext, PTL DEF Spec

\* A document that is stored and not queued is the work of an upload that was
\* not told that it is accepted, and no job is without its document.
THEOREM AcceptedIsQueued == Spec => []OrphanIsReported
<1>1. GatewayInv => OrphanIsReported
  BY DEF GatewayInv, UploadInv
<1> QED
  BY <1>1, GatewayInvInit, GatewayInvNext, PTL DEF Spec

-----------------------------------------------------------------------------
(***************************************************************************)
(* The rate limiter, for every burst, rate and number of concurrent        *)
(* requests of a client: its state is well typed, it never admits more     *)
(* than its budget, and Retry-After is kept.                               *)
(***************************************************************************)

\* Multiplication by a rate is monotone.
LEMMA MulMono ==
  ASSUME NEW c \in Nat, NEW a \in Int, NEW b \in Int, a <= b
  PROVE  c * a <= c * b
OBVIOUS

\* Integer division rounds down by less than one divisor.
LEMMA DivBounds ==
  ASSUME NEW a \in Int, NEW b \in Nat \ {0}
  PROVE  /\ a \div b \in Int
         /\ b * (a \div b) <= a
         /\ a < b * (a \div b + 1)
OBVIOUS

\* A bucket holds at least one token.
LEMMA CapacityType == Capacity \in Nat /\ Capacity >= Unit
BY BucketAssumption, MulMono DEF Capacity

\* A bucket is kept for at least two full refills.
LEMMA TTLType == TTL \in Nat /\ Rate * TTL >= 2 * Capacity
<1> DEFINE q == (2 * Capacity + Rate - 1) \div Rate
<1>1. Rate \in Nat \ {0} /\ Capacity \in Nat
  BY BucketAssumption, CapacityType
<1>2. q \in Int /\ Rate * q <= 2 * Capacity + Rate - 1
               /\ 2 * Capacity + Rate - 1 < Rate * (q + 1)
  BY <1>1, DivBounds
<1> QED
  BY <1>1, <1>2 DEF TTL

\* Waiting for the advertised time refills the missing part of a token.
LEMMA WaitType ==
  ASSUME NEW level \in Nat, level < Unit
  PROVE  Wait(level) \in Nat /\ level + Rate * Wait(level) >= Unit
<1> DEFINE q == (Unit - level) \div Rate
<1>1. Rate \in Nat \ {0} /\ Unit \in Nat
  BY BucketAssumption
<1>2. q \in Int /\ Rate * q <= Unit - level /\ Unit - level < Rate * (q + 1)
  BY <1>1, DivBounds
<1>3. q + 1 > 0
  BY <1>1, <1>2, MulMono
<1> QED
  BY <1>1, <1>2, <1>3 DEF Wait

-----------------------------------------------------------------------------
(***************************************************************************)
(* The invariant. No clock value in the system is ahead of the clock, and  *)
(* a request in flight is at most MaxDelay old. What has been granted plus *)
(* what is left in the bucket is covered by what has flowed in up to ts;   *)
(* and at the promised time the bucket holds a token.                      *)
(***************************************************************************)

ClocksBehind ==
  /\ ts <= clock
  /\ \A r \in Callers : sent[r] # NotSent =>
       sent[r] <= clock /\ clock - sent[r] <= MaxDelay

ExpiryLate == present => expires >= ts + TTL

Funded ==
  /\ present => granted * Unit + tokens <= Capacity + Rate * (ts + regress)
  /\ ~present => granted = 0

TokenOwed == promise # NoPromise => tokens + Rate * (promise - ts) >= Unit

BucketInv == BucketTypeOK /\ ClocksBehind /\ ExpiryLate /\ Funded /\ TokenOwed

\* The invariant holds of an empty Redis.
LEMMA BucketInvInit == BucketInit => BucketInv
<1> SUFFICES ASSUME BucketInit PROVE BucketInv
  OBVIOUS
<1>1. BucketTypeOK
  <2>1. present \in BOOLEAN
    BY Zenon DEF BucketInit
  <2>2. sent \in [Callers -> Nat \cup {NotSent}]
    BY DEF BucketInit
  <2>3. tokens \in 0 .. Capacity /\ promise \in Nat \cup {NoPromise}
    BY CapacityType DEF BucketInit
  <2> QED
    BY <2>1, <2>2, <2>3 DEF BucketInit, BucketTypeOK
<1>2. ClocksBehind /\ TokenOwed
  BY DEF BucketInit, ClocksBehind, TokenOwed
<1>3. ExpiryLate /\ Funded
  BY DEF BucketInit, ExpiryLate, Funded
<1> QED
  BY <1>1, <1>2, <1>3 DEF BucketInv

\* What a request finds in the bucket: bounded by what is stored and what has
\* flowed in since, and at least that much unless the bucket is full.
LEMMA LevelBounds ==
  ASSUME BucketTypeOK, NEW now \in Nat
  PROVE  /\ Level(now) \in 0 .. Capacity
         /\ ~Stored => Level(now) = Capacity
         /\ Stored /\ now >= ts =>
              /\ Level(now) <= tokens + Rate * (now - ts)
              /\ Level(now) < Capacity => Level(now) = tokens + Rate * (now - ts)
         /\ Stored /\ now < ts => Level(now) = tokens
<1>1. Capacity \in Nat /\ Rate \in Nat
  BY CapacityType, BucketAssumption
<1>2. tokens \in Nat /\ tokens <= Capacity /\ ts \in Nat
  BY <1>1 DEF BucketTypeOK
<1>3. CASE now >= ts
  <2>1. AtLeast(0, now - ts) = now - ts
    BY <1>2, <1>3 DEF AtLeast
  <2>2. Rate * (now - ts) \in Nat /\ (now - ts) * Rate = Rate * (now - ts)
    BY <1>1, <1>2, <1>3, MulMono
  <2> QED
    BY <1>1, <1>2, <1>3, <2>1, <2>2 DEF Level, AtMost
<1>4. CASE now < ts
  <2>1. AtLeast(0, now - ts) * Rate = 0
    BY <1>1, <1>2, <1>4 DEF AtLeast
  <2> QED
    BY <1>1, <1>2, <1>4, <2>1 DEF Level, AtMost
<1> QED
  BY <1>2, <1>3, <1>4

-----------------------------------------------------------------------------
\* The script keeps the invariant: the only action that touches the bucket.
LEMMA ScriptPreserves ==
  ASSUME BucketInv, NEW r \in Callers, Script(r)
  PROVE  BucketInv'
<1> DEFINE now == sent[r]
           level == Level(now)
           back == now + Wait(level)
           undo == IF Stored THEN AtLeast(0, ts - now) ELSE 0
<1> USE DEF NotSent, NoPromise
<1>1. /\ Rate \in Nat \ {0} /\ Unit \in Nat \ {0} /\ MaxDelay \in Nat
      /\ Capacity \in Nat /\ Capacity >= Unit /\ Rate * MaxDelay <= Capacity
      /\ TTL \in Nat /\ Rate * TTL >= 2 * Capacity
  BY BucketAssumption, CapacityType, TTLType DEF Capacity
<1>2. /\ now \in Nat /\ now <= clock /\ clock - now <= MaxDelay
      /\ clock \in Nat /\ ts \in Nat /\ expires \in Nat /\ tokens \in Nat
      /\ granted \in Nat /\ regress \in Nat /\ ts <= clock
      /\ promise \in Nat \cup {NoPromise} /\ present \in BOOLEAN
  BY <1>1 DEF BucketInv, BucketTypeOK, ClocksBehind, Script
<1>3. /\ level \in Nat /\ level <= Capacity
      /\ ~Stored => level = Capacity
      /\ Stored /\ now >= ts =>
           /\ level <= tokens + Rate * (now - ts)
           /\ level < Capacity => level = tokens + Rate * (now - ts)
      /\ Stored /\ now < ts => level = tokens
  BY <1>1, <1>2, LevelBounds DEF BucketInv
<1>4. /\ present' = TRUE /\ ts' = now /\ expires' = clock + TTL
      /\ regress' = regress + undo /\ clock' = clock
      /\ sent' = [sent EXCEPT ![r] = -1]
  BY DEF Script
<1>5. /\ undo \in Nat
      /\ Stored /\ now < ts => undo = ts - now
      /\ Stored /\ now >= ts => undo = 0
      /\ ~Stored => undo = 0
  BY <1>2 DEF AtLeast
<1>6. \/ /\ level >= Unit /\ tokens' = level - Unit
         /\ granted' = granted + 1 /\ promise' = NoPromise
      \/ /\ level < Unit /\ tokens' = level /\ granted' = granted
         /\ promise' = IF promise = NoPromise THEN back ELSE AtMost(promise, back)
  BY <1>1, <1>2, <1>3 DEF Script, Enough
<1>7. level < Unit => Wait(level) \in Nat /\ level + Rate * Wait(level) >= Unit
  BY <1>3, WaitType
<1>8. BucketTypeOK'
  <2>1. tokens' \in 0 .. Capacity /\ granted' \in Nat
    BY <1>1, <1>2, <1>3, <1>6
  <2>2. promise' \in Nat \cup {NoPromise}
    BY <1>2, <1>6, <1>7 DEF AtMost
  <2>3. sent' \in [Callers -> Nat \cup {NotSent}]
    BY <1>4 DEF BucketInv, BucketTypeOK
  <2> QED
    BY <1>1, <1>2, <1>4, <1>5, <2>1, <2>2, <2>3 DEF BucketTypeOK, Capacity
<1>9. ClocksBehind'
  BY <1>2, <1>4 DEF BucketInv, BucketTypeOK, ClocksBehind
<1>10. ExpiryLate'
  BY <1>1, <1>2, <1>4 DEF ExpiryLate, TTL, Capacity
\* A full bucket after an expiry was paid for while it was idle.
<1>11. granted * Unit + level <= Capacity + Rate * (now + regress + undo)
  <2>1. granted * Unit \in Nat
    BY <1>1, <1>2
  <2>2. CASE Stored /\ now >= ts
    <3>1. granted * Unit + tokens <= Capacity + Rate * (ts + regress)
      BY <2>2 DEF Stored, BucketInv, Funded
    <3>2. Rate * (ts + regress) + Rate * (now - ts) = Rate * (now + regress)
      BY <1>1, <1>2
    <3> QED
      BY <1>1, <1>2, <1>3, <1>5, <2>1, <2>2, <3>1, <3>2
  <2>3. CASE Stored /\ now < ts
    <3>1. granted * Unit + tokens <= Capacity + Rate * (ts + regress)
      BY <2>3 DEF Stored, BucketInv, Funded
    <3>2. now + regress + undo = ts + regress
      BY <1>2, <1>5, <2>3
    <3> QED
      BY <1>1, <1>2, <1>3, <2>1, <2>3, <3>1, <3>2
  <2>4. CASE ~Stored /\ present
    <3>1. granted * Unit + tokens <= Capacity + Rate * (ts + regress)
      BY <2>4 DEF BucketInv, Funded
    <3>2. TTL - MaxDelay <= now - ts
      BY <1>1, <1>2, <2>4 DEF Stored, BucketInv, ExpiryLate
    <3>3. Rate * (TTL - MaxDelay) <= Rate * (now - ts)
      BY <1>1, <1>2, <3>2, MulMono
    <3>4. /\ Rate * (TTL - MaxDelay) = Rate * TTL - Rate * MaxDelay
          /\ Rate * (now + regress) = Rate * (ts + regress) + Rate * (now - ts)
      BY <1>1, <1>2
    <3> QED
      BY <1>1, <1>2, <1>3, <1>5, <2>1, <2>4, <3>1, <3>3, <3>4
  <2>5. CASE ~present
    <3>1. granted * Unit = 0 /\ ~Stored
      BY <1>1, <2>5 DEF Stored, BucketInv, Funded
    <3>2. Rate * (now + regress + undo) \in Nat
      BY <1>1, <1>2, <1>5
    <3> QED
      BY <1>1, <1>3, <3>1, <3>2
  <2> QED
    BY <1>2, <2>2, <2>3, <2>4, <2>5
<1>12. Funded'
  <2>1. granted' * Unit + tokens' = granted * Unit + level
    BY <1>1, <1>2, <1>3, <1>6
  <2> QED
    BY <1>1, <1>2, <1>4, <1>5, <1>11, <2>1 DEF Funded, Capacity
<1>13. TokenOwed'
  <2>1. CASE level >= Unit
    BY <1>1, <1>2, <1>3, <1>6, <2>1 DEF TokenOwed
  <2>2. CASE level < Unit
    <3>1. level + Rate * (back - now) >= Unit
      BY <1>1, <1>2, <1>3, <1>7, <2>2
    <3>2. promise # NoPromise => level + Rate * (promise - now) >= Unit
      <4> SUFFICES ASSUME promise # NoPromise
                   PROVE  level + Rate * (promise - now) >= Unit
        OBVIOUS
      <4>1. Stored
        BY <1>1, <1>3, <2>2
      <4>2. tokens + Rate * (promise - ts) >= Unit /\ promise \in Nat
        BY <1>2 DEF BucketInv, TokenOwed
      <4>3. CASE now >= ts
        <5>1. level = tokens + Rate * (now - ts)
          BY <1>1, <1>3, <2>2, <4>1, <4>3
        <5>2. Rate * (now - ts) + Rate * (promise - now) = Rate * (promise - ts)
          BY <1>1, <1>2, <4>2
        <5> QED
          BY <1>1, <1>2, <4>2, <5>1, <5>2
      <4>4. CASE now < ts
        <5>1. Rate * (promise - ts) <= Rate * (promise - now)
          BY <1>1, <1>2, <4>2, <4>4, MulMono
        <5> QED
          BY <1>1, <1>2, <1>3, <4>1, <4>2, <4>4, <5>1
      <4> QED
        BY <1>2, <4>3, <4>4
    <3>3. promise' \in {back, promise} /\ (promise = NoPromise => promise' = back)
      BY <1>1, <1>2, <1>3, <1>6, <2>2 DEF AtMost
    <3>4. tokens' = level
      BY <1>1, <1>2, <1>3, <1>6, <2>2
    <3> QED
      BY <1>4, <3>1, <3>2, <3>3, <3>4 DEF TokenOwed
  <2> QED
    BY <1>1, <1>3, <2>1, <2>2
<1> QED
  BY <1>8, <1>9, <1>10, <1>12, <1>13 DEF BucketInv

\* Every step keeps the invariant; only the script is more than bookkeeping.
LEMMA BucketInvNext == BucketInv /\ [BucketNext]_limiterVars => BucketInv'
<1> SUFFICES ASSUME BucketInv, [BucketNext]_limiterVars PROVE BucketInv'
  OBVIOUS
<1> USE DEF NotSent, NoPromise
<1>1. CASE Tick
  BY <1>1, BucketAssumption DEF Tick, bucketVars, BucketInv, BucketTypeOK, ClocksBehind,
     ExpiryLate, Funded, TokenOwed, Capacity, TTL
<1>2. ASSUME NEW r \in Callers, ReadClock(r) PROVE BucketInv'
  BY <1>2, BucketAssumption DEF ReadClock, bucketVars, BucketInv, BucketTypeOK,
     ClocksBehind, ExpiryLate, Funded, TokenOwed, Capacity, TTL
<1>3. ASSUME NEW r \in Callers, Script(r) PROVE BucketInv'
  BY <1>3, ScriptPreserves
<1>4. ASSUME NEW r \in Callers, FailOpen(r) PROVE BucketInv'
  BY <1>4 DEF FailOpen, bucketVars, BucketInv, BucketTypeOK, ClocksBehind, ExpiryLate,
     Funded, TokenOwed, Capacity, TTL
<1>5. CASE UNCHANGED limiterVars
  BY <1>5 DEF limiterVars, bucketVars, BucketInv, BucketTypeOK, ClocksBehind, ExpiryLate,
     Funded, TokenOwed, Capacity, TTL
<1> QED
  BY <1>1, <1>2, <1>3, <1>4, <1>5 DEF BucketNext

\* The invariant holds always.
LEMMA BucketInvariant == BucketSpec => []BucketInv
BY BucketInvInit, BucketInvNext, PTL DEF BucketSpec

-----------------------------------------------------------------------------
\* Every variable of the bucket has its type; in particular the stored tokens
\* never go below zero nor above the capacity.
THEOREM BucketTypeCorrect == BucketSpec => []BucketTypeOK
<1>1. BucketInv => BucketTypeOK
  BY DEF BucketInv
<1> QED
  BY <1>1, BucketInvariant, PTL

\* The script never admits more than a burst plus the refill, whatever the
\* order in which the requests' scripts run and however often the idle bucket
\* expires.
THEOREM BudgetHolds == BucketSpec => []Budget
<1>1. BucketInv => Budget
  <2> SUFFICES ASSUME BucketInv PROVE Budget
    OBVIOUS
  <2>1. /\ Rate \in Nat /\ Unit \in Nat /\ Capacity \in Nat
        /\ clock \in Nat /\ ts \in Nat /\ regress \in Nat /\ granted \in Nat
        /\ tokens \in Nat /\ ts <= clock /\ present \in BOOLEAN
    BY BucketAssumption, CapacityType DEF BucketInv, BucketTypeOK, ClocksBehind
  <2>2. Rate * (ts + regress) <= Rate * (clock + regress)
    BY <2>1, MulMono
  <2>3. CASE present
    BY <2>1, <2>2, <2>3 DEF BucketInv, Funded, Budget
  <2>4. CASE ~present
    BY <2>1, <2>4 DEF BucketInv, Funded, Budget
  <2> QED
    BY <2>1, <2>3, <2>4
<1> QED
  BY <1>1, BucketInvariant, PTL

\* A client that comes back when its Retry-After header says finds a token,
\* unless somebody else was admitted in between.
THEOREM RetryAfterIsKept == BucketSpec => []RetryAfterHolds
<1>1. BucketInv => RetryAfterHolds
  <2> SUFFICES ASSUME BucketInv, NEW r \in Callers, sent[r] # NotSent,
                      promise # NoPromise, sent[r] >= promise
               PROVE  Enough(Level(sent[r]))
    BY DEF RetryAfterHolds
  <2> DEFINE now == sent[r]
  <2>1. /\ Rate \in Nat /\ Unit \in Nat /\ Capacity \in Nat /\ Capacity >= Unit
        /\ now \in Nat /\ promise \in Nat /\ ts \in Nat /\ tokens \in Nat
    BY BucketAssumption, CapacityType
       DEF BucketInv, BucketTypeOK, NotSent, NoPromise
  <2>2. tokens + Rate * (promise - ts) >= Unit
    BY DEF BucketInv, TokenOwed
  <2>3. Rate * (promise - ts) <= Rate * (now - ts)
    BY <2>1, MulMono
  <2>4. Level(now) \in Nat /\ Rate * (now - ts) \in Int
    BY <2>1, LevelBounds DEF BucketInv
  <2>5. CASE now >= ts
    BY <2>1, <2>2, <2>3, <2>4, <2>5, LevelBounds DEF BucketInv, Enough
  <2>6. CASE now < ts
    <3>1. Rate * (now - ts) <= Rate * 0
      BY <2>1, <2>6, MulMono
    <3> QED
      BY <2>1, <2>2, <2>3, <2>4, <2>6, <3>1, LevelBounds DEF BucketInv, Enough
  <2> QED
    BY <2>1, <2>5, <2>6
<1> QED
  BY <1>1, BucketInvariant, PTL
=============================================================================
