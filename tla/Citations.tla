----------------------------- MODULE Citations -----------------------------
(***************************************************************************)
(* An answer's text and its citation markers, from the frames the model    *)
(* sends to what a client can follow: the reading loop of Stream           *)
(* (internal/llm/gemini.go), parseCitations, stripUnknownMarkers and       *)
(* hydrateCitations (internal/chat/chat.go), in the order Answer uses      *)
(* them.                                                                   *)
(*                                                                         *)
(* A frame stands for the marker group in it, such as "[1, 3]": the        *)
(* sequence of its numbers, empty when it is prose only. The sources of an *)
(* answer are numbered from 1.                                             *)
(***************************************************************************)
EXTENDS Integers, Sequences, FiniteSets, SequencesExt

CONSTANTS
  Numbers,     \* numbers the model writes in brackets
  MaxGroups,   \* TLC: frames of a stream
  MaxSize,     \* TLC: numbers in a group
  Ranked       \* the chunks that reach the generator, best first

ASSUME CitationsAssumption ==
  /\ Numbers \subseteq Nat
  /\ MaxGroups \in Nat /\ MaxSize \in Nat \ {0}
  /\ IsInjective(Ranked)

Groups == SeqOf(Numbers, MaxSize)
Texts == SeqOf(Groups, MaxGroups)

VARIABLES
  pc,
  count,      \* sources of this answer: the first of Ranked
  frames,     \* what the model sends
  mute,       \* frames without usable text: malformed, or a thought
  read,       \* frames read so far
  shown,      \* the groups streamed to the client so far; also sb, the text
  answer,     \* Result.Answer, once verified
  citations,  \* Result.Citations: [marker, chunk]
  entry,      \* the cached answer: text and chunk ids, once verified
  replay      \* the citations of a later cache hit

vars == <<pc, count, frames, mute, read, shown, answer, citations, entry, replay>>
stream == <<count, frames, mute, read, shown>>

Init ==
  /\ pc = "stream"
  /\ count \in 1 .. Len(Ranked)
  /\ frames \in Texts /\ mute \in SUBSET DOMAIN frames
  /\ read = 0 /\ shown = <<>>
  /\ answer = <<>> /\ citations = <<>> /\ replay = <<>>
  /\ entry = [answer |-> <<>>, ids |-> <<>>]

Markers(t) == UNION {ToSet(t[i]) : i \in DOMAIN t}

\* The numbers of S in order, each once (sort.Ints of the ones seen).
SortedSeq(S) ==
  CHOOSE s \in [1 .. Cardinality(S) -> S] :
    \A i, j \in DOMAIN s : i < j => s[i] < s[j]

\* What is left of s at the positions I.
Kept(s, I) == LET k == SortedSeq(I) IN [i \in DOMAIN k |-> s[k[i]]]

\* parseCitations: the valid markers of t, sorted and each once; the others.
ValidMarkers(t, n) == {m \in Markers(t) : m >= 1 /\ m <= n}
UsedMarkers(t, n) == SortedSeq(ValidMarkers(t, n))
UnknownMarkers(t, n) == Markers(t) \ ValidMarkers(t, n)

\* stripUnknownMarkers rewrites each group without the bad numbers; of a group
\* that loses all of them only the prose around it is left.
StripWholesale(t, bad) ==  \* mutant: a group with one bad number goes
  [i \in DOMAIN t |-> IF ToSet(t[i]) \cap bad = {} THEN t[i] ELSE <<>>]
StripUnknownMarkers(t, bad) ==
  [i \in DOMAIN t |-> Kept(t[i], {k \in DOMAIN t[i] : t[i][k] \notin bad})]

\* Stream: the text of a frame is a "token" event at once; a frame that cannot
\* be decoded, or that only holds a thought, is passed over.
Stream ==
  /\ pc = "stream" /\ read < Len(frames)
  /\ read' = read + 1
  /\ shown' = IF read' \in mute THEN shown ELSE Append(shown, frames[read'])
  /\ UNCHANGED <<pc, count, frames, mute, answer, citations, entry, replay>>

\* Stream: the connection breaks, or onEvent refuses a token. Answer returns
\* the error and keeps nothing.
Break ==
  /\ pc = "stream"
  /\ pc' = "failed"
  /\ UNCHANGED <<stream, answer, citations, entry, replay>>

\* sc.Scan is false and sc.Err is nil.
AtEndUnchecked == TRUE  \* mutant of AtEnd: sc.Err is not looked at
AtEnd == read = Len(frames)

\* Answer after the stream: verify, assemble the citations, PutAnswer.
Verify ==
  LET unknown == UnknownMarkers(shown, count)
      final == IF unknown = {} THEN shown ELSE StripUnknownMarkers(shown, unknown)
      used == UsedMarkers(shown, count)
  IN
  /\ pc = "stream" /\ AtEnd
  /\ answer' = final
  /\ citations' = [i \in DOMAIN used |-> [marker |-> used[i], chunk |-> Ranked[used[i]]]]
  /\ entry' = [answer |-> final, ids |-> [i \in DOMAIN used |-> Ranked[used[i]]]]
  /\ pc' = "verified"
  /\ UNCHANGED <<stream, replay>>

\* hydrateCitations: a hit numbers the cited chunks from 1.
HydrateFromZero(ids) ==  \* mutant of Hydrate: the loop index as it is
  [i \in DOMAIN ids |-> [marker |-> i - 1, chunk |-> ids[i]]]
Hydrate(ids) == [i \in DOMAIN ids |-> [marker |-> i, chunk |-> ids[i]]]

Hit ==
  /\ pc = "verified"
  /\ replay' = Hydrate(entry.ids)
  /\ pc' = "replayed"
  /\ UNCHANGED <<stream, answer, citations, entry>>

Next == Stream \/ Break \/ Verify \/ Hit

Spec == Init /\ [][Next]_vars

-----------------------------------------------------------------------------
Verified == pc \in {"verified", "replayed"}

\* The markers a reader finds in t lead to the sources the model was given.
Resolves(t, cites) ==
  /\ Markers(t) = {cites[i].marker : i \in DOMAIN cites}
  /\ \A i \in DOMAIN cites :
       cites[i].marker \in 1 .. count /\ cites[i].chunk = Ranked[cites[i].marker]

\* A verified answer and its citations fit exactly: every marker left in the
\* text can be followed to the chunk the model saw under that number, and no
\* valid citation was lost with an invalid one of its group. (What was shown before
\* is ShownMarkersKnown.)
VerifiedAnswerResolves == Verified => Resolves(answer, citations)

\* A cache hit names the same chunks in the same order as the first answer, and
\* its numbers fit the markers left in the text exactly when the model cited the
\* first sources without a gap: hydrateCitations counts from 1 over the ids that
\* Answer stored in the order of the markers. (What happens with a gap is
\* ReplayResolves, below.)
ReplayKeepsSources ==
  pc = "replayed" =>
    /\ [i \in DOMAIN replay |-> replay[i].chunk]
         = [i \in DOMAIN citations |-> citations[i].chunk]
    /\ Resolves(entry.answer, replay) <=> Markers(entry.answer) = 1 .. Len(entry.ids)

\* What a later client is served from the cache is the whole of what the model
\* sent, up to frames without text and unknown markers: a stream that a reset, a
\* timeout or a hangup cut short leaves no entry behind.
CachedIsWhole ==
  Verified =>
    LET whole == Kept(frames, DOMAIN frames \ mute)
    IN  entry.answer = StripUnknownMarkers(whole, UnknownMarkers(whole, count))

\* README.md: "Markers pointing at sources that were never supplied are
\* stripped": a streaming client is not shown one either.
ShownMarkersKnown == Markers(shown) \subseteq 1 .. count

\* cache.go on CachedAnswer: "a complete previous answer, replayed for a repeat
\* question": its citations fit its text as they did the first time.
ReplayResolves == pc = "replayed" => Resolves(entry.answer, replay)

\* The same line, "a complete previous answer": there is an answer to replay. A
\* stream without any text (a blocked prompt) is cached like one with.
CachedSaysSomething == Verified => entry.answer # <<>>
=============================================================================
