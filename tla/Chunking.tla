------------------------------ MODULE Chunking ------------------------------
(***************************************************************************)
(* The chunker (workers/ingest/chunking.py): split_sections, chunk_document *)
(* and _split_oversized, one step per iteration of their loops.            *)
(*                                                                         *)
(* A document is a sequence of lines; of a line it matters whether it is a *)
(* fence, looks like a heading or is prose, and how long it is. A line of  *)
(* prose is one sentence. A text is its length and the pieces of lines in  *)
(* it, each from one character of its line to another; the words that an   *)
(* overlap repeats count in its length only.                               *)
(***************************************************************************)
EXTENDS Integers, Sequences, FiniteSets, SequencesExt

CONSTANTS
  Lines,         \* the lines documents are made of
  MaxLines,      \* TLC: length of a document
  TARGET_CHARS, MAX_CHARS, MIN_CHARS, OVERLAP_CHARS

ASSUME ChunkingAssumption ==
  /\ \A l \in Lines : /\ l.kind \in {"fence", "heading", "text"}
                      /\ l.level \in 1 .. 6 /\ l.len \in Nat \ {0}
  /\ MaxLines \in Nat
  /\ {TARGET_CHARS, MAX_CHARS, MIN_CHARS, OVERLAP_CHARS} \subseteq Nat \ {0}

VARIABLES
  doc,                                  \* the document's lines
  pc, next,                             \* the running loop and its position
  stack, inFence, current, sections,    \* split_sections
  pending, pendingHeading, chunks,      \* chunk_document
  buf, sentence                         \* _split_oversized

splitVars == <<stack, inFence, current, sections>>
packVars  == <<pending, pendingHeading, chunks>>
vars == <<doc, pc, next, splitVars, packVars, buf, sentence>>

Empty == [len |-> 0, pieces |-> <<>>]

\* The text of line i, and two texts joined by sep characters.
Whole(i) == [len |-> doc[i].len, pieces |-> <<[line |-> i, from |-> 1, to |-> doc[i].len]>>]
Join(a, sep, b) ==
  IF a.len = 0 THEN b
  ELSE [len |-> a.len + sep + b.len, pieces |-> a.pieces \o b.pieces]

Least(a, b) == IF a < b THEN a ELSE b

Init ==
  /\ doc \in SeqOf(Lines, MaxLines)
  /\ pc = "split" /\ next = 1
  /\ stack = <<>> /\ inFence = FALSE
  /\ current = [path |-> <<>>, text |-> Empty]
  /\ sections = <<>>
  /\ pending = Empty /\ pendingHeading = <<>> /\ chunks = <<>>
  /\ buf = Empty /\ sentence = 1

-----------------------------------------------------------------------------
(***************************************************************************)
(* split_sections                                                          *)
(***************************************************************************)

Reading(kind) == pc = "split" /\ next <= Len(doc) /\ doc[next].kind = kind

\* _Section.text: its lines joined by newlines.
Extended == [current EXCEPT !.text = Join(@, 1, Whole(next))]

\* sections, with the current one if it has text.
Closed == IF current.text.len > 0 THEN Append(sections, current) ELSE sections

Fence ==
  /\ Reading("fence")
  /\ inFence' = ~inFence
  /\ current' = Extended
  /\ next' = next + 1
  /\ UNCHANGED <<doc, pc, stack, sections, packVars, buf, sentence>>

\* A line of prose, or something like a heading inside a fence.
Prose ==
  /\ \/ Reading("text")
     \/ Reading("heading") /\ inFence
  /\ current' = Extended
  /\ next' = next + 1
  /\ UNCHANGED <<doc, pc, stack, inFence, sections, packVars, buf, sentence>>

\* Pop to the parent level, then push this heading: stack[: level - 1].
PushHeading(h) ==
  Append(SubSeq(stack, 1, Least(Len(stack), h.level - 1)), h.title)

Heading ==
  /\ Reading("heading") /\ ~inFence
  /\ sections' = Closed
  /\ stack' = PushHeading(doc[next])
  /\ current' = [path |-> stack', text |-> Empty]
  /\ next' = next + 1
  /\ UNCHANGED <<doc, pc, inFence, packVars, buf, sentence>>

EndOfLines ==
  /\ pc = "split" /\ next > Len(doc)
  /\ sections' = Closed
  /\ pc' = "pack" /\ next' = 1
  /\ UNCHANGED <<doc, stack, inFence, current, packVars, buf, sentence>>

-----------------------------------------------------------------------------
(***************************************************************************)
(* chunk_document                                                          *)
(***************************************************************************)

Chunk(heading, text) == [heading |-> heading, text |-> text]

\* flush()
Flushed ==
  IF pending.len > 0 THEN Append(chunks, Chunk(pendingHeading, pending)) ELSE chunks

\* Sections are packed together, but never across a change of heading and not
\* beyond the target size.
MustFlushBySize(s) ==  \* mutant of MustFlush: headings are not compared
  pending.len > 0 /\ pending.len + s.text.len > TARGET_CHARS
MustFlush(s) ==
  /\ pending.len > 0
  /\ s.path # pendingHeading \/ pending.len + s.text.len > TARGET_CHARS

Pack ==
  LET s == sections[next] IN
  /\ pc = "pack" /\ next <= Len(sections)
  /\ s.text.len <= MAX_CHARS
  /\ IF MustFlush(s)
       THEN chunks' = Flushed /\ pending' = s.text
       ELSE pending' = Join(pending, 2, s.text) /\ UNCHANGED chunks
  /\ pendingHeading' = s.path
  /\ next' = next + 1
  /\ UNCHANGED <<doc, pc, splitVars, buf, sentence>>

Oversized ==
  /\ pc = "pack" /\ next <= Len(sections)
  /\ sections[next].text.len > MAX_CHARS
  /\ chunks' = Flushed /\ pending' = Empty
  /\ buf' = Empty /\ sentence' = 1
  /\ pc' = "sentences"
  /\ UNCHANGED <<doc, next, splitVars, pendingHeading>>

-----------------------------------------------------------------------------
(***************************************************************************)
(* _split_oversized: its parts become chunks of the section at once.       *)
(***************************************************************************)

Section == sections[next]
Sentences == Section.text.pieces
Sentence == Whole(Sentences[sentence].line)
AtSentence == pc = "sentences" /\ sentence <= Len(Sentences)
FitsUnlessFull == buf.len + 1 <= MAX_CHARS  \* mutant of Fits: sentence not counted
Fits == buf.len + Sentence.len + 1 <= MAX_CHARS

Grow ==
  /\ AtSentence /\ Fits
  /\ buf' = Join(buf, 1, Sentence)
  /\ sentence' = sentence + 1
  /\ UNCHANGED <<doc, pc, next, splitVars, packVars>>

\* What is buffered becomes a part; the next one repeats its last characters
\* from a word boundary on, n of them.
Overlaps(b) == 0 .. Least(OVERLAP_CHARS, b.len) - 1
Cut ==
  /\ AtSentence /\ ~Fits /\ buf.len > 0
  /\ chunks' = Append(chunks, Chunk(Section.path, buf))
  /\ \E n \in Overlaps(buf) :
       buf' = [Sentence EXCEPT !.len = @ + IF n = 0 THEN 0 ELSE n + 1]
  /\ sentence' = sentence + 1
  /\ UNCHANGED <<doc, pc, next, splitVars, pending, pendingHeading>>

\* A sentence longer than the budget: pieces of MAX_CHARS and a rest.
HardParts(i) ==
  LET From(k) == (k - 1) * MAX_CHARS + 1
      To(k) == Least(k * MAX_CHARS, doc[i].len)
  IN  [k \in 1 .. (doc[i].len + MAX_CHARS - 1) \div MAX_CHARS |->
         Chunk(Section.path,
               [len |-> To(k) - From(k) + 1,
                pieces |-> <<[line |-> i, from |-> From(k), to |-> To(k)]>>])]

HardSplit ==
  /\ AtSentence /\ ~Fits /\ buf.len = 0
  /\ chunks' = chunks \o HardParts(Sentences[sentence].line)
  /\ sentence' = sentence + 1
  /\ UNCHANGED <<doc, pc, next, splitVars, pending, pendingHeading, buf>>

EndOfSection ==
  /\ pc = "sentences" /\ sentence > Len(Sentences)
  /\ chunks' = IF buf.len > 0 THEN Append(chunks, Chunk(Section.path, buf)) ELSE chunks
  /\ pendingHeading' = Section.path
  /\ buf' = Empty
  /\ pc' = "pack" /\ next' = next + 1
  /\ UNCHANGED <<doc, splitVars, pending, sentence>>

-----------------------------------------------------------------------------
\* A trailing scrap is folded into its predecessor if they share a heading.
DropScrap(cs) ==  \* mutant of FoldScrap: popped and not appended
  IF Len(cs) > 1 /\ Last(cs).text.len < MIN_CHARS THEN Front(cs) ELSE cs
FoldScrap(cs) ==
  LET n == Len(cs) IN
  IF n > 1 /\ cs[n].text.len < MIN_CHARS /\ cs[n].heading = cs[n - 1].heading
    THEN Append(SubSeq(cs, 1, n - 2),
                Chunk(cs[n].heading, Join(cs[n - 1].text, 2, cs[n].text)))
    ELSE cs

Finish ==
  /\ pc = "pack" /\ next > Len(sections)
  /\ chunks' = FoldScrap(Flushed)
  /\ pending' = Empty
  /\ pc' = "done"
  /\ UNCHANGED <<doc, next, splitVars, pendingHeading, buf, sentence>>

Next ==
  \/ Fence \/ Prose \/ Heading \/ EndOfLines
  \/ Pack \/ Oversized \/ Finish
  \/ Grow \/ Cut \/ HardSplit \/ EndOfSection

Spec == Init /\ [][Next]_vars

-----------------------------------------------------------------------------
(***************************************************************************)
(* Reference definitions, without any of the loops.                        *)
(***************************************************************************)

InFence(i) == Cardinality({j \in 1 .. i - 1 : doc[j].kind = "fence"}) % 2 = 1
IsHeading(i) == doc[i].kind = "heading" /\ ~InFence(i)
Content == {i \in DOMAIN doc : ~IsHeading(i)}

\* The headings line i stands under: those not ended by one as high.
Above(i) ==
  {h \in 1 .. i : IsHeading(h) /\ \A k \in h + 1 .. i :
                    IsHeading(k) => doc[k].level > doc[h].level}
Nth(S, n) == CHOOSE h \in S : Cardinality({g \in S : g <= h}) = n
Outline(i) == [n \in 1 .. Cardinality(Above(i)) |-> doc[Nth(Above(i), n)].title]

\* No heading is more than one level below the one it stands under.
NoLevelSkipped ==
  \A i \in DOMAIN doc : IsHeading(i) => Cardinality(Above(i)) = doc[i].level

\* Piece p[2] of chunk p[1], in reading order, and the characters of a piece.
Positions == UNION {{c} \X (DOMAIN chunks[c].text.pieces) : c \in DOMAIN chunks}
PieceAt(p) == chunks[p[1]].text.pieces[p[2]]
Earlier(p, q) == p[1] < q[1] \/ (p[1] = q[1] /\ p[2] < q[2])
Characters(x) == {x.line} \X (x.from .. x.to)

\* Piece x is read before piece y and shares no character with it.
Precedes(x, y) == x.line < y.line \/ (x.line = y.line /\ x.to < y.from)

-----------------------------------------------------------------------------
\* The chunks hold every character of the document's content exactly once (the
\* overlaps apart) and in reading order, whatever was packed, cut, hard-split
\* or folded: a passage that is lost here can never be retrieved.
NothingLost ==
  pc = "done" =>
    /\ UNION {Characters(PieceAt(p)) : p \in Positions}
         = UNION {{i} \X (1 .. doc[i].len) : i \in Content}
    /\ \A p, q \in Positions : Earlier(p, q) => Precedes(PieceAt(p), PieceAt(q))

\* "Never across a change of heading" (chunk_document): every chunk carries the
\* outline path of every line in it, if the document skips no heading level.
OneSubject ==
  pc = "done" /\ NoLevelSkipped =>
    \A c \in DOMAIN chunks : \A p \in ToSet(chunks[c].text.pieces) :
      chunks[c].heading = Outline(p.line)

\* No chunk is longer than the budget plus an overlap and a folded scrap, if no
\* sentence is longer than the budget and two sections packed up to the target
\* are not either.
SizeIsBounded ==
  /\ pc = "done" /\ TARGET_CHARS + 2 <= MAX_CHARS
  /\ \A i \in Content : doc[i].len <= MAX_CHARS
  =>
    \A c \in DOMAIN chunks :
      chunks[c].text.len <= MAX_CHARS + OVERLAP_CHARS + MIN_CHARS + 1

-----------------------------------------------------------------------------
(***************************************************************************)
(* What the repository says and the code does not do.                      *)
(***************************************************************************)

\* eval/test_chunking.py, test_every_chunk_stays_within_the_budget, and
\* _split_oversized on a long sentence: "Hard-split it rather than emitting it
\* whole".
WithinBudget ==
  pc = "done" => \A c \in DOMAIN chunks : chunks[c].text.len <= MAX_CHARS

\* split_sections: "tracking the full heading path", which it pops "to the
\* parent level".
HeadingPathIsOutline ==
  \A s \in ToSet(sections) : \A x \in ToSet(s.text.pieces) : s.path = Outline(x.line)
=============================================================================
