----------------------------- MODULE MCChunking -----------------------------
(***************************************************************************)
(* Chunking for TLC: a budget of six characters, and lines around it.      *)
(***************************************************************************)
EXTENDS Chunking

CONSTANTS A, B

Prose_(n) == [kind |-> "text", level |-> 1, title |-> A, len |-> n]
H(l, t) == [kind |-> "heading", level |-> l, title |-> t, len |-> 2]
FenceLine == [kind |-> "fence", level |-> 1, title |-> A, len |-> 1]

\* Short, middling and oversized sentences; repeated and nested headings.
AllLines == {FenceLine, H(1, A), H(1, B), H(2, A), H(3, A),
             Prose_(1), Prose_(3), Prose_(6), Prose_(9)}
=============================================================================
