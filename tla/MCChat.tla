------------------------------- MODULE MCChat -------------------------------
(***************************************************************************)
(* Chat for TLC.                                                           *)
(***************************************************************************)
EXTENDS Chat, TLC

CONSTANTS r1, r2, r3, d1, d2, c1, q1, q2

Ask(c, q) == [conv |-> c, q |-> q, noCache |-> FALSE]

\* Strangers asking the same question.
SameQuestion == {Ask(NoConv, q1)}

\* One conversation and strangers, with and without the cache.
AllAsks == Request

\* A stranger asks first; then a conversation repeats the question and goes on.
FollowUpAsks == {Ask(NoConv, q1), Ask(c1, q1), Ask(c1, q2)}

OneChunkEach == [d \in Docs |-> 1]

RequestSymmetry == Permutations(Requests)
=============================================================================
