------------------------------ MODULE MCIngest ------------------------------
(***************************************************************************)
(* Small instances of Ingest for TLC.                                      *)
(***************************************************************************)
EXTENDS Ingest, TLC

CONSTANTS d1, d2, w1, w2, p1, p2

\* One document of two chunks.
OneDoc == [d \in Docs |-> 2]
\* A document of one chunk next to one that the chunker makes nothing of.
GoodAndEmpty == [d \in Docs |-> IF d = d1 THEN 1 ELSE 0]
\* Both documents hash to p1.
KeyToP1 == [d \in Docs |-> p1]

NoFaults == [k \in FaultKinds |-> 0]
\* Deaths, evictions, exceptions, lost and duplicated messages together.
AllFaults == [NoFaults EXCEPT !["crash"] = 1, !["raise"] = 2, !["evict"] = 1,
                              !["lose"] = 1, !["dup"] = 1, !["again"] = 1]
\* One worker dies or leaves; the other has to take over.
TakeoverFaults == [NoFaults EXCEPT !["crash"] = 1, !["stop"] = 1, !["raise"] = 1]
\* An attempt fails and the worker dies before its offset is committed.
RaceFaults == [NoFaults EXCEPT !["crash"] = 1, !["raise"] = 1]
\* A job is lost and the client uploads the content again.
ReuploadFaults == [NoFaults EXCEPT !["lose"] = 1, !["again"] = 1]
\* An attempt fails and the retry is lost.
LostRetryFaults == [NoFaults EXCEPT !["lose"] = 1, !["raise"] = 1]

WorkerSymmetry == Permutations(Workers)
=============================================================================
