------------------------------- MODULE Corpus -------------------------------
(***************************************************************************)
(* What the ingestion pipeline promises to everything that reads the       *)
(* corpus (retrieval, citations, the answer cache): a document's chunks    *)
(* are never there at all or are exactly one complete generation, a        *)
(* re-ingest replaces that generation in one indivisible step, and a       *)
(* document is reported "ready" only by the step that installs its chunks. *)
(* worker.py states the promise in its header and above its transaction.   *)
(***************************************************************************)
EXTENDS Naturals

CONSTANT Docs

VARIABLES
  index,   \* index[d]: the generation of d's chunks a reader sees, 0 for none
  ready    \* the documents whose status is "ready"

corpusVars == <<index, ready>>

CorpusTypeOK == index \in [Docs -> Nat] /\ ready \subseteq Docs

CorpusInit == index = [d \in Docs |-> 0] /\ ready = {}

\* A generation of d newer than the visible one replaces it as a whole.
Replace(d) ==
  /\ index'[d] \in Nat /\ index'[d] > index[d]
  /\ index' = [index EXCEPT ![d] = index'[d]]
  /\ ready' = ready \cup {d}

\* A re-ingest or a failed attempt takes the status away from "ready"; the
\* generation that is already indexed stays as it is.
Unready(d) ==
  /\ d \in ready
  /\ ready' = ready \ {d}
  /\ index' = index

CorpusNext == \E d \in Docs : Replace(d) \/ Unready(d)

CorpusSpec == CorpusInit /\ [][CorpusNext]_corpusVars
=============================================================================
