---------------------------- MODULE MCBM25Stats ----------------------------
(***************************************************************************)
(* BM25Stats for TLC: three documents that share terms, one of them with a *)
(* chunk of stop words only.                                               *)
(***************************************************************************)
EXTENDS BM25Stats, TLC

CONSTANTS d1, d2, d3, w1, w2, w3, t1, t2, t3

Chunk(n1, n2, n3) == (t1 :> n1) @@ (t2 :> n2) @@ (t3 :> n3)
MCTf == (d1 :> <<Chunk(2, 0, 0), Chunk(1, 1, 0)>>)
          @@ (d2 :> <<Chunk(0, 1, 0), Chunk(0, 0, 0)>>)
          @@ (d3 :> <<Chunk(1, 0, 3)>>)

WorkerSymmetry == Permutations(Workers)
=============================================================================
