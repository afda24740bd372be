---------------------------- MODULE MCRetrieval ----------------------------
(***************************************************************************)
(* Retrieval for TLC.                                                      *)
(***************************************************************************)
EXTENDS Retrieval

\* Every index of a pool of three, and one on either side.
SomeIndexes == -1 .. 3
=============================================================================
