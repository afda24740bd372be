---------------------------- MODULE MCCitations ----------------------------
(***************************************************************************)
(* Citations for TLC.                                                      *)
(***************************************************************************)
EXTENDS Citations

CONSTANTS a, b, c

ThreeChunks == <<a, b, c>>
=============================================================================
