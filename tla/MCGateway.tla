----------------------------- MODULE MCGateway -----------------------------
(***************************************************************************)
(* Gateway for TLC.                                                        *)
(***************************************************************************)
EXTENDS Gateway

CONSTANTS r1, r2

\* Usable environments, one with a malformed number, and the three ways to be
\* refused.
Env(d, c, n, k) == [dim |-> d, context |-> c, rerank |-> n, key |-> k]
MCEnvironments ==
  {Env(Unset, Unset, Unset, TRUE), Env(Unset, Unset, Unset, FALSE),
   Env(2001, 5, 12, TRUE), Env(2000, Unset, 4, TRUE)}
=============================================================================
