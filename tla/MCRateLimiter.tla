--------------------------- MODULE MCRateLimiter ---------------------------
(***************************************************************************)
(* RateLimiter for TLC: a burst of two tokens that takes four ticks to     *)
(* refill, with an uneven rate so that rounding matters.                   *)
(***************************************************************************)
EXTENDS RateLimiter, TLC

CONSTANTS r1, r2, r3

RequestSymmetry == Permutations(Callers)
=============================================================================
