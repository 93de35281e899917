--------------------------- MODULE MCRateLimiter ---------------------------
(* An instance of RateLimiter for TLC: a bucket of one and a half tokens,  *)
(* erased after the shortest time that is safe.                            *)
EXTENDS RateLimiter, TLC

CONSTANTS t1, t2, k1

TwoThreads == {t1, t2}
OneKey     == {k1}

ThreadSymmetry == Permutations(TwoThreads)
=============================================================================
