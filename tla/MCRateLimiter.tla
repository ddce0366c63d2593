---------------------------- MODULE MCRateLimiter ----------------------------
(* RateLimiter for TLC.                                                      *)
EXTENDS RateLimiter, TLC

\* The observer of the model counts from every moment at which it could.
Symmetry == Permutations(Ips)
===============================================================================
