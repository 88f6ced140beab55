---------------------------- MODULE MCRateLimit ----------------------------
(* Constants of the TLC runs of RateLimit.                                 *)
EXTENDS RateLimit, TLC

\* Requests are interchangeable.
MCSymmetry == Permutations(Request)
=============================================================================
