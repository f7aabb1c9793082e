---------------------------- MODULE MCCpsLimiter ----------------------------
(* CpsLimiter over a few seconds; the requests are interchangeable. *)
EXTENDS CpsLimiter, TLC

Symmetry == Permutations(Originates)
=============================================================================
