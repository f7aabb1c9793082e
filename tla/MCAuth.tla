------------------------------- MODULE MCAuth -------------------------------
(* Two requests, two sessions and two secrets; three failures lock. *)
EXTENDS Auth, TLC

Symmetries == Permutations(Requests) \cup Permutations(Tokens) \cup Permutations(Secrets)
=============================================================================
