----------------------------- MODULE MCPresence -----------------------------
(* Presence with a few model values; agents and clients are interchangeable. *)
EXTENDS Presence, TLC

Symmetry == Permutations(Agents) \cup Permutations(Clients)
=============================================================================
