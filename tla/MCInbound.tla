----------------------------- MODULE MCInbound -----------------------------
(* Inbound with a few agents and calls, interchangeable in safety runs. *)
EXTENDS Inbound, TLC

Symmetry == Permutations(Agents) \cup Permutations(Channels)
=============================================================================
