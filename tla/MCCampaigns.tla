---------------------------- MODULE MCCampaigns ----------------------------
(* Campaigns with a few model values and two dispositions, one of them of  *)
(* the campaign's own making.                                              *)
EXTENDS Campaigns, TLC

MCDispositions == {[code |-> "BUSY", isSuccess |-> FALSE],
                   [code |-> "custom", isSuccess |-> TRUE]}

Symmetry == Permutations(Agents) \cup Permutations(Leads) \cup Permutations(Requests)

(* A lead is reported on at most twice. *)
Bounded == \A l \in Leads : Len(logs[l]) <= 2
=============================================================================
