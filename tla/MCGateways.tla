---------------------------- MODULE MCGateways -----------------------------
(* Gateways with two carriers, the second of which has one host only. *)
EXTENDS Gateways, FiniteSets

CONSTANTS c1, h1

(* PATCHes are of the first carrier, and while a reload runs only those    *)
(* that are about to be published: Create and Delete already change the    *)
(* rows under a reload.                                                    *)
PatchesBounded ==
  \A r \in Requests : At(r, "get") \/ At(r, "update") =>
    req[r].carrier = c1 /\ \A p \in Goroutines : ~Busy(p)

(* Overlapping reloads begin with no gateway left behind and the edge      *)
(* subscribed, and messages that come meanwhile are for later.             *)
OverlapBounded == (\A p \in Goroutines : Busy(p)) =>
                    leaked = {} /\ pending = 0 /\ subscribed

(* One command may come late, not the second carrier's killgw; while it    *)
(* may, one reload at most is under way, no other gateway is left behind,  *)
(* and no PATCH comes.                                                     *)
LateBounded ==
  late # {} => /\ \E command \in {c1, "rescan"} : late = {command}
               /\ \E p \in Goroutines : ~Busy(p)
               /\ leaked \subseteq late
               /\ \A r \in Requests : ~At(r, "get") /\ ~At(r, "update")

Bounded == /\ PatchesBounded /\ OverlapBounded /\ LateBounded
           /\ Cardinality(leaked) <= 1
           /\ \A c \in Carriers \ {c1} : /\ row[c] \in Rows => row[c].host = h1
                                         /\ file[c] \in {h1, None}
=============================================================================
