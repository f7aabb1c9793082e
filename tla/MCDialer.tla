------------------------------ MODULE MCDialer ------------------------------
(* Dialer with two carriers, the first of one channel, and a small pool of  *)
(* calls.                                                                   *)
EXTENDS Dialer, TLC

CONSTANTS k1, k2

MCOrder == <<k1, k2>>
MCMaxChannels == [c \in {k1, k2} |-> IF c = k1 THEN 1 ELSE 2]

(* Bounds.  The clamp to zero can fail, so the counter has no floor of its  *)
(* own; one call or carrier needs an excuse.  The third call is for three   *)
(* calls that are up at once, without any.                                  *)
ThirdCall == \A u \in Calls : leg[u] # "unused"

Excuses == Cardinality(leaked) + Cardinality(overdrawn)
             + Cardinality(lost) + Cardinality(expired)

Bounded == /\ \A c \in Carriers : channels[c] >= -1
           /\ Excuses <= 1
           /\ Cardinality({a \in Agents : presence[a] = "on_call"}) <= 1
           /\ ThirdCall => (\A u \in Calls : leg[u] = "up") /\ Excuses = 0

Symmetry == Permutations(Agents) \cup Permutations(Requests) \cup Permutations(Calls)
=============================================================================
