---------------------------- MODULE AgentStates ----------------------------
(***************************************************************************)
(* What the presence store (services/edge/internal/agent) promises to the  *)
(* HTTP handlers, the inbound router and the dialer that share it: every   *)
(* operation on an agent's Redis key takes effect at one instant, at most  *)
(* once, between its call and its return, and what it returns tells the    *)
(* caller what happened.  Presence.tla is the implementation, one Redis    *)
(* command at a time.                                                      *)
(***************************************************************************)
CONSTANTS Agents,   \* agent ids
          Clients,  \* edge goroutines that may be inside an operation
          NoAgent   \* the agent of a client that has not called yet

VARIABLES presence, \* presence[a]: the value of key agent:{a}
          call      \* call[c]: the operation client c is in, or its last outcome

vars == <<presence, call>>

States == {"missing", "available", "paused", "on_call"}
Kinds == {"start", "stop", "set", "claim", "release"}
Outcomes == {"pending", "ok", "absent", "won", "miss", "error"}

(* A client between operations remembers what the last one returned. *)
Returned(o) == [kind |-> "none", agent |-> NoAgent, to |-> "missing", out |-> o]

Pending(c) == call[c].out = "pending"

Init == /\ presence = [a \in Agents |-> "missing"]
        /\ call = [c \in Clients |-> Returned("ok")]

(* A client calls an operation; only SetState chooses the state it asks for. *)
Invoke(c) ==
  /\ ~Pending(c)
  /\ \E k \in Kinds, a \in Agents, s \in States :
       call' = [call EXCEPT ![c] = [kind |-> k, agent |-> a, to |-> s,
                                    out |-> "pending"]]
  /\ UNCHANGED presence

(* The states an operation may leave behind, from the state it finds.      *)
Effects(k, s, old) ==
  CASE k = "start"   -> {"available"}
    [] k = "stop"    -> {"missing"}
    [] k = "set"     -> {s}
    [] k = "claim"   -> IF old = "available" THEN {"on_call"} ELSE {}
    [] k = "release" -> IF old = "on_call" THEN {"available"} ELSE {}

(* What it returns when it took effect, and when it did not.  A claim may  *)
(* miss and a release may do nothing whatever they find: both give up when *)
(* another writer touches the key.                                         *)
Effective(k) == IF k = "claim" THEN "won" ELSE "ok"
Idle(k) == CASE k = "set"     -> {"absent"}
             [] k = "claim"   -> {"miss"}
             [] k = "release" -> {"ok"}
             [] OTHER         -> {}

Return(c, new, o) ==
  /\ presence' = [presence EXCEPT ![call[c].agent] = new]
  /\ call' = [call EXCEPT ![c] = Returned(o)]

Complete(c) ==
  /\ Pending(c)
  /\ \E new \in Effects(call[c].kind, call[c].to, presence[call[c].agent]),
        o \in {Effective(call[c].kind), "error"} : Return(c, new, o)

GiveUp(c) ==
  /\ Pending(c)
  /\ \E o \in Idle(call[c].kind) \cup {"error"} :
       call' = [call EXCEPT ![c] = Returned(o)]
  /\ UNCHANGED presence

(* The key's TTL ends. *)
Expire(a) ==
  /\ presence' = [presence EXCEPT ![a] = "missing"]
  /\ UNCHANGED call

Next == \/ \E c \in Clients : Invoke(c) \/ Complete(c) \/ GiveUp(c)
        \/ \E a \in Agents : Expire(a)

Spec == Init /\ [][Next]_vars
=============================================================================
