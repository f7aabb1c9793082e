------------------------------ MODULE Presence ------------------------------
(***************************************************************************)
(* Agent presence in Redis (services/edge/internal/agent/presence.go), one *)
(* Redis command per step.  Several goroutines of the edge (HTTP handlers, *)
(* the inbound listener, the dialer's hangup) work on the same keys, so    *)
(* everything can happen between two commands of one operation.            *)
(*                                                                         *)
(* SetState is EXISTS, GET, SET on a plain connection.  ClaimAvailable and *)
(* ReleaseOnCall are optimistic transactions: WATCH, GET, MULTI-SET-EXEC;  *)
(* dirty[c] is the flag Redis keeps on a watching connection and sets when *)
(* anything touches the watched key.  A command may fail without having    *)
(* run, and a write may run and lose its reply.                            *)
(*                                                                         *)
(* SetCampaign has no caller in the program, so a key never holds a        *)
(* campaign and its value is just the state.                               *)
(***************************************************************************)
CONSTANTS Agents, Clients, NoAgent

ASSUME NoAgentAssumption == NoAgent \notin Agents

VARIABLES presence, \* presence[a]: the value of key agent:{a}
          call,     \* call[c]: the operation client c is in, or its last outcome
          pc,       \* pc[c]: the command client c sends next
          dirty     \* dirty[c]: the key c watches changed since WATCH

vars == <<presence, call, pc, dirty>>

Abs == INSTANCE AgentStates WITH
  Agents <- Agents, Clients <- Clients, NoAgent <- NoAgent,
  presence <- presence, call <- call

States == {"missing", "available", "paused", "on_call"}
Commands == {"write", "del", "exists", "setGet",
             "claimGet", "claimExec", "releaseGet", "releaseExec"}

TypeOK ==
  /\ presence \in [Agents -> States]
  /\ call \in [Clients -> [kind : Abs!Kinds \cup {"none"},
                           agent : Agents \cup {NoAgent},
                           to : States, out : Abs!Outcomes]]
  /\ pc \in [Clients -> Commands \cup {"idle"}]
  /\ dirty \in [Clients -> BOOLEAN]

Watching(c) == pc[c] \in {"claimGet", "claimExec", "releaseGet", "releaseExec"}

Init == /\ presence = [a \in Agents |-> "missing"]
        /\ call = [c \in Clients |-> Abs!Returned("ok")]
        /\ pc = [c \in Clients |-> "idle"]
        /\ dirty = [c \in Clients |-> FALSE]

-----------------------------------------------------------------------------
(* A write of agent a's key by any connection, seen by all who watch it.   *)
Store(a, s) ==
  /\ presence' = [presence EXCEPT ![a] = s]
  /\ dirty' = [c \in Clients |-> dirty[c] \/ (Watching(c) /\ call[c].agent = a)]

Begin(c, k, a, s, first) ==
  /\ pc[c] = "idle"
  /\ call' = [call EXCEPT ![c] = [kind |-> k, agent |-> a, to |-> s,
                                  out |-> "pending"]]
  /\ pc' = [pc EXCEPT ![c] = first]
  /\ dirty' = [dirty EXCEPT ![c] = FALSE]
  /\ UNCHANGED presence

Goto(c, command) ==
  /\ pc' = [pc EXCEPT ![c] = command]
  /\ UNCHANGED <<presence, call, dirty>>

Finish(c, o) ==
  /\ call' = [call EXCEPT ![c] = Abs!Returned(o)]
  /\ pc' = [pc EXCEPT ![c] = "idle"]

FinishUnchanged(c, o) == Finish(c, o) /\ UNCHANGED <<presence, dirty>>

(* Any command may fail without having been executed. *)
CommandFails(c) == pc[c] # "idle" /\ FinishUnchanged(c, "error")

-----------------------------------------------------------------------------
Start(c, a) == Begin(c, "start", a, "available", "write")

Stop(c, a) == Begin(c, "stop", a, "missing", "del")

Del(c) ==
  /\ pc[c] = "del"
  /\ Store(call[c].agent, "missing")
  /\ \E o \in {"ok", "error"} : Finish(c, o)

(* Only available and paused pass the argument check. *)
SetState(c, a, s) ==
  /\ s \in {"available", "paused"}
  /\ Begin(c, "set", a, s, "exists")

Exists(c) ==
  /\ pc[c] = "exists"
  /\ IF presence[call[c].agent] = "missing"
     THEN FinishUnchanged(c, "absent")
     ELSE Goto(c, "setGet")

SetStateGet(c) ==
  /\ pc[c] = "setGet"
  /\ IF presence[call[c].agent] = "missing"
     THEN FinishUnchanged(c, "absent")
     ELSE Goto(c, "write")

(* Mutant: the value written is the wrong field of the request.            *)
WriteWrongField(c) ==
  /\ pc[c] = "write"
  /\ Store(call[c].agent, call[c].kind)
  /\ Finish(c, "ok")

(* The SET of Start and of SetState: it does not depend on what the key    *)
(* holds by now.                                                           *)
WritePresence(c) ==
  /\ pc[c] = "write"
  /\ Store(call[c].agent, call[c].to)
  /\ \E o \in {"ok", "error"} : Finish(c, o)

-----------------------------------------------------------------------------
(* The call and its WATCH. *)
ClaimAvailable(c, a) == Begin(c, "claim", a, "on_call", "claimGet")

(* Mutant: the claim does not look at the state it read.                   *)
ClaimGetUnchecked(c) == pc[c] = "claimGet" /\ Goto(c, "claimExec")

ClaimGet(c) ==
  /\ pc[c] = "claimGet"
  /\ IF presence[call[c].agent] = "available"
     THEN Goto(c, "claimExec")
     ELSE FinishUnchanged(c, "miss")

(* Mutant: the claim writes without WATCH.                                 *)
ClaimExecUnwatched(c) ==
  /\ pc[c] = "claimExec"
  /\ Store(call[c].agent, "on_call")
  /\ Finish(c, "won")

ClaimExec(c) ==
  /\ pc[c] = "claimExec"
  /\ IF dirty[c]
     THEN FinishUnchanged(c, "miss")
     ELSE /\ Store(call[c].agent, "on_call")
          /\ \E o \in {"won", "error"} : Finish(c, o)

ReleaseOnCall(c, a) == Begin(c, "release", a, "available", "releaseGet")

ReleaseGet(c) ==
  /\ pc[c] = "releaseGet"
  /\ IF presence[call[c].agent] = "on_call"
     THEN Goto(c, "releaseExec")
     ELSE FinishUnchanged(c, "ok")

(* Mutant: the release writes without WATCH.                               *)
ReleaseExecUnwatched(c) ==
  /\ pc[c] = "releaseExec"
  /\ Store(call[c].agent, "available")
  /\ Finish(c, "ok")

ReleaseExec(c) ==
  /\ pc[c] = "releaseExec"
  /\ IF dirty[c]
     THEN FinishUnchanged(c, "ok")
     ELSE /\ Store(call[c].agent, "available")
          /\ \E o \in {"ok", "error"} : Finish(c, o)

(* The TTL of a key ends; Redis fails the EXEC of whoever watches it. *)
Expire(a) ==
  /\ presence[a] # "missing"
  /\ Store(a, "missing")
  /\ UNCHANGED <<call, pc>>

-----------------------------------------------------------------------------
Calls(c) == \E a \in Agents : \/ Start(c, a)
                              \/ Stop(c, a)
                              \/ \E s \in States : SetState(c, a, s)
                              \/ ClaimAvailable(c, a)
                              \/ ReleaseOnCall(c, a)

Runs(c) == \/ Del(c) \/ Exists(c) \/ SetStateGet(c) \/ WritePresence(c)
           \/ ClaimGet(c) \/ ClaimExec(c) \/ ReleaseGet(c) \/ ReleaseExec(c)
           \/ CommandFails(c)

Next == \/ \E c \in Clients : Calls(c) \/ Runs(c)
        \/ \E a \in Agents : Expire(a)

Spec == Init /\ [][Next]_vars

-----------------------------------------------------------------------------
(* A claim reports a win exactly when its own EXEC is the step that moved  *)
(* the agent from available to on_call: two inbound calls never both win   *)
(* one agent, however their commands interleave with each other and with   *)
(* the agent's own requests (ClaimAvailable, presence.go:154-191).         *)
ClaimWinsOnce ==
  [][\A c \in Clients :
       (call[c].kind = "claim" /\ call[c].out = "pending" /\ call'[c].out = "won")
         => /\ presence[call[c].agent] = "available"
            /\ presence'[call[c].agent] = "on_call"]_vars

(* The invariant behind the optimistic transactions: while a client waits  *)
(* to EXEC and nothing touched its key, the key still holds the value its  *)
(* GET returned, and the client runs the operation its command belongs to. *)
ValueRead(c) ==
  /\ pc[c] = "claimExec" /\ ~dirty[c] => presence[call[c].agent] = "available"
  /\ pc[c] = "releaseExec" /\ ~dirty[c] => presence[call[c].agent] = "on_call"

KindOf(c) ==
  /\ pc[c] = "write" => call[c].kind \in {"start", "set"}
  /\ pc[c] = "write" /\ call[c].kind = "start" => call[c].to = "available"
  /\ pc[c] = "del" => call[c].kind = "stop"
  /\ pc[c] \in {"exists", "setGet"} => call[c].kind = "set"
  /\ pc[c] \in {"claimGet", "claimExec"} => call[c].kind = "claim"
  /\ pc[c] \in {"releaseGet", "releaseExec"} => call[c].kind = "release"

WatchedValueHolds ==
  \A c \in Clients :
    /\ ValueRead(c)
    /\ KindOf(c)
    /\ pc[c] = "idle" <=> call[c].out # "pending"
    /\ pc[c] # "idle" => call[c].agent \in Agents

(* The presence operations, command by command, behave like the atomic     *)
(* ones of AgentStates (presence.go as a whole).                           *)
ImplementsAgentStates == Abs!Spec
=============================================================================
