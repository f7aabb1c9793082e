------------------------------- MODULE Dialer -------------------------------
(***************************************************************************)
(* Manual outbound calls (services/edge/internal/dialer/manual.go): the    *)
(* HTTP handlers run Originate and Hangup concurrently, one Redis or       *)
(* FreeSWITCH (ESL) command per step.                                      *)
(*                                                                         *)
(* In Redis: channels:carrier:{id}, the counter of concurrent channels;    *)
(* call:meta:{uuid}; call:agent:{id}, the agent's current call.  In        *)
(* FreeSWITCH: the legs that really are up.                                *)
(*                                                                         *)
(* The verdicts of the CPS gate and a carrier's Enabled flag can make any  *)
(* carrier be skipped; CpsLimiter.tla is about the verdicts.  The events   *)
(* published for the wallboard change nothing here and are left out.       *)
(*                                                                         *)
(* go-redis sends a command again when its reply is lost: INCR and DECR    *)
(* may be executed several times and still succeed, the MULTI of the call  *)
(* keys may be written again after somebody has read them.                 *)
(***************************************************************************)
EXTENDS Integers, Sequences, FiniteSets

CONSTANTS Agents, Carriers, Calls,  \* Calls: the pool of fresh call UUIDs
          Requests,     \* HTTP requests that may be in progress at once
          Order,        \* ListOrdered: the carriers by priority
          MaxChannels,  \* MaxChannels[c], as configured, possibly 0 or less
          Attempts,     \* times go-redis may send a command, 4 by default
          Disturbances, \* what may go wrong around the edge, see below
          None

AllDisturbances == {"redisError", "eslError", "farHangup"}

ASSUME OrderAssumption == Order \in Seq(Carriers)
ASSUME MaxAssumption == MaxChannels \in [Carriers -> Int]
ASSUME RequestsAssumption == IsFiniteSet(Requests)
ASSUME AttemptsAssumption == Attempts \in Nat \ {0}

(* A call's agent and carrier. *)
Route == [agent : Agents, carrier : Carriers]

ASSUME NoneAssumption == None \notin Agents \cup Carriers \cup Calls \cup Route

VARIABLES channels,  \* channels[c]: channels:carrier:{c}, absent read as 0
          meta,      \* meta[u]: call:meta:{u}, or None
          agentCall, \* agentCall[a]: call:agent:{a}, or None
          presence,  \* presence[a]: agent:{a}
          leg,       \* leg[u]: the leg of call u in FreeSWITCH
          placed,    \* placed[u]: for whom and through which carrier u went
          req,       \* req[r]: where request r is, and its local variables
          lost,      \* calls left up by an ESL failure during Originate
          expired,   \* counted calls that nobody hung up while their keys lived
          leaked,    \* carriers counted up, or not down, by mistake
          overdrawn  \* carriers counted down by mistake

vars == <<channels, meta, agentCall, presence, leg, placed, req,
          lost, expired, leaked, overdrawn>>

OriginatePCs == {"pick", "dial", "incr", "save", "kill"}
HangupPCs == {"load", "uuidKill", "decr", "clamp", "delMeta", "getMine",
              "delMine", "release"}
IdleReq == [pc |-> "idle", agent |-> None, at |-> 1, call |-> None, carrier |-> None]

TypeOK ==
  /\ channels \in [Carriers -> Int]
  /\ meta \in [Calls -> Route \cup {None}]
  /\ agentCall \in [Agents -> Calls \cup {None}]
  /\ presence \in [Agents -> {"available", "on_call"}]
  /\ leg \in [Calls -> {"unused", "up", "down"}]
  /\ placed \in [Calls -> Route \cup {None}]
  /\ req \in [Requests -> [pc : {"idle"} \cup OriginatePCs \cup HangupPCs,
                           agent : Agents \cup {None},
                           at : 1 .. Len(Order) + 1,
                           call : Calls \cup {None},
                           carrier : Carriers \cup {None}]]
  /\ lost \subseteq Calls /\ expired \subseteq Calls
  /\ leaked \subseteq Carriers /\ overdrawn \subseteq Carriers

Init == /\ channels = [c \in Carriers |-> 0]
        /\ meta = [u \in Calls |-> None]
        /\ agentCall = [a \in Agents |-> None]
        /\ presence = [a \in Agents |-> "available"]
        /\ leg = [u \in Calls |-> "unused"]
        /\ placed = [u \in Calls |-> None]
        /\ req = [r \in Requests |-> IdleReq]
        /\ lost = {} /\ expired = {}
        /\ leaked = {} /\ overdrawn = {}

-----------------------------------------------------------------------------
redis == <<channels, meta, agentCall, presence>>
freeswitch == <<leg, placed>>
errors == <<expired, leaked, overdrawn>>
ghosts == <<lost, errors>>

At(r, l) == req[r].pc = l
Goto(r, l) == req' = [req EXCEPT ![r].pc = l]
Answer(r) == req' = [req EXCEPT ![r] = IdleReq]
NextCarrier(r) == req' = [req EXCEPT ![r].pc = "pick", ![r].at = req[r].at + 1,
                                     ![r].carrier = None]

(* Whether a command whose failure is ignored takes effect.               *)
Effect(disturbance) == IF disturbance \in Disturbances THEN BOOLEAN ELSE {TRUE}

(* How often a command that succeeds, or fails, may have been executed.    *)
Executions == IF "redisError" \in Disturbances THEN 1 .. Attempts ELSE {1}
FailedExecutions == 0 .. Attempts

AddChannels(c, n) == channels' = [channels EXCEPT ![c] = @ + n]

(* The calls that carrier c's counter should count: those whose keys say   *)
(* it, those whose keys are about to be written, and those whose keys ran  *)
(* out first; no longer a call that a hangup has just deducted.            *)
Deducted(u) == \E r \in Requests : /\ req[r].pc \in {"clamp", "delMeta"}
                                   /\ req[r].call = u /\ req[r].carrier # None

Saving(u) == \E r \in Requests : req[r].pc = "save" /\ req[r].call = u

Counted(c) == {u \in Calls : /\ placed[u] # None /\ placed[u].carrier = c
                             /\ meta[u] # None \/ Saving(u) \/ u \in expired
                             /\ ~Deducted(u)}

CountedCall(u) == placed[u] # None /\ u \in Counted(placed[u].carrier)

(* The ghosts: carrier c has an excuse from now on if p.                   *)
Leaks(c, p) == leaked' = IF p THEN leaked \cup {c} ELSE leaked
Overdraws(c, p) == overdrawn' = IF p THEN overdrawn \cup {c} ELSE overdrawn

LegUp(r, u) ==
  /\ leg[u] = "unused"
  /\ leg' = [leg EXCEPT ![u] = "up"]
  /\ placed' = [placed EXCEPT ![u] = [agent |-> req[r].agent,
                                      carrier |-> req[r].carrier]]

(* uuid_kill; a leg that is already down is "no such channel", accepted.  *)
LegDown(u) == leg' = [leg EXCEPT ![u] = "down"]

-----------------------------------------------------------------------------
(* Originate, past its argument checks and the global CPS gate. *)
Originate(r, a) ==
  /\ At(r, "idle")
  /\ req' = [req EXCEPT ![r].pc = "pick", ![r].agent = a]
  /\ UNCHANGED <<redis, freeswitch, ghosts>>

(* Mutant: the loop over the carriers does not stop at the last one.       *)
SkipPastEnd(r) ==
  /\ At(r, "pick")
  /\ NextCarrier(r)
  /\ UNCHANGED <<redis, freeswitch, ghosts>>

(* The carrier is disabled, full, or over its CPS. *)
Skip(r) ==
  /\ At(r, "pick") /\ req[r].at <= Len(Order)
  /\ NextCarrier(r)
  /\ UNCHANGED <<redis, freeswitch, ghosts>>

(* Mutant: one channel too many.                                           *)
AdmitAtLimit(r) ==
  /\ At(r, "pick") /\ req[r].at <= Len(Order)
  /\ LET c == Order[req[r].at] IN
       /\ channels[c] <= MaxChannels[c]
       /\ req' = [req EXCEPT ![r].pc = "dial", ![r].carrier = c]
  /\ UNCHANGED <<redis, freeswitch, ghosts>>

(* The carrier's counter leaves room, and its CPS gate says yes. *)
Admit(r) ==
  /\ At(r, "pick") /\ req[r].at <= Len(Order)
  /\ LET c == Order[req[r].at] IN
       /\ MaxChannels[c] > 0
       /\ channels[c] < MaxChannels[c]
       /\ req' = [req EXCEPT ![r].pc = "dial", ![r].carrier = c]
  /\ UNCHANGED <<redis, freeswitch, ghosts>>

(* No carrier is left, or Redis failed to read a counter or a CPS window. *)
Refuse(r) ==
  /\ At(r, "pick")
  /\ req[r].at > Len(Order) \/ "redisError" \in Disturbances
  /\ Answer(r)
  /\ UNCHANGED <<redis, freeswitch, ghosts>>

DialOK(r) ==
  /\ At(r, "dial")
  /\ \E u \in Calls : /\ LegUp(r, u)
                      /\ req' = [req EXCEPT ![r].pc = "incr", ![r].call = u]
  /\ UNCHANGED <<redis, ghosts>>

DialFails(r) ==
  /\ At(r, "dial")
  /\ NextCarrier(r)
  /\ UNCHANGED <<redis, freeswitch, ghosts>>

(* The originate succeeds but the ESL connection breaks before the reply. *)
DialReplyLost(r) ==
  /\ At(r, "dial") /\ "eslError" \in Disturbances
  /\ \E u \in Calls : LegUp(r, u) /\ lost' = lost \cup {u}
  /\ NextCarrier(r)
  /\ UNCHANGED <<redis, errors>>

(* trackCall: INCR, then MULTI with both SETs; the call is abandoned when  *)
(* either fails, whether or not it took effect, and nothing is undone.     *)
Incr(r) ==
  /\ At(r, "incr")
  /\ \E n \in Executions : /\ AddChannels(req[r].carrier, n)
                           /\ Leaks(req[r].carrier, n > 1)
  /\ Goto(r, "save")
  /\ UNCHANGED <<meta, agentCall, presence, freeswitch, lost, expired, overdrawn>>

IncrFails(r) ==
  /\ At(r, "incr") /\ "redisError" \in Disturbances
  /\ \E n \in FailedExecutions : /\ AddChannels(req[r].carrier, n)
                                 /\ Leaks(req[r].carrier, n > 0)
  /\ Goto(r, "kill")
  /\ UNCHANGED <<meta, agentCall, presence, freeswitch, lost, expired, overdrawn>>

SaveKeys(r) ==
  /\ meta' = [meta EXCEPT ![req[r].call] = [agent |-> req[r].agent,
                                            carrier |-> req[r].carrier]]
  /\ agentCall' = [agentCall EXCEPT ![req[r].agent] = req[r].call]

Save(r) ==
  /\ At(r, "save")
  /\ SaveKeys(r)
  /\ Answer(r)
  /\ UNCHANGED <<channels, presence, freeswitch, ghosts>>

(* The keys are written but the reply is lost: go-redis writes them again. *)
SaveAgain(r) ==
  /\ At(r, "save") /\ "redisError" \in Disturbances
  /\ SaveKeys(r)
  /\ UNCHANGED <<channels, presence, freeswitch, req, ghosts>>

(* Mutant: the call is not killed when its keys could not be written.      *)
SaveFailsNoKill(r) ==
  /\ At(r, "save") /\ "redisError" \in Disturbances
  /\ SaveKeys(r) \/ UNCHANGED <<meta, agentCall>>
  /\ Answer(r)
  /\ Leaks(req[r].carrier, meta'[req[r].call] = None)
  /\ UNCHANGED <<channels, presence, freeswitch, lost, expired, overdrawn>>

SaveFails(r) ==
  /\ At(r, "save") /\ "redisError" \in Disturbances
  /\ SaveKeys(r) \/ UNCHANGED <<meta, agentCall>>
  /\ Goto(r, "kill")
  /\ Leaks(req[r].carrier, meta'[req[r].call] = None)
  /\ UNCHANGED <<channels, presence, freeswitch, lost, expired, overdrawn>>

Abandon(r) ==
  /\ At(r, "kill")
  /\ \E done \in Effect("eslError") :
       IF done THEN LegDown(req[r].call) /\ UNCHANGED lost
               ELSE UNCHANGED leg /\ lost' = lost \cup {req[r].call}
  /\ Answer(r)
  /\ UNCHANGED <<redis, placed, errors>>

-----------------------------------------------------------------------------
(* Hangup without a UUID: the agent's current call, whoever owns it, and   *)
(* its meta, whose absence or read error is ignored.                       *)
HangupCurrent(r, a) ==
  /\ At(r, "idle")
  /\ agentCall[a] # None
  /\ req' = [req EXCEPT ![r].pc = "load", ![r].agent = a,
                        ![r].call = agentCall[a]]
  /\ UNCHANGED <<redis, freeswitch, ghosts>>

LoadMeta(r) ==
  /\ At(r, "load")
  /\ \E done \in Effect("redisError") :
       LET m == meta[req[r].call] IN
       IF done /\ m # None
       THEN req' = [req EXCEPT ![r].pc = "uuidKill", ![r].carrier = m.carrier]
       ELSE Goto(r, "uuidKill")
  /\ UNCHANGED <<redis, freeswitch, ghosts>>

(* Mutant: anybody can hang up a call whose UUID they know.                *)
HangupAnyCall(r, a, u) ==
  /\ At(r, "idle")
  /\ meta[u] # None
  /\ req' = [req EXCEPT ![r].pc = "uuidKill", ![r].agent = a, ![r].call = u,
                        ![r].carrier = meta[u].carrier]
  /\ UNCHANGED <<redis, freeswitch, ghosts>>

(* Hangup with a UUID: only the call's own agent gets further. *)
HangupCall(r, a, u) ==
  /\ At(r, "idle")
  /\ meta[u] # None
  /\ meta[u].agent = a
  /\ req' = [req EXCEPT ![r].pc = "uuidKill", ![r].agent = a, ![r].call = u,
                        ![r].carrier = meta[u].carrier]
  /\ UNCHANGED <<redis, freeswitch, ghosts>>

UuidKill(r) ==
  /\ At(r, "uuidKill")
  /\ LegDown(req[r].call)
  /\ Goto(r, IF req[r].carrier = None THEN "delMeta" ELSE "decr")
  /\ UNCHANGED <<redis, placed, ghosts>>

(* Mutant: Hangup goes on when uuid_kill failed.                           *)
UuidKillIgnored(r) ==
  /\ At(r, "uuidKill") /\ "eslError" \in Disturbances
  /\ LegDown(req[r].call) \/ UNCHANGED leg
  /\ Goto(r, IF req[r].carrier = None THEN "delMeta" ELSE "decr")
  /\ UNCHANGED <<redis, placed, ghosts>>

UuidKillFails(r) ==
  /\ At(r, "uuidKill") /\ "eslError" \in Disturbances
  /\ LegDown(req[r].call) \/ UNCHANGED leg
  /\ Answer(r)
  /\ UNCHANGED <<redis, placed, ghosts>>

(* Mutant: the channel is not given back.                                  *)
DecrForgotten(r) ==
  /\ At(r, "decr")
  /\ Goto(r, "delMeta")
  /\ UNCHANGED <<redis, freeswitch, ghosts>>

(* Nobody checks whether another hangup of the call has counted it down    *)
(* already.                                                                *)
Decr(r) ==
  LET c == req[r].carrier  u == req[r].call IN
  /\ At(r, "decr")
  /\ \E n \in Executions : /\ AddChannels(c, -n)
                           /\ Goto(r, IF channels[c] - n < 0 THEN "clamp" ELSE "delMeta")
                           /\ Overdraws(c, n > 1 \/ ~CountedCall(u))
  /\ expired' = expired \ {u}
  /\ UNCHANGED <<meta, agentCall, presence, freeswitch, lost, leaked>>

DecrFails(r) ==
  /\ At(r, "decr") /\ "redisError" \in Disturbances
  /\ \E n \in FailedExecutions : /\ AddChannels(req[r].carrier, -n)
                                 /\ Overdraws(req[r].carrier, n > 0)
  /\ Answer(r)
  /\ UNCHANGED <<meta, agentCall, presence, freeswitch, lost, expired, leaked>>

Clamp(r) ==
  /\ At(r, "clamp")
  /\ \E done \in Effect("redisError") :
       IF done THEN channels' = [channels EXCEPT ![req[r].carrier] = 0]
               ELSE UNCHANGED channels
  /\ Goto(r, "delMeta")
  /\ UNCHANGED <<meta, agentCall, presence, freeswitch, ghosts>>

(* A call that was not deducted, its meta having been unreadable, is one   *)
(* that no hangup finds again; a deducted one whose keys stay, or are      *)
(* still to be written, can be hung up and deducted once more.             *)
DelMeta(r) ==
  LET u == req[r].call  c == req[r].carrier IN
  /\ At(r, "delMeta")
  /\ \E done \in Effect("redisError") :
       IF done THEN meta' = [meta EXCEPT ![u] = None] ELSE UNCHANGED meta
  /\ Goto(r, "getMine")
  /\ Leaks(placed[u].carrier, meta'[u] # meta[u] /\ CountedCall(u))
  /\ Overdraws(c, c # None /\ (meta'[u] # None \/ Saving(u)))
  /\ UNCHANGED <<channels, agentCall, presence, freeswitch, lost, expired>>

(* The agent's current call is cleared only if the GET returned this call. *)
GetMine(r) ==
  /\ At(r, "getMine")
  /\ \E done \in Effect("redisError") :
       Goto(r, IF done /\ agentCall[req[r].agent] = req[r].call
               THEN "delMine" ELSE "release")
  /\ UNCHANGED <<redis, freeswitch, ghosts>>

DelMine(r) ==
  /\ At(r, "delMine")
  /\ \E done \in Effect("redisError") :
       IF done THEN agentCall' = [agentCall EXCEPT ![req[r].agent] = None]
               ELSE UNCHANGED agentCall
  /\ Goto(r, "release")
  /\ UNCHANGED <<channels, meta, presence, freeswitch, ghosts>>

(* ReleaseOnCall as AgentStates promises it: on_call becomes available, or *)
(* nothing happens.                                                        *)
Release(r) ==
  /\ At(r, "release")
  /\ \/ presence[req[r].agent] = "on_call"
        /\ presence' = [presence EXCEPT ![req[r].agent] = "available"]
     \/ UNCHANGED presence
  /\ Answer(r)
  /\ UNCHANGED <<channels, meta, agentCall, freeswitch, ghosts>>

-----------------------------------------------------------------------------
(* The called party, the network or the agent's browser ends the call:     *)
(* no code of the edge listens for it.                                     *)
FarHangup(u) ==
  /\ "farHangup" \in Disturbances
  /\ leg[u] = "up"
  /\ LegDown(u)
  /\ UNCHANGED <<redis, placed, req, ghosts>>

(* The 24 h of a call's keys are over (manual.go:324-325), whatever has     *)
(* become of the call; the counter has no TTL.                             *)
ExpireKeys(u) ==
  /\ meta[u] # None \/ \E a \in Agents : agentCall[a] = u
  /\ meta' = [meta EXCEPT ![u] = None]
  /\ agentCall' = [a \in Agents |-> IF agentCall[a] = u THEN None ELSE agentCall[a]]
  /\ expired' = IF CountedCall(u) THEN expired \cup {u} ELSE expired
  /\ UNCHANGED <<channels, presence, freeswitch, req, lost, leaked, overdrawn>>

(* The inbound router claims an agent; see Inbound.tla. *)
InboundClaim(a) ==
  /\ presence[a] = "available"
  /\ presence' = [presence EXCEPT ![a] = "on_call"]
  /\ UNCHANGED <<channels, meta, agentCall, freeswitch, req, ghosts>>

OriginateStep(r) ==
  \/ Skip(r) \/ Admit(r) \/ Refuse(r)
  \/ DialOK(r) \/ DialFails(r) \/ DialReplyLost(r)
  \/ Incr(r) \/ IncrFails(r) \/ Save(r) \/ SaveAgain(r) \/ SaveFails(r)
  \/ Abandon(r)

HangupStep(r) ==
  \/ LoadMeta(r) \/ UuidKill(r) \/ UuidKillFails(r)
  \/ Decr(r) \/ DecrFails(r) \/ Clamp(r)
  \/ DelMeta(r) \/ GetMine(r) \/ DelMine(r) \/ Release(r)

Arrive(r) == \E a \in Agents : \/ Originate(r, a)
                               \/ HangupCurrent(r, a)
                               \/ \E u \in Calls : HangupCall(r, a, u)

Next == \/ \E r \in Requests : Arrive(r) \/ OriginateStep(r) \/ HangupStep(r)
        \/ \E u \in Calls : FarHangup(u) \/ ExpireKeys(u)
        \/ \E a \in Agents : InboundClaim(a)

Spec == Init /\ [][Next]_vars

-----------------------------------------------------------------------------
(* The concurrent-channel limit is enforced by a GET and, after the whole  *)
(* originate, an INCR (manual.go:161-192), so requests that pass the GET   *)
(* together overshoot it.  The legs that are up through a carrier exceed   *)
(* its limit by at most the other requests in progress, and there is none  *)
(* through a carrier without channels -- but for the legs that an ESL      *)
(* failure has lost, and until the carrier's counter is counted down by    *)
(* mistake: by the second DECR of two hangups of one call that overlap, or *)
(* by a Redis error.                                                       *)
Ceiling(c) == IF MaxChannels[c] > 0
              THEN MaxChannels[c] + Cardinality(Requests) - 1 ELSE 0

Live(c) == {u \in Calls : leg[u] = "up" /\ placed[u].carrier = c}

LegsWithinLimit ==
  \A c \in Carriers \ overdrawn : Cardinality(Live(c) \ lost) <= Ceiling(c)

(* Hangup only ever touches a call of the agent who asked (manual.go:217,  *)
(* "Ownership"), although without a UUID it checks no owner and relies on  *)
(* the call:agent key.                                                     *)
HangsUpOwnCall ==
  \A r \in Requests : req[r].pc \in HangupPCs =>
    /\ placed[req[r].call] # None
    /\ placed[req[r].call].agent = req[r].agent

(* A leg that is up is one its agent can hang up by UUID, or a request     *)
(* still has it in hand, unless an ESL failure during Originate lost it    *)
(* (manual.go:182-195, 245-255) or it has outlived its keys: no            *)
(* interleaving of hangups and Redis errors leaves a live call behind.     *)
UpLegTracked ==
  \A u \in Calls : leg[u] = "up" =>
    \/ meta[u] # None
    \/ u \in lost \cup expired
    \/ \E r \in Requests : req[r].call = u /\ req[r].pc \in {"incr", "save", "kill"}

(* A carrier's counter is the number of its calls that are still to be     *)
(* deducted, those that no hangup can deduct any more because their keys   *)
(* ran out among them -- however hangups, expiries and the clamp to zero   *)
(* fall.  It is higher only after a Redis error in trackCall or in the     *)
(* loadMeta whose error Hangup ignores (manual.go:230, 303-327), and lower *)
(* only after a call was counted down twice: by overlapping hangups, by a  *)
(* DECR sent again, or because its keys outlived the DECR                  *)
(* (manual.go:330-348).                                                    *)
CountExact ==
  \A c \in Carriers :
    /\ c \notin leaked => channels[c] <= Cardinality(Counted(c))
    /\ c \notin overdrawn => channels[c] >= Cardinality(Counted(c))

(* ReleaseOnCall frees an agent only when the call the hangup was about is *)
(* down (manual.go:245-258).                                               *)
FreedAfterKill ==
  [][\A r \in Requests :
       (req[r].pc = "release" /\ presence' # presence) => leg[req[r].call] = "down"]_vars
=============================================================================
