------------------------------- MODULE Inbound -------------------------------
(***************************************************************************)
(* Inbound calls (services/edge/internal/inbound/router.go): FreeSWITCH    *)
(* reports a parked call twice (CHANNEL_CREATE, then CUSTOM from the       *)
(* dialplan) on an event connection; one goroutine of the edge reads the   *)
(* events in order, picks and claims an available agent in Redis and       *)
(* transfers the call, or rejects it as busy.  Commands go to FreeSWITCH   *)
(* on a second connection.                                                 *)
(*                                                                         *)
(* Claims, releases and the agents' own requests act on presence as        *)
(* AgentStates promises; the listener is the only one that claims.         *)
(***************************************************************************)
EXTENDS Naturals, Sequences, FiniteSets

CONSTANTS Agents,
          Channels,     \* inbound calls, each used once
          Disturbances, \* what may happen around the listener
          None

AllDisturbances == {"storeError", "eslError", "disconnect", "restart",
                    "agentRequests"}

ASSUME NoneAssumption == None \notin Agents \cup Channels
ASSUME ChannelsAssumption == IsFiniteSet(Channels)

VARIABLES presence,   \* presence[a]: agent:{a}
          chan,       \* chan[ch]: the call in FreeSWITCH
          bridge,     \* bridge[ch]: the agent FreeSWITCH bridged it to last
          wire,       \* events sent by FreeSWITCH and not read yet
          connected,  \* the event connection is up
          seen,       \* Router.seen
          job,        \* the event in hand: where, which call, which agents
          claimedFor, \* the call for which an agent was claimed last
          stranded,   \* agents a failed claim or release left on_call
          overridden, \* agents freed since their claim by something else
          acked       \* calls decided, with FreeSWITCH's word for it

vars == <<presence, chan, bridge, wire, connected, seen, job,
          claimedFor, stranded, overridden, acked>>

States == {"missing", "available", "paused", "on_call"}
Idle == [pc |-> "idle", ch |-> None, todo |-> {}, agent |-> None]

TypeOK ==
  /\ presence \in [Agents -> States]
  /\ chan \in [Channels -> {"new", "created", "parked", "bridged", "gone"}]
  /\ bridge \in [Channels -> Agents \cup {None}]
  /\ wire \in Seq(Channels) /\ Len(wire) <= 2 * Cardinality(Channels)
  /\ connected \in BOOLEAN
  /\ seen \subseteq Channels
  /\ job \in [pc : {"idle", "route", "scan", "claim", "transfer", "release", "kill"},
              ch : Channels \cup {None}, todo : SUBSET Agents,
              agent : Agents \cup {None}]
  /\ claimedFor \in [Agents -> Channels \cup {None}]
  /\ stranded \subseteq Agents
  /\ overridden \subseteq Agents
  /\ acked \subseteq Channels

Init == /\ presence \in [Agents -> {"missing", "available", "paused"}]
        /\ chan = [ch \in Channels |-> "new"]
        /\ bridge = [ch \in Channels |-> None]
        /\ wire = <<>>
        /\ connected = TRUE
        /\ seen = {}
        /\ job = Idle
        /\ claimedFor = [a \in Agents |-> None]
        /\ stranded = {}
        /\ overridden = {}
        /\ acked = {}

-----------------------------------------------------------------------------
fs == <<chan, bridge>>
ghosts == <<claimedFor, stranded, overridden, acked>>

Live(ch) == chan[ch] \in {"created", "parked", "bridged"}

Send(ch) == wire' = IF connected THEN Append(wire, ch) ELSE wire

(* Mutant: ParseEvent also accepts the CHANNEL_CREATE of the other leg.    *)
ChannelCreateTwice(ch) ==
  /\ chan[ch] = "new"
  /\ chan' = [chan EXCEPT ![ch] = "created"]
  /\ wire' = IF connected THEN wire \o <<ch, ch>> ELSE wire
  /\ UNCHANGED <<presence, bridge, connected, seen, job, ghosts>>

(* A call comes in; the event is lost when the listener is not connected. *)
ChannelCreate(ch) ==
  /\ chan[ch] = "new"
  /\ chan' = [chan EXCEPT ![ch] = "created"]
  /\ Send(ch)
  /\ UNCHANGED <<presence, bridge, connected, seen, job, ghosts>>

(* The dialplan sends callvoice::inbound and parks the call. *)
Park(ch) ==
  /\ chan[ch] = "created"
  /\ chan' = [chan EXCEPT ![ch] = "parked"]
  /\ Send(ch)
  /\ UNCHANGED <<presence, bridge, connected, seen, job, ghosts>>

(* Caller or agent hangs up.  FreeSWITCH is not asked to report it. *)
CallEnds(ch) ==
  /\ Live(ch)
  /\ chan' = [chan EXCEPT ![ch] = "gone"]
  /\ UNCHANGED <<presence, bridge, wire, connected, seen, job, ghosts>>

-----------------------------------------------------------------------------
(* HandleEvent returns an error: the call may be handled again.  *)
Forget == seen' = seen \ {job.ch} /\ job' = Idle

(* Mutant: the second event of a call is handled like the first.           *)
ReadEventTwice ==
  /\ connected /\ wire # <<>> /\ job.pc = "idle"
  /\ wire' = Tail(wire)
  /\ seen' = seen \cup {Head(wire)}
  /\ job' = [Idle EXCEPT !.pc = "route", !.ch = Head(wire)]
  /\ UNCHANGED <<presence, fs, connected, ghosts>>

(* listenLoop reads an event; HandleEvent ignores a call it has seen. *)
ReadEvent ==
  /\ connected /\ wire # <<>> /\ job.pc = "idle"
  /\ wire' = Tail(wire)
  /\ seen' = seen \cup {Head(wire)}
  /\ job' = IF Head(wire) \in seen THEN job
            ELSE [Idle EXCEPT !.pc = "route", !.ch = Head(wire)]
  /\ UNCHANGED <<presence, fs, connected, ghosts>>

(* The DID is unknown or leads to no agent pool, or the agents are         *)
(* scanned, or the lookup fails.                                           *)
Route ==
  /\ job.pc = "route"
  /\ \/ /\ \/ job' = [job EXCEPT !.pc = "kill"]
           \/ job' = [job EXCEPT !.pc = "scan", !.todo = Agents]
        /\ UNCHANGED seen
     \/ "storeError" \in Disturbances /\ Forget
  /\ UNCHANGED <<presence, fs, wire, connected, ghosts>>

(* FirstAvailableAgent: SCAN returns the keys in any order, each is read.  *)
LookAt(a) ==
  /\ job.pc = "scan" /\ a \in job.todo
  /\ \/ /\ job' = IF presence[a] = "available"
                  THEN [job EXCEPT !.pc = "claim", !.agent = a]
                  ELSE [job EXCEPT !.todo = @ \ {a}]
        /\ UNCHANGED seen
     \/ "storeError" \in Disturbances /\ Forget
  /\ UNCHANGED <<presence, fs, wire, connected, ghosts>>

NoAgent ==
  /\ job.pc = "scan" /\ job.todo = {}
  /\ job' = [job EXCEPT !.pc = "kill"]
  /\ UNCHANGED <<presence, fs, wire, connected, seen, ghosts>>

(* Mutant: the agent is picked, but not moved to on_call.                  *)
PickOnly ==
  /\ job.pc = "claim" /\ presence[job.agent] = "available"
  /\ job' = [job EXCEPT !.pc = "transfer"]
  /\ claimedFor' = [claimedFor EXCEPT ![job.agent] = job.ch]
  /\ UNCHANGED <<presence, fs, wire, connected, seen, stranded, overridden, acked>>

ClaimWon ==
  /\ job.pc = "claim" /\ presence[job.agent] = "available"
  /\ presence' = [presence EXCEPT ![job.agent] = "on_call"]
  /\ job' = [job EXCEPT !.pc = "transfer"]
  /\ claimedFor' = [claimedFor EXCEPT ![job.agent] = job.ch]
  /\ stranded' = stranded \ {job.agent}
  /\ UNCHANGED <<fs, wire, connected, seen, overridden, acked>>

(* Mutant: a missed claim tries the same agent again.                      *)
ClaimRetried ==
  /\ job.pc = "claim"
  /\ job' = [job EXCEPT !.pc = "scan", !.agent = None]
  /\ UNCHANGED <<presence, fs, wire, connected, seen, ghosts>>

(* The agent is not available any more, or another write of the key made   *)
(* the transaction fail.                                                   *)
ClaimMissed ==
  /\ job.pc = "claim"
  /\ job' = [job EXCEPT !.pc = "scan", !.todo = @ \ {job.agent}, !.agent = None]
  /\ UNCHANGED <<presence, fs, wire, connected, seen, ghosts>>

(* Redis fails, and the claim may have been made. *)
ClaimFails ==
  /\ job.pc = "claim" /\ "storeError" \in Disturbances
  /\ \/ /\ presence[job.agent] = "available"
        /\ presence' = [presence EXCEPT ![job.agent] = "on_call"]
        /\ stranded' = stranded \cup {job.agent}
     \/ UNCHANGED <<presence, stranded>>
  /\ Forget
  /\ UNCHANGED <<fs, wire, connected, claimedFor, overridden, acked>>

Bridged(ch, a) == /\ chan' = [chan EXCEPT ![ch] = "bridged"]
                  /\ bridge' = [bridge EXCEPT ![ch] = a]

Transfer ==
  /\ job.pc = "transfer" /\ Live(job.ch)
  /\ Bridged(job.ch, job.agent)
  /\ acked' = acked \cup {job.ch}
  /\ job' = Idle
  /\ UNCHANGED <<presence, wire, connected, seen, claimedFor, stranded, overridden>>

(* Mutant: the claimed agent is not released when the transfer fails.      *)
TransferRefusedNoRelease ==
  /\ job.pc = "transfer"
  /\ ~Live(job.ch) \/ "eslError" \in Disturbances
  /\ Forget
  /\ UNCHANGED <<presence, fs, wire, connected, ghosts>>

(* The call is gone, or FreeSWITCH refuses or cannot be reached.           *)
TransferRefused ==
  /\ job.pc = "transfer"
  /\ ~Live(job.ch) \/ "eslError" \in Disturbances
  /\ job' = [job EXCEPT !.pc = "release"]
  /\ UNCHANGED <<presence, fs, wire, connected, seen, ghosts>>

(* The transfer is made and its reply lost: the agent is going to be       *)
(* released although the call rings.                                       *)
TransferReplyLost ==
  /\ job.pc = "transfer" /\ Live(job.ch) /\ "eslError" \in Disturbances
  /\ Bridged(job.ch, job.agent)
  /\ overridden' = overridden \cup {job.agent}
  /\ job' = [job EXCEPT !.pc = "release"]
  /\ UNCHANGED <<presence, wire, connected, seen, claimedFor, stranded, acked>>

(* releaseClaimed, its error ignored, and HandleEvent's error.             *)
Release ==
  /\ job.pc = "release"
  /\ \/ /\ presence[job.agent] = "on_call"
        /\ presence' = [presence EXCEPT ![job.agent] = "available"]
        /\ UNCHANGED stranded
     \/ /\ presence[job.agent] # "on_call"
        /\ UNCHANGED <<presence, stranded>>
     \/ /\ "storeError" \in Disturbances
        /\ stranded' = stranded \cup {job.agent}
        /\ UNCHANGED presence
  /\ Forget
  /\ UNCHANGED <<fs, wire, connected, claimedFor, overridden, acked>>

(* Busy: "no such channel" counts as done. *)
Kill ==
  /\ job.pc = "kill"
  /\ chan' = [chan EXCEPT ![job.ch] = "gone"]
  /\ acked' = acked \cup {job.ch}
  /\ job' = Idle
  /\ UNCHANGED <<presence, bridge, wire, connected, seen, claimedFor, stranded,
                 overridden>>

KillFails ==
  /\ job.pc = "kill" /\ "eslError" \in Disturbances
  /\ chan' = [chan EXCEPT ![job.ch] = "gone"] \/ UNCHANGED chan
  /\ Forget
  /\ UNCHANGED <<presence, bridge, wire, connected, ghosts>>

-----------------------------------------------------------------------------
(* The event connection breaks; what FreeSWITCH had sent is lost.  The     *)
(* event in hand is finished before RunListener notices.                   *)
Disconnect ==
  /\ connected /\ "disconnect" \in Disturbances
  /\ connected' = FALSE
  /\ wire' = <<>>
  /\ UNCHANGED <<presence, fs, seen, job, ghosts>>

Reconnect ==
  /\ ~connected /\ job.pc = "idle"
  /\ connected' = TRUE
  /\ UNCHANGED <<presence, fs, wire, seen, job, ghosts>>

(* The edge is restarted: Redis keeps a claim in progress, nothing else is *)
(* remembered.                                                             *)
Restart ==
  /\ "restart" \in Disturbances
  /\ connected' = FALSE /\ wire' = <<>> /\ seen' = {} /\ job' = Idle
  /\ acked' = {}
  /\ stranded' = IF job.pc \in {"transfer", "release"}
                 THEN stranded \cup {job.agent} ELSE stranded
  /\ UNCHANGED <<presence, fs, claimedFor, overridden>>

(* Start, Stop or SetState of the agent, or the end of the key's TTL.      *)
AgentRequest(a) ==
  /\ "agentRequests" \in Disturbances
  /\ \E s \in {"missing", "available", "paused"} :
       presence' = [presence EXCEPT ![a] = s]
  /\ stranded' = stranded \ {a}
  /\ overridden' = IF presence[a] = "on_call" THEN overridden \cup {a}
                                              ELSE overridden
  /\ UNCHANGED <<fs, wire, connected, seen, job, claimedFor, acked>>

-----------------------------------------------------------------------------
Handler == \/ ReadEvent \/ Route \/ (\E a \in Agents : LookAt(a)) \/ NoAgent
           \/ ClaimWon \/ ClaimMissed \/ ClaimFails
           \/ Transfer \/ TransferRefused \/ TransferReplyLost \/ Release \/ Kill \/ KillFails
           \/ Reconnect

Calls == \E ch \in Channels : ChannelCreate(ch) \/ Park(ch) \/ CallEnds(ch)

Next == \/ Handler \/ Calls \/ Disconnect \/ Restart
        \/ \E a \in Agents : AgentRequest(a)

Spec == Init /\ [][Next]_vars

(* The listener goroutine goes on while it has something to do, and        *)
(* FreeSWITCH runs the dialplan of a call that came in.                    *)
FairSpec == /\ Spec
            /\ WF_vars(Handler)
            /\ \A ch \in Channels : WF_vars(Park(ch))

-----------------------------------------------------------------------------
(* An agent is on_call only for a call it was claimed for and that was     *)
(* bridged to it, or that the listener still has in hand: whatever fails   *)
(* after the claim, it is given back (router.go:222-263) -- unless Redis   *)
(* failed during the claim or the release, or the edge was restarted.      *)
ClaimsAccountedFor ==
  \A a \in Agents : presence[a] = "on_call" =>
    \/ a \in stranded
    \/ claimedFor[a] # None /\ bridge[claimedFor[a]] = a
    \/ job.pc \in {"transfer", "release"} /\ job.agent = a /\ job.ch = claimedFor[a]

(* Two calls ring one agent only if the agent's presence was overwritten   *)
(* during the first, by its own request, the TTL, or the release that      *)
(* follows a lost transfer reply: the claim alone excludes it              *)
(* (router_test.go:81).                                                    *)
CallsOf(a) == {ch \in Channels : chan[ch] = "bridged" /\ bridge[ch] = a}

OneCallPerClaim ==
  \A a \in Agents : Cardinality(CallsOf(a)) > 1 => a \in overridden

(* Once FreeSWITCH has acknowledged what was done with a call, the other   *)
(* event of the same call changes nothing: the listener sends no further   *)
(* command about it (router.go:201-209), while it runs.                    *)
DecidedOnce == job.pc \in {"transfer", "kill"} => job.ch \notin acked

(* Every parked call is bridged or ends: no call waits for ever, however   *)
(* the agents' requests make claims miss (router.go:120-161, 422-446).     *)
ParkedCallDecided ==
  \A ch \in Channels : chan[ch] = "parked" ~> chan[ch] \in {"bridged", "gone"}

(* "Hangup cleanup calls ReleaseOnCall -> available"                       *)
(* (docs/superpowers/plans/notes/jalon-b-acceptance.md:64): when the call  *)
(* an agent was claimed for ends, the agent does not stay on_call.         *)
ReleasedAfterCall ==
  \A ch \in Channels, a \in Agents :
    (chan[ch] = "gone" /\ bridge[ch] = a /\ claimedFor[a] = ch)
      ~> presence[a] # "on_call"
=============================================================================
