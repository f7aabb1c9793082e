---------------------------- MODULE InboundProofs ----------------------------
(***************************************************************************)
(* Inbound for any agents, any finite set of calls and any disturbances:   *)
(* no claim is lost, no agent is rung twice and no call is decided twice.  *)
(***************************************************************************)
EXTENDS Inbound, FiniteSetTheorems, SequenceTheorems, TLAPS

Holding == {"transfer", "release"}
Claiming == Holding \cup {"claim"}
InHand(a) == job.pc \in Holding /\ job.agent = a

(* The calls that have sent their first event, and those past both.        *)
Reported == {ch \in Channels : chan[ch] # "new"}
Announced == {ch \in Channels : chan[ch] \notin {"new", "created"}}

WireBound == Len(wire) <= Cardinality(Reported) + Cardinality(Announced)

(* The job in hand is about a call the router remembers and has not        *)
(* decided, and from the claim on about an agent (router.go:201-219).      *)
JobInHand ==
  /\ acked \subseteq seen
  /\ job.pc # "idle" => job.ch \in seen \ acked
  /\ job.pc \in Claiming => job.agent \in Agents

(* The agent in hand was claimed for the call in hand, and is on_call      *)
(* unless something else wrote its presence since.                         *)
HeldForCall ==
  job.pc \in Holding =>
    /\ claimedFor[job.agent] = job.ch
    /\ job.agent \notin overridden => presence[job.agent] = "on_call"

(* A call that has a bridge sends no more events.                          *)
BridgedOrOver ==
  \A ch \in Channels : bridge[ch] # None => chan[ch] \in {"bridged", "gone"}

(* Nothing will be done about the call any more: it is decided and the     *)
(* router remembers it, or it has no event left.                           *)
Queued(ch) == \E i \in 1 .. Len(wire) : wire[i] = ch
Closed(ch) == \/ ch \in acked
              \/ ~Queued(ch) /\ (job.pc = "idle" \/ job.ch # ch)

(* ClaimsAccountedFor, with what keeps the call with its agent: no other   *)
(* decision about it can follow.                                           *)
ClaimsKept ==
  \A a \in Agents :
    presence[a] = "on_call" /\ a \notin stranded /\ ~InHand(a) =>
      LET ch == claimedFor[a] IN
        ch \in Channels /\ bridge[ch] = a /\ Closed(ch)

(* A call rings the agent that was claimed for it, after the claim and     *)
(* before any other.                                                       *)
RungOnClaim ==
  \A a \in Agents \ overridden, ch \in Channels :
    chan[ch] = "bridged" /\ bridge[ch] = a =>
      presence[a] = "on_call" /\ claimedFor[a] = ch /\ ~InHand(a)

IInv == /\ TypeOK
        /\ WireBound
        /\ JobInHand
        /\ HeldForCall
        /\ BridgedOrOver
        /\ ClaimsKept
        /\ RungOnClaim

Links == JobInHand /\ HeldForCall /\ BridgedOrOver /\ ClaimsKept /\ RungOnClaim

-----------------------------------------------------------------------------
(* Counting calls: the sets only grow as calls go on.                      *)
LEMMA CountsAreNat ==
  /\ IsFiniteSet(Reported) /\ Cardinality(Reported) \in Nat
  /\ IsFiniteSet(Announced) /\ Cardinality(Announced) \in Nat
  /\ Cardinality(Reported) <= Cardinality(Channels)
  /\ Cardinality(Announced) <= Cardinality(Channels)
  /\ Cardinality(Channels) \in Nat
<1>1. Reported \subseteq Channels /\ Announced \subseteq Channels
  BY DEF Reported, Announced
<1>2. QED
  BY <1>1, ChannelsAssumption, FS_Subset, FS_CardinalityType

(* A step takes no call back to where it still has events to send.         *)
Onward == \A ch \in Channels :
  /\ chan[ch] # "new" => chan'[ch] # "new"
  /\ chan[ch] \notin {"new", "created"} => chan'[ch] \notin {"new", "created"}

(* So the counts grow, too.                                                *)
LEMMA CountsGrow ==
  ASSUME Onward
  PROVE  /\ Cardinality(Reported) <= Cardinality(Reported')
         /\ Cardinality(Announced) <= Cardinality(Announced')
         /\ Cardinality(Reported') \in Nat /\ Cardinality(Announced') \in Nat
<1>1. Reported \subseteq Reported' /\ Announced \subseteq Announced'
  BY DEF Onward, Reported, Announced
<1>2. Reported' \subseteq Channels /\ Announced' \subseteq Channels
  BY DEF Reported, Announced
<1>3. IsFiniteSet(Reported') /\ IsFiniteSet(Announced')
  BY <1>2, ChannelsAssumption, FS_Subset
<1>4. QED
  BY <1>1, <1>3, FS_Subset, FS_CardinalityType

(* A queue that is read or lost is shorter, and holds nothing new.         *)
LEMMA Shorter ==
  ASSUME NEW s \in Seq(Channels), NEW t,
         t = s \/ t = <<>> \/ (s # <<>> /\ t = Tail(s))
  PROVE  /\ t \in Seq(Channels) /\ Len(t) \in Nat /\ Len(s) \in Nat /\ Len(t) <= Len(s)
         /\ \A i \in 1 .. Len(t) : \E j \in 1 .. Len(s) : s[j] = t[i]
<1>1. Len(s) \in Nat
  OBVIOUS
<1>2. CASE t = s
  <2>1. \A i \in 1 .. Len(s) : \E j \in 1 .. Len(s) : s[j] = s[i]
    OBVIOUS
  <2>2. s \in Seq(Channels) /\ Len(s) <= Len(s)
    OBVIOUS
  <2>3. QED
    BY <1>1, <1>2, <2>2, Zenon
<1>3. CASE t = <<>>
  <2>1. t \in Seq(Channels) /\ Len(t) = 0
    BY <1>3
  <2>2. 1 .. Len(t) = {}
    BY <2>1
  <2>3. 0 \in Nat /\ 0 <= Len(s)
    OBVIOUS
  <2>4. QED
    BY <1>1, <2>1, <2>2, <2>3, Zenon
<1>4. CASE s # <<>> /\ t = Tail(s)
  <2> DEFINE n == Len(s)
  <2>1. /\ t \in Seq(Channels) /\ Len(t) = n - 1
        /\ \A i \in 1 .. Len(t) : t[i] = s[i + 1]
    BY <1>4
  <2>2. n \in Nat /\ n >= 1
    BY <1>4
  <2> HIDE DEF n
  <2>3. \A i \in 1 .. Len(t) : i + 1 \in 1 .. n
    BY <2>1, <2>2
  <2>4. \A i \in 1 .. Len(t) : \E j \in 1 .. n : s[j] = t[i]
    BY <2>1, <2>3
  <2>5. Len(t) \in Nat /\ Len(t) <= n
    BY <2>1, <2>2
  <2>6. QED
    BY <2>1 DEF n
<1>5. QED
  BY <1>3

(* The wire has room for a step that sends nothing.                        *)
LEMMA QuietWire ==
  ASSUME WireBound, TypeOK,
         wire' = wire \/ wire' = <<>> \/ (wire # <<>> /\ wire' = Tail(wire)),
         Onward
  PROVE  /\ WireBound'
         /\ wire' \in Seq(Channels) /\ Len(wire') <= 2 * Cardinality(Channels)
         /\ \A ch : Queued(ch)' => Queued(ch)
<1>1. wire \in Seq(Channels)
  BY DEF TypeOK
<1>2. /\ wire' \in Seq(Channels) /\ Len(wire') \in Nat /\ Len(wire) \in Nat
      /\ Len(wire') <= Len(wire)
      /\ \A i \in 1 .. Len(wire') : \E j \in 1 .. Len(wire) : wire[j] = wire'[i]
  BY <1>1, Shorter
<1>3. WireBound'
  BY <1>2, CountsAreNat, CountsGrow DEF WireBound
<1>4. Len(wire') <= 2 * Cardinality(Channels)
  BY <1>2, CountsAreNat DEF WireBound
<1>5. QED
  BY <1>2, <1>3, <1>4 DEF Queued

(* A step of FreeSWITCH that sends an event of a call without a bridge.    *)
LEMMA SendStep ==
  ASSUME IInv, NEW ch \in Channels, Send(ch), ChannelCreate(ch) \/ Park(ch)
  PROVE  IInv'
<1>1. /\ wire \in Seq(Channels) /\ Len(wire) \in Nat
      /\ Append(wire, ch) \in Seq(Channels) /\ Len(Append(wire, ch)) = Len(wire) + 1
      /\ \A i \in 1 .. Len(wire) : Append(wire, ch)[i] = wire[i]
      /\ Append(wire, ch)[Len(wire) + 1] = ch
  BY DEF IInv, TypeOK
<1>2. /\ wire' \in Seq(Channels) /\ Len(wire') \in Nat /\ Len(wire') <= Len(wire) + 1
      /\ \A c : Queued(c)' => Queued(c) \/ c = ch
  BY <1>1 DEF Send, Queued
<1>3. /\ Cardinality(Reported) + Cardinality(Announced) + 1
           <= Cardinality(Reported') + Cardinality(Announced')
      /\ Cardinality(Reported') + Cardinality(Announced') \in Nat
      /\ Cardinality(Reported') + Cardinality(Announced') <= 2 * Cardinality(Channels)
  <2>0. /\ Reported' \subseteq Channels /\ Announced' \subseteq Channels
    BY DEF Reported, Announced
  <2>1. /\ IsFiniteSet(Reported') /\ IsFiniteSet(Announced')
        /\ Cardinality(Reported') \in Nat /\ Cardinality(Announced') \in Nat
        /\ Cardinality(Reported') <= Cardinality(Channels)
        /\ Cardinality(Announced') <= Cardinality(Channels)
    BY <2>0, ChannelsAssumption, FS_Subset, FS_CardinalityType
  <2>2. CASE ChannelCreate(ch)
    <3>1. Reported' = Reported \cup {ch} /\ ch \notin Reported /\ Announced' = Announced
      BY <2>2 DEF ChannelCreate, Reported, Announced, IInv, TypeOK
    <3>2. QED
      BY <2>1, <3>1, CountsAreNat, FS_AddElement
  <2>3. CASE Park(ch)
    <3>1. Announced' = Announced \cup {ch} /\ ch \notin Announced /\ Reported' = Reported
      BY <2>3 DEF Park, Reported, Announced, IInv, TypeOK
    <3>2. QED
      BY <2>1, <3>1, CountsAreNat, FS_AddElement
  <2>4. QED
    BY <2>2, <2>3
<1>4. WireBound'
  BY <1>2, <1>3, CountsAreNat DEF WireBound, IInv
<1>5. Len(wire') <= 2 * Cardinality(Channels)
  BY <1>3, <1>4, CountsAreNat DEF WireBound
<1>6. TypeOK'
  BY <1>2, <1>5 DEF ChannelCreate, Park, IInv, TypeOK, ghosts
<1>7. bridge[ch] = None
  BY DEF ChannelCreate, Park, IInv, BridgedOrOver
<1>8. Links'
  <2>1. JobInHand' /\ HeldForCall'
    BY DEF ChannelCreate, Park, IInv, JobInHand, HeldForCall, ghosts
  <2>2. BridgedOrOver'
    BY DEF ChannelCreate, Park, IInv, TypeOK, BridgedOrOver
  <2>3. ClaimsKept'
    BY <1>2, <1>7, NoneAssumption
    DEF ChannelCreate, Park, IInv, ClaimsKept, Closed, InHand, ghosts
  <2>4. RungOnClaim'
    BY DEF ChannelCreate, Park, IInv, TypeOK, RungOnClaim, InHand, ghosts
  <2>5. QED
    BY <2>1, <2>2, <2>3, <2>4 DEF Links
<1>9. QED
  BY <1>4, <1>6, <1>8 DEF IInv, Links

(* A call ends, and the router does not hear of it.                        *)
LEMMA CallEndsStep ==
  ASSUME IInv, NEW ch \in Channels, CallEnds(ch)
  PROVE  IInv'
<1>1. Onward
  BY DEF CallEnds, Onward
<1>2. /\ WireBound'
      /\ wire' \in Seq(Channels) /\ Len(wire') <= 2 * Cardinality(Channels)
      /\ \A c : Queued(c)' => Queued(c)
  BY <1>1, QuietWire DEF CallEnds, IInv
<1>3. TypeOK'
  BY DEF CallEnds, IInv, ghosts, TypeOK, Holding
<1>4. JobInHand'
  BY DEF CallEnds, IInv, ghosts, JobInHand
<1>5. HeldForCall'
  BY DEF CallEnds, IInv, ghosts, HeldForCall
<1>6. BridgedOrOver'
  BY DEF CallEnds, IInv, BridgedOrOver
<1>7. ClaimsKept'
  BY <1>2 DEF CallEnds, IInv, ghosts, ClaimsKept, Closed, InHand
<1>8. RungOnClaim'
  BY DEF CallEnds, IInv, ghosts, RungOnClaim, InHand
<1>9. QED
  BY <1>2, <1>3, <1>4, <1>5, <1>6, <1>7, <1>8 DEF IInv

(* An event of a call the router remembers changes nothing but the wire;   *)
(* the event of another finds no agent that has this call.                 *)
LEMMA ReadEventStep ==
  ASSUME IInv, ReadEvent
  PROVE  IInv'
<1>1. Onward
  BY DEF ReadEvent, fs, Onward
<1>2. /\ WireBound'
      /\ wire' \in Seq(Channels) /\ Len(wire') <= 2 * Cardinality(Channels)
      /\ \A c : Queued(c)' => Queued(c)
  BY <1>1, QuietWire DEF ReadEvent, IInv
<1> DEFINE c0 == Head(wire)
<1>3. c0 \in Channels /\ Queued(c0)
  <2>1. wire \in Seq(Channels) /\ wire # <<>>
    BY DEF ReadEvent, IInv, TypeOK
  <2>2. Len(wire) \in Nat \ {0} /\ 1 \in 1 .. Len(wire) /\ wire[1] = c0 /\ c0 \in Channels
    BY <2>1
  <2>3. QED
    BY <2>2 DEF Queued
<1> HIDE DEF c0
<1>4. \/ job' = job /\ seen' = seen
      \/ /\ c0 \notin seen /\ seen' = seen \cup {c0} /\ job.pc = "idle"
         /\ job' = [pc |-> "route", ch |-> c0, todo |-> {}, agent |-> None]
  BY DEF ReadEvent, Idle, c0
<1>5. UNCHANGED <<presence, chan, bridge, claimedFor, stranded, overridden, acked>>
  BY DEF ReadEvent, fs, ghosts
<1>6. TypeOK'
  BY <1>2, HeadTailProperties
  DEF ReadEvent, IInv, Forget, Idle, fs, ghosts, TypeOK,
      JobInHand, Holding, States
<1>7. JobInHand'
  BY DEF ReadEvent, IInv, ghosts, JobInHand, Holding, Claiming
<1>8. HeldForCall'
  BY DEF ReadEvent, HeldForCall, Holding
<1>9. BridgedOrOver'
  BY DEF ReadEvent, IInv, fs, BridgedOrOver
<1>10. ClaimsKept'
  <2> SUFFICES ASSUME NEW a \in Agents, presence[a] = "on_call", a \notin stranded
               PROVE  /\ claimedFor[a] \in Channels /\ bridge[claimedFor[a]] = a
                      /\ Closed(claimedFor[a])'
    BY <1>5 DEF ClaimsKept
  <2>1. ~InHand(a)
    BY DEF ReadEvent, InHand, Holding
  <2>2. /\ claimedFor[a] \in Channels /\ bridge[claimedFor[a]] = a
        /\ Closed(claimedFor[a])
    BY <2>1 DEF IInv, ClaimsKept
  <2>3. Closed(claimedFor[a])'
    BY <2>2, <1>3, <1>2, <1>4, <1>5 DEF Closed
  <2>4. QED
    BY <2>2, <2>3
<1>11. RungOnClaim'
  BY DEF ReadEvent, IInv, fs, ghosts, RungOnClaim, InHand, Holding
<1>12. QED
  BY <1>2, <1>6, <1>7, <1>8, <1>9, <1>10, <1>11
  DEF ReadEvent, IInv

(* Looking up the DID and the agents decides nothing yet ...               *)
LEMMA RouteStep ==
  ASSUME IInv, Route
  PROVE  IInv'
<1>1. \/ /\ job' = [pc |-> "kill", ch |-> job.ch, todo |-> job.todo, agent |-> job.agent]
         /\ UNCHANGED seen
      \/ /\ job' = [pc |-> "scan", ch |-> job.ch, todo |-> Agents, agent |-> job.agent]
         /\ UNCHANGED seen
      \/ Forget
  BY DEF Route, IInv, TypeOK
<1>2. Onward
  BY DEF Route, fs, Onward
<1>3. /\ WireBound'
      /\ wire' \in Seq(Channels) /\ Len(wire') <= 2 * Cardinality(Channels)
      /\ \A c : Queued(c)' => Queued(c)
  BY <1>2, QuietWire DEF Route, IInv
<1>4. job.pc = "route" /\ UNCHANGED <<presence, fs, wire, connected, ghosts>>
  BY DEF Route
<1>5. TypeOK'
  BY <1>1, <1>4 DEF IInv, Forget, Idle, fs, ghosts, TypeOK, Holding
<1>6. JobInHand'
  BY <1>1, <1>4 DEF IInv, Forget, Idle, ghosts, JobInHand, Holding, Claiming
<1>7. HeldForCall'
  BY <1>1 DEF Forget, Idle, HeldForCall, Holding
<1>8. BridgedOrOver'
  BY <1>4 DEF IInv, fs, BridgedOrOver
<1>9. ClaimsKept'
  BY <1>1, <1>4, <1>3
  DEF IInv, Forget, Idle, fs, ghosts, ClaimsKept, Closed, InHand, Holding
<1>10. RungOnClaim'
  BY <1>1, <1>4
  DEF IInv, Forget, Idle, fs, ghosts, RungOnClaim, InHand, Holding
<1>11. QED
  BY <1>3, <1>5, <1>6, <1>7, <1>8, <1>9, <1>10
  DEF IInv, Forget, Idle

(* ... and neither does reading an agent's presence.                       *)
LEMMA LookAtStep ==
  ASSUME IInv, NEW a \in Agents, LookAt(a)
  PROVE  IInv'
<1>1. \/ /\ job' = [pc |-> "claim", ch |-> job.ch, todo |-> job.todo, agent |-> a]
         /\ UNCHANGED seen
      \/ /\ job' = [pc |-> "scan", ch |-> job.ch, todo |-> job.todo \ {a},
                     agent |-> job.agent]
         /\ UNCHANGED seen
      \/ Forget
  BY DEF LookAt, IInv, TypeOK
<1>2. Onward
  BY DEF LookAt, fs, Onward
<1>3. /\ WireBound'
      /\ wire' \in Seq(Channels) /\ Len(wire') <= 2 * Cardinality(Channels)
      /\ \A c : Queued(c)' => Queued(c)
  BY <1>2, QuietWire DEF LookAt, IInv
<1>4. job.pc = "scan" /\ UNCHANGED <<presence, fs, wire, connected, ghosts>>
  BY DEF LookAt
<1>5. TypeOK'
  BY <1>1, <1>4 DEF IInv, Forget, Idle, fs, ghosts, TypeOK, Holding
<1>6. JobInHand'
  BY <1>1, <1>4 DEF IInv, Forget, Idle, ghosts, JobInHand, Holding, Claiming
<1>7. HeldForCall'
  BY <1>1 DEF Forget, Idle, HeldForCall, Holding
<1>8. BridgedOrOver'
  BY <1>4 DEF IInv, fs, BridgedOrOver
<1>9. ClaimsKept'
  BY <1>1, <1>4, <1>3
  DEF IInv, Forget, Idle, fs, ghosts, ClaimsKept, Closed, InHand, Holding
<1>10. RungOnClaim'
  BY <1>1, <1>4
  DEF IInv, Forget, Idle, fs, ghosts, RungOnClaim, InHand, Holding
<1>11. QED
  BY <1>3, <1>5, <1>6, <1>7, <1>8, <1>9, <1>10
  DEF IInv, Forget, Idle

(* No agent is left to try.                                                *)
LEMMA NoAgentStep ==
  ASSUME IInv, NoAgent
  PROVE  IInv'
<1>1. Onward
  BY DEF NoAgent, fs, Onward
<1>2. /\ WireBound'
      /\ wire' \in Seq(Channels) /\ Len(wire') <= 2 * Cardinality(Channels)
      /\ \A c : Queued(c)' => Queued(c)
  BY <1>1, QuietWire DEF NoAgent, IInv, Forget, Idle
<1>3. TypeOK'
  BY DEF NoAgent, IInv, fs, ghosts, TypeOK, Holding
<1>4. JobInHand'
  BY DEF NoAgent, IInv, ghosts, JobInHand, Holding, Claiming
<1>5. HeldForCall'
  BY DEF NoAgent, HeldForCall, Holding
<1>6. BridgedOrOver'
  BY DEF NoAgent, IInv, fs, BridgedOrOver
<1>7. ClaimsKept'
  BY <1>2 DEF NoAgent, IInv, fs, ghosts, ClaimsKept, Closed, InHand, Holding
<1>8. RungOnClaim'
  BY DEF NoAgent, IInv, fs, ghosts, RungOnClaim, InHand, Holding
<1>9. QED
  BY <1>2, <1>3, <1>4, <1>5, <1>6, <1>7, <1>8
  DEF NoAgent, IInv, Forget, Idle

(* The claim: the agent had no call, and is in hand from now on.           *)
LEMMA ClaimWonStep ==
  ASSUME IInv, ClaimWon
  PROVE  IInv'
<1>1. Onward
  BY DEF ClaimWon, Forget, Idle, fs, ghosts, Onward
<1>2. /\ WireBound'
      /\ wire' \in Seq(Channels) /\ Len(wire') <= 2 * Cardinality(Channels)
      /\ \A c : Queued(c)' => Queued(c)
  BY <1>1, QuietWire DEF ClaimWon, IInv, Forget, Idle
<1>3. TypeOK'
  BY DEF ClaimWon, IInv, fs, TypeOK, Holding, States
<1>4. JobInHand'
  BY DEF ClaimWon, IInv, JobInHand, Claiming
<1>5. HeldForCall'
  BY DEF ClaimWon, IInv, ghosts, HeldForCall, JobInHand, TypeOK, Claiming
<1>6. BridgedOrOver'
  BY DEF ClaimWon, IInv, fs, BridgedOrOver
<1>7. ClaimsKept'
  BY <1>2 DEF ClaimWon, IInv, fs, ClaimsKept, Closed, InHand, Holding
<1>8. RungOnClaim'
  BY DEF ClaimWon, IInv, fs, RungOnClaim, InHand
<1>9. QED
  BY <1>2, <1>3, <1>4, <1>5, <1>6, <1>7, <1>8
  DEF ClaimWon, IInv, Forget, Idle

(* A missed claim leaves the agent alone.                                  *)
LEMMA ClaimMissedStep ==
  ASSUME IInv, ClaimMissed
  PROVE  IInv'
<1>1. Onward
  BY DEF ClaimMissed, fs, Onward
<1>2. /\ WireBound'
      /\ wire' \in Seq(Channels) /\ Len(wire') <= 2 * Cardinality(Channels)
      /\ \A c : Queued(c)' => Queued(c)
  BY <1>1, QuietWire DEF ClaimMissed, IInv, Forget, Idle
<1>3. TypeOK'
  BY DEF ClaimMissed, IInv, fs, ghosts, TypeOK, Holding
<1>4. JobInHand'
  BY DEF ClaimMissed, IInv, ghosts, JobInHand, Holding, Claiming
<1>5. HeldForCall'
  BY DEF ClaimMissed, HeldForCall, Holding
<1>6. BridgedOrOver'
  BY DEF ClaimMissed, IInv, fs, BridgedOrOver
<1>7. ClaimsKept'
  BY <1>2
  DEF ClaimMissed, IInv, fs, ghosts, ClaimsKept, Closed, InHand, Holding
<1>8. RungOnClaim'
  BY DEF ClaimMissed, IInv, fs, ghosts, RungOnClaim, InHand, Holding
<1>9. QED
  BY <1>2, <1>3, <1>4, <1>5, <1>6, <1>7, <1>8
  DEF ClaimMissed, IInv, Forget, Idle

(* A claim whose outcome is not known strands the agent at worst.          *)
LEMMA ClaimFailsStep ==
  ASSUME IInv, ClaimFails
  PROVE  IInv'
<1>1. Onward
  BY DEF ClaimFails, fs, ghosts, Onward
<1>2. /\ WireBound'
      /\ wire' \in Seq(Channels) /\ Len(wire') <= 2 * Cardinality(Channels)
      /\ \A c : Queued(c)' => Queued(c)
  BY <1>1, QuietWire DEF ClaimFails, IInv
<1>3. TypeOK'
  BY DEF ClaimFails, IInv, Forget, Idle, fs, TypeOK, JobInHand, Claiming,
         States
<1>4. JobInHand'
  BY DEF ClaimFails, IInv, Forget, Idle, JobInHand, Holding, Claiming
<1>5. HeldForCall'
  BY DEF ClaimFails, Forget, Idle, HeldForCall, Holding
<1>6. BridgedOrOver'
  BY DEF ClaimFails, IInv, fs, BridgedOrOver
<1>7. ClaimsKept'
  BY <1>2
  DEF ClaimFails, IInv, Forget, Idle, fs, ClaimsKept, TypeOK, Closed, InHand,
      Holding
<1>8. RungOnClaim'
  BY DEF ClaimFails, IInv, Forget, Idle, fs, RungOnClaim, TypeOK, InHand,
         Holding
<1>9. QED
  BY <1>2, <1>3, <1>4, <1>5, <1>6, <1>7, <1>8
  DEF ClaimFails, IInv

(* The transfer: no other agent has this call, so none loses it.           *)
LEMMA TransferStep ==
  ASSUME IInv, Transfer
  PROVE  IInv'
<1>1. Onward
  BY DEF Transfer, Bridged, fs, ghosts, Onward
<1>2. /\ WireBound'
      /\ wire' \in Seq(Channels) /\ Len(wire') <= 2 * Cardinality(Channels)
      /\ \A c : Queued(c)' => Queued(c)
  BY <1>1, QuietWire DEF Transfer, IInv
<1>3. TypeOK'
  BY DEF Transfer, IInv, Idle, Bridged, fs, ghosts, TypeOK, JobInHand, Holding
<1>4. JobInHand'
  BY DEF Transfer, IInv, Idle, JobInHand, Holding, Claiming
<1>5. HeldForCall'
  BY DEF Transfer, Idle, HeldForCall, Holding
<1>6. BridgedOrOver'
  BY DEF Transfer, IInv, Bridged, BridgedOrOver, TypeOK
<1>7. ClaimsKept'
  BY <1>2
  DEF Transfer, IInv, Idle, Bridged, fs, ghosts, ClaimsKept, HeldForCall,
      JobInHand, TypeOK, Closed, InHand
<1>8. RungOnClaim'
  BY DEF Transfer, IInv, Idle, Bridged, RungOnClaim, HeldForCall, TypeOK,
         InHand, Holding
<1>9. QED
  BY <1>2, <1>3, <1>4, <1>5, <1>6, <1>7, <1>8 DEF Transfer, IInv

(* A refused transfer keeps the agent in hand, to be released.             *)
LEMMA TransferRefusedStep ==
  ASSUME IInv, TransferRefused
  PROVE  IInv'
<1>1. Onward
  BY DEF TransferRefused, fs, Onward
<1>2. /\ WireBound'
      /\ wire' \in Seq(Channels) /\ Len(wire') <= 2 * Cardinality(Channels)
      /\ \A c : Queued(c)' => Queued(c)
  BY <1>1, QuietWire DEF TransferRefused, IInv
<1>3. TypeOK'
  BY DEF TransferRefused, IInv, fs, ghosts, TypeOK, Holding
<1>4. JobInHand'
  BY DEF TransferRefused, IInv, ghosts, JobInHand, Holding, Claiming
<1>5. HeldForCall'
  BY DEF TransferRefused, IInv, ghosts, HeldForCall, Holding
<1>6. BridgedOrOver'
  BY DEF TransferRefused, IInv, fs, BridgedOrOver
<1>7. ClaimsKept'
  BY <1>2
  DEF TransferRefused, IInv, fs, ghosts, ClaimsKept, Closed, InHand, Holding
<1>8. RungOnClaim'
  BY DEF TransferRefused, IInv, fs, ghosts, RungOnClaim, InHand, Holding
<1>9. QED
  BY <1>2, <1>3, <1>4, <1>5, <1>6, <1>7, <1>8
  DEF TransferRefused, IInv

(* So does one whose reply is lost; its call rings all the same.           *)
LEMMA TransferReplyLostStep ==
  ASSUME IInv, TransferReplyLost
  PROVE  IInv'
<1>1. Onward
  BY DEF TransferReplyLost, Bridged, fs, ghosts, Onward
<1>2. /\ WireBound'
      /\ wire' \in Seq(Channels) /\ Len(wire') <= 2 * Cardinality(Channels)
      /\ \A c : Queued(c)' => Queued(c)
  BY <1>1, QuietWire DEF TransferReplyLost, IInv
<1>3. TypeOK'
  BY DEF TransferReplyLost, IInv, Bridged, fs, ghosts, TypeOK, JobInHand,
         Holding, Claiming
<1>4. JobInHand'
  BY DEF TransferReplyLost, IInv, JobInHand, Holding, Claiming
<1>5. HeldForCall'
  BY DEF TransferReplyLost, IInv, HeldForCall, Holding
<1>6. BridgedOrOver'
  BY DEF TransferReplyLost, IInv, Bridged, BridgedOrOver, TypeOK
<1>7. ClaimsKept'
  BY <1>2
  DEF TransferReplyLost, IInv, Bridged, ClaimsKept, JobInHand, Closed,
      InHand, Holding
<1>8. RungOnClaim'
  BY DEF TransferReplyLost, IInv, Bridged, RungOnClaim, TypeOK, InHand
<1>9. QED
  BY <1>2, <1>3, <1>4, <1>5, <1>6, <1>7, <1>8 DEF TransferReplyLost, IInv

(* The agent is given back, or stranded.                                   *)
LEMMA ReleaseStep ==
  ASSUME IInv, Release
  PROVE  IInv'
<1>1. Onward
  BY DEF Release, fs, ghosts, Onward
<1>2. /\ WireBound'
      /\ wire' \in Seq(Channels) /\ Len(wire') <= 2 * Cardinality(Channels)
      /\ \A c : Queued(c)' => Queued(c)
  BY <1>1, QuietWire DEF Release, IInv
<1>3. TypeOK'
  BY DEF Release, IInv, Forget, Idle, fs, ghosts, TypeOK,
         JobInHand, Holding, Claiming, States
<1>4. JobInHand'
  BY DEF Release, IInv, Forget, Idle, JobInHand, Holding, Claiming
<1>5. HeldForCall'
  BY DEF Release, Forget, Idle, HeldForCall, Holding
<1>6. BridgedOrOver'
  BY DEF Release, IInv, fs, BridgedOrOver
<1>7. ClaimsKept'
  BY <1>2
  DEF Release, IInv, Forget, Idle, fs, ClaimsKept, TypeOK, Closed, InHand
<1>8. RungOnClaim'
  BY DEF Release, IInv, Forget, Idle, fs, RungOnClaim, TypeOK, InHand, Holding
<1>9. QED
  BY <1>2, <1>3, <1>4, <1>5, <1>6, <1>7, <1>8 DEF Release, IInv

(* A rejected call is decided, and no agent has it.                        *)
LEMMA KillStep ==
  ASSUME IInv, Kill
  PROVE  IInv'
<1>1. Onward
  BY DEF Kill, fs, ghosts, Onward
<1>2. /\ WireBound'
      /\ wire' \in Seq(Channels) /\ Len(wire') <= 2 * Cardinality(Channels)
      /\ \A c : Queued(c)' => Queued(c)
  BY <1>1, QuietWire DEF Kill, IInv
<1>3. TypeOK'
  BY DEF Kill, IInv, Forget, Idle, fs, ghosts, TypeOK,
         JobInHand, Holding
<1>4. JobInHand'
  BY DEF Kill, IInv, Idle, JobInHand, Holding, Claiming
<1>5. HeldForCall'
  BY DEF Kill, Idle, HeldForCall, Holding
<1>6. BridgedOrOver'
  BY DEF Kill, IInv, BridgedOrOver
<1>7. ClaimsKept'
  BY <1>2 DEF Kill, IInv, Idle, ClaimsKept, Closed, InHand, Holding
<1>8. RungOnClaim'
  BY DEF Kill, IInv, Idle, RungOnClaim, InHand, Holding
<1>9. QED
  BY <1>2, <1>3, <1>4, <1>5, <1>6, <1>7, <1>8 DEF Kill, IInv

(* A rejection that fails is forgotten, and can be tried again.            *)
LEMMA KillFailsStep ==
  ASSUME IInv, KillFails
  PROVE  IInv'
<1>1. Onward
  BY DEF KillFails, IInv, Onward, TypeOK
<1>2. /\ WireBound'
      /\ wire' \in Seq(Channels) /\ Len(wire') <= 2 * Cardinality(Channels)
      /\ \A c : Queued(c)' => Queued(c)
  BY <1>1, QuietWire DEF KillFails, IInv
<1>3. TypeOK'
  BY DEF KillFails, IInv, Forget, Idle, ghosts, TypeOK, Holding
<1>4. JobInHand'
  BY DEF KillFails, IInv, Forget, Idle, ghosts, JobInHand, Holding, Claiming
<1>5. HeldForCall'
  BY DEF KillFails, Forget, Idle, HeldForCall, Holding
<1>6. BridgedOrOver'
  BY DEF KillFails, IInv, BridgedOrOver, TypeOK
<1>7. ClaimsKept'
  BY <1>2
  DEF KillFails, IInv, Forget, Idle, ghosts, ClaimsKept, Closed, InHand,
      Holding
<1>8. RungOnClaim'
  BY DEF KillFails, IInv, Forget, Idle, ghosts, RungOnClaim, TypeOK, InHand,
         Holding
<1>9. QED
  BY <1>2, <1>3, <1>4, <1>5, <1>6, <1>7, <1>8
  DEF KillFails, IInv

(* What was on the wire is lost: fewer events are left to handle.          *)
LEMMA DisconnectStep ==
  ASSUME IInv, Disconnect
  PROVE  IInv'
<1>1. Onward
  BY DEF Disconnect, fs, Onward
<1>2. /\ WireBound'
      /\ wire' \in Seq(Channels) /\ Len(wire') <= 2 * Cardinality(Channels)
      /\ \A c : Queued(c)' => Queued(c)
  BY <1>1, QuietWire DEF Disconnect, IInv, Forget, Idle
<1>3. TypeOK'
  BY <1>2 DEF Disconnect, IInv, fs, ghosts, TypeOK, Holding
<1>4. JobInHand'
  BY DEF Disconnect, IInv, ghosts, JobInHand
<1>5. HeldForCall'
  BY DEF Disconnect, IInv, ghosts, HeldForCall
<1>6. BridgedOrOver'
  BY DEF Disconnect, IInv, fs, BridgedOrOver
<1>7. ClaimsKept'
  BY <1>2 DEF Disconnect, IInv, fs, ghosts, ClaimsKept, Closed, InHand
<1>8. RungOnClaim'
  BY DEF Disconnect, IInv, fs, ghosts, RungOnClaim, InHand
<1>9. QED
  BY <1>2, <1>3, <1>4, <1>5, <1>6, <1>7, <1>8
  DEF Disconnect, IInv, Forget, Idle

(* The new connection has nothing to read yet.                             *)
LEMMA ReconnectStep ==
  ASSUME IInv, Reconnect
  PROVE  IInv'
<1>1. Onward
  BY DEF Reconnect, fs, Onward
<1>2. /\ WireBound'
      /\ wire' \in Seq(Channels) /\ Len(wire') <= 2 * Cardinality(Channels)
      /\ \A c : Queued(c)' => Queued(c)
  BY <1>1, QuietWire DEF Reconnect, IInv, Forget, Idle
<1>3. TypeOK'
  BY DEF Reconnect, IInv, fs, ghosts, TypeOK, Holding
<1>4. JobInHand'
  BY DEF Reconnect, IInv, ghosts, JobInHand
<1>5. HeldForCall'
  BY DEF Reconnect, IInv, ghosts, HeldForCall
<1>6. BridgedOrOver'
  BY DEF Reconnect, IInv, fs, BridgedOrOver
<1>7. ClaimsKept'
  BY <1>2 DEF Reconnect, IInv, fs, ghosts, ClaimsKept, Closed, InHand
<1>8. RungOnClaim'
  BY DEF Reconnect, IInv, fs, ghosts, RungOnClaim, InHand
<1>9. QED
  BY <1>2, <1>3, <1>4, <1>5, <1>6, <1>7, <1>8
  DEF Reconnect, IInv, Forget, Idle

(* The router forgets every call, and no call that has an agent has an     *)
(* event left.                                                             *)
LEMMA RestartStep ==
  ASSUME IInv, Restart
  PROVE  IInv'
<1>1. Onward
  BY DEF Restart, fs, ghosts, Onward
<1>2. /\ WireBound'
      /\ wire' \in Seq(Channels) /\ Len(wire') <= 2 * Cardinality(Channels)
      /\ \A c : Queued(c)' => Queued(c)
  BY <1>1, QuietWire DEF Restart, IInv
<1>3. TypeOK'
  BY <1>2
  DEF Restart, IInv, Forget, Idle, fs, ghosts, TypeOK,
      JobInHand, Holding, Claiming
<1>4. JobInHand'
  BY DEF Restart, Idle, JobInHand, Holding, Claiming
<1>5. HeldForCall'
  BY DEF Restart, Idle, HeldForCall, Holding
<1>6. BridgedOrOver'
  BY DEF Restart, IInv, fs, BridgedOrOver
<1>7. ClaimsKept'
  <2>1. \A c : ~Queued(c)'
    BY DEF Restart, Queued
  <2>2. QED
    BY <2>1 DEF Restart, IInv, Idle, fs, ClaimsKept, Closed, InHand, Holding
<1>8. RungOnClaim'
  BY DEF Restart, IInv, Idle, fs, RungOnClaim, InHand, Holding
<1>9. QED
  BY <1>2, <1>3, <1>4, <1>5, <1>6, <1>7, <1>8 DEF Restart, IInv

(* An agent's own request frees it, and that is recorded.                  *)
LEMMA AgentRequestStep ==
  ASSUME IInv, NEW a \in Agents, AgentRequest(a)
  PROVE  IInv'
<1>1. Onward
  BY DEF AgentRequest, Forget, Idle, fs, ghosts, Onward
<1>2. /\ WireBound'
      /\ wire' \in Seq(Channels) /\ Len(wire') <= 2 * Cardinality(Channels)
      /\ \A c : Queued(c)' => Queued(c)
  BY <1>1, QuietWire DEF AgentRequest, IInv, Forget, Idle
<1>3. TypeOK'
  BY DEF AgentRequest, IInv, fs, TypeOK, Holding, States
<1>4. JobInHand'
  BY DEF AgentRequest, IInv, JobInHand
<1>5. HeldForCall'
  BY DEF AgentRequest, IInv, HeldForCall
<1>6. BridgedOrOver'
  BY DEF AgentRequest, IInv, fs, BridgedOrOver
<1>7. ClaimsKept'
  BY <1>2 DEF AgentRequest, IInv, fs, ClaimsKept, TypeOK, Closed, InHand
<1>8. RungOnClaim'
  BY DEF AgentRequest, IInv, fs, RungOnClaim, InHand
<1>9. QED
  BY <1>2, <1>3, <1>4, <1>5, <1>6, <1>7, <1>8
  DEF AgentRequest, IInv, Forget, Idle

-----------------------------------------------------------------------------
(* With the edge just connected no call has come in and nothing is claimed. *)
LEMMA InitIInv == Init => IInv
<1> SUFFICES ASSUME Init PROVE IInv
  OBVIOUS
<1>1. wire \in Seq(Channels) /\ Len(wire) = 0
  BY DEF Init
<1>2. TypeOK
  BY CountsAreNat DEF Init, TypeOK, States, Idle
<1>3. WireBound
  BY <1>1, CountsAreNat DEF WireBound
<1>4. JobInHand /\ HeldForCall
  BY DEF Init, Idle, JobInHand, HeldForCall, Holding, Claiming
<1>5. BridgedOrOver /\ ClaimsKept /\ RungOnClaim
  BY DEF Init, BridgedOrOver, ClaimsKept, RungOnClaim
<1>6. QED
  BY <1>2, <1>3, <1>4, <1>5 DEF IInv

(* Whatever the calls, the listener, the agents and the failures do.       *)
THEOREM Invariance == Spec => []IInv
<1>1. IInv /\ [Next]_vars => IInv'
  <2> SUFFICES ASSUME IInv, [Next]_vars PROVE IInv'
    OBVIOUS
  <2>1. CASE Handler
    BY <2>1, ReadEventStep, RouteStep, LookAtStep, NoAgentStep,
       ClaimWonStep, ClaimMissedStep, ClaimFailsStep, TransferStep,
       TransferRefusedStep, TransferReplyLostStep, ReleaseStep, KillStep,
       KillFailsStep, ReconnectStep
    DEF Handler
  <2>2. CASE Calls
    BY <2>2, SendStep, CallEndsStep DEF Calls, ChannelCreate, Park
  <2>3. CASE Disconnect \/ Restart
    BY <2>3, DisconnectStep, RestartStep
  <2>4. CASE \E a \in Agents : AgentRequest(a)
    BY <2>4, AgentRequestStep
  <2>5. CASE UNCHANGED vars
    <3>1. Reported' = Reported /\ Announced' = Announced
      BY <2>5 DEF vars, Reported, Announced
    <3>2. WireBound' /\ TypeOK'
      BY <2>5, <3>1 DEF vars, IInv, WireBound, TypeOK
    <3>3. QED
      BY <2>5, <3>2
      DEF vars, IInv, JobInHand, HeldForCall, BridgedOrOver, ClaimsKept,
          Closed, Queued, RungOnClaim, InHand
  <2>6. QED
    BY <2>1, <2>2, <2>3, <2>4, <2>5 DEF Next
<1>2. QED
  BY <1>1, InitIInv, PTL DEF Spec

(* The types of the listener's state, and no more than two events of each  *)
(* call on the wire.                                                       *)
THEOREM TypeCorrect == Spec => []TypeOK
<1>1. IInv => TypeOK
  BY DEF IInv
<1>2. QED
  BY <1>1, Invariance, PTL

(* No claim is lost: an agent on_call has the call it was claimed for, or  *)
(* the listener still holds it (router.go:222-263).                        *)
THEOREM ClaimsAreAccountedFor == Spec => []ClaimsAccountedFor
<1>1. IInv => ClaimsAccountedFor
  BY NoneAssumption
  DEF IInv, ClaimsKept, HeldForCall, ClaimsAccountedFor, InHand, Holding
<1>2. QED
  BY <1>1, Invariance, PTL

(* The claim alone keeps a second call from an agent (router_test.go:81):  *)
(* every call that rings it is the one it was claimed for.                 *)
THEOREM OneCallPerAgent == Spec => []OneCallPerClaim
<1>1. ASSUME IInv, NEW a \in Agents, a \notin overridden
      PROVE  ~(Cardinality(CallsOf(a)) > 1)
  <2>1. CallsOf(a) \subseteq {claimedFor[a]}
    BY <1>1 DEF IInv, RungOnClaim, CallsOf
  <2>2. IsFiniteSet({claimedFor[a]}) /\ Cardinality({claimedFor[a]}) = 1
    BY FS_Singleton
  <2>3. Cardinality(CallsOf(a)) \in Nat /\ Cardinality(CallsOf(a)) <= 1
    BY <2>1, <2>2, FS_Subset, FS_CardinalityType
  <2>4. QED
    BY <2>3
<1>2. IInv => OneCallPerClaim
  BY <1>1 DEF OneCallPerClaim
<1>3. QED
  BY <1>2, Invariance, PTL

(* The second event of a call, in whatever order and after whatever        *)
(* failure it is read, leads to no second command (router.go:201-209).     *)
THEOREM DecidedOnlyOnce == Spec => []DecidedOnce
<1>1. IInv => DecidedOnce
  BY DEF IInv, JobInHand, DecidedOnce
<1>2. QED
  BY <1>1, Invariance, PTL
=============================================================================
