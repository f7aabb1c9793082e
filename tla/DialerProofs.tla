---------------------------- MODULE DialerProofs ----------------------------
(***************************************************************************)
(* Dialer for any number of agents, carriers, calls and concurrent         *)
(* requests, with every disturbance: no agent hangs up another's call, no  *)
(* live call is left behind, a carrier's counter is the number of its      *)
(* calls that are still to be deducted, and its live legs overshoot the    *)
(* channel limit by at most the requests in progress.  At the end, the     *)
(* limiter that the dialer asks before it places a call.                   *)
(***************************************************************************)
EXTENDS Dialer, CpsLimiter, FiniteSetTheorems, TLAPS

PCs == {"idle"} \cup OriginatePCs \cup HangupPCs

ReqType == [pc : PCs, agent : Agents \cup {None}, at : 1 .. Len(Order) + 1,
            call : Calls \cup {None}, carrier : Carriers \cup {None}]

(* What a request needs at the command it sends next: the locals of        *)
(* Originate and Hangup are set before they are used.                      *)
Ready(q, l) ==
  /\ l # "idle" => q.agent \in Agents
  /\ l = "dial" => q.at <= Len(Order)
  /\ l \in {"dial", "incr", "save", "kill", "decr", "clamp"} => q.carrier \in Carriers
  /\ l \in {"incr", "save", "kill"} \cup HangupPCs => q.call \in Calls

Located(q) == Ready(q, q.pc)

TypeInv == TypeOK /\ \A r \in Requests : Located(req[r])

(* A step puts request r where it has what it needs, and moves no other.   *)
Moved(r) == \E q \in ReqType : Located(q) /\ req' = [req EXCEPT ![r] = q]

-----------------------------------------------------------------------------
(* The carriers by priority are carriers.                                  *)
LEMMA OrderFacts ==
  /\ Len(Order) \in Nat
  /\ \A i \in 1 .. Len(Order) : Order[i] \in Carriers
  BY OrderAssumption

(* The first states are well-formed: no request is being served.           *)
LEMMA InitTypeInv == Init => TypeInv
  BY OrderFacts
  DEF Init, TypeInv, TypeOK, IdleReq, Located, Ready, OriginatePCs, HangupPCs

(* A well-formed state gives every request a well-formed record.           *)
LEMMA ReqTyped ==
  ASSUME TypeInv, NEW r \in Requests
  PROVE  req[r] \in ReqType /\ Ready(req[r], req[r].pc)
  BY DEF TypeInv, TypeOK, ReqType, PCs, Located

(* A moved request leaves the requests well-formed.                        *)
LEMMA MovedTyped ==
  ASSUME TypeInv, NEW r \in Requests, Moved(r)
  PROVE  req' \in [Requests -> ReqType] /\ \A q \in Requests : Located(req'[q])
  BY DEF TypeInv, TypeOK, ReqType, PCs, Moved

(* The three ways to move: on to a command the request is ready for, ...   *)
LEMMA GotoMoved ==
  ASSUME TypeInv, NEW r \in Requests, NEW l \in PCs, Goto(r, l), Ready(req[r], l)
  PROVE  Moved(r)
<1> DEFINE n == [req[r] EXCEPT !.pc = l]
<1>1. n \in ReqType
  BY ReqTyped DEF ReqType
<1>2. /\ n.pc = l /\ n.agent = req[r].agent /\ n.at = req[r].at
      /\ n.call = req[r].call /\ n.carrier = req[r].carrier
  BY ReqTyped DEF ReqType
<1>3. Located(n)
  BY <1>2 DEF Located, Ready
<1>4. QED
  BY <1>1, <1>3 DEF Moved, Goto

(* ... to the next carrier, ...                                            *)
LEMMA NextCarrierMoved ==
  ASSUME TypeInv, NEW r \in Requests, NextCarrier(r),
         req[r].pc \in {"pick", "dial"}, req[r].at <= Len(Order)
  PROVE  Moved(r)
<1> DEFINE n == [req[r] EXCEPT !.pc = "pick", !.at = req[r].at + 1, !.carrier = None]
<1>1. req[r].at + 1 \in 1 .. Len(Order) + 1
  BY OrderFacts, ReqTyped DEF ReqType
<1>2. n \in ReqType
  BY <1>1, ReqTyped DEF ReqType, PCs, OriginatePCs
<1>3. n.pc = "pick" /\ n.agent = req[r].agent /\ req[r].agent \in Agents
  BY ReqTyped DEF ReqType, Ready
<1>4. Located(n)
  BY <1>3 DEF Located, Ready, HangupPCs
<1>5. QED
  BY <1>2, <1>4 DEF Moved, NextCarrier

(* ... or to its answer.                                                   *)
LEMMA AnswerMoved ==
  ASSUME TypeInv, NEW r \in Requests, Answer(r)
  PROVE  Moved(r)
<1>1. IdleReq \in ReqType /\ Located(IdleReq)
  BY OrderFacts DEF ReqType, IdleReq, Located, Ready, PCs, OriginatePCs, HangupPCs
<1>2. QED
  BY <1>1 DEF Moved, Answer

(* A counter moves by whole channels.                                      *)
LEMMA ChannelsTyped ==
  ASSUME TypeInv, NEW c \in Carriers, NEW n \in Int, AddChannels(c, n)
  PROVE  channels' \in [Carriers -> Int]
  BY DEF TypeInv, TypeOK, AddChannels

(* A command that succeeds has been executed, one that fails perhaps not.  *)
LEMMA ExecutionFacts ==
  /\ \A n \in Executions : n \in Int /\ n >= 1
  /\ \A n \in FailedExecutions : n \in Int /\ n >= 0
  BY AttemptsAssumption DEF Executions, FailedExecutions

(* The actions of Originate keep the state well-formed.                    *)
LEMMA OriginateTyped ==
  ASSUME TypeInv, NEW r \in Requests, OriginateStep(r)
  PROVE  TypeInv'
<1> USE DEF PCs, OriginatePCs, HangupPCs, At, redis, freeswitch, ghosts, errors
<1>1. CASE Skip(r)
  <2>1. Moved(r)
    BY <1>1, ReqTyped, NextCarrierMoved DEF Skip, Ready
  <2>2. QED
    BY <1>1, <2>1, MovedTyped DEF Skip, TypeInv, TypeOK, ReqType
<1>2. CASE Admit(r)
  <2>1. Moved(r)
    <3> DEFINE c == Order[req[r].at]
               n == [req[r] EXCEPT !.pc = "dial", !.carrier = c]
    <3>1. req[r].at \in 1 .. Len(Order) /\ c \in Carriers /\ req[r].agent \in Agents
      BY <1>2, ReqTyped, OrderFacts DEF Admit, ReqType, Ready
    <3>2. n \in ReqType
      BY <3>1, ReqTyped DEF ReqType
    <3>3. /\ n.pc = "dial" /\ n.agent = req[r].agent /\ n.at = req[r].at
          /\ n.carrier = c
      BY ReqTyped DEF ReqType
    <3>4. Located(n)
      BY <3>1, <3>3, OrderFacts DEF Located, Ready
    <3>5. QED
      BY <1>2, <3>2, <3>4 DEF Admit, Moved
  <2>2. QED
    BY <1>2, <2>1, MovedTyped DEF Admit, TypeInv, TypeOK, ReqType
<1>3. CASE Refuse(r)
  <2>1. Moved(r)
    BY <1>3, AnswerMoved DEF Refuse
  <2>2. QED
    BY <1>3, <2>1, MovedTyped DEF Refuse, TypeInv, TypeOK, ReqType
<1>4. CASE DialOK(r)
  <2>1. Moved(r)
    <3>1. PICK u \in Calls : req' = [req EXCEPT ![r].pc = "incr", ![r].call = u]
      BY <1>4 DEF DialOK
    <3> DEFINE n == [req[r] EXCEPT !.pc = "incr", !.call = u]
    <3>2. n \in ReqType
      BY <3>1, ReqTyped DEF ReqType
    <3>3. /\ n.pc = "incr" /\ n.agent = req[r].agent /\ n.call = u
          /\ n.carrier = req[r].carrier
      BY ReqTyped DEF ReqType
    <3>4. Located(n)
      BY <1>4, <3>3, ReqTyped DEF Located, Ready, DialOK
    <3>5. QED
      BY <3>1, <3>2, <3>4 DEF Moved
  <2>2. leg' \in [Calls -> {"unused", "up", "down"}] /\ placed' \in [Calls -> Route \cup {None}]
    BY <1>4, ReqTyped DEF DialOK, LegUp, Ready, Route, TypeInv, TypeOK
  <2>3. QED
    BY <1>4, <2>1, <2>2, MovedTyped DEF DialOK, TypeInv, TypeOK, ReqType
<1>5. CASE DialFails(r)
  <2>1. Moved(r)
    BY <1>5, ReqTyped, NextCarrierMoved DEF DialFails, Ready
  <2>2. QED
    BY <1>5, <2>1, MovedTyped DEF DialFails, TypeInv, TypeOK, ReqType
<1>6. CASE DialReplyLost(r)
  <2>1. Moved(r)
    BY <1>6, ReqTyped, NextCarrierMoved DEF DialReplyLost, Ready
  <2>2. leg' \in [Calls -> {"unused", "up", "down"}] /\ placed' \in [Calls -> Route \cup {None}]
    BY <1>6, ReqTyped DEF DialReplyLost, LegUp, Ready, Route, TypeInv, TypeOK
  <2>3. QED
    BY <1>6, <2>1, <2>2, MovedTyped DEF DialReplyLost, TypeInv, TypeOK, ReqType
<1>7. CASE Incr(r)
  <2>1. Moved(r)
    BY <1>7, ReqTyped, GotoMoved DEF Incr, Ready
  <2>2. req[r].carrier \in Carriers
    BY <1>7, ReqTyped DEF Incr, Ready
  <2>3. channels' \in [Carriers -> Int]
    <3>1. PICK k \in Int : AddChannels(req[r].carrier, k)
      BY <1>7, ExecutionFacts DEF Incr
    <3>2. QED BY <2>2, <3>1, ChannelsTyped
  <2>4. leaked' \subseteq Carriers
    BY <1>7, <2>2 DEF Incr, Leaks, TypeInv, TypeOK
  <2>5. QED
    BY <1>7, <2>1, <2>3, <2>4, MovedTyped DEF Incr, TypeInv, TypeOK, ReqType
<1>8. CASE IncrFails(r)
  <2>1. Moved(r)
    BY <1>8, ReqTyped, GotoMoved DEF IncrFails, Ready
  <2>2. req[r].carrier \in Carriers
    BY <1>8, ReqTyped DEF IncrFails, Ready
  <2>3. channels' \in [Carriers -> Int]
    <3>1. PICK k \in Int : AddChannels(req[r].carrier, k)
      BY <1>8, ExecutionFacts DEF IncrFails
    <3>2. QED BY <2>2, <3>1, ChannelsTyped
  <2>4. leaked' \subseteq Carriers
    BY <1>8, <2>2 DEF IncrFails, Leaks, TypeInv, TypeOK
  <2>5. QED
    BY <1>8, <2>1, <2>3, <2>4, MovedTyped DEF IncrFails, TypeInv, TypeOK, ReqType
<1>9. CASE Save(r)
  <2>1. Moved(r)
    BY <1>9, AnswerMoved DEF Save
  <2>2. QED
    BY <1>9, <2>1, ReqTyped, MovedTyped DEF Save, SaveKeys, Route, Ready, TypeInv, TypeOK, ReqType
<1>10. CASE SaveFails(r)
  <2>1. Moved(r)
    BY <1>10, ReqTyped, GotoMoved DEF SaveFails, Ready
  <2>2. meta' \in [Calls -> Route \cup {None}] /\ agentCall' \in [Agents -> Calls \cup {None}]
    <3>1. req[r].agent \in Agents /\ req[r].call \in Calls /\ req[r].carrier \in Carriers
      BY <1>10, ReqTyped DEF SaveFails, Ready
    <3>2. CASE SaveKeys(r)
      BY <3>1, <3>2 DEF SaveKeys, Route, TypeInv, TypeOK
    <3>3. CASE UNCHANGED <<meta, agentCall>>
      BY <3>3 DEF TypeInv, TypeOK
    <3>4. QED BY <1>10, <3>2, <3>3 DEF SaveFails
  <2>3. leaked' \subseteq Carriers
    BY <1>10, ReqTyped DEF SaveFails, Leaks, Ready, TypeInv, TypeOK
  <2>4. QED
    BY <1>10, <2>1, <2>2, <2>3, MovedTyped DEF SaveFails, TypeInv, TypeOK, ReqType
<1>11. CASE Abandon(r)
  <2>1. Moved(r)
    BY <1>11, AnswerMoved DEF Abandon
  <2>2. req[r].call \in Calls
    BY <1>11, ReqTyped DEF Abandon, Ready
  <2>3. leg' \in [Calls -> {"unused", "up", "down"}] /\ lost' \subseteq Calls
    BY <1>11, <2>2 DEF Abandon, LegDown, TypeInv, TypeOK
  <2>4. QED
    BY <1>11, <2>1, <2>3, MovedTyped DEF Abandon, TypeInv, TypeOK, ReqType
<1>12. CASE SaveAgain(r)
  BY <1>12, ReqTyped DEF SaveAgain, SaveKeys, Route, Ready, TypeInv, TypeOK
<1>13. QED
  BY <1>1, <1>2, <1>3, <1>4, <1>5, <1>6, <1>7, <1>8, <1>9, <1>10, <1>11, <1>12
  DEF OriginateStep

(* So do the actions of Hangup.                                            *)
LEMMA HangupTyped ==
  ASSUME TypeInv, NEW r \in Requests, HangupStep(r)
  PROVE  TypeInv'
<1> USE DEF PCs, OriginatePCs, HangupPCs, At, redis, freeswitch, ghosts, errors
<1>1. CASE LoadMeta(r)
  <2>1. Moved(r)
    <3>1. CASE Goto(r, "uuidKill")
      BY <1>1, <3>1, ReqTyped, GotoMoved DEF LoadMeta, Ready
    <3>2. CASE ~Goto(r, "uuidKill")
      <4> DEFINE m == meta[req[r].call]
                 n == [req[r] EXCEPT !.pc = "uuidKill", !.carrier = m.carrier]
      <4>1. req[r].agent \in Agents /\ req[r].call \in Calls /\ m # None
        BY <1>1, <3>2, ReqTyped DEF LoadMeta, Ready
      <4>2. m.carrier \in Carriers
        BY <4>1 DEF TypeInv, TypeOK, Route
      <4>3. n \in ReqType
        BY <4>2, ReqTyped DEF ReqType
      <4>4. /\ n.pc = "uuidKill" /\ n.agent = req[r].agent /\ n.call = req[r].call
        BY ReqTyped DEF ReqType
      <4>5. Located(n)
        BY <4>1, <4>4 DEF Located, Ready
      <4>6. QED
        BY <1>1, <3>2, <4>3, <4>5 DEF LoadMeta, Moved
    <3>3. QED BY <3>1, <3>2
  <2>2. QED
    BY <1>1, <2>1, MovedTyped DEF LoadMeta, TypeInv, TypeOK, ReqType
<1>2. CASE UuidKill(r)
  <2>1. Moved(r)
    <3>1. \/ Goto(r, "delMeta")
          \/ Goto(r, "decr") /\ req[r].carrier \in Carriers
      BY <1>2, ReqTyped DEF UuidKill, ReqType
    <3>2. QED
      BY <1>2, <3>1, ReqTyped, GotoMoved DEF UuidKill, Ready
  <2>2. QED
    BY <1>2, <2>1, MovedTyped DEF UuidKill, LegDown, TypeInv, TypeOK, ReqType
<1>3. CASE UuidKillFails(r)
  <2>1. Moved(r)
    BY <1>3, AnswerMoved DEF UuidKillFails
  <2>2. QED
    BY <1>3, <2>1, MovedTyped DEF UuidKillFails, LegDown, TypeInv, TypeOK, ReqType
<1>4. CASE Decr(r)
  <2>1. Moved(r)
    <3>1. Goto(r, "delMeta") \/ Goto(r, "clamp")
      BY <1>4 DEF Decr
    <3>2. QED
      BY <1>4, <3>1, ReqTyped, GotoMoved DEF Decr, Ready
  <2>2. req[r].carrier \in Carriers
    BY <1>4, ReqTyped DEF Decr, Ready
  <2>3. channels' \in [Carriers -> Int]
    <3>1. PICK k \in Int : AddChannels(req[r].carrier, k)
      <4>1. \E n \in Int : AddChannels(req[r].carrier, -n)
        BY <1>4, ExecutionFacts DEF Decr
      <4>2. PICK n \in Int : AddChannels(req[r].carrier, -n)
        BY <4>1
      <4>3. -n \in Int
        OBVIOUS
      <4>4. QED BY <4>2, <4>3
    <3>2. QED BY <2>2, <3>1, ChannelsTyped
  <2>4. overdrawn' \subseteq Carriers /\ expired' \subseteq Calls
    BY <1>4, <2>2 DEF Decr, Overdraws, TypeInv, TypeOK
  <2>5. QED
    BY <1>4, <2>1, <2>3, <2>4, MovedTyped DEF Decr, TypeInv, TypeOK, ReqType
<1>5. CASE DecrFails(r)
  <2>1. Moved(r)
    BY <1>5, AnswerMoved DEF DecrFails
  <2>2. req[r].carrier \in Carriers
    BY <1>5, ReqTyped DEF DecrFails, Ready
  <2>3. channels' \in [Carriers -> Int]
    <3>1. PICK k \in Int : AddChannels(req[r].carrier, k)
      <4>1. \E n \in Int : AddChannels(req[r].carrier, -n)
        BY <1>5, ExecutionFacts DEF DecrFails
      <4>2. PICK n \in Int : AddChannels(req[r].carrier, -n)
        BY <4>1
      <4>3. -n \in Int
        OBVIOUS
      <4>4. QED BY <4>2, <4>3
    <3>2. QED BY <2>2, <3>1, ChannelsTyped
  <2>4. overdrawn' \subseteq Carriers /\ expired' \subseteq Calls
    BY <1>5, <2>2 DEF DecrFails, Overdraws, TypeInv, TypeOK
  <2>5. QED
    BY <1>5, <2>1, <2>3, <2>4, MovedTyped DEF DecrFails, TypeInv, TypeOK, ReqType
<1>6. CASE Clamp(r)
  <2>1. Moved(r)
    BY <1>6, ReqTyped, GotoMoved DEF Clamp, Ready
  <2>2. QED
    BY <1>6, <2>1, MovedTyped DEF Clamp, TypeInv, TypeOK, ReqType
<1>7. CASE DelMeta(r)
  <2>1. Moved(r)
    BY <1>7, ReqTyped, GotoMoved DEF DelMeta, Ready
  <2>2. leaked' \subseteq Carriers /\ overdrawn' \subseteq Carriers
    <3>1. req[r].call \in Calls /\ req[r].carrier \in Carriers \cup {None}
      BY <1>7, ReqTyped DEF DelMeta, Ready, ReqType
    <3>2. CountedCall(req[r].call) => placed[req[r].call].carrier \in Carriers
      BY <3>1 DEF CountedCall, Route, TypeInv, TypeOK
    <3>3. leaked' \subseteq Carriers
      BY <1>7, <3>2 DEF DelMeta, Leaks, TypeInv, TypeOK
    <3>4. overdrawn' \subseteq Carriers
      BY <1>7, <3>1 DEF DelMeta, Overdraws, TypeInv, TypeOK
    <3>5. QED BY <3>3, <3>4
  <2>3. QED
    BY <1>7, <2>1, <2>2, MovedTyped DEF DelMeta, TypeInv, TypeOK, ReqType
<1>8. CASE GetMine(r)
  <2>1. Moved(r)
    <3>1. Goto(r, "delMine") \/ Goto(r, "release")
      BY <1>8 DEF GetMine
    <3>2. QED
      BY <1>8, <3>1, ReqTyped, GotoMoved DEF GetMine, Ready
  <2>2. QED
    BY <1>8, <2>1, MovedTyped DEF GetMine, TypeInv, TypeOK, ReqType
<1>9. CASE DelMine(r)
  <2>1. Moved(r)
    BY <1>9, ReqTyped, GotoMoved DEF DelMine, Ready
  <2>2. QED
    BY <1>9, <2>1, MovedTyped DEF DelMine, TypeInv, TypeOK, ReqType
<1>10. CASE Release(r)
  <2>1. Moved(r)
    BY <1>10, AnswerMoved DEF Release
  <2>2. QED
    BY <1>10, <2>1, MovedTyped DEF Release, TypeInv, TypeOK, ReqType
<1>11. QED
  BY <1>1, <1>2, <1>3, <1>4, <1>5, <1>6, <1>7, <1>8, <1>9, <1>10 DEF HangupStep

(* New requests, the far end and the inbound router do so too.             *)
LEMMA ArriveTyped ==
  ASSUME TypeInv, NEW r \in Requests, Arrive(r)
  PROVE  TypeInv'
<1> USE DEF PCs, OriginatePCs, HangupPCs, At, redis, freeswitch, ghosts, errors
<1>1. ASSUME NEW q \in ReqType, Located(q), req' = [req EXCEPT ![r] = q],
             UNCHANGED <<redis, freeswitch, ghosts>>
      PROVE  TypeInv'
  <2>1. Moved(r)
    BY <1>1 DEF Moved
  <2>2. QED
    BY <1>1, <2>1, MovedTyped DEF TypeInv, TypeOK, ReqType
<1>2. ASSUME NEW a \in Agents, Originate(r, a) PROVE TypeInv'
  <2> DEFINE n == [req[r] EXCEPT !.pc = "pick", !.agent = a]
  <2>1. n \in ReqType /\ n.pc = "pick" /\ n.agent = a
    BY ReqTyped DEF ReqType
  <2>2. Located(n)
    BY <2>1 DEF Located, Ready
  <2>3. QED
    BY <1>1, <1>2, <2>1, <2>2 DEF Originate
<1>3. ASSUME NEW a \in Agents, HangupCurrent(r, a) PROVE TypeInv'
  <2> DEFINE n == [req[r] EXCEPT !.pc = "load", !.agent = a, !.call = agentCall[a]]
  <2>1. agentCall[a] \in Calls
    BY <1>3 DEF HangupCurrent, TypeInv, TypeOK
  <2>2. n \in ReqType /\ n.pc = "load" /\ n.agent = a /\ n.call = agentCall[a]
    BY <2>1, ReqTyped DEF ReqType
  <2>3. Located(n)
    BY <2>1, <2>2 DEF Located, Ready
  <2>4. QED
    BY <1>1, <1>3, <2>2, <2>3 DEF HangupCurrent
<1>4. ASSUME NEW a \in Agents, NEW u \in Calls, HangupCall(r, a, u) PROVE TypeInv'
  <2> DEFINE n == [req[r] EXCEPT !.pc = "uuidKill", !.agent = a, !.call = u,
                                 !.carrier = meta[u].carrier]
  <2>1. meta[u].carrier \in Carriers
    BY <1>4 DEF HangupCall, TypeInv, TypeOK, Route
  <2>2. n \in ReqType /\ n.pc = "uuidKill" /\ n.agent = a /\ n.call = u
    BY <2>1, ReqTyped DEF ReqType
  <2>3. Located(n)
    BY <2>2 DEF Located, Ready
  <2>4. QED
    BY <1>1, <1>4, <2>2, <2>3 DEF HangupCall
<1>5. QED
  BY <1>2, <1>3, <1>4 DEF Arrive

(* No step makes the state ill-formed.                                      *)
LEMMA NextTyped == TypeInv /\ [Next]_vars => TypeInv'
<1> SUFFICES ASSUME TypeInv, [Next]_vars PROVE TypeInv'
  OBVIOUS
<1>1. ASSUME NEW r \in Requests, Arrive(r) \/ OriginateStep(r) \/ HangupStep(r)
      PROVE  TypeInv'
  BY <1>1, ArriveTyped, OriginateTyped, HangupTyped
<1>2. ASSUME NEW u \in Calls, FarHangup(u) PROVE TypeInv'
  BY <1>2 DEF FarHangup, LegDown, TypeInv, TypeOK, redis, ghosts, errors
<1>3. ASSUME NEW a \in Agents, InboundClaim(a) PROVE TypeInv'
  BY <1>3 DEF InboundClaim, TypeInv, TypeOK, freeswitch, ghosts, errors
<1>4. ASSUME NEW u \in Calls, ExpireKeys(u) PROVE TypeInv'
  <2>1. meta' \in [Calls -> Route \cup {None}] /\ expired' \subseteq Calls
    BY <1>4 DEF ExpireKeys, TypeInv, TypeOK
  <2>2. agentCall' \in [Agents -> Calls \cup {None}]
    BY <1>4 DEF ExpireKeys, TypeInv, TypeOK
  <2>3. QED
    BY <1>4, <2>1, <2>2 DEF ExpireKeys, freeswitch, TypeInv, TypeOK
<1>5. CASE UNCHANGED vars
  BY <1>5 DEF vars, TypeInv, TypeOK
<1>6. QED
  BY <1>1, <1>2, <1>3, <1>4, <1>5 DEF Next

(* The types of the dialer's state, and that no request uses a local it    *)
(* has not set.                                                            *)
THEOREM TypeCorrect == Spec => []TypeOK
<1>1. Spec => []TypeInv
  BY InitTypeInv, NextTyped, PTL DEF Spec
<1>2. TypeInv => TypeOK
  BY DEF TypeInv
<1>3. QED
  BY <1>1, <1>2, PTL

-----------------------------------------------------------------------------
(* Calls.  A call is placed once, for one agent through one carrier, and   *)
(* whatever names it later -- its meta, its agent's current call, the      *)
(* requests that have it in hand -- agrees with that.                      *)
Flight == {"incr", "save", "kill"}
AfterKill == {"decr", "clamp", "delMeta", "getMine", "delMine", "release"}

Own(r) ==
  /\ req[r].pc \in Flight =>
       placed[req[r].call] = [agent |-> req[r].agent, carrier |-> req[r].carrier]
  /\ req[r].pc \in HangupPCs =>
       placed[req[r].call] # None /\ placed[req[r].call].agent = req[r].agent
  /\ req[r].pc \in AfterKill => leg[req[r].call] = "down"

LegsPlaced == \A u \in Calls : leg[u] = "unused" <=> placed[u] = None

MetaRight == \A u \in Calls : meta[u] # None => placed[u] = meta[u]

CurrentRight ==
  \A a \in Agents : agentCall[a] # None =>
    placed[agentCall[a]] # None /\ placed[agentCall[a]].agent = a

CallsInv == /\ LegsPlaced
            /\ MetaRight
            /\ CurrentRight
            /\ \A r \in Requests : Own(r)
            /\ UpLegTracked

(* What has happened to a call stays true of it.                           *)
Monotone == \A u \in Calls : /\ placed[u] # None => placed'[u] = placed[u]
                             /\ leg[u] = "down" => leg'[u] = "down"

(* No call is placed at first.                                             *)
LEMMA InitCalls == Init => CallsInv
  BY DEF Init, CallsInv, LegsPlaced, MetaRight, CurrentRight, Own, UpLegTracked,
         IdleReq, Flight, HangupPCs, AfterKill

(* What the ways to move do to a request, and to no other.                 *)
LEMMA GotoFields ==
  ASSUME TypeInv, NEW r \in Requests, NEW l, Goto(r, l)
  PROVE  /\ req'[r].pc = l /\ req'[r].agent = req[r].agent
         /\ req'[r].call = req[r].call /\ req'[r].carrier = req[r].carrier
         /\ \A q \in Requests : q # r => req'[q] = req[q]
  BY ReqTyped DEF Goto, TypeInv, TypeOK

(* Going on to the next carrier moves this request only, ...               *)
LEMMA NextCarrierFields ==
  ASSUME TypeInv, NEW r \in Requests, NextCarrier(r)
  PROVE  /\ req'[r].pc = "pick"
         /\ \A q \in Requests : q # r => req'[q] = req[q]
  BY ReqTyped DEF NextCarrier, TypeInv, TypeOK

(* ... and so does answering.                                              *)
LEMMA AnswerFields ==
  ASSUME TypeInv, NEW r \in Requests, Answer(r)
  PROVE  /\ req'[r].pc = "idle"
         /\ \A q \in Requests : q # r => req'[q] = req[q]
  BY ReqTyped DEF Answer, IdleReq, TypeInv, TypeOK

(* The calls another request has at hand are as they were for it.          *)
LEMMA OthersOwn ==
  ASSUME TypeInv, CallsInv, Monotone, NEW q \in Requests, req'[q] = req[q]
  PROVE  Own(q)'
<1>1. req[q].pc \in Flight \cup HangupPCs => req[q].call \in Calls
  BY ReqTyped DEF Ready, Flight
<1>2. req[q].pc \in Flight => [agent |-> req[q].agent, carrier |-> req[q].carrier] \in Route
  BY ReqTyped DEF Route, Ready, Flight
<1>3. req[q].pc \in Flight => placed[req[q].call] # None
  BY <1>2, NoneAssumption DEF CallsInv, Own
<1>4. QED
  BY <1>1, <1>3 DEF CallsInv, Own, Monotone, Flight, HangupPCs, AfterKill

(* A call that has outlived its keys is remembered until it is down.       *)
Remembered == \A u \in expired : u \in expired' \/ leg[u] = "down"

(* A step that leaves calls, keys and FreeSWITCH alone, and does not drop  *)
(* a call it has in hand.                                                  *)
LEMMA QuietStep ==
  ASSUME TypeInv, CallsInv, NEW r \in Requests,
         UNCHANGED <<meta, agentCall, placed, leg, lost>>, Remembered,
         \A q \in Requests : q # r => req'[q] = req[q],
         Own(r)',
         req[r].pc \in Flight =>
           req'[r].pc \in Flight /\ req'[r].call = req[r].call
  PROVE  CallsInv'
<1>1. Monotone
  BY DEF Monotone
<1>2. \A q \in Requests : Own(q)'
  BY <1>1, OthersOwn
<1>3. LegsPlaced' /\ MetaRight' /\ CurrentRight'
  BY DEF CallsInv, LegsPlaced, MetaRight, CurrentRight
<1>4. UpLegTracked'
  BY DEF CallsInv, UpLegTracked, Remembered, Flight
<1>5. QED
  BY <1>2, <1>3, <1>4 DEF CallsInv

(* The quiet actions of Originate: choosing a carrier, failing to dial,    *)
(* counting.                                                               *)
LEMMA OriginateQuiet ==
  ASSUME TypeInv, CallsInv, NEW r \in Requests,
         \/ Skip(r) \/ Admit(r) \/ Refuse(r) \/ DialFails(r)
         \/ Incr(r) \/ IncrFails(r)
  PROVE  CallsInv'
<1> USE DEF At, redis, freeswitch, ghosts, errors
<1>1. CASE Skip(r) \/ DialFails(r)
  <2>1. NextCarrier(r) /\ UNCHANGED <<meta, agentCall, placed, leg, lost, expired>>
        /\ req[r].pc \notin Flight
    BY <1>1 DEF Skip, DialFails, Flight
  <2>2. Own(r)'
    BY <2>1, NextCarrierFields DEF Own, Flight, HangupPCs, AfterKill
  <2>3. QED
    BY <2>1, <2>2, NextCarrierFields, QuietStep DEF Remembered
<1>2. CASE Refuse(r)
  <2>1. Answer(r) /\ UNCHANGED <<meta, agentCall, placed, leg, lost, expired>>
        /\ req[r].pc \notin Flight
    BY <1>2 DEF Refuse, Flight
  <2>2. Own(r)'
    BY <2>1, AnswerFields DEF Own, Flight, HangupPCs, AfterKill
  <2>3. QED
    BY <2>1, <2>2, AnswerFields, QuietStep DEF Remembered
<1>3. CASE Admit(r)
  <2>1. /\ UNCHANGED <<meta, agentCall, placed, leg, lost, expired>>
        /\ req[r].pc \notin Flight /\ req'[r].pc = "dial"
        /\ \A q \in Requests : q # r => req'[q] = req[q]
    BY <1>3, ReqTyped DEF Admit, Flight, TypeInv, TypeOK
  <2>2. Own(r)'
    BY <2>1 DEF Own, Flight, HangupPCs, AfterKill
  <2>3. QED
    BY <2>1, <2>2, QuietStep DEF Remembered
<1>4. CASE Incr(r) \/ IncrFails(r)
  <2>1. /\ UNCHANGED <<meta, agentCall, placed, leg, lost, expired>>
        /\ req[r].pc = "incr"
        /\ Goto(r, "save") \/ Goto(r, "kill")
    BY <1>4 DEF Incr, IncrFails
  <2>2. /\ req'[r].pc \in {"save", "kill"} /\ req'[r].call = req[r].call
        /\ req'[r].agent = req[r].agent /\ req'[r].carrier = req[r].carrier
        /\ \A q \in Requests : q # r => req'[q] = req[q]
    BY <2>1, GotoFields
  <2>3. Own(r)'
    BY <2>1, <2>2 DEF CallsInv, Own, Flight, HangupPCs, AfterKill
  <2>4. QED
    BY <2>1, <2>2, <2>3, QuietStep DEF Remembered, Flight
<1>5. QED
  BY <1>1, <1>2, <1>3, <1>4

(* The quiet actions of Hangup: reading the keys, counting, releasing.     *)
LEMMA HangupQuiet ==
  ASSUME TypeInv, CallsInv, NEW r \in Requests,
         \/ LoadMeta(r) \/ Decr(r) \/ DecrFails(r) \/ Clamp(r)
         \/ GetMine(r) \/ Release(r)
  PROVE  CallsInv'
<1> USE DEF At, redis, freeswitch, ghosts, errors
<1>1. /\ UNCHANGED <<meta, agentCall, placed, leg, lost>>
      /\ req[r].pc \in HangupPCs /\ req[r].pc \notin Flight
  BY DEF LoadMeta, Decr, DecrFails, Clamp, GetMine, Release, HangupPCs, Flight
<1>2. /\ req'[r].pc = "idle" \/ (req'[r].call = req[r].call /\ req'[r].agent = req[r].agent)
      /\ req'[r].pc \in {"idle"} \cup HangupPCs
      /\ req'[r].pc \in AfterKill => req[r].pc \in AfterKill
      /\ \A q \in Requests : q # r => req'[q] = req[q]
  <2>1. CASE DecrFails(r) \/ Release(r)
    BY <2>1, AnswerFields DEF DecrFails, Release, HangupPCs, AfterKill
  <2>2. CASE Decr(r) \/ Clamp(r) \/ GetMine(r)
    <3>1. /\ Goto(r, "clamp") \/ Goto(r, "delMeta") \/ Goto(r, "delMine") \/ Goto(r, "release")
          /\ req[r].pc \in AfterKill
      BY <2>2 DEF Decr, Clamp, GetMine, AfterKill
    <3>2. QED
      BY <3>1, GotoFields DEF HangupPCs, AfterKill
  <2>3. CASE LoadMeta(r)
    <3>1. /\ req'[r].pc = "uuidKill"
          /\ req'[r].call = req[r].call /\ req'[r].agent = req[r].agent
          /\ \A q \in Requests : q # r => req'[q] = req[q]
      BY <2>3, ReqTyped DEF LoadMeta, Goto, TypeInv, TypeOK
    <3>2. QED
      BY <3>1 DEF HangupPCs, AfterKill
  <2>4. QED
    BY <2>1, <2>2, <2>3
<1>3. Own(r)'
  BY <1>1, <1>2 DEF CallsInv, Own, Flight, HangupPCs, AfterKill
<1>4. Remembered
  <2>1. CASE Decr(r)
    <3>1. leg[req[r].call] = "down" /\ expired' = expired \ {req[r].call}
      BY <2>1 DEF Decr, CallsInv, Own, AfterKill
    <3>2. QED
      BY <3>1 DEF Remembered
  <2>2. CASE ~Decr(r)
    <3>1. expired' = expired
      BY <2>2 DEF LoadMeta, DecrFails, Clamp, GetMine, Release
    <3>2. QED
      BY <3>1 DEF Remembered
  <2>3. QED
    BY <2>1, <2>2
<1>5. QED
  BY <1>1, <1>2, <1>3, <1>4, QuietStep

(* A new request: a hangup is only let in for the agent's own call.        *)
LEMMA ArriveCalls ==
  ASSUME TypeInv, CallsInv, NEW r \in Requests, Arrive(r)
  PROVE  CallsInv'
<1> USE DEF At, redis, freeswitch, ghosts, errors
<1>1. /\ UNCHANGED <<meta, agentCall, placed, leg, lost, expired>>
      /\ req[r].pc \notin Flight
      /\ \A q \in Requests : q # r => req'[q] = req[q]
  BY DEF Arrive, Originate, HangupCurrent, HangupCall, Flight, TypeInv, TypeOK
<1>2. ASSUME NEW a \in Agents, Originate(r, a) PROVE Own(r)'
  <2>1. req'[r].pc = "pick"
    BY <1>2, ReqTyped DEF Originate, TypeInv, TypeOK
  <2>2. QED
    BY <2>1 DEF Own, Flight, HangupPCs, AfterKill
<1>3. ASSUME NEW a \in Agents, HangupCurrent(r, a) PROVE Own(r)'
  <2>1. req'[r].pc = "load" /\ req'[r].agent = a /\ req'[r].call = agentCall[a]
    BY <1>3, ReqTyped DEF HangupCurrent, TypeInv, TypeOK
  <2>2. QED
    BY <1>1, <1>3, <2>1
    DEF HangupCurrent, CallsInv, CurrentRight, Own, Flight, HangupPCs, AfterKill
<1>4. ASSUME NEW a \in Agents, NEW u \in Calls, HangupCall(r, a, u) PROVE Own(r)'
  <2>1. req'[r].pc = "uuidKill" /\ req'[r].agent = a /\ req'[r].call = u
    BY <1>4, ReqTyped DEF HangupCall, TypeInv, TypeOK
  <2>2. QED
    BY <1>1, <1>4, <2>1
    DEF HangupCall, CallsInv, MetaRight, Own, Flight, HangupPCs, AfterKill
<1>5. QED
  BY <1>1, <1>2, <1>3, <1>4, QuietStep DEF Arrive, Remembered

-----------------------------------------------------------------------------
(* A call is placed: nothing knew it before.                               *)
LEMMA LegUpStep ==
  ASSUME TypeInv, CallsInv, NEW r \in Requests, NEW u \in Calls, LegUp(r, u),
         req[r].pc = "dial", UNCHANGED <<meta, agentCall>>
  PROVE  /\ Monotone /\ LegsPlaced' /\ MetaRight' /\ CurrentRight'
         /\ placed'[u] = [agent |-> req[r].agent, carrier |-> req[r].carrier]
         /\ \A w \in Calls : w # u => leg'[w] = leg[w]
<1>1. /\ placed'[u] = [agent |-> req[r].agent, carrier |-> req[r].carrier]
      /\ leg'[u] = "up"
      /\ \A w \in Calls : w # u => leg'[w] = leg[w] /\ placed'[w] = placed[w]
  BY DEF LegUp, TypeInv, TypeOK
<1>2. placed[u] = None /\ leg[u] = "unused"
  BY DEF LegUp, CallsInv, LegsPlaced
<1>3. [agent |-> req[r].agent, carrier |-> req[r].carrier] \in Route
  BY ReqTyped DEF Route, Ready
<1>4. placed'[u] # None
  BY <1>1, <1>3, NoneAssumption
<1>5. Monotone /\ LegsPlaced'
  BY <1>1, <1>2, <1>4 DEF Monotone, CallsInv, LegsPlaced
<1>6. MetaRight'
  BY <1>1, <1>2 DEF CallsInv, MetaRight
<1>7. \A a \in Agents : agentCall[a] # None => agentCall[a] \in Calls /\ agentCall[a] # u
  BY <1>2 DEF CallsInv, CurrentRight, TypeInv, TypeOK
<1>8. CurrentRight'
  BY <1>1, <1>7 DEF CallsInv, CurrentRight
<1>9. QED
  BY <1>1, <1>5, <1>6, <1>8

(* A call that was placed ends.                                            *)
LEMMA LegDownStep ==
  ASSUME TypeInv, CallsInv, NEW u \in Calls, LegDown(u), placed[u] # None,
         UNCHANGED <<meta, agentCall, placed>>
  PROVE  /\ Monotone /\ LegsPlaced' /\ MetaRight' /\ CurrentRight'
         /\ leg'[u] = "down"
         /\ \A w \in Calls : w # u => leg'[w] = leg[w]
<1>1. leg'[u] = "down" /\ \A w \in Calls : w # u => leg'[w] = leg[w]
  BY DEF LegDown, TypeInv, TypeOK
<1>2. Monotone /\ LegsPlaced'
  BY <1>1 DEF Monotone, CallsInv, LegsPlaced
<1>3. MetaRight' /\ CurrentRight'
  BY DEF CallsInv, MetaRight, CurrentRight
<1>4. QED
  BY <1>1, <1>2, <1>3

(* Calls stay tracked when no leg comes up, no meta of a live call goes    *)
(* away, and the call a request lets go of is down, saved or lost.         *)
LEMMA TrackedStep ==
  ASSUME CallsInv, NEW r \in Requests,
         \A q \in Requests : q # r => req'[q] = req[q],
         lost \subseteq lost', Remembered,
         \A w \in Calls : leg'[w] = "up" =>
           leg[w] = "up" /\ (meta[w] # None => meta'[w] # None),
         req[r].pc \in Flight =>
           \/ req'[r].pc \in Flight /\ req'[r].call = req[r].call
           \/ leg'[req[r].call] # "up"
           \/ meta'[req[r].call] # None
           \/ req[r].call \in lost'
  PROVE  UpLegTracked'
<1> SUFFICES ASSUME NEW u \in Calls, leg'[u] = "up"
             PROVE  \/ meta'[u] # None
                    \/ u \in lost' \cup expired'
                    \/ \E q \in Requests : req'[q].call = u /\ req'[q].pc \in Flight
  BY DEF UpLegTracked, Flight
<1>1. \/ meta[u] # None \/ u \in lost \cup expired
      \/ \E q \in Requests : req[q].call = u /\ req[q].pc \in Flight
  BY DEF CallsInv, UpLegTracked, Flight
<1>2. u \in expired => u \in expired'
  BY DEF Remembered
<1>3. QED
  BY <1>1, <1>2

(* The actions of Originate that place, save or give up a call.            *)
LEMMA OriginateCalls ==
  ASSUME TypeInv, CallsInv, NEW r \in Requests, OriginateStep(r)
  PROVE  CallsInv'
<1> USE DEF At, redis, freeswitch, ghosts, errors
<1>1. CASE DialOK(r)
  <2>1. PICK u \in Calls : LegUp(r, u) /\ req' = [req EXCEPT ![r].pc = "incr", ![r].call = u]
    BY <1>1 DEF DialOK
  <2>2. /\ req'[r].pc = "incr" /\ req'[r].call = u
        /\ req'[r].agent = req[r].agent /\ req'[r].carrier = req[r].carrier
        /\ \A q \in Requests : q # r => req'[q] = req[q]
    BY <2>1, ReqTyped DEF TypeInv, TypeOK
  <2>3. UNCHANGED <<meta, agentCall, lost, expired>> /\ req[r].pc = "dial"
    BY <1>1 DEF DialOK
  <2>4. /\ Monotone /\ LegsPlaced' /\ MetaRight' /\ CurrentRight'
        /\ placed'[u] = [agent |-> req[r].agent, carrier |-> req[r].carrier]
        /\ \A w \in Calls : w # u => leg'[w] = leg[w]
    BY <2>1, <2>3, LegUpStep
  <2>5. Own(r)'
    BY <2>2, <2>4 DEF Own, Flight, HangupPCs, AfterKill
  <2>6. \A q \in Requests : Own(q)'
    BY <2>2, <2>4, <2>5, OthersOwn
  <2>7. UpLegTracked'
    <3> SUFFICES ASSUME NEW w \in Calls, leg'[w] = "up"
                 PROVE  \/ meta'[w] # None
                        \/ w \in lost' \cup expired'
                        \/ \E q \in Requests : req'[q].call = w /\ req'[q].pc \in Flight
      BY DEF UpLegTracked, Flight
    <3>1. CASE w = u
      BY <2>2, <3>1 DEF Flight
    <3>2. CASE w # u
      <4>1. \/ meta[w] # None \/ w \in lost \cup expired
            \/ \E q \in Requests : req[q].call = w /\ req[q].pc \in Flight
        BY <2>4, <3>2 DEF CallsInv, UpLegTracked, Flight
      <4>2. QED
        BY <2>2, <2>3, <4>1 DEF Flight
    <3>3. QED BY <3>1, <3>2
  <2>8. QED
    BY <2>4, <2>6, <2>7 DEF CallsInv
<1>2. CASE DialReplyLost(r)
  <2>1. PICK u \in Calls : LegUp(r, u) /\ lost' = lost \cup {u}
    BY <1>2 DEF DialReplyLost
  <2>2. /\ req'[r].pc = "pick"
        /\ \A q \in Requests : q # r => req'[q] = req[q]
    BY <1>2, NextCarrierFields DEF DialReplyLost
  <2>3. UNCHANGED <<meta, agentCall, expired>> /\ req[r].pc = "dial"
    BY <1>2 DEF DialReplyLost
  <2>4. /\ Monotone /\ LegsPlaced' /\ MetaRight' /\ CurrentRight'
        /\ \A w \in Calls : w # u => leg'[w] = leg[w]
    BY <2>1, <2>3, LegUpStep
  <2>5. Own(r)'
    BY <2>2 DEF Own, Flight, HangupPCs, AfterKill
  <2>6. \A q \in Requests : Own(q)'
    BY <2>2, <2>4, <2>5, OthersOwn
  <2>7. UpLegTracked'
    <3> SUFFICES ASSUME NEW w \in Calls, leg'[w] = "up", w # u
                 PROVE  \/ meta'[w] # None
                        \/ w \in lost' \cup expired'
                        \/ \E q \in Requests : req'[q].call = w /\ req'[q].pc \in Flight
      BY <2>1 DEF UpLegTracked, Flight
    <3>1. \/ meta[w] # None \/ w \in lost \cup expired
          \/ \E q \in Requests : req[q].call = w /\ req[q].pc \in Flight
      BY <2>4 DEF CallsInv, UpLegTracked, Flight
    <3>2. QED
      BY <2>1, <2>2, <2>3, <3>1 DEF Flight
  <2>8. QED
    BY <2>4, <2>6, <2>7 DEF CallsInv
<1>3. CASE Save(r) \/ SaveAgain(r) \/ SaveFails(r)
  <2>1. /\ req[r].pc = "save" /\ UNCHANGED <<placed, leg, lost, expired>>
        /\ SaveKeys(r) \/ UNCHANGED <<meta, agentCall>>
        /\ \/ SaveKeys(r) /\ (Answer(r) \/ UNCHANGED req)
           \/ Goto(r, "kill")
    BY <1>3 DEF Save, SaveAgain, SaveFails
  <2>2. /\ req[r].call \in Calls /\ req[r].agent \in Agents
        /\ [agent |-> req[r].agent, carrier |-> req[r].carrier] \in Route
        /\ placed[req[r].call] = [agent |-> req[r].agent, carrier |-> req[r].carrier]
    BY <2>1, ReqTyped DEF Ready, Route, CallsInv, Own, Flight
  <2>3. SaveKeys(r) => meta'[req[r].call] # None
    BY <2>2, NoneAssumption DEF SaveKeys, TypeInv, TypeOK
  <2>4. Monotone /\ LegsPlaced'
    BY <2>1 DEF Monotone, CallsInv, LegsPlaced
  <2>5. MetaRight' /\ CurrentRight'
    <3>1. CASE SaveKeys(r)
      <4>1. MetaRight'
        BY <2>1, <2>2, <3>1 DEF SaveKeys, CallsInv, MetaRight, TypeInv, TypeOK
      <4>2. placed[req[r].call] # None /\ placed[req[r].call].agent = req[r].agent
        BY <2>2, NoneAssumption
      <4>3. CurrentRight'
        BY <2>1, <2>2, <3>1, <4>2 DEF SaveKeys, CallsInv, CurrentRight, TypeInv, TypeOK
      <4>4. QED BY <4>1, <4>3
    <3>2. CASE UNCHANGED <<meta, agentCall>>
      BY <2>1, <3>2 DEF CallsInv, MetaRight, CurrentRight
    <3>3. QED BY <2>1, <3>1, <3>2
  <2>6. /\ \/ req'[r].pc = "idle" /\ meta'[req[r].call] # None
           \/ /\ req'[r].pc \in {"save", "kill"} /\ req'[r].call = req[r].call
              /\ req'[r].agent = req[r].agent /\ req'[r].carrier = req[r].carrier
        /\ \A q \in Requests : q # r => req'[q] = req[q]
    BY <2>1, <2>3, AnswerFields, GotoFields
  <2>7. Own(r)'
    BY <2>1, <2>2, <2>6 DEF Own, Flight, HangupPCs, AfterKill
  <2>8. \A q \in Requests : Own(q)'
    BY <2>4, <2>6, <2>7, OthersOwn
  <2>9. \A w \in Calls : meta[w] # None => meta'[w] # None
    BY <2>1, <2>2, <2>3 DEF SaveKeys, TypeInv, TypeOK
  <2>10. UpLegTracked'
    BY <2>1, <2>6, <2>9, TrackedStep DEF Remembered, Flight
  <2>11. QED
    BY <2>4, <2>5, <2>8, <2>10 DEF CallsInv
<1>4. CASE Abandon(r)
  <2>1. /\ req[r].pc = "kill" /\ Answer(r)
        /\ UNCHANGED <<meta, agentCall, placed, expired>>
        /\ \/ LegDown(req[r].call) /\ UNCHANGED lost
           \/ UNCHANGED leg /\ lost' = lost \cup {req[r].call}
    BY <1>4 DEF Abandon
  <2>2. /\ req[r].call \in Calls
        /\ [agent |-> req[r].agent, carrier |-> req[r].carrier] \in Route
        /\ placed[req[r].call] = [agent |-> req[r].agent, carrier |-> req[r].carrier]
    BY <2>1, ReqTyped DEF Ready, Route, CallsInv, Own, Flight
  <2>3. placed[req[r].call] # None
    BY <2>2, NoneAssumption
  <2>4. /\ Monotone /\ LegsPlaced' /\ MetaRight' /\ CurrentRight'
        /\ \A w \in Calls : leg'[w] = "up" => leg[w] = "up"
        /\ leg'[req[r].call] # "up" \/ req[r].call \in lost'
    <3>1. CASE LegDown(req[r].call)
      BY <2>1, <2>2, <2>3, <3>1, LegDownStep
    <3>2. CASE UNCHANGED leg /\ lost' = lost \cup {req[r].call}
      BY <2>1, <3>2 DEF Monotone, CallsInv, LegsPlaced, MetaRight, CurrentRight
    <3>3. QED BY <2>1, <3>1, <3>2
  <2>5. /\ req'[r].pc = "idle"
        /\ \A q \in Requests : q # r => req'[q] = req[q]
    BY <2>1, AnswerFields
  <2>6. Own(r)'
    BY <2>5 DEF Own, Flight, HangupPCs, AfterKill
  <2>7. \A q \in Requests : Own(q)'
    BY <2>4, <2>5, <2>6, OthersOwn
  <2>8. UpLegTracked'
    BY <2>1, <2>4, <2>5, TrackedStep DEF Remembered
  <2>9. QED
    BY <2>4, <2>7, <2>8 DEF CallsInv
<1>5. QED
  BY <1>1, <1>2, <1>3, <1>4, OriginateQuiet DEF OriginateStep

(* The actions of Hangup: a leg is killed before its keys go.              *)
LEMMA HangupCalls ==
  ASSUME TypeInv, CallsInv, NEW r \in Requests, HangupStep(r)
  PROVE  CallsInv'
<1> USE DEF At, redis, freeswitch, ghosts, errors
<1>1. CASE UuidKill(r) \/ UuidKillFails(r)
  <2>1. /\ req[r].pc = "uuidKill" /\ UNCHANGED <<meta, agentCall, placed, lost, expired>>
        /\ LegDown(req[r].call) \/ UNCHANGED leg
        /\ \/ LegDown(req[r].call) /\ (Goto(r, "delMeta") \/ Goto(r, "decr"))
           \/ Answer(r)
    BY <1>1 DEF UuidKill, UuidKillFails
  <2>2. req[r].call \in Calls /\ placed[req[r].call] # None
        /\ placed[req[r].call].agent = req[r].agent
    BY <2>1, ReqTyped DEF Ready, CallsInv, Own, HangupPCs
  <2>3. /\ Monotone /\ LegsPlaced' /\ MetaRight' /\ CurrentRight'
        /\ \A w \in Calls : leg'[w] = "up" => leg[w] = "up"
    <3>1. CASE LegDown(req[r].call)
      BY <2>1, <2>2, <3>1, LegDownStep
    <3>2. CASE UNCHANGED leg
      BY <2>1, <3>2 DEF Monotone, CallsInv, LegsPlaced, MetaRight, CurrentRight
    <3>3. QED BY <2>1, <3>1, <3>2
  <2>4. /\ \/ req'[r].pc = "idle"
           \/ /\ req'[r].pc \in {"delMeta", "decr"} /\ req'[r].call = req[r].call
              /\ req'[r].agent = req[r].agent /\ LegDown(req[r].call)
        /\ \A q \in Requests : q # r => req'[q] = req[q]
    BY <2>1, AnswerFields, GotoFields
  <2>5. LegDown(req[r].call) => leg'[req[r].call] = "down"
    BY <2>2 DEF LegDown, TypeInv, TypeOK
  <2>6. Own(r)'
    BY <2>1, <2>2, <2>4, <2>5 DEF Own, Flight, HangupPCs, AfterKill
  <2>7. \A q \in Requests : Own(q)'
    BY <2>3, <2>4, <2>6, OthersOwn
  <2>8. UpLegTracked'
    BY <2>1, <2>3, <2>4, TrackedStep DEF Remembered, Flight
  <2>9. QED
    BY <2>3, <2>7, <2>8 DEF CallsInv
<1>2. CASE DelMeta(r) \/ DelMine(r)
  <2>1. /\ req[r].pc \in {"delMeta", "delMine"} /\ UNCHANGED <<placed, leg, lost, expired>>
        /\ Goto(r, "getMine") \/ Goto(r, "release")
        /\ meta' = [meta EXCEPT ![req[r].call] = None] \/ UNCHANGED meta
        /\ agentCall' = [agentCall EXCEPT ![req[r].agent] = None] \/ UNCHANGED agentCall
    BY <1>2 DEF DelMeta, DelMine
  <2>2. /\ req'[r].pc \in {"getMine", "release"} /\ req'[r].call = req[r].call
        /\ req'[r].agent = req[r].agent
        /\ \A q \in Requests : q # r => req'[q] = req[q]
    BY <2>1, GotoFields
  <2>3. leg[req[r].call] = "down" /\ req[r].call \in Calls /\ req[r].agent \in Agents
    BY <2>1, ReqTyped DEF Ready, CallsInv, Own, AfterKill, HangupPCs
  <2>4. Monotone /\ LegsPlaced'
    BY <2>1 DEF Monotone, CallsInv, LegsPlaced
  <2>5. MetaRight' /\ CurrentRight'
    BY <2>1, <2>3 DEF CallsInv, MetaRight, CurrentRight, TypeInv, TypeOK
  <2>6. Own(r)'
    BY <2>1, <2>2 DEF CallsInv, Own, Flight, HangupPCs, AfterKill
  <2>7. \A q \in Requests : Own(q)'
    BY <2>2, <2>4, <2>6, OthersOwn
  <2>8. \A w \in Calls : leg'[w] = "up" => leg[w] = "up" /\ (meta[w] # None => meta'[w] # None)
    BY <2>1, <2>3 DEF TypeInv, TypeOK
  <2>9. UpLegTracked'
    BY <2>1, <2>2, <2>8, TrackedStep DEF Remembered, Flight
  <2>10. QED
    BY <2>4, <2>5, <2>7, <2>9 DEF CallsInv
<1>3. QED
  BY <1>1, <1>2, HangupQuiet DEF HangupStep

(* Every step keeps the calls as they are known.                           *)
LEMMA NextCalls == TypeInv /\ CallsInv /\ [Next]_vars => CallsInv'
<1> SUFFICES ASSUME TypeInv, CallsInv, [Next]_vars PROVE CallsInv'
  OBVIOUS
<1>1. ASSUME NEW r \in Requests, Arrive(r) \/ OriginateStep(r) \/ HangupStep(r)
      PROVE  CallsInv'
  BY <1>1, ArriveCalls, OriginateCalls, HangupCalls
<1>2. ASSUME NEW u \in Calls, FarHangup(u) PROVE CallsInv'
  <2>1. LegDown(u) /\ UNCHANGED <<meta, agentCall, placed, req, lost, expired>>
        /\ leg[u] = "up"
    BY <1>2 DEF FarHangup, redis, ghosts, errors
  <2>2. placed[u] # None
    BY <2>1 DEF CallsInv, LegsPlaced
  <2>3. /\ Monotone /\ LegsPlaced' /\ MetaRight' /\ CurrentRight'
        /\ \A w \in Calls : leg'[w] = "up" => leg[w] = "up"
    BY <2>1, <2>2, LegDownStep
  <2>4. \A q \in Requests : Own(q)'
    BY <2>1, <2>3, OthersOwn
  <2>5. UpLegTracked'
    BY <2>1, <2>3 DEF CallsInv, UpLegTracked
  <2>6. QED
    BY <2>3, <2>4, <2>5 DEF CallsInv
<1>3. ASSUME NEW u \in Calls, ExpireKeys(u) PROVE CallsInv'
  <2>1. /\ UNCHANGED <<leg, placed, req, lost>>
        /\ \A w \in Calls : meta'[w] = meta[w] \/ (w = u /\ meta'[w] = None)
        /\ \A a \in Agents : agentCall'[a] \in {agentCall[a], None}
        /\ expired' = IF CountedCall(u) THEN expired \cup {u} ELSE expired
    BY <1>3 DEF ExpireKeys, freeswitch, TypeInv, TypeOK
  <2>2. LegsPlaced' /\ MetaRight' /\ CurrentRight' /\ \A r \in Requests : Own(r)'
    BY <2>1 DEF CallsInv, LegsPlaced, MetaRight, CurrentRight, Own
  <2>3. leg[u] = "up" /\ meta[u] # None => CountedCall(u)
    <3>1. HAVE leg[u] = "up" /\ meta[u] # None
    <3>2. ~Deducted(u)
      BY <3>1 DEF Deducted, CallsInv, Own, AfterKill
    <3>3. placed[u] # None
      BY <3>1 DEF CallsInv, LegsPlaced
    <3>4. QED
      BY <3>1, <3>2, <3>3 DEF CountedCall, Counted
  <2>4. UpLegTracked'
    <3> SUFFICES ASSUME NEW w \in Calls, leg[w] = "up"
                 PROVE  \/ meta'[w] # None
                        \/ w \in lost \cup expired'
                        \/ \E r \in Requests : req[r].call = w /\ req[r].pc \in Flight
      BY <2>1 DEF UpLegTracked, Flight
    <3>1. \/ meta[w] # None
          \/ w \in lost \cup expired
          \/ \E r \in Requests : req[r].call = w /\ req[r].pc \in Flight
      BY DEF CallsInv, UpLegTracked, Flight
    <3>2. CASE meta[w] # None
      BY <2>1, <2>3, <3>2
    <3>3. QED
      BY <2>1, <3>1, <3>2
  <2>5. QED
    BY <2>2, <2>4 DEF CallsInv
<1>4. CASE UNCHANGED <<meta, agentCall, leg, placed, req, lost, expired>>
  BY <1>4 DEF CallsInv, LegsPlaced, MetaRight, CurrentRight, Own, UpLegTracked
<1>5. QED
  BY <1>1, <1>2, <1>3, <1>4 DEF Next, vars, InboundClaim, freeswitch, ghosts, errors

(* Types and calls together are inductive.                                 *)
THEOREM CallsSound == Spec => [](TypeInv /\ CallsInv)
  BY InitTypeInv, InitCalls, NextTyped, NextCalls, PTL DEF Spec

(* No agent ever hangs up a call of another, with or without a UUID, for   *)
(* any number of agents and requests (manual.go:216-266).                  *)
THEOREM OwnCallsOnly == Spec => []HangsUpOwnCall
<1>1. TypeInv /\ CallsInv => HangsUpOwnCall
  BY DEF CallsInv, Own, HangsUpOwnCall
<1>2. QED
  BY <1>1, CallsSound, PTL

(* A live call can be hung up or is in hand, whatever Redis errors and     *)
(* hangups come together (manual.go:192-195).                              *)
THEOREM LegsTracked == Spec => []UpLegTracked
<1>1. TypeInv /\ CallsInv => UpLegTracked
  BY DEF CallsInv
<1>2. QED
  BY <1>1, CallsSound, PTL

(* An agent is released by a hangup only when the call is down.            *)
THEOREM ReleaseIsLate == Spec => FreedAfterKill
<1> DEFINE Freed == \A r \in Requests :
       (req[r].pc = "release" /\ presence' # presence) => leg[req[r].call] = "down"
<1>1. TypeInv /\ CallsInv => Freed
  BY DEF CallsInv, Own, AfterKill
<1>2. [](TypeInv /\ CallsInv) => [][Freed]_vars
  BY <1>1, PTL
<1>3. QED
  BY <1>2, CallsSound, PTL DEF FreedAfterKill

-----------------------------------------------------------------------------
(* The ledger.  A call is counted once, by the request that placed it;     *)
(* until then nothing else knows of the call.                              *)
InHand == Flight \cup HangupPCs

Fresh(r) ==
  req[r].pc = "incr" =>
    /\ meta[req[r].call] = None /\ req[r].call \notin expired
    /\ \A a \in Agents : agentCall[a] # req[r].call
    /\ \A q \in Requests \ {r} : req[q].pc \in InHand => req[q].call # req[r].call

(* A hangup takes the channel from the carrier of the call, or from none   *)
(* when it could not read the meta; a counter falls below zero only after  *)
(* a mistake, and a call that is deducted is no longer remembered.         *)
Carries(r) ==
  /\ req[r].pc \in {"idle", "load"} => req[r].carrier = None
  /\ req[r].pc \in {"uuidKill", "decr", "clamp", "delMeta"} =>
       req[r].carrier \in {None, placed[req[r].call].carrier}
  /\ req[r].pc = "clamp" => req[r].carrier \in overdrawn
  /\ req[r].pc \in {"clamp", "delMeta"} /\ req[r].carrier # None =>
       req[r].call \notin expired

Parts == \A r \in Requests : Fresh(r) /\ Carries(r)

PlacedFinite == IsFiniteSet({u \in Calls : placed[u] # None})

ExpiredPlaced == \A u \in expired : placed[u] # None

Books == Parts /\ PlacedFinite /\ ExpiredPlaced /\ CountExact

(* The part of a request in whether its call is counted.                   *)
Saves(r, u) == req[r].pc = "save" /\ req[r].call = u
Deducts(r, u) == /\ req[r].pc \in {"clamp", "delMeta"}
                 /\ req[r].call = u /\ req[r].carrier # None

(* What a step of r may do to the keys of calls, and how it may come to a  *)
(* call.                                                                   *)
Frame(r) ==
  /\ \A q \in Requests : q # r => req'[q] = req[q]
  /\ \A u \in Calls : placed[u] # None => placed'[u] = placed[u]
  /\ \A u \in Calls : \/ meta'[u] \in {meta[u], None}
                      \/ req[r].pc = "save" /\ u = req[r].call
  /\ \A a \in Agents : \/ agentCall'[a] \in {agentCall[a], None}
                       \/ req[r].pc = "save" /\ agentCall'[a] = req[r].call
  /\ expired' \subseteq expired
  /\ leaked \subseteq leaked' /\ overdrawn \subseteq overdrawn'
  /\ req'[r].pc \in InHand =>
       \/ req[r].pc \in InHand /\ req'[r].call = req[r].call
       \/ placed[req'[r].call] = None
       \/ meta[req'[r].call] # None
       \/ \E a \in Agents : agentCall[a] = req'[r].call

(* The call a request has in hand is one that was placed.                  *)
LEMMA HandPlaced ==
  ASSUME TypeInv, CallsInv, NEW r \in Requests, req[r].pc \in InHand
  PROVE  /\ req[r].call \in Calls /\ req[r].call # None
         /\ placed[req[r].call] # None
         /\ req[r].pc \in Flight => /\ placed[req[r].call].carrier = req[r].carrier
                                    /\ req[r].carrier \in Carriers
         /\ req[r].pc \in AfterKill => leg[req[r].call] = "down"
<1>1. req[r].call \in Calls /\ req[r].call # None
  BY ReqTyped, NoneAssumption DEF Ready, InHand, Flight
<1>2. CASE req[r].pc \in Flight
  <2>1. /\ req[r].agent \in Agents /\ req[r].carrier \in Carriers
        /\ [agent |-> req[r].agent, carrier |-> req[r].carrier] \in Route
    BY <1>2, ReqTyped DEF Ready, Route, Flight
  <2>2. placed[req[r].call] = [agent |-> req[r].agent, carrier |-> req[r].carrier]
    BY <1>2 DEF CallsInv, Own
  <2>3. QED
    BY <1>1, <1>2, <2>1, <2>2, NoneAssumption DEF Flight, AfterKill
<1>3. CASE req[r].pc \in HangupPCs
  BY <1>1, <1>3 DEF CallsInv, Own, HangupPCs, Flight
<1>4. QED
  BY <1>2, <1>3 DEF InHand

(* The other requests keep what they know.                                 *)
LEMMA OthersParts ==
  ASSUME TypeInv, CallsInv, Parts, NEW r \in Requests, Frame(r),
         NEW q \in Requests, q # r
  PROVE  Fresh(q)' /\ Carries(q)'
<1>1. req'[q] = req[q]
  BY DEF Frame
<1>2. Fresh(q)'
  <2> SUFFICES ASSUME req[q].pc = "incr"
               PROVE  /\ meta'[req[q].call] = None /\ req[q].call \notin expired'
                      /\ \A a \in Agents : agentCall'[a] # req[q].call
                      /\ \A p \in Requests \ {q} :
                           req'[p].pc \in InHand => req'[p].call # req[q].call
    BY <1>1 DEF Fresh
  <2>1. /\ req[q].call \in Calls /\ req[q].call # None /\ placed[req[q].call] # None
    BY HandPlaced DEF InHand, Flight
  <2>2. /\ meta[req[q].call] = None /\ req[q].call \notin expired
        /\ \A a \in Agents : agentCall[a] # req[q].call
        /\ \A p \in Requests \ {q} : req[p].pc \in InHand => req[p].call # req[q].call
    BY DEF Parts, Fresh
  <2>3. req[r].pc = "save" => req[r].call # req[q].call
    BY <2>2 DEF InHand, Flight
  <2>4. meta'[req[q].call] = None /\ req[q].call \notin expired'
    BY <2>1, <2>2, <2>3 DEF Frame
  <2>5. \A a \in Agents : agentCall'[a] # req[q].call
    BY <2>1, <2>2, <2>3 DEF Frame
  <2>6. req'[r].pc \in InHand => req'[r].call # req[q].call
    BY <2>1, <2>2 DEF Frame
  <2>7. QED
    BY <2>2, <2>4, <2>5, <2>6 DEF Frame
<1>3. Carries(q)'
  <2>1. CASE req[q].pc \in {"uuidKill", "decr", "clamp", "delMeta"}
    <3>1. req[q].call \in Calls /\ placed[req[q].call] # None
      BY <2>1, HandPlaced DEF InHand, HangupPCs
    <3>2. placed'[req[q].call] = placed[req[q].call]
      BY <3>1 DEF Frame
    <3>3. QED
      BY <1>1, <2>1, <3>2 DEF Parts, Carries, Frame
  <2>2. CASE ~(req[q].pc \in {"uuidKill", "decr", "clamp", "delMeta"})
    BY <1>1, <2>2 DEF Parts, Carries
  <2>3. QED
    BY <2>1, <2>2
<1>4. QED
  BY <1>2, <1>3

(* A call that has just been placed is unknown.                            *)
LEMMA DialFresh ==
  ASSUME TypeInv, CallsInv, ExpiredPlaced, NEW u \in Calls, leg[u] = "unused"
  PROVE  /\ placed[u] = None /\ meta[u] = None /\ u \notin expired
         /\ \A a \in Agents : agentCall[a] # u
         /\ \A q \in Requests : req[q].pc \in InHand => req[q].call # u
<1>1. placed[u] = None
  BY DEF CallsInv, LegsPlaced
<1>2. meta[u] = None /\ u \notin expired
  BY <1>1 DEF CallsInv, MetaRight, ExpiredPlaced
<1>3. u # None
  BY NoneAssumption
<1>4. \A a \in Agents : agentCall[a] # u
  BY <1>1, <1>3 DEF CallsInv, CurrentRight
<1>5. \A q \in Requests : req[q].pc \in InHand => req[q].call # u
  BY <1>1, HandPlaced
<1>6. QED
  BY <1>1, <1>2, <1>4, <1>5

(* Finitely many calls have been placed, so a carrier's can be counted.    *)
Countable == \A c \in Carriers :
  IsFiniteSet(Counted(c)) /\ Cardinality(Counted(c)) \in Nat

LEMMA CountedFinite == PlacedFinite => Countable
<1> SUFFICES ASSUME PlacedFinite, NEW c \in Carriers
             PROVE  IsFiniteSet(Counted(c)) /\ Cardinality(Counted(c)) \in Nat
  BY DEF Countable
<1>1. Counted(c) \subseteq {u \in Calls : placed[u] # None}
  BY DEF Counted
<1>2. QED
  BY <1>1, FS_Subset, FS_CardinalityType DEF PlacedFinite

(* The same after a step.                                                  *)
LEMMA CountedFiniteNext == PlacedFinite' => Countable'
  BY CountedFinite, PTL

(* A carrier's entry stays right when its calls stay the same and its      *)
(* counter moves with an excuse, or is set to zero, ...                    *)
Entry(c) == /\ c \notin leaked => channels[c] <= Cardinality(Counted(c))
            /\ c \notin overdrawn => channels[c] >= Cardinality(Counted(c))

LEMMA EntryStays ==
  ASSUME TypeInv, TypeInv', PlacedFinite, NEW c \in Carriers, Entry(c),
         leaked \subseteq leaked', overdrawn \subseteq overdrawn',
         Counted(c)' = Counted(c),
         c \in leaked' \/ channels'[c] <= channels[c] \/ channels'[c] = 0,
         c \in overdrawn' \/ channels'[c] >= channels[c]
  PROVE  Entry(c)'
<1>1. Cardinality(Counted(c)) \in Nat /\ Cardinality(Counted(c)') = Cardinality(Counted(c))
  BY CountedFinite DEF Countable
<1>2. channels[c] \in Int /\ channels'[c] \in Int
  BY DEF TypeInv, TypeOK
<1>3. QED
  BY <1>1, <1>2 DEF Entry

(* ... when a call enters it that was not in it, ...                       *)
LEMMA EntryCounts ==
  ASSUME TypeInv, PlacedFinite, NEW c \in Carriers, Entry(c), NEW u, NEW n \in Int,
         leaked \subseteq leaked', overdrawn \subseteq overdrawn',
         u \notin Counted(c), Counted(c)' = Counted(c) \cup {u},
         channels'[c] = channels[c] + n, n >= 1, n > 1 => c \in leaked'
  PROVE  Entry(c)'
<1>1. Cardinality(Counted(c)) \in Nat /\ IsFiniteSet(Counted(c))
  BY CountedFinite DEF Countable
<1>2. Cardinality(Counted(c)') = Cardinality(Counted(c)) + 1
  BY <1>1, FS_AddElement
<1>3. channels[c] \in Int
  BY DEF TypeInv, TypeOK
<1>4. QED
  BY <1>1, <1>2, <1>3 DEF Entry

(* ... when the call leaves it that is deducted, ...                       *)
LEMMA EntryDeducts ==
  ASSUME TypeInv, PlacedFinite, NEW c \in Carriers, Entry(c), NEW u, NEW n \in Int,
         leaked \subseteq leaked', overdrawn \subseteq overdrawn',
         Counted(c)' = Counted(c) \ {u},
         channels'[c] = channels[c] - n, n >= 1,
         n > 1 \/ u \notin Counted(c) => c \in overdrawn'
  PROVE  Entry(c)'
<1>1. Cardinality(Counted(c)) \in Nat /\ IsFiniteSet(Counted(c))
  BY CountedFinite DEF Countable
<1>2. Cardinality(Counted(c)') = IF u \in Counted(c) THEN Cardinality(Counted(c)) - 1
                                 ELSE Cardinality(Counted(c))
  BY <1>1, FS_RemoveElement
<1>3. channels[c] \in Int
  BY DEF TypeInv, TypeOK
<1>4. QED
  BY <1>1, <1>2, <1>3 DEF Entry

(* ... and when calls leave or enter it with an excuse.                    *)
LEMMA EntryExcused ==
  ASSUME TypeInv, PlacedFinite, PlacedFinite', NEW c \in Carriers, Entry(c),
         leaked \subseteq leaked', overdrawn \subseteq overdrawn',
         channels'[c] = channels[c],
         c \in leaked' \/ Counted(c) \subseteq Counted(c)',
         c \in overdrawn' \/ Counted(c)' \subseteq Counted(c)
  PROVE  Entry(c)'
<1>1. IsFiniteSet(Counted(c)) /\ Cardinality(Counted(c)) \in Nat
  BY CountedFinite DEF Countable
<1>2. IsFiniteSet(Counted(c)') /\ Cardinality(Counted(c)') \in Nat
  BY CountedFiniteNext DEF Countable
<1>3. /\ Counted(c) \subseteq Counted(c)' =>
           Cardinality(Counted(c)) <= Cardinality(Counted(c)')
      /\ Counted(c)' \subseteq Counted(c) =>
           Cardinality(Counted(c)') <= Cardinality(Counted(c))
  BY <1>1, <1>2, FS_Subset
<1>4. channels[c] \in Int
  BY DEF TypeInv, TypeOK
<1>5. QED
  BY <1>1, <1>2, <1>3, <1>4 DEF Entry

(* What the step of one request has to show.                               *)
LEMMA BooksStep ==
  ASSUME TypeInv, CallsInv, Books, NEW r \in Requests, Frame(r),
         Fresh(r)', Carries(r)', PlacedFinite', \A c \in Carriers : Entry(c)'
  PROVE  Books'
<1>1. Parts'
  BY OthersParts DEF Books, Parts
<1>2. CountExact'
  BY DEF CountExact, Entry
<1>3. ExpiredPlaced'
  <2> SUFFICES ASSUME NEW u \in expired' PROVE placed'[u] # None
    BY DEF ExpiredPlaced
  <2>1. u \in expired /\ u \in Calls
    BY DEF Frame, TypeInv, TypeOK
  <2>2. QED
    BY <2>1 DEF Books, ExpiredPlaced, Frame
<1>4. QED
  BY <1>1, <1>2, <1>3 DEF Books

(* A step that saves no call and deducts none leaves the counted calls.    *)
LEMMA CountedStays ==
  ASSUME TypeInv, CallsInv, ExpiredPlaced, NEW r \in Requests, Frame(r),
         UNCHANGED <<meta, expired>>,
         \A u \in Calls : Saves(r, u)' = Saves(r, u) /\ Deducts(r, u)' = Deducts(r, u),
         NEW c \in Carriers
  PROVE  Counted(c)' = Counted(c)
<1> SUFFICES ASSUME NEW u \in Calls PROVE u \in Counted(c)' <=> u \in Counted(c)
  BY DEF Counted
<1>1. \A q \in Requests : Saves(q, u)' = Saves(q, u) /\ Deducts(q, u)' = Deducts(q, u)
  <2> SUFFICES ASSUME NEW q \in Requests, q # r
               PROVE  Saves(q, u)' = Saves(q, u) /\ Deducts(q, u)' = Deducts(q, u)
    OBVIOUS
  <2>1. req'[q] = req[q]
    BY DEF Frame
  <2>2. QED
    BY <2>1 DEF Saves, Deducts
<1>2. Saving(u)' = Saving(u) /\ Deducted(u)' = Deducted(u)
  BY <1>1 DEF Saving, Deducted, Saves, Deducts
<1>3. placed[u] = None => meta[u] = None /\ u \notin expired /\ ~Saving(u)
  <2>1. placed[u] = None => meta[u] = None /\ u \notin expired
    BY DEF CallsInv, MetaRight, ExpiredPlaced
  <2>2. placed[u] = None => ~Saving(u)
    BY HandPlaced DEF Saving, InHand, Flight
  <2>3. QED
    BY <2>1, <2>2
<1>4. CASE placed[u] = None
  BY <1>2, <1>3, <1>4 DEF Counted
<1>5. CASE placed[u] # None
  BY <1>2, <1>5 DEF Counted, Frame
<1>6. QED
  BY <1>4, <1>5

(* Most steps: no call is saved or deducted.                               *)
Excused(c) == /\ c \in leaked' \/ channels'[c] <= channels[c] \/ channels'[c] = 0
              /\ c \in overdrawn' \/ channels'[c] >= channels[c]

LEMMA QuietBooks ==
  ASSUME TypeInv, CallsInv, Books, TypeInv', NEW r \in Requests, Frame(r),
         UNCHANGED <<meta, expired>>,
         \A u \in Calls : Saves(r, u)' = Saves(r, u) /\ Deducts(r, u)' = Deducts(r, u),
         Fresh(r)', Carries(r)', PlacedFinite', \A c \in Carriers : Excused(c)
  PROVE  Books'
<1> SUFFICES ASSUME NEW c \in Carriers PROVE Entry(c)'
  BY BooksStep
<1>1. Counted(c)' = Counted(c)
  BY CountedStays DEF Books
<1>2. QED
  BY <1>1, EntryStays DEF Books, CountExact, Entry, Excused, Frame

(* A counter that is left alone needs no excuse.                           *)
LEMMA NoExcuse ==
  ASSUME TypeInv, UNCHANGED channels PROVE \A c \in Carriers : Excused(c)
  BY DEF Excused, TypeInv, TypeOK

(* A new hangup knows its call from the call's keys.                       *)
LEMMA ArriveBooks ==
  ASSUME TypeInv, CallsInv, Books, TypeInv', NEW r \in Requests, Arrive(r)
  PROVE  Books'
<1> USE DEF At, redis, freeswitch, ghosts, errors
<1>1. /\ UNCHANGED <<channels, meta, agentCall, placed, ghosts>> /\ req[r].pc = "idle"
      /\ \A q \in Requests : q # r => req'[q] = req[q]
  BY DEF Arrive, Originate, HangupCurrent, HangupCall, TypeInv, TypeOK
<1>2. req[r].carrier = None
  BY <1>1 DEF Books, Parts, Carries
<1>3. /\ req'[r].pc \in {"pick", "load", "uuidKill"} /\ Carries(r)'
      /\ \/ req'[r].pc = "pick"
         \/ meta[req'[r].call] # None
         \/ \E a \in Agents : agentCall[a] = req'[r].call
  <2>1. ASSUME NEW a \in Agents, Originate(r, a)
        PROVE  req'[r].pc = "pick" /\ Carries(r)'
    <3>1. req'[r].pc = "pick"
      BY <2>1, ReqTyped DEF Originate, TypeInv, TypeOK
    <3>2. QED
      BY <3>1 DEF Carries
  <2>2. ASSUME NEW a \in Agents, HangupCurrent(r, a)
        PROVE  req'[r].pc = "load" /\ req'[r].call = agentCall[a] /\ Carries(r)'
    <3>1. req'[r].pc = "load" /\ req'[r].call = agentCall[a] /\ req'[r].carrier = None
      BY <1>2, <2>2, ReqTyped DEF HangupCurrent, TypeInv, TypeOK
    <3>2. QED
      BY <3>1 DEF Carries
  <2>3. ASSUME NEW a \in Agents, NEW u \in Calls, HangupCall(r, a, u)
        PROVE  req'[r].pc = "uuidKill" /\ meta[req'[r].call] # None /\ Carries(r)'
    <3>1. /\ req'[r].pc = "uuidKill" /\ req'[r].call = u
          /\ req'[r].carrier = meta[u].carrier
      BY <2>3, ReqTyped DEF HangupCall, TypeInv, TypeOK
    <3>2. placed[u] = meta[u] /\ meta[u] # None
      BY <2>3 DEF HangupCall, CallsInv, MetaRight
    <3>3. QED
      BY <1>1, <3>1, <3>2 DEF Carries
  <2>4. QED
    BY <2>1, <2>2, <2>3 DEF Arrive
<1>4. Frame(r)
  BY <1>1, <1>3 DEF Frame, InHand, Flight, HangupPCs
<1>5. Fresh(r)' /\ \A u \in Calls : Saves(r, u)' = Saves(r, u) /\ Deducts(r, u)' = Deducts(r, u)
  BY <1>1, <1>3 DEF Fresh, Saves, Deducts
<1>6. PlacedFinite'
  BY <1>1 DEF Books, PlacedFinite
<1>7. QED
  BY <1>1, <1>3, <1>4, <1>5, <1>6, NoExcuse, QuietBooks

(* Originate: the call is unknown until it is counted, and then its keys   *)
(* are written or the counter leaks.                                       *)
LEMMA OriginateBooks ==
  ASSUME TypeInv, CallsInv, Books, TypeInv', CallsInv', NEW r \in Requests,
         OriginateStep(r)
  PROVE  Books'
<1> USE DEF At, redis, freeswitch, ghosts, errors
<1>1. CASE Skip(r) \/ DialFails(r) \/ Refuse(r) \/ Admit(r) \/ Abandon(r)
  <2>1. /\ UNCHANGED <<channels, meta, agentCall, placed, errors>>
        /\ req[r].pc \in {"pick", "dial", "kill"}
    BY <1>1 DEF Skip, DialFails, Refuse, Admit, Abandon
  <2>2. /\ req'[r].pc \in {"pick", "idle", "dial"}
        /\ req'[r].pc = "idle" => req'[r].carrier = None
        /\ \A q \in Requests : q # r => req'[q] = req[q]
    <3>1. CASE Skip(r) \/ DialFails(r)
      BY <3>1, NextCarrierFields DEF Skip, DialFails
    <3>2. CASE Refuse(r) \/ Abandon(r)
      BY <3>2 DEF Refuse, Abandon, Answer, IdleReq, TypeInv, TypeOK
    <3>3. CASE Admit(r)
      BY <3>3, ReqTyped DEF Admit, TypeInv, TypeOK
    <3>4. QED
      BY <1>1, <3>1, <3>2, <3>3
  <2>3. Frame(r)
    BY <2>1, <2>2 DEF Frame, InHand, Flight, HangupPCs
  <2>4. Carries(r)' /\ Fresh(r)'
    BY <2>2 DEF Carries, Fresh
  <2>5. \A u \in Calls : Saves(r, u)' = Saves(r, u) /\ Deducts(r, u)' = Deducts(r, u)
    BY <2>1, <2>2 DEF Saves, Deducts
  <2>6. PlacedFinite'
    BY <2>1 DEF Books, PlacedFinite
  <2>7. QED
    BY <2>1, <2>3, <2>4, <2>5, <2>6, NoExcuse, QuietBooks
<1>2. CASE DialOK(r) \/ DialReplyLost(r)
  <2>1. PICK u \in Calls : LegUp(r, u) /\ req'[r].pc \in {"incr", "pick"}
                           /\ (req'[r].pc = "incr" => req'[r].call = u)
    <3>1. CASE DialOK(r)
      <4>1. PICK u \in Calls : LegUp(r, u)
                               /\ req' = [req EXCEPT ![r].pc = "incr", ![r].call = u]
        BY <3>1 DEF DialOK
      <4>2. QED
        BY <4>1, ReqTyped DEF TypeInv, TypeOK
    <3>2. CASE DialReplyLost(r)
      BY <3>2, NextCarrierFields DEF DialReplyLost
    <3>3. QED
      BY <1>2, <3>1, <3>2
  <2>2. /\ UNCHANGED <<channels, meta, agentCall, errors>> /\ req[r].pc = "dial"
        /\ \A q \in Requests : q # r => req'[q] = req[q]
    <3>1. CASE DialOK(r)
      BY <3>1 DEF DialOK, TypeInv, TypeOK
    <3>2. CASE DialReplyLost(r)
      BY <3>2, NextCarrierFields DEF DialReplyLost
    <3>3. QED
      BY <1>2, <3>1, <3>2
  <2>3. /\ placed[u] = None /\ meta[u] = None /\ u \notin expired
        /\ \A a \in Agents : agentCall[a] # u
        /\ \A q \in Requests : req[q].pc \in InHand => req[q].call # u
    BY <2>1, DialFresh DEF LegUp, Books
  <2>4. \A w \in Calls : w # u => placed'[w] = placed[w]
    BY <2>1 DEF LegUp, TypeInv, TypeOK
  <2>5. Frame(r) /\ Carries(r)'
    BY <2>1, <2>2, <2>3, <2>4 DEF Frame, Carries, InHand, Flight, HangupPCs
  <2>6. Fresh(r)'
    BY <2>1, <2>2, <2>3 DEF Fresh
  <2>7. PlacedFinite'
    <3>1. {w \in Calls : placed'[w] # None} \subseteq {w \in Calls : placed[w] # None} \cup {u}
      BY <2>4
    <3>2. IsFiniteSet({w \in Calls : placed[w] # None} \cup {u})
      BY FS_AddElement DEF Books, PlacedFinite
    <3>3. QED
      BY <3>1, <3>2, FS_Subset DEF PlacedFinite
  <2>8. \A w \in Calls : Saves(r, w)' = Saves(r, w) /\ Deducts(r, w)' = Deducts(r, w)
    BY <2>1, <2>2 DEF Saves, Deducts
  <2>9. QED
    BY <2>2, <2>5, <2>6, <2>7, <2>8, NoExcuse, QuietBooks
<1>3. CASE Incr(r)
  <2>1. PICK n \in Int : /\ n >= 1 /\ AddChannels(req[r].carrier, n)
                         /\ Leaks(req[r].carrier, n > 1)
    BY <1>3, ExecutionFacts DEF Incr
  <2>2. /\ UNCHANGED <<meta, agentCall, placed, expired, overdrawn>>
        /\ req[r].pc = "incr" /\ leaked \subseteq leaked'
    BY <1>3, <2>1 DEF Incr, Leaks
  <2>3. /\ req'[r].pc = "save" /\ req'[r].call = req[r].call
        /\ req'[r].carrier = req[r].carrier
        /\ \A q \in Requests : q # r => req'[q] = req[q]
    BY <1>3, GotoFields DEF Incr
  <2>4. Frame(r) /\ Carries(r)' /\ Fresh(r)'
    BY <2>2, <2>3 DEF Frame, Carries, Fresh, InHand, Flight
  <2>5. PlacedFinite'
    BY <2>2 DEF Books, PlacedFinite
  <2>6. PICK u \in Calls : u = req[r].call
    BY <2>2, HandPlaced DEF InHand, Flight
  <2>7. placed[u] # None /\ placed[u].carrier = req[r].carrier /\ req[r].carrier \in Carriers
    BY <2>2, <2>6, HandPlaced DEF InHand, Flight
  <2>8. /\ meta[u] = None /\ u \notin expired
        /\ \A q \in Requests \ {r} : req[q].pc \in InHand => req[q].call # u
    BY <2>2, <2>6 DEF Books, Parts, Fresh
  <2>9. ~Saving(u) /\ ~Deducted(u)'
    BY <2>2, <2>3, <2>8 DEF Saving, Deducted, InHand, Flight, HangupPCs
  <2>10. Saving(u)'
    BY <2>3, <2>6 DEF Saving
  <2>11. \A w \in Calls : w # u => Saving(w)' = Saving(w) /\ Deducted(w)' = Deducted(w)
    <3> SUFFICES ASSUME NEW w \in Calls, w # u
                 PROVE  Saving(w)' = Saving(w) /\ Deducted(w)' = Deducted(w)
      OBVIOUS
    <3>1. \A q \in Requests : Saves(q, w)' = Saves(q, w) /\ Deducts(q, w)' = Deducts(q, w)
      BY <2>2, <2>3, <2>6 DEF Saves, Deducts
    <3>2. QED
      BY <3>1 DEF Saving, Deducted, Saves, Deducts
  <2>12. ASSUME NEW c \in Carriers PROVE Entry(c)'
    <3>1. Entry(c)
      BY DEF Books, CountExact, Entry
    <3>2. CASE c = req[r].carrier
      <4>1. channels'[c] = channels[c] + n /\ (n > 1 => c \in leaked')
        BY <2>1, <3>2 DEF AddChannels, Leaks, TypeInv, TypeOK
      <4>2. u \notin Counted(c)
        BY <2>8, <2>9 DEF Counted
      <4>3. u \in Counted(c)'
        BY <2>2, <2>7, <2>9, <2>10, <3>2 DEF Counted
      <4>4. \A w \in Calls : w # u => (w \in Counted(c)' <=> w \in Counted(c))
        BY <2>2, <2>11 DEF Counted
      <4>5. Counted(c)' = Counted(c) \cup {u}
        BY <4>3, <4>4 DEF Counted
      <4>6. QED
        BY <2>1, <2>2, <3>1, <4>1, <4>2, <4>5, EntryCounts DEF Books
    <3>3. CASE c # req[r].carrier
      <4>1. channels'[c] = channels[c] /\ channels[c] \in Int
        BY <2>1, <3>3 DEF AddChannels, TypeInv, TypeOK
      <4>2. u \notin Counted(c) /\ u \notin Counted(c)'
        BY <2>2, <2>7, <3>3 DEF Counted
      <4>3. \A w \in Calls : w # u => (w \in Counted(c)' <=> w \in Counted(c))
        BY <2>2, <2>11 DEF Counted
      <4>4. Counted(c)' = Counted(c)
        BY <4>2, <4>3 DEF Counted
      <4>5. QED
        BY <2>2, <3>1, <4>1, <4>4, EntryStays DEF Books
    <3>4. QED
      BY <3>2, <3>3
  <2>13. QED
    BY <2>4, <2>5, <2>12, BooksStep
<1>4. CASE IncrFails(r)
  <2>1. PICK n \in Int : /\ n >= 0 /\ AddChannels(req[r].carrier, n)
                         /\ Leaks(req[r].carrier, n > 0)
    BY <1>4, ExecutionFacts DEF IncrFails
  <2>2. /\ UNCHANGED <<meta, agentCall, placed, expired, overdrawn>>
        /\ req[r].pc = "incr" /\ leaked \subseteq leaked'
    BY <1>4, <2>1 DEF IncrFails, Leaks
  <2>3. /\ req'[r].pc = "kill" /\ req'[r].call = req[r].call
        /\ \A q \in Requests : q # r => req'[q] = req[q]
    BY <1>4, GotoFields DEF IncrFails
  <2>4. Frame(r) /\ Carries(r)' /\ Fresh(r)'
    BY <2>2, <2>3 DEF Frame, Carries, Fresh, InHand, Flight
  <2>5. PlacedFinite'
    BY <2>2 DEF Books, PlacedFinite
  <2>6. \A u \in Calls : Saves(r, u)' = Saves(r, u) /\ Deducts(r, u)' = Deducts(r, u)
    BY <2>2, <2>3 DEF Saves, Deducts
  <2>7. ASSUME NEW c \in Carriers PROVE Excused(c)
    <3>1. channels[c] \in Int
      BY DEF TypeInv, TypeOK
    <3>2. channels'[c] = IF c = req[r].carrier THEN channels[c] + n ELSE channels[c]
      BY <2>1 DEF AddChannels, TypeInv, TypeOK
    <3>3. c = req[r].carrier /\ n > 0 => c \in leaked'
      BY <2>1 DEF Leaks
    <3>4. QED
      BY <2>1, <3>1, <3>2, <3>3 DEF Excused
  <2>8. QED
    BY <2>2, <2>4, <2>5, <2>6, <2>7, QuietBooks
<1>5. CASE Save(r) \/ SaveAgain(r) \/ SaveFails(r)
  <2>1. /\ req[r].pc = "save" /\ UNCHANGED <<channels, placed, expired, overdrawn>>
        /\ SaveKeys(r) \/ UNCHANGED <<meta, agentCall>>
        /\ leaked \subseteq leaked'
        /\ meta'[req[r].call] = None => SaveFails(r) /\ UNCHANGED meta
        /\ SaveFails(r) => Leaks(req[r].carrier, meta'[req[r].call] = None)
    <3>1. [agent |-> req[r].agent, carrier |-> req[r].carrier] # None /\ req[r].call \in Calls
      BY <1>5, ReqTyped, NoneAssumption
      DEF Save, SaveAgain, SaveFails, Ready, Route
    <3>2. SaveKeys(r) => meta'[req[r].call] # None
      BY <3>1 DEF SaveKeys, TypeInv, TypeOK
    <3>3. QED
      BY <1>5, <3>2 DEF Save, SaveAgain, SaveFails, Leaks
  <2>2. /\ \/ req'[r].pc \in {"save", "kill"} /\ req'[r].call = req[r].call
           \/ req'[r].pc = "idle" /\ req'[r].carrier = None
        /\ \A q \in Requests : q # r => req'[q] = req[q]
    <3>1. CASE SaveFails(r)
      BY <3>1, GotoFields DEF SaveFails
    <3>2. CASE Save(r)
      BY <3>2 DEF Save, Answer, IdleReq, TypeInv, TypeOK
    <3>3. CASE SaveAgain(r)
      BY <3>3 DEF SaveAgain
    <3>4. QED
      BY <1>5, <3>1, <3>2, <3>3
  <2>3. PICK u \in Calls : u = req[r].call
    BY <2>1, HandPlaced DEF InHand, Flight
  <2>4. placed[u] # None /\ placed[u].carrier = req[r].carrier /\ req[r].carrier \in Carriers
    BY <2>1, <2>3, HandPlaced DEF InHand, Flight
  <2>5. /\ \A w \in Calls : w # u => meta'[w] = meta[w]
        /\ \A a \in Agents : agentCall'[a] \in {agentCall[a], u}
    BY <2>1, <2>3 DEF SaveKeys, TypeInv, TypeOK
  <2>6. Frame(r) /\ Carries(r)' /\ Fresh(r)'
    BY <2>1, <2>2, <2>3, <2>5 DEF Frame, Carries, Fresh, InHand, Flight, HangupPCs
  <2>7. PlacedFinite'
    BY <2>1 DEF Books, PlacedFinite
  <2>8. /\ \A w \in Calls : w # u => Saving(w)' = Saving(w)
        /\ \A w \in Calls : Deducted(w)' = Deducted(w)
    <3>1. \A w \in Calls, q \in Requests :
            /\ w # u => Saves(q, w)' = Saves(q, w)
            /\ Deducts(q, w)' = Deducts(q, w)
      BY <2>1, <2>2, <2>3 DEF Saves, Deducts
    <3>2. QED
      BY <3>1 DEF Saving, Deducted, Saves, Deducts
  <2>9. Saving(u)
    BY <2>1, <2>3 DEF Saving
  <2>10. ASSUME NEW c \in Carriers PROVE Entry(c)'
    <3>1. \A w \in Calls : w # u => (w \in Counted(c)' <=> w \in Counted(c))
      BY <2>1, <2>5, <2>8 DEF Counted
    <3>2. u \in Counted(c)' => u \in Counted(c)
      BY <2>1, <2>8, <2>9 DEF Counted
    <3>3. Counted(c)' \subseteq Counted(c)
      BY <3>1, <3>2 DEF Counted
    <3>4. CASE meta'[u] # None
      <4>1. u \in Counted(c) => u \in Counted(c)'
        BY <2>1, <2>8, <3>4 DEF Counted
      <4>2. Counted(c) \subseteq Counted(c)'
        BY <3>1, <4>1 DEF Counted
      <4>3. QED
        BY <2>1, <2>7, <3>3, <4>2, EntryExcused DEF Books, CountExact, Entry
    <3>5. CASE meta'[u] = None
      <4>1. req[r].carrier \in leaked'
        BY <2>1, <2>3, <3>5 DEF Leaks
      <4>2. c # req[r].carrier => u \notin Counted(c)
        BY <2>4 DEF Counted
      <4>3. c \in leaked' \/ Counted(c) \subseteq Counted(c)'
        BY <3>1, <4>1, <4>2 DEF Counted
      <4>4. QED
        BY <2>1, <2>7, <3>3, <4>3, EntryExcused DEF Books, CountExact, Entry
    <3>6. QED
      BY <3>4, <3>5
  <2>11. QED
    BY <2>6, <2>7, <2>10, BooksStep
<1>6. QED
  BY <1>1, <1>2, <1>3, <1>4, <1>5 DEF OriginateStep

(* The quiet steps of Hangup: reading keys, killing, setting a counter     *)
(* that is too low to zero, answering.                                     *)
LEMMA HangupQuietBooks ==
  ASSUME TypeInv, CallsInv, Books, TypeInv', CallsInv', NEW r \in Requests,
         \/ LoadMeta(r) \/ UuidKill(r) \/ UuidKillFails(r) \/ DecrFails(r)
         \/ Clamp(r) \/ GetMine(r) \/ DelMine(r) \/ Release(r)
  PROVE  Books'
<1> USE DEF At, redis, freeswitch, ghosts, errors
<1>1. CASE UuidKillFails(r) \/ DecrFails(r) \/ Release(r)
  <2>1. /\ UNCHANGED <<meta, agentCall, placed, expired, leaked>>
        /\ req[r].pc \in {"uuidKill", "decr", "release"}
        /\ overdrawn \subseteq overdrawn'
    BY <1>1 DEF UuidKillFails, DecrFails, Release, Overdraws
  <2>2. /\ req'[r].pc = "idle" /\ req'[r].carrier = None
        /\ \A q \in Requests : q # r => req'[q] = req[q]
    BY <1>1 DEF UuidKillFails, DecrFails, Release, Answer, IdleReq, TypeInv, TypeOK
  <2>3. Frame(r) /\ Carries(r)' /\ Fresh(r)'
    BY <2>1, <2>2 DEF Frame, Carries, Fresh, InHand, Flight, HangupPCs
  <2>4. \A u \in Calls : Saves(r, u)' = Saves(r, u) /\ Deducts(r, u)' = Deducts(r, u)
    BY <2>1, <2>2 DEF Saves, Deducts
  <2>5. PlacedFinite'
    BY <2>1 DEF Books, PlacedFinite
  <2>6. \A c \in Carriers : Excused(c)
    <3>1. CASE DecrFails(r)
      <4>1. PICK n \in Int : /\ n >= 0 /\ AddChannels(req[r].carrier, -n)
                             /\ Overdraws(req[r].carrier, n > 0)
        BY <3>1, ExecutionFacts DEF DecrFails
      <4> SUFFICES ASSUME NEW c \in Carriers PROVE Excused(c)
        OBVIOUS
      <4>2. channels[c] \in Int
        BY DEF TypeInv, TypeOK
      <4>3. channels'[c] = IF c = req[r].carrier THEN channels[c] - n ELSE channels[c]
        BY <4>1 DEF AddChannels, TypeInv, TypeOK
      <4>4. c = req[r].carrier /\ n > 0 => c \in overdrawn'
        BY <4>1 DEF Overdraws
      <4>5. QED
        BY <4>1, <4>2, <4>3, <4>4 DEF Excused
    <3>2. CASE ~DecrFails(r)
      BY <1>1, <3>2, NoExcuse DEF UuidKillFails, Release
    <3>3. QED
      BY <3>1, <3>2
  <2>7. QED
    BY <2>1, <2>2, <2>3, <2>4, <2>5, <2>6, QuietBooks
<1>2. CASE LoadMeta(r)
  <2>1. /\ UNCHANGED <<channels, meta, agentCall, placed, errors>>
        /\ req[r].pc = "load" /\ req[r].pc \in InHand
    BY <1>2 DEF LoadMeta, InHand, HangupPCs
  <2>2. req[r].carrier = None
    BY <2>1 DEF Books, Parts, Carries
  <2>3. req[r].call \in Calls /\ (meta[req[r].call] # None => placed[req[r].call] = meta[req[r].call])
    BY <2>1, HandPlaced DEF CallsInv, MetaRight
  <2>4. /\ req'[r].pc = "uuidKill" /\ req'[r].call = req[r].call
        /\ \A q \in Requests : q # r => req'[q] = req[q]
        /\ \/ /\ meta[req[r].call] # None
              /\ req'[r].carrier = meta[req[r].call].carrier
           \/ req'[r].carrier = None
    BY <1>2, <2>2, ReqTyped DEF LoadMeta, Goto, TypeInv, TypeOK
  <2>5. Carries(r)' /\ Fresh(r)'
    BY <2>1, <2>3, <2>4 DEF Carries, Fresh
  <2>6. Frame(r)
    BY <2>1, <2>4 DEF Frame
  <2>7. \A u \in Calls : Saves(r, u)' = Saves(r, u) /\ Deducts(r, u)' = Deducts(r, u)
    BY <2>1, <2>4 DEF Saves, Deducts
  <2>8. PlacedFinite'
    BY <2>1 DEF Books, PlacedFinite
  <2>9. QED
    BY <2>1, <2>5, <2>6, <2>7, <2>8, NoExcuse, QuietBooks
<1>3. CASE UuidKill(r) \/ GetMine(r) \/ DelMine(r)
  <2>1. /\ UNCHANGED <<channels, meta, placed, errors>>
        /\ \A a \in Agents : agentCall'[a] \in {agentCall[a], None}
        /\ req[r].pc \in {"uuidKill", "getMine", "delMine"} /\ req[r].pc \in InHand
    BY <1>3 DEF UuidKill, GetMine, DelMine, InHand, HangupPCs, TypeInv, TypeOK
  <2>2. /\ \/ req'[r].pc = "decr" /\ req[r].pc = "uuidKill"
           \/ req'[r].pc = "delMeta" /\ req[r].pc = "uuidKill" /\ req[r].carrier = None
           \/ req'[r].pc \in {"delMine", "release"}
        /\ req'[r].call = req[r].call /\ req'[r].carrier = req[r].carrier
        /\ \A q \in Requests : q # r => req'[q] = req[q]
    <3>1. CASE UuidKill(r)
      BY <3>1, GotoFields DEF UuidKill
    <3>2. CASE GetMine(r) \/ DelMine(r)
      <4>1. Goto(r, "delMine") \/ Goto(r, "release")
        BY <3>2 DEF GetMine, DelMine
      <4>2. QED
        BY <4>1, GotoFields
    <3>3. QED
      BY <1>3, <3>1, <3>2
  <2>3. Frame(r)
    BY <2>1, <2>2 DEF Frame
  <2>4. Carries(r)' /\ Fresh(r)'
    BY <2>1, <2>2 DEF Books, Parts, Carries, Fresh
  <2>5. \A u \in Calls : Saves(r, u)' = Saves(r, u) /\ Deducts(r, u)' = Deducts(r, u)
    BY <2>1, <2>2 DEF Saves, Deducts
  <2>6. PlacedFinite'
    BY <2>1 DEF Books, PlacedFinite
  <2>7. QED
    BY <2>1, <2>3, <2>4, <2>5, <2>6, NoExcuse, QuietBooks
<1>4. CASE Clamp(r)
  <2>1. /\ UNCHANGED <<meta, agentCall, placed, errors>>
        /\ req[r].pc = "clamp" /\ req[r].pc \in InHand
        /\ channels' = [channels EXCEPT ![req[r].carrier] = 0] \/ UNCHANGED channels
    BY <1>4 DEF Clamp, InHand, HangupPCs
  <2>2. /\ req'[r].pc = "delMeta"
        /\ req'[r].call = req[r].call /\ req'[r].carrier = req[r].carrier
        /\ \A q \in Requests : q # r => req'[q] = req[q]
    BY <1>4, GotoFields DEF Clamp
  <2>3. Frame(r)
    BY <2>1, <2>2 DEF Frame
  <2>4. Carries(r)' /\ Fresh(r)'
    BY <2>1, <2>2 DEF Books, Parts, Carries, Fresh
  <2>5. \A u \in Calls : Saves(r, u)' = Saves(r, u) /\ Deducts(r, u)' = Deducts(r, u)
    BY <2>1, <2>2 DEF Saves, Deducts
  <2>6. PlacedFinite'
    BY <2>1 DEF Books, PlacedFinite
  <2>7. ASSUME NEW c \in Carriers PROVE Excused(c)
    <3>1. req[r].carrier \in overdrawn
      BY <2>1 DEF Books, Parts, Carries
    <3>2. channels \in [Carriers -> Int] /\ channels[c] \in Int
      BY DEF TypeInv, TypeOK
    <3>3. CASE c = req[r].carrier
      <4>1. channels'[c] = 0 \/ channels'[c] = channels[c]
        BY <2>1, <3>2
      <4>2. QED
        BY <2>1, <3>1, <3>2, <3>3, <4>1 DEF Excused
    <3>4. CASE c # req[r].carrier
      <4>1. channels'[c] = channels[c]
        BY <2>1, <3>2, <3>4
      <4>2. QED
        BY <3>2, <4>1 DEF Excused
    <3>5. QED
      BY <3>3, <3>4
  <2>8. QED
    BY <2>1, <2>3, <2>4, <2>5, <2>6, <2>7, QuietBooks
<1>5. QED
  BY <1>1, <1>2, <1>3, <1>4

(* DECR: the call is deducted, or another hangup has done it before and    *)
(* the counter is overdrawn.                                               *)
LEMMA DecrBooks ==
  ASSUME TypeInv, CallsInv, Books, TypeInv', CallsInv', NEW r \in Requests, Decr(r)
  PROVE  Books'
<1> USE DEF At, redis, freeswitch, ghosts, errors
<1>1. PICK n \in Int :
        /\ n >= 1 /\ AddChannels(req[r].carrier, -n)
        /\ Goto(r, IF channels[req[r].carrier] - n < 0 THEN "clamp" ELSE "delMeta")
        /\ Overdraws(req[r].carrier, n > 1 \/ ~CountedCall(req[r].call))
  BY ExecutionFacts DEF Decr
<1>2. /\ UNCHANGED <<meta, agentCall, placed, leaked>> /\ overdrawn \subseteq overdrawn'
      /\ expired' = expired \ {req[r].call}
      /\ req[r].pc = "decr" /\ req[r].pc \in InHand /\ req[r].carrier \in Carriers
  BY <1>1, ReqTyped DEF Decr, Overdraws, InHand, HangupPCs, Ready
<1>3. /\ req'[r].pc = (IF channels[req[r].carrier] - n < 0 THEN "clamp" ELSE "delMeta")
      /\ req'[r].call = req[r].call /\ req'[r].carrier = req[r].carrier
      /\ \A q \in Requests : q # r => req'[q] = req[q]
  BY <1>1, GotoFields
<1>4. PICK u \in Calls : u = req[r].call
  BY <1>2, HandPlaced
<1>5. PICK c \in Carriers : c = req[r].carrier
  BY <1>2
<1>6. placed[u] # None /\ placed[u].carrier = c /\ c # None
  BY <1>2, <1>4, <1>5, HandPlaced, NoneAssumption DEF Books, Parts, Carries
<1>7. channels[c] \in Int
  BY DEF TypeInv, TypeOK
<1>8. n > 1 \/ u \notin Counted(c) => c \in overdrawn'
  BY <1>1, <1>4, <1>5, <1>6 DEF CountedCall, Overdraws
<1>9. req'[r].pc = "clamp" => c \in overdrawn'
  <2> SUFFICES ASSUME channels[c] - n < 0, n = 1, u \in Counted(c), c \notin overdrawn
               PROVE  FALSE
    BY <1>1, <1>2, <1>3, <1>5, <1>8
  <2>1. IsFiniteSet(Counted(c)) /\ Cardinality(Counted(c)) \in Nat
    BY CountedFinite DEF Books, Countable
  <2>2. Cardinality(Counted(c)) # 0
    BY <2>1, FS_EmptySet
  <2>3. channels[c] >= Cardinality(Counted(c))
    BY DEF Books, CountExact
  <2>4. QED
    BY <1>7, <2>1, <2>2, <2>3
<1>10. Frame(r)
  BY <1>2, <1>3 DEF Frame, InHand, HangupPCs
<1>11. Carries(r)' /\ Fresh(r)'
  BY <1>2, <1>3, <1>4, <1>5, <1>6, <1>9 DEF Carries, Fresh
<1>12. PlacedFinite'
  BY <1>2 DEF Books, PlacedFinite
<1>13. \A w \in Calls : /\ Saving(w)' = Saving(w)
                        /\ w # u => Deducted(w)' = Deducted(w)
  <2>1. \A w \in Calls, q \in Requests : /\ Saves(q, w)' = Saves(q, w)
                                         /\ w # u => Deducts(q, w)' = Deducts(q, w)
    BY <1>2, <1>3, <1>4 DEF Saves, Deducts
  <2>2. QED
    BY <2>1 DEF Saving, Deducted, Saves, Deducts
<1>14. Deducted(u)'
  BY <1>3, <1>4, <1>5, <1>6 DEF Deducted
<1>15. ASSUME NEW k \in Carriers PROVE Entry(k)'
  <2>1. \A w \in Calls : w # u => (w \in Counted(k)' <=> w \in Counted(k))
    BY <1>2, <1>4, <1>13 DEF Counted
  <2>2. u \notin Counted(k)'
    BY <1>14 DEF Counted
  <2>3. Counted(k)' = Counted(k) \ {u}
    BY <2>1, <2>2 DEF Counted
  <2>4. CASE k = c
    <3>1. channels'[k] = channels[k] - n
      BY <1>1, <1>5, <2>4 DEF AddChannels, TypeInv, TypeOK
    <3>2. QED
      BY <1>1, <1>2, <1>8, <2>3, <2>4, <3>1, EntryDeducts DEF Books, CountExact, Entry
  <2>5. CASE k # c
    <3>1. channels'[k] = channels[k]
      BY <1>1, <1>5, <2>5 DEF AddChannels, TypeInv, TypeOK
    <3>2. u \notin Counted(k)
      BY <1>6, <2>5 DEF Counted
    <3>3. Counted(k)' = Counted(k)
      BY <2>3, <3>2
    <3>4. channels[k] \in Int
      BY DEF TypeInv, TypeOK
    <3>5. QED
      BY <1>2, <3>1, <3>3, <3>4, EntryStays DEF Books, CountExact, Entry
  <2>6. QED
    BY <2>4, <2>5
<1>16. QED
  BY <1>10, <1>11, <1>12, <1>15, BooksStep

(* DEL: a deducted call is gone, or its keys are left behind with an       *)
(* excuse; a call that was not deducted goes with one.                     *)
LEMMA DelMetaBooks ==
  ASSUME TypeInv, CallsInv, Books, TypeInv', CallsInv', NEW r \in Requests, DelMeta(r)
  PROVE  Books'
<1> USE DEF At, redis, freeswitch, ghosts, errors
<1>1. /\ UNCHANGED <<channels, agentCall, placed, expired>>
      /\ leaked \subseteq leaked' /\ overdrawn \subseteq overdrawn'
      /\ req[r].pc = "delMeta" /\ req[r].pc \in InHand
      /\ meta' = [meta EXCEPT ![req[r].call] = None] \/ UNCHANGED meta
  BY DEF DelMeta, Leaks, Overdraws, InHand, HangupPCs
<1>2. /\ req'[r].pc = "getMine" /\ req'[r].call = req[r].call
      /\ \A q \in Requests : q # r => req'[q] = req[q]
  BY GotoFields DEF DelMeta
<1>3. PICK u \in Calls : u = req[r].call
  BY <1>1, HandPlaced
<1>4. /\ placed[u] # None
      /\ req[r].carrier # None => /\ placed[u].carrier = req[r].carrier
                                  /\ u \notin expired
  BY <1>1, <1>3, HandPlaced DEF Books, Parts, Carries
<1>5. /\ meta'[u] \in {meta[u], None}
      /\ \A w \in Calls : w # u => meta'[w] = meta[w]
  BY <1>1, <1>3 DEF TypeInv, TypeOK
<1>6. Frame(r) /\ Carries(r)' /\ Fresh(r)'
  BY <1>1, <1>2, <1>3, <1>5 DEF Frame, Carries, Fresh, InHand
<1>7. PlacedFinite'
  BY <1>1 DEF Books, PlacedFinite
<1>8. \A w \in Calls : /\ Saving(w)' = Saving(w)
                       /\ w # u \/ req[r].carrier = None => Deducted(w)' = Deducted(w)
  <2>1. \A w \in Calls, q \in Requests :
          /\ Saves(q, w)' = Saves(q, w)
          /\ w # u \/ req[r].carrier = None => Deducts(q, w)' = Deducts(q, w)
    BY <1>1, <1>2, <1>3 DEF Saves, Deducts
  <2>2. QED
    BY <2>1 DEF Saving, Deducted, Saves, Deducts
<1>9. ASSUME NEW c \in Carriers PROVE Entry(c)'
  <2>1. \A w \in Calls : w # u => (w \in Counted(c)' <=> w \in Counted(c))
    BY <1>1, <1>5, <1>8 DEF Counted
  <2>2. CASE req[r].carrier = None
    <3>1. u \in Counted(c)' => u \in Counted(c)
      BY <1>1, <1>5, <1>8, <2>2 DEF Counted
    <3>2. u \in Counted(c) => c \in leaked' \/ u \in Counted(c)'
      <4>1. HAVE u \in Counted(c)
      <4>2. c = placed[u].carrier /\ CountedCall(u)
        BY <1>4, <4>1 DEF Counted, CountedCall
      <4>3. CASE meta'[u] # meta[u]
        BY <1>3, <4>2, <4>3 DEF DelMeta, Leaks
      <4>4. CASE meta'[u] = meta[u]
        BY <1>1, <1>8, <2>2, <4>1, <4>4 DEF Counted
      <4>5. QED
        BY <4>3, <4>4
    <3>3. /\ c \in leaked' \/ Counted(c) \subseteq Counted(c)'
          /\ Counted(c)' \subseteq Counted(c)
      BY <2>1, <3>1, <3>2 DEF Counted
    <3>4. QED
      BY <1>1, <1>7, <3>3, EntryExcused DEF Books, CountExact, Entry
  <2>3. CASE req[r].carrier # None
    <3>1. u \notin Counted(c)
      BY <1>1, <1>3, <2>3 DEF Counted, Deducted
    <3>2. u \in Counted(c)' => c \in overdrawn'
      <4>1. HAVE u \in Counted(c)'
      <4>2. c = req[r].carrier
        BY <1>1, <1>4, <2>3, <4>1 DEF Counted
      <4>3. meta'[u] # None \/ Saving(u)
        BY <1>1, <1>4, <1>8, <2>3, <4>1 DEF Counted
      <4>4. QED
        BY <1>3, <2>3, <4>2, <4>3 DEF DelMeta, Overdraws
    <3>3. /\ Counted(c) \subseteq Counted(c)'
          /\ c \in overdrawn' \/ Counted(c)' \subseteq Counted(c)
      BY <2>1, <3>1, <3>2 DEF Counted
    <3>4. QED
      BY <1>1, <1>7, <3>3, EntryExcused DEF Books, CountExact, Entry
  <2>4. QED
    BY <2>2, <2>3
<1>10. QED
  BY <1>6, <1>7, <1>9, BooksStep

(* The keys of a call run out: one that is still counted is remembered.    *)
LEMMA ExpireBooks ==
  ASSUME TypeInv, CallsInv, Books, TypeInv', NEW u \in Calls, ExpireKeys(u)
  PROVE  Books'
<1>1. /\ UNCHANGED <<channels, leg, placed, req, leaked, overdrawn>>
      /\ meta'[u] = None /\ \A w \in Calls : w # u => meta'[w] = meta[w]
      /\ \A a \in Agents : agentCall'[a] \in {agentCall[a], None}
      /\ expired' = IF CountedCall(u) THEN expired \cup {u} ELSE expired
  BY DEF ExpireKeys, freeswitch, TypeInv, TypeOK
<1>2. CountedCall(u) => placed[u] # None /\ ~Deducted(u) /\ u \in expired'
                        /\ (meta[u] # None \/ Saving(u) \/ u \in expired)
  BY <1>1 DEF CountedCall, Counted
<1>3. ASSUME NEW r \in Requests PROVE Fresh(r)' /\ Carries(r)'
  <2>1. Fresh(r)'
    <3> SUFFICES ASSUME req[r].pc = "incr"
                 PROVE  /\ meta'[req[r].call] = None /\ req[r].call \notin expired'
                        /\ \A a \in Agents : agentCall'[a] # req[r].call
                        /\ \A q \in Requests \ {r} :
                             req[q].pc \in InHand => req[q].call # req[r].call
      BY <1>1 DEF Fresh
    <3>1. req[r].call \in Calls /\ req[r].call # None
      BY HandPlaced DEF InHand, Flight
    <3>2. /\ meta[req[r].call] = None /\ req[r].call \notin expired
          /\ \A a \in Agents : agentCall[a] # req[r].call
          /\ \A q \in Requests \ {r} : req[q].pc \in InHand => req[q].call # req[r].call
      BY DEF Books, Parts, Fresh
    <3>3. ~Saving(req[r].call)
      BY <3>2 DEF Saving, InHand, Flight
    <3>4. req[r].call \notin expired'
      BY <1>1, <1>2, <3>2, <3>3
    <3>5. QED
      BY <1>1, <3>1, <3>2, <3>4
  <2>2. Carries(r)'
    <3>1. req[r].pc \in {"clamp", "delMeta"} /\ req[r].carrier # None =>
            Deducted(req[r].call)
      BY DEF Deducted
    <3>2. QED
      BY <1>1, <1>2, <3>1 DEF Books, Parts, Carries
  <2>3. QED
    BY <2>1, <2>2
<1>4. PlacedFinite' /\ ExpiredPlaced'
  BY <1>1, <1>2 DEF Books, PlacedFinite, ExpiredPlaced
<1>5. ASSUME NEW c \in Carriers PROVE Entry(c)'
  <2>1. \A w \in Calls : Saving(w)' = Saving(w) /\ Deducted(w)' = Deducted(w)
    BY <1>1 DEF Saving, Deducted
  <2>2. \A w \in Calls : w # u => (w \in Counted(c)' <=> w \in Counted(c))
    BY <1>1, <2>1 DEF Counted
  <2>3. u \in Counted(c)' <=> u \in Counted(c)
    <3>1. CASE CountedCall(u)
      BY <1>1, <1>2, <2>1, <3>1 DEF Counted
    <3>2. CASE ~CountedCall(u)
      <4>1. u \notin Counted(c)
        BY <3>2 DEF CountedCall, Counted
      <4>2. QED
        BY <1>1, <2>1, <3>2, <4>1 DEF Counted
    <3>3. QED
      BY <3>1, <3>2
  <2>4. Counted(c)' = Counted(c)
    BY <2>2, <2>3 DEF Counted
  <2>5. channels'[c] = channels[c] /\ channels[c] \in Int
    BY <1>1 DEF TypeInv, TypeOK
  <2>6. QED
    BY <1>1, <2>4, <2>5, EntryStays DEF Books, CountExact, Entry
<1>6. QED
  BY <1>3, <1>4, <1>5 DEF Books, Parts, CountExact, Entry

(* No call is placed, and none counted, at first.                          *)
LEMMA InitBooks == Init => Books
<1> SUFFICES ASSUME Init PROVE Books
  OBVIOUS
<1>1. Parts /\ ExpiredPlaced
  BY DEF Init, Parts, Fresh, Carries, ExpiredPlaced, IdleReq
<1>2. {u \in Calls : placed[u] # None} = {}
  BY DEF Init
<1>3. PlacedFinite
  BY <1>2, FS_EmptySet DEF PlacedFinite
<1>4. \A c \in Carriers : Counted(c) = {} /\ channels[c] = 0
  BY DEF Init, Counted
<1>5. CountExact
  BY <1>4, FS_EmptySet DEF CountExact
<1>6. QED
  BY <1>1, <1>3, <1>5 DEF Books

(* Every step keeps the books.                                             *)
LEMMA NextBooks ==
  TypeInv /\ CallsInv /\ TypeInv' /\ CallsInv' /\ Books /\ [Next]_vars => Books'
<1> SUFFICES ASSUME TypeInv, CallsInv, TypeInv', CallsInv', Books, [Next]_vars
             PROVE  Books'
  OBVIOUS
<1>1. ASSUME NEW r \in Requests, Arrive(r) \/ OriginateStep(r) PROVE Books'
  BY <1>1, ArriveBooks, OriginateBooks
<1>2. ASSUME NEW r \in Requests, HangupStep(r) PROVE Books'
  BY <1>2, HangupQuietBooks, DecrBooks, DelMetaBooks DEF HangupStep
<1>3. ASSUME NEW u \in Calls, ExpireKeys(u) PROVE Books'
  BY <1>3, ExpireBooks
<1>4. CASE UNCHANGED <<channels, meta, agentCall, placed, req, expired, leaked, overdrawn>>
  BY <1>4 DEF Books, Parts, Fresh, Carries, PlacedFinite, ExpiredPlaced, CountExact,
              Counted, Saving, Deducted
<1>5. QED
  BY <1>1, <1>2, <1>3, <1>4
  DEF Next, vars, FarHangup, InboundClaim, redis, freeswitch, ghosts, errors

(* A carrier's counter is exactly the number of its calls that are still   *)
(* to be deducted or have outlived their keys, for any number of calls,    *)
(* overlapping hangups and expiries and wherever the clamp falls: it is    *)
(* never higher but after one of the named Redis errors, and never lower   *)
(* but after a call was counted down twice (manual.go:230, 303-348).       *)
THEOREM CounterExact == Spec => []CountExact
<1>1. TypeInv /\ CallsInv /\ Books /\ [Next]_vars => (TypeInv /\ CallsInv /\ Books)'
  BY NextTyped, NextCalls, NextBooks
<1>2. Books => CountExact
  BY DEF Books
<1>3. QED
  BY <1>1, <1>2, InitTypeInv, InitCalls, InitBooks, PTL DEF Spec

-----------------------------------------------------------------------------
(* Legs.  The requests between the check of a carrier's counter and their  *)
(* INCR are what the counter does not know of, and so are the calls that   *)
(* are up because their uuid_kill is still to come.                        *)
InFlight(c) == {r \in Requests : req[r].carrier = c /\ req[r].pc \in {"dial", "incr"}}

Doomed(c) == {u \in Calls : /\ leg[u] = "up"
                            /\ \E r \in Requests : /\ req[r].pc = "kill" /\ req[r].call = u
                                                    /\ req[r].carrier = c}

Taken(c) == Counted(c) \cup Doomed(c)

RoomFor(c) ==
  MaxChannels[c] > 0 /\ c \notin overdrawn =>
    Cardinality(Taken(c)) + Cardinality(InFlight(c))
      <= MaxChannels[c] + Cardinality(Requests) - 1

(* A carrier without channels is dialled by nobody.                        *)
Admitted ==
  /\ \A r \in Requests : req[r].pc = "dial" => MaxChannels[req[r].carrier] > 0
  /\ \A u \in Calls : placed[u] # None => MaxChannels[placed[u].carrier] > 0

Room == Admitted /\ \A c \in Carriers : RoomFor(c)

(* Sets of requests can be counted.                                        *)
LEMMA CountRequests ==
  ASSUME NEW S \in SUBSET Requests
  PROVE  /\ IsFiniteSet(S) /\ Cardinality(S) \in Nat
         /\ Cardinality(Requests) \in Nat /\ Cardinality(S) <= Cardinality(Requests)
         /\ \A T \in SUBSET S : Cardinality(T) <= Cardinality(S)
         /\ \A r \in S : Cardinality(S \ {r}) = Cardinality(S) - 1
<1>1. IsFiniteSet(S) /\ IsFiniteSet(Requests)
  BY RequestsAssumption, FS_Subset
<1>2. Cardinality(S) \in Nat /\ Cardinality(Requests) \in Nat
  BY <1>1, FS_CardinalityType
<1>3. Cardinality(S) <= Cardinality(Requests)
  BY RequestsAssumption, FS_Subset
<1>4. \A T \in SUBSET S : Cardinality(T) <= Cardinality(S)
  BY <1>1, FS_Subset
<1>5. \A r \in S : Cardinality(S \ {r}) = Cardinality(S) - 1
  BY <1>1, FS_RemoveElement
<1>6. QED
  BY <1>1, <1>2, <1>3, <1>4, <1>5

(* Requests have at most as many calls as they are.                        *)
LEMMA CallsOfRequests ==
  ASSUME NEW S \in SUBSET Requests
  PROVE  /\ IsFiniteSet({req[r].call : r \in S})
         /\ Cardinality({req[r].call : r \in S}) \in Nat
         /\ Cardinality({req[r].call : r \in S}) <= Cardinality(S)
<1> DEFINE T == {req[r].call : r \in S}
           f == [r \in S |-> req[r].call]
<1>1. IsFiniteSet(S)
  BY CountRequests
<1>2. f \in Surjection(S, T)
  BY DEF Surjection
<1>3. IsFiniteSet(T) /\ Cardinality(T) <= Cardinality(S)
  BY <1>1, <1>2, FS_Surjection
<1>4. QED
  BY <1>3, FS_CardinalityType

(* The union of two finite sets is at most as large as both.               *)
LEMMA UnionBound ==
  ASSUME NEW S, NEW T, IsFiniteSet(S), IsFiniteSet(T)
  PROVE  /\ IsFiniteSet(S \cup T) /\ Cardinality(S \cup T) \in Nat
         /\ Cardinality(S \cup T) <= Cardinality(S) + Cardinality(T)
<1>1. IsFiniteSet(S \cap T)
  BY FS_Subset
<1>2. Cardinality(S) \in Nat /\ Cardinality(T) \in Nat /\ Cardinality(S \cap T) \in Nat
  BY <1>1, FS_CardinalityType
<1>3. /\ IsFiniteSet(S \cup T)
      /\ Cardinality(S \cup T) = Cardinality(S) + Cardinality(T) - Cardinality(S \cap T)
  BY FS_Union
<1>4. QED
  BY <1>2, <1>3, FS_CardinalityType

(* What is taken of a carrier can be counted.                              *)
TakenCountable == \A c \in Carriers :
  IsFiniteSet(Taken(c)) /\ Cardinality(Taken(c)) \in Nat

LEMMA TakenFinite == PlacedFinite => TakenCountable
<1> SUFFICES ASSUME PlacedFinite, NEW c \in Carriers
             PROVE  IsFiniteSet(Taken(c)) /\ Cardinality(Taken(c)) \in Nat
  BY DEF TakenCountable
<1>1. Doomed(c) \subseteq {req[r].call : r \in Requests}
  BY DEF Doomed
<1>2. IsFiniteSet(Doomed(c))
  BY <1>1, CallsOfRequests, FS_Subset
<1>3. IsFiniteSet(Counted(c))
  BY CountedFinite DEF Countable
<1>4. QED
  BY <1>2, <1>3, UnionBound DEF Taken

(* The same after a step.                                                  *)
LEMMA TakenFiniteNext == PlacedFinite' => TakenCountable'
  BY TakenFinite, PTL

(* A step that takes nothing new of c and puts no request in flight.       *)
LEMMA RoomStays ==
  ASSUME PlacedFinite, PlacedFinite', NEW c \in Carriers, RoomFor(c),
         overdrawn \subseteq overdrawn', InFlight(c)' \subseteq InFlight(c),
         c \in overdrawn' \/ Taken(c)' \subseteq Taken(c)
  PROVE  RoomFor(c)'
<1>1. /\ Cardinality(InFlight(c)') <= Cardinality(InFlight(c))
      /\ Cardinality(InFlight(c)') \in Nat /\ Cardinality(InFlight(c)) \in Nat
      /\ Cardinality(Requests) \in Nat
  BY CountRequests DEF InFlight
<1>2. /\ IsFiniteSet(Taken(c)) /\ Cardinality(Taken(c)) \in Nat
      /\ Cardinality(Taken(c)') \in Nat
  BY TakenFinite, TakenFiniteNext DEF TakenCountable
<1>3. Taken(c)' \subseteq Taken(c) => Cardinality(Taken(c)') <= Cardinality(Taken(c))
  BY <1>2, FS_Subset
<1>4. MaxChannels[c] \in Int
  BY MaxAssumption
<1>5. QED
  BY <1>1, <1>2, <1>3, <1>4 DEF RoomFor

(* A call that is taken was a request in flight.                           *)
LEMMA RoomMoves ==
  ASSUME PlacedFinite, PlacedFinite', NEW c \in Carriers, RoomFor(c),
         overdrawn \subseteq overdrawn', NEW r \in InFlight(c),
         InFlight(c)' = InFlight(c) \ {r}, NEW u, Taken(c)' \subseteq Taken(c) \cup {u}
  PROVE  RoomFor(c)'
<1>1. /\ Cardinality(InFlight(c)') = Cardinality(InFlight(c)) - 1
      /\ Cardinality(InFlight(c)) \in Nat /\ Cardinality(Requests) \in Nat
  BY CountRequests DEF InFlight
<1>2. /\ IsFiniteSet(Taken(c)) /\ Cardinality(Taken(c)) \in Nat
      /\ Cardinality(Taken(c)') \in Nat
  BY TakenFinite, TakenFiniteNext DEF TakenCountable
<1>3. /\ IsFiniteSet(Taken(c) \cup {u}) /\ Cardinality(Taken(c) \cup {u}) \in Nat
      /\ Cardinality(Taken(c) \cup {u}) <= Cardinality(Taken(c)) + 1
  <2>1. IsFiniteSet(Taken(c) \cup {u})
    BY <1>2, FS_AddElement
  <2>2. Cardinality(Taken(c) \cup {u}) = IF u \in Taken(c) THEN Cardinality(Taken(c))
                                        ELSE Cardinality(Taken(c)) + 1
    BY <1>2, FS_AddElement
  <2>3. QED
    BY <1>2, <2>1, <2>2
<1>4. Cardinality(Taken(c)') <= Cardinality(Taken(c) \cup {u})
  BY <1>3, FS_Subset
<1>5. MaxChannels[c] \in Int
  BY MaxAssumption
<1>6. QED
  BY <1>1, <1>2, <1>3, <1>4, <1>5 DEF RoomFor

(* A request is admitted: the counter it has read knows of every counted   *)
(* call, and everything else that is taken is another request's.           *)
LEMMA RoomAdmits ==
  ASSUME TypeInv, CountExact, PlacedFinite, NEW c \in Carriers, NEW r \in Requests,
         MaxChannels[c] > 0, channels[c] < MaxChannels[c],
         InFlight(c)' = InFlight(c) \cup {r}, req[r].pc = "pick",
         Taken(c)' \subseteq Taken(c), overdrawn' = overdrawn
  PROVE  RoomFor(c)'
<1> SUFFICES ASSUME c \notin overdrawn
             PROVE  Cardinality(Taken(c)') + Cardinality(InFlight(c)')
                      <= MaxChannels[c] + Cardinality(Requests) - 1
  BY DEF RoomFor
<1> DEFINE K == {q \in Requests : req[q].pc = "kill"}
<1>1. Cardinality(Counted(c)) \in Nat /\ IsFiniteSet(Counted(c))
      /\ Cardinality(Counted(c)) <= MaxChannels[c] - 1
  <2>1. channels[c] \in Int /\ MaxChannels[c] \in Int
    BY MaxAssumption DEF TypeInv, TypeOK
  <2>2. channels[c] >= Cardinality(Counted(c))
    BY DEF CountExact
  <2>3. QED
    BY <2>1, <2>2, CountedFinite DEF Countable
<1>2. IsFiniteSet(Doomed(c)) /\ Cardinality(Doomed(c)) \in Nat
      /\ Cardinality(Doomed(c)) <= Cardinality(K)
  <2>1. Doomed(c) \subseteq {req[q].call : q \in K}
    BY DEF Doomed
  <2>2. /\ IsFiniteSet({req[q].call : q \in K})
        /\ Cardinality({req[q].call : q \in K}) \in Nat
        /\ Cardinality({req[q].call : q \in K}) <= Cardinality(K)
    BY CallsOfRequests
  <2>3. IsFiniteSet(Doomed(c)) /\ Cardinality(Doomed(c)) \in Nat
        /\ Cardinality(Doomed(c)) <= Cardinality({req[q].call : q \in K})
    BY <2>1, <2>2, FS_Subset, FS_CardinalityType
  <2>4. Cardinality(K) \in Nat
    BY CountRequests
  <2>5. QED
    BY <2>2, <2>3, <2>4
<1>3. Cardinality(K) + Cardinality(InFlight(c)') <= Cardinality(Requests)
  <2>1. K \cap InFlight(c)' = {} /\ InFlight(c)' \in SUBSET Requests
    BY DEF InFlight
  <2>2. /\ IsFiniteSet(K) /\ Cardinality(K) \in Nat
        /\ IsFiniteSet(InFlight(c)') /\ Cardinality(InFlight(c)') \in Nat
    BY <2>1, CountRequests
  <2>3. Cardinality(K \cup InFlight(c)') = Cardinality(K) + Cardinality(InFlight(c)')
    <3>1. Cardinality({}) = 0
      BY FS_EmptySet
    <3>2. Cardinality(K \cup InFlight(c)') =
            Cardinality(K) + Cardinality(InFlight(c)') - Cardinality(K \cap InFlight(c)')
      BY <2>2, FS_Union
    <3>3. Cardinality(K \cap InFlight(c)') = 0
      BY <2>1, <3>1
    <3> HIDE DEF K
    <3>4. QED
      BY <2>2, <3>2, <3>3
  <2>4. Cardinality(K \cup InFlight(c)') <= Cardinality(Requests)
    BY <2>1, CountRequests
  <2>5. QED
    BY <2>3, <2>4
<1>4. /\ Cardinality(Taken(c)') \in Nat
      /\ Cardinality(Taken(c)') <= Cardinality(Counted(c)) + Cardinality(Doomed(c))
  <2>1. /\ IsFiniteSet(Taken(c)) /\ Cardinality(Taken(c)) \in Nat
        /\ Cardinality(Taken(c)) <= Cardinality(Counted(c)) + Cardinality(Doomed(c))
    BY <1>1, <1>2, UnionBound DEF Taken
  <2>2. Cardinality(Taken(c)') \in Nat /\ Cardinality(Taken(c)') <= Cardinality(Taken(c))
    BY <2>1, FS_Subset, FS_CardinalityType
  <2>3. QED
    BY <1>1, <1>2, <2>1, <2>2
<1>5. /\ Cardinality(K) \in Nat /\ Cardinality(Requests) \in Nat
      /\ Cardinality(InFlight(c)') \in Nat
  BY CountRequests DEF InFlight
<1>6. MaxChannels[c] \in Int
  BY MaxAssumption
<1>7. QED
  BY <1>1, <1>2, <1>3, <1>4, <1>5, <1>6


(* No call is placed and no request in flight at first.                    *)
LEMMA InitRoom == Init => Room
<1> SUFFICES ASSUME Init PROVE Room
  OBVIOUS
<1>1. Admitted
  BY DEF Init, Admitted, IdleReq
<1>2. ASSUME NEW c \in Carriers PROVE RoomFor(c)
  <2>1. InFlight(c) = {} /\ Taken(c) = {}
    BY DEF Init, InFlight, Taken, Counted, Doomed, IdleReq
  <2>2. MaxChannels[c] \in Int /\ Cardinality(Requests) \in Nat /\ Cardinality({}) = 0
    BY MaxAssumption, CountRequests, FS_EmptySet
  <2>3. QED
    BY <2>1, <2>2 DEF RoomFor
<1>3. QED
  BY <1>1, <1>2 DEF Room

(* What a step of r may do: place a call, bring down legs, write the keys  *)
(* of the call it saves, delete keys.                                      *)
Keeps(r) ==
  /\ \A q \in Requests : q # r => req'[q] = req[q]
  /\ \A u \in Calls : \/ meta'[u] \in {meta[u], None}
                      \/ req[r].pc = "save" /\ u = req[r].call
  /\ expired' \subseteq expired
  /\ overdrawn \subseteq overdrawn'
  /\ \A u \in Calls : IF placed[u] # None
                      THEN placed'[u] = placed[u] /\ (leg'[u] = "up" => leg[u] = "up")
                      ELSE \/ placed'[u] = None
                           \/ /\ req[r].pc = "dial"
                              /\ placed'[u].carrier = req[r].carrier

(* How a step of r may take a call of c that was not taken.                *)
Takes(r, c, u) ==
  \/ Saves(r, u)' /\ ~Saves(r, u) /\ placed'[u].carrier = c
  \/ req'[r].pc = "kill" /\ req'[r].call = u /\ req'[r].carrier = c /\ leg'[u] = "up"
  \/ Deducts(r, u) /\ ~Deducts(r, u)' /\ u \in Counted(c)'

LEMMA TakenGrows ==
  ASSUME TypeInv, CallsInv, ExpiredPlaced, NEW r \in Requests, Keeps(r),
         NEW c \in Carriers, NEW u \in Taken(c)', ~Takes(r, c, u)
  PROVE  u \in Taken(c)
<1>1. u \in Calls
  BY DEF Taken, Counted, Doomed
<1>2. ASSUME NEW q \in Requests, q # r, req'[q].pc \in {"save", "kill"}, req'[q].call = u
      PROVE  placed[u] # None /\ req[q] = req'[q]
  <2>1. req[q] = req'[q]
    BY <1>2 DEF Keeps
  <2>2. QED
    BY <1>2, <2>1, HandPlaced DEF InHand, Flight
<1>3. CASE u \in Counted(c)'
  <2>1. placed'[u] # None /\ placed'[u].carrier = c /\ ~Deducted(u)'
    BY <1>3 DEF Counted
  <2>2. Saving(u)' => Saving(u)
    <3>1. HAVE Saving(u)'
    <3>2. PICK q \in Requests : req'[q].pc = "save" /\ req'[q].call = u
      BY <3>1 DEF Saving
    <3>3. CASE q = r
      BY <2>1, <3>2, <3>3 DEF Takes, Saves, Saving
    <3>4. CASE q # r
      BY <1>2, <3>2, <3>4 DEF Saving
    <3>5. QED
      BY <3>3, <3>4
  <2>3. meta[u] # None \/ Saving(u) \/ u \in expired
    BY <1>1, <1>3, <2>2 DEF Counted, Keeps, Saving
  <2>4. placed[u] # None
    BY <1>1, <2>3, HandPlaced
    DEF CallsInv, MetaRight, ExpiredPlaced, Saving, InHand, Flight
  <2>5. ~Deducted(u)
    <3>1. ~Deducts(r, u)
      BY <1>3, <2>1 DEF Takes, Deducts, Deducted
    <3>2. \A q \in Requests : ~Deducts(q, u)
      BY <2>1, <3>1 DEF Keeps, Deducted, Deducts
    <3>3. QED
      BY <3>2 DEF Deducted, Deducts
  <2>6. QED
    BY <1>1, <2>1, <2>3, <2>4, <2>5 DEF Keeps, Counted, Taken
<1>4. CASE u \in Doomed(c)'
  <2>1. PICK q \in Requests : req'[q].pc = "kill" /\ req'[q].call = u /\ req'[q].carrier = c
    BY <1>4 DEF Doomed
  <2>2. leg'[u] = "up"
    BY <1>4 DEF Doomed
  <2>3. q # r
    BY <2>1, <2>2 DEF Takes
  <2>4. placed[u] # None /\ req[q] = req'[q]
    BY <1>2, <2>1, <2>3
  <2>5. leg[u] = "up"
    BY <1>1, <2>2, <2>4 DEF Keeps
  <2>6. QED
    BY <1>1, <2>1, <2>4, <2>5 DEF Doomed, Taken
<1>5. QED
  BY <1>3, <1>4 DEF Taken

(* A step that takes no call and puts no request in flight.                *)
LEMMA RoomKept ==
  ASSUME TypeInv, CallsInv, Books, Room, PlacedFinite', NEW r \in Requests, Keeps(r),
         \/ req'[r].pc \notin {"dial", "incr"}
         \/ /\ req[r].pc \in {"dial", "incr"} /\ req'[r].carrier = req[r].carrier
            /\ req'[r].pc = "incr",
         \A c \in Carriers, u \in Calls : Takes(r, c, u) => c \in overdrawn' \/ u \in Taken(c)
  PROVE  Room'
<1>1. Admitted'
  BY DEF Room, Admitted, Keeps
<1>2. ASSUME NEW c \in Carriers PROVE RoomFor(c)'
  <2>1. InFlight(c)' \subseteq InFlight(c)
    BY DEF InFlight, Keeps
  <2>2. c \in overdrawn' \/ Taken(c)' \subseteq Taken(c)
    <3> SUFFICES ASSUME c \notin overdrawn', NEW u \in Taken(c)' PROVE u \in Taken(c)
      OBVIOUS
    <3>1. u \in Calls
      BY DEF Taken, Counted, Doomed
    <3>2. QED
      BY <3>1, TakenGrows DEF Books
  <2>3. QED
    BY <2>1, <2>2, RoomStays DEF Books, Room, Keeps
<1>3. QED
  BY <1>1, <1>2 DEF Room

(* Originate checks, dials, counts and saves.                              *)
LEMMA OriginateRoom ==
  ASSUME TypeInv, CallsInv, Books, Room, PlacedFinite', NEW r \in Requests,
         OriginateStep(r)
  PROVE  Room'
<1> USE DEF At, redis, freeswitch, ghosts, errors
<1>1. CASE Admit(r)
  <2>1. /\ UNCHANGED <<channels, meta, placed, leg, expired, overdrawn>>
        /\ req[r].pc = "pick"
        /\ req'[r].pc = "dial" /\ req'[r].carrier = Order[req[r].at]
        /\ \A q \in Requests : q # r => req'[q] = req[q]
    BY <1>1, ReqTyped DEF Admit, TypeInv, TypeOK
  <2>2. Keeps(r)
    BY <2>1 DEF Keeps
  <2>3. /\ MaxChannels[req'[r].carrier] > 0
        /\ channels[req'[r].carrier] < MaxChannels[req'[r].carrier]
    BY <1>1, <2>1 DEF Admit
  <2>4. Admitted'
    BY <2>1, <2>3 DEF Room, Admitted
  <2>5. ASSUME NEW c \in Carriers PROVE RoomFor(c)'
    <3>1. Taken(c)' \subseteq Taken(c)
      <4> SUFFICES ASSUME NEW u \in Taken(c)' PROVE u \in Taken(c)
        OBVIOUS
      <4>1. ~Takes(r, c, u)
        BY <2>1 DEF Takes, Saves, Deducts
      <4>2. QED
        BY <2>2, <4>1, TakenGrows DEF Books
    <3>2. CASE c = req'[r].carrier
      <4>1. InFlight(c)' = InFlight(c) \cup {r}
        BY <2>1, <3>2 DEF InFlight
      <4>2. QED
        BY <2>1, <2>3, <3>1, <3>2, <4>1, RoomAdmits DEF Books
    <3>3. CASE c # req'[r].carrier
      <4>1. InFlight(c)' \subseteq InFlight(c)
        BY <2>1, <3>3 DEF InFlight
      <4>2. QED
        BY <2>1, <3>1, <4>1, RoomStays DEF Books, Room
    <3>4. QED
      BY <3>2, <3>3
  <2>6. QED
    BY <2>4, <2>5 DEF Room
<1>2. CASE Skip(r) \/ Refuse(r) \/ DialFails(r) \/ Abandon(r)
  <2>1. /\ UNCHANGED <<meta, placed, expired, overdrawn>>
        /\ leg' = leg \/ LegDown(req[r].call)
        /\ req[r].pc \in {"pick", "dial", "kill"}
    BY <1>2 DEF Skip, Refuse, DialFails, Abandon
  <2>2. /\ req'[r].pc \in {"pick", "idle"}
        /\ \A q \in Requests : q # r => req'[q] = req[q]
    BY <1>2, NextCarrierFields, AnswerFields DEF Skip, Refuse, DialFails, Abandon
  <2>3. Keeps(r)
    BY <2>1, <2>2 DEF Keeps, LegDown, TypeInv, TypeOK
  <2>4. \A c \in Carriers, u \in Calls : ~Takes(r, c, u)
    BY <2>1, <2>2 DEF Takes, Saves, Deducts
  <2>5. QED
    BY <2>2, <2>3, <2>4, RoomKept
<1>3. CASE DialOK(r) \/ DialReplyLost(r)
  <2>1. PICK u \in Calls : LegUp(r, u)
    BY <1>3 DEF DialOK, DialReplyLost
  <2>2. /\ UNCHANGED <<meta, expired, overdrawn>> /\ req[r].pc = "dial"
        /\ req'[r].pc = "pick" \/ (req'[r].pc = "incr" /\ req'[r].carrier = req[r].carrier)
        /\ \A q \in Requests : q # r => req'[q] = req[q]
    <3>1. CASE DialOK(r)
      BY <3>1, ReqTyped DEF DialOK, TypeInv, TypeOK
    <3>2. CASE DialReplyLost(r)
      BY <3>2, NextCarrierFields DEF DialReplyLost
    <3>3. QED
      BY <1>3, <3>1, <3>2
  <2>3. placed[u] = None
    BY <2>1 DEF LegUp, CallsInv, LegsPlaced
  <2>4. /\ placed'[u].carrier = req[r].carrier
        /\ \A w \in Calls : w # u => placed'[w] = placed[w] /\ leg'[w] = leg[w]
    BY <2>1 DEF LegUp, TypeInv, TypeOK
  <2>5. Keeps(r)
    BY <2>2, <2>3, <2>4 DEF Keeps
  <2>6. \A c \in Carriers, w \in Calls : ~Takes(r, c, w)
    BY <2>2 DEF Takes, Saves, Deducts
  <2>7. QED
    BY <2>2, <2>5, <2>6, RoomKept
<1>4. CASE Incr(r) \/ IncrFails(r)
  <2>1. /\ UNCHANGED <<meta, placed, leg, expired, overdrawn>> /\ req[r].pc = "incr"
        /\ Goto(r, "save") \/ Goto(r, "kill")
    BY <1>4 DEF Incr, IncrFails
  <2>2. /\ req'[r].pc \in {"save", "kill"} /\ req'[r].call = req[r].call
        /\ req'[r].carrier = req[r].carrier
        /\ \A q \in Requests : q # r => req'[q] = req[q]
    BY <2>1, GotoFields
  <2>3. Keeps(r)
    BY <2>1, <2>2 DEF Keeps
  <2>4. PICK u \in Calls : u = req[r].call
    BY <2>1, HandPlaced DEF InHand, Flight
  <2>5. placed[u].carrier = req[r].carrier
    BY <2>1, <2>4, HandPlaced DEF InHand, Flight
  <2>6. ASSUME NEW c \in Carriers PROVE RoomFor(c)'
    <3>1. \A w \in Calls : Takes(r, c, w) => w = u /\ c = req[r].carrier
      BY <2>1, <2>2, <2>4, <2>5 DEF Takes, Saves, Deducts
    <3>2. \A w \in Taken(c)' : w \in Taken(c) \/ (w = u /\ c = req[r].carrier)
      <4> SUFFICES ASSUME NEW w \in Taken(c)'
                   PROVE  w \in Taken(c) \/ (w = u /\ c = req[r].carrier)
        OBVIOUS
      <4>1. w \in Calls
        BY DEF Taken, Counted, Doomed
      <4>2. QED
        BY <2>3, <3>1, <4>1, TakenGrows DEF Books
    <3>3. CASE c = req[r].carrier
      <4>1. r \in InFlight(c) /\ InFlight(c)' = InFlight(c) \ {r}
        BY <2>1, <2>2, <3>3 DEF InFlight
      <4>2. Taken(c)' \subseteq Taken(c) \cup {u}
        BY <3>2
      <4>3. QED
        BY <2>1, <4>1, <4>2, RoomMoves DEF Books, Room
    <3>4. CASE c # req[r].carrier
      <4>1. InFlight(c)' \subseteq InFlight(c)
        BY <2>1, <2>2 DEF InFlight
      <4>2. QED
        BY <2>1, <3>2, <3>4, <4>1, RoomStays DEF Books, Room
    <3>5. QED
      BY <3>3, <3>4
  <2>7. Admitted'
    BY <2>1, <2>2 DEF Room, Admitted
  <2>8. QED
    BY <2>6, <2>7 DEF Room
<1>5. CASE Save(r) \/ SaveAgain(r) \/ SaveFails(r)
  <2>1. /\ UNCHANGED <<placed, leg, expired, overdrawn>> /\ req[r].pc = "save"
        /\ SaveKeys(r) \/ UNCHANGED meta
    BY <1>5 DEF Save, SaveAgain, SaveFails
  <2>2. /\ \/ req'[r].pc = "idle"
           \/ /\ req'[r].pc \in {"save", "kill"}
              /\ req'[r].call = req[r].call /\ req'[r].carrier = req[r].carrier
        /\ \A q \in Requests : q # r => req'[q] = req[q]
    BY <1>5, <2>1, AnswerFields, GotoFields DEF Save, SaveAgain, SaveFails
  <2>3. Keeps(r)
    BY <2>1, <2>2 DEF Keeps, SaveKeys, TypeInv, TypeOK
  <2>4. ASSUME NEW c \in Carriers, NEW u \in Calls, Takes(r, c, u) PROVE u \in Taken(c)
    <3>1. req[r].call = u /\ req[r].carrier = c /\ leg[u] = "up"
      BY <2>1, <2>2, <2>4 DEF Takes, Saves, Deducts
    <3>2. placed[u] # None /\ placed[u].carrier = c
      BY <2>1, <3>1, HandPlaced DEF InHand, Flight
    <3>3. Saving(u)
      BY <2>1, <3>1 DEF Saving
    <3>4. ~Deducted(u)
      BY <3>1 DEF Deducted, CallsInv, Own, AfterKill
    <3>5. QED
      BY <3>2, <3>3, <3>4 DEF Counted, Taken
  <2>5. QED
    BY <2>2, <2>3, <2>4, RoomKept
<1>6. QED
  BY <1>1, <1>2, <1>3, <1>4, <1>5 DEF OriginateStep

(* Hangup takes no call, but for one whose keys outlive their deduction.   *)
LEMMA HangupRoom ==
  ASSUME TypeInv, CallsInv, Books, Room, PlacedFinite', NEW r \in Requests,
         HangupStep(r)
  PROVE  Room'
<1> USE DEF At, redis, freeswitch, ghosts, errors
<1>1. /\ \A q \in Requests : q # r => req'[q] = req[q]
      /\ req[r].pc \in HangupPCs /\ req'[r].pc \in {"idle"} \cup HangupPCs
      /\ req[r].pc \in {"clamp", "delMeta"} =>
           \/ DelMeta(r)
           \/ /\ req'[r].pc = "delMeta"
              /\ req'[r].call = req[r].call /\ req'[r].carrier = req[r].carrier
  <2>1. CASE UuidKillFails(r) \/ DecrFails(r) \/ Release(r)
    BY <2>1, AnswerFields DEF UuidKillFails, DecrFails, Release, HangupPCs
  <2>2. CASE LoadMeta(r)
    BY <2>2, ReqTyped DEF LoadMeta, Goto, TypeInv, TypeOK, HangupPCs
  <2>3. CASE UuidKill(r) \/ Decr(r) \/ DelMeta(r) \/ GetMine(r) \/ DelMine(r)
    <3>1. /\ req[r].pc \in HangupPCs
          /\ req[r].pc \in {"clamp", "delMeta"} => DelMeta(r)
          /\ \/ Goto(r, "delMeta") \/ Goto(r, "decr") \/ Goto(r, "clamp")
             \/ Goto(r, "getMine") \/ Goto(r, "delMine") \/ Goto(r, "release")
      BY <2>3 DEF UuidKill, Decr, DelMeta, GetMine, DelMine, HangupPCs
    <3>2. QED
      BY <3>1, GotoFields DEF HangupPCs
  <2>4. CASE Clamp(r)
    BY <2>4, GotoFields DEF Clamp, HangupPCs
  <2>5. QED
    BY <2>1, <2>2, <2>3, <2>4 DEF HangupStep
<1>2. /\ UNCHANGED placed /\ expired' \subseteq expired /\ overdrawn \subseteq overdrawn'
      /\ meta' = meta \/ meta' = [meta EXCEPT ![req[r].call] = None]
      /\ leg' = leg \/ LegDown(req[r].call)
  BY DEF HangupStep, LoadMeta, UuidKill, UuidKillFails, Decr, DecrFails, Clamp, DelMeta,
         GetMine, DelMine, Release, Overdraws
<1>3. Keeps(r)
  BY <1>1, <1>2 DEF Keeps, LegDown, TypeInv, TypeOK
<1>4. ASSUME NEW c \in Carriers, NEW u \in Calls, Takes(r, c, u) PROVE c \in overdrawn'
  <2>1. Deducts(r, u) /\ ~Deducts(r, u)' /\ u \in Counted(c)'
    BY <1>1, <1>4 DEF Takes, Saves, HangupPCs
  <2>2. DelMeta(r) /\ req[r].call = u /\ req[r].carrier # None /\ req[r].pc = "delMeta"
    BY <1>1, <2>1 DEF Deducts, DelMeta
  <2>3. req[r].pc \in InHand
    BY <2>2 DEF InHand, HangupPCs
  <2>4. placed[u] # None /\ placed[u].carrier = req[r].carrier /\ u \notin expired
    BY <2>2, <2>3, HandPlaced DEF Books, Parts, Carries
  <2>5. c = req[r].carrier
    BY <1>2, <2>1, <2>4 DEF Counted
  <2>6. Saving(u)' => Saving(u)
    BY <1>1 DEF Saving, HangupPCs
  <2>7. meta'[u] # None \/ Saving(u)
    BY <1>2, <2>1, <2>4, <2>6 DEF Counted
  <2>8. QED
    BY <2>2, <2>5, <2>7 DEF DelMeta, Overdraws
<1>5. QED
  BY <1>1, <1>3, <1>4, RoomKept DEF HangupPCs

(* Every step leaves room for the requests in flight.                      *)
LEMMA NextRoom ==
  TypeInv /\ CallsInv /\ Books /\ Books' /\ Room /\ [Next]_vars => Room'
<1> SUFFICES ASSUME TypeInv, CallsInv, Books, Books', Room, [Next]_vars PROVE Room'
  OBVIOUS
<1> USE DEF redis, freeswitch, ghosts, errors
<1>1. PlacedFinite' /\ PlacedFinite
  BY DEF Books
<1>2. ASSUME NEW r \in Requests, Arrive(r) PROVE Room'
  <2>1. /\ UNCHANGED <<meta, placed, leg, expired, overdrawn>> /\ req[r].pc = "idle"
        /\ \A q \in Requests : q # r => req'[q] = req[q]
    BY <1>2 DEF Arrive, Originate, HangupCurrent, HangupCall, At, TypeInv, TypeOK
  <2>2. req'[r].pc \in {"pick", "load", "uuidKill"}
    <3>1. ASSUME NEW a \in Agents, Originate(r, a) PROVE req'[r].pc = "pick"
      BY <3>1, ReqTyped DEF Originate, TypeInv, TypeOK
    <3>2. ASSUME NEW a \in Agents, HangupCurrent(r, a) PROVE req'[r].pc = "load"
      BY <3>2, ReqTyped DEF HangupCurrent, TypeInv, TypeOK
    <3>3. ASSUME NEW a \in Agents, NEW u \in Calls, HangupCall(r, a, u)
          PROVE  req'[r].pc = "uuidKill"
      BY <3>3, ReqTyped DEF HangupCall, TypeInv, TypeOK
    <3>4. QED
      BY <1>2, <3>1, <3>2, <3>3 DEF Arrive
  <2>3. Keeps(r)
    BY <2>1 DEF Keeps
  <2>4. \A c \in Carriers, u \in Calls : ~Takes(r, c, u)
    BY <2>1, <2>2 DEF Takes, Saves, Deducts
  <2>5. QED
    BY <1>1, <2>2, <2>3, <2>4, RoomKept
<1>3. ASSUME NEW r \in Requests, OriginateStep(r) \/ HangupStep(r) PROVE Room'
  BY <1>1, <1>3, OriginateRoom, HangupRoom
<1>4. ASSUME NEW v \in Calls, FarHangup(v) \/ ExpireKeys(v) PROVE Room'
  <2>1. /\ UNCHANGED <<placed, req, overdrawn>>
        /\ \A u \in Calls : leg'[u] = "up" => leg[u] = "up"
    BY <1>4 DEF FarHangup, ExpireKeys, LegDown, TypeInv, TypeOK
  <2>2. ASSUME NEW c \in Carriers, NEW u \in Counted(c)' PROVE u \in Counted(c)
    <3>1. \/ UNCHANGED <<meta, expired>>
          \/ /\ meta' = [meta EXCEPT ![v] = None]
             /\ expired' = IF CountedCall(v) THEN expired \cup {v} ELSE expired
      BY <1>4 DEF FarHangup, ExpireKeys
    <3>2. /\ u \in Calls /\ placed[u] # None /\ placed[u].carrier = c /\ ~Deducted(u)
          /\ meta'[u] # None \/ Saving(u) \/ u \in expired'
      BY <2>1 DEF Counted, Saving, Deducted
    <3>3. CASE u = v /\ CountedCall(v)
      BY <3>2, <3>3 DEF CountedCall
    <3>4. CASE ~(u = v /\ CountedCall(v))
      <4>1. meta[u] # None \/ Saving(u) \/ u \in expired
        BY <3>1, <3>2, <3>4 DEF TypeInv, TypeOK
      <4>2. QED
        BY <3>2, <4>1 DEF Counted
    <3>5. QED
      BY <3>3, <3>4
  <2>3. ASSUME NEW c \in Carriers PROVE RoomFor(c)'
    <3>1. InFlight(c)' = InFlight(c) /\ Doomed(c)' \subseteq Doomed(c)
      BY <2>1 DEF InFlight, Doomed
    <3>2. Taken(c)' \subseteq Taken(c)
      BY <2>2, <3>1 DEF Taken
    <3>3. QED
      BY <1>1, <2>1, <3>1, <3>2, RoomStays DEF Room
  <2>4. QED
    BY <2>1, <2>3 DEF Room, Admitted
<1>5. CASE UNCHANGED <<meta, leg, placed, req, expired, overdrawn>>
  BY <1>5 DEF Room, Admitted, RoomFor, InFlight, Taken, Counted, Doomed, Saving, Deducted
<1>6. QED
  BY <1>2, <1>3, <1>4, <1>5 DEF Next, vars, InboundClaim

(* A live leg of a carrier that is not lost is taken, or a request in      *)
(* flight has it in hand.                                                  *)
LEMMA LiveTaken ==
  ASSUME TypeInv, CallsInv, NEW c \in Carriers, NEW u \in Live(c) \ lost
  PROVE  u \in Taken(c) \cup {req[r].call : r \in InFlight(c)}
<1>1. u \in Calls /\ leg[u] = "up" /\ placed[u].carrier = c /\ u \notin lost
  BY DEF Live
<1>2. placed[u] # None
  BY <1>1 DEF CallsInv, LegsPlaced
<1>3. ~Deducted(u)
  BY <1>1 DEF Deducted, CallsInv, Own, AfterKill
<1>4. \/ meta[u] # None \/ u \in expired
      \/ \E r \in Requests : req[r].call = u /\ req[r].pc \in Flight
  BY <1>1 DEF CallsInv, UpLegTracked, Flight
<1>5. CASE meta[u] # None \/ u \in expired
  BY <1>1, <1>2, <1>3, <1>5 DEF Counted, Taken
<1>6. ASSUME NEW r \in Requests, req[r].call = u, req[r].pc \in Flight
      PROVE  u \in Taken(c) \cup {req[q].call : q \in InFlight(c)}
  <2>1. req[r].carrier = c
    BY <1>1, <1>6, HandPlaced DEF InHand
  <2>2. CASE req[r].pc = "incr"
    BY <1>6, <2>1, <2>2 DEF InFlight
  <2>3. CASE req[r].pc = "save"
    BY <1>1, <1>2, <1>3, <1>6, <2>3 DEF Saving, Counted, Taken
  <2>4. CASE req[r].pc = "kill"
    BY <1>1, <1>6, <2>1, <2>4 DEF Doomed, Taken
  <2>5. QED
    BY <1>6, <2>2, <2>3, <2>4 DEF Flight
<1>7. QED
  BY <1>4, <1>5, <1>6

(* The legs up through a carrier exceed its limit by at most the other     *)
(* requests in progress, and none is up through a carrier without          *)
(* channels, for any number of requests, calls and carriers, however       *)
(* hangups overlap: until the carrier's counter is counted down by mistake *)
(* and but for the legs that an ESL failure lost (manual.go:161-195).      *)
THEOREM LimitHolds == Spec => []LegsWithinLimit
<1>1. TypeInv /\ CallsInv /\ Books /\ Room => LegsWithinLimit
  <2> SUFFICES ASSUME TypeInv, CallsInv, Books, Room, NEW c \in Carriers \ overdrawn
               PROVE  Cardinality(Live(c) \ lost) <= Ceiling(c)
    BY DEF LegsWithinLimit
  <2> DEFINE L == Live(c) \ lost
             H == {req[r].call : r \in InFlight(c)}
  <2>1. CASE MaxChannels[c] > 0
    <3>1. /\ IsFiniteSet(H) /\ Cardinality(H) \in Nat
          /\ Cardinality(H) <= Cardinality(InFlight(c))
      BY CallsOfRequests DEF InFlight
    <3>2. IsFiniteSet(Taken(c)) /\ Cardinality(Taken(c)) \in Nat
      BY TakenFinite DEF Books, TakenCountable
    <3>3. /\ IsFiniteSet(Taken(c) \cup H) /\ Cardinality(Taken(c) \cup H) \in Nat
          /\ Cardinality(Taken(c) \cup H) <= Cardinality(Taken(c)) + Cardinality(H)
      BY <3>1, <3>2, UnionBound
    <3>4. L \subseteq Taken(c) \cup H
      BY LiveTaken
    <3>5. Cardinality(L) \in Nat /\ Cardinality(L) <= Cardinality(Taken(c) \cup H)
      BY <3>3, <3>4, FS_Subset, FS_CardinalityType
    <3>6. /\ Cardinality(InFlight(c)) \in Nat /\ Cardinality(Requests) \in Nat
          /\ MaxChannels[c] \in Int
      BY MaxAssumption, CountRequests DEF InFlight
    <3>7. Cardinality(Taken(c)) + Cardinality(InFlight(c))
            <= MaxChannels[c] + Cardinality(Requests) - 1
      BY <2>1 DEF Room, RoomFor
    <3>8. QED
      BY <2>1, <3>1, <3>2, <3>3, <3>5, <3>6, <3>7 DEF Ceiling
  <2>2. CASE ~(MaxChannels[c] > 0)
    <3>1. L = {}
      BY <2>2 DEF Live, Room, Admitted, CallsInv, LegsPlaced
    <3>2. QED
      BY <2>2, <3>1, FS_EmptySet DEF Ceiling
  <2>3. QED
    BY <2>1, <2>2
<1>2. TypeInv /\ CallsInv /\ Books /\ Room /\ [Next]_vars
        => (TypeInv /\ CallsInv /\ Books /\ Room)'
  BY NextTyped, NextCalls, NextBooks, NextRoom
<1>3. QED
  BY <1>1, <1>2, InitTypeInv, InitCalls, InitBooks, InitRoom, PTL DEF Spec

-----------------------------------------------------------------------------
(* The calls-per-second limiter that the dialer asks (manual.go:135, 181)  *)
(* for any cap, any number of originates and any run of seconds: a window  *)
(* never grants more than its cap to prompt callers.                       *)
Cap == IF MaxCPS > 0 THEN MaxCPS ELSE 0

(* A live key is kept past the second after its own.                       *)
KeyOutlives == \A s \in Seconds : count[s] > 0 => expires[s] >= s + 2

StampsArePast == \A r \in Originates : stamp[r] <= clock

NoFutureGrants == \A s, t \in Seconds : t > clock => granted[s][t] = 0

(* While a window is current or just over, its counter is what it has      *)
(* granted to the callers of those two seconds.                            *)
CountIsPrompt == \A s \in Seconds : clock <= s + 1 => count[s] = Prompt(s)

CountCapped == \A s \in Seconds : count[s] <= Cap

Windows == /\ KeyOutlives
           /\ StampsArePast
           /\ NoFutureGrants
           /\ CountIsPrompt
           /\ CountCapped
           /\ PromptGrantsCapped

LimiterInv == LimiterTypeOK /\ Windows

-----------------------------------------------------------------------------
(* The seconds of a run are an interval of the integers.                   *)
LEMMA SecondsAre ==
  /\ \A s \in Seconds : s \in Int /\ s >= 0 /\ s <= LastSecond
  /\ \A s \in Int : s >= 0 /\ s <= LastSecond => s \in Seconds
  /\ LastSecond \in Int
  BY LastSecondAssumption DEF Seconds

(* A sum of grants is a number ...                                         *)
LEMMA PromptIsInt == LimiterTypeOK => \A s \in Seconds : Prompt(s) \in Int
  BY SecondsAre DEF LimiterTypeOK, Prompt

(* ... that stays as it is while nothing is granted.                       *)
LEMMA PromptFrame ==
  UNCHANGED granted => \A s \in Seconds : Prompt(s)' = Prompt(s)
  BY DEF Prompt

(* The invariant holds in Redis without keys.                              *)
LEMMA InitLimiter == LimiterInit => LimiterInv
<1> SUFFICES ASSUME LimiterInit PROVE LimiterInv
  OBVIOUS
<1>1. 0 \in Seconds
  BY LastSecondAssumption DEF Seconds
<1>2. LimiterTypeOK
  BY <1>1 DEF LimiterInit, LimiterTypeOK
<1>3. \A s \in Seconds : Prompt(s) = 0
  BY SecondsAre DEF LimiterInit, Prompt
<1>4. Cap \in Int /\ Cap >= 0
  BY MaxCPSAssumption DEF Cap
<1>5. KeyOutlives /\ StampsArePast /\ NoFutureGrants
  BY DEF LimiterInit, KeyOutlives, StampsArePast, NoFutureGrants
<1>6. CountIsPrompt /\ CountCapped /\ PromptGrantsCapped
  BY <1>3, <1>4 DEF LimiterInit, CountIsPrompt, CountCapped, PromptGrantsCapped, Cap
<1>7. QED
  BY <1>2, <1>5, <1>6 DEF LimiterInv, Windows

(* A request that reads the clock or gives up touches no window (Originate *)
(* before and between its carriers), nor does a call the script refuses.   *)
LEMMA StampStep ==
  ASSUME LimiterInv, NEW r \in Originates, NEW x \in {-1, clock},
         stamp' = [stamp EXCEPT ![r] = x],
         UNCHANGED <<clock, count, expires, granted>>
  PROVE  LimiterInv'
<1> USE DEF LimiterInv, Windows
<1>1. clock \in Int /\ clock >= 0
  BY SecondsAre DEF LimiterTypeOK
<1>2. LimiterTypeOK'
  BY DEF LimiterTypeOK
<1>3. \A q \in Originates : stamp'[q] \in {stamp[q], -1, clock}
  BY DEF LimiterTypeOK
<1>4. StampsArePast'
  BY <1>1, <1>3 DEF StampsArePast
<1>5. KeyOutlives' /\ NoFutureGrants' /\ CountCapped'
  BY DEF KeyOutlives, NoFutureGrants, CountCapped
<1>6. CountIsPrompt' /\ PromptGrantsCapped'
  BY PromptFrame DEF CountIsPrompt, PromptGrantsCapped
<1>7. QED
  BY <1>2, <1>4, <1>5, <1>6

(* A call the script grants counts in its window, and in Prompt as long as *)
(* the counter has not been dropped (limiter.go:15-25).                    *)
LEMMA GrantedStep ==
  ASSUME LimiterInv, NEW r \in Originates, Allow(r), ~(count[stamp[r]] + 1 > MaxCPS)
  PROVE  LimiterInv'
<1>1. PICK w \in Seconds :
      /\ w = stamp[r] /\ w <= clock /\ Cap = MaxCPS
      /\ stamp' = [stamp EXCEPT ![r] = -1]
      /\ clock' = clock
      /\ count' = [count EXCEPT ![w] = count[w] + 1]
      /\ expires' = IF count[w] = 0
                    THEN [expires EXCEPT ![w] = clock + 2] ELSE expires
      /\ granted' = [granted EXCEPT ![w] = [granted[w] EXCEPT
                                             ![clock] = granted[w][clock] + 1]]
  BY DEF Allow, LimiterInv, Windows, LimiterTypeOK, StampsArePast, windowTTLSeconds, Cap
<1>2. clock \in Seconds /\ clock \in Int /\ clock >= 0 /\ w \in Int
  BY <1>1, SecondsAre DEF LimiterInv, LimiterTypeOK
<1>3. count[w] + 1 <= Cap /\ Cap \in Int /\ count[w] \in Nat
  BY <1>1, MaxCPSAssumption DEF LimiterInv, LimiterTypeOK
<1> USE DEF LimiterInv, Windows
<1>4. /\ count' \in [Seconds -> Nat] /\ count'[w] = count[w] + 1
      /\ \A s \in Seconds : s # w => count'[s] = count[s]
  BY <1>1, <1>3 DEF LimiterTypeOK
<1>5. /\ expires' \in [Seconds -> Nat]
      /\ \A s \in Seconds : s # w => expires'[s] = expires[s]
      /\ expires'[w] = IF count[w] = 0 THEN clock + 2 ELSE expires[w]
  BY <1>1, <1>2 DEF LimiterTypeOK
<1>6. /\ granted' \in [Seconds -> [Seconds -> Nat]]
      /\ granted'[w][clock] = granted[w][clock] + 1
      /\ \A s, t \in Seconds : s # w \/ t # clock => granted'[s][t] = granted[s][t]
  BY <1>1, <1>2 DEF LimiterTypeOK
<1>7. LimiterTypeOK'
  BY <1>1, <1>4, <1>5, <1>6 DEF LimiterTypeOK
<1>8. KeyOutlives'
  BY <1>1, <1>2, <1>3, <1>4, <1>5 DEF KeyOutlives, LimiterTypeOK
<1>9. StampsArePast'
  <2>1. \A q \in Originates : stamp'[q] \in {stamp[q], -1}
    BY <1>1 DEF LimiterTypeOK
  <2>2. QED
    BY <2>1, <1>1, <1>2 DEF StampsArePast
<1>10. NoFutureGrants'
  BY <1>1, <1>2, <1>6 DEF NoFutureGrants
<1>11. CountCapped'
  BY <1>3, <1>4 DEF CountCapped
<1>12. \A s \in Seconds : s # w => Prompt(s)' = Prompt(s)
  BY <1>6, SecondsAre DEF Prompt
<1>13. Prompt(w)' = IF clock <= w + 1 THEN Prompt(w) + 1 ELSE Prompt(w)
  <2>1. w <= LastSecond /\ clock <= LastSecond /\ LastSecond \in Int
    BY <1>1, <1>2, SecondsAre
  <2>2. granted[w][w] \in Int /\ (w < LastSecond => granted[w][w + 1] \in Int)
    BY <1>1, <1>2, <2>1, SecondsAre DEF LimiterTypeOK
  <2>3. CASE clock = w
    BY <1>1, <1>2, <1>6, <2>1, <2>2, <2>3, SecondsAre DEF Prompt
  <2>4. CASE clock = w + 1
    BY <1>1, <1>2, <1>6, <2>1, <2>2, <2>4, SecondsAre DEF Prompt
  <2>5. CASE clock > w + 1
    BY <1>1, <1>2, <1>6, <2>1, <2>5, SecondsAre DEF Prompt
  <2>6. QED
    BY <1>1, <1>2, <2>3, <2>4, <2>5
<1>14. Prompt(w) \in Int /\ Prompt(w) <= Cap
  BY <1>1, PromptIsInt DEF PromptGrantsCapped, Cap
<1>15. CountIsPrompt'
  BY <1>1, <1>4, <1>12, <1>13 DEF CountIsPrompt
<1>16. \A s \in Seconds : Prompt(s)' <= Cap
  BY <1>1, <1>3, <1>12, <1>13, <1>14 DEF CountIsPrompt, PromptGrantsCapped, Cap
<1>17. PromptGrantsCapped'
  BY <1>16 DEF PromptGrantsCapped, Cap
<1>18. QED
  BY <1>7, <1>8, <1>9, <1>10, <1>11, <1>15, <1>17

(* A key dies two seconds after it was set at the earliest, when the       *)
(* callers of its second and the next are over.                            *)
LEMMA ExpireStep ==
  ASSUME LimiterInv, NEW w \in Seconds, Expire(w)
  PROVE  LimiterInv'
<1> USE DEF LimiterInv, Windows
<1>1. /\ UNCHANGED <<clock, expires, stamp, granted>>
      /\ count' = [count EXCEPT ![w] = 0]
      /\ clock >= w + 2
  BY DEF Expire, KeyOutlives
<1>2. clock \in Int /\ w \in Int /\ Cap \in Int /\ Cap >= 0
  BY SecondsAre, MaxCPSAssumption DEF LimiterTypeOK, Cap
<1>3. /\ LimiterTypeOK' /\ count'[w] = 0
      /\ \A s \in Seconds : s # w => count'[s] = count[s]
  BY <1>1 DEF LimiterTypeOK
<1>4. KeyOutlives' /\ StampsArePast' /\ NoFutureGrants' /\ CountCapped'
  BY <1>1, <1>2, <1>3 DEF KeyOutlives, StampsArePast, NoFutureGrants, CountCapped
<1>5. CountIsPrompt' /\ PromptGrantsCapped'
  BY <1>1, <1>2, <1>3, PromptFrame DEF CountIsPrompt, PromptGrantsCapped
<1>6. QED
  BY <1>3, <1>4, <1>5

(* Time passing grants nothing.                                            *)
LEMMA TickStep ==
  ASSUME LimiterInv, Tick
  PROVE  LimiterInv'
<1> USE DEF LimiterInv, Windows
<1>1. /\ clock' = clock + 1 /\ clock < LastSecond
      /\ UNCHANGED <<count, expires, stamp, granted>>
  BY DEF Tick
<1>2. clock \in Int /\ clock >= 0 /\ clock' \in Seconds
  BY <1>1, SecondsAre DEF LimiterTypeOK
<1>3. LimiterTypeOK'
  BY <1>1, <1>2 DEF LimiterTypeOK
<1>4. \A q \in Originates : stamp[q] \in Int
  BY SecondsAre DEF LimiterTypeOK
<1>5. StampsArePast'
  BY <1>1, <1>2, <1>4 DEF StampsArePast
<1>6. KeyOutlives' /\ CountCapped'
  BY <1>1 DEF KeyOutlives, CountCapped
<1>7. NoFutureGrants'
  BY <1>1, <1>2, SecondsAre DEF NoFutureGrants
<1>8. CountIsPrompt' /\ PromptGrantsCapped'
  BY <1>1, <1>2, SecondsAre, PromptFrame DEF CountIsPrompt, PromptGrantsCapped
<1>9. QED
  BY <1>3, <1>5, <1>6, <1>7, <1>8

(* Nothing the limiter, its callers or the clock do breaks the invariant.  *)
THEOREM LimiterSound == LimiterSpec => []LimiterInv
<1>1. LimiterInv /\ [LimiterNext]_limiterVars => LimiterInv'
  <2> SUFFICES ASSUME LimiterInv, [LimiterNext]_limiterVars PROVE LimiterInv'
    OBVIOUS
  <2>1. ASSUME NEW r \in Originates, Capture(r) \/ Forgo(r) PROVE LimiterInv'
    BY <2>1, StampStep DEF Capture, Forgo
  <2>2. ASSUME NEW r \in Originates, Allow(r) PROVE LimiterInv'
    <3>1. CASE count[stamp[r]] + 1 > MaxCPS
      BY <2>2, <3>1, StampStep DEF Allow
    <3>2. QED
      BY <2>2, <3>1, GrantedStep
  <2>3. ASSUME NEW s \in Seconds, Expire(s) PROVE LimiterInv'
    BY <2>3, ExpireStep
  <2>4. CASE Tick
    BY <2>4, TickStep
  <2>5. CASE UNCHANGED limiterVars
    BY <2>5, PromptFrame
    DEF limiterVars, LimiterInv, LimiterTypeOK, Windows, KeyOutlives, StampsArePast, NoFutureGrants,
        CountIsPrompt, CountCapped, PromptGrantsCapped
  <2>6. QED
    BY <2>1, <2>2, <2>3, <2>4, <2>5 DEF LimiterNext
<1>2. QED
  BY <1>1, InitLimiter, PTL DEF LimiterSpec

(* The types of the limiter's state, for every cap and number of requests. *)
THEOREM LimiterTypeCorrect == LimiterSpec => []LimiterTypeOK
  BY LimiterSound, PTL DEF LimiterInv

(* The cap holds for prompt callers whatever stale callers and expiring    *)
(* keys do (limiter.go:13-50).                                             *)
THEOREM PromptCapped == LimiterSpec => []PromptGrantsCapped
<1>1. LimiterInv => PromptGrantsCapped
  BY DEF LimiterInv, Windows
<1>2. QED
  BY <1>1, LimiterSound, PTL
=============================================================================
