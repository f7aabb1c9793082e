--------------------------- MODULE PresenceProofs ---------------------------
(* Presence for every set of agents and clients: its inductive invariant,   *)
(* the claim property and the refinement of AgentStates.                     *)
EXTENDS Presence, TLAPS

(* TypeOK needs nothing but itself; the transactions need both parts.  *)
IInv == TypeOK /\ WatchedValueHolds

USE DEF States, Commands, Abs!States, Abs!Kinds, Abs!Outcomes, Abs!Returned

(* The first states satisfy the invariant: no operation is running. *)
LEMMA InitIInv == Init => IInv
  BY DEF Init, IInv, TypeOK, WatchedValueHolds, ValueRead, KindOf

(* A write of an agent's key keeps the store and the watches well-formed. *)
LEMMA StoreTyped ==
  ASSUME NEW a \in Agents, NEW s \in States, TypeOK, Store(a, s)
  PROVE  /\ presence' \in [Agents -> States]
         /\ dirty' \in [Clients -> BOOLEAN]
<1>1. presence' \in [Agents -> States]
  BY DEF TypeOK, Store
<1>2. \A c \in Clients : (dirty[c] \/ (Watching(c) /\ call[c].agent = a)) \in BOOLEAN
  BY DEF TypeOK, Watching
<1>3. QED BY <1>1, <1>2 DEF Store

(* So does the end of an operation, whatever it returns. *)
LEMMA FinishTyped ==
  ASSUME NEW c \in Clients, NEW o \in Abs!Outcomes, TypeOK, Finish(c, o)
  PROVE  /\ call' \in [Clients -> [kind : Abs!Kinds \cup {"none"},
                                   agent : Agents \cup {NoAgent},
                                   to : States, out : Abs!Outcomes]]
         /\ pc' \in [Clients -> Commands \cup {"idle"}]
BY DEF TypeOK, Finish

(* A step of a running operation sends one command: it writes the key and  *)
(* ends, or ends without a write, or goes on to another command.            *)
StepKinds(c) ==
  \/ \E s \in States, o \in Abs!Outcomes :
       pc[c] # "idle" /\ Store(call[c].agent, s) /\ Finish(c, o)
  \/ \E o \in Abs!Outcomes : FinishUnchanged(c, o)
  \/ \E l \in Commands : Goto(c, l)

(* Each command is a step of one of these kinds.                          *)
LEMMA RunsAre ==
  ASSUME NEW c \in Clients, TypeOK, WatchedValueHolds, Runs(c)
  PROVE  StepKinds(c)
<1> USE DEF StepKinds
<1>1. CASE Del(c) BY <1>1 DEF Del
<1>2. CASE Exists(c) BY <1>2 DEF Exists
<1>3. CASE SetStateGet(c) BY <1>3 DEF SetStateGet
<1>4. CASE WritePresence(c) BY <1>4 DEF WritePresence, WatchedValueHolds, TypeOK
<1>5. CASE ClaimGet(c) BY <1>5 DEF ClaimGet
<1>6. CASE ClaimExec(c) BY <1>6 DEF ClaimExec
<1>7. CASE ReleaseGet(c) BY <1>7 DEF ReleaseGet
<1>8. CASE ReleaseExec(c) BY <1>8 DEF ReleaseExec
<1>9. CASE CommandFails(c) BY <1>9 DEF CommandFails
<1>10. QED BY <1>1, <1>2, <1>3, <1>4, <1>5, <1>6, <1>7, <1>8, <1>9 DEF Runs

(* Every command of every operation, the failure of a command and the      *)
(* expiry of a key keep presence, calls and watches well-formed.           *)
LEMMA NextTypeOK == IInv /\ [Next]_vars => TypeOK'
<1> SUFFICES ASSUME IInv, [Next]_vars PROVE TypeOK'
  OBVIOUS
<1>0. TypeOK /\ WatchedValueHolds
  BY DEF IInv
<1>1. ASSUME NEW c \in Clients, Calls(c) PROVE TypeOK'
  <2>1. PICK a \in Agents, k \in Abs!Kinds, s \in States, l \in Commands :
          Begin(c, k, a, s, l)
    BY <1>1 DEF Calls, Start, Stop, SetState, ClaimAvailable, ReleaseOnCall
  <2>2. QED BY <1>0, <2>1 DEF Begin, TypeOK
<1>2. ASSUME NEW c \in Clients, Runs(c) PROVE TypeOK'
  <2>1. StepKinds(c)
    BY <1>0, <1>2, RunsAre
  <2>2. ASSUME NEW s \in States, NEW o \in Abs!Outcomes, pc[c] # "idle",
               Store(call[c].agent, s), Finish(c, o)
        PROVE  TypeOK'
    <3>1. call[c].agent \in Agents
      BY <1>0, <2>2 DEF WatchedValueHolds
    <3>2. QED BY <1>0, <2>2, <3>1, StoreTyped, FinishTyped DEF TypeOK
  <2>3. ASSUME NEW o \in Abs!Outcomes, FinishUnchanged(c, o) PROVE TypeOK'
    BY <1>0, <2>3, FinishTyped DEF TypeOK, FinishUnchanged
  <2>4. ASSUME NEW l \in Commands, Goto(c, l) PROVE TypeOK'
    BY <1>0, <2>4 DEF TypeOK, Goto
  <2>5. QED BY <2>1, <2>2, <2>3, <2>4 DEF StepKinds
<1>3. ASSUME NEW a \in Agents, Expire(a) PROVE TypeOK'
  BY <1>0, <1>3, StoreTyped DEF Expire, TypeOK
<1>4. CASE UNCHANGED vars
  BY <1>0, <1>4 DEF vars, TypeOK
<1>5. QED BY <1>1, <1>2, <1>3, <1>4 DEF Next

(* What a client must know to go on, about itself alone. *)
ClientOK(c) == /\ ValueRead(c)
               /\ KindOf(c)
               /\ pc[c] = "idle" <=> call[c].out # "pending"
               /\ pc[c] # "idle" => call[c].agent \in Agents

(* A write of some key marks every other client that watches the key, so   *)
(* it cannot take away what an unmarked client has read.                    *)
LEMMA StoreKeepsOthers ==
  ASSUME NEW a \in Agents, NEW s \in States, NEW d \in Clients,
         TypeOK, ClientOK(d), Store(a, s),
         pc'[d] = pc[d], call'[d] = call[d]
  PROVE  ClientOK(d)'
BY DEF TypeOK, ClientOK, ValueRead, KindOf, Store, Watching

(* A step that touches no key and leaves client d alone keeps what d knows. *)
LEMMA FrameKeepsOthers ==
  ASSUME NEW d \in Clients, ClientOK(d),
         pc'[d] = pc[d], call'[d] = call[d], dirty'[d] = dirty[d],
         presence' = presence
  PROVE  ClientOK(d)'
BY DEF ClientOK, ValueRead, KindOf

(* Every step keeps what each client knows. *)
LEMMA NextWatched == IInv /\ [Next]_vars => WatchedValueHolds'
<1> SUFFICES ASSUME IInv, [Next]_vars, NEW d \in Clients PROVE ClientOK(d)'
  BY DEF WatchedValueHolds, ClientOK
<1>0. TypeOK /\ \A e \in Clients : ClientOK(e)
  BY DEF IInv, WatchedValueHolds, ClientOK
<1>1. ASSUME NEW c \in Clients, Calls(c) PROVE ClientOK(d)'
  <2>1. PICK a \in Agents : Start(c, a) \/ Stop(c, a) \/ ClaimAvailable(c, a)
                            \/ ReleaseOnCall(c, a) \/ \E s \in States : SetState(c, a, s)
    BY <1>1 DEF Calls
  <2>2. CASE d = c
    BY <2>1, <2>2, <1>0 DEF TypeOK, ClientOK, ValueRead, KindOf, Start, Stop,
       ClaimAvailable, ReleaseOnCall, SetState, Begin
  <2>3. CASE d # c
    <3>1. pc'[d] = pc[d] /\ call'[d] = call[d] /\ dirty'[d] = dirty[d]
          /\ presence' = presence
      BY <2>1, <2>3, <1>0 DEF TypeOK, Start, Stop, ClaimAvailable,
         ReleaseOnCall, SetState, Begin
    <3>2. QED BY <3>1, <1>0, FrameKeepsOthers
  <2>4. QED BY <2>2, <2>3
<1>2. ASSUME NEW c \in Clients, Runs(c) PROVE ClientOK(d)'
  <2>1. CASE d = c
    <3> USE <1>0, <2>1 DEF TypeOK, ClientOK, ValueRead, KindOf, Finish, Goto,
        FinishUnchanged
    <3>1. CASE Del(c) BY <3>1 DEF Del, Store
    <3>2. CASE Exists(c) BY <3>2 DEF Exists
    <3>3. CASE SetStateGet(c) BY <3>3 DEF SetStateGet
    <3>4. CASE WritePresence(c) BY <3>4 DEF WritePresence, Store
    <3>5. CASE ClaimGet(c) BY <3>5 DEF ClaimGet
    <3>6. CASE ClaimExec(c) BY <3>6 DEF ClaimExec, Store
    <3>7. CASE ReleaseGet(c) BY <3>7 DEF ReleaseGet
    <3>8. CASE ReleaseExec(c) BY <3>8 DEF ReleaseExec, Store
    <3>9. CASE CommandFails(c) BY <3>9 DEF CommandFails
    <3>10. QED BY <1>2, <3>1, <3>2, <3>3, <3>4, <3>5, <3>6, <3>7, <3>8, <3>9 DEF Runs
  <2>2. CASE d # c
    <3>0. StepKinds(c)
      BY <1>0, <1>2, RunsAre DEF WatchedValueHolds, ClientOK
    <3>1. pc'[d] = pc[d] /\ call'[d] = call[d]
      BY <3>0, <1>0, <2>2 DEF StepKinds, Finish, Goto, FinishUnchanged, TypeOK
    <3>2. CASE UNCHANGED <<presence, dirty>>
      BY <3>1, <3>2, <1>0, FrameKeepsOthers
    <3>3. CASE \E s \in States : Store(call[c].agent, s) /\ pc[c] # "idle"
      <4>1. call[c].agent \in Agents
        BY <3>3, <1>0 DEF ClientOK
      <4>2. PICK s \in States : Store(call[c].agent, s)
        BY <3>3
      <4>3. QED BY <3>1, <4>1, <4>2, <1>0, StoreKeepsOthers
    <3>4. UNCHANGED <<presence, dirty>>
          \/ \E s \in States : Store(call[c].agent, s) /\ pc[c] # "idle"
      BY <3>0 DEF StepKinds, Goto, FinishUnchanged
    <3>5. QED BY <3>2, <3>3, <3>4
  <2>3. QED BY <2>1, <2>2
<1>3. ASSUME NEW a \in Agents, Expire(a) PROVE ClientOK(d)'
  BY <1>3, <1>0, StoreKeepsOthers DEF Expire
<1>4. CASE UNCHANGED vars
  BY <1>4, <1>0, FrameKeepsOthers DEF vars
<1>5. QED BY <1>1, <1>2, <1>3, <1>4 DEF Next

(* The presence keys and the watches on them stay well-formed, and a       *)
(* client that reaches EXEC unmarked still sees the value it read.          *)
THEOREM Invariance == Spec => []IInv
<1>1. IInv /\ [Next]_vars => IInv'
  BY NextTypeOK, NextWatched DEF IInv
<1>2. QED BY <1>1, InitIInv, PTL DEF Spec

(* Type correctness of the presence store (presence.go). *)
THEOREM TypeCorrect == Spec => []TypeOK
<1>1. IInv => TypeOK
  BY DEF IInv
<1>2. QED BY <1>1, Invariance, PTL

(* The optimistic transactions are sound: see WatchedValueHolds. *)
THEOREM WatchSound == Spec => []WatchedValueHolds
<1>1. IInv => WatchedValueHolds
  BY DEF IInv
<1>2. QED BY <1>1, Invariance, PTL

(* A claim that reports a win is the step that moved the agent from         *)
(* available to on_call (presence.go:154-191).                              *)
THEOREM ClaimsExclusive == Spec => ClaimWinsOnce
<1>1. IInv /\ [Next]_vars =>
        [\A c \in Clients :
           (call[c].kind = "claim" /\ call[c].out = "pending" /\ call'[c].out = "won")
             => /\ presence[call[c].agent] = "available"
                /\ presence'[call[c].agent] = "on_call"]_vars
  <2> SUFFICES ASSUME IInv, Next, NEW c \in Clients,
                      call[c].kind = "claim", call[c].out = "pending",
                      call'[c].out = "won"
               PROVE  /\ presence[call[c].agent] = "available"
                      /\ presence'[call[c].agent] = "on_call"
    OBVIOUS
  <2>0. TypeOK /\ \A e \in Clients : ClientOK(e)
    BY DEF IInv, WatchedValueHolds, ClientOK
  <2>1. ~ \E a \in Agents : Expire(a)
    BY <2>0 DEF Expire
  <2>2. ~ \E e \in Clients : Calls(e)
    BY <2>0 DEF Calls, Start, Stop, SetState, ClaimAvailable, ReleaseOnCall,
       Begin, TypeOK
  <2>3. PICK e \in Clients : Runs(e)
    BY <2>1, <2>2 DEF Next
  <2>4. e = c
    BY <2>0, <2>3 DEF Runs, Del, Exists, SetStateGet, WritePresence,
       ClaimGet, ClaimExec, ReleaseGet, ReleaseExec, CommandFails, Finish,
       Goto, FinishUnchanged, TypeOK
  <2>5. ClaimExec(c) /\ ~dirty[c]
    BY <2>0, <2>3, <2>4 DEF Runs, Del, Exists, SetStateGet, WritePresence,
       ClaimGet, ClaimExec, ReleaseGet, ReleaseExec, CommandFails, Finish,
       Goto, FinishUnchanged, TypeOK, ClientOK, KindOf
  <2>6. QED BY <2>0, <2>5 DEF ClaimExec, Store, TypeOK, ClientOK, ValueRead
<1>2. QED BY <1>1, Invariance, PTL DEF Spec, ClaimWinsOnce

(* The end of an operation that took effect is the abstract Complete ...   *)
LEMMA CompleteStep ==
  ASSUME NEW c \in Clients, TypeOK, ClientOK(c), pc[c] # "idle",
         NEW new \in Abs!Effects(call[c].kind, call[c].to, presence[call[c].agent]),
         NEW o \in {Abs!Effective(call[c].kind), "error"},
         Store(call[c].agent, new), Finish(c, o)
  PROVE  Abs!Complete(c)
BY DEF Abs!Complete, Abs!Return, Abs!Pending, Store, Finish, ClientOK

(* ... and of one that did nothing is the abstract GiveUp. *)
LEMMA GiveUpStep ==
  ASSUME NEW c \in Clients, TypeOK, ClientOK(c), pc[c] # "idle",
         NEW o \in Abs!Idle(call[c].kind) \cup {"error"},
         FinishUnchanged(c, o)
  PROVE  Abs!GiveUp(c)
BY DEF Abs!GiveUp, Abs!Pending, FinishUnchanged, Finish, ClientOK

(* Each command of a running operation is an abstract step or a stutter. *)
LEMMA RunsRefine ==
  ASSUME NEW c \in Clients, TypeOK, ClientOK(c), Runs(c)
  PROVE  Abs!Complete(c) \/ Abs!GiveUp(c) \/ UNCHANGED Abs!vars
<1> USE DEF ClientOK, KindOf, ValueRead
<1>1. CASE Del(c)
  BY <1>1, CompleteStep DEF Del, Abs!Effects, Abs!Effective
<1>2. CASE Exists(c)
  BY <1>2, GiveUpStep DEF Exists, Abs!Idle, Goto, Abs!vars
<1>3. CASE SetStateGet(c)
  BY <1>3, GiveUpStep DEF SetStateGet, Abs!Idle, Goto, Abs!vars
<1>4. CASE WritePresence(c)
  BY <1>4, CompleteStep DEF WritePresence, Abs!Effects, Abs!Effective
<1>5. CASE ClaimGet(c)
  BY <1>5, GiveUpStep DEF ClaimGet, Abs!Idle, Goto, Abs!vars
<1>6. CASE ClaimExec(c)
  <2>1. CASE dirty[c]
    BY <1>6, <2>1, GiveUpStep DEF ClaimExec, Abs!Idle
  <2>2. CASE ~dirty[c]
    BY <1>6, <2>2, CompleteStep DEF ClaimExec, Abs!Effects, Abs!Effective
  <2>3. QED BY <2>1, <2>2
<1>7. CASE ReleaseGet(c)
  BY <1>7, GiveUpStep DEF ReleaseGet, Abs!Idle, Goto, Abs!vars
<1>8. CASE ReleaseExec(c)
  <2>1. CASE dirty[c]
    BY <1>8, <2>1, GiveUpStep DEF ReleaseExec, Abs!Idle
  <2>2. CASE ~dirty[c]
    BY <1>8, <2>2, CompleteStep DEF ReleaseExec, Abs!Effects, Abs!Effective
  <2>3. QED BY <2>1, <2>2
<1>9. CASE CommandFails(c)
  BY <1>9, GiveUpStep DEF CommandFails
<1>10. QED BY <1>1, <1>2, <1>3, <1>4, <1>5, <1>6, <1>7, <1>8, <1>9 DEF Runs

(* The presence store implements AgentStates: each operation takes effect  *)
(* once, at its last command, whatever runs between its commands           *)
(* (presence.go as a whole).                                               *)
THEOREM Refinement == Spec => ImplementsAgentStates
<1>1. Init => Abs!Init
  BY DEF Init, Abs!Init
<1>2. IInv /\ [Next]_vars => [Abs!Next]_(Abs!vars)
  <2> SUFFICES ASSUME IInv, [Next]_vars PROVE [Abs!Next]_(Abs!vars)
    OBVIOUS
  <2>0. TypeOK /\ \A e \in Clients : ClientOK(e)
    BY DEF IInv, WatchedValueHolds, ClientOK
  <2>1. ASSUME NEW c \in Clients, Calls(c) PROVE Abs!Next
    <3>1. PICK a \in Agents, k \in Abs!Kinds, s \in States, l \in Commands :
            Begin(c, k, a, s, l)
      BY <2>1 DEF Calls, Start, Stop, SetState, ClaimAvailable, ReleaseOnCall
    <3>2. Abs!Invoke(c)
      BY <2>0, <3>1 DEF Begin, Abs!Invoke, Abs!Pending, ClientOK
    <3>3. QED BY <3>2 DEF Abs!Next
  <2>2. ASSUME NEW c \in Clients, Runs(c)
        PROVE  Abs!Next \/ UNCHANGED Abs!vars
    BY <2>0, <2>2, RunsRefine DEF Abs!Next
  <2>3. ASSUME NEW a \in Agents, Expire(a) PROVE Abs!Next
    BY <2>3 DEF Expire, Store, Abs!Expire, Abs!Next
  <2>4. CASE UNCHANGED vars
    BY <2>4 DEF vars, Abs!vars
  <2>5. QED BY <2>1, <2>2, <2>3, <2>4 DEF Next
<1>3. QED BY <1>1, <1>2, Invariance, PTL DEF Spec, Abs!Spec, ImplementsAgentStates
=============================================================================
