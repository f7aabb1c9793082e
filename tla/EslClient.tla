----------------------------- MODULE EslClient ------------------------------
(***************************************************************************)
(* The edge's command connection to FreeSWITCH                             *)
(* (services/edge/internal/fs/esl.go).  Handlers, listener and reloads     *)
(* call API; the goroutine of RunReconnect, the keeper, connects and then  *)
(* calls API("status") until that fails.  A mutex covers one call from     *)
(* dialling to its reply.  FreeSWITCH carries out what it has read from a  *)
(* connection in order, even after the client has closed it, and a reply   *)
(* does not say which command it answers.                                  *)
(*                                                                         *)
(* Send of the eventsocket library returns the next reply, or an error: a  *)
(* broken connection, a refusal (-ERR), or its timeout, whatever FreeSWITCH*)
(* is still doing.  A refusal counts as a command carried out.             *)
(***************************************************************************)
EXTENDS Naturals, Sequences

CONSTANTS Callers, \* goroutines that call API
          Keeper,  \* the goroutine of RunReconnect
          Nobody,
          MaxLate  \* bound: commands a caller has left behind when it calls

ASSUME KeeperAssumption == Keeper \notin Callers /\ Nobody \notin Callers \cup {Keeper}
ASSUME MaxLateAssumption == MaxLate \in Nat

Clients == Callers \cup {Keeper}

VARIABLES pc,        \* pc[c]: where c is in API, or in ConnectOnce
          holder,    \* who holds Client.mu
          connected, \* Client.conn is not nil
          wire,      \* the commands sent on it and not answered yet
          left,      \* left[c]: commands of c sent on closed connections
          answer,    \* answer[c]: the outcome of c's last call
          watching   \* the keeper has connected and calls API("status")

eslVars == <<pc, holder, connected, wire, left, answer, watching>>

Commands == [by : Clients, done : BOOLEAN]

EslTypeOK ==
  /\ pc \in [Clients -> {"idle", "lock", "dial", "send", "wait", "connect"}]
  /\ holder \in Clients \cup {Nobody}
  /\ connected \in BOOLEAN
  /\ wire \in IF connected THEN Seq(Commands) ELSE {<<>>}
  /\ left \in [Clients -> Nat]
  /\ answer \in [Clients -> {"none", "ok", "error"}]
  /\ watching \in BOOLEAN

EslInit ==
  /\ pc = [c \in Clients |-> "idle"]
  /\ holder = Nobody
  /\ connected = FALSE
  /\ wire = <<>>
  /\ left = [c \in Clients |-> 0]
  /\ answer = [c \in Clients |-> "none"]
  /\ watching = FALSE

-----------------------------------------------------------------------------
Goto(c, l) == pc' = [pc EXCEPT ![c] = l]

(* API returns, and with it the deferred Unlock. *)
Return(c, outcome) ==
  /\ Goto(c, "idle")
  /\ holder' = Nobody
  /\ answer' = [answer EXCEPT ![c] = outcome]
  /\ watching' = (watching /\ ~(c = Keeper /\ outcome = "error"))

(* A goroutine calls API, or the keeper ConnectOnce. *)
Call(c) ==
  /\ pc[c] = "idle" /\ left[c] <= MaxLate
  /\ Goto(c, "lock")
  /\ UNCHANGED <<holder, connected, wire, left, answer, watching>>

(* Mutant: conn is used without the test for nil.                          *)
LockUnchecked(c) ==
  /\ pc[c] = "lock" /\ holder = Nobody
  /\ holder' = c
  /\ Goto(c, IF c = Keeper /\ ~watching THEN "connect" ELSE "send")
  /\ UNCHANGED <<connected, wire, left, answer, watching>>

Lock(c) ==
  /\ pc[c] = "lock" /\ holder = Nobody
  /\ holder' = c
  /\ Goto(c, IF c = Keeper /\ ~watching THEN "connect"
             ELSE IF connected THEN "send" ELSE "dial")
  /\ UNCHANGED <<connected, wire, left, answer, watching>>

(* connectLocked in API. *)
Dial(c) ==
  /\ pc[c] = "dial"
  /\ connected' = TRUE
  /\ wire' = <<>>
  /\ Goto(c, "send")
  /\ UNCHANGED <<holder, left, answer, watching>>

(* Mutant: no deferred Unlock on this return.                              *)
DialFailsLocked(c) ==
  /\ pc[c] = "dial"
  /\ Goto(c, "idle")
  /\ answer' = [answer EXCEPT ![c] = "error"]
  /\ UNCHANGED <<holder, connected, wire, left, watching>>

DialFails(c) ==
  /\ pc[c] = "dial"
  /\ Return(c, "error")
  /\ UNCHANGED <<connected, wire, left>>

Send(c) ==
  /\ pc[c] = "send"
  /\ wire' = Append(wire, [by |-> c, done |-> FALSE])
  /\ Goto(c, "wait")
  /\ UNCHANGED <<holder, connected, left, answer, watching>>

Receive(c) ==
  /\ pc[c] = "wait"
  /\ wire # <<>> /\ Head(wire).done
  /\ wire' = Tail(wire)
  /\ Return(c, "ok")
  /\ UNCHANGED <<connected, left>>

(* What is on the connection when it is closed may still be carried out. *)
Undone(c) == {i \in 1 .. Len(wire) : wire[i].by = c /\ ~wire[i].done}
LeaveBehind == left' = [c \in Clients |-> IF Undone(c) = {} THEN left[c]
                                                           ELSE left[c] + 1]

(* Mutant: the connection is kept after an error.                          *)
SendFailsOpen(c) ==
  /\ pc[c] = "wait"
  /\ Return(c, "error")
  /\ UNCHANGED <<connected, wire, left>>

(* Send's error: Close, and conn = nil. *)
SendFails(c) ==
  /\ pc[c] = "wait"
  /\ connected' = FALSE
  /\ wire' = <<>>
  /\ LeaveBehind
  /\ Return(c, "error")

-----------------------------------------------------------------------------
(* ConnectOnce in RunReconnect: a connection another caller has opened     *)
(* meanwhile is replaced and closed; a failed dial leaves it.              *)
Connect ==
  /\ pc[Keeper] = "connect"
  /\ \/ connected' = TRUE /\ wire' = <<>> /\ watching' = TRUE
     \/ UNCHANGED <<connected, wire, watching>>
  /\ Goto(Keeper, "idle")
  /\ holder' = Nobody
  /\ UNCHANGED <<left, answer>>

(* Close at the end of the program, which others may outlive. *)
Close ==
  /\ holder = Nobody
  /\ connected' = FALSE /\ wire' = <<>>
  /\ UNCHANGED <<pc, holder, left, answer, watching>>

(* FreeSWITCH carries out the next command of the connection, or one it    *)
(* had read from a closed connection, or never reads that.                 *)
Run ==
  \E i \in 1 .. Len(wire) :
    /\ ~wire[i].done /\ \A j \in 1 .. i - 1 : wire[j].done
    /\ wire' = [wire EXCEPT ![i].done = TRUE]
    /\ UNCHANGED <<pc, holder, connected, left, answer, watching>>

Settle(c) ==
  /\ left[c] > 0
  /\ left' = [left EXCEPT ![c] = @ - 1]
  /\ UNCHANGED <<pc, holder, connected, wire, answer, watching>>

-----------------------------------------------------------------------------
Exchange(c) == Send(c) \/ Receive(c) \/ SendFails(c)

API(c) == Dial(c) \/ DialFails(c) \/ Exchange(c)

EslNext ==
  \/ \E c \in Clients : Call(c) \/ Lock(c) \/ API(c) \/ Settle(c)
  \/ Connect \/ Close \/ Run

EslSpec == EslInit /\ [][EslNext]_eslVars

(* sync.Mutex starves nobody, and Send returns, by its timeout at the      *)
(* latest.  Dialling need not: connectLocked reads FreeSWITCH's greeting   *)
(* and its answer to auth without a deadline (esl.go:39-48).  FreeSWITCH   *)
(* owes nothing.                                                           *)
FairSpec == /\ EslSpec
            /\ \A c \in Clients : SF_eslVars(Lock(c)) /\ WF_eslVars(Exchange(c))

-----------------------------------------------------------------------------
(* Every caller is answered, whatever the keeper and the other callers do  *)
(* and though FreeSWITCH does not answer a command or refuses connections: *)
(* the one thing that can keep callers waiting for ever is a client that   *)
(* dials for ever, under the mutex, a FreeSWITCH that accepts the          *)
(* connection and then says nothing (esl.go:39-48, 93-116).                *)
HangsDialling(d) == <>[](pc[d] \in {"dial", "connect"} /\ holder = d)

Answered == \/ \E d \in Clients : HangsDialling(d)
            \/ \A c \in Callers : pc[c] = "lock" ~> pc[c] = "idle"

(* One connection shared by all gives everyone the reply to its own        *)
(* command, through timeouts, late replies, refusals and reconnections:    *)
(* EslClient implements EslCommands (esl.go:90-92, 104-109).               *)
Ran(c) == \E i \in 1 .. Len(wire) : wire[i].by = c /\ wire[i].done

State(c) == IF pc[c] = "idle" THEN "idle"
            ELSE IF pc[c] = "wait" /\ Ran(c) THEN "ran" ELSE "called"

Commanded == INSTANCE EslCommands WITH
  Callers <- Callers,
  call <- [c \in Callers |-> State(c)],
  answer <- [c \in Callers |-> answer[c]],
  late <- [c \in Callers |-> left[c]]

ImplementsEslCommands == Commanded!Spec
=============================================================================
