---------------------------- MODULE EslCommands -----------------------------
(***************************************************************************)
(* What services/edge/internal/fs/esl.go promises to those who call API:   *)
(* an answer without error comes after their own command has been carried  *)
(* out, once; an error says nothing, not even that the command will not    *)
(* be carried out later.                                                   *)
(***************************************************************************)
EXTENDS Naturals

CONSTANT Callers

VARIABLES call,   \* call[c]: "idle", "called", or "ran" once it is carried out
          answer, \* answer[c]: the outcome of c's last call
          late    \* late[c]: commands of c that may yet run after an error

vars == <<call, answer, late>>

TypeOK == /\ call \in [Callers -> {"idle", "called", "ran"}]
          /\ answer \in [Callers -> {"none", "ok", "error"}]
          /\ late \in [Callers -> Nat]

Init == /\ call = [c \in Callers |-> "idle"]
        /\ answer = [c \in Callers |-> "none"]
        /\ late = [c \in Callers |-> 0]

Call(c) == /\ call[c] = "idle"
           /\ call' = [call EXCEPT ![c] = "called"]
           /\ UNCHANGED <<answer, late>>

Run(c) == /\ call[c] = "called"
          /\ call' = [call EXCEPT ![c] = "ran"]
          /\ UNCHANGED <<answer, late>>

Ok(c) == /\ call[c] = "ran"
         /\ call' = [call EXCEPT ![c] = "idle"]
         /\ answer' = [answer EXCEPT ![c] = "ok"]
         /\ UNCHANGED late

Error(c) == /\ call[c] # "idle"
            /\ call' = [call EXCEPT ![c] = "idle"]
            /\ answer' = [answer EXCEPT ![c] = "error"]
            /\ \/ UNCHANGED late
               \/ call[c] = "called" /\ late' = [late EXCEPT ![c] = @ + 1]

(* A command left behind runs, or is lost with its connection. *)
Settle(c) == /\ late[c] > 0
             /\ late' = [late EXCEPT ![c] = @ - 1]
             /\ UNCHANGED <<call, answer>>

Next == \E c \in Callers : Call(c) \/ Run(c) \/ Ok(c) \/ Error(c) \/ Settle(c)

Spec == Init /\ [][Next]_vars
=============================================================================
