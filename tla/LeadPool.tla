------------------------------ MODULE LeadPool ------------------------------
(***************************************************************************)
(* What the campaigns' lead pool promises to the agent pages               *)
(* (services/api/internal/store): an imported lead is taken by one agent   *)
(* and stays with it; that agent's dispositions move the lead and are      *)
(* logged in the same instant.  Campaigns.tla is the implementation, one   *)
(* SQL statement at a time.                                                *)
(***************************************************************************)
EXTENDS Sequences

CONSTANTS Agents, Campaigns, Leads,
          Dispositions, \* records with a code and an isSuccess flag
          None

VARIABLES lead, \* lead[l]: the row of lead l, or None
          logs  \* logs[l]: its call_logs, in the order of their commits

vars == <<lead, logs>>

Codes == {"NO_ANSWER", "BUSY", "CALLBACK", "SUCCESS", "DNC", "custom"}

(* leadStatusFromDisposition; "custom" is any code of a campaign's own.    *)
StatusFrom(d) ==
  CASE d.code = "NO_ANSWER" -> "no_answer"
    [] d.code = "BUSY"      -> "busy"
    [] d.code = "CALLBACK"  -> "callback"
    [] d.code = "SUCCESS"   -> "answered"
    [] d.code = "DNC"       -> "disposed"
    [] OTHER -> IF d.isSuccess THEN "answered" ELSE "disposed"

NewLead(c) == [campaign |-> c, status |-> "new", agent |-> None]

Init == /\ lead = [l \in Leads |-> None]
        /\ logs = [l \in Leads |-> <<>>]

Import(c, S) ==
  /\ \A l \in S : lead[l] = None
  /\ lead' = [l \in Leads |-> IF l \in S THEN NewLead(c) ELSE lead[l]]
  /\ UNCHANGED logs

Take(l, a) ==
  /\ lead[l] # None
  /\ lead[l].status = "new"
  /\ lead' = [lead EXCEPT ![l].status = "in_progress", ![l].agent = a]
  /\ UNCHANGED logs

Report(l, d) ==
  /\ lead[l] # None
  /\ lead[l].agent # None
  /\ lead' = [lead EXCEPT ![l].status = StatusFrom(d)]
  /\ logs' = [logs EXCEPT ![l] = Append(@, [agent |-> lead[l].agent,
                                            disposition |-> d])]

Next == \/ \E c \in Campaigns, S \in SUBSET Leads : Import(c, S)
        \/ \E l \in Leads : \/ \E a \in Agents : Take(l, a)
                            \/ \E d \in Dispositions : Report(l, d)

Spec == Init /\ [][Next]_vars
=============================================================================
