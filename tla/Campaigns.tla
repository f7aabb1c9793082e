----------------------------- MODULE Campaigns -----------------------------
(***************************************************************************)
(* Campaigns, their agents, leads and call logs in Postgres                *)
(* (services/api/internal/store), one SQL statement per step: the API's    *)
(* requests run concurrently at READ COMMITTED, so everything can happen   *)
(* between two statements of one request.                                  *)
(*                                                                         *)
(* What a transaction has written and not committed is in its request's    *)
(* record, and nobody sees it; the rows it has locked follow from its pc.  *)
(* Names, carriers, phone numbers and payloads decide nothing and are left *)
(* out; so are the roles SetAgents checks, because the agents of the model *)
(* stay agents.  Every campaign has every disposition.                     *)
(***************************************************************************)
EXTENDS Naturals, Sequences, FiniteSets

CONSTANTS Agents, Campaigns, Leads, Dispositions,
          Requests, \* API requests that may be in progress at once
          None

VARIABLES status, \* status[c]: campaigns.status, or "absent"
          team,   \* team[c]: campaign_agents
          lead,   \* lead[l]: the row of lead l, or None
          logs,   \* logs[l]: its call_logs, in the order of their commits
          added,  \* added[r]: agents added since r's DELETE has looked
          list,   \* list[l]: the leads on the list of lead l, {} if none
          req,    \* req[r]: the statement request r sends next, its locals
          handed  \* handed[l]: the agents whose page was given lead l

vars == <<status, team, lead, logs, added, list, req, handed>>

Pool == INSTANCE LeadPool WITH
  Agents <- Agents, Campaigns <- Campaigns, Leads <- Leads,
  Dispositions <- Dispositions, None <- None, lead <- lead, logs <- logs

Statuses == {"draft", "running", "paused", "stopped"}
LeadStatuses == {"new", "in_progress", "no_answer", "busy", "callback",
                 "disposed", "answered"}

(* A lead has an agent from its claim on. *)
LeadRows == {row \in [campaign : Campaigns, status : LeadStatuses,
                      agent : Agents \cup {None}] :
               row.status = "new" <=> row.agent = None}

ASSUME NoneAssumption == None \notin Agents \cup Leads \cup LeadRows

IdleReq == [pc |-> "idle"]
PatchReqs == [pc : {"patch"}, campaign : Campaigns, status : Statuses]
TeamReqs == [pc : {"replace"}, campaign : Campaigns, users : SUBSET Agents]
ClaimReqs == [pc : {"assigned", "pick", "claim"}, agent : Agents,
              campaign : Campaigns, lead : Leads \cup {None}]
DisposeReqs == [pc : {"mayReport", "lookup", "update", "log"}, agent : Agents,
                campaign : Campaigns, lead : Leads, disposition : Dispositions]

TypeOK ==
  /\ status \in [Campaigns -> Statuses \cup {"absent"}]
  /\ team \in [Campaigns -> SUBSET Agents]
  /\ lead \in [Leads -> LeadRows \cup {None}]
  /\ logs \in [Leads -> Seq([agent : Agents, disposition : Dispositions])]
  /\ added \in [Requests -> SUBSET Agents]
  /\ list \in [Leads -> SUBSET Leads]
  /\ req \in [Requests -> {IdleReq} \cup PatchReqs \cup TeamReqs \cup ClaimReqs
                                    \cup DisposeReqs]
  /\ handed \in [Leads -> SUBSET Agents]

Init == /\ status = [c \in Campaigns |-> "absent"]
        /\ team = [c \in Campaigns |-> {}]
        /\ lead = [l \in Leads |-> None]
        /\ logs = [l \in Leads |-> <<>>]
        /\ added = [r \in Requests |-> {}]
        /\ list = [l \in Leads |-> {}]
        /\ req = [r \in Requests |-> IdleReq]
        /\ handed = [l \in Leads |-> {}]

-----------------------------------------------------------------------------
pool == <<lead, list, logs, handed>>
teams == <<team, added>>

At(r, l) == req[r].pc = l
Send(r, statement) == req' = [req EXCEPT ![r] = statement]
Goto(r, l) == req' = [req EXCEPT ![r].pc = l]
Answer(r) == Send(r, IdleReq)

(* A statement fails, or an answer is an error: what the request's         *)
(* transaction has done is rolled back.                                    *)
Fail(r) == /\ ~At(r, "idle")
           /\ Answer(r)
           /\ added' = [added EXCEPT ![r] = {}]
           /\ UNCHANGED <<status, team, pool>>

(* The rows locked by statements and transactions under way. *)
Locked(l) == \E r \in Requests : req[r].pc \in {"claim", "log"} /\ req[r].lead = l

-----------------------------------------------------------------------------
(* Create: one transaction, which nobody can see before its commit. *)
CreateCampaign(c) ==
  /\ status[c] = "absent"
  /\ status' = [status EXCEPT ![c] = "draft"]
  /\ UNCHANGED <<teams, pool, req>>

(* Import: one transaction too; a rejected file changes nothing. *)
Import(c, S) ==
  /\ status[c] # "absent"
  /\ S # {} /\ \A l \in S : lead[l] = None
  /\ lead' = [l \in Leads |->
                IF l \in S THEN [campaign |-> c, status |-> "new", agent |-> None]
                           ELSE lead[l]]
  /\ list' = [l \in Leads |-> IF l \in S THEN S ELSE list[l]]
  /\ UNCHANGED <<status, teams, logs, req, handed>>

(* Mutant: a stopped campaign can be started again.                        *)
RestartToo(from, to) ==
  \/ from = to
  \/ to \in {"stopped", "running"}
  \/ from = "running" /\ to = "paused"

ValidStatusTransition(from, to) ==
  \/ from = to
  \/ to = "stopped"
  \/ from = "draft" /\ to = "running"
  \/ from = "running" /\ to = "paused"
  \/ from = "paused" /\ to = "running"

(* PATCH of a campaign, with a new status or without (None): it is read,   *)
(* and all its columns are written back.                                   *)
Patch(r, c, to) ==
  /\ At(r, "idle")
  /\ status[c] # "absent"
  /\ to = None \/ ValidStatusTransition(status[c], to)
  /\ Send(r, [pc |-> "patch", campaign |-> c,
              status |-> IF to = None THEN status[c] ELSE to])
  /\ UNCHANGED <<status, teams, pool>>

UpdateCampaign(r) ==
  /\ At(r, "patch")
  /\ status' = [status EXCEPT ![req[r].campaign] = req[r].status]
  /\ Answer(r)
  /\ UNCHANGED <<teams, pool>>

(* PUT of a campaign's agents: the DELETE works on the rows it saw when it *)
(* began, and waits for those another transaction is deleting; a row that  *)
(* is inserted in the meantime stays, be it of an agent it saw before.     *)
SetAgents(r, c, users) ==
  /\ At(r, "idle")
  /\ status[c] # "absent"
  /\ Send(r, [pc |-> "replace", campaign |-> c, users |-> users])
  /\ UNCHANGED <<status, teams, pool>>

(* The INSERTs fail on the primary key when one of the agents stays.       *)
ReplaceAgents(r) ==
  LET c == req[r].campaign  users == req[r].users  kept == team[c] \cap added[r] IN
  /\ At(r, "replace")
  /\ users \cap kept = {}
  /\ team' = [team EXCEPT ![c] = kept \cup users]
  /\ added' = [q \in Requests |->
                 IF q = r THEN {}
                 ELSE IF At(q, "replace") /\ req[q].campaign = c
                 THEN added[q] \cup users ELSE added[q]]
  /\ Answer(r)
  /\ UNCHANGED <<status, pool>>

-----------------------------------------------------------------------------
(* ClaimNext, past its reading of the campaign. *)
NextLead(r, a, c) ==
  /\ At(r, "idle")
  /\ status[c] = "running"
  /\ Send(r, [pc |-> "assigned", agent |-> a, campaign |-> c, lead |-> None])
  /\ UNCHANGED <<status, teams, pool>>

IsAgentAssigned(r) == req[r].agent \in team[req[r].campaign]

MayClaim(r) ==
  /\ At(r, "assigned")
  /\ IsAgentAssigned(r)
  /\ Goto(r, "pick")
  /\ UNCHANGED <<status, teams, pool>>

Available(l, c) == /\ lead[l] # None
                   /\ lead[l].campaign = c
                   /\ lead[l].status = "new"

(* Mutant: SELECT without FOR UPDATE SKIP LOCKED.                          *)
PickLockedToo(r) ==
  /\ At(r, "pick")
  /\ \E l \in Leads : /\ Available(l, req[r].campaign)
                      /\ req' = [req EXCEPT ![r].pc = "claim", ![r].lead = l]
  /\ UNCHANGED <<status, teams, pool>>

(* The inner SELECT ... FOR UPDATE SKIP LOCKED locks the lead and, by its  *)
(* JOIN, the lead's list: while one claim is under way, the other leads of *)
(* the list are skipped as well.  The ids it is ordered by are random, so  *)
(* any lead may come first.                                                *)
Skipped(l) == \/ Locked(l)
              \/ \E r \in Requests : At(r, "claim") /\ req[r].lead \in list[l]

Pick(r) ==
  /\ At(r, "pick")
  /\ \E l \in Leads : /\ Available(l, req[r].campaign)
                      /\ ~Skipped(l)
                      /\ req' = [req EXCEPT ![r].pc = "claim", ![r].lead = l]
  /\ UNCHANGED <<status, teams, pool>>

NoLeadsAvailable(r) ==
  /\ At(r, "pick")
  /\ \A l \in Leads : Available(l, req[r].campaign) => Skipped(l)
  /\ Answer(r)
  /\ UNCHANGED <<status, teams, pool>>

(* Mutant: the claim does not write the agent.                             *)
ClaimForAnybody(r) ==
  /\ At(r, "claim")
  /\ lead' = [lead EXCEPT ![req[r].lead].status = "in_progress"]
  /\ handed' = [handed EXCEPT ![req[r].lead] = @ \cup {req[r].agent}]
  /\ Answer(r)
  /\ UNCHANGED <<status, teams, list, logs>>

(* The UPDATE of the same statement; its answer may not reach the page. *)
Claim(r) ==
  /\ At(r, "claim")
  /\ lead' = [lead EXCEPT ![req[r].lead].status = "in_progress",
                          ![req[r].lead].agent = req[r].agent]
  /\ \/ handed' = [handed EXCEPT ![req[r].lead] = @ \cup {req[r].agent}]
     \/ UNCHANGED handed
  /\ Answer(r)
  /\ UNCHANGED <<status, teams, list, logs>>

-----------------------------------------------------------------------------
(* The disposition handler for a lead of a running campaign. *)
Disposition(r, a, l, d) ==
  /\ At(r, "idle")
  /\ lead[l] # None
  /\ status[lead[l].campaign] = "running"
  /\ Send(r, [pc |-> "mayReport", agent |-> a, campaign |-> lead[l].campaign,
              lead |-> l, disposition |-> d])
  /\ UNCHANGED <<status, teams, pool>>

MayReport(r) ==
  /\ At(r, "mayReport")
  /\ IsAgentAssigned(r)
  /\ Goto(r, "lookup")
  /\ UNCHANGED <<status, teams, pool>>

(* Mutant: any assigned lead can be reported on.                           *)
LookupAnyAgent(r) ==
  /\ At(r, "lookup")
  /\ lead[req[r].lead].agent # None
  /\ Goto(r, "update")
  /\ UNCHANGED <<status, teams, pool>>

(* RecordDisposition's transaction: only the lead's own agent. *)
Lookup(r) ==
  /\ At(r, "lookup")
  /\ lead[req[r].lead].agent = req[r].agent
  /\ Goto(r, "update")
  /\ UNCHANGED <<status, teams, pool>>

(* Mutant: the UPDATE is not part of the transaction.                      *)
UpdateLeadAtOnce(r) ==
  /\ At(r, "update")
  /\ ~Locked(req[r].lead)
  /\ lead' = [lead EXCEPT ![req[r].lead].status = Pool!StatusFrom(req[r].disposition)]
  /\ Goto(r, "log")
  /\ UNCHANGED <<status, teams, list, logs, handed>>

(* The UPDATE, which waits for the row. *)
UpdateLead(r) ==
  /\ At(r, "update")
  /\ ~Locked(req[r].lead)
  /\ Goto(r, "log")
  /\ UNCHANGED <<status, teams, pool>>

(* The INSERT and the COMMIT, which publishes the UPDATE as well. *)
InsertLog(r) ==
  /\ At(r, "log")
  /\ lead' = [lead EXCEPT ![req[r].lead].status = Pool!StatusFrom(req[r].disposition)]
  /\ logs' = [logs EXCEPT ![req[r].lead] =
                Append(@, [agent |-> req[r].agent, disposition |-> req[r].disposition])]
  /\ Answer(r)
  /\ UNCHANGED <<status, teams, list, handed>>

-----------------------------------------------------------------------------
Supervise(r) ==
  \/ \E c \in Campaigns : \/ \E to \in Statuses \cup {None} : Patch(r, c, to)
                          \/ \E users \in SUBSET Agents : SetAgents(r, c, users)
  \/ UpdateCampaign(r)
  \/ ReplaceAgents(r)

ClaimNext(r) ==
  \/ \E a \in Agents, c \in Campaigns : NextLead(r, a, c)
  \/ MayClaim(r) \/ Pick(r) \/ NoLeadsAvailable(r) \/ Claim(r)

RecordDisposition(r) ==
  \/ \E a \in Agents, l \in Leads, d \in Dispositions : Disposition(r, a, l, d)
  \/ MayReport(r) \/ Lookup(r) \/ UpdateLead(r) \/ InsertLog(r)

Next == \/ \E r \in Requests : \/ Supervise(r) \/ ClaimNext(r)
                               \/ RecordDisposition(r) \/ Fail(r)
        \/ \E c \in Campaigns : \/ CreateCampaign(c)
                                \/ \E S \in SUBSET Leads : Import(c, S)

Spec == Init /\ [][Next]_vars

-----------------------------------------------------------------------------
(* No two pages are given the same lead, and the one that has it is the    *)
(* lead's agent (leads.go:111, "two agents cannot claim same lead").       *)
HandedToItsAgent ==
  \A l \in Leads : handed[l] # {} => lead[l] # None /\ handed[l] = {lead[l].agent}

(* leads and call_logs tell the same story: a lead's status is the outcome *)
(* of its last log, whichever dispositions ran together, and its logs are  *)
(* its agent's (calllogs.go:42-91).                                        *)
LogsAgree ==
  \A l \in Leads :
    IF logs[l] = <<>>
    THEN lead[l] # None => lead[l].status \in {"new", "in_progress"}
    ELSE /\ lead[l] # None
         /\ lead[l].status = Pool!StatusFrom(logs[l][Len(logs[l])].disposition)
         /\ \A i \in 1 .. Len(logs[l]) : logs[l][i].agent = lead[l].agent

(* The statements of ClaimNext, RecordDisposition and Import together      *)
(* behave like the atomic operations of LeadPool (leads.go, calllogs.go).  *)
ImplementsLeadPool == Pool!Spec

(* A stopped campaign is at rest: once no request is left that read it     *)
(* before, no PATCH starts it again, and neither claims nor dispositions   *)
(* touch its leads (campaigns.go:48-65, 131-163, leads.go:99-101).         *)
ReadBefore(r, c) == /\ ~At(r, "idle") /\ req[r].campaign = c
                    /\ ~At(r, "replace")
                    /\ At(r, "patch") => req[r].status # "stopped"
AtRest(c) == status[c] = "stopped" /\ \A r \in Requests : ~ReadBefore(r, c)

StoppedStays ==
  [][\A c \in Campaigns : AtRest(c) =>
       /\ AtRest(c)'
       /\ \A l \in Leads : lead[l] # None /\ lead[l].campaign = c
                            => lead'[l] = lead[l]]_vars
=============================================================================
