-------------------------- MODULE CampaignsProofs --------------------------
(***************************************************************************)
(* Proofs about the lead pool, for any campaigns, agents, leads,           *)
(* dispositions and requests.  The inductive invariant says what the row   *)
(* locks are for: a lead picked by a claim is new until the claim ends     *)
(* (ReqInv), and no other statement has the same row locked (Apart).       *)
(***************************************************************************)
EXTENDS Campaigns, SequenceTheorems, TLAPS

ClaimPCs == {"assigned", "pick", "claim"}
DisposePCs == {"mayReport", "lookup", "update", "log"}
Locks(r) == req[r].pc \in {"claim", "log"}

ReqInv(r) ==
  /\ At(r, "claim") => /\ req[r].lead # None
                       /\ lead[req[r].lead] # None
                       /\ lead[req[r].lead].status = "new"
  /\ req[r].pc \in DisposePCs => lead[req[r].lead] # None
  /\ req[r].pc \in {"update", "log"} => lead[req[r].lead].agent = req[r].agent

Apart(q, r) == Locks(q) /\ Locks(r) => req[q].lead # req[r].lead

IInv == /\ TypeOK
        /\ \A r \in Requests : ReqInv(r)
        /\ \A q, r \in Requests : q # r => Apart(q, r)
        /\ HandedToItsAgent
        /\ LogsAgree

(* What a request's record looks like, from its pc. *)
LEMMA ReqFacts ==
  ASSUME TypeOK, NEW r \in Requests
  PROVE  /\ At(r, "patch") => req[r] \in PatchReqs
         /\ At(r, "replace") => req[r] \in TeamReqs
         /\ req[r].pc \in ClaimPCs => req[r] \in ClaimReqs
         /\ req[r].pc \in DisposePCs => req[r] \in DisposeReqs
         /\ req[r].pc \notin ClaimPCs \cup DisposePCs =>
              At(r, "idle") \/ At(r, "patch") \/ At(r, "replace")
  BY DEF TypeOK, At, IdleReq, PatchReqs, TeamReqs, ClaimReqs, DisposeReqs,
         ClaimPCs, DisposePCs

(* A disposition never makes a lead new or in progress. *)
LEMMA StatusFromReported ==
  ASSUME NEW d
  PROVE  Pool!StatusFrom(d) \in LeadStatuses \ {"new", "in_progress"}
  BY DEF Pool!StatusFrom, LeadStatuses

(* A lead that has not been claimed has no log and was given to nobody. *)
LEMMA Untouched ==
  ASSUME TypeOK, LogsAgree, HandedToItsAgent, NEW l \in Leads,
         lead[l] # None => lead[l].status = "new"
  PROVE  logs[l] = <<>> /\ handed[l] = {}
<1>1. logs[l] = <<>>
  BY StatusFromReported DEF LogsAgree
<1>2. lead[l] # None => lead[l].agent = None
  BY DEF TypeOK, LeadRows
<1>3. handed[l] = {}
  BY <1>2, NoneAssumption DEF HandedToItsAgent, TypeOK
<1>4. QED
  BY <1>1, <1>3

(* There is nothing to claim or report on at first.                        *)
LEMMA InitIInv == Init => IInv
<1> SUFFICES ASSUME Init PROVE IInv
  OBVIOUS
<1>1. TypeOK
  BY DEF Init, TypeOK
<1>2. \A r \in Requests : req[r] = IdleReq
  BY DEF Init
<1>3. \A r \in Requests : ReqInv(r)
  BY <1>2 DEF ReqInv, At, IdleReq, DisposePCs
<1>4. \A q, r \in Requests : Apart(q, r)
  BY <1>2 DEF Apart, Locks, IdleReq
<1>5. HandedToItsAgent /\ LogsAgree
  BY DEF Init, HandedToItsAgent, LogsAgree
<1>6. QED
  BY <1>1, <1>3, <1>4, <1>5 DEF IInv

-----------------------------------------------------------------------------
(* A step that leaves the pool alone: what has to be shown is about the    *)
(* request that takes it.                                                  *)
LEMMA QuietStep ==
  ASSUME IInv, NEW r \in Requests, UNCHANGED pool,
         status' \in [Campaigns -> Statuses \cup {"absent"}],
         team' \in [Campaigns -> SUBSET Agents], added' \in [Requests -> SUBSET Agents],
         NEW new \in {IdleReq} \cup PatchReqs \cup TeamReqs \cup ClaimReqs
                              \cup DisposeReqs,
         req' = [req EXCEPT ![r] = new],
         ReqInv(r)', \A q \in Requests : q # r => Apart(q, r)'
  PROVE  IInv'
<1>1. TypeOK'
  BY DEF IInv, TypeOK, pool
<1>2. \A q \in Requests : q # r => req'[q] = req[q]
  BY DEF IInv, TypeOK
<1>3. \A q \in Requests : q # r => ReqInv(q)'
  BY <1>2 DEF IInv, ReqInv, At, pool
<1>4. \A p, q \in Requests : p # r /\ q # r /\ p # q => Apart(p, q)'
  BY <1>2 DEF IInv, Apart, Locks
<1>5. \A q \in Requests : q # r => Apart(r, q)'
  BY DEF Apart
<1>6. HandedToItsAgent' /\ LogsAgree'
  BY DEF IInv, HandedToItsAgent, LogsAgree, pool
<1>7. QED
  BY <1>1, <1>3, <1>4, <1>5, <1>6 DEF IInv

(* The same, for a step into a pc that holds no lock and promises nothing. *)
LEMMA FreeStep ==
  ASSUME IInv, NEW r \in Requests, UNCHANGED pool,
         status' \in [Campaigns -> Statuses \cup {"absent"}],
         team' \in [Campaigns -> SUBSET Agents], added' \in [Requests -> SUBSET Agents],
         NEW new \in {IdleReq} \cup PatchReqs \cup TeamReqs \cup ClaimReqs,
         new.pc # "claim", req' = [req EXCEPT ![r] = new]
  PROVE  IInv'
<1>1. req'[r] = new
  BY DEF IInv, TypeOK
<1>2. new.pc \notin DisposePCs
  BY DEF IdleReq, PatchReqs, TeamReqs, ClaimReqs, DisposePCs
<1>3. ReqInv(r)' /\ \A q \in Requests : Apart(q, r)'
  BY <1>1, <1>2 DEF ReqInv, At, Apart, Locks, DisposePCs
<1>4. QED
  BY <1>3, QuietStep

(* A step of a disposition that takes no lock. *)
LEMMA ReportStep ==
  ASSUME IInv, NEW r \in Requests, UNCHANGED <<status, teams, pool>>,
         NEW new \in DisposeReqs, new.pc # "log", lead[new.lead] # None,
         new.pc = "update" => lead[new.lead].agent = new.agent,
         req' = [req EXCEPT ![r] = new]
  PROVE  IInv'
<1>1. req'[r] = new
  BY DEF IInv, TypeOK
<1>2. ReqInv(r)' /\ \A q \in Requests : Apart(q, r)'
  BY <1>1 DEF ReqInv, At, Apart, Locks, DisposeReqs, DisposePCs, pool
<1>3. QED
  BY <1>2, QuietStep DEF IInv, TypeOK, teams

-----------------------------------------------------------------------------
(* What a supervisor's request writes is no lead that an agent has.        *)
LEMMA SuperviseStep ==
  ASSUME IInv, NEW r \in Requests, Supervise(r)
  PROVE  IInv'
<1>1. ASSUME NEW c \in Campaigns, NEW to \in Statuses \cup {None}, Patch(r, c, to)
      PROVE  IInv'
  <2> DEFINE new == [pc |-> "patch", campaign |-> c,
                     status |-> IF to = None THEN status[c] ELSE to]
  <2>1. new \in PatchReqs
    BY <1>1 DEF Patch, PatchReqs, IInv, TypeOK
  <2>2. UNCHANGED <<status, teams, pool>> /\ req' = [req EXCEPT ![r] = new]
    BY <1>1 DEF Patch, Send
  <2>3. QED
    BY <2>1, <2>2, FreeStep DEF IInv, TypeOK, teams
<1>2. ASSUME NEW c \in Campaigns, NEW users \in SUBSET Agents, SetAgents(r, c, users)
      PROVE  IInv'
  <2> DEFINE new == [pc |-> "replace", campaign |-> c, users |-> users]
  <2>1. new \in TeamReqs
    BY DEF TeamReqs
  <2>2. UNCHANGED <<status, teams, pool>> /\ req' = [req EXCEPT ![r] = new]
    BY <1>2 DEF SetAgents, Send
  <2>3. QED
    BY <2>1, <2>2, FreeStep DEF IInv, TypeOK, teams
<1>3. CASE UpdateCampaign(r)
  <2>1. req[r] \in PatchReqs
    BY <1>3, ReqFacts DEF UpdateCampaign, IInv
  <2>2. /\ status' \in [Campaigns -> Statuses \cup {"absent"}]
        /\ UNCHANGED <<teams, pool>> /\ req' = [req EXCEPT ![r] = IdleReq]
    BY <1>3, <2>1 DEF UpdateCampaign, Answer, Send, PatchReqs, IInv, TypeOK
  <2>3. QED
    BY <2>2, FreeStep DEF IInv, TypeOK, teams, IdleReq
<1>4. CASE ReplaceAgents(r)
  <2>1. req[r] \in TeamReqs
    BY <1>4, ReqFacts DEF ReplaceAgents, IInv
  <2>2. /\ team' \in [Campaigns -> SUBSET Agents]
        /\ added' \in [Requests -> SUBSET Agents]
        /\ UNCHANGED <<status, pool>> /\ req' = [req EXCEPT ![r] = IdleReq]
    BY <1>4, <2>1 DEF ReplaceAgents, Answer, Send, TeamReqs, IInv, TypeOK
  <2>3. QED
    BY <2>2, FreeStep DEF IInv, TypeOK, teams, IdleReq
<1>5. QED
  BY <1>1, <1>2, <1>3, <1>4 DEF Supervise

(* A request that ends without a write releases its locks, and no more.    *)
LEMMA FailStep ==
  ASSUME IInv, NEW r \in Requests, Answer(r), UNCHANGED <<status, team, pool>>,
         added' \in [Requests -> SUBSET Agents]
  PROVE  IInv'
  BY FreeStep DEF Answer, Send, IInv, TypeOK, IdleReq

(* Nothing of the pool is locked when ClaimNext begins; the row it picks   *)
(* is one that nobody else has locked.                                     *)
LEMMA ClaimStep ==
  ASSUME IInv, NEW r \in Requests, ClaimNext(r), ~Claim(r)
  PROVE  IInv'
<1>1. ASSUME NEW a \in Agents, NEW c \in Campaigns, NextLead(r, a, c) PROVE IInv'
  <2> DEFINE new == [pc |-> "assigned", agent |-> a, campaign |-> c, lead |-> None]
  <2>1. new \in ClaimReqs /\ new.pc # "claim"
    BY DEF ClaimReqs
  <2>2. UNCHANGED <<status, teams, pool>> /\ req' = [req EXCEPT ![r] = new]
    BY <1>1 DEF NextLead, Send
  <2>3. QED
    BY <2>1, <2>2, FreeStep DEF IInv, TypeOK, teams
<1>2. CASE MayClaim(r)
  <2> DEFINE new == [req[r] EXCEPT !.pc = "pick"]
  <2>1. req[r] \in ClaimReqs
    BY <1>2, ReqFacts DEF MayClaim, At, ClaimPCs, IInv
  <2>2. new \in ClaimReqs /\ new.pc # "claim"
    BY <2>1 DEF ClaimReqs
  <2>3. UNCHANGED <<status, teams, pool>> /\ req' = [req EXCEPT ![r] = new]
    BY <1>2 DEF MayClaim, Goto
  <2>4. QED
    BY <2>2, <2>3, FreeStep DEF IInv, TypeOK, teams
<1>3. CASE Pick(r)
  <2>1. req[r] \in ClaimReqs
    BY <1>3, ReqFacts DEF Pick, At, ClaimPCs, IInv
  <2>2. PICK l \in Leads : /\ Available(l, req[r].campaign) /\ ~Locked(l)
                           /\ req' = [req EXCEPT ![r].pc = "claim", ![r].lead = l]
    BY <1>3 DEF Pick, Skipped
  <2> DEFINE new == [req[r] EXCEPT !.pc = "claim", !.lead = l]
  <2>3. /\ new \in ClaimReqs /\ new.pc = "claim" /\ new.lead = l
        /\ req' = [req EXCEPT ![r] = new] /\ req'[r] = new
    BY <2>1, <2>2 DEF ClaimReqs, IInv, TypeOK
  <2>4. UNCHANGED <<status, teams, pool>>
    BY <1>3 DEF Pick
  <2>5. ReqInv(r)'
    <3>1. l # None
      BY NoneAssumption
    <3>2. QED
      BY <2>2, <2>3, <2>4, <3>1 DEF ReqInv, At, Available, DisposePCs, pool
  <2>6. ASSUME NEW q \in Requests, q # r PROVE Apart(q, r)'
    <3>1. req'[q] = req[q]
      BY <2>2, <2>6 DEF IInv, TypeOK
    <3>2. Locks(q) => req[q].lead # l
      BY <2>2 DEF Locked, Locks
    <3>3. QED
      BY <2>3, <3>1, <3>2 DEF Apart, Locks
  <2>7. QED
    BY <2>3, <2>4, <2>5, <2>6, QuietStep DEF IInv, TypeOK, teams
<1>4. CASE NoLeadsAvailable(r)
  BY <1>4, FailStep DEF NoLeadsAvailable, teams, IInv, TypeOK
<1>5. QED
  BY <1>1, <1>2, <1>3, <1>4 DEF ClaimNext

(* Until its log is inserted a report writes what only it has locked.      *)
LEMMA DispositionStep ==
  ASSUME IInv, NEW r \in Requests, RecordDisposition(r), ~InsertLog(r)
  PROVE  IInv'
<1>1. ASSUME NEW a \in Agents, NEW l \in Leads, NEW d \in Dispositions,
             Disposition(r, a, l, d)
      PROVE  IInv'
  <2> DEFINE new == [pc |-> "mayReport", agent |-> a, campaign |-> lead[l].campaign,
                     lead |-> l, disposition |-> d]
  <2>1. new \in DisposeReqs
    BY <1>1 DEF Disposition, DisposeReqs, IInv, TypeOK, LeadRows
  <2>2. /\ UNCHANGED <<status, teams, pool>> /\ req' = [req EXCEPT ![r] = new]
        /\ lead[new.lead] # None
    BY <1>1 DEF Disposition, Send
  <2>3. new.pc \notin {"update", "log"}
    OBVIOUS
  <2>4. QED
    BY <2>1, <2>2, <2>3, ReportStep
<1>2. ASSUME NEW pc \in {"lookup", "update", "log"}, Goto(r, pc),
             UNCHANGED <<status, teams, pool>>, req[r].pc \in DisposePCs
      PROVE  /\ req[r] \in DisposeReqs /\ lead[req[r].lead] # None
             /\ [req[r] EXCEPT !.pc = pc] \in DisposeReqs
             /\ [req[r] EXCEPT !.pc = pc].lead = req[r].lead
             /\ [req[r] EXCEPT !.pc = pc].agent = req[r].agent
             /\ [req[r] EXCEPT !.pc = pc].pc = pc
             /\ req' = [req EXCEPT ![r] = [req[r] EXCEPT !.pc = pc]]
  <2>1. req[r] \in DisposeReqs /\ lead[req[r].lead] # None
    BY <1>2, ReqFacts DEF IInv, ReqInv
  <2>2. QED
    BY <1>2, <2>1 DEF Goto, DisposeReqs
<1>3. CASE MayReport(r)
  <2>1. Goto(r, "lookup") /\ UNCHANGED <<status, teams, pool>> /\ req[r].pc \in DisposePCs
    BY <1>3 DEF MayReport, At, DisposePCs
  <2>2. QED
    BY <1>2, <2>1, ReportStep
<1>4. CASE Lookup(r)
  <2>1. /\ Goto(r, "update") /\ UNCHANGED <<status, teams, pool>>
        /\ req[r].pc \in DisposePCs /\ lead[req[r].lead].agent = req[r].agent
    BY <1>4 DEF Lookup, At, DisposePCs
  <2>2. QED
    BY <1>2, <2>1, ReportStep
<1>5. CASE UpdateLead(r)
  <2> DEFINE new == [req[r] EXCEPT !.pc = "log"]
  <2>1. /\ Goto(r, "log") /\ UNCHANGED <<status, teams, pool>> /\ ~Locked(req[r].lead)
        /\ req[r].pc \in DisposePCs /\ lead[req[r].lead].agent = req[r].agent
    BY <1>5 DEF UpdateLead, At, DisposePCs, IInv, ReqInv
  <2>2. /\ new \in DisposeReqs /\ new.lead = req[r].lead /\ new.agent = req[r].agent
        /\ new.pc = "log" /\ lead[req[r].lead] # None
        /\ req' = [req EXCEPT ![r] = new]
    BY <1>2, <2>1
  <2>3. req'[r] = new
    BY <2>2 DEF IInv, TypeOK
  <2>4. ReqInv(r)'
    BY <2>1, <2>2, <2>3 DEF ReqInv, At, pool
  <2>5. ASSUME NEW q \in Requests, q # r PROVE Apart(q, r)'
    <3>1. req'[q] = req[q]
      BY <2>2, <2>5 DEF IInv, TypeOK
    <3>2. Locks(q) => req[q].lead # req[r].lead
      BY <2>1 DEF Locked, Locks
    <3>3. QED
      BY <2>2, <2>3, <3>1, <3>2 DEF Apart, Locks
  <2>6. QED
    BY <2>1, <2>2, <2>4, <2>5, QuietStep DEF IInv, TypeOK, teams
<1>6. QED
  BY <1>1, <1>3, <1>4, <1>5 DEF RecordDisposition

-----------------------------------------------------------------------------
(* What a claim's UPDATE does to the lead it has picked. *)
LEMMA Claimed ==
  ASSUME IInv, NEW r \in Requests, Claim(r)
  PROVE  LET l == req[r].lead IN
         /\ req[r] \in ClaimReqs /\ Locks(r) /\ l \in Leads
         /\ lead[l] # None /\ lead[l].status = "new" /\ lead[l].agent = None
         /\ logs[l] = <<>> /\ handed[l] = {}
         /\ lead'[l] \in LeadRows
         /\ lead'[l].status = "in_progress" /\ lead'[l].agent = req[r].agent
         /\ lead' = [lead EXCEPT ![l] = lead'[l]]
         /\ lead' = [lead EXCEPT ![l].status = "in_progress", ![l].agent = req[r].agent]
         /\ handed'[l] \in {{}, {req[r].agent}}
         /\ \A k \in Leads : k # l => lead'[k] = lead[k] /\ handed'[k] = handed[k]
         /\ handed' \in [Leads -> SUBSET Agents]
<1> DEFINE l == req[r].lead
<1>1. req[r] \in ClaimReqs /\ Locks(r)
  BY ReqFacts DEF Claim, At, ClaimPCs, IInv, Locks
<1>2. l # None /\ lead[l] # None /\ lead[l].status = "new"
  BY DEF Claim, IInv, ReqInv
<1>3. l \in Leads
  BY <1>1, <1>2 DEF ClaimReqs
<1>4. logs[l] = <<>> /\ handed[l] = {}
  BY <1>2, <1>3, Untouched DEF IInv
<1>5. lead[l] \in LeadRows /\ lead[l].agent = None
  BY <1>2, <1>3 DEF IInv, TypeOK, LeadRows
<1>6. lead' = [lead EXCEPT ![l].status = "in_progress", ![l].agent = req[r].agent]
  BY DEF Claim
<1>7. lead'[l] = [lead[l] EXCEPT !.status = "in_progress", !.agent = req[r].agent]
  BY <1>3, <1>6 DEF IInv, TypeOK
<1>8. lead'[l].status = "in_progress" /\ lead'[l].agent = req[r].agent
  BY <1>5, <1>7 DEF LeadRows
<1>9. lead'[l] \in LeadRows
  BY <1>1, <1>5, <1>7, NoneAssumption DEF LeadRows, ClaimReqs, LeadStatuses
<1>10. lead' = [lead EXCEPT ![l] = lead'[l]]
  BY <1>3, <1>6 DEF IInv, TypeOK
<1>11. /\ handed'[l] \in {{}, {req[r].agent}}
       /\ \A k \in Leads : k # l => handed'[k] = handed[k]
       /\ handed' \in [Leads -> SUBSET Agents]
  <2>1. req[r].agent \in Agents
    BY <1>1 DEF ClaimReqs
  <2>2. \/ handed' = [handed EXCEPT ![l] = {req[r].agent}]
        \/ handed' = handed
    BY <1>4 DEF Claim
  <2>3. handed \in [Leads -> SUBSET Agents]
    BY DEF IInv, TypeOK
  <2>4. QED
    BY <1>3, <1>4, <2>1, <2>2, <2>3
<1>12. \A k \in Leads : k # l => lead'[k] = lead[k]
  BY <1>6 DEF IInv, TypeOK
<1>13. QED
  BY <1>1, <1>2, <1>3, <1>4, <1>5, <1>6, <1>8, <1>9, <1>10, <1>11, <1>12

(* A claim's lead is still new, for it has been locked since it was picked.*)
LEMMA ClaimCommits ==
  ASSUME IInv, NEW r \in Requests, Claim(r)
  PROVE  IInv'
<1> DEFINE l == req[r].lead
<1>1. /\ req[r] \in ClaimReqs /\ Locks(r) /\ l \in Leads
      /\ lead[l] # None /\ lead[l].agent = None /\ logs[l] = <<>>
      /\ lead'[l] \in LeadRows
      /\ lead'[l].status = "in_progress" /\ lead'[l].agent = req[r].agent
      /\ lead' = [lead EXCEPT ![l] = lead'[l]]
      /\ handed'[l] \in {{}, {req[r].agent}}
      /\ \A k \in Leads : k # l => lead'[k] = lead[k] /\ handed'[k] = handed[k]
      /\ handed' \in [Leads -> SUBSET Agents]
  BY Claimed
<1>2. lead'[l] # None
  BY <1>1, NoneAssumption
<1>3. /\ req' = [req EXCEPT ![r] = IdleReq] /\ req'[r] = IdleReq
      /\ \A q \in Requests : q # r => req'[q] = req[q]
      /\ UNCHANGED <<status, team, added, list, logs>>
  BY DEF Claim, Answer, Send, IInv, TypeOK, teams
<1>4. TypeOK'
  BY <1>1, <1>3 DEF IInv, TypeOK
<1>5. ReqInv(r)'
  BY <1>3 DEF ReqInv, At, IdleReq, DisposePCs
<1>6. ASSUME NEW q \in Requests, q # r PROVE ReqInv(q)'
  <2>1. req'[q] = req[q] /\ ReqInv(q) /\ Apart(q, r)
    BY <1>3, <1>6 DEF IInv
  <2>2. At(q, "claim") => req[q].lead # l /\ req[q].lead \in Leads
    <3>1. At(q, "claim") => req[q] \in ClaimReqs /\ req[q].lead # None
      BY <2>1, ReqFacts DEF At, ClaimPCs, IInv, ReqInv
    <3>2. QED
      BY <1>1, <2>1, <3>1 DEF At, Apart, Locks, ClaimReqs
  <2>3. req[q].pc \in DisposePCs => req[q] \in DisposeReqs
    BY ReqFacts DEF IInv
  <2>4. req[q].pc \in {"update", "log"} => req[q].lead # l
    BY <1>1, <2>1, <2>3, NoneAssumption DEF ReqInv, DisposeReqs, DisposePCs
  <2>5. QED
    BY <1>1, <1>2, <2>1, <2>2, <2>3, <2>4 DEF ReqInv, At, DisposeReqs, DisposePCs
<1>7. \A p, q \in Requests : p # q => Apart(p, q)'
  BY <1>3 DEF IInv, Apart, Locks, IdleReq
<1>8. HandedToItsAgent'
  BY <1>1, <1>2 DEF IInv, HandedToItsAgent
<1>9. LogsAgree'
  BY <1>1, <1>3 DEF IInv, LogsAgree
<1>10. QED
  BY <1>4, <1>5, <1>6, <1>7, <1>8, <1>9 DEF IInv

(* What the end of a disposition's transaction does. *)
LEMMA Reported ==
  ASSUME IInv, NEW r \in Requests, InsertLog(r)
  PROVE  LET l == req[r].lead
             entry == [agent |-> req[r].agent, disposition |-> req[r].disposition] IN
         /\ req[r] \in DisposeReqs /\ Locks(r) /\ l \in Leads
         /\ lead[l] \in LeadRows /\ lead[l] # None
         /\ lead[l].agent = req[r].agent /\ lead[l].agent # None
         /\ lead'[l] \in LeadRows
         /\ lead'[l].status = Pool!StatusFrom(req[r].disposition)
         /\ lead'[l].agent = lead[l].agent
         /\ lead' = [lead EXCEPT ![l] = lead'[l]]
         /\ \A k \in Leads : k # l => lead'[k] = lead[k] /\ logs'[k] = logs[k]
         /\ logs'[l] = Append(logs[l], entry)
         /\ logs' \in [Leads -> Seq([agent : Agents, disposition : Dispositions])]
<1> DEFINE l == req[r].lead
           entry == [agent |-> req[r].agent, disposition |-> req[r].disposition]
<1>1. req[r] \in DisposeReqs /\ Locks(r)
  BY ReqFacts DEF InsertLog, At, DisposePCs, IInv, Locks
<1>2. l \in Leads /\ req[r].agent \in Agents /\ req[r].disposition \in Dispositions
  BY <1>1 DEF DisposeReqs
<1>3. lead[l] # None /\ lead[l].agent = req[r].agent
  BY DEF InsertLog, At, DisposePCs, IInv, ReqInv
<1>4. lead[l] \in LeadRows /\ lead[l].agent # None
  BY <1>2, <1>3, NoneAssumption DEF IInv, TypeOK
<1>5. lead'[l] = [lead[l] EXCEPT !.status = Pool!StatusFrom(req[r].disposition)]
  BY <1>2 DEF InsertLog, IInv, TypeOK
<1>6. /\ lead'[l].status = Pool!StatusFrom(req[r].disposition)
      /\ lead'[l].agent = lead[l].agent
  BY <1>4, <1>5 DEF LeadRows
<1>7. lead'[l] \in LeadRows
  BY <1>4, <1>5, StatusFromReported DEF LeadRows
<1>8. /\ lead' = [lead EXCEPT ![l] = lead'[l]]
      /\ \A k \in Leads : k # l => lead'[k] = lead[k] /\ logs'[k] = logs[k]
  BY <1>2 DEF InsertLog, IInv, TypeOK
<1>9. logs'[l] = Append(logs[l], entry)
  BY <1>2 DEF InsertLog, IInv, TypeOK
<1>10. entry \in [agent : Agents, disposition : Dispositions]
  BY <1>2
<1>11. logs' = [logs EXCEPT ![l] = Append(logs[l], entry)]
  BY DEF InsertLog
<1>12. logs' \in [Leads -> Seq([agent : Agents, disposition : Dispositions])]
  <2>1. Append(logs[l], entry) \in Seq([agent : Agents, disposition : Dispositions])
    BY <1>2, <1>10, AppendProperties DEF IInv, TypeOK
  <2>2. QED
    BY <1>2, <1>11, <2>1 DEF IInv, TypeOK
<1>13. QED
  BY <1>1, <1>2, <1>3, <1>4, <1>6, <1>7, <1>8, <1>9, <1>12

(* A report commits its lead's status and its log together.                *)
LEMMA ReportCommits ==
  ASSUME IInv, NEW r \in Requests, InsertLog(r)
  PROVE  IInv'
<1> DEFINE l == req[r].lead
           entry == [agent |-> req[r].agent, disposition |-> req[r].disposition]
<1>1. /\ req[r] \in DisposeReqs /\ Locks(r) /\ l \in Leads
      /\ lead[l] # None /\ lead[l].agent = req[r].agent
      /\ lead'[l] \in LeadRows
      /\ lead'[l].status = Pool!StatusFrom(req[r].disposition)
      /\ lead'[l].agent = lead[l].agent
      /\ lead' = [lead EXCEPT ![l] = lead'[l]]
      /\ \A k \in Leads : k # l => lead'[k] = lead[k] /\ logs'[k] = logs[k]
      /\ logs'[l] = Append(logs[l], entry)
      /\ logs' \in [Leads -> Seq([agent : Agents, disposition : Dispositions])]
  BY Reported
<1>2. lead'[l] # None
  BY <1>1, NoneAssumption
<1>3. /\ req' = [req EXCEPT ![r] = IdleReq] /\ req'[r] = IdleReq
      /\ \A q \in Requests : q # r => req'[q] = req[q]
      /\ UNCHANGED <<status, team, added, list, handed>>
  BY DEF InsertLog, Answer, Send, IInv, TypeOK, teams
<1>4. TypeOK'
  BY <1>1, <1>3 DEF IInv, TypeOK
<1>5. ReqInv(r)'
  BY <1>3 DEF ReqInv, At, IdleReq, DisposePCs
<1>6. ASSUME NEW q \in Requests, q # r PROVE ReqInv(q)'
  <2>1. req'[q] = req[q] /\ ReqInv(q) /\ Apart(q, r)
    BY <1>3, <1>6 DEF IInv
  <2>2. At(q, "claim") => req[q].lead # l /\ req[q].lead \in Leads
    <3>1. At(q, "claim") => req[q] \in ClaimReqs /\ req[q].lead # None
      BY <2>1, ReqFacts DEF At, ClaimPCs, IInv, ReqInv
    <3>2. QED
      BY <1>1, <2>1, <3>1 DEF At, Apart, Locks, ClaimReqs
  <2>3. req[q].pc \in DisposePCs => req[q] \in DisposeReqs
    BY ReqFacts DEF IInv
  <2>4. QED
    BY <1>1, <1>2, <2>1, <2>2, <2>3 DEF ReqInv, At, DisposeReqs, DisposePCs
<1>7. \A p, q \in Requests : p # q => Apart(p, q)'
  BY <1>3 DEF IInv, Apart, Locks, IdleReq
<1>8. HandedToItsAgent'
  BY <1>1, <1>2, <1>3 DEF IInv, HandedToItsAgent
<1>9. LogsAgree'
  <2> SUFFICES ASSUME NEW k \in Leads
               PROVE  (IF logs[k] = <<>>
                       THEN lead[k] # None => lead[k].status \in {"new", "in_progress"}
                       ELSE /\ lead[k] # None
                            /\ lead[k].status = Pool!StatusFrom(logs[k][Len(logs[k])].disposition)
                            /\ \A i \in 1 .. Len(logs[k]) : logs[k][i].agent = lead[k].agent)'
    BY DEF LogsAgree
  <2>1. CASE k # l
    BY <1>1, <2>1 DEF IInv, LogsAgree
  <2>2. CASE k = l
    <3>1. /\ logs[l] \in Seq([agent : Agents, disposition : Dispositions])
          /\ entry \in [agent : Agents, disposition : Dispositions]
          /\ entry.agent = lead[l].agent /\ entry.disposition = req[r].disposition
      BY <1>1 DEF IInv, TypeOK, DisposeReqs
    <3>2. /\ Len(logs'[l]) = Len(logs[l]) + 1 /\ Len(logs[l]) \in Nat
          /\ logs'[l][Len(logs'[l])] = entry /\ logs'[l] # <<>>
          /\ \A i \in 1 .. Len(logs[l]) : logs'[l][i] = logs[l][i]
      <4> DEFINE longer == Append(logs[l], entry)
      <4>1. /\ longer # <<>> /\ Len(longer) = Len(logs[l]) + 1
            /\ \A i \in 1 .. Len(logs[l]) : longer[i] = logs[l][i]
            /\ longer[Len(longer)] = entry
        BY <3>1, AppendProperties
      <4>2. QED
        BY <1>1, <3>1, <4>1, LenProperties
    <3>3. \A i \in 1 .. Len(logs[l]) : logs[l][i].agent = lead[l].agent
      BY <1>1, <3>1 DEF IInv, LogsAgree
    <3>4. \A i \in 1 .. Len(logs'[l]) : logs'[l][i].agent = lead'[l].agent
      BY <1>1, <3>1, <3>2, <3>3
    <3>5. lead'[l].status = Pool!StatusFrom(logs'[l][Len(logs'[l])].disposition)
      BY <1>1, <3>1, <3>2
    <3>6. QED
      BY <1>2, <2>2, <3>2, <3>4, <3>5
  <2>3. QED
    BY <2>1, <2>2
<1>10. QED
  BY <1>4, <1>5, <1>6, <1>7, <1>8, <1>9 DEF IInv

-----------------------------------------------------------------------------
(* A new campaign has no agents and no leads.                              *)
LEMMA CreateStep ==
  ASSUME IInv, NEW c \in Campaigns, CreateCampaign(c)
  PROVE  IInv'
<1>1. /\ status' \in [Campaigns -> Statuses \cup {"absent"}]
      /\ UNCHANGED <<team, added, lead, list, logs, handed, req>>
  BY DEF CreateCampaign, IInv, TypeOK, Statuses, pool, teams
<1>2. TypeOK'
  BY <1>1 DEF IInv, TypeOK
<1>3. \A r \in Requests : ReqInv(r)'
  BY <1>1 DEF IInv, ReqInv, At
<1>4. \A q, r \in Requests : q # r => Apart(q, r)'
  BY <1>1 DEF IInv, Apart, Locks
<1>5. HandedToItsAgent' /\ LogsAgree'
  BY <1>1 DEF IInv, HandedToItsAgent, LogsAgree
<1>6. QED
  BY <1>2, <1>3, <1>4, <1>5 DEF IInv

(* An import touches only leads that nobody can have seen. *)
LEMMA ImportStep ==
  ASSUME IInv, NEW c \in Campaigns, NEW S \in SUBSET Leads, Import(c, S)
  PROVE  IInv'
<1> DEFINE new == [campaign |-> c, status |-> "new", agent |-> None]
<1>1. new \in LeadRows /\ new # None
  BY NoneAssumption DEF LeadRows, LeadStatuses
<1>2. /\ \A l \in S : lead[l] = None /\ lead'[l] = new
      /\ \A l \in Leads \ S : lead'[l] = lead[l]
      /\ UNCHANGED <<status, team, added, logs, req, handed>>
  BY DEF Import, teams
<1>3. TypeOK'
  <2>1. lead' \in [Leads -> LeadRows \cup {None}]
    BY <1>1 DEF Import, IInv, TypeOK
  <2>2. list' \in [Leads -> SUBSET Leads]
    BY DEF Import, IInv, TypeOK
  <2>3. QED
    BY <1>2, <2>1, <2>2 DEF IInv, TypeOK
<1>4. ASSUME NEW r \in Requests PROVE ReqInv(r)'
  <2>1. At(r, "claim") \/ req[r].pc \in DisposePCs =>
          /\ req[r].lead \in Leads /\ lead[req[r].lead] # None
    BY ReqFacts DEF IInv, ReqInv, At, ClaimReqs, DisposeReqs, ClaimPCs
  <2>2. At(r, "claim") \/ req[r].pc \in DisposePCs =>
          lead'[req[r].lead] = lead[req[r].lead]
    BY <1>2, <2>1
  <2>3. QED
    BY <1>2, <2>1, <2>2 DEF IInv, ReqInv, At, DisposePCs
<1>5. \A q, r \in Requests : q # r => Apart(q, r)'
  BY <1>2 DEF IInv, Apart, Locks
<1>6. ASSUME NEW l \in S PROVE logs[l] = <<>> /\ handed[l] = {}
  BY <1>2, Untouched DEF IInv
<1>7. HandedToItsAgent'
  BY <1>2, <1>6 DEF IInv, HandedToItsAgent
<1>8. LogsAgree'
  BY <1>2, <1>6 DEF IInv, LogsAgree
<1>9. QED
  BY <1>3, <1>4, <1>5, <1>7, <1>8 DEF IInv

(* Every step keeps the invariant.                                         *)
LEMMA NextIInv == IInv /\ [Next]_vars => IInv'
<1> SUFFICES ASSUME IInv, [Next]_vars PROVE IInv'
  OBVIOUS
<1>1. ASSUME NEW r \in Requests, Supervise(r) PROVE IInv'
  BY <1>1, SuperviseStep
<1>2. ASSUME NEW r \in Requests, ClaimNext(r) PROVE IInv'
  BY <1>2, ClaimStep, ClaimCommits
<1>3. ASSUME NEW r \in Requests, RecordDisposition(r) PROVE IInv'
  BY <1>3, DispositionStep, ReportCommits
<1>4. ASSUME NEW r \in Requests, Fail(r) PROVE IInv'
  BY <1>4, FailStep DEF Fail, IInv, TypeOK
<1>5. ASSUME NEW c \in Campaigns, CreateCampaign(c) PROVE IInv'
  BY <1>5, CreateStep
<1>6. ASSUME NEW c \in Campaigns, NEW S \in SUBSET Leads, Import(c, S) PROVE IInv'
  BY <1>6, ImportStep
<1>7. CASE UNCHANGED vars
  BY <1>7 DEF vars, IInv, TypeOK, ReqInv, At, Apart, Locks, HandedToItsAgent, LogsAgree
<1>8. QED
  BY <1>1, <1>2, <1>3, <1>4, <1>5, <1>6, <1>7 DEF Next

(* So it holds throughout.                                                 *)
LEMMA Inductive == Spec => []IInv
  BY InitIInv, NextIInv, PTL DEF Spec

(* Every variable has its type in every reachable state: a claimed lead    *)
(* has an agent, a new one has none (store/leads.go, calllogs.go).         *)
THEOREM TypeCorrect == Spec => []TypeOK
<1>1. IInv => TypeOK
  BY DEF IInv
<1>2. QED
  BY <1>1, Inductive, PTL

(* However many agents ask for the next lead together, a lead is given to  *)
(* the page of one of them at most, and that one is the agent in its row   *)
(* (ClaimNext, leads.go:111-150).                                          *)
THEOREM LeadsHandedOnce == Spec => []HandedToItsAgent
<1>1. IInv => HandedToItsAgent
  BY DEF IInv
<1>2. QED
  BY <1>1, Inductive, PTL

(* A lead's status is always the outcome of its last call log, and all its *)
(* logs are its agent's (RecordDisposition, calllogs.go:42-91).            *)
THEOREM LogsSound == Spec => []LogsAgree
<1>1. IInv => LogsAgree
  BY DEF IInv
<1>2. QED
  BY <1>1, Inductive, PTL

-----------------------------------------------------------------------------
(* Only commits and imports are steps of the pool; it sees nothing else.   *)
LEMMA StepRefines ==
  ASSUME IInv, [Next]_vars
  PROVE  [Pool!Next]_(Pool!vars)
<1>1. ASSUME NEW c \in Campaigns, NEW S \in SUBSET Leads, Import(c, S)
      PROVE  Pool!Next
  BY <1>1 DEF Import, Pool!Next, Pool!Import, Pool!NewLead
<1>2. ASSUME NEW r \in Requests, Claim(r) PROVE Pool!Next
  <2>1. /\ req[r].lead \in Leads /\ req[r].agent \in Agents
        /\ lead[req[r].lead] # None /\ lead[req[r].lead].status = "new"
    BY <1>2, Claimed DEF ClaimReqs
  <2>2. Pool!Take(req[r].lead, req[r].agent)
    BY <1>2, <2>1 DEF Claim, Pool!Take
  <2>3. QED
    BY <2>1, <2>2 DEF Pool!Next
<1>3. ASSUME NEW r \in Requests, InsertLog(r) PROVE Pool!Next
  <2>1. /\ req[r].lead \in Leads /\ req[r].disposition \in Dispositions
        /\ lead[req[r].lead] # None /\ lead[req[r].lead].agent # None
        /\ lead[req[r].lead].agent = req[r].agent
    BY <1>3, Reported DEF DisposeReqs
  <2>2. Pool!Report(req[r].lead, req[r].disposition)
    BY <1>3, <2>1 DEF InsertLog, Pool!Report
  <2>3. QED
    BY <2>1, <2>2 DEF Pool!Next
<1>4. ASSUME NEW r \in Requests, Supervise(r) \/ Fail(r) PROVE UNCHANGED <<lead, logs>>
  BY <1>4 DEF Supervise, Patch, SetAgents, UpdateCampaign, ReplaceAgents, Fail, pool
<1>5. ASSUME NEW r \in Requests, ClaimNext(r), ~Claim(r) PROVE UNCHANGED <<lead, logs>>
  BY <1>5 DEF ClaimNext, NextLead, MayClaim, Pick, NoLeadsAvailable, pool
<1>6. ASSUME NEW r \in Requests, RecordDisposition(r), ~InsertLog(r)
      PROVE  UNCHANGED <<lead, logs>>
  BY <1>6 DEF RecordDisposition, Disposition, MayReport, Lookup, UpdateLead, pool
<1>7. ASSUME NEW c \in Campaigns, CreateCampaign(c) PROVE UNCHANGED <<lead, logs>>
  BY <1>7 DEF CreateCampaign, pool
<1>8. CASE UNCHANGED vars
  BY <1>8 DEF vars, Pool!vars
<1>9. QED
  BY <1>1, <1>2, <1>3, <1>4, <1>5, <1>6, <1>7, <1>8 DEF Next, Pool!vars

(* Claims, dispositions and imports are as good as atomic: what they do to *)
(* the leads and their logs, statement by statement, is a behaviour of     *)
(* LeadPool (leads.go:111-150, calllogs.go:42-91).                         *)
THEOREM Refinement == Spec => ImplementsLeadPool
<1>1. Init => Pool!Init
  BY DEF Init, Pool!Init
<1>2. IInv /\ [Next]_vars => [Pool!Next]_(Pool!vars)
  BY StepRefines
<1>3. QED
  BY <1>1, <1>2, Inductive, PTL DEF Spec, ImplementsLeadPool, Pool!Spec

-----------------------------------------------------------------------------
(* A lead stays in its campaign. *)
LEMMA LeadsStay ==
  ASSUME IInv, [Next]_vars, NEW l \in Leads, lead[l] # None
  PROVE  lead'[l] # None /\ lead'[l].campaign = lead[l].campaign
<1>1. lead \in [Leads -> LeadRows \cup {None}] /\ lead[l] \in LeadRows
  BY DEF IInv, TypeOK
<1>2. lead' \in [Leads -> LeadRows \cup {None}]
  BY NextIInv DEF IInv, TypeOK
<1>3. CASE Pool!Next
  <2>1. ASSUME NEW k \in Leads, NEW a \in Agents, Pool!Take(k, a)
        PROVE  lead'[l].campaign = lead[l].campaign
    BY <1>1, <2>1 DEF Pool!Take, LeadRows
  <2>2. ASSUME NEW k \in Leads, NEW d \in Dispositions, Pool!Report(k, d)
        PROVE  lead'[l].campaign = lead[l].campaign
    BY <1>1, <2>2 DEF Pool!Report, LeadRows
  <2>3. ASSUME NEW c \in Campaigns, NEW S \in SUBSET Leads, Pool!Import(c, S)
        PROVE  lead'[l].campaign = lead[l].campaign
    BY <1>1, <2>3 DEF Pool!Import
  <2>4. lead'[l].campaign = lead[l].campaign
    BY <1>3, <2>1, <2>2, <2>3 DEF Pool!Next
  <2>5. lead'[l] # None
    <3>1. ASSUME NEW c \in Campaigns, NEW S \in SUBSET Leads, Pool!Import(c, S)
          PROVE  lead'[l] = lead[l]
      BY <1>1, <3>1 DEF Pool!Import
    <3>2. ASSUME NEW k \in Leads, NEW a \in Agents, Pool!Take(k, a)
          PROVE  lead'[l] \in LeadRows
      BY <1>1, <3>2, NoneAssumption DEF Pool!Take, LeadRows, LeadStatuses
    <3>3. ASSUME NEW k \in Leads, NEW d \in Dispositions, Pool!Report(k, d)
          PROVE  lead'[l] \in LeadRows
      <4>1. lead'[l] = lead[l] \/ lead'[l] = [lead[l] EXCEPT !.status = Pool!StatusFrom(d)]
        BY <1>1, <3>3 DEF Pool!Report
      <4>2. CASE k = l
        BY <1>1, <3>3, <4>1, <4>2, StatusFromReported, NoneAssumption
           DEF Pool!Report, LeadRows
      <4>3. CASE k # l
        BY <1>1, <3>3, <4>3 DEF Pool!Report
      <4>4. QED
        BY <4>2, <4>3
    <3>4. QED
      BY <1>1, <1>3, <3>1, <3>2, <3>3, NoneAssumption DEF Pool!Next
  <2>6. QED
    BY <2>4, <2>5
<1>4. CASE UNCHANGED Pool!vars
  BY <1>4 DEF Pool!vars
<1>5. QED
  BY <1>3, <1>4, StepRefines

(* What a request claims or reports on is a lead of its campaign. *)
Own(r) == At(r, "claim") \/ req[r].pc \in DisposePCs
            => lead[req[r].lead].campaign = req[r].campaign

(* At first no request has read a campaign.                                *)
LEMMA OwnInit == ASSUME Init, NEW r \in Requests PROVE Own(r)
  BY DEF Init, Own, IdleReq, At, DisposePCs

(* A request that claims or reports on a lead has one that exists.         *)
LEMMA LeadOf ==
  ASSUME IInv, NEW r \in Requests, At(r, "claim") \/ req[r].pc \in DisposePCs
  PROVE  req[r].lead \in Leads /\ lead[req[r].lead] # None
  BY ReqFacts DEF IInv, ReqInv, At, ClaimPCs, DisposePCs, ClaimReqs, DisposeReqs

(* A step changes the record of one request at most. *)
LEMMA OneRequest ==
  ASSUME IInv, [Next]_vars, NEW r \in Requests, req'[r] # req[r]
  PROVE  Supervise(r) \/ ClaimNext(r) \/ RecordDisposition(r) \/ Fail(r)
<1>1. req \in [Requests -> {IdleReq} \cup PatchReqs \cup TeamReqs \cup ClaimReqs
                                     \cup DisposeReqs]
  BY DEF IInv, TypeOK
<1>2. ASSUME NEW q \in Requests, q # r,
             Supervise(q) \/ ClaimNext(q) \/ RecordDisposition(q) \/ Fail(q)
      PROVE  req'[r] = req[r]
  BY <1>1, <1>2 DEF Supervise, ClaimNext, RecordDisposition, Patch, SetAgents,
     UpdateCampaign, ReplaceAgents, NextLead, MayClaim, Pick, NoLeadsAvailable, Claim,
     Disposition, MayReport, Lookup, UpdateLead, InsertLog, Fail, Send, Goto, Answer
<1>3. QED
  BY <1>2 DEF Next, CreateCampaign, Import, vars

(* What a claim or a disposition turns its record into. *)
Moves(r) ==
  \/ req'[r] = IdleReq
  \/ /\ At(r, "idle") /\ status[req'[r].campaign] = "running"
     /\ \/ req'[r].pc = "assigned"
        \/ req'[r].pc = "mayReport" /\ lead[req'[r].lead].campaign = req'[r].campaign
     /\ UNCHANGED lead
  \/ /\ req[r].pc \in ClaimPCs /\ req'[r].pc = "pick"
     /\ req'[r].campaign = req[r].campaign
  \/ /\ req[r].pc \in ClaimPCs /\ req'[r].pc = "claim"
     /\ req'[r].campaign = req[r].campaign
     /\ lead[req'[r].lead].campaign = req'[r].campaign
     /\ UNCHANGED lead
  \/ /\ req[r].pc \in DisposePCs /\ req'[r].pc \in DisposePCs
     /\ req'[r].campaign = req[r].campaign /\ req'[r].lead = req[r].lead
     /\ UNCHANGED lead

(* A statement of an agent's request takes it on, with what it has read.   *)
LEMMA MovesOn ==
  ASSUME IInv, NEW r \in Requests, ClaimNext(r) \/ RecordDisposition(r)
  PROVE  Moves(r)
<1> req \in [Requests -> {IdleReq} \cup PatchReqs \cup TeamReqs \cup ClaimReqs
                                   \cup DisposeReqs]
  BY DEF IInv, TypeOK
<1>1. ASSUME NEW a \in Agents, NEW c \in Campaigns, NextLead(r, a, c) PROVE Moves(r)
  BY <1>1 DEF NextLead, Moves, Send, pool
<1>2. CASE MayClaim(r)
  <2>1. At(r, "assigned") /\ req' = [req EXCEPT ![r].pc = "pick"]
    BY <1>2 DEF MayClaim, Goto
  <2>2. req[r] \in ClaimReqs
    BY <2>1, ReqFacts DEF IInv, At, ClaimPCs
  <2>3. QED
    BY <2>1, <2>2 DEF Moves, ClaimReqs, ClaimPCs, At
<1>3. CASE Pick(r)
  <2>1. At(r, "pick")
    BY <1>3 DEF Pick
  <2>2. req[r] \in ClaimReqs
    BY <2>1, ReqFacts DEF IInv, At, ClaimPCs
  <2>3. PICK l \in Leads : /\ Available(l, req[r].campaign)
                           /\ req' = [req EXCEPT ![r].pc = "claim", ![r].lead = l]
    BY <1>3 DEF Pick
  <2>4. UNCHANGED lead
    BY <1>3 DEF Pick, pool
  <2>5. req'[r] = [req[r] EXCEPT !.pc = "claim", !.lead = l]
    BY <2>3
  <2>6. req'[r].pc = "claim" /\ req'[r].lead = l /\ req'[r].campaign = req[r].campaign
    BY <2>2, <2>5 DEF ClaimReqs
  <2>7. QED
    BY <2>1, <2>3, <2>4, <2>6 DEF Moves, ClaimPCs, At, Available
<1>4. CASE NoLeadsAvailable(r) \/ Claim(r) \/ InsertLog(r)
  BY <1>4 DEF NoLeadsAvailable, Claim, InsertLog, Moves, Answer, Send
<1>5. ASSUME NEW a \in Agents, NEW l \in Leads, NEW d \in Dispositions,
             Disposition(r, a, l, d)
      PROVE  Moves(r)
  BY <1>5 DEF Disposition, Moves, Send, pool
<1>6. CASE MayReport(r) \/ Lookup(r) \/ UpdateLead(r)
  <2>1. PICK l \in DisposePCs : req' = [req EXCEPT ![r].pc = l]
    BY <1>6 DEF MayReport, Lookup, UpdateLead, Goto, DisposePCs
  <2>2. req[r].pc \in DisposePCs /\ UNCHANGED lead
    BY <1>6 DEF MayReport, Lookup, UpdateLead, At, DisposePCs, pool
  <2>3. req[r] \in DisposeReqs
    BY <2>2, ReqFacts DEF IInv
  <2>4. QED
    BY <2>1, <2>2, <2>3 DEF Moves, DisposeReqs
<1>7. QED
  BY <1>1, <1>2, <1>3, <1>4, <1>5, <1>6 DEF ClaimNext, RecordDisposition

(* No step takes the lead in a request's hands out of its campaign.        *)
LEMMA OwnStep ==
  ASSUME IInv, NEW r \in Requests, Own(r), [Next]_vars
  PROVE  Own(r)'
<1> req \in [Requests -> {IdleReq} \cup PatchReqs \cup TeamReqs \cup ClaimReqs
                                   \cup DisposeReqs]
  BY DEF IInv, TypeOK
<1>1. CASE req'[r] = req[r]
  BY <1>1, LeadOf, LeadsStay DEF Own, At
<1>2. CASE req'[r] # req[r]
  <2>1. CASE Supervise(r) \/ Fail(r)
    BY <2>1 DEF Supervise, Patch, SetAgents, UpdateCampaign, ReplaceAgents, Fail,
       Own, At, Send, Answer, IdleReq, DisposePCs
  <2>2. CASE ClaimNext(r) \/ RecordDisposition(r)
    BY <2>2, MovesOn DEF Moves, Own, At, IdleReq, ClaimPCs, DisposePCs
  <2>3. QED
    BY <1>2, <2>1, <2>2, OneRequest
<1>3. QED
  BY <1>1, <1>2

(* Once those who read a campaign before it was stopped have ended, nobody *)
(* starts it again and nobody touches its leads (campaigns.go:131-163,     *)
(* leads.go:99-101).                                                       *)
THEOREM Stopped == Spec => StoppedStays
<1> DEFINE Inv == IInv /\ \A r \in Requests : Own(r)
<1>1. Init => Inv
  BY InitIInv, OwnInit
<1>2. Inv /\ [Next]_vars => Inv'
  BY NextIInv, OwnStep
<1>3. ASSUME Inv, [Next]_vars, NEW c \in Campaigns, AtRest(c)
      PROVE  /\ AtRest(c)'
             /\ \A l \in Leads : lead[l] # None /\ lead[l].campaign = c
                                  => lead'[l] = lead[l]
  <2> USE <1>3
  <2> req \in [Requests -> {IdleReq} \cup PatchReqs \cup TeamReqs \cup ClaimReqs
                                     \cup DisposeReqs]
    BY DEF IInv, TypeOK
  <2>0. status \in [Campaigns -> Statuses \cup {"absent"}] /\ status[c] = "stopped"
    BY DEF IInv, TypeOK, AtRest
  <2>1. status'[c] = "stopped"
    <3>1. ASSUME NEW r \in Requests, UpdateCampaign(r) PROVE status'[c] = "stopped"
      BY <2>0, <3>1 DEF UpdateCampaign, AtRest, ReadBefore, At
    <3>2. ASSUME NEW k \in Campaigns, CreateCampaign(k) PROVE status'[c] = "stopped"
      BY <2>0, <3>2 DEF CreateCampaign
    <3>3. ASSUME NEW r \in Requests, Supervise(r) \/ Fail(r), ~UpdateCampaign(r)
          PROVE  UNCHANGED status
      BY <3>3 DEF Supervise, Patch, SetAgents, ReplaceAgents, Fail
    <3>4. ASSUME NEW r \in Requests, ClaimNext(r) \/ RecordDisposition(r)
          PROVE  UNCHANGED status
      BY <3>4 DEF ClaimNext, RecordDisposition, NextLead, MayClaim, Pick,
         NoLeadsAvailable, Claim, Disposition, MayReport, Lookup, UpdateLead, InsertLog
    <3>5. ASSUME NEW k \in Campaigns, NEW S \in SUBSET Leads, Import(k, S)
          PROVE  UNCHANGED status
      BY <3>5 DEF Import
    <3>6. QED
      BY <2>0, <3>1, <3>2, <3>3, <3>4, <3>5 DEF Next, vars
  <2>2. ASSUME NEW r \in Requests PROVE ~ReadBefore(r, c)'
    <3>1. CASE req'[r] = req[r]
      BY <3>1 DEF AtRest, ReadBefore, At
    <3>2. CASE req'[r] # req[r]
      <4>1. CASE Supervise(r) \/ Fail(r)
        BY <2>0, <4>1 DEF Supervise, Patch, SetAgents, UpdateCampaign, ReplaceAgents,
           Fail, ReadBefore, At, Send, Answer, IdleReq, ValidStatusTransition
      <4>2. CASE ClaimNext(r) \/ RecordDisposition(r)
        BY <2>0, <4>2, MovesOn DEF Moves, AtRest, ReadBefore, At, IdleReq, ClaimPCs,
           DisposePCs
      <4>3. QED
        BY <3>2, <4>1, <4>2, OneRequest
    <3>3. QED
      BY <3>1, <3>2
  <2>3. ASSUME NEW l \in Leads, lead[l] # None, lead[l].campaign = c
        PROVE  lead'[l] = lead[l]
    <3>1. ASSUME NEW r \in Requests, Claim(r) \/ InsertLog(r) PROVE req[r].lead # l
      BY <2>3, <3>1 DEF Claim, InsertLog, Own, AtRest, ReadBefore, At, DisposePCs
    <3>2. ASSUME NEW r \in Requests, Claim(r) \/ InsertLog(r) PROVE lead'[l] = lead[l]
      BY <3>1, <3>2 DEF Claim, InsertLog, IInv, TypeOK
    <3>3. ASSUME NEW r \in Requests, Supervise(r) \/ Fail(r) PROVE UNCHANGED lead
      BY <3>3 DEF Supervise, Patch, SetAgents, UpdateCampaign, ReplaceAgents, Fail, pool
    <3>4. ASSUME NEW r \in Requests, ClaimNext(r), ~Claim(r) PROVE UNCHANGED lead
      BY <3>4 DEF ClaimNext, NextLead, MayClaim, Pick, NoLeadsAvailable, pool
    <3>5. ASSUME NEW r \in Requests, RecordDisposition(r), ~InsertLog(r)
          PROVE  UNCHANGED lead
      BY <3>5 DEF RecordDisposition, Disposition, MayReport, Lookup, UpdateLead, pool
    <3>6. ASSUME NEW k \in Campaigns, CreateCampaign(k) PROVE UNCHANGED lead
      BY <3>6 DEF CreateCampaign, pool
    <3>7. ASSUME NEW k \in Campaigns, NEW S \in SUBSET Leads, Import(k, S)
          PROVE  lead'[l] = lead[l]
      BY <2>3, <3>7 DEF Import
    <3>8. QED
      BY <3>2, <3>3, <3>4, <3>5, <3>6, <3>7 DEF Next, vars
  <2>4. QED
    BY <2>1, <2>2, <2>3 DEF AtRest
<1> DEFINE Rests == \A c \in Campaigns : AtRest(c) =>
                      /\ AtRest(c)'
                      /\ \A l \in Leads : lead[l] # None /\ lead[l].campaign = c
                                           => lead'[l] = lead[l]
<1>4. Inv /\ [Next]_vars => [Rests]_vars
  BY <1>3
<1>5. QED
  BY <1>1, <1>2, <1>4, PTL DEF Spec, StoppedStays
=============================================================================
