------------------------------ MODULE Gateways ------------------------------
(***************************************************************************)
(* From the carriers table to FreeSWITCH's gateways.  The API writes rows  *)
(* and publishes carriers.changed; two goroutines of the edge, the reload  *)
(* at boot and the subscriber, run ReloadAll over the same directory and   *)
(* the same Sofia profile (services/edge/internal/fs/gateway.go,           *)
(* cmd/edge/main.go, services/api/internal/httpapi/carriers.go).           *)
(*                                                                         *)
(* A carrier's XML is its host: the other rendered fields travel the same  *)
(* way.  ReloadAll takes carriers by priority, which decides nothing here, *)
(* so they come in any order.  Messages of carriers.changed are all alike. *)
(* os.WriteFile is one step, and Sofia obeys a command before it answers.  *)
(***************************************************************************)
EXTENDS Naturals

CONSTANTS Carriers, Hosts,
          Requests,     \* API requests that may be in progress at once
          MaxPending,   \* bound: messages the subscriber has not handled
          Disturbances, \* a subset of {"failure", "lost", "restart"}
          None, Deleted

VARIABLES row,        \* row[c]: the carrier's row, None, or Deleted
          req,        \* req[r]: an API request, its next statement, its locals
          subscribed, \* the edge's subscription is up
          pending,    \* messages of carriers.changed it has not handled
          file,       \* file[c]: the gateway file of c, or None
          gateway,    \* gateway[c]: what Sofia has loaded for c, or None
          reload,     \* reload[p]: where ReloadAll of goroutine p is
          late,       \* commands given up that Sofia may yet carry out
          leaked,     \* the carriers whose file has gone without a killgw
          suspect     \* a loss, failure or overlap no later reload has healed

vars == <<row, req, subscribed, pending, file, gateway, reload, late,
          leaked, suspect>>
db == <<row, req>>
channel == <<subscribed, pending>>
sofia == <<file, gateway, late, leaked>>

Goroutines == {"boot", "subscriber"}
Rows == [host : Hosts, enabled : BOOLEAN]

ASSUME ValuesAssumption ==
  /\ None \notin Hosts \cup Carriers \cup Rows \cup BOOLEAN
  /\ Deleted \notin Rows
  /\ {"disabled", "absent"} \cap Hosts = {}
  /\ "rescan" \notin Carriers

IdleReq == [pc |-> "idle"]
GetReqs == [pc : {"get"}, carrier : Carriers, host : Hosts,
            enabled : BOOLEAN \cup {None}]
UpdateReqs == [pc : {"update"}, carrier : Carriers, host : Hosts, enabled : BOOLEAN]
PublishReq == [pc |-> "publish"]

(* list[c]: what the listed row asks for; todo: the carriers the loop has  *)
(* still to do; current: the one whose commands are under way.             *)
Phases == {"list", "directory"}
Lists == [Carriers -> Hosts \cup {"disabled", "absent"}]
Idle == [pc |-> "idle"]
Booting == [pc |-> "booting"]
Reloads == [pc : {"next", "kill", "rescan", "drop"}, phase : Phases, list : Lists,
            todo : SUBSET Carriers, current : Carriers \cup {None}]

TypeOK ==
  /\ row \in [Carriers -> Rows \cup {None, Deleted}]
  /\ req \in [Requests -> {IdleReq, PublishReq} \cup GetReqs \cup UpdateReqs]
  /\ subscribed \in BOOLEAN /\ pending \in Nat
  /\ file \in [Carriers -> Hosts \cup {None}]
  /\ gateway \in [Carriers -> Hosts \cup {None}]
  /\ reload \in [Goroutines -> {Idle, Booting} \cup Reloads]
  /\ late \subseteq Carriers \cup {"rescan"} \* a carrier for its killgw
  /\ leaked \subseteq Carriers
  /\ suspect \in BOOLEAN

(* The edge starts; Sofia has loaded the files an earlier edge has left.   *)
Init ==
  /\ row \in [Carriers -> Rows \cup {None, Deleted}]
  /\ req = [r \in Requests |-> IdleReq]
  /\ subscribed = FALSE /\ pending = 0
  /\ file \in [Carriers -> Hosts \cup {None}]
  /\ \A c \in Carriers : row[c] = None => file[c] = None
  /\ gateway = file
  /\ reload = [p \in Goroutines |-> IF p = "boot" THEN Booting ELSE Idle]
  /\ late = {} /\ leaked = {} /\ suspect = FALSE

-----------------------------------------------------------------------------
(* The API. *)
Exists(c) == row[c] \in Rows
At(r, l) == req[r].pc = l
Proceed(r, statement) == req' = [req EXCEPT ![r] = statement]

Create(r, c, new) ==
  /\ At(r, "idle")
  /\ row[c] = None
  /\ row' = [row EXCEPT ![c] = new]
  /\ Proceed(r, PublishReq)
  /\ UNCHANGED <<channel, sofia, reload, suspect>>

(* PATCH: the handler reads the host, Update the rest; what a request does *)
(* not ask for (None) is written back as it was read.                      *)
Patch(r, c, host, enabled) ==
  /\ At(r, "idle")
  /\ Exists(c)
  /\ Proceed(r, [pc |-> "get", carrier |-> c, enabled |-> enabled,
              host |-> IF host = None THEN row[c].host ELSE host])
  /\ UNCHANGED <<row, channel, sofia, reload, suspect>>

UpdateGet(r) ==
  /\ At(r, "get")
  /\ LET cur == row[req[r].carrier] IN
     IF ~Exists(req[r].carrier) THEN Proceed(r, IdleReq)
     ELSE Proceed(r, [req[r] EXCEPT !.pc = "update",
                     !.enabled = IF @ = None THEN cur.enabled ELSE @])
  /\ UNCHANGED <<row, channel, sofia, reload, suspect>>

Update(r) ==
  /\ At(r, "update")
  /\ LET c == req[r].carrier IN
     IF ~Exists(c) THEN Proceed(r, IdleReq) /\ UNCHANGED row
     ELSE /\ row' = [row EXCEPT ![c] = [host |-> req[r].host,
                                        enabled |-> req[r].enabled]]
          /\ Proceed(r, PublishReq)
  /\ UNCHANGED <<channel, sofia, reload, suspect>>

Delete(r, c) ==
  /\ At(r, "idle")
  /\ Exists(c)
  /\ row' = [row EXCEPT ![c] = Deleted]
  /\ Proceed(r, PublishReq)
  /\ UNCHANGED <<channel, sofia, reload, suspect>>

(* Nobody hears a message while the edge is not subscribed. *)
Publish(r) ==
  /\ At(r, "publish")
  /\ IF subscribed
     THEN pending < MaxPending /\ pending' = pending + 1 /\ UNCHANGED suspect
     ELSE suspect' = TRUE /\ UNCHANGED pending
  /\ Proceed(r, IdleReq)
  /\ UNCHANGED <<row, subscribed, sofia, reload>>

(* The publisher's error is ignored, or the API has died. *)
PublishFails(r) ==
  /\ "lost" \in Disturbances
  /\ At(r, "publish")
  /\ suspect' = TRUE
  /\ Proceed(r, IdleReq)
  /\ UNCHANGED <<row, channel, sofia, reload>>

-----------------------------------------------------------------------------
(* The edge's subscription; go-redis subscribes again by itself. *)
Subscribe == /\ ~subscribed
             /\ subscribed' = TRUE
             /\ UNCHANGED <<db, pending, sofia, reload, suspect>>

Unsubscribed == /\ "lost" \in Disturbances
                /\ subscribed
                /\ subscribed' = FALSE
                /\ UNCHANGED <<db, pending, sofia, reload, suspect>>

-----------------------------------------------------------------------------
(* ReloadAll, by goroutine p. *)
Busy(p) == reload[p].pc \notin {"idle", "booting"}
In(p, pc) == reload[p].pc = pc
Current(p) == reload[p].current
Reloading(p, state) == reload' = [reload EXCEPT ![p] = state]

Asks(c) == IF ~Exists(c) THEN "absent"
           ELSE IF row[c].enabled THEN row[c].host ELSE "disabled"

(* The goroutine begins: at boot, or with a message. *)
Begin(p) ==
  \/ p = "boot" /\ In(p, "booting") /\ UNCHANGED pending
  \/ p = "subscriber" /\ In(p, "idle") /\ pending > 0 /\ pending' = pending - 1

(* ListOrdered.  A reload alone makes up for what went wrong before it.    *)
List(p) ==
  /\ Begin(p)
  /\ LET list == [c \in Carriers |-> Asks(c)] IN
     Reloading(p, [pc |-> "next", phase |-> "list", list |-> list, current |-> None,
                   todo |-> {c \in Carriers : list[c] # "absent"}])
  /\ suspect' = (\E q \in Goroutines \ {p} : Busy(q))
  /\ UNCHANGED <<db, subscribed, sofia>>

ListFails(p) ==
  /\ "failure" \in Disturbances
  /\ Begin(p)
  /\ Reloading(p, Idle)
  /\ suspect' = TRUE
  /\ UNCHANGED <<db, subscribed, sofia>>

(* The next carrier of the loop over the list, or over the directory. *)
NextIs(p, c) == In(p, "next") /\ c \in reload[p].todo
Command(p, c, pc) ==
  reload' = [reload EXCEPT ![p].pc = pc, ![p].current = c, ![p].todo = @ \ {c}]
Continue(p) == reload' = [reload EXCEPT ![p].pc = "next", ![p].current = None]

Enabled(p, c) == reload[p].list[c] \in Hosts

(* Mutant: disabled rows are applied as well.                              *)
WriteDisabledToo(p, c) ==
  /\ NextIs(p, c)
  /\ file' = [file EXCEPT ![c] = reload[p].list[c]]
  /\ leaked' = leaked \ {c}
  /\ Command(p, c, "kill")
  /\ UNCHANGED <<db, channel, gateway, late, suspect>>

(* ApplyCarrierGateway: the file, killgw, rescan. *)
WriteFile(p, c) ==
  /\ NextIs(p, c) /\ Enabled(p, c)
  /\ file' = [file EXCEPT ![c] = reload[p].list[c]]
  /\ leaked' = leaked \ {c}
  /\ Command(p, c, "kill")
  /\ UNCHANGED <<db, channel, gateway, late, suspect>>

(* Its password cannot be decrypted, or its file cannot be written. *)
CarrierSkipped(p, c) ==
  /\ "failure" \in Disturbances
  /\ NextIs(p, c) /\ Enabled(p, c)
  /\ reload' = [reload EXCEPT ![p].todo = @ \ {c}]
  /\ suspect' = TRUE
  /\ UNCHANGED <<db, channel, sofia>>

(* Mutant: a rescan is thought to be enough.                               *)
NoKill(p) ==
  /\ In(p, "kill")
  /\ reload' = [reload EXCEPT ![p].pc = "rescan"]
  /\ UNCHANGED <<db, channel, sofia, suspect>>

KillGateway(p) ==
  /\ In(p, "kill")
  /\ gateway' = [gateway EXCEPT ![Current(p)] = None]
  /\ reload' = [reload EXCEPT ![p].pc = "rescan"]
  /\ UNCHANGED <<db, channel, file, late, leaked, suspect>>

(* Sofia loads what is in the directory and is not loaded yet. *)
LoadNew == gateway' = [c \in Carriers |-> IF gateway[c] = None THEN file[c]
                                                              ELSE gateway[c]]

Rescan(p) ==
  /\ In(p, "rescan")
  /\ LoadNew
  /\ Continue(p)
  /\ UNCHANGED <<db, channel, file, late, leaked, suspect>>

(* RemoveCarrierGateway, for a disabled row or a file without a row: the   *)
(* file, killgw.                                                           *)
Unwanted(p, c) == reload[p].phase = "directory" \/ ~Enabled(p, c)

RemoveFile(p, c) ==
  /\ NextIs(p, c) /\ Unwanted(p, c)
  /\ file' = [file EXCEPT ![c] = None]
  /\ Command(p, c, "drop")
  /\ UNCHANGED <<db, channel, gateway, late, leaked, suspect>>

(* The error of os.Remove is ignored. *)
RemoveFails(p, c) ==
  /\ "failure" \in Disturbances
  /\ NextIs(p, c) /\ Unwanted(p, c)
  /\ Command(p, c, "drop")
  /\ suspect' = TRUE
  /\ UNCHANGED <<db, channel, sofia>>

(* Mutant: the gateway goes by another name.                               *)
DropNothing(p) ==
  /\ In(p, "drop")
  /\ Continue(p)
  /\ UNCHANGED <<db, channel, sofia, suspect>>

DropGateway(p) ==
  /\ In(p, "drop")
  /\ gateway' = [gateway EXCEPT ![Current(p)] = None]
  /\ leaked' = leaked \ {Current(p)}
  /\ Continue(p)
  /\ UNCHANGED <<db, channel, file, late, suspect>>

(* The command of p fails: FreeSWITCH refuses it, never gets it, or        *)
(* carries it out after the client has given up waiting (EslClient).       *)
Sent(p) == CASE In(p, "rescan") -> {"rescan"}
             [] In(p, "kill") \/ In(p, "drop") -> {Current(p)}
             [] OTHER -> {}

MayComeLate(commands) == late' \in {late, late \cup commands}

Left(p) == {c \in Carriers : /\ In(p, "drop") /\ c = Current(p)
                             /\ file[c] = None /\ gateway[c] # None}

CommandFails(p) ==
  /\ "failure" \in Disturbances
  /\ Sent(p) # {}
  /\ IF In(p, "kill") THEN reload' = [reload EXCEPT ![p].pc = "rescan"]
                      ELSE Continue(p)
  /\ MayComeLate(Sent(p))
  /\ leaked' = leaked \cup Left(p)
  /\ suspect' = TRUE
  /\ UNCHANGED <<db, channel, file, gateway>>

LateKill(c) ==
  /\ c \in late
  /\ gateway' = [gateway EXCEPT ![c] = None]
  /\ leaked' = leaked \ {c}
  /\ late' = late \ {c}
  /\ suspect' = TRUE
  /\ UNCHANGED <<db, channel, file, reload>>

LateRescan ==
  /\ "rescan" \in late
  /\ LoadNew
  /\ late' = late \ {"rescan"}
  /\ suspect' = TRUE
  /\ UNCHANGED <<db, channel, file, leaked, reload>>

(* ReconcileGatewayDirectory: os.ReadDir, when the list is done. *)
LoopDone(p, phase) == In(p, "next") /\ reload[p].phase = phase /\ reload[p].todo = {}

ReadDir(p) ==
  /\ LoopDone(p, "list")
  /\ reload' = [reload EXCEPT ![p].phase = "directory",
                              ![p].todo = {c \in Carriers : /\ file[c] # None
                                                            /\ ~Enabled(p, c)}]
  /\ UNCHANGED <<db, channel, sofia, suspect>>

ReadDirFails(p) ==
  /\ "failure" \in Disturbances
  /\ LoopDone(p, "list")
  /\ Reloading(p, Idle)
  /\ suspect' = TRUE
  /\ UNCHANGED <<db, channel, sofia>>

Finish(p) ==
  /\ LoopDone(p, "directory")
  /\ Reloading(p, Idle)
  /\ UNCHANGED <<db, channel, sofia, suspect>>

-----------------------------------------------------------------------------
(* The edge is killed and started again: files and gateways stay.          *)
EdgeRestarts ==
  /\ "restart" \in Disturbances
  /\ reload' = [p \in Goroutines |-> IF p = "boot" THEN Booting ELSE Idle]
  /\ subscribed' = FALSE /\ pending' = 0
  /\ MayComeLate(UNION {Sent(p) : p \in Goroutines})
  /\ leaked' = leaked \cup UNION {Left(p) : p \in Goroutines}
  /\ UNCHANGED <<db, file, gateway, suspect>>

FreeSwitchRestarts ==
  /\ "restart" \in Disturbances
  /\ gateway' = file
  /\ late' = {} /\ leaked' = {}
  /\ UNCHANGED <<db, channel, file, reload, suspect>>

-----------------------------------------------------------------------------
Request(r) ==
  \/ \E c \in Carriers :
       \/ \E new \in Rows : Create(r, c, new)
       \/ \E host \in Hosts \cup {None}, enabled \in BOOLEAN \cup {None} :
            Patch(r, c, host, enabled)
       \/ Delete(r, c)
  \/ UpdateGet(r) \/ Update(r) \/ Publish(r) \/ PublishFails(r)

ApplyCarrierGateway(p) ==
  \/ \E c \in Carriers : WriteFile(p, c) \/ CarrierSkipped(p, c)
  \/ KillGateway(p) \/ Rescan(p)

RemoveCarrierGateway(p) ==
  \/ \E c \in Carriers : RemoveFile(p, c) \/ RemoveFails(p, c)
  \/ DropGateway(p)

ReloadAll(p) ==
  \/ List(p) \/ ListFails(p)
  \/ ApplyCarrierGateway(p) \/ RemoveCarrierGateway(p) \/ CommandFails(p)
  \/ ReadDir(p) \/ ReadDirFails(p) \/ Finish(p)

Next == \/ \E r \in Requests : Request(r)
        \/ \E p \in Goroutines : ReloadAll(p)
        \/ \E c \in Carriers : LateKill(c)
        \/ LateRescan
        \/ Subscribe \/ Unsubscribed
        \/ EdgeRestarts \/ FreeSwitchRestarts

Spec == Init /\ [][Next]_vars

-----------------------------------------------------------------------------
Quiet == /\ pending = 0
         /\ \A r \in Requests : ~At(r, "publish")
         /\ \A p \in Goroutines : In(p, "idle")

Wanted(c) == IF Exists(c) /\ row[c].enabled THEN row[c].host ELSE None

(* When every change has been announced and handled, the directory and     *)
(* Sofia hold the enabled carriers and nothing else, whichever messages,   *)
(* commands and restarts came before, unless a failure or an overlap has   *)
(* not been followed by a reload alone (gateway.go:182-247).  A gateway    *)
(* that a failed killgw has left behind stays.                             *)
CaughtUp == Quiet /\ ~suspect =>
              \A c \in Carriers : /\ file[c] = Wanted(c)
                                  /\ c \in leaked \/ gateway[c] = Wanted(c)

(* A gateway without a file is about to be killed: however the two reloads *)
(* interleave, a rescan of one cannot bring back for good what the other   *)
(* removes.  Only a killgw that fails or a crash before it leaves one      *)
(* (gateway.go:44-57).                                                     *)
NoGhosts == \A c \in Carriers :
              gateway[c] # None /\ file[c] = None =>
                c \in leaked \/ \E p \in Goroutines : In(p, "drop") /\ Current(p) = c
=============================================================================
