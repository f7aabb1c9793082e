---------------------------- MODULE AgentSession ----------------------------
(***************************************************************************)
(* The session of one agent and its SIP account.  POST /agent/session/start*)
(* and /stop, /agent/state and GET /agent/webrtc-config work on four       *)
(* stores one after the other: the presence key and the credential in      *)
(* Redis, the user file in FreeSWITCH's directory, and the directory that  *)
(* FreeSWITCH has loaded (services/edge/internal/httpapi/agent.go,         *)
(* internal/webrtccred/cred.go).  Agents share no key and no file.         *)
(*                                                                         *)
(* A user file is its password, which is random: in the model it may       *)
(* happen to be one used before.  Claims and releases of the agent are     *)
(* atomic (Presence).  os.WriteFile is one step.                           *)
(***************************************************************************)
CONSTANTS Requests,     \* requests of the agent that may be in progress at once
          Passwords,
          Disturbances, \* a subset of {"failure", "restart", "late"}
          None

VARIABLES presence,  \* agent:{id}
          cred,      \* agent:{id}:webrtc, the password it holds, or None
          file,      \* the user file's password, or None
          loaded,    \* the password FreeSWITCH accepts, or None
          req,       \* req[r]: a request, its next command, its locals
          session,   \* the last request that began or ended the session began it
          suspect,   \* a failure or overlap that no start or stop has healed
          unloaded   \* the last reloadxml failed or was never sent

vars == <<presence, cred, file, loaded, req, session, suspect, unloaded>>
redis == <<presence, cred>>
directory == <<file, loaded, unloaded>>
ghosts == <<session, suspect>>

ASSUME NoneAssumption == None \notin Passwords

States == {"missing", "available", "paused", "on_call"}
Idle == [pc |-> "idle"]
Issues == [pc : {"write", "reload", "store", "undo"}, password : Passwords]
Revokes == [pc : {"remove", "unload", "del", "clear", "stop"},
            by : {"stop", "expiry"}]
Sets == [pc : {"set"}, to : {"available", "paused"}]

TypeOK ==
  /\ presence \in States
  /\ cred \in Passwords \cup {None}
  /\ file \in Passwords \cup {None}
  /\ loaded \in Passwords \cup {None}
  /\ req \in [Requests -> {Idle} \cup Issues \cup Revokes \cup Sets]
  /\ session \in BOOLEAN /\ suspect \in BOOLEAN /\ unloaded \in BOOLEAN

Init ==
  /\ presence = "missing" /\ cred = None /\ file = None /\ loaded = None
  /\ req = [r \in Requests |-> Idle]
  /\ session = FALSE /\ suspect = FALSE /\ unloaded = FALSE

At(r, pc) == req[r].pc = pc
Send(r, command) == req' = [req EXCEPT ![r] = command]
Goto(r, pc) == req' = [req EXCEPT ![r].pc = pc]
OthersBusy(r) == \E q \in Requests \ {r} : ~At(q, "idle")

(* A request that goes through all stores makes up for what was before. *)
Renews(r, on) == session' = on /\ suspect' = OthersBusy(r)

-----------------------------------------------------------------------------
(* handleStart: presence, then Issue: the file, reloadxml, the credential. *)
Start(r, p) ==
  /\ At(r, "idle")
  /\ presence' = "available"
  /\ Send(r, [pc |-> "write", password |-> p])
  /\ Renews(r, TRUE)
  /\ UNCHANGED <<cred, directory>>

(* Mutant: the directory is thought to be read for every registration.     *)
WriteUserOnly(r) ==
  /\ At(r, "write")
  /\ file' = req[r].password
  /\ Goto(r, "store")
  /\ UNCHANGED <<redis, loaded, unloaded, ghosts>>

WriteUser(r) ==
  /\ At(r, "write")
  /\ file' = req[r].password
  /\ Goto(r, "reload")
  /\ UNCHANGED <<redis, loaded, unloaded, ghosts>>

ReloadXML == loaded' = file /\ unloaded' = FALSE /\ UNCHANGED file

Load(r) ==
  /\ At(r, "reload")
  /\ ReloadXML
  /\ Goto(r, "store")
  /\ UNCHANGED <<redis, ghosts>>

StoreCred(r) ==
  /\ At(r, "store")
  /\ cred' = req[r].password
  /\ Send(r, Idle)
  /\ UNCHANGED <<presence, directory, ghosts>>

(* Issue has failed: presence is taken back, the account is not. *)
Undo(r) ==
  /\ At(r, "undo")
  /\ presence' = "missing"
  /\ Send(r, Idle)
  /\ UNCHANGED <<cred, directory, ghosts>>

-----------------------------------------------------------------------------
(* handleStop: Revoke, then presence once more. *)
Stop(r) ==
  /\ At(r, "idle")
  /\ Send(r, [pc |-> "remove", by |-> "stop"])
  /\ Renews(r, FALSE)
  /\ UNCHANGED <<redis, directory>>

(* handleWebRTCConfig finds a credential that its own clock takes for      *)
(* expired, which Redis has not removed yet, and revokes it.               *)
WebRTCConfig(r) ==
  /\ "late" \in Disturbances
  /\ At(r, "idle") /\ cred # None
  /\ Send(r, [pc |-> "remove", by |-> "expiry"])
  /\ Renews(r, FALSE)
  /\ UNCHANGED <<redis, directory>>

RemoveUser(r) ==
  /\ At(r, "remove")
  /\ file' = None
  /\ Goto(r, "unload")
  /\ UNCHANGED <<redis, loaded, unloaded, ghosts>>

Unload(r) ==
  /\ At(r, "unload")
  /\ ReloadXML
  /\ Goto(r, "del")
  /\ UNCHANGED <<redis, ghosts>>

(* Mutant: the credential is left to its TTL.                              *)
KeepCred(r) ==
  /\ At(r, "del")
  /\ Goto(r, "clear")
  /\ UNCHANGED <<redis, directory, ghosts>>

DelCred(r) ==
  /\ At(r, "del")
  /\ cred' = None
  /\ Goto(r, "clear")
  /\ UNCHANGED <<presence, directory, ghosts>>

AfterClear(r) == IF req[r].by = "stop" THEN Goto(r, "stop") ELSE Send(r, Idle)

ClearPresence(r) ==
  /\ At(r, "clear")
  /\ presence' = "missing"
  /\ AfterClear(r)
  /\ UNCHANGED <<cred, directory, ghosts>>

(* Mutant: the state that is broadcast is stored, too.                     *)
StoreOffline(r) ==
  /\ At(r, "stop")
  /\ presence' = "offline"
  /\ Send(r, Idle)
  /\ UNCHANGED <<cred, directory, ghosts>>

StopPresence(r) ==
  /\ At(r, "stop")
  /\ presence' = "missing"
  /\ Send(r, Idle)
  /\ UNCHANGED <<cred, directory, ghosts>>

-----------------------------------------------------------------------------
(* handleState: SetState finds the key, and writes it later. *)
SetState(r, to) ==
  /\ At(r, "idle") /\ presence # "missing"
  /\ Send(r, [pc |-> "set", to |-> to])
  /\ suspect' = (suspect \/ OthersBusy(r))
  /\ UNCHANGED <<redis, directory, session>>

WriteState(r) ==
  /\ At(r, "set")
  /\ presence' = req[r].to
  /\ Send(r, Idle)
  /\ UNCHANGED <<cred, directory, ghosts>>

-----------------------------------------------------------------------------
(* A command fails.  Issue gives up, Revoke ignores it and goes on.        *)
After(pc) == CASE pc \in {"write", "reload", "store"} -> "undo"
               [] pc = "remove" -> "unload" [] pc = "unload" -> "del"
               [] pc = "del" -> "clear"

CommandFails(r) ==
  /\ "failure" \in Disturbances
  /\ ~At(r, "idle")
  /\ IF At(r, "clear") THEN AfterClear(r)
     ELSE IF req[r].pc \in {"undo", "stop", "set"} THEN Send(r, Idle)
     ELSE Goto(r, After(req[r].pc))
  /\ suspect' = TRUE
  /\ unloaded' = (unloaded \/ At(r, "reload") \/ At(r, "unload"))
  /\ UNCHANGED <<redis, file, loaded, session>>

(* Issue's command is carried out and its reply lost. *)
ReplyLost(r) ==
  /\ "failure" \in Disturbances
  /\ \/ At(r, "reload") /\ ReloadXML /\ UNCHANGED cred
     \/ At(r, "store") /\ cred' = req[r].password /\ UNCHANGED directory
  /\ Goto(r, "undo")
  /\ suspect' = TRUE
  /\ UNCHANGED <<presence, session>>

(* So is Start's first SET; nothing follows it. *)
StartReplyLost(r) ==
  /\ "failure" \in Disturbances
  /\ At(r, "idle")
  /\ presence' = "available"
  /\ suspect' = TRUE
  /\ UNCHANGED <<cred, directory, req, session>>

(* The edge is restarted: the stores keep what its requests had done.      *)
EdgeRestarts ==
  /\ "restart" \in Disturbances
  /\ req' = [r \in Requests |-> Idle]
  /\ suspect' = (suspect \/ \E r \in Requests : ~At(r, "idle"))
  /\ unloaded' = (unloaded \/ \E r \in Requests : At(r, "reload") \/ At(r, "unload"))
  /\ UNCHANGED <<redis, file, loaded, session>>

FreeSwitchRestarts ==
  /\ "restart" \in Disturbances
  /\ ReloadXML
  /\ UNCHANGED <<redis, req, ghosts>>

(* The router and the dialer take the agent and give it back; the two keys *)
(* expire each at its time.  Every write of presence renews it, nothing    *)
(* renews the credential, and nothing removes the file.                    *)
Claim == presence = "available" /\ presence' = "on_call"
Release == presence = "on_call" /\ presence' = "available"
PresenceExpires == presence # "missing" /\ presence' = "missing"

PresenceMoves == /\ Claim \/ Release \/ PresenceExpires
                 /\ UNCHANGED <<cred, directory, req, ghosts>>

CredExpires == /\ cred # None
               /\ cred' = None
               /\ UNCHANGED <<presence, directory, req, ghosts>>

-----------------------------------------------------------------------------
Issue(r) == WriteUser(r) \/ Load(r) \/ StoreCred(r) \/ Undo(r)
Revoke(r) == RemoveUser(r) \/ Unload(r) \/ DelCred(r) \/ ClearPresence(r)

Request(r) ==
  \/ \E p \in Passwords : Start(r, p)
  \/ Issue(r)
  \/ Stop(r) \/ WebRTCConfig(r) \/ Revoke(r) \/ StopPresence(r)
  \/ \E to \in {"available", "paused"} : SetState(r, to)
  \/ WriteState(r)
  \/ CommandFails(r) \/ ReplyLost(r) \/ StartReplyLost(r)

Next == \/ \E r \in Requests : Request(r)
        \/ EdgeRestarts \/ FreeSwitchRestarts
        \/ PresenceMoves \/ CredExpires

Spec == Init /\ [][Next]_vars

-----------------------------------------------------------------------------
Quiet == \A r \in Requests : At(r, "idle")

(* The four stores settle together.  When no request is under way, a       *)
(* session that was started has an account FreeSWITCH accepts, whose       *)
(* password is the credential's as long as that lasts; after a stop none   *)
(* of the four is left, and no claim, expiry or pause brings presence      *)
(* back.  Only a failure, or an overlap with a start or a stop, may leave  *)
(* them apart, and the next start or stop alone repairs that               *)
(* (agent.go:103-132, cred.go:64-109).                                     *)
Settled ==
  Quiet /\ ~suspect =>
    IF session THEN file # None /\ loaded = file /\ cred \in {file, None}
               ELSE /\ file = None /\ loaded = None /\ cred = None
                    /\ presence = "missing"

(* FreeSWITCH never keeps an old directory: whoever changes the file       *)
(* reloads it, so however starts, stops and expiries overlap, what is      *)
(* loaded is what is on disk, unless a reload is about to be sent, or one  *)
(* failed and none has come since (cred.go:76-81, 102-103).                *)
DirectoryLoaded ==
  loaded # file => unloaded \/ \E r \in Requests : At(r, "reload") \/ At(r, "unload")
=============================================================================
