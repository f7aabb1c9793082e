------------------------------- MODULE Users -------------------------------
(***************************************************************************)
(* User accounts (services/api/internal/store/users.go): Create and Update *)
(* run as transactions at READ COMMITTED, one SQL statement per step.      *)
(* Update locks the user's row, and whoever makes an admin takes the       *)
(* advisory lock of the only admin slot, both until the transaction ends.  *)
(*                                                                         *)
(* Emails, passwords and display names decide nothing here and are left    *)
(* out; the login columns of a row are written by other statements, which  *)
(* touch neither the role nor the disabling.                               *)
(***************************************************************************)
CONSTANTS Users,    \* user ids, those still to be drawn included
          Requests, \* API requests that may be in progress at once
          None

Roles == {"admin", "supervisor", "agent"}
Access == {"enabled", "disabled"}
Rows == [role : Roles, access : Access]

ASSUME NoneAssumption == None \notin Users \cup Roles \cup Access \cup Rows

VARIABLES row, \* row[u]: the committed row of user u, or None
          req  \* req[r]: the statement request r sends next, its locals

vars == <<row, req>>

(* role and access: what the request asks for, None where it does not;   *)
(* cur: the row as Update has read it; slot: whether it has the admin slot *)
IdleReq == [pc |-> "idle", user |-> None, role |-> None, access |-> None,
            cur |-> None, slot |-> FALSE]
Active == {"get", "slot", "count", "write"}
ActiveReqs == [pc : Active, user : Users, role : Roles \cup {None},
               access : Access \cup {None}, cur : Rows \cup {None},
               slot : BOOLEAN]

TypeOK == /\ row \in [Users -> Rows \cup {None}]
          /\ req \in [Requests -> {IdleReq} \cup ActiveReqs]

(* The seed makes at most one admin. *)
Init == /\ \/ \E u \in Users :
                row = [v \in Users |->
                         IF v = u THEN [role |-> "admin", access |-> "enabled"]
                                  ELSE None]
           \/ row = [v \in Users |-> None]
        /\ req = [r \in Requests |-> IdleReq]

-----------------------------------------------------------------------------
At(r, l) == req[r].pc = l
Answer(r) == req' = [req EXCEPT ![r] = IdleReq]
Send(r, l) == req' = [req EXCEPT ![r].pc = l]

(* A statement fails or an answer is an error; the transaction rolls back. *)
Fail(r) == ~At(r, "idle") /\ Answer(r) /\ UNCHANGED row

IsAdmin(u) == row[u] # None /\ row[u].role = "admin"

(* Two requests that create have two ids. *)
Taken(u) == \E r \in Requests : req[r].pc # "idle" /\ req[r].user = u

Create(r, u, role) ==
  /\ At(r, "idle")
  /\ row[u] = None /\ ~Taken(u)
  /\ req' = [req EXCEPT ![r] = [IdleReq EXCEPT
               !.pc = IF role = "admin" THEN "slot" ELSE "write",
               !.user = u, !.role = role, !.access = "enabled"]]
  /\ UNCHANGED row

Update(r, u, role, access) ==
  /\ At(r, "idle")
  /\ row[u] # None
  /\ req' = [req EXCEPT ![r] = [IdleReq EXCEPT
               !.pc = "get", !.user = u, !.role = role, !.access = access]]
  /\ UNCHANGED row

(* The transactions that have read their user's row keep it locked. *)
RowLocked(u) == \E r \in Requests : req[r].cur # None /\ req[r].user = u

LoadRow(r) ==
  LET cur == row[req[r].user] IN
  req' = [req EXCEPT
    ![r].cur = cur,
    ![r].pc = IF req[r].role = "admin" /\ cur.role # "admin" THEN "slot"
                                                             ELSE "write"]

(* Mutant: SELECT without FOR UPDATE.                                      *)
GetNoLock(r) ==
  /\ At(r, "get")
  /\ LoadRow(r)
  /\ UNCHANGED row

GetForUpdate(r) ==
  /\ At(r, "get")
  /\ ~RowLocked(req[r].user)
  /\ LoadRow(r)
  /\ UNCHANGED row

(* Mutant: the slot is not waited for.                                     *)
AdminSlotNoLock(r) ==
  /\ At(r, "slot")
  /\ req' = [req EXCEPT ![r].pc = "count", ![r].slot = TRUE]
  /\ UNCHANGED row

(* pg_advisory_xact_lock *)
AdminSlot(r) ==
  /\ At(r, "slot")
  /\ \A q \in Requests : ~req[q].slot
  /\ req' = [req EXCEPT ![r].pc = "count", ![r].slot = TRUE]
  /\ UNCHANGED row

(* Mutant: a lock of the session, which a rollback does not release.       *)
CountKeepsLock(r) ==
  /\ At(r, "count")
  /\ IF \E u \in Users : IsAdmin(u)
     THEN req' = [req EXCEPT ![r] = [IdleReq EXCEPT !.slot = TRUE]]
     ELSE Send(r, "write")
  /\ UNCHANGED row

CountAdmins(r) ==
  /\ At(r, "count")
  /\ IF \E u \in Users : IsAdmin(u) THEN Answer(r) ELSE Send(r, "write")
  /\ UNCHANGED row

Asked(new, old) == IF new = None THEN old ELSE new

(* Mutant: a created user is not a complete row.                           *)
WriteRoleOnly(r) ==
  /\ At(r, "write")
  /\ row' = [row EXCEPT ![req[r].user] = [role |-> req[r].role,
                                          access |-> req[r].access]]
  /\ Answer(r)

(* The INSERT, or the UPDATE of all columns, and the COMMIT. *)
Write(r) ==
  /\ At(r, "write")
  /\ LET cur == req[r].cur IN
     row' = [row EXCEPT ![req[r].user] =
               IF cur = None THEN [role |-> req[r].role, access |-> "enabled"]
               ELSE [role |-> Asked(req[r].role, cur.role),
                     access |-> Asked(req[r].access, cur.access)]]
  /\ Answer(r)

-----------------------------------------------------------------------------
Run(r) == AdminSlot(r) \/ GetForUpdate(r) \/ CountAdmins(r) \/ Write(r)

Arrive(r) ==
  \E u \in Users :
    \/ \E role \in Roles : Create(r, u, role)
    \/ \E role \in Roles \cup {None}, access \in Access \cup {None} :
         Update(r, u, role, access)

Next == \E r \in Requests : Arrive(r) \/ Run(r) \/ Fail(r)

Spec == Init /\ [][Next]_vars

(* Postgres answers every statement, and serves the requests that wait for *)
(* a lock in their order, so none of them is passed over for ever.         *)
FairSpec == Spec /\ \A r \in Requests : SF_vars(Run(r))

-----------------------------------------------------------------------------
(* There is one admin at most, however many requests create and promote    *)
(* admins together (users.go:20, "serializes admin create/promote").       *)
AtMostOneAdmin == \A u, v \in Users : IsAdmin(u) /\ IsAdmin(v) => u = v

(* A PATCH writes all columns, but what it does not ask for is as it finds *)
(* it when it commits: it never undoes another's change (users.go:144).    *)
KeepsTheRest ==
  [][\A r \in Requests :
       At(r, "write") /\ req[r].cur # None /\ row' # row /\ At(r, "idle")' =>
         /\ req[r].role = None => row'[req[r].user].role = row[req[r].user].role
         /\ req[r].access = None =>
              row'[req[r].user].access = row[req[r].user].access]_vars

(* The row lock and the advisory lock are always taken in that order, and  *)
(* both end with the transaction: every request is answered in the end     *)
(* (users.go:86-98, 144-150).                                              *)
Answered == \A r \in Requests : ~At(r, "idle") ~> At(r, "idle")
=============================================================================
