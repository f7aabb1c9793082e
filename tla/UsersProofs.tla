---------------------------- MODULE UsersProofs ----------------------------
(***************************************************************************)
(* Proofs about the user accounts, for any users and requests.  The        *)
(* inductive invariant says what the two locks are for: a request that has *)
(* read a row still finds it so (RowInv), one that is about to make an     *)
(* admin has the slot to itself and there is no admin (SlotInv).  And a    *)
(* request that has the slot waits for nothing more (SlotLast).            *)
(***************************************************************************)
EXTENDS Users, TLAPS

(* The request inserts a user. *)
Creating(r) == req[r].pc \in {"slot", "count", "write"} /\ req[r].cur = None

(* The request turns somebody into an admin. *)
Promotes(r) == /\ req[r].role = "admin"
               /\ req[r].cur = None \/ req[r].cur.role # "admin"

NoAdmin == \A u \in Users : ~IsAdmin(u)

RowInv(r) ==
  /\ At(r, "get") => row[req[r].user] # None /\ req[r].cur = None
  /\ req[r].cur # None => row[req[r].user] = req[r].cur
  /\ Creating(r) => row[req[r].user] = None /\ req[r].role \in Roles

SlotInv(r) ==
  /\ At(r, "count") => req[r].slot
  /\ At(r, "write") /\ Promotes(r) => req[r].slot /\ NoAdmin

Apart(q, r) ==
  /\ ~(req[q].slot /\ req[r].slot)
  /\ req[q].cur # None /\ req[r].cur # None => req[q].user # req[r].user
  /\ Creating(q) /\ Creating(r) => req[q].user # req[r].user

IInv == /\ TypeOK
        /\ \A r \in Requests : RowInv(r) /\ SlotInv(r)
        /\ \A q, r \in Requests : q # r => Apart(q, r)
        /\ AtMostOneAdmin

(* A request is either idle or has a user. *)
LEMMA ReqFacts ==
  ASSUME TypeOK, NEW r \in Requests
  PROVE  /\ At(r, "idle") => req[r] = IdleReq
         /\ ~At(r, "idle") => req[r] \in ActiveReqs
  BY DEF TypeOK, At, IdleReq, ActiveReqs, Active

(* Before any request no row is locked and no slot held.                   *)
LEMMA InitIInv == Init => IInv
<1> SUFFICES ASSUME Init PROVE IInv
  OBVIOUS
<1>1. TypeOK
  BY DEF Init, TypeOK, Rows, Roles, Access
<1>2. \A r \in Requests : req[r] = IdleReq
  BY DEF Init
<1>3. \A r \in Requests : RowInv(r) /\ SlotInv(r)
  BY <1>2 DEF RowInv, SlotInv, At, Creating, IdleReq
<1>4. \A q, r \in Requests : Apart(q, r)
  BY <1>2 DEF Apart, Creating, IdleReq
<1>5. AtMostOneAdmin
  BY DEF Init, AtMostOneAdmin, IsAdmin
<1>6. QED
  BY <1>1, <1>3, <1>4, <1>5 DEF IInv

(* A step of one request that writes no row: what has to be shown is about *)
(* that request alone.                                                     *)
LEMMA OwnStep ==
  ASSUME IInv, NEW r \in Requests, row' = row,
         NEW new \in {IdleReq} \cup ActiveReqs, req' = [req EXCEPT ![r] = new],
         RowInv(r)', SlotInv(r)',
         \A q \in Requests : q # r => Apart(q, r)'
  PROVE  IInv'
<1>1. TypeOK'
  BY DEF IInv, TypeOK
<1>2. \A q \in Requests : q # r => req'[q] = req[q]
  BY DEF IInv, TypeOK
<1>3. \A q \in Requests : q # r => RowInv(q)' /\ SlotInv(q)'
  BY <1>2 DEF IInv, RowInv, SlotInv, At, Creating, Promotes, NoAdmin, IsAdmin
<1>4. \A p, q \in Requests : p # r /\ q # r /\ p # q => Apart(p, q)'
  BY <1>2 DEF IInv, Apart, Creating
<1>5. \A q \in Requests : q # r => Apart(r, q)'
  BY DEF Apart
<1>6. AtMostOneAdmin'
  BY DEF IInv, AtMostOneAdmin, IsAdmin
<1>7. QED
  BY <1>1, <1>3, <1>4, <1>5, <1>6 DEF IInv

(* An answer without a write: the request's transaction is forgotten. *)
LEMMA AnswerStep ==
  ASSUME IInv, NEW r \in Requests, Answer(r), row' = row
  PROVE  IInv'
<1>1. req' = [req EXCEPT ![r] = IdleReq] /\ req'[r] = IdleReq
  BY DEF Answer, IInv, TypeOK
<1>2. RowInv(r)' /\ SlotInv(r)'
  BY <1>1 DEF RowInv, SlotInv, At, Creating, IdleReq
<1>3. \A q \in Requests : q # r => Apart(q, r)'
  BY <1>1 DEF Apart, Creating, IdleReq
<1>4. QED
  BY <1>1, <1>2, <1>3, OwnStep

(* A request begins with no lock.                                          *)
LEMMA ArriveStep ==
  ASSUME IInv, NEW r \in Requests, Arrive(r)
  PROVE  IInv'
<1>1. ASSUME NEW u \in Users, NEW role \in Roles, Create(r, u, role)
      PROVE  IInv'
  <2> DEFINE new == [IdleReq EXCEPT !.pc = IF role = "admin" THEN "slot" ELSE "write",
                                    !.user = u, !.role = role, !.access = "enabled"]
  <2>1. /\ new \in ActiveReqs /\ new.user = u /\ new.role = role
        /\ new.cur = None /\ new.slot = FALSE /\ new.pc \in {"slot", "write"}
        /\ new.pc = "write" => role # "admin"
    BY DEF IdleReq, ActiveReqs, Active, Access
  <2>2. req' = [req EXCEPT ![r] = new] /\ row' = row /\ row[u] = None /\ ~Taken(u)
    BY <1>1 DEF Create
  <2>3. req'[r] = new
    BY <2>2 DEF IInv, TypeOK
  <2>4. RowInv(r)' /\ SlotInv(r)'
    BY <2>1, <2>2, <2>3 DEF RowInv, SlotInv, At, Creating, Promotes
  <2>5. ASSUME NEW q \in Requests, q # r PROVE Apart(q, r)'
    <3>1. req'[q] = req[q]
      BY <2>2, <2>5 DEF IInv, TypeOK
    <3>2. Creating(q) => req[q].user # u
      BY <2>2 DEF Taken, Creating
    <3>3. QED
      BY <2>1, <2>3, <3>1, <3>2 DEF Apart, Creating
  <2>6. QED
    BY <2>1, <2>2, <2>4, <2>5, OwnStep
<1>2. ASSUME NEW u \in Users, NEW role \in Roles \cup {None},
             NEW access \in Access \cup {None}, Update(r, u, role, access)
      PROVE  IInv'
  <2> DEFINE new == [IdleReq EXCEPT !.pc = "get", !.user = u, !.role = role,
                                    !.access = access]
  <2>1. /\ new \in ActiveReqs /\ new.user = u
        /\ new.cur = None /\ new.slot = FALSE /\ new.pc = "get"
    BY DEF IdleReq, ActiveReqs, Active
  <2>2. req' = [req EXCEPT ![r] = new] /\ row' = row /\ row[u] # None
    BY <1>2 DEF Update
  <2>3. req'[r] = new
    BY <2>2 DEF IInv, TypeOK
  <2>4. RowInv(r)' /\ SlotInv(r)'
    BY <2>1, <2>2, <2>3 DEF RowInv, SlotInv, At, Creating
  <2>5. \A q \in Requests : q # r => Apart(q, r)'
    BY <2>1, <2>3 DEF Apart, Creating
  <2>6. QED
    BY <2>1, <2>2, <2>4, <2>5, OwnStep
<1>3. QED
  BY <1>1, <1>2 DEF Arrive

(* A row is read with its lock, so it stays what was read.                 *)
LEMMA GetStep ==
  ASSUME IInv, NEW r \in Requests, GetForUpdate(r)
  PROVE  IInv'
<1> DEFINE u == req[r].user
           new == [req[r] EXCEPT !.cur = row[u],
                     !.pc = IF req[r].role = "admin" /\ row[u].role # "admin"
                            THEN "slot" ELSE "write"]
<1>1. /\ req[r] \in ActiveReqs /\ At(r, "get") /\ ~RowLocked(u) /\ row' = row
      /\ req' = [req EXCEPT ![r] = new]
  BY ReqFacts DEF GetForUpdate, LoadRow, IInv, At
<1>2. row[u] # None /\ row[u] \in Rows
  BY <1>1 DEF IInv, RowInv, TypeOK, ActiveReqs
<1>3. /\ new \in ActiveReqs /\ new.user = u /\ new.cur = row[u]
      /\ new.role = req[r].role /\ new.slot = req[r].slot
      /\ new.pc \in {"slot", "write"}
      /\ new.pc = "write" => new.role # "admin" \/ row[u].role = "admin"
  BY <1>1, <1>2 DEF ActiveReqs, Active
<1>4. req'[r] = new
  BY <1>1 DEF IInv, TypeOK
<1>5. RowInv(r)' /\ SlotInv(r)'
  BY <1>1, <1>2, <1>3, <1>4 DEF RowInv, SlotInv, At, Creating, Promotes
<1>6. ASSUME NEW q \in Requests, q # r PROVE Apart(q, r)'
  <2>1. req'[q] = req[q]
    BY <1>1, <1>6 DEF IInv, TypeOK
  <2>2. req[q].cur # None => req[q].user # u
    BY <1>1 DEF RowLocked
  <2>3. ~(req[q].slot /\ req[r].slot)
    BY <1>6 DEF IInv, Apart
  <2>4. QED
    BY <1>2, <1>3, <1>4, <2>1, <2>2, <2>3 DEF Apart, Creating
<1>7. QED
  BY <1>1, <1>3, <1>5, <1>6, OwnStep

(* The slot is taken when nobody has it.                                   *)
LEMMA SlotStep ==
  ASSUME IInv, NEW r \in Requests, AdminSlot(r)
  PROVE  IInv'
<1> DEFINE new == [req[r] EXCEPT !.pc = "count", !.slot = TRUE]
<1>1. /\ req[r] \in ActiveReqs /\ At(r, "slot") /\ row' = row
      /\ \A q \in Requests : ~req[q].slot
      /\ req' = [req EXCEPT ![r] = new]
  BY ReqFacts DEF AdminSlot, IInv, At
<1>2. /\ new \in ActiveReqs /\ new.user = req[r].user /\ new.cur = req[r].cur
      /\ new.role = req[r].role /\ new.slot /\ new.pc = "count"
  BY <1>1 DEF ActiveReqs, Active
<1>3. req'[r] = new
  BY <1>1 DEF IInv, TypeOK
<1>4. RowInv(r)' /\ SlotInv(r)'
  BY <1>1, <1>2, <1>3 DEF IInv, RowInv, SlotInv, At, Creating
<1>5. ASSUME NEW q \in Requests, q # r PROVE Apart(q, r)'
  <2>1. req'[q] = req[q]
    BY <1>1, <1>5 DEF IInv, TypeOK
  <2>2. QED
    BY <1>1, <1>2, <1>3, <1>5, <2>1 DEF IInv, Apart, Creating, At
<1>6. QED
  BY <1>1, <1>2, <1>4, <1>5, OwnStep

(* The count is made under the slot, so it stays true to the commit.       *)
LEMMA CountStep ==
  ASSUME IInv, NEW r \in Requests, CountAdmins(r)
  PROVE  IInv'
<1>1. CASE \E u \in Users : IsAdmin(u)
  BY <1>1, AnswerStep DEF CountAdmins
<1>2. CASE NoAdmin
  <2> DEFINE new == [req[r] EXCEPT !.pc = "write"]
  <2>1. /\ req[r] \in ActiveReqs /\ At(r, "count") /\ row' = row
        /\ req' = [req EXCEPT ![r] = new]
    BY <1>2, ReqFacts DEF CountAdmins, Send, IInv, At, NoAdmin
  <2>2. /\ new \in ActiveReqs /\ new.user = req[r].user /\ new.cur = req[r].cur
        /\ new.role = req[r].role /\ new.slot = req[r].slot /\ new.pc = "write"
    BY <2>1 DEF ActiveReqs, Active
  <2>3. req'[r] = new
    BY <2>1 DEF IInv, TypeOK
  <2>4. req[r].slot
    BY <2>1 DEF IInv, SlotInv
  <2>5. RowInv(r)'
    BY <2>1, <2>2, <2>3 DEF IInv, RowInv, At, Creating
  <2>6. SlotInv(r)'
    BY <1>2, <2>1, <2>2, <2>3, <2>4 DEF SlotInv, At, NoAdmin, IsAdmin
  <2>7. ASSUME NEW q \in Requests, q # r PROVE Apart(q, r)'
    <3>1. req'[q] = req[q]
      BY <2>1, <2>7 DEF IInv, TypeOK
    <3>2. QED
      BY <2>1, <2>2, <2>3, <2>7, <3>1 DEF IInv, Apart, Creating, At
  <2>8. QED
    BY <2>1, <2>2, <2>5, <2>6, <2>7, OwnStep
<1>3. QED
  BY <1>1, <1>2 DEF NoAdmin

-----------------------------------------------------------------------------
(* What a commit writes: the user's row, with what the request asked for   *)
(* and the rest as it is.  It makes an admin only of a request that has    *)
(* the slot; otherwise its user was one before or is none after.           *)
LEMMA Written ==
  ASSUME IInv, NEW r \in Requests, Write(r)
  PROVE  LET u == req[r].user IN
         /\ u \in Users /\ req[r] \in ActiveReqs /\ At(r, "write")
         /\ row'[u] \in Rows /\ row'[u] # None
         /\ \A v \in Users : v # u => row'[v] = row[v]
         /\ Promotes(r) \/ IsAdmin(u) \/ row'[u].role # "admin"
         /\ req[r].cur # None =>
              /\ req[r].cur = row[u]
              /\ row'[u] = [role |-> Asked(req[r].role, row[u].role),
                            access |-> Asked(req[r].access, row[u].access)]
<1> DEFINE u == req[r].user
<1>1. u \in Users /\ req[r] \in ActiveReqs /\ At(r, "write")
  BY ReqFacts DEF Write, At, IInv, ActiveReqs
<1>2. \A x \in Rows : x # None
  BY NoneAssumption
<1>3. \A v \in Users : v # u => row'[v] = row[v]
  BY DEF Write, IInv, TypeOK
<1>4. CASE req[r].cur = None
  <2>1. row'[u] = [role |-> req[r].role, access |-> "enabled"]
    BY <1>1, <1>4 DEF Write, IInv, TypeOK
  <2>2. req[r].role \in Roles
    BY <1>1, <1>4 DEF IInv, RowInv, Creating, At
  <2>3. row'[u] \in Rows
    BY <2>1, <2>2 DEF Rows, Access
  <2>4. Promotes(r) \/ row'[u].role # "admin"
    BY <1>1, <1>4, <2>1 DEF Promotes, IsAdmin
  <2>5. QED
    BY <1>1, <1>2, <1>3, <1>4, <2>3, <2>4
<1>5. CASE req[r].cur # None
  <2>1. req[r].cur = row[u] /\ row[u] \in Rows
    BY <1>1, <1>5 DEF IInv, RowInv, TypeOK
  <2>2. row'[u] = [role |-> Asked(req[r].role, row[u].role),
                   access |-> Asked(req[r].access, row[u].access)]
    BY <1>1, <1>5, <2>1 DEF Write, IInv, TypeOK
  <2>3. Asked(req[r].role, row[u].role) \in Roles
    BY <1>1, <2>1 DEF Asked, ActiveReqs, Rows
  <2>4. Asked(req[r].access, row[u].access) \in Access
    BY <1>1, <2>1 DEF Asked, ActiveReqs, Rows
  <2>5. row'[u] \in Rows
    BY <2>2, <2>3, <2>4 DEF Rows
  <2>6. Promotes(r) \/ IsAdmin(u) \/ row'[u].role # "admin"
    <3>1. CASE req[r].role = "admin"
      BY <1>2, <2>1, <3>1 DEF Promotes, IsAdmin
    <3>2. CASE req[r].role # "admin"
      <4>1. row'[u].role = req[r].role \/ row'[u].role = row[u].role
        BY <2>2 DEF Asked
      <4>2. QED
        BY <1>1, <1>2, <2>1, <3>2, <4>1 DEF IsAdmin
    <3>3. QED
      BY <3>1, <3>2
  <2>7. QED
    BY <1>1, <1>2, <1>3, <2>1, <2>2, <2>5, <2>6
<1>6. QED
  BY <1>4, <1>5

(* A write of an admin is made under the slot and after the count.         *)
LEMMA WriteStep ==
  ASSUME IInv, NEW r \in Requests, Write(r)
  PROVE  IInv'
<1> DEFINE u == req[r].user
<1>1. /\ u \in Users /\ req[r] \in ActiveReqs /\ At(r, "write")
      /\ row'[u] \in Rows /\ row'[u] # None
      /\ \A v \in Users : v # u => row'[v] = row[v]
      /\ Promotes(r) \/ IsAdmin(u) \/ row'[u].role # "admin"
      /\ req[r].cur # None => req[r].cur = row[u]
  BY Written
<1>2. /\ req' = [req EXCEPT ![r] = IdleReq] /\ req'[r] = IdleReq
      /\ \A q \in Requests : q # r => req'[q] = req[q]
  BY DEF Write, Answer, IInv, TypeOK
<1>3. TypeOK'
  <2>1. row' = [row EXCEPT ![u] = row'[u]]
    BY DEF Write, IInv, TypeOK
  <2>2. QED
    BY <1>1, <1>2, <2>1 DEF IInv, TypeOK
<1>4. Promotes(r) => req[r].slot /\ NoAdmin
  BY <1>1 DEF IInv, SlotInv
<1>5. AtMostOneAdmin'
  <2>1. CASE Promotes(r)
    BY <1>1, <1>4, <2>1 DEF AtMostOneAdmin, NoAdmin, IsAdmin
  <2>2. CASE ~Promotes(r)
    <3>1. \A v \in Users : IsAdmin(v)' => IsAdmin(v)
      BY <1>1, <2>2 DEF IsAdmin
    <3>2. QED
      BY <3>1 DEF IInv, AtMostOneAdmin
  <2>3. QED
    BY <2>1, <2>2
<1>6. RowInv(r)' /\ SlotInv(r)'
  BY <1>2 DEF RowInv, SlotInv, At, Creating, IdleReq
<1>7. ASSUME NEW q \in Requests, q # r PROVE RowInv(q)' /\ SlotInv(q)'
  <2> USE <1>7
  <2>1. RowInv(q) /\ SlotInv(q) /\ Apart(q, r)
    BY DEF IInv
  <2>2. req[q].cur # None => req[q].user # u
    <3>1. CASE req[r].cur # None
      BY <2>1, <3>1 DEF Apart
    <3>2. CASE req[r].cur = None
      <4>1. row[u] = None
        BY <1>1, <3>2 DEF IInv, RowInv, Creating, At
      <4>2. QED
        BY <2>1, <4>1 DEF RowInv
    <3>3. QED
      BY <3>1, <3>2
  <2>3. Creating(q) => req[q].user # u
    <3>1. CASE req[r].cur # None
      BY <1>1, <2>1, <3>1 DEF RowInv
    <3>2. CASE req[r].cur = None
      BY <1>1, <2>1, <3>2 DEF Apart, Creating, At
    <3>3. QED
      BY <3>1, <3>2
  <2>4. ~At(q, "idle") => req[q].user \in Users
    BY ReqFacts DEF IInv, ActiveReqs
  <2>5. RowInv(q)'
    <3>1. At(q, "get") => row'[req[q].user] # None /\ req[q].cur = None
      BY <1>1, <2>1, <2>4 DEF RowInv, At
    <3>2. req[q].cur # None => ~At(q, "idle")
      BY ReqFacts DEF IInv, IdleReq
    <3>3. req[q].cur # None => row'[req[q].user] = req[q].cur
      BY <1>1, <2>1, <2>2, <2>4, <3>2 DEF RowInv
    <3>4. Creating(q) => row'[req[q].user] = None /\ req[q].role \in Roles
      BY <1>1, <2>1, <2>3, <2>4 DEF RowInv, Creating, At
    <3>5. QED
      BY <1>2, <3>1, <3>3, <3>4 DEF RowInv, Creating, At
  <2>6. ASSUME At(q, "write"), Promotes(q) PROVE NoAdmin'
    <3>1. req[q].slot /\ NoAdmin
      BY <2>1, <2>6 DEF SlotInv
    <3>2. ~Promotes(r)
      BY <1>4, <2>1, <3>1 DEF Apart
    <3>3. \A v \in Users : IsAdmin(v)' => IsAdmin(v)
      BY <1>1, <3>2 DEF IsAdmin
    <3>4. QED
      BY <3>1, <3>3 DEF NoAdmin
  <2>7. SlotInv(q)'
    BY <1>2, <2>1, <2>6 DEF SlotInv, At, Promotes
  <2>8. QED
    BY <2>5, <2>7
<1>8. \A p, q \in Requests : p # q => Apart(p, q)'
  BY <1>2 DEF IInv, Apart, Creating, IdleReq
<1>9. QED
  BY <1>3, <1>5, <1>6, <1>7, <1>8 DEF IInv

(* Every step keeps the invariant.                                         *)
LEMMA NextIInv == IInv /\ [Next]_vars => IInv'
<1> SUFFICES ASSUME IInv, [Next]_vars PROVE IInv'
  OBVIOUS
<1>1. ASSUME NEW r \in Requests, Arrive(r) \/ Run(r) \/ Fail(r) PROVE IInv'
  BY <1>1, ArriveStep, GetStep, SlotStep, CountStep, WriteStep, AnswerStep
  DEF Run, Fail
<1>2. CASE UNCHANGED vars
  BY <1>2 DEF vars, IInv, TypeOK, RowInv, SlotInv, Apart, AtMostOneAdmin, At,
              Creating, Promotes, NoAdmin, IsAdmin
<1>3. QED
  BY <1>1, <1>2 DEF Next

(* There is never a second admin, for any users and any number of          *)
(* concurrent requests (users.go:86-98).                                   *)
THEOREM OneAdmin == Spec => []AtMostOneAdmin
<1>1. IInv => AtMostOneAdmin
  BY DEF IInv
<1>2. QED
  BY <1>1, InitIInv, NextIInv, PTL DEF Spec

(* The type invariant (users.go), for any users and requests. *)
THEOREM TypeCorrect == Spec => []TypeOK
<1>1. IInv => TypeOK
  BY DEF IInv
<1>2. QED
  BY <1>1, InitIInv, NextIInv, PTL DEF Spec

(* A PATCH never undoes what another has changed (users.go:144-204).       *)
THEOREM NoLostUpdate == Spec => KeepsTheRest
<1> DEFINE Kept(r) ==
      At(r, "write") /\ req[r].cur # None /\ row' # row /\ At(r, "idle")' =>
        /\ req[r].role = None => row'[req[r].user].role = row[req[r].user].role
        /\ req[r].access = None =>
             row'[req[r].user].access = row[req[r].user].access
<1>1. ASSUME IInv, Next, NEW r \in Requests PROVE Kept(r)
  <2> SUFFICES ASSUME At(r, "write"), req[r].cur # None, row' # row, At(r, "idle")'
               PROVE  Kept(r)
    OBVIOUS
  <2>1. PICK q \in Requests : Write(q)
    BY <1>1 DEF Next, Arrive, Create, Update, Run, Fail, GetForUpdate, AdminSlot,
                CountAdmins
  <2>2. q = r
    BY <1>1, <2>1 DEF Write, Answer, IInv, TypeOK, At
  <2>3. row'[req[r].user] = [role |-> Asked(req[r].role, row[req[r].user].role),
                             access |-> Asked(req[r].access, row[req[r].user].access)]
    BY <1>1, <2>1, <2>2, Written
  <2>4. QED
    BY <2>3 DEF Asked
<1>2. ASSUME IInv, [Next]_vars PROVE [\A r \in Requests : Kept(r)]_vars
  BY <1>1, <1>2
<1>3. QED
  BY <1>2, InitIInv, NextIInv, PTL DEF Spec, KeepsTheRest

-----------------------------------------------------------------------------
(* The next statement of the request blocks on a lock: a row's, or that of *)
(* the admin slot.                                                         *)
Waits(r) == \/ At(r, "get") /\ RowLocked(req[r].user)
            \/ At(r, "slot") /\ \E q \in Requests : req[q].slot

NoCircularWait ==
  (\E r \in Requests : ~At(r, "idle")) =>
     \E r \in Requests : ~At(r, "idle") /\ ~Waits(r)

(* Nothing is waited for once the admin slot is held: a promotion locks    *)
(* its row before it.                                                      *)
SlotLast == \A r \in Requests : req[r].slot => At(r, "count") \/ At(r, "write")

(* The slot comes after everything a request can wait for.                 *)
LEMMA SlotLastStep == TypeOK /\ SlotLast /\ [Next]_vars => SlotLast'
<1> SUFFICES ASSUME TypeOK, SlotLast, [Next]_vars PROVE SlotLast'
  OBVIOUS
<1>1. CASE UNCHANGED vars
  BY <1>1 DEF SlotLast, At, vars
<1>2. ASSUME NEW r \in Requests, Arrive(r) \/ Run(r) \/ Fail(r)
      PROVE  SlotLast'
  <2>1. req' = [req EXCEPT ![r] = req'[r]]
    BY <1>2 DEF Arrive, Create, Update, Run, AdminSlot, GetForUpdate, LoadRow,
                CountAdmins, Write, Fail, Answer, Send, TypeOK
  <2>2. req'[r].slot => req'[r].pc \in {"count", "write"}
    <3>1. CASE Arrive(r)
      <4>1. PICK u \in Users :
              \/ \E role \in Roles : Create(r, u, role)
              \/ \E role \in Roles \cup {None}, access \in Access \cup {None} :
                   Update(r, u, role, access)
        BY <3>1 DEF Arrive
      <4>2. ASSUME NEW role \in Roles, Create(r, u, role)
            PROVE  req'[r].slot = FALSE
        BY <4>2 DEF Create, TypeOK, IdleReq
      <4>3. ASSUME NEW role \in Roles \cup {None}, NEW access \in Access \cup {None},
                   Update(r, u, role, access)
            PROVE  req'[r].slot = FALSE
        BY <4>3 DEF Update, TypeOK, IdleReq
      <4>4. QED
        BY <4>1, <4>2, <4>3
    <3>2. CASE Fail(r) \/ Write(r)
      BY <3>2 DEF Write, Fail, Answer, IdleReq, TypeOK
    <3>3. CASE AdminSlot(r) \/ GetForUpdate(r) \/ CountAdmins(r)
      <4>1. req[r] \in ActiveReqs
        BY <3>3, ReqFacts DEF AdminSlot, GetForUpdate, CountAdmins, At
      <4>2. QED
        BY <3>3, <4>1 DEF AdminSlot, GetForUpdate, LoadRow, CountAdmins, Answer, Send,
                          At, SlotLast, IdleReq, ActiveReqs, TypeOK
    <3>4. QED
      BY <1>2, <3>1, <3>2, <3>3 DEF Run
  <2>3. \A q \in Requests \ {r} : req'[q] = req[q]
    BY <2>1 DEF TypeOK
  <2>4. QED
    BY <2>2, <2>3 DEF SlotLast, At
<1>3. QED
  BY <1>1, <1>2 DEF Next

(* The row lock and the advisory lock are always taken in that order: while*)
(* requests are busy, the next statement of one of them waits for nothing  *)
(* (users.go:86-98, 144-150).                                              *)
THEOREM NoDeadlock == Spec => []NoCircularWait
<1>1. Init => SlotLast
  BY DEF Init, SlotLast, IdleReq
<1>2. IInv /\ SlotLast => NoCircularWait
  <2> SUFFICES ASSUME IInv, SlotLast, NEW r \in Requests, ~At(r, "idle")
               PROVE  \E q \in Requests : ~At(q, "idle") /\ ~Waits(q)
    BY DEF NoCircularWait
  <2>1. CASE \E q \in Requests : req[q].slot
    BY <2>1 DEF SlotLast, At, Waits
  <2>2. CASE /\ \A q \in Requests : ~req[q].slot
             /\ \E q \in Requests : req[q].cur # None
    <3>1. PICK q \in Requests : req[q].cur # None
      BY <2>2
    <3>2. ~At(q, "get") /\ ~At(q, "idle")
      BY <3>1, ReqFacts DEF IInv, RowInv, IdleReq
    <3>3. QED
      BY <2>2, <3>2 DEF Waits
  <2>3. CASE /\ \A q \in Requests : ~req[q].slot
             /\ \A q \in Requests : req[q].cur = None
    BY <2>3 DEF Waits, RowLocked
  <2>4. QED
    BY <2>1, <2>2, <2>3
<1>3. IInv => TypeOK
  BY DEF IInv
<1>4. QED
  BY <1>1, <1>2, <1>3, InitIInv, NextIInv, SlotLastStep, PTL DEF Spec
=============================================================================
