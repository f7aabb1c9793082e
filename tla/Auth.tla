-------------------------------- MODULE Auth --------------------------------
(***************************************************************************)
(* One account of the API: password login with its lockout, the second     *)
(* factor (TOTP), sessions, and the admin's hand on it.  Every statement   *)
(* of the code names one user by id, so accounts share nothing             *)
(* (services/api/internal/httpapi/auth.go, totp.go, store/users.go,        *)
(* internal/authkit).                                                      *)
(*                                                                         *)
(* One SQL statement is one step; what a handler decides from the row it   *)
(* has read goes with the read.  Nothing locks the row between two steps.  *)
(* A password is right or wrong against the row read; a code is the secret *)
(* it was computed from; time is the three expiries.                       *)
(***************************************************************************)
EXTENDS Naturals, FiniteSets

CONSTANTS Requests,        \* requests that may be in progress at once
          Tokens,          \* bound: sessions that may exist at once
          Secrets,         \* TOTP secrets
          MaxFailedLogins, \* maxFailedLogins of auth.go
          RequireAdmin2FA, \* the server's policy
          None

VARIABLES account,   \* the users row
          session,   \* session[t]: what earned it, "password" or "code"; or None
          pending,   \* a signed token of a login that waits for its code is valid
          req,       \* req[r]: a request, its next statement, its locals
          misses,    \* failures recorded since the last lock, success or reset
          confirmed, \* the secret the last enrolment was confirmed with
          overtaken  \* a new secret was written under an enrolment about to end

vars == <<account, session, pending, req, misses, confirmed, overtaken>>
ghosts == <<misses, confirmed, overtaken>>

ASSUME ConstantsAssumption ==
  /\ IsFiniteSet(Requests)
  /\ MaxFailedLogins \in Nat \ {0}
  /\ RequireAdmin2FA \in BOOLEAN
  /\ None \notin Secrets \cup {"password", "code"}

Accounts == [failed : 0 .. MaxFailedLogins - 1, locked : BOOLEAN,
             secret : Secrets \cup {None}, totp : BOOLEAN,
             admin : BOOLEAN, disabled : BOOLEAN]

Idle == [pc |-> "idle"]
Fails == [pc : {"fail"}, failed : 0 .. MaxFailedLogins - 1]
Grants == [pc : {"reset", "insert"}, grants : {"password", "code", "pending"}]
Setups == [pc : {"setup"}]
Enables == [pc : {"reload", "enable"}, token : Tokens, admin : BOOLEAN, code : Secrets]
Drops == [pc : {"drop"}, token : Tokens]
Serves == [pc : {"serve"}, admin : BOOLEAN]

TypeOK ==
  /\ account \in Accounts
  /\ session \in [Tokens -> {None, "password", "code"}]
  /\ pending \in BOOLEAN
  /\ req \in [Requests -> {Idle} \cup Fails \cup Grants \cup Setups \cup Enables
                            \cup Drops \cup Serves]
  /\ misses \in Nat
  /\ confirmed \in Secrets \cup {None}
  /\ overtaken \in BOOLEAN

(* An account an admin has created, or the seed's, whose admin is enrolled *)
(* from the start.                                                         *)
Fresh(admin, secret) ==
  [failed |-> 0, locked |-> FALSE, secret |-> secret, totp |-> secret # None,
   admin |-> admin, disabled |-> FALSE]

Init ==
  /\ \/ \E admin \in BOOLEAN : account = Fresh(admin, None) /\ confirmed = None
     \/ \E s \in Secrets : account = Fresh(TRUE, s) /\ confirmed = s
  /\ session = [t \in Tokens |-> None]
  /\ pending = FALSE
  /\ req = [r \in Requests |-> Idle]
  /\ misses = 0 /\ overtaken = FALSE

At(r, pc) == req[r].pc = pc
Send(r, statement) == req' = [req EXCEPT ![r] = statement]

-----------------------------------------------------------------------------
(* A request begins: the row is read, and the handler decides. *)

(* Mutant: the second factor is not asked for.                             *)
LoginWithoutCode(r, right) ==
  /\ At(r, "idle")
  /\ ~account.disabled /\ ~account.locked
  /\ Send(r, IF right THEN [pc |-> "reset", grants |-> "password"]
                      ELSE [pc |-> "fail", failed |-> account.failed])
  /\ UNCHANGED <<account, session, pending, ghosts>>

(* handleLogin, up to its first UPDATE. *)
Login(r, right) ==
  /\ At(r, "idle")
  /\ ~account.disabled /\ ~account.locked
  /\ IF right
     THEN Send(r, [pc |-> "reset",
                   grants |-> IF account.totp THEN "pending" ELSE "password"])
     ELSE Send(r, [pc |-> "fail", failed |-> account.failed])
  /\ UNCHANGED <<account, session, pending, ghosts>>

(* A code is of the account's secret, if it has one. *)
Validates(code) == code = account.secret

(* Mutant: the lock is for passwords only.                                 *)
VerifyLockedToo(r, code) ==
  /\ At(r, "idle") /\ pending
  /\ account.totp
  /\ Send(r, IF Validates(code) THEN [pc |-> "reset", grants |-> "code"]
                                ELSE [pc |-> "fail", failed |-> account.failed])
  /\ UNCHANGED <<account, session, pending, ghosts>>

(* handleTOTPVerify; lookupUserByID does not say whether the account is    *)
(* disabled.                                                               *)
Verify(r, code) ==
  /\ At(r, "idle") /\ pending
  /\ ~account.locked /\ account.totp
  /\ Send(r, IF Validates(code) THEN [pc |-> "reset", grants |-> "code"]
                                ELSE [pc |-> "fail", failed |-> account.failed])
  /\ UNCHANGED <<account, session, pending, ghosts>>

(* RequireSession: the session's row, and the user's; all routes but those *)
(* of the enrolment are closed to an admin who has not enrolled.           *)
Admitted(t) == session[t] # None /\ ~account.disabled
adminTOTPSetupRequired == RequireAdmin2FA /\ account.admin /\ ~account.totp

Serve(r, t) ==
  /\ At(r, "idle") /\ Admitted(t)
  /\ ~adminTOTPSetupRequired
  /\ Send(r, [pc |-> "serve", admin |-> account.admin])
  /\ UNCHANGED <<account, session, pending, ghosts>>

Setup(r, t) ==
  /\ At(r, "idle") /\ Admitted(t)
  /\ ~account.totp
  /\ Send(r, [pc |-> "setup"])
  /\ UNCHANGED <<account, session, pending, ghosts>>

Enable(r, t, code) ==
  /\ At(r, "idle") /\ Admitted(t)
  /\ ~account.totp
  /\ Send(r, [pc |-> "reload", token |-> t, admin |-> account.admin, code |-> code])
  /\ UNCHANGED <<account, session, pending, ghosts>>

Logout(r, t) ==
  /\ At(r, "idle")
  /\ session' = [session EXCEPT ![t] = None]
  /\ UNCHANGED <<account, pending, req, ghosts>>

-----------------------------------------------------------------------------
(* Its statements. *)

(* Mutant: one failure too many.                                           *)
RecordLate(r) ==
  /\ At(r, "fail")
  /\ LET failed == req[r].failed + 1
         locks == failed > MaxFailedLogins IN
     /\ account' = [account EXCEPT !.failed = IF locks THEN 0 ELSE failed,
                                   !.locked = locks]
     /\ misses' = IF locks THEN 0 ELSE misses + 1
  /\ Send(r, Idle)
  /\ UNCHANGED <<session, pending, confirmed, overtaken>>

(* recordFailedLogin writes one more than the request has read, and a      *)
(* lock, or NULL where there was one.                                      *)
RecordFailure(r) ==
  /\ At(r, "fail")
  /\ LET failed == req[r].failed + 1
         locks == failed >= MaxFailedLogins IN
     /\ account' = [account EXCEPT !.failed = IF locks THEN 0 ELSE failed,
                                   !.locked = locks]
     /\ misses' = IF locks THEN 0 ELSE misses + 1
  /\ Send(r, Idle)
  /\ UNCHANGED <<session, pending, confirmed, overtaken>>

(* resetFailedLogin, and for a login that needs a code its pending token.  *)
ResetFailed(r) ==
  /\ At(r, "reset")
  /\ account' = [account EXCEPT !.failed = 0, !.locked = FALSE]
  /\ misses' = 0
  /\ IF req[r].grants = "pending"
     THEN pending' = TRUE /\ Send(r, Idle)
     ELSE Send(r, [req[r] EXCEPT !.pc = "insert"]) /\ UNCHANGED pending
  /\ UNCHANGED <<session, confirmed, overtaken>>

(* A new token is nobody's cookie yet. *)
Holds(r, t) == (At(r, "reload") \/ At(r, "enable") \/ At(r, "drop")) /\ req[r].token = t
Unused(t) == session[t] = None /\ ~\E r \in Requests : Holds(r, t)

InsertSession(r, t) ==
  /\ At(r, "insert") /\ Unused(t)
  /\ session' = [session EXCEPT ![t] = req[r].grants]
  /\ Send(r, Idle)
  /\ UNCHANGED <<account, pending, ghosts>>

WriteSecret(r, s) ==
  /\ At(r, "setup")
  /\ account' = [account EXCEPT !.secret = s, !.totp = FALSE]
  /\ overtaken' = \E q \in Requests : At(q, "enable")
  /\ Send(r, Idle)
  /\ UNCHANGED <<session, pending, misses, confirmed>>

(* Mutant: the code is not compared with the secret just read.             *)
AnyCode(r) ==
  /\ At(r, "reload") /\ account.secret # None
  /\ Send(r, [req[r] EXCEPT !.pc = "enable"])
  /\ UNCHANGED <<account, session, pending, ghosts>>

(* handleTOTPEnable reads the row again for the secret. *)
CheckCode(r) ==
  /\ At(r, "reload")
  /\ IF Validates(req[r].code) THEN Send(r, [req[r] EXCEPT !.pc = "enable"])
                               ELSE Send(r, Idle)
  /\ UNCHANGED <<account, session, pending, ghosts>>

WriteEnabled(r) ==
  /\ At(r, "enable")
  /\ account' = [account EXCEPT !.totp = TRUE]
  /\ confirmed' = req[r].code
  /\ Send(r, IF req[r].admin THEN [pc |-> "drop", token |-> req[r].token] ELSE Idle)
  /\ UNCHANGED <<session, pending, misses, overtaken>>

(* clearSessionCookie: the admin's enrolment session goes. *)
DropSession(r) ==
  /\ At(r, "drop")
  /\ session' = [session EXCEPT ![req[r].token] = None]
  /\ Send(r, Idle)
  /\ UNCHANGED <<account, pending, ghosts>>

(* The answer of a request in service; or a statement fails, the client    *)
(* leaves, the API dies.                                                   *)
Ends(r) ==
  /\ ~At(r, "idle")
  /\ Send(r, Idle)
  /\ UNCHANGED <<account, session, pending, ghosts>>

-----------------------------------------------------------------------------
(* An admin, and time. *)
ResetPassword ==
  /\ account' = [account EXCEPT !.failed = 0, !.locked = FALSE]
  /\ misses' = 0
  /\ UNCHANGED <<session, pending, req, confirmed, overtaken>>

PatchUser(admin, disabled) ==
  /\ account' = [account EXCEPT !.admin = admin, !.disabled = disabled]
  /\ UNCHANGED <<session, pending, req, ghosts>>

LockExpires ==
  /\ account.locked
  /\ account' = [account EXCEPT !.locked = FALSE]
  /\ UNCHANGED <<session, pending, req, ghosts>>

SessionExpires(t) ==
  /\ session[t] # None
  /\ session' = [session EXCEPT ![t] = None]
  /\ UNCHANGED <<account, pending, req, ghosts>>

PendingExpires ==
  /\ pending
  /\ pending' = FALSE
  /\ UNCHANGED <<account, session, req, ghosts>>

-----------------------------------------------------------------------------
Begin(r) ==
  \/ \E right \in BOOLEAN : Login(r, right)
  \/ \E code \in Secrets : Verify(r, code)
  \/ \E t \in Tokens : \/ Serve(r, t) \/ Setup(r, t) \/ Logout(r, t)
                       \/ \E code \in Secrets : Enable(r, t, code)

Statement(r) ==
  \/ RecordFailure(r) \/ ResetFailed(r)
  \/ \E t \in Tokens : InsertSession(r, t)
  \/ \E s \in Secrets : WriteSecret(r, s)
  \/ CheckCode(r) \/ WriteEnabled(r) \/ DropSession(r)
  \/ Ends(r)

Next ==
  \/ \E r \in Requests : Begin(r) \/ Statement(r)
  \/ ResetPassword
  \/ \E admin, disabled \in BOOLEAN : PatchUser(admin, disabled)
  \/ LockExpires \/ PendingExpires
  \/ \E t \in Tokens : SessionExpires(t)

Spec == Init /\ [][Next]_vars

-----------------------------------------------------------------------------
(* A confirmed enrolment stays.  Once TOTP is on, and no setup and no      *)
(* password login that were admitted before are left, it stays on with its *)
(* secret, and no session is opened with a password alone, whatever comes  *)
(* (auth.go:244-253, totp.go:31).                                          *)
PasswordOnly(r) == (At(r, "reset") \/ At(r, "insert")) /\ req[r].grants = "password"
Enrolled == account.totp /\ \A r \in Requests : ~At(r, "setup") /\ ~PasswordOnly(r)
PasswordSessions == {t \in Tokens : session[t] = "password"}

EnrolmentHolds == [][Enrolled => /\ Enrolled'
                                 /\ account'.secret = account.secret
                                 /\ PasswordSessions' \subseteq PasswordSessions]_vars

(* Nothing counts for a second factor that the user has not shown a code   *)
(* of.  TOTP is on only with a secret a code was shown of, but where a     *)
(* setup of another tab replaced the secret between the check and the      *)
(* write of an enrolment; under the policy, an admin is served anything    *)
(* but the enrolment only on an account that a code was shown for, however *)
(* roles and requests change meanwhile (totp.go:79-99, auth.go:335-364).   *)
TotpConfirmed ==
  /\ account.totp => account.secret = confirmed \/ overtaken
  /\ \A r \in Requests :
       RequireAdmin2FA /\ At(r, "serve") /\ req[r].admin => confirmed # None

(* A lock holds.  Once every request that read the account before the lock *)
(* has ended, only its end and an admin lift it: neither passwords nor     *)
(* codes, right or wrong (auth.go:228, totp.go:160).                       *)
Held == account.locked /\ \A r \in Requests : ~At(r, "fail") /\ ~At(r, "reset")

LockHolds == [][Held => Held' \/ LockExpires \/ ResetPassword]_vars

(* The lock comes, however late: of N requests that fail at once the count *)
(* keeps what the last one read, so each of the others can take it back,   *)
(* but never so often that wrong attempts go on for ever (auth.go:435-446; *)
(* docs/superpowers/plans/notes/jalon-b-acceptance.md:66 has five).  A     *)
(* standing says of each count how many requests know of fewer failures;   *)
(* no miss leads back to one that has been, and there are                  *)
(* choose(MaxFailedLogins - 1 + N, N).                                     *)
Standings ==
  {s \in [1 .. MaxFailedLogins - 1 -> 0 .. Cardinality(Requests)] :
     \A x, y \in DOMAIN s : x <= y => s[x] <= s[y]}

LockComes == misses < Cardinality(Standings)
=============================================================================
