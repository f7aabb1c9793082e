----------------------------- MODULE AuthProofs -----------------------------
(***************************************************************************)
(* Proofs about one account of the API, for any number of requests,        *)
(* sessions, secrets and any limit of failures.  CodeChecked is what makes *)
(* a confirmed secret more than the moment it was confirmed at: an         *)
(* enrolment between its check and its write has shown a code of the       *)
(* secret in the row, or that secret was replaced under it.  MissesCounted *)
(* is what makes the lock come: no wrong attempt leads back to a standing  *)
(* of the requests that has been, and there are finitely many.             *)
(***************************************************************************)
EXTENDS Auth, FiniteSetTheorems, TLAPS

CodeChecked == \A r \in Requests :
  At(r, "enable") => account.secret = req[r].code \/ overtaken

(* A pending token is not a session. *)
Insertable == \A r \in Requests : At(r, "insert") => req[r].grants # "pending"

IInv == TypeOK /\ Insertable /\ CodeChecked /\ TotpConfirmed
        /\ (account.totp => confirmed # None)

ReqTypes == {Idle} \cup Fails \cup Grants \cup Setups \cup Enables \cup Drops \cup Serves

(* What a request's record looks like, from its pc. *)
LEMMA ReqFacts ==
  ASSUME TypeOK, NEW r \in Requests
  PROVE  /\ At(r, "idle") => req[r] = Idle
         /\ At(r, "fail") => req[r] \in Fails
         /\ At(r, "reset") \/ At(r, "insert") => req[r] \in Grants
         /\ At(r, "setup") => req[r] \in Setups
         /\ At(r, "reload") \/ At(r, "enable") => req[r] \in Enables
         /\ At(r, "drop") => req[r] \in Drops
         /\ At(r, "serve") => req[r] \in Serves
  BY DEF TypeOK, At, Idle, Fails, Grants, Setups, Enables, Drops, Serves

(* A counter that is reset is in range.                                    *)
LEMMA ZeroFails == 0 \in 0 .. MaxFailedLogins - 1
  BY ConstantsAssumption

(* An account as an admin creates it has TOTP exactly when it has a secret.*)
LEMMA FreshType ==
  ASSUME NEW admin \in BOOLEAN, NEW s \in Secrets \cup {None}
  PROVE  /\ Fresh(admin, s) \in Accounts
         /\ Fresh(admin, s).secret = s /\ (Fresh(admin, s).totp <=> s # None)
<1>1. (s # None) \in BOOLEAN
  OBVIOUS
<1>2. QED
  BY <1>1, ZeroFails DEF Fresh, Accounts

(* Before any request only the seed's admin has TOTP, and it is confirmed. *)
LEMMA InitIInv == Init => IInv
<1> SUFFICES ASSUME Init PROVE IInv
  OBVIOUS
<1>1. \A r \in Requests : req[r] = Idle
  BY DEF Init
<1>2. PICK admin \in BOOLEAN, s \in Secrets \cup {None} :
        account = Fresh(admin, s) /\ confirmed = s
  BY DEF Init
<1>3. TypeOK
  BY <1>1, <1>2, FreshType DEF Init, TypeOK
<1>4. account.totp => account.secret = confirmed /\ confirmed # None
  BY <1>2, FreshType
<1>5. QED
  BY <1>1, <1>3, <1>4 DEF IInv, Insertable, CodeChecked, TotpConfirmed, At, Idle

-----------------------------------------------------------------------------
(* A step that touches neither the second factor nor the account's shape,  *)
(* and sends nothing that claims something of them.                        *)
LEMMA SendStep ==
  ASSUME IInv, NEW r \in Requests, NEW s \in ReqTypes, Send(r, s),
         account' \in Accounts, account'.totp = account.totp,
         account'.secret = account.secret,
         session' \in [Tokens -> {None, "password", "code"}], pending' \in BOOLEAN,
         misses' \in Nat, UNCHANGED <<confirmed, overtaken>>,
         s.pc = "insert" => s.grants # "pending",
         s.pc = "enable" => account.secret = s.code \/ overtaken,
         s.pc = "serve" => (RequireAdmin2FA /\ s.admin => confirmed # None)
  PROVE  IInv'
<1>1. req' = [req EXCEPT ![r] = s]
  BY DEF Send
<1>2. req \in [Requests -> ReqTypes]
  BY DEF IInv, TypeOK, ReqTypes
<1>3. TypeOK'
  BY <1>1, <1>2 DEF IInv, TypeOK, ReqTypes
<1>4. \A q \in Requests : req'[q] = IF q = r THEN s ELSE req[q]
  BY <1>1, <1>2
<1>5. QED
  BY <1>3, <1>4 DEF IInv, Insertable, CodeChecked, TotpConfirmed, At

(* The steps of an admin, of time and of Logout send nothing. *)
LEMMA OutsideStep ==
  ASSUME IInv, UNCHANGED <<req, confirmed, overtaken>>,
         account' \in Accounts, account'.totp = account.totp,
         account'.secret = account.secret,
         session' \in [Tokens -> {None, "password", "code"}], pending' \in BOOLEAN,
         misses' \in Nat
  PROVE  IInv'
  BY DEF IInv, TypeOK, Insertable, CodeChecked, TotpConfirmed, At

(* A login only reads the row and decides what to write.                   *)
LEMMA LoginStep ==
  ASSUME IInv, NEW r \in Requests, NEW right \in BOOLEAN, Login(r, right)
  PROVE  IInv'
<1>1. PICK s \in Grants \cup Fails : Send(r, s) /\ s.pc \in {"reset", "fail"}
  BY DEF Login, Grants, Fails, IInv, TypeOK, Accounts
<1>2. s \in ReqTypes
  BY <1>1 DEF ReqTypes
<1>3. QED
  BY <1>1, <1>2, SendStep DEF Login, ghosts, IInv, TypeOK

(* So does a verification; it starts nothing without a pending login.      *)
LEMMA VerifyStep ==
  ASSUME IInv, NEW r \in Requests, NEW code \in Secrets, Verify(r, code)
  PROVE  IInv'
<1>1. PICK s \in Grants \cup Fails : Send(r, s) /\ s.pc \in {"reset", "fail"}
  BY DEF Verify, Grants, Fails, IInv, TypeOK, Accounts
<1>2. s \in ReqTypes
  BY <1>1 DEF ReqTypes
<1>3. QED
  BY <1>1, <1>2, SendStep DEF Verify, ghosts, IInv, TypeOK

(* Whoever the session admits, an admin is served on an enrolled account. *)
LEMMA ServeStep ==
  ASSUME IInv, NEW r \in Requests, NEW t \in Tokens, Serve(r, t)
  PROVE  IInv'
<1> DEFINE s == [pc |-> "serve", admin |-> account.admin]
<1>1. s \in ReqTypes /\ s.pc = "serve" /\ s.admin = account.admin
  BY DEF ReqTypes, Serves, IInv, TypeOK, Accounts
<1>2. RequireAdmin2FA /\ s.admin => confirmed # None
  BY <1>1 DEF Serve, adminTOTPSetupRequired, IInv
<1>3. Send(r, s)
  BY DEF Serve
<1>4. QED
  BY <1>1, <1>2, <1>3, SendStep DEF Serve, ghosts, IInv, TypeOK

(* A setup is admitted while TOTP is off.                                  *)
LEMMA SetupStep ==
  ASSUME IInv, NEW r \in Requests, NEW t \in Tokens, Setup(r, t)
  PROVE  IInv'
<1>1. [pc |-> "setup"] \in ReqTypes
  BY DEF ReqTypes, Setups
<1>2. QED
  BY <1>1, SendStep DEF Setup, ghosts, IInv, TypeOK

(* An enrolment carries the code it was sent, not checked yet.             *)
LEMMA EnableStep ==
  ASSUME IInv, NEW r \in Requests, NEW t \in Tokens, NEW code \in Secrets, Enable(r, t, code)
  PROVE  IInv'
<1> DEFINE s == [pc |-> "reload", token |-> t, admin |-> account.admin, code |-> code]
<1>1. s \in ReqTypes /\ s.pc = "reload"
  BY DEF ReqTypes, Enables, IInv, TypeOK, Accounts
<1>2. Send(r, s)
  BY DEF Enable
<1>3. QED
  BY <1>1, <1>2, SendStep DEF Enable, ghosts, IInv, TypeOK

-----------------------------------------------------------------------------
(* A request that has ended is idle.                                       *)
LEMMA IdleType == Idle \in ReqTypes /\ Idle.pc = "idle"
  BY DEF ReqTypes, Idle

(* A failure keeps the counter below the limit: it locks and starts over.  *)
LEMMA RecordStep ==
  ASSUME IInv, NEW r \in Requests, RecordFailure(r)
  PROVE  IInv'
<1>1. req[r].failed \in 0 .. MaxFailedLogins - 1
  BY ReqFacts DEF RecordFailure, IInv, Fails
<1> DEFINE failed == req[r].failed + 1
           locks == failed >= MaxFailedLogins
<1>2. account' = [account EXCEPT !.failed = IF locks THEN 0 ELSE failed, !.locked = locks]
  BY DEF RecordFailure
<1>3. (IF locks THEN 0 ELSE failed) \in 0 .. MaxFailedLogins - 1 /\ locks \in BOOLEAN
  BY <1>1, ConstantsAssumption
<1> HIDE DEF failed, locks
<1>4. /\ account' \in Accounts
      /\ account'.totp = account.totp /\ account'.secret = account.secret
  BY <1>2, <1>3 DEF Accounts, IInv, TypeOK
<1>5. misses' \in Nat /\ Send(r, Idle) /\ UNCHANGED <<session, pending, confirmed, overtaken>>
  BY DEF RecordFailure, IInv, TypeOK
<1>6. QED
  BY <1>4, <1>5, IdleType, SendStep DEF IInv, TypeOK

(* A success clears the counter and leaves the second factor alone.        *)
LEMMA ResetStep ==
  ASSUME IInv, NEW r \in Requests, ResetFailed(r)
  PROVE  IInv'
<1>1. /\ account' \in Accounts
      /\ account'.totp = account.totp /\ account'.secret = account.secret
  BY ZeroFails DEF ResetFailed, Accounts, IInv, TypeOK
<1>2. CASE req[r].grants = "pending"
  BY <1>1, <1>2, IdleType, SendStep DEF ResetFailed, IInv, TypeOK
<1>3. CASE req[r].grants # "pending"
  <2> DEFINE s == [req[r] EXCEPT !.pc = "insert"]
  <2>1. req[r] \in Grants
    BY ReqFacts DEF ResetFailed, IInv
  <2>2. s \in ReqTypes /\ s.pc = "insert" /\ s.grants = req[r].grants
    BY <2>1 DEF Grants, ReqTypes
  <2>3. Send(r, s) /\ UNCHANGED <<pending, session, confirmed, overtaken>> /\ misses' = 0
    BY <1>3 DEF ResetFailed
  <2> HIDE DEF s
  <2>4. QED
    BY <1>1, <1>3, <2>2, <2>3, SendStep DEF IInv, TypeOK
<1>4. QED
  BY <1>2, <1>3

(* A session says what earned it; the row is not written.                  *)
LEMMA InsertStep ==
  ASSUME IInv, NEW r \in Requests, NEW t \in Tokens, InsertSession(r, t)
  PROVE  IInv'
<1>1. req[r].grants \in {"password", "code"}
  BY ReqFacts DEF InsertSession, IInv, Insertable, Grants
<1>2. session' \in [Tokens -> {None, "password", "code"}]
  BY <1>1 DEF InsertSession, IInv, TypeOK
<1>3. QED
  BY <1>2, IdleType, SendStep DEF InsertSession, ghosts, IInv, TypeOK

(* A new secret turns TOTP off, and is remembered if it comes between an   *)
(* enrolment's check and its write.                                        *)
LEMMA SecretStep ==
  ASSUME IInv, NEW r \in Requests, NEW s \in Secrets, WriteSecret(r, s)
  PROVE  IInv'
<1>1. req' = [req EXCEPT ![r] = Idle] /\ req \in [Requests -> ReqTypes]
  BY DEF WriteSecret, Send, IInv, TypeOK, ReqTypes
<1>2. \A q \in Requests : req'[q] = IF q = r THEN Idle ELSE req[q]
  BY <1>1
<1>3. account' \in Accounts /\ account'.totp = FALSE
  BY DEF WriteSecret, Accounts, IInv, TypeOK
<1>4. TypeOK'
  BY <1>1, <1>3, IdleType DEF WriteSecret, IInv, TypeOK, ReqTypes
<1>5. CodeChecked'
  BY <1>2, IdleType DEF CodeChecked, WriteSecret, At
<1>6. Insertable' /\ TotpConfirmed'
  BY <1>2, <1>3, IdleType DEF IInv, Insertable, TotpConfirmed, WriteSecret, At
<1>7. QED
  BY <1>3, <1>4, <1>5, <1>6 DEF IInv

(* Only a code of the secret in the row lets an enrolment go on.           *)
LEMMA CheckStep ==
  ASSUME IInv, NEW r \in Requests, CheckCode(r)
  PROVE  IInv'
<1>1. CASE Validates(req[r].code)
  <2> DEFINE s == [req[r] EXCEPT !.pc = "enable"]
  <2>1. req[r] \in Enables
    BY ReqFacts DEF CheckCode, IInv
  <2>2. s \in ReqTypes /\ s.pc = "enable" /\ s.code = req[r].code
    BY <2>1 DEF Enables, ReqTypes
  <2>3. Send(r, s) /\ UNCHANGED <<account, session, pending, ghosts>>
    BY <1>1 DEF CheckCode
  <2>4. s.code = account.secret
    BY <1>1, <2>2 DEF Validates
  <2> HIDE DEF s
  <2>5. QED
    BY <2>2, <2>3, <2>4, SendStep DEF ghosts, IInv, TypeOK
<1>2. CASE ~Validates(req[r].code)
  BY <1>2, IdleType, SendStep DEF CheckCode, ghosts, IInv, TypeOK
<1>3. QED
  BY <1>1, <1>2

(* TOTP goes on with the secret whose code was shown, or a replaced one.   *)
LEMMA EnabledStep ==
  ASSUME IInv, NEW r \in Requests, WriteEnabled(r)
  PROVE  IInv'
<1>1. req[r] \in Enables /\ At(r, "enable")
  BY ReqFacts DEF WriteEnabled, IInv
<1>2. PICK s \in {Idle} \cup Drops : req' = [req EXCEPT ![r] = s] /\ s.pc \in {"idle", "drop"}
  <2> DEFINE next == IF req[r].admin THEN [pc |-> "drop", token |-> req[r].token] ELSE Idle
  <2>1. next \in {Idle} \cup Drops /\ next.pc \in {"idle", "drop"}
    BY <1>1, IdleType DEF Drops, Enables
  <2>2. req' = [req EXCEPT ![r] = next]
    BY DEF WriteEnabled, Send
  <2> HIDE DEF next
  <2>3. QED
    BY <2>1, <2>2
<1>3. req \in [Requests -> ReqTypes] /\ s \in ReqTypes
  BY <1>2 DEF IInv, TypeOK, ReqTypes
<1>4. \A q \in Requests : req'[q] = IF q = r THEN s ELSE req[q]
  BY <1>2, <1>3
<1>5. /\ account' \in Accounts /\ account'.secret = account.secret
      /\ confirmed' = req[r].code /\ confirmed' \in Secrets /\ confirmed' # None
      /\ UNCHANGED <<session, pending, misses, overtaken>>
  BY <1>1, ConstantsAssumption DEF WriteEnabled, Accounts, Enables, IInv, TypeOK
<1>6. TypeOK'
  BY <1>2, <1>3, <1>5 DEF IInv, TypeOK, ReqTypes
<1>7. account.secret = req[r].code \/ overtaken
  BY <1>1 DEF IInv, CodeChecked
<1>8. QED
  BY <1>2, <1>4, <1>5, <1>6, <1>7 DEF IInv, Insertable, CodeChecked, TotpConfirmed, At

(* The end of an enrolment session or of a request changes no row.         *)
LEMMA DropStep ==
  ASSUME IInv, NEW r \in Requests, DropSession(r) \/ Ends(r)
  PROVE  IInv'
<1>1. session' \in [Tokens -> {None, "password", "code"}]
  BY DEF DropSession, Ends, IInv, TypeOK
<1>2. QED
  BY <1>1, IdleType, SendStep DEF DropSession, Ends, ghosts, IInv, TypeOK

(* Neither an admin's reset or patch nor a lock's end touches the secret.  *)
LEMMA AdminStep ==
  ASSUME IInv,
         \/ ResetPassword \/ LockExpires
         \/ \E admin, disabled \in BOOLEAN : PatchUser(admin, disabled)
  PROVE  IInv'
<1>1. /\ account' \in Accounts
      /\ account'.totp = account.totp /\ account'.secret = account.secret
  <2>1. account \in Accounts
    BY DEF IInv, TypeOK
  <2>2. CASE ResetPassword
    BY <2>1, <2>2, ZeroFails DEF ResetPassword, Accounts
  <2>3. CASE LockExpires
    BY <2>1, <2>3 DEF LockExpires, Accounts
  <2>4. ASSUME NEW admin \in BOOLEAN, NEW disabled \in BOOLEAN, PatchUser(admin, disabled)
        PROVE  /\ account' \in Accounts
               /\ account'.totp = account.totp /\ account'.secret = account.secret
    BY <2>1, <2>4 DEF PatchUser, Accounts
  <2>5. QED
    BY <2>2, <2>3, <2>4
<1>2. UNCHANGED <<req, session, pending, confirmed, overtaken>> /\ misses' \in Nat
  <2>1. CASE ResetPassword
    BY <2>1 DEF ResetPassword
  <2>2. CASE ~ResetPassword
    <3>1. UNCHANGED <<session, pending, req, ghosts>>
      BY <2>2 DEF LockExpires, PatchUser
    <3>2. QED
      BY <3>1 DEF ghosts, IInv, TypeOK
  <2>3. QED
    BY <2>1, <2>2
<1>3. QED
  BY <1>1, <1>2, OutsideStep DEF IInv, TypeOK

(* The end of a session or of a pending login touches no row.              *)
LEMMA SessionStep ==
  ASSUME IInv,
         \/ PendingExpires
         \/ \E t \in Tokens : SessionExpires(t)
         \/ \E r \in Requests, t \in Tokens : Logout(r, t)
  PROVE  IInv'
<1>1. session' \in [Tokens -> {None, "password", "code"}]
  BY DEF PendingExpires, SessionExpires, Logout, IInv, TypeOK
<1>2. UNCHANGED <<account, req, ghosts>> /\ pending' \in BOOLEAN
  BY DEF PendingExpires, SessionExpires, Logout, IInv, TypeOK
<1>3. QED
  BY <1>1, <1>2, OutsideStep DEF ghosts, IInv, TypeOK

(* Every step keeps the invariant.                                         *)
LEMMA NextIInv == IInv /\ [Next]_vars => IInv'
<1> SUFFICES ASSUME IInv, [Next]_vars PROVE IInv'
  OBVIOUS
<1>1. ASSUME NEW r \in Requests, Begin(r) PROVE IInv'
  BY <1>1, LoginStep, VerifyStep, ServeStep, SetupStep, EnableStep, SessionStep DEF Begin
<1>2. ASSUME NEW r \in Requests, Statement(r) PROVE IInv'
  BY <1>2, RecordStep, ResetStep, InsertStep, SecretStep, CheckStep, EnabledStep,
     DropStep DEF Statement
<1>3. CASE UNCHANGED vars
  BY <1>3, OutsideStep DEF vars, IInv, TypeOK
<1>4. QED
  BY <1>1, <1>2, <1>3, AdminStep, SessionStep DEF Next

(* So it holds throughout.                                                 *)
LEMMA Inductive == Spec => []IInv
  BY InitIInv, NextIInv, PTL DEF Spec

(* Every variable has its type in every reachable state: among others, the *)
(* count of failed logins stays below the limit (auth.go:435-446).         *)
THEOREM TypeCorrect == Spec => []TypeOK
<1>1. IInv => TypeOK
  BY DEF IInv
<1>2. QED
  BY <1>1, Inductive, PTL

(* However setups, enrolments, patches and logins interleave, TOTP is on   *)
(* only with a secret a code was shown of, but where a setup came between  *)
(* the check and the write; and the policy serves no admin without one     *)
(* (totp.go:79-99, auth.go:335-364).                                       *)
THEOREM SecretsConfirmed == Spec => []TotpConfirmed
<1>1. IInv => TotpConfirmed
  BY DEF IInv
<1>2. QED
  BY <1>1, Inductive, PTL

-----------------------------------------------------------------------------
(* What a request's step does to its own record and to nobody else's. *)
LEMMA OneRequest ==
  ASSUME TypeOK, NEW r \in Requests, Begin(r) \/ Statement(r), NEW q \in Requests, q # r
  PROVE  req'[q] = req[q]
  BY DEF TypeOK, Begin, Login, Verify, Serve, Setup, Enable, Logout, Statement,
     RecordFailure, ResetFailed, InsertSession, WriteSecret, CheckCode, WriteEnabled,
     DropSession, Ends, Send

(* What is not a request's step moves no request.                          *)
LEMMA Outside ==
  ASSUME \/ ResetPassword \/ LockExpires \/ PendingExpires
         \/ \E admin, disabled \in BOOLEAN : PatchUser(admin, disabled)
         \/ \E t \in Tokens : SessionExpires(t)
         \/ UNCHANGED vars
  PROVE  UNCHANGED req
  BY DEF ResetPassword, LockExpires, PendingExpires, PatchUser, SessionExpires, vars

(* A confirmed enrolment holds.  With TOTP on, and no setup and no login by *)
(* password alone left from before, nothing turns it off, replaces its      *)
(* secret or opens a session with a password alone (auth.go:244-253).       *)
THEOREM EnrolmentKept == Spec => EnrolmentHolds
<1> DEFINE Keeps == Enrolled => /\ Enrolled'
                                /\ account'.secret = account.secret
                                /\ PasswordSessions' \subseteq PasswordSessions
<1>1. ASSUME IInv, [Next]_vars, Enrolled
      PROVE  /\ Enrolled' /\ account'.secret = account.secret
             /\ PasswordSessions' \subseteq PasswordSessions
  <2> USE <1>1
  <2> TypeOK
    BY DEF IInv
  <2> account \in Accounts /\ account.totp
    BY DEF TypeOK, Enrolled
  <2>1. ASSUME NEW r \in Requests, Begin(r) \/ Statement(r)
        PROVE  /\ account'.totp /\ account'.secret = account.secret
               /\ ~(req'[r].pc = "setup")
               /\ ~(req'[r].pc \in {"reset", "insert"} /\ req'[r].grants = "password")
               /\ PasswordSessions' \subseteq PasswordSessions
    <3> req \in [Requests -> ReqTypes] /\ session \in [Tokens -> {None, "password", "code"}]
      BY DEF TypeOK, ReqTypes
    <3>0. ~At(r, "setup") /\ ~PasswordOnly(r)
      BY DEF Enrolled
    <3>1. CASE Begin(r)
      <4>1. ASSUME NEW right \in BOOLEAN, Login(r, right)
            PROVE  /\ req'[r].pc # "setup" /\ UNCHANGED <<account, session>>
                   /\ ~(req'[r].pc \in {"reset", "insert"} /\ req'[r].grants = "password")
        BY <4>1 DEF Login, Send
      <4>2. ASSUME NEW code \in Secrets, Verify(r, code)
            PROVE  /\ req'[r].pc # "setup" /\ UNCHANGED <<account, session>>
                   /\ ~(req'[r].pc \in {"reset", "insert"} /\ req'[r].grants = "password")
        BY <4>2 DEF Verify, Send
      <4>3. ASSUME NEW t \in Tokens, Serve(r, t)
            PROVE  /\ req'[r].pc # "setup" /\ UNCHANGED <<account, session>>
                   /\ ~(req'[r].pc \in {"reset", "insert"} /\ req'[r].grants = "password")
        BY <4>3 DEF Serve, Send
      <4>4. ASSUME NEW t \in Tokens, Logout(r, t)
            PROVE  /\ UNCHANGED <<account, req>>
                   /\ PasswordSessions' \subseteq PasswordSessions
        BY <4>4, ConstantsAssumption DEF Logout, PasswordSessions
      <4>5. QED
        BY <3>0, <3>1, <4>1, <4>2, <4>3, <4>4
           DEF Begin, Setup, Enable, PasswordSessions, At, PasswordOnly
    <3>3. ASSUME NEW t \in Tokens, InsertSession(r, t)
          PROVE  PasswordSessions' \subseteq PasswordSessions /\ UNCHANGED account
                 /\ req'[r] = Idle
      BY <3>0, <3>3 DEF InsertSession, Send, PasswordSessions, PasswordOnly
    <3>4. CASE RecordFailure(r) \/ DropSession(r) \/ Ends(r)
      <4>1. account'.totp /\ account'.secret = account.secret /\ req'[r] = Idle
        BY <3>4 DEF RecordFailure, DropSession, Ends, Send, Accounts
      <4>2. PasswordSessions' \subseteq PasswordSessions
        BY <3>4, ConstantsAssumption DEF RecordFailure, DropSession, Ends, PasswordSessions
      <4>3. QED
        BY <4>1, <4>2, IdleType
    <3>5. CASE ResetFailed(r)
      <4>1. account'.totp /\ account'.secret = account.secret /\ UNCHANGED session
        BY <3>5 DEF ResetFailed, Accounts
      <4>2. req[r] \in Grants
        BY <3>5, ReqFacts DEF ResetFailed
      <4>3. req[r].grants # "password"
        BY <3>0, <3>5 DEF ResetFailed, PasswordOnly
      <4>4. req'[r] = Idle \/ (req'[r].pc = "insert" /\ req'[r].grants # "password")
        BY <3>5, <4>2, <4>3 DEF ResetFailed, Send, Grants
      <4>5. QED
        BY <4>1, <4>4, IdleType DEF PasswordSessions
    <3>6. CASE CheckCode(r)
      <4>1. req[r] \in Enables
        BY <3>6, ReqFacts DEF CheckCode
      <4>2. req'[r] = Idle \/ req'[r].pc = "enable"
        BY <3>6, <4>1 DEF CheckCode, Send, Enables
      <4>3. QED
        BY <3>6, <4>2, IdleType DEF CheckCode, PasswordSessions
    <3>7. CASE WriteEnabled(r)
      <4>1. req'[r] = Idle \/ req'[r].pc = "drop"
        BY <3>7 DEF WriteEnabled, Send
      <4>2. QED
        BY <3>7, <4>1, IdleType DEF WriteEnabled, Accounts, PasswordSessions
    <3>8. QED
      BY <2>1, <3>0, <3>1, <3>3, <3>4, <3>5, <3>6, <3>7, IdleType
         DEF Statement, WriteSecret
  <2>2. ASSUME NEW r \in Requests, Begin(r) \/ Statement(r) PROVE Enrolled'
    BY <2>1, <2>2, OneRequest DEF Enrolled, PasswordOnly, At
  <2>3. ASSUME \/ ResetPassword \/ LockExpires \/ PendingExpires
               \/ \E admin, disabled \in BOOLEAN : PatchUser(admin, disabled)
               \/ \E t \in Tokens : SessionExpires(t)
               \/ UNCHANGED vars
        PROVE  /\ Enrolled' /\ account'.secret = account.secret
               /\ PasswordSessions' \subseteq PasswordSessions
    <3>1. account'.totp /\ account'.secret = account.secret
      BY <2>3 DEF ResetPassword, LockExpires, PendingExpires, PatchUser,
         SessionExpires, vars, Accounts
    <3>2. PasswordSessions' \subseteq PasswordSessions
      <4>1. ASSUME NEW t \in Tokens, SessionExpires(t)
            PROVE  PasswordSessions' \subseteq PasswordSessions
        BY <4>1, ConstantsAssumption DEF SessionExpires, PasswordSessions, TypeOK
      <4>2. QED
        BY <2>3, <4>1 DEF ResetPassword, LockExpires, PendingExpires, PatchUser,
           vars, PasswordSessions
    <3>3. Enrolled'
      BY <2>3, <3>1, Outside DEF Enrolled, PasswordOnly, At
    <3>4. QED
      BY <3>1, <3>2, <3>3
  <2>4. QED
    BY <2>1, <2>2, <2>3 DEF Next
<1>2. IInv /\ [Next]_vars => [Keeps]_vars
  BY <1>1
<1>3. QED
  BY <1>2, Inductive, PTL DEF Spec, EnrolmentHolds

(* A lock holds.  Once those who read the account before have ended, only  *)
(* its end or an admin lifts it (auth.go:228, totp.go:160).                *)
THEOREM LockKept == Spec => LockHolds
<1> DEFINE Keeps == Held => Held' \/ LockExpires \/ ResetPassword
<1>1. ASSUME IInv, [Next]_vars, Held, ~LockExpires, ~ResetPassword
      PROVE  Held'
  <2> USE <1>1
  <2> TypeOK
    BY DEF IInv
  <2> account \in Accounts /\ account.locked /\ req \in [Requests -> ReqTypes]
    BY DEF TypeOK, Held, ReqTypes
  <2>1. ASSUME NEW r \in Requests, Begin(r) \/ Statement(r)
        PROVE  account'.locked /\ req'[r].pc \notin {"fail", "reset"}
    <3>0. ~At(r, "fail") /\ ~At(r, "reset")
      BY DEF Held
    <3>1. CASE Begin(r)
      BY <3>0, <3>1 DEF Begin, Login, Verify, Serve, Setup, Enable, Logout, Send, At
    <3>2. CASE CheckCode(r)
      <4>1. req[r] \in Enables
        BY <3>2, ReqFacts DEF CheckCode
      <4>2. QED
        BY <3>2, <4>1, IdleType DEF CheckCode, Send, Enables
    <3>3. CASE Statement(r) /\ ~CheckCode(r)
      <4>1. ASSUME NEW s \in Secrets, WriteSecret(r, s)
            PROVE  account'.locked /\ req'[r] = Idle
        BY <4>1 DEF WriteSecret, Send, Accounts
      <4>2. CASE WriteEnabled(r)
        BY <4>2, IdleType DEF WriteEnabled, Send, Accounts
      <4>3. QED
        BY <3>0, <3>3, <4>1, <4>2, IdleType DEF Statement, RecordFailure, ResetFailed,
           InsertSession, DropSession, Ends, Send
    <3>4. QED
      BY <2>1, <3>1, <3>2, <3>3
  <2>2. ASSUME NEW r \in Requests, Begin(r) \/ Statement(r) PROVE Held'
    BY <2>1, <2>2, OneRequest DEF Held, At
  <2>3. ASSUME \/ PendingExpires
               \/ \E admin, disabled \in BOOLEAN : PatchUser(admin, disabled)
               \/ \E t \in Tokens : SessionExpires(t)
               \/ UNCHANGED vars
        PROVE  Held'
    <3>1. account'.locked
      BY <2>3 DEF PendingExpires, PatchUser, SessionExpires, vars, Accounts
    <3>2. QED
      BY <2>3, <3>1, Outside DEF Held, At
  <2>4. QED
    BY <2>2, <2>3 DEF Next
<1>2. IInv /\ [Next]_vars => [Keeps]_vars
  BY <1>1
<1>3. QED
  BY <1>2, Inductive, PTL DEF Spec, LockHolds

-----------------------------------------------------------------------------
(* What the requests take the count of failures to be: a failed login      *)
(* still to be recorded has read it, but what others took back is gone.    *)
Counts == 0 .. MaxFailedLogins - 1

known == [r \in Requests |-> IF At(r, "fail") /\ req[r].failed < account.failed
                             THEN req[r].failed ELSE account.failed]

Below(k, x) == {r \in Requests : k[r] < x}

Standing(k) == [x \in 1 .. MaxFailedLogins - 1 |-> Cardinality(Below(k, x))]

(* A standing is later if, at some count, fewer requests are below, and at *)
(* no smaller count more.                                                  *)
Earlier(p, q) == \E x \in DOMAIN p : /\ p[x] > q[x]
                                     /\ \A y \in DOMAIN p : y < x => p[y] >= q[y]

Passed(q) == {p \in Standings : Earlier(p, q)}

(* LockComes alone is not inductive.  Each miss since the last lock had a  *)
(* standing of its own, all of them earlier than the present one.          *)
MissesCounted == misses <= Cardinality(Passed(Standing(known)))

(* There are finitely many standings.                                      *)
LEMMA StandingsFinite == IsFiniteSet(Standings)
<1> DEFINE D == 1 .. MaxFailedLogins - 1
           K == 0 .. Cardinality(Requests)
           f == [s \in Standings |-> {p \in D \X K : p[2] = s[p[1]]}]
<1>1. Cardinality(Requests) \in Nat
  BY ConstantsAssumption, FS_CardinalityType
<1>2. IsFiniteSet(D) /\ IsFiniteSet(K)
  BY <1>1, ConstantsAssumption, FS_Interval
<1>3. IsFiniteSet(SUBSET (D \X K))
  BY <1>2, FS_Product, FS_SUBSET
<1>4. f \in Injection(Standings, SUBSET (D \X K))
  <2>1. ASSUME NEW s \in Standings, NEW t \in Standings, f[s] = f[t]
        PROVE  s = t
    <3>1. s \in [D -> K] /\ t \in [D -> K]
      BY DEF Standings
    <3>2. ASSUME NEW x \in D PROVE s[x] = t[x]
      <4>1. <<x, s[x]>> \in f[s]
        BY <3>1
      <4>2. <<x, s[x]>> \in f[t]
        BY <2>1, <4>1
      <4>3. QED
        BY <4>2
    <3> HIDE DEF D, K, f
    <3>3. QED
      BY <3>1, <3>2
  <2>2. f \in [Standings -> SUBSET (D \X K)]
    OBVIOUS
  <2>3. \A s, t \in Standings : f[s] = f[t] => s = t
    BY <2>1
  <2> HIDE DEF D, K, f
  <2>4. QED
    BY <2>2, <2>3 DEF Injection, IsInjective
<1>5. QED
  BY <1>3, <1>4, FS_Injection

(* The fewer are below, the smaller their number.                          *)
LEMMA FewerBelow ==
  ASSUME NEW S \in SUBSET Requests, NEW U \in SUBSET S
  PROVE  /\ Cardinality(U) \in 0 .. Cardinality(Requests)
         /\ Cardinality(S) \in 0 .. Cardinality(Requests)
         /\ Cardinality(U) <= Cardinality(S)
         /\ U # S => Cardinality(U) < Cardinality(S)
<1>1. IsFiniteSet(Requests)
  BY ConstantsAssumption
<1>2. IsFiniteSet(S) /\ Cardinality(S) <= Cardinality(Requests)
  BY <1>1, FS_Subset
<1>3. /\ IsFiniteSet(U) /\ Cardinality(U) <= Cardinality(S)
      /\ Cardinality(S) = Cardinality(U) => S = U
  BY <1>2, FS_Subset
<1>4. Cardinality(U) \in Nat /\ Cardinality(S) \in Nat /\ Cardinality(Requests) \in Nat
  BY <1>1, <1>2, <1>3, FS_CardinalityType
<1>5. QED
  BY <1>2, <1>3, <1>4

(* The requests' counts give a standing.                                   *)
LEMMA StandingIs ==
  ASSUME NEW k \in [Requests -> Counts]
  PROVE  Standing(k) \in Standings
<1> DEFINE D == 1 .. MaxFailedLogins - 1
<1>1. ASSUME NEW x \in D, NEW y \in D, x <= y
      PROVE  Cardinality(Below(k, x)) <= Cardinality(Below(k, y))
  <2>1. Below(k, x) \subseteq Below(k, y)
    BY <1>1, ConstantsAssumption DEF Below, Counts
  <2>2. QED
    BY <2>1, FewerBelow DEF Below
<1>2. ASSUME NEW x \in D PROVE Cardinality(Below(k, x)) \in 0 .. Cardinality(Requests)
  BY FewerBelow DEF Below
<1>3. QED
  BY <1>1, <1>2 DEF Standing, Standings

(* What is earlier than a standing is earlier than what follows it. *)
LEMMA EarlierYet ==
  ASSUME NEW p \in Standings, NEW q \in Standings, NEW s \in Standings,
         Earlier(p, q),
         (\A x \in DOMAIN q : q[x] >= s[x]) \/ Earlier(q, s)
  PROVE  Earlier(p, s)
<1> DEFINE D == 1 .. MaxFailedLogins - 1
           K == 0 .. Cardinality(Requests)
<1>1. p \in [D -> K] /\ q \in [D -> K] /\ s \in [D -> K]
  BY DEF Standings
<1>2. K \subseteq Int
  OBVIOUS
<1>3. PICK x \in D : p[x] > q[x] /\ \A y \in D : y < x => p[y] >= q[y]
  BY <1>1 DEF Earlier
<1>4. CASE \A y \in D : q[y] >= s[y]
  <2>1. p[x] > s[x] /\ \A y \in D : y < x => p[y] >= s[y]
    BY <1>1, <1>2, <1>3, <1>4
  <2>2. QED
    BY <1>1, <2>1 DEF Earlier
<1>5. CASE Earlier(q, s)
  <2>1. PICK z \in D : q[z] > s[z] /\ \A y \in D : y < z => q[y] >= s[y]
    BY <1>1, <1>5 DEF Earlier
  <2>2. CASE x <= z
    <3>1. p[x] > s[x] /\ \A y \in D : y < x => p[y] >= s[y]
      BY <1>1, <1>2, <1>3, <2>1, <2>2
    <3>2. QED
      BY <1>1, <3>1 DEF Earlier
  <2>3. CASE z < x
    <3>1. p[z] > s[z] /\ \A y \in D : y < z => p[y] >= s[y]
      BY <1>1, <1>2, <1>3, <2>1, <2>3
    <3>2. QED
      BY <1>1, <3>1 DEF Earlier
  <2>4. QED
    BY <2>2, <2>3
<1> HIDE DEF D, K
<1>6. QED
  BY <1>1, <1>4, <1>5

(* No standing is earlier than itself. *)
LEMMA NotItself == \A s \in Standings : s \notin Passed(s)
  BY DEF Passed, Earlier, Standings

(* The standings that have passed can be counted, and are not all. *)
LEMMA PassedType ==
  ASSUME NEW s \in Standings
  PROVE  /\ IsFiniteSet(Passed(s)) /\ Cardinality(Passed(s)) \in Nat
         /\ Cardinality(Passed(s)) < Cardinality(Standings)
<1>1. Passed(s) \subseteq Standings /\ Passed(s) # Standings
  BY NotItself DEF Passed
<1>2. /\ IsFiniteSet(Passed(s)) /\ Cardinality(Passed(s)) <= Cardinality(Standings)
      /\ Cardinality(Passed(s)) # Cardinality(Standings)
  BY <1>1, StandingsFinite, FS_Subset
<1>3. Cardinality(Passed(s)) \in Nat /\ Cardinality(Standings) \in Nat
  BY <1>2, StandingsFinite, FS_CardinalityType
<1>4. QED
  BY <1>2, <1>3

-----------------------------------------------------------------------------
(* What a request knows of is a count below the limit.                     *)
LEMMA KnownType == TypeOK => known \in [Requests -> Counts]
<1> SUFFICES ASSUME TypeOK, NEW r \in Requests PROVE known[r] \in Counts
  BY DEF known
<1>1. account.failed \in Counts
  BY DEF TypeOK, Accounts, Counts
<1>2. At(r, "fail") => req[r].failed \in Counts
  BY ReqFacts DEF Fails, Counts
<1>3. QED
  BY <1>1, <1>2 DEF known

(* And so after a step.                                                    *)
LEMMA KnownTypeNext == TypeOK' => known' \in [Requests -> Counts]
<1>1. (TypeOK => known \in [Requests -> Counts])'
  BY KnownType, PTL
<1>2. QED
  BY <1>1

(* While no request comes to know of fewer failures and none is counted,   *)
(* no standing that has passed comes back.                                 *)
LEMMA NotForgotten ==
  ASSUME known \in [Requests -> Counts], known' \in [Requests -> Counts],
         MissesCounted, misses \in Nat, misses' = misses,
         \A r \in Requests : known[r] <= known'[r]
  PROVE  MissesCounted'
<1> DEFINE old == Standing(known)
           new == Standing(known')
<1>1. old \in Standings /\ new \in Standings
  BY StandingIs
<1>2. ASSUME NEW x \in 1 .. MaxFailedLogins - 1 PROVE old[x] >= new[x]
  <2>1. Below(known', x) \subseteq Below(known, x)
    BY ConstantsAssumption DEF Below, Counts
  <2>2. Cardinality(Below(known', x)) <= Cardinality(Below(known, x))
    BY <2>1, FewerBelow DEF Below
  <2>3. /\ Cardinality(Below(known', x)) \in Nat
        /\ Cardinality(Below(known, x)) \in Nat
    BY FewerBelow DEF Below
  <2>4. QED
    BY <2>2, <2>3 DEF Standing
<1>3. \A x \in DOMAIN old : old[x] >= new[x]
  BY <1>2 DEF Standing
<1> HIDE DEF old, new
<1>4. Passed(old) \subseteq Passed(new)
  BY <1>1, <1>3, EarlierYet DEF Passed
<1>5. Cardinality(Passed(old)) <= Cardinality(Passed(new))
  BY <1>1, <1>4, PassedType, FS_Subset
<1>6. QED
  BY <1>1, <1>5, PassedType DEF MissesCounted, old, new

(* Whoever records a failure knows of one more; whoever knew of more than  *)
(* it did still does, and the others know of no fewer.                     *)
LEMMA MissSeen ==
  ASSUME TypeOK, NEW r \in Requests, RecordFailure(r), account'.failed # 0
  PROVE  /\ known'[r] > known[r] /\ known[r] + 1 \in 1 .. MaxFailedLogins - 1
         /\ \A q \in Requests : known[q] > known[r] => known'[q] > known[r]
         /\ \A q \in Requests : known[q] <= known[r] => known'[q] >= known[q]
<1>1. known \in [Requests -> Counts] /\ MaxFailedLogins \in Nat
  BY KnownType, ConstantsAssumption
<1>2. req[r].failed \in Counts /\ account.failed \in Counts
  BY ReqFacts DEF RecordFailure, Fails, Counts, TypeOK, Accounts
<1>3. account'.failed = req[r].failed + 1 /\ req[r].failed + 1 < MaxFailedLogins
  BY <1>1, <1>2 DEF RecordFailure, TypeOK, Accounts, Counts
<1>4. req'[r].pc = "idle" /\ \A q \in Requests \ {r} : req'[q] = req[q]
  BY DEF RecordFailure, Send, Idle, TypeOK
<1>5. known[r] <= req[r].failed /\ known[r] <= account.failed /\ known[r] \in Counts
  BY <1>1, <1>2 DEF known, RecordFailure, Counts
<1>6. known'[r] = req[r].failed + 1
  BY <1>3, <1>4 DEF known, At
<1>7. ASSUME NEW q \in Requests \ {r}
      PROVE  /\ known[q] > known[r] => known'[q] > known[r]
             /\ known[q] <= known[r] => known'[q] >= known[q]
  <2>1. At(q, "fail") => req[q].failed \in Counts
    BY ReqFacts DEF Fails, Counts
  <2>2. At(q, "fail")' <=> At(q, "fail")
    BY <1>4 DEF At
  <2>3. CASE At(q, "fail")
    <3>1. /\ known[q] = IF req[q].failed < account.failed
                        THEN req[q].failed ELSE account.failed
          /\ known'[q] = IF req[q].failed < account'.failed
                         THEN req[q].failed ELSE account'.failed
      BY <1>4, <2>2, <2>3 DEF known
    <3>2. QED
      BY <1>2, <1>3, <1>5, <2>1, <2>3, <3>1 DEF Counts
  <2>4. CASE ~At(q, "fail")
    <3>1. known[q] = account.failed /\ known'[q] = account'.failed
      BY <2>2, <2>4 DEF known
    <3>2. QED
      BY <1>2, <1>3, <1>5, <3>1 DEF Counts
  <2>5. QED
    BY <2>3, <2>4
<1>8. known[r] + 1 \in 1 .. MaxFailedLogins - 1 /\ known'[r] > known[r]
  BY <1>1, <1>2, <1>3, <1>5, <1>6 DEF Counts
<1>9. /\ \A q \in Requests : known[q] > known[r] => known'[q] > known[r]
      /\ \A q \in Requests : known[q] <= known[r] => known'[q] >= known[q]
  BY <1>2, <1>5, <1>6, <1>7, <1>8 DEF Counts
<1> HIDE DEF known
<1>10. QED
  BY <1>8, <1>9

(* So a miss leads to a later standing.                                    *)
LEMMA MissLater ==
  ASSUME TypeOK, NEW r \in Requests, RecordFailure(r), account'.failed # 0,
         known \in [Requests -> Counts], known' \in [Requests -> Counts]
  PROVE  Earlier(Standing(known), Standing(known'))
<1> DEFINE x == known[r] + 1
           D == 1 .. MaxFailedLogins - 1
<1>1. known[r] \in Nat /\ MaxFailedLogins \in Nat /\ x \in D
  BY MissSeen, ConstantsAssumption DEF Counts
<1>2. ASSUME NEW y \in D, y <= x
      PROVE  r \notin Below(known', y) /\ Below(known', y) \subseteq Below(known, y)
  <2>1. \A q \in Requests : known[q] \in Nat /\ known'[q] \in Nat
    BY DEF Counts
  <2>2. known'[r] >= y
    BY <1>1, <1>2, <2>1, MissSeen
  <2>3. ASSUME NEW q \in Requests, known'[q] < y PROVE known[q] < y
    BY <1>1, <1>2, <2>1, <2>3, MissSeen
  <2>4. QED
    BY <2>1, <2>2, <2>3 DEF Below
<1>3. r \in Below(known, x)
  BY <1>1 DEF Below
<1>4. ASSUME NEW y \in D, y <= x
      PROVE  /\ Cardinality(Below(known', y)) \in Nat
             /\ Cardinality(Below(known, y)) \in Nat
             /\ Cardinality(Below(known', y)) <= Cardinality(Below(known, y))
             /\ r \in Below(known, y)
                => Cardinality(Below(known', y)) # Cardinality(Below(known, y))
  BY <1>2, <1>4, FewerBelow DEF Below
<1> HIDE DEF x
<1>5. Cardinality(Below(known, x)) > Cardinality(Below(known', x))
  BY <1>1, <1>3, <1>4
<1>6. \A y \in D : y < x => Cardinality(Below(known, y)) >= Cardinality(Below(known', y))
  BY <1>1, <1>4
<1>7. QED
  BY <1>1, <1>5, <1>6 DEF Earlier, Standing

(* A miss is counted with the standing it leaves.                          *)
LEMMA MissCounts ==
  ASSUME TypeOK, NEW r \in Requests, RecordFailure(r), account'.failed # 0,
         MissesCounted,
         known \in [Requests -> Counts], known' \in [Requests -> Counts]
  PROVE  MissesCounted'
<1> DEFINE old == Standing(known)
           new == Standing(known')
<1>1. old \in Standings /\ new \in Standings /\ Earlier(old, new)
  BY StandingIs, MissLater
<1> HIDE DEF old, new
<1>2. Passed(old) \cup {old} \subseteq Passed(new)
  BY <1>1, EarlierYet DEF Passed
<1>3. /\ IsFiniteSet(Passed(old) \cup {old})
      /\ Cardinality(Passed(old) \cup {old}) = Cardinality(Passed(old)) + 1
  BY <1>1, NotItself, PassedType, FS_AddElement
<1>4. Cardinality(Passed(old)) + 1 <= Cardinality(Passed(new))
  BY <1>1, <1>2, <1>3, PassedType, FS_Subset
<1>5. misses \in Nat /\ misses' \in {0, misses + 1}
  BY DEF TypeOK, RecordFailure
<1>6. Cardinality(Passed(old)) \in Nat /\ Cardinality(Passed(new)) \in Nat
  BY <1>1, PassedType
<1>7. QED
  BY <1>4, <1>5, <1>6 DEF MissesCounted, old, new

(* A lock, a success and a reset start over.                               *)
LEMMA StartOver ==
  ASSUME misses' = 0, known' \in [Requests -> Counts]
  PROVE  MissesCounted'
<1>1. Standing(known') \in Standings
  BY StandingIs
<1>2. Cardinality(Passed(Standing(known'))) \in Nat
  BY <1>1, PassedType
<1>3. QED
  BY <1>2 DEF MissesCounted

(* A request that only begins, or ends without writing the count, takes it *)
(* for what it is.                                                         *)
LEMMA KnowsTheCount ==
  ASSUME TypeOK, NEW r \in Requests, \A q \in Requests \ {r} : req'[q] = req[q],
         account'.failed = account.failed,
         At(r, "fail")' => req'[r].failed = account.failed
  PROVE  \A q \in Requests : known[q] <= known'[q]
<1>1. account.failed \in Counts
  BY DEF TypeOK, Accounts, Counts
<1>2. \A q \in Requests : known[q] \in Counts /\ known[q] <= account.failed
  <2> SUFFICES ASSUME NEW q \in Requests
               PROVE  known[q] \in Counts /\ known[q] <= account.failed
    OBVIOUS
  <2>1. At(q, "fail") => req[q].failed \in Counts
    BY ReqFacts DEF Fails, Counts
  <2>2. QED
    BY <1>1, <2>1 DEF known, Counts
<1>3. known'[r] = account.failed
  BY <1>1 DEF known, At, Counts
<1>4. \A q \in Requests \ {r} : known'[q] = known[q]
  BY DEF known, At
<1> HIDE DEF known
<1>5. QED
  BY <1>1, <1>2, <1>3, <1>4 DEF Counts

(* Only a login or a verification that fails has a count to record, and it *)
(* has just read it.                                                       *)
LEMMA SendsTheCount ==
  ASSUME TypeOK, NEW r \in Requests, Begin(r) \/ Statement(r), ~RecordFailure(r)
  PROVE  At(r, "fail")' => req'[r].failed = account.failed
<1>1. CASE Begin(r)
  BY <1>1 DEF Begin, Login, Verify, Serve, Setup, Enable, Logout, Send, At, TypeOK
<1>2. CASE ResetFailed(r)
  <2>1. req[r] \in Grants
    BY <1>2, ReqFacts DEF ResetFailed
  <2> DEFINE s == [req[r] EXCEPT !.pc = "insert"]
  <2>2. s.pc = "insert"
    BY <2>1 DEF Grants
  <2>3. Send(r, s) \/ Send(r, Idle)
    BY <1>2 DEF ResetFailed
  <2> HIDE DEF s
  <2>4. QED
    BY <2>2, <2>3 DEF Send, Idle, At, TypeOK
<1>3. CASE CheckCode(r)
  <2>1. req[r] \in Enables
    BY <1>3, ReqFacts DEF CheckCode
  <2> DEFINE s == [req[r] EXCEPT !.pc = "enable"]
  <2>2. s.pc = "enable"
    BY <2>1 DEF Enables
  <2>3. Send(r, s) \/ Send(r, Idle)
    BY <1>3 DEF CheckCode
  <2> HIDE DEF s
  <2>4. QED
    BY <2>2, <2>3 DEF Send, Idle, At, TypeOK
<1>4. CASE WriteEnabled(r)
  BY <1>4 DEF WriteEnabled, Send, Idle, At, TypeOK
<1>5. ASSUME Send(r, Idle) PROVE ~At(r, "fail")'
  BY <1>5 DEF Send, Idle, At, TypeOK
<1>6. QED
  BY <1>1, <1>2, <1>3, <1>4, <1>5
  DEF Statement, InsertSession, WriteSecret, DropSession, Ends

(* The steps of a request that record nothing.                             *)
LEMMA RequestKnows ==
  ASSUME TypeOK, NEW r \in Requests, Begin(r) \/ Statement(r),
         ~RecordFailure(r), ~ResetFailed(r)
  PROVE  \A q \in Requests : known[q] <= known'[q]
<1>1. account'.failed = account.failed
  BY DEF Begin, Login, Verify, Serve, Setup, Enable, Logout, Statement, InsertSession,
     WriteSecret, CheckCode, WriteEnabled, DropSession, Ends, TypeOK, Accounts
<1>2. QED
  BY <1>1, OneRequest, SendsTheCount, KnowsTheCount

(* Every step keeps the count of the misses.                               *)
LEMMA MissesStep ==
  ASSUME IInv, IInv', MissesCounted, [Next]_vars
  PROVE  MissesCounted'
<1>1. known \in [Requests -> Counts] /\ misses \in Nat /\ TypeOK
  BY KnownType DEF IInv, TypeOK
<1>2. known' \in [Requests -> Counts]
  BY KnownTypeNext DEF IInv
<1>3. CASE misses' = 0
  BY <1>2, <1>3, StartOver
<1>4. CASE misses' # 0 /\ \E r \in Requests : RecordFailure(r)
  <2>1. PICK r \in Requests : RecordFailure(r)
    BY <1>4
  <2>2. account'.failed # 0
    <3>1. req[r].failed \in Nat
      BY <1>1, <2>1, ReqFacts DEF RecordFailure, Fails
    <3>2. account'.failed = req[r].failed + 1
      BY <1>1, <1>4, <2>1 DEF RecordFailure, TypeOK, Accounts
    <3>3. QED
      BY <3>1, <3>2
  <2>3. QED
    BY <1>1, <1>2, <2>1, <2>2, MissCounts
<1>5. CASE misses' # 0 /\ ~\E r \in Requests : RecordFailure(r)
  <2>1. misses' = misses
    BY <1>5 DEF Next, Begin, Statement, Login, Verify, Serve, Setup, Enable, Logout,
       ResetFailed, InsertSession, WriteSecret, CheckCode, WriteEnabled, DropSession,
       Ends, ResetPassword, PatchUser, LockExpires, PendingExpires, SessionExpires,
       vars, ghosts
  <2>2. \A q \in Requests : known[q] <= known'[q]
    <3>1. CASE \E r \in Requests : Begin(r) \/ Statement(r)
      BY <1>1, <1>5, <3>1, RequestKnows DEF ResetFailed
    <3>2. CASE ~\E r \in Requests : Begin(r) \/ Statement(r)
      <4>1. req' = req /\ account'.failed = account.failed
        BY <1>1, <1>5, <3>2 DEF Next, ResetPassword, PatchUser, LockExpires,
           PendingExpires, SessionExpires, vars, TypeOK, Accounts
      <4>2. \A q \in Requests : known'[q] = known[q] /\ known[q] \in Nat
        BY <1>1, <4>1 DEF known, At, Counts
      <4>3. QED
        BY <4>2
    <3>3. QED
      BY <3>1, <3>2
  <2>3. QED
    BY <1>1, <1>2, <2>1, <2>2, NotForgotten
<1>6. QED
  BY <1>3, <1>4, <1>5

(* Wrong attempts in a row end with a lock, whatever overlaps: for any     *)
(* number of requests at once and any limit, fewer of them are recorded    *)
(* without one than there are standings (auth.go:435-446).                 *)
THEOREM LockIsDue == Spec => []LockComes
<1>1. Init /\ IInv => MissesCounted
  <2> SUFFICES ASSUME Init, IInv PROVE MissesCounted
    OBVIOUS
  <2>1. known \in [Requests -> Counts]
    BY KnownType DEF IInv
  <2>2. Cardinality(Passed(Standing(known))) \in Nat
    BY <2>1, StandingIs, PassedType
  <2>3. QED
    BY <2>2 DEF Init, MissesCounted
<1>2. IInv /\ IInv' /\ MissesCounted /\ [Next]_vars => MissesCounted'
  BY MissesStep
<1>3. IInv /\ MissesCounted => LockComes
  <2> SUFFICES ASSUME IInv, MissesCounted PROVE LockComes
    OBVIOUS
  <2>1. known \in [Requests -> Counts] /\ misses \in Nat
    BY KnownType DEF IInv, TypeOK
  <2>2. /\ Cardinality(Passed(Standing(known))) \in Nat
        /\ Cardinality(Passed(Standing(known))) < Cardinality(Standings)
    BY <2>1, StandingIs, PassedType
  <2>3. Cardinality(Standings) \in Nat
    BY StandingsFinite, FS_CardinalityType
  <2>4. QED
    BY <2>1, <2>2, <2>3 DEF MissesCounted, LockComes
<1>4. QED
  BY <1>1, <1>2, <1>3, Inductive, PTL DEF Spec
=============================================================================
