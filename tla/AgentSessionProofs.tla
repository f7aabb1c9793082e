------------------------- MODULE AgentSessionProofs -------------------------
(***************************************************************************)
(* The session of an agent and its SIP account (AgentSession), for any     *)
(* number of requests and passwords: the four stores settle together, and  *)
(* FreeSWITCH keeps no old directory.                                      *)
(*                                                                         *)
(* The inductive invariant adds InOrder: while nothing has disturbed the   *)
(* agent, one request is under way at most, and what it has done so far is *)
(* in the stores.                                                          *)
(***************************************************************************)
EXTENDS AgentSession, TLAPS

Commands == {Idle} \cup Issues \cup Revokes \cup Sets

Issuing == {"write", "reload", "store", "undo"}
Ending == {"remove", "unload", "del", "clear", "stop"}

(* No two requests of the agent are under way.                             *)
Alone == \A q, r \in Requests : At(q, "idle") \/ At(r, "idle") \/ q = r

Agree == file # None /\ loaded = file /\ cred \in {file, None}

(* What a request that nothing has disturbed has achieved before the       *)
(* command it sends next.                                                  *)
Done(r) ==
  /\ req[r].pc \in {"write", "reload", "store", "set"} => session
  /\ req[r].pc \in {"reload", "store"} => file = req[r].password
  /\ At(r, "store") => loaded = file
  /\ ~At(r, "undo")
  /\ At(r, "set") => Agree
  /\ req[r].pc \in Ending => ~session
  /\ req[r].pc \in Ending \ {"remove"} => file = None
  /\ req[r].pc \in {"del", "clear", "stop"} => loaded = None
  /\ req[r].pc \in {"clear", "stop"} => cred = None
  /\ At(r, "stop") => presence = "missing"

InOrder == ~suspect => Alone /\ \A r \in Requests : Done(r)

SessionInv == TypeOK /\ Settled /\ DirectoryLoaded /\ InOrder

(* What Settled says of the stores.                                        *)
Stores == IF session THEN Agree
          ELSE file = None /\ loaded = None /\ cred = None /\ presence = "missing"

-----------------------------------------------------------------------------
(* The command a request sends next says which locals it has.              *)
LEMMA Locals ==
  ASSUME TypeOK, NEW r \in Requests
  PROVE  /\ req[r] \in Commands
         /\ req[r].pc \in {"idle", "set"} \cup Issuing \cup Ending
         /\ req[r].pc \in Issuing => req[r] \in Issues
         /\ req[r].pc \in Ending => req[r] \in Revokes
         /\ At(r, "set") => req[r] \in Sets
         /\ At(r, "idle") => req[r] = Idle
  BY DEF TypeOK, Commands, Issuing, Ending, Idle, Issues, Revokes, Sets, At

(* A request that sends a command moves, and no other does.                *)
LEMMA SendMoves ==
  ASSUME TypeOK, NEW r \in Requests, NEW q \in Commands, Send(r, q)
  PROVE  /\ req' \in [Requests -> Commands]
         /\ req'[r] = q
         /\ \A o \in Requests \ {r} : req'[o] = req[o]
  BY DEF TypeOK, Commands, Send

(* Going on within Issue or Revoke keeps the locals.                       *)
LEMMA GotoMoves ==
  ASSUME TypeOK, NEW r \in Requests, NEW l, Goto(r, l),
         \/ req[r].pc \in Issuing /\ l \in Issuing
         \/ req[r].pc \in Ending /\ l \in Ending
  PROVE  /\ req' \in [Requests -> Commands]
         /\ req'[r].pc = l
         /\ req[r].pc \in Issuing => req'[r].password = req[r].password
         /\ \A o \in Requests \ {r} : req'[o] = req[o]
<1> DEFINE q == [req[r] EXCEPT !.pc = l]
<1>1. CASE req[r].pc \in Issuing /\ l \in Issuing
  <2>1. req[r] \in Issues
    BY <1>1, Locals
  <2>2. q \in Issues /\ q.pc = l /\ q.password = req[r].password
    BY <1>1, <2>1 DEF Issues, Issuing
  <2>3. Send(r, q) /\ q \in Commands
    BY <2>2 DEF Goto, Send, Commands
  <2>4. QED
    BY <2>2, <2>3, SendMoves
<1>2. CASE req[r].pc \in Ending /\ l \in Ending
  <2>1. req[r] \in Revokes
    BY <1>2, Locals
  <2>2. q \in Revokes /\ q.pc = l
    BY <1>2, <2>1 DEF Revokes, Ending
  <2>3. Send(r, q) /\ q \in Commands
    BY <2>2 DEF Goto, Send, Commands
  <2>4. QED
    BY <1>2, <2>2, <2>3, SendMoves DEF Issuing, Ending
<1>3. QED
  BY <1>1, <1>2

(* If nothing is suspect, the request that moves is the only one, so the   *)
(* invariant is about what it has done.                                    *)
LEMMA Lone ==
  ASSUME NEW r \in Requests,
         ~suspect' => /\ \A q \in Requests \ {r} : req'[q].pc = "idle"
                      /\ Done(r)'
                      /\ req'[r].pc = "idle" => Stores'
  PROVE  InOrder' /\ Settled'
<1>1. ASSUME ~suspect', NEW q \in Requests \ {r} PROVE Done(q)'
  BY <1>1 DEF Done, At, Ending
<1>2. InOrder'
  BY <1>1 DEF InOrder, Alone, At
<1>3. Settled'
  BY DEF Settled, Quiet, Stores, Agree, At
<1>4. QED
  BY <1>2, <1>3

(* It was the only one before.                                             *)
LEMMA OthersIdle ==
  ASSUME SessionInv, ~suspect, NEW r \in Requests, ~At(r, "idle")
  PROVE  Done(r) /\ \A q \in Requests \ {r} : req[q].pc = "idle"
  BY DEF SessionInv, InOrder, Alone, At

(* Without any request the stores are settled.                             *)
LEMMA NoneBusy ==
  ASSUME SessionInv, ~suspect, NEW r \in Requests, At(r, "idle"), ~OthersBusy(r)
  PROVE  Stores
  BY DEF SessionInv, Settled, Quiet, OthersBusy, Stores, Agree, At

(* The agent has no session at first.                                      *)
LEMMA InitSession == Init => SessionInv
<1> SUFFICES ASSUME Init PROVE SessionInv
  OBVIOUS
<1>1. TypeOK
  BY DEF Init, TypeOK, States
<1>2. \A r \in Requests : req[r].pc = "idle"
  BY DEF Init, Idle
<1>3. Settled /\ DirectoryLoaded
  BY DEF Init, Settled, DirectoryLoaded
<1>4. InOrder
  BY <1>2 DEF InOrder, Alone, Done, At, Ending
<1>5. QED
  BY <1>1, <1>3, <1>4 DEF SessionInv

(* A start writes presence, and nothing of the account yet.                *)
LEMMA StartStep ==
  ASSUME SessionInv, NEW r \in Requests, NEW p \in Passwords, Start(r, p)
  PROVE  SessionInv'
<1> DEFINE q == [pc |-> "write", password |-> p]
<1>1. /\ q \in Commands /\ Send(r, q) /\ TypeOK /\ At(r, "idle")
      /\ presence' = "available" /\ session' = TRUE /\ suspect' = OthersBusy(r)
      /\ UNCHANGED <<cred, file, loaded, unloaded>>
  BY DEF Start, Renews, Commands, Issues, SessionInv, directory
<1>2. /\ req' \in [Requests -> Commands] /\ req'[r] = q
      /\ \A o \in Requests \ {r} : req'[o] = req[o]
  BY <1>1, SendMoves
<1>3. TypeOK'
  BY <1>1, <1>2 DEF TypeOK, Commands, States, OthersBusy
<1>4. DirectoryLoaded'
  BY <1>1, <1>2 DEF DirectoryLoaded, SessionInv, At
<1>5. Done(r)' /\ req'[r].pc # "idle"
  BY <1>1, <1>2 DEF Done, At, Ending
<1>6. ~suspect' => \A o \in Requests \ {r} : req'[o].pc = "idle"
  BY <1>1, <1>2 DEF OthersBusy, At
<1>7. QED
  BY <1>3, <1>4, <1>5, <1>6, Lone DEF SessionInv

(* A stop or an expiry begins with nothing but the promise to end the      *)
(* session.                                                                *)
LEMMA EndStep ==
  ASSUME SessionInv, NEW r \in Requests, Stop(r) \/ WebRTCConfig(r)
  PROVE  SessionInv'
<1>1. PICK by \in {"stop", "expiry"} :
        /\ Send(r, [pc |-> "remove", by |-> by]) /\ At(r, "idle")
        /\ session' = FALSE /\ suspect' = OthersBusy(r)
        /\ UNCHANGED <<presence, cred, file, loaded, unloaded>>
  BY DEF Stop, WebRTCConfig, Renews, redis, directory
<1> DEFINE q == [pc |-> "remove", by |-> by]
<1>2. q \in Commands /\ TypeOK
  BY DEF Commands, Revokes, SessionInv
<1>3. /\ req' \in [Requests -> Commands] /\ req'[r] = q
      /\ \A o \in Requests \ {r} : req'[o] = req[o]
  BY <1>1, <1>2, SendMoves
<1>4. TypeOK'
  BY <1>1, <1>2, <1>3 DEF TypeOK, Commands, OthersBusy
<1>5. DirectoryLoaded'
  BY <1>1, <1>3 DEF DirectoryLoaded, SessionInv, At
<1>6. Done(r)' /\ req'[r].pc # "idle"
  BY <1>1, <1>3 DEF Done, At, Ending
<1>7. ~suspect' => \A o \in Requests \ {r} : req'[o].pc = "idle"
  BY <1>1, <1>3 DEF OthersBusy, At
<1>8. QED
  BY <1>4, <1>5, <1>6, <1>7, Lone DEF SessionInv

(* Whoever changes the file has the reload as its next command.            *)
LEMMA FileStep ==
  ASSUME SessionInv, NEW r \in Requests, WriteUser(r) \/ RemoveUser(r)
  PROVE  SessionInv'
<1>1. PICK l \in {"reload", "unload"} :
        /\ Goto(r, l)
        /\ \/ At(r, "write") /\ l = "reload" /\ file' = req[r].password
           \/ At(r, "remove") /\ l = "unload" /\ file' = None
        /\ UNCHANGED <<presence, cred, loaded, unloaded, session, suspect>>
  BY DEF WriteUser, RemoveUser, redis, ghosts
<1>2. TypeOK /\ ~At(r, "idle")
  BY <1>1 DEF SessionInv, At
<1>3. /\ req' \in [Requests -> Commands] /\ req'[r].pc = l
      /\ At(r, "write") => req'[r].password = req[r].password
      /\ \A o \in Requests \ {r} : req'[o] = req[o]
  BY <1>1, <1>2, GotoMoves DEF At, Issuing, Ending
<1>4. file' \in Passwords \cup {None}
  BY <1>1, <1>2, Locals DEF Issues, Issuing, At
<1>5. TypeOK'
  BY <1>1, <1>2, <1>3, <1>4 DEF TypeOK, Commands
<1>6. DirectoryLoaded'
  BY <1>3, <1>1 DEF DirectoryLoaded, At
<1>7. ~suspect' => Done(r)' /\ \A o \in Requests \ {r} : req'[o].pc = "idle"
  BY <1>1, <1>2, <1>3, OthersIdle DEF Done, At, Ending
<1>8. QED
  BY <1>1, <1>3, <1>5, <1>6, <1>7, Lone DEF SessionInv

(* The reload loads the file that is there, whosever it is.                *)
LEMMA ReloadStep ==
  ASSUME SessionInv, NEW r \in Requests, Load(r) \/ Unload(r)
  PROVE  SessionInv'
<1>1. PICK l \in {"store", "del"} :
        /\ Goto(r, l)
        /\ \/ At(r, "reload") /\ l = "store"
           \/ At(r, "unload") /\ l = "del"
        /\ loaded' = file /\ unloaded' = FALSE
        /\ UNCHANGED <<presence, cred, file, session, suspect>>
  BY DEF Load, Unload, ReloadXML, redis, ghosts
<1>2. TypeOK /\ ~At(r, "idle")
  BY <1>1 DEF SessionInv, At
<1>3. /\ req' \in [Requests -> Commands] /\ req'[r].pc = l
      /\ At(r, "reload") => req'[r].password = req[r].password
      /\ \A o \in Requests \ {r} : req'[o] = req[o]
  BY <1>1, <1>2, GotoMoves DEF At, Issuing, Ending
<1>4. TypeOK'
  BY <1>1, <1>2, <1>3 DEF TypeOK, Commands
<1>5. DirectoryLoaded'
  BY <1>1 DEF DirectoryLoaded
<1>6. ~suspect' => Done(r)' /\ \A o \in Requests \ {r} : req'[o].pc = "idle"
  BY <1>1, <1>2, <1>3, OthersIdle DEF Done, At, Ending
<1>7. QED
  BY <1>1, <1>3, <1>4, <1>5, <1>6, Lone DEF SessionInv

(* A start ends with the credential it has made the account for.           *)
LEMMA StoreStep ==
  ASSUME SessionInv, NEW r \in Requests, StoreCred(r)
  PROVE  SessionInv'
<1>1. /\ At(r, "store") /\ Send(r, Idle) /\ cred' = req[r].password
      /\ UNCHANGED <<presence, file, loaded, unloaded, session, suspect>>
  BY DEF StoreCred, directory, ghosts
<1>2. TypeOK /\ ~At(r, "idle") /\ Idle \in Commands
  BY <1>1 DEF SessionInv, At, Commands
<1>3. /\ req' \in [Requests -> Commands] /\ req'[r] = Idle
      /\ \A o \in Requests \ {r} : req'[o] = req[o]
  BY <1>1, <1>2, SendMoves
<1>4. req[r].password \in Passwords
  BY <1>1, <1>2, Locals DEF At, Issuing, Issues
<1>5. TypeOK'
  BY <1>1, <1>2, <1>3, <1>4 DEF TypeOK, Commands
<1>6. DirectoryLoaded'
  BY <1>1, <1>3 DEF DirectoryLoaded, SessionInv, At
<1>7. ~suspect' => /\ \A o \in Requests \ {r} : req'[o].pc = "idle"
                   /\ Done(r)' /\ Stores'
  <2> SUFFICES ASSUME ~suspect'
               PROVE  /\ \A o \in Requests \ {r} : req'[o].pc = "idle"
                      /\ Done(r)' /\ Stores'
    OBVIOUS
  <2>1. Done(r) /\ \A o \in Requests \ {r} : req'[o].pc = "idle"
    BY <1>1, <1>2, <1>3, OthersIdle
  <2>2. Done(r)'
    BY <1>3 DEF Done, At, Idle, Ending
  <2>3. Stores'
    BY <1>1, <1>4, <2>1, NoneAssumption DEF Stores, Agree, Done, At
  <2>4. QED
    BY <2>1, <2>2, <2>3
<1>8. QED
  BY <1>5, <1>6, <1>7, Lone DEF SessionInv

(* A revocation deletes the credential after the account.                  *)
LEMMA DelStep ==
  ASSUME SessionInv, NEW r \in Requests, DelCred(r)
  PROVE  SessionInv'
<1>1. /\ At(r, "del") /\ Goto(r, "clear") /\ cred' = None
      /\ UNCHANGED <<presence, file, loaded, unloaded, session, suspect>>
  BY DEF DelCred, directory, ghosts
<1>2. TypeOK /\ ~At(r, "idle")
  BY <1>1 DEF SessionInv, At
<1>3. /\ req' \in [Requests -> Commands] /\ req'[r].pc = "clear"
      /\ \A o \in Requests \ {r} : req'[o] = req[o]
  BY <1>1, <1>2, GotoMoves DEF At, Ending
<1>4. TypeOK'
  BY <1>1, <1>2, <1>3 DEF TypeOK, Commands
<1>5. DirectoryLoaded'
  BY <1>1, <1>3 DEF DirectoryLoaded, SessionInv, At
<1>6. ~suspect' => Done(r)' /\ \A o \in Requests \ {r} : req'[o].pc = "idle"
  BY <1>1, <1>2, <1>3, OthersIdle DEF Done, At, Ending
<1>7. QED
  BY <1>3, <1>4, <1>5, <1>6, Lone DEF SessionInv

(* Revoke and stop end by removing presence, which no claim brings back.   *)
LEMMA ClearStep ==
  ASSUME SessionInv, NEW r \in Requests, ClearPresence(r)
  PROVE  SessionInv'
<1>1. /\ At(r, "clear") /\ presence' = "missing" /\ AfterClear(r)
      /\ UNCHANGED <<cred, file, loaded, unloaded, session, suspect>>
  BY DEF ClearPresence, directory, ghosts
<1>2. TypeOK /\ ~At(r, "idle") /\ Idle \in Commands
  BY <1>1 DEF SessionInv, At, Commands
<1>3. /\ req' \in [Requests -> Commands] /\ req'[r].pc \in {"stop", "idle"}
      /\ \A o \in Requests \ {r} : req'[o] = req[o]
  BY <1>1, <1>2, GotoMoves, SendMoves DEF AfterClear, At, Ending, Idle
<1>4. TypeOK'
  BY <1>1, <1>2, <1>3 DEF TypeOK, Commands, States
<1>5. DirectoryLoaded'
  BY <1>1, <1>3 DEF DirectoryLoaded, SessionInv, At
<1>6. ~suspect' => /\ \A o \in Requests \ {r} : req'[o].pc = "idle"
                   /\ Done(r)' /\ Stores'
  BY <1>1, <1>2, <1>3, OthersIdle DEF Done, At, Ending, Stores
<1>7. QED
  BY <1>4, <1>5, <1>6, Lone DEF SessionInv

(* Stop removes presence once more, a failed start takes it back, and a    *)
(* pause or its end is written.                                            *)
LEMMA PresenceStep ==
  ASSUME SessionInv, NEW r \in Requests, StopPresence(r) \/ Undo(r) \/ WriteState(r)
  PROVE  SessionInv'
<1>1. /\ Send(r, Idle) /\ UNCHANGED <<cred, file, loaded, unloaded, session, suspect>>
      /\ \/ req[r].pc \in {"stop", "undo"} /\ presence' = "missing"
         \/ At(r, "set") /\ presence' = req[r].to
  BY DEF StopPresence, Undo, WriteState, directory, ghosts, At
<1>2. TypeOK /\ ~At(r, "idle") /\ Idle \in Commands
  BY <1>1 DEF SessionInv, At, Commands
<1>3. /\ req' \in [Requests -> Commands] /\ req'[r] = Idle
      /\ \A o \in Requests \ {r} : req'[o] = req[o]
  BY <1>1, <1>2, SendMoves
<1>4. presence' \in States
  BY <1>1, <1>2, Locals DEF Sets, States
<1>5. TypeOK'
  BY <1>1, <1>2, <1>3, <1>4 DEF TypeOK, Commands
<1>6. DirectoryLoaded'
  BY <1>1, <1>3 DEF DirectoryLoaded, SessionInv, At
<1>7. ~suspect' => /\ \A o \in Requests \ {r} : req'[o].pc = "idle"
                   /\ Done(r)' /\ Stores'
  <2> SUFFICES ASSUME ~suspect'
               PROVE  /\ \A o \in Requests \ {r} : req'[o].pc = "idle"
                      /\ Done(r)' /\ Stores'
    OBVIOUS
  <2>1. Done(r) /\ \A o \in Requests \ {r} : req'[o].pc = "idle"
    BY <1>1, <1>2, <1>3, OthersIdle
  <2>2. Done(r)'
    BY <1>3 DEF Done, At, Idle, Ending
  <2>3. Stores'
    BY <1>1, <2>1 DEF Stores, Agree, Done, At, Ending
  <2>4. QED
    BY <2>1, <2>2, <2>3
<1>8. QED
  BY <1>5, <1>6, <1>7, Lone DEF SessionInv

(* A pause or its end finds a session, so it leaves the account alone.     *)
LEMMA SetStep ==
  ASSUME SessionInv, NEW r \in Requests, NEW to \in {"available", "paused"},
         SetState(r, to)
  PROVE  SessionInv'
<1> DEFINE q == [pc |-> "set", to |-> to]
<1>1. /\ q \in Commands /\ Send(r, q) /\ TypeOK /\ At(r, "idle")
      /\ presence # "missing" /\ suspect' = (suspect \/ OthersBusy(r))
      /\ UNCHANGED <<presence, cred, file, loaded, unloaded, session>>
  BY DEF SetState, Commands, Sets, SessionInv, redis, directory
<1>2. /\ req' \in [Requests -> Commands] /\ req'[r] = q
      /\ \A o \in Requests \ {r} : req'[o] = req[o]
  BY <1>1, SendMoves
<1>3. TypeOK'
  BY <1>1, <1>2 DEF TypeOK, Commands, OthersBusy
<1>4. DirectoryLoaded'
  BY <1>1, <1>2 DEF DirectoryLoaded, SessionInv, At
<1>5. ASSUME ~suspect'
      PROVE  Done(r)' /\ \A o \in Requests \ {r} : req'[o].pc = "idle"
  <2>1. ~suspect /\ ~OthersBusy(r)
    BY <1>1, <1>5
  <2>2. \A o \in Requests \ {r} : req'[o].pc = "idle"
    BY <1>2, <2>1 DEF OthersBusy, At
  <2>3. session /\ Agree
    BY <1>1, <2>1, NoneBusy DEF Stores
  <2>4. Done(r)'
    BY <1>1, <1>2, <2>3 DEF Done, At, Ending, Agree
  <2>5. QED
    BY <2>2, <2>4
<1>6. QED
  BY <1>2, <1>3, <1>4, <1>5, Lone DEF SessionInv

-----------------------------------------------------------------------------
(* A failed command moves its request on to a command that exists.         *)
LEMMA FailedMoves ==
  ASSUME SessionInv, NEW r \in Requests, CommandFails(r)
  PROVE  /\ req' \in [Requests -> Commands] /\ req'[r].pc \notin {"reload", "store"}
         /\ \A o \in Requests \ {r} : req'[o] = req[o]
<1>1. TypeOK /\ Idle \in Commands /\ ~At(r, "idle")
  BY DEF SessionInv, Commands, CommandFails
<1>2. req[r].pc \in {"set"} \cup Issuing \cup Ending
  BY <1>1, Locals DEF At
<1>3. CASE req[r].pc \in {"clear", "stop", "undo", "set"}
  BY <1>1, <1>3, SendMoves, GotoMoves
  DEF CommandFails, AfterClear, At, Ending, Idle
<1>4. CASE req[r].pc \in {"write", "reload", "store"}
  <2>1. Goto(r, "undo")
    BY <1>4 DEF CommandFails, After, At
  <2>2. QED
    BY <1>1, <1>4, <2>1, GotoMoves DEF Issuing
<1>5. CASE req[r].pc \in {"remove", "unload", "del"}
  <2>1. Goto(r, After(req[r].pc)) /\ After(req[r].pc) \in {"unload", "del", "clear"}
    BY <1>5 DEF CommandFails, After, At
  <2>2. QED
    BY <1>1, <1>5, <2>1, GotoMoves DEF Ending
<1>6. QED
  BY <1>2, <1>3, <1>4, <1>5 DEF Issuing, Ending

(* A reload that failed is on record, ...                                  *)
LEMMA FailStep ==
  ASSUME SessionInv, NEW r \in Requests, CommandFails(r)
  PROVE  SessionInv'
<1>1. /\ suspect' = TRUE /\ UNCHANGED <<presence, cred, file, loaded, session>>
      /\ unloaded' = (unloaded \/ At(r, "reload") \/ At(r, "unload"))
  BY DEF CommandFails, redis
<1>2. /\ req' \in [Requests -> Commands]
      /\ \A o \in Requests \ {r} : req'[o] = req[o]
  BY FailedMoves
<1>3. TypeOK'
  BY <1>1, <1>2 DEF SessionInv, TypeOK, Commands, At
<1>4. DirectoryLoaded'
  BY <1>1, <1>2 DEF SessionInv, DirectoryLoaded, At
<1>5. QED
  BY <1>1, <1>3, <1>4 DEF SessionInv, InOrder, Settled

(* ... and one whose reply was lost has loaded the directory.              *)
LEMMA LostStep ==
  ASSUME SessionInv, NEW r \in Requests, ReplyLost(r) \/ StartReplyLost(r)
  PROVE  SessionInv'
<1> USE DEF SessionInv
<1>1. suspect' = TRUE /\ session' = session
  BY DEF ReplyLost, StartReplyLost
<1>2. TypeOK' /\ DirectoryLoaded'
  <2>1. CASE StartReplyLost(r)
    BY <2>1 DEF StartReplyLost, TypeOK, States, DirectoryLoaded, At, directory
  <2>2. CASE ReplyLost(r)
    <3>1. /\ req[r].pc \in {"reload", "store"} /\ Goto(r, "undo") /\ presence' = presence
          /\ \/ loaded' = file /\ unloaded' = FALSE /\ UNCHANGED <<cred, file>>
             \/ /\ At(r, "store") /\ cred' = req[r].password
                /\ UNCHANGED <<file, loaded, unloaded>>
      BY <2>2 DEF ReplyLost, ReloadXML, At, directory
    <3>2. /\ req' \in [Requests -> Commands]
          /\ \A o \in Requests \ {r} : req'[o] = req[o]
      BY <3>1, GotoMoves DEF Issuing
    <3>3. req[r].password \in Passwords
      BY <3>1, Locals DEF Issuing, Issues
    <3>4. TypeOK'
      BY <1>1, <3>1, <3>2, <3>3 DEF TypeOK, Commands
    <3>5. DirectoryLoaded'
      BY <3>1, <3>2 DEF DirectoryLoaded, At
    <3>6. QED
      BY <3>4, <3>5
  <2>3. QED
    BY <2>1, <2>2
<1>3. QED
  BY <1>1, <1>2 DEF InOrder, Settled

(* A restarted edge has no requests; it records a reload they did not send.*)
LEMMA EdgeStep ==
  ASSUME SessionInv, EdgeRestarts
  PROVE  SessionInv'
<1> USE DEF SessionInv
<1>1. /\ req' = [r \in Requests |-> Idle]
      /\ suspect' = (suspect \/ \E r \in Requests : ~At(r, "idle"))
      /\ unloaded' = (unloaded \/ \E r \in Requests : At(r, "reload") \/ At(r, "unload"))
      /\ UNCHANGED <<presence, cred, file, loaded, session>>
  BY DEF EdgeRestarts, redis
<1>2. \A r \in Requests : req'[r].pc = "idle"
  BY <1>1 DEF Idle
<1>3. TypeOK' /\ DirectoryLoaded'
  BY <1>1 DEF TypeOK, DirectoryLoaded
<1>4. Settled'
  BY <1>1 DEF Settled, Quiet
<1>5. InOrder'
  BY <1>2 DEF InOrder, Alone, Done, At, Ending
<1>6. QED
  BY <1>3, <1>4, <1>5

(* Neither a restart of FreeSWITCH, nor a claim, a release or an expiry    *)
(* undoes what a request has done.                                         *)
LEMMA WorldStep ==
  ASSUME SessionInv, FreeSwitchRestarts \/ PresenceMoves \/ CredExpires
  PROVE  SessionInv'
<1> USE DEF SessionInv
<1>1. /\ UNCHANGED <<file, req, session, suspect>>
      /\ \/ loaded' = file /\ unloaded' = FALSE
         \/ UNCHANGED <<loaded, unloaded>>
      /\ presence' \in States /\ (presence = "missing" => presence' = "missing")
      /\ cred' \in {cred, None}
  BY DEF FreeSwitchRestarts, ReloadXML, PresenceMoves, Claim, Release, PresenceExpires,
         CredExpires, redis, directory, ghosts, TypeOK, States
<1>2. TypeOK'
  BY <1>1 DEF TypeOK
<1>3. DirectoryLoaded'
  BY <1>1 DEF DirectoryLoaded, At
<1>4. Settled'
  BY <1>1 DEF Settled, Quiet, At
<1>5. \A r \in Requests : Done(r) => Done(r)'
  BY <1>1 DEF Done, Agree, At, Ending
<1>6. InOrder'
  BY <1>1, <1>5 DEF InOrder, Alone, At
<1>7. QED
  BY <1>2, <1>3, <1>4, <1>6

(* Every step keeps the invariant.                                         *)
THEOREM SessionSound == Spec => []SessionInv
<1>1. SessionInv /\ [Next]_vars => SessionInv'
  <2> SUFFICES ASSUME SessionInv, [Next]_vars PROVE SessionInv'
    OBVIOUS
  <2>1. ASSUME NEW r \in Requests, Request(r) PROVE SessionInv'
    BY <2>1, StartStep, EndStep, FileStep, ReloadStep, StoreStep, DelStep, ClearStep,
       PresenceStep, SetStep, FailStep, LostStep
    DEF Request, Issue, Revoke
  <2>2. CASE UNCHANGED vars
    BY <2>2 DEF vars, SessionInv, TypeOK, Settled, DirectoryLoaded, InOrder, Alone,
                Done, Quiet, Agree, At, Ending
  <2>3. QED
    BY <2>1, <2>2, EdgeStep, WorldStep DEF Next
<1>2. QED
  BY <1>1, InitSession, PTL DEF Spec

(* The types of an agent's account and of what is done with it, for any    *)
(* number of requests and passwords.                                       *)
THEOREM TypeCorrect == Spec => []TypeOK
  BY SessionSound, PTL DEF SessionInv

(* The four stores settle together, for any number of overlapping starts,  *)
(* stops, pauses and expiries (agent.go:103-132, cred.go:64-109).          *)
THEOREM StoresSettle == Spec => []Settled
  BY SessionSound, PTL DEF SessionInv

(* FreeSWITCH never keeps an old directory, but for a reload that failed or*)
(* is about to be sent (cred.go:76-81, 102-103).                           *)
THEOREM DirectoryFollows == Spec => []DirectoryLoaded
  BY SessionSound, PTL DEF SessionInv
=============================================================================
