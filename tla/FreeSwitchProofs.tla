-------------------------- MODULE FreeSwitchProofs --------------------------
(***************************************************************************)
(* The edge's two ways to FreeSWITCH (services/edge/internal/fs): first    *)
(* Gateways, for any carriers, hosts, requests and bounds, then the        *)
(* command connection, EslClient, for any callers.                         *)
(*                                                                         *)
(* The inductive invariant of Gateways follows a reload that is alone and  *)
(* undisturbed: the carriers it is done with are as its list wants them    *)
(* (Work), and its list is what the rows say, or a change has yet to be    *)
(* heard of (Fresh).                                                       *)
(***************************************************************************)
EXTENDS Gateways, EslClient, SequenceTheorems, TLAPS

Enough(p, c) == IF Enabled(p, c) THEN reload[p].list[c] ELSE None

Right(c, h) == file[c] = h /\ (c \in leaked \/ gateway[c] = h)

Done(p, c) == /\ c \notin reload[p].todo
              /\ c # reload[p].current
              /\ reload[p].phase = "directory" \/ reload[p].list[c] # "absent"

(* What holds of every reload, disturbed or not. *)
Shape(p) ==
  /\ In(p, "next") => Current(p) = None
  /\ In(p, "kill") \/ In(p, "rescan") \/ In(p, "drop") => Current(p) \in Carriers
  /\ In(p, "kill") \/ In(p, "rescan") => Enabled(p, Current(p))
  /\ In(p, "drop") => ~Enabled(p, Current(p))
  /\ Busy(p) /\ reload[p].phase = "directory" =>
       \A c \in reload[p].todo : ~Enabled(p, c)

Work(p) ==
  Busy(p) =>
    /\ \A c \in Carriers : Done(p, c) => Right(c, Enough(p, c))
    /\ In(p, "kill") \/ In(p, "rescan") =>
         file[Current(p)] = reload[p].list[Current(p)]
    /\ In(p, "rescan") => gateway[Current(p)] \in {None, reload[p].list[Current(p)]}
    /\ In(p, "drop") => file[Current(p)] = None

Alone == \A p, q \in Goroutines : Busy(p) /\ Busy(q) => p = q

Announced == \/ pending > 0
             \/ \E r \in Requests : At(r, "publish")
             \/ In("boot", "booting")

Fresh == \/ Announced
         \/ /\ \A p \in Goroutines : Busy(p) =>
                 \A c \in Carriers : reload[p].list[c] = Asks(c)
            /\ (\A p \in Goroutines : ~Busy(p)) =>
                 \A c \in Carriers : Right(c, Wanted(c))

Clean == ~suspect => /\ Alone
                     /\ \A p \in Goroutines : Work(p)
                     /\ Fresh

IInv == /\ TypeOK
        /\ NoGhosts
        /\ \A p \in Goroutines : Shape(p)
        /\ Clean

-----------------------------------------------------------------------------
(* What a goroutine's record looks like while it reloads. *)
LEMMA ReloadFacts ==
  ASSUME TypeOK, NEW p \in Goroutines, Busy(p)
  PROVE  /\ reload[p] \in Reloads
         /\ reload[p].list \in Lists
         /\ reload[p].todo \in SUBSET Carriers
         /\ \A c \in Carriers : Enabled(p, c) => reload[p].list[c] \in Hosts
  BY DEF TypeOK, Busy, Idle, Booting, Reloads, Enabled

(* The list says of a carrier what its row wants. *)
LEMMA AsksWanted ==
  ASSUME TypeOK, NEW c \in Carriers
  PROVE  /\ Asks(c) \in Hosts \cup {"disabled", "absent"}
         /\ Wanted(c) = IF Asks(c) \in Hosts THEN Asks(c) ELSE None
         /\ Wanted(c) \in Hosts \cup {None}
  BY ValuesAssumption DEF Asks, Wanted, Exists, Rows, TypeOK

(* A reload that is disturbed owes nothing. *)
LEMMA TroubleStep ==
  ASSUME TypeOK', NoGhosts', \A p \in Goroutines : Shape(p)', suspect'
  PROVE  IInv'
  BY DEF IInv, Clean

(* Before the first change the rows are all there is.                      *)
LEMMA InitIInv == Init => IInv
<1> SUFFICES ASSUME Init PROVE IInv
  OBVIOUS
<1>1. TypeOK
  BY DEF Init, TypeOK, Goroutines
<1>2. \A p \in Goroutines : ~Busy(p)
  BY DEF Init, Busy, Booting, Idle
<1>3. \A p \in Goroutines : Shape(p)
  BY <1>2 DEF Shape, In, Busy
<1>4. NoGhosts
  BY DEF Init, NoGhosts
<1>5. Fresh
  BY DEF Init, Fresh, Announced, In, Booting, Goroutines
<1>6. QED
  BY <1>1, <1>2, <1>3, <1>4, <1>5 DEF IInv, Clean, Alone, Work

-----------------------------------------------------------------------------
(* A step of the API or of the channel: the only question is whether a row *)
(* changes without a word.                                                 *)
LEMMA QuietStep ==
  ASSUME IInv, UNCHANGED <<sofia, reload>>, TypeOK',
         ~suspect' => /\ ~suspect
                      /\ Announced' \/ (UNCHANGED row /\ ~Announced)
  PROVE  IInv'
<1>1. NoGhosts'
  BY DEF IInv, NoGhosts, In, Current, sofia
<1>2. \A p \in Goroutines : Shape(p)'
  BY DEF IInv, Shape, In, Current, Enabled, Busy
<1>3. ASSUME ~suspect' PROVE Alone' /\ Fresh' /\ \A p \in Goroutines : Work(p)'
  <2>1. Alone /\ Fresh /\ \A p \in Goroutines : Work(p)
    BY <1>3 DEF IInv, Clean
  <2>2. Alone' /\ \A p \in Goroutines : Work(p)'
    BY <2>1 DEF Alone, Work, Busy, In, Current, Done, Right, Enough, Enabled, sofia
  <2>3. CASE Announced'
    BY <2>2, <2>3 DEF Fresh
  <2>4. CASE UNCHANGED row /\ ~Announced
    <3>1. \A c \in Carriers : UNCHANGED <<Asks(c), Wanted(c)>>
      BY <2>4 DEF Asks, Wanted, Exists
    <3>2. Fresh'
      BY <2>1, <2>4, <3>1 DEF Fresh, Busy, Right, sofia
    <3>3. QED
      BY <2>2, <3>2
  <2>5. QED
    BY <1>3, <2>3, <2>4
<1>4. QED
  BY <1>1, <1>2, <1>3 DEF IInv, Clean

(* A change that is committed is about to be announced.                    *)
LEMMA RequestStep ==
  ASSUME IInv, NEW r \in Requests, Request(r)
  PROVE  IInv'
<1>1. ASSUME NEW c \in Carriers, NEW new \in Rows, Create(r, c, new) PROVE IInv'
  <2>1. TypeOK'
    BY <1>1 DEF Create, Proceed, IInv, TypeOK, channel, sofia
  <2>2. Announced'
    BY <1>1 DEF Create, Proceed, IInv, TypeOK, PublishReq, Announced, At
  <2>3. QED
    BY <1>1, <2>1, <2>2, QuietStep DEF Create, sofia
<1>2. ASSUME NEW c \in Carriers, NEW host \in Hosts \cup {None},
             NEW enabled \in BOOLEAN \cup {None}, Patch(r, c, host, enabled)
      PROVE  IInv'
  <2> DEFINE new == [pc |-> "get", carrier |-> c, enabled |-> enabled,
                     host |-> IF host = None THEN row[c].host ELSE host]
  <2>1. new \in GetReqs
    BY <1>2 DEF Patch, GetReqs, Exists, Rows, IInv, TypeOK
  <2>2. TypeOK'
    BY <1>2, <2>1 DEF Patch, Proceed, IInv, TypeOK, channel, sofia
  <2>3. Announced => Announced'
    BY <1>2 DEF Patch, Proceed, Announced, At, IInv, TypeOK, In, channel
  <2>4. QED
    BY <1>2, <2>2, <2>3, QuietStep DEF Patch, sofia
<1>3. CASE UpdateGet(r)
  <2>1. PICK new \in {IdleReq} \cup UpdateReqs : req' = [req EXCEPT ![r] = new]
    <3>1. req[r] \in GetReqs
      BY <1>3 DEF UpdateGet, At, IdleReq, PublishReq, UpdateReqs, IInv, TypeOK
    <3>2. ASSUME Exists(req[r].carrier)
          PROVE  [req[r] EXCEPT !.pc = "update",
                    !.enabled = IF @ = None THEN row[req[r].carrier].enabled
                                            ELSE @] \in UpdateReqs
      <4>1. row[req[r].carrier].enabled \in BOOLEAN
        BY <3>2 DEF Exists, Rows
      <4>2. QED
        BY <3>1, <4>1 DEF GetReqs, UpdateReqs
    <3>3. QED
      BY <1>3, <3>2 DEF UpdateGet, Proceed
  <2>2. TypeOK'
    BY <1>3, <2>1 DEF UpdateGet, IInv, TypeOK, channel, sofia
  <2>3. Announced => Announced'
    BY <1>3, <2>1 DEF UpdateGet, Announced, At, IInv, TypeOK, In, channel
  <2>4. QED
    BY <1>3, <2>2, <2>3, QuietStep DEF UpdateGet, sofia
<1>4. CASE Update(r)
  <2>1. req[r] \in UpdateReqs
    BY <1>4 DEF Update, At, IdleReq, PublishReq, GetReqs, IInv, TypeOK
  <2>2. CASE ~Exists(req[r].carrier)
    <3>1. req' = [req EXCEPT ![r] = IdleReq] /\ UNCHANGED <<row, channel, sofia, reload, suspect>>
      BY <1>4, <2>2 DEF Update, Proceed
    <3>2. TypeOK'
      BY <3>1 DEF IInv, TypeOK, channel, sofia
    <3>3. Announced => Announced'
      BY <1>4, <3>1 DEF Update, Announced, At, IInv, TypeOK, In, channel
    <3>4. QED
      BY <3>1, <3>2, <3>3, QuietStep DEF sofia
  <2>3. CASE Exists(req[r].carrier)
    <3>1. [host |-> req[r].host, enabled |-> req[r].enabled] \in Rows
      BY <2>1 DEF UpdateReqs, Rows
    <3>2. TypeOK'
      BY <1>4, <2>3, <3>1 DEF Update, Proceed, IInv, TypeOK, channel, sofia
    <3>3. Announced'
      BY <1>4, <2>3 DEF Update, Proceed, IInv, TypeOK, PublishReq, Announced, At
    <3>4. QED
      BY <1>4, <3>2, <3>3, QuietStep DEF Update, sofia
  <2>4. QED
    BY <2>2, <2>3
<1>5. ASSUME NEW c \in Carriers, Delete(r, c) PROVE IInv'
  <2>1. TypeOK'
    BY <1>5 DEF Delete, Proceed, IInv, TypeOK, channel, sofia
  <2>2. Announced'
    BY <1>5 DEF Delete, Proceed, IInv, TypeOK, PublishReq, Announced, At
  <2>3. QED
    BY <1>5, <2>1, <2>2, QuietStep DEF Delete, sofia
<1>6. CASE Publish(r)
  <2>1. TypeOK'
    <3>1. pending' \in Nat /\ suspect' \in BOOLEAN
      <4>1. \/ pending' = pending + 1 /\ suspect' = suspect
            \/ pending' = pending /\ suspect' = TRUE
        BY <1>6 DEF Publish
      <4>2. pending \in Nat /\ suspect \in BOOLEAN
        BY DEF IInv, TypeOK
      <4>3. pending' \in Nat
        BY <4>1, <4>2
      <4>4. suspect' \in BOOLEAN
        BY <4>1, <4>2, Zenon
      <4>5. QED
        BY <4>3, <4>4
    <3>2. QED
      BY <1>6, <3>1 DEF Publish, Proceed, IInv, TypeOK, sofia
  <2>2. CASE subscribed
    <3>1. Announced'
      BY <1>6, <2>2 DEF Publish, Announced, IInv, TypeOK
    <3>2. QED
      BY <1>6, <2>1, <2>2, <3>1, QuietStep DEF Publish, sofia
  <2>3. CASE ~subscribed
    BY <1>6, <2>1, <2>3, QuietStep DEF Publish, sofia
  <2>4. QED
    BY <2>2, <2>3
<1>7. CASE PublishFails(r)
  <2>1. TypeOK'
    BY <1>7 DEF PublishFails, Proceed, IInv, TypeOK, channel, sofia
  <2>2. QED
    BY <1>7, <2>1, QuietStep DEF PublishFails, sofia
<1>8. QED
  BY <1>1, <1>2, <1>3, <1>4, <1>5, <1>6, <1>7 DEF Request

(* A new subscription hears what is announced from now on; the old is over.*)
LEMMA SubscriptionStep ==
  ASSUME IInv, Subscribe \/ Unsubscribed
  PROVE  IInv'
<1>1. TypeOK'
  BY DEF Subscribe, Unsubscribed, IInv, TypeOK, db, sofia
<1>2. Announced' <=> Announced
  BY DEF Subscribe, Unsubscribed, Announced, At, In, db
<1>3. QED
  BY <1>1, <1>2, QuietStep DEF Subscribe, Unsubscribed, db, sofia

-----------------------------------------------------------------------------
(* A step of one reload that keeps its list. *)
LEMMA WorkStep ==
  ASSUME IInv, NEW p \in Goroutines, Busy(p), UNCHANGED <<db, channel, suspect>>,
         NEW new \in Reloads, reload' = [reload EXCEPT ![p] = new],
         new.list = reload[p].list,
         TypeOK', NoGhosts', Shape(p)', ~suspect => Work(p)'
  PROVE  IInv'
<1>1. Busy(p)' /\ reload'[p].list = reload[p].list
  BY DEF IInv, TypeOK, Busy, Reloads
<1>2. ASSUME NEW q \in Goroutines, q # p PROVE reload'[q] = reload[q]
  BY <1>2 DEF IInv, TypeOK
<1>3. ASSUME NEW q \in Goroutines PROVE Shape(q)'
  BY <1>2 DEF IInv, Shape, In, Current, Enabled, Busy
<1>4. ASSUME ~suspect PROVE Alone' /\ Fresh' /\ \A q \in Goroutines : Work(q)'
  <2>1. Alone /\ Fresh
    BY <1>4 DEF IInv, Clean
  <2>2. \A q \in Goroutines : q # p => ~Busy(q) /\ ~Busy(q)'
    BY <1>2, <2>1 DEF Alone, Busy
  <2>3. Alone'
    BY <2>2 DEF Alone
  <2>4. \A q \in Goroutines : Work(q)'
    BY <1>4, <2>2 DEF Work
  <2>5. Announced => Announced'
    <3>1. In("boot", "booting") => In("boot", "booting")'
      BY <1>2 DEF In, Busy
    <3>2. QED
      BY <3>1 DEF Announced, At, db, channel
  <2>6. Fresh'
    <3>1. \A c \in Carriers : UNCHANGED Asks(c)
      BY DEF Asks, Exists, db
    <3>2. QED
      BY <1>1, <2>1, <2>2, <2>5, <3>1 DEF Fresh
  <2>7. QED
    BY <2>3, <2>4, <2>6
<1>5. QED
  BY <1>3, <1>4 DEF IInv, Clean

(* A step that is not this reload's begin or end, seen from NoGhosts: the  *)
(* reload was not about to drop a gateway, so no ghost counts on it.       *)
LEMMA NoGhostsKept ==
  ASSUME IInv, NEW p \in Goroutines, ~In(p, "drop"),
         \A q \in Goroutines : q # p => reload'[q] = reload[q],
         \A c \in Carriers :
           gateway'[c] # None /\ file'[c] = None =>
             \/ gateway[c] # None /\ file[c] = None /\ (c \in leaked => c \in leaked')
             \/ In(p, "drop")' /\ Current(p)' = c
  PROVE  NoGhosts'
  BY DEF IInv, NoGhosts, In, Current

(* Writing a file brings the one in the list nearer and leaves no ghost.   *)
LEMMA WriteFileStep ==
  ASSUME IInv, NEW p \in Goroutines, NEW c \in Carriers, WriteFile(p, c)
  PROVE  IInv'
<1> DEFINE new == [reload[p] EXCEPT !.pc = "kill", !.current = c, !.todo = @ \ {c}]
           host == reload[p].list[c]
<1>1. /\ Busy(p) /\ reload[p] \in Reloads /\ c \in reload[p].todo /\ Current(p) = None
      /\ Enabled(p, c) /\ host \in Hosts /\ reload[p].phase \in Phases
  <2>1. Busy(p) /\ c \in reload[p].todo /\ Enabled(p, c) /\ Current(p) = None
    BY DEF WriteFile, NextIs, Busy, In, IInv, Shape
  <2>2. QED
    BY <2>1, ReloadFacts DEF IInv, Reloads
<1>2. /\ new \in Reloads /\ new.list = reload[p].list /\ new.phase = reload[p].phase
      /\ new.pc = "kill" /\ new.current = c /\ new.todo = reload[p].todo \ {c}
  BY <1>1 DEF Reloads
<1>3. /\ reload' = [reload EXCEPT ![p] = new] /\ reload'[p] = new
      /\ \A q \in Goroutines : q # p => reload'[q] = reload[q]
  BY <1>1 DEF WriteFile, Command, IInv, TypeOK
<1>4. /\ file' = [file EXCEPT ![c] = host] /\ file'[c] = host
      /\ leaked' = leaked \ {c} /\ UNCHANGED <<db, channel, gateway, late, suspect>>
      /\ \A k \in Carriers : k # c => file'[k] = file[k]
  BY DEF WriteFile, IInv, TypeOK
<1>5. TypeOK'
  BY <1>1, <1>2, <1>3, <1>4 DEF IInv, TypeOK, db, channel
<1>6. NoGhosts'
  <2>1. host # None
    BY <1>1, ValuesAssumption
  <2>2. QED
    BY <1>3, <1>4, <2>1, NoGhostsKept DEF WriteFile, NextIs, In
<1>7. Shape(p)'
  BY <1>1, <1>2, <1>3 DEF Shape, In, Current, Enabled, Busy, IInv
<1>8. ASSUME ~suspect PROVE Work(p)'
  <2>1. \A k \in Carriers : Done(p, k)' => Done(p, k) /\ k # c
    BY <1>1, <1>2, <1>3, ValuesAssumption DEF Done, Current
  <2>2. \A k \in Carriers : k # c /\ Right(k, Enough(p, k)) => Right(k, Enough(p, k))'
    BY <1>2, <1>3, <1>4 DEF Right, Enough, Enabled
  <2>3. QED
    BY <1>1, <1>2, <1>3, <1>4, <1>8, <2>1, <2>2 DEF Work, In, Current, IInv, Clean, Busy
<1>9. QED
  BY <1>1, <1>2, <1>3, <1>4, <1>5, <1>6, <1>7, <1>8, WorkStep

(* The commands of one carrier leave its list and its loop as they are. *)
LEMMA CommandFacts ==
  ASSUME IInv, NEW p \in Goroutines, In(p, "kill") \/ In(p, "rescan") \/ In(p, "drop")
  PROVE  /\ Busy(p) /\ reload[p] \in Reloads /\ Current(p) \in Carriers
         /\ \A c \in Carriers : Enabled(p, c) => reload[p].list[c] \in Hosts
         /\ reload[p].list \in Lists
<1>1. Busy(p)
  BY DEF Busy, In
<1>2. QED
  BY <1>1, ReloadFacts DEF IInv, Shape

(* A gateway is killed to be scanned again, while its file is there.       *)
LEMMA KillStep ==
  ASSUME IInv, NEW p \in Goroutines, KillGateway(p)
  PROVE  IInv'
<1> DEFINE new == [reload[p] EXCEPT !.pc = "rescan"]
           c == Current(p)
<1>1. /\ Busy(p) /\ reload[p] \in Reloads /\ c \in Carriers /\ In(p, "kill")
  BY CommandFacts DEF KillGateway
<1>2. /\ new \in Reloads /\ new.list = reload[p].list /\ new.phase = reload[p].phase
      /\ new.pc = "rescan" /\ new.current = c /\ new.todo = reload[p].todo
  BY <1>1 DEF Reloads, Current
<1>3. /\ reload' = [reload EXCEPT ![p] = new] /\ reload'[p] = new
      /\ \A q \in Goroutines : q # p => reload'[q] = reload[q]
  BY DEF KillGateway, IInv, TypeOK
<1>4. /\ gateway' = [gateway EXCEPT ![c] = None] /\ gateway'[c] = None
      /\ UNCHANGED <<db, channel, file, late, leaked, suspect>>
      /\ \A k \in Carriers : k # c => gateway'[k] = gateway[k]
  BY <1>1 DEF KillGateway, IInv, TypeOK
<1>5. TypeOK'
  BY <1>2, <1>3, <1>4 DEF IInv, TypeOK, db, channel
<1>6. NoGhosts'
  BY <1>1, <1>3, <1>4, NoGhostsKept DEF In
<1>7. Shape(p)'
  BY <1>1, <1>2, <1>3 DEF Shape, In, Current, Enabled, Busy, IInv
<1>8. ASSUME ~suspect PROVE Work(p)'
  <2>1. \A k \in Carriers : Done(p, k)' => Done(p, k) /\ k # c
    BY <1>1, <1>2, <1>3 DEF Done, Current
  <2>2. \A k \in Carriers : k # c /\ Right(k, Enough(p, k)) => Right(k, Enough(p, k))'
    BY <1>2, <1>3, <1>4 DEF Right, Enough, Enabled
  <2>3. QED
    BY <1>1, <1>2, <1>3, <1>4, <1>8, <2>1, <2>2 DEF Work, In, Current, IInv, Clean, Busy
<1>9. QED
  BY <1>1, <1>2, <1>3, <1>4, <1>5, <1>6, <1>7, <1>8, WorkStep

(* A rescan adds the gateways of the files that are there.                 *)
LEMMA RescanStep ==
  ASSUME IInv, NEW p \in Goroutines, Rescan(p)
  PROVE  IInv'
<1> DEFINE new == [reload[p] EXCEPT !.pc = "next", !.current = None]
<1>0. PICK c \in Carriers : c = Current(p)
  BY CommandFacts DEF Rescan
<1>1. /\ Busy(p) /\ reload[p] \in Reloads /\ In(p, "rescan")
      /\ Enabled(p, c) /\ reload[p].list[c] \in Hosts
  BY <1>0, CommandFacts DEF Rescan, IInv, Shape
<1>2. /\ new \in Reloads /\ new.list = reload[p].list /\ new.phase = reload[p].phase
      /\ new.pc = "next" /\ new.current = None /\ new.todo = reload[p].todo
  BY <1>1 DEF Reloads
<1>3. /\ reload' = [reload EXCEPT ![p] = new] /\ reload'[p] = new
      /\ \A q \in Goroutines : q # p => reload'[q] = reload[q]
  BY <1>1 DEF Rescan, Continue, IInv, TypeOK
<1>4. /\ UNCHANGED <<db, channel, file, late, leaked, suspect>>
      /\ \A k \in Carriers : gateway'[k] = IF gateway[k] = None THEN file[k] ELSE gateway[k]
      /\ gateway' \in [Carriers -> Hosts \cup {None}]
  BY DEF Rescan, LoadNew, IInv, TypeOK
<1>5. TypeOK'
  BY <1>2, <1>3, <1>4 DEF IInv, TypeOK, db, channel
<1>6. NoGhosts'
  BY <1>1, <1>3, <1>4, NoGhostsKept DEF In
<1>7. Shape(p)'
  BY <1>1, <1>2, <1>3 DEF Shape, In, Current, Enabled, Busy, IInv
<1>8. ASSUME ~suspect PROVE Work(p)'
  <2>1. Work(p)
    BY <1>8 DEF IInv, Clean
  <2>2. \A k \in Carriers : Done(p, k)' => Done(p, k) \/ k = c
    BY <1>0, <1>2, <1>3 DEF Done, Current
  <2>3. \A k \in Carriers : Right(k, Enough(p, k)) => Right(k, Enough(p, k))'
    BY <1>2, <1>3, <1>4 DEF Right, Enough, Enabled
  <2>4. Right(c, Enough(p, c))'
    <3>1. file[c] = reload[p].list[c] /\ gateway[c] \in {None, reload[p].list[c]}
      BY <1>0, <1>1, <2>1 DEF Work
    <3>2. Enough(p, c)' = reload[p].list[c]
      BY <1>1, <1>2, <1>3 DEF Enough, Enabled
    <3>3. gateway'[c] = reload[p].list[c] /\ file'[c] = reload[p].list[c]
      BY <1>1, <1>4, <3>1, ValuesAssumption
    <3>4. QED
      BY <3>2, <3>3 DEF Right
  <2>5. QED
    BY <1>1, <1>2, <1>3, <2>1, <2>2, <2>3, <2>4 DEF Work, In
<1>9. QED
  BY <1>1, <1>2, <1>3, <1>4, <1>5, <1>6, <1>7, <1>8, WorkStep

(* Whoever removes a file has its gateway to drop next.                    *)
LEMMA RemoveFileStep ==
  ASSUME IInv, NEW p \in Goroutines, NEW c \in Carriers, RemoveFile(p, c)
  PROVE  IInv'
<1> DEFINE new == [reload[p] EXCEPT !.pc = "drop", !.current = c, !.todo = @ \ {c}]
<1>1. /\ Busy(p) /\ reload[p] \in Reloads /\ c \in reload[p].todo /\ Current(p) = None
      /\ ~Enabled(p, c)
  <2>1. Busy(p) /\ c \in reload[p].todo /\ ~Enabled(p, c) /\ Current(p) = None
    BY DEF RemoveFile, Unwanted, NextIs, Busy, In, IInv, Shape
  <2>2. QED
    BY <2>1, ReloadFacts DEF IInv
<1>2. /\ new \in Reloads /\ new.list = reload[p].list /\ new.phase = reload[p].phase
      /\ new.pc = "drop" /\ new.current = c /\ new.todo = reload[p].todo \ {c}
  BY <1>1 DEF Reloads
<1>3. /\ reload' = [reload EXCEPT ![p] = new] /\ reload'[p] = new
      /\ \A q \in Goroutines : q # p => reload'[q] = reload[q]
  BY <1>1 DEF RemoveFile, Command, IInv, TypeOK
<1>4. /\ file' = [file EXCEPT ![c] = None] /\ file'[c] = None
      /\ UNCHANGED <<db, channel, gateway, late, leaked, suspect>>
      /\ \A k \in Carriers : k # c => file'[k] = file[k]
  BY DEF RemoveFile, IInv, TypeOK
<1>5. TypeOK'
  BY <1>2, <1>3, <1>4 DEF IInv, TypeOK, db, channel
<1>6. NoGhosts'
  <2>1. ~In(p, "drop") /\ In(p, "drop")' /\ Current(p)' = c
    BY <1>2, <1>3 DEF RemoveFile, NextIs, In, Current
  <2>2. QED
    BY <1>3, <1>4, <2>1, NoGhostsKept
<1>7. Shape(p)'
  BY <1>1, <1>2, <1>3 DEF Shape, In, Current, Enabled, Busy, IInv
<1>8. ASSUME ~suspect PROVE Work(p)'
  <2>1. \A k \in Carriers : Done(p, k)' => Done(p, k) /\ k # c
    BY <1>1, <1>2, <1>3, ValuesAssumption DEF Done, Current
  <2>2. \A k \in Carriers : k # c /\ Right(k, Enough(p, k)) => Right(k, Enough(p, k))'
    BY <1>2, <1>3, <1>4 DEF Right, Enough, Enabled
  <2>3. QED
    BY <1>1, <1>2, <1>3, <1>4, <1>8, <2>1, <2>2 DEF Work, In, Current, IInv, Clean, Busy
<1>9. QED
  BY <1>1, <1>2, <1>3, <1>4, <1>5, <1>6, <1>7, <1>8, WorkStep

(* The gateway of the removed file is gone.                                *)
LEMMA DropStep ==
  ASSUME IInv, NEW p \in Goroutines, DropGateway(p)
  PROVE  IInv'
<1> DEFINE new == [reload[p] EXCEPT !.pc = "next", !.current = None]
<1>0. PICK c \in Carriers : c = Current(p)
  BY CommandFacts DEF DropGateway
<1>1. Busy(p) /\ reload[p] \in Reloads /\ In(p, "drop") /\ ~Enabled(p, c)
  BY <1>0, CommandFacts DEF DropGateway, IInv, Shape
<1>2. /\ new \in Reloads /\ new.list = reload[p].list /\ new.phase = reload[p].phase
      /\ new.pc = "next" /\ new.current = None /\ new.todo = reload[p].todo
  BY <1>1 DEF Reloads
<1>3. /\ reload' = [reload EXCEPT ![p] = new] /\ reload'[p] = new
      /\ \A q \in Goroutines : q # p => reload'[q] = reload[q]
  BY <1>1 DEF DropGateway, Continue, IInv, TypeOK
<1>4. /\ gateway' = [gateway EXCEPT ![c] = None] /\ gateway'[c] = None
      /\ leaked' = leaked \ {c} /\ UNCHANGED <<db, channel, file, late, suspect>>
      /\ \A k \in Carriers : k # c => gateway'[k] = gateway[k]
  BY <1>0 DEF DropGateway, IInv, TypeOK
<1>5. TypeOK'
  BY <1>2, <1>3, <1>4 DEF IInv, TypeOK, db, channel
<1>6. NoGhosts'
  BY <1>0, <1>3, <1>4 DEF IInv, NoGhosts, In, Current
<1>7. Shape(p)'
  BY <1>1, <1>2, <1>3 DEF Shape, In, Current, Enabled, Busy, IInv
<1>8. ASSUME ~suspect PROVE Work(p)'
  <2>1. Work(p)
    BY <1>8 DEF IInv, Clean
  <2>2. \A k \in Carriers : Done(p, k)' => Done(p, k) \/ k = c
    BY <1>0, <1>2, <1>3 DEF Done, Current
  <2>3. \A k \in Carriers : k # c /\ Right(k, Enough(p, k)) => Right(k, Enough(p, k))'
    BY <1>2, <1>3, <1>4 DEF Right, Enough, Enabled
  <2>4. Right(c, Enough(p, c))'
    <3>1. Enough(p, c)' = None
      BY <1>1, <1>2, <1>3 DEF Enough, Enabled
    <3>2. file'[c] = None
      BY <1>0, <1>1, <1>4, <2>1 DEF Work
    <3>3. QED
      BY <1>4, <3>1, <3>2 DEF Right
  <2>5. QED
    BY <1>1, <1>2, <1>3, <2>1, <2>2, <2>3, <2>4 DEF Work, In
<1>9. QED
  BY <1>1, <1>2, <1>3, <1>4, <1>5, <1>6, <1>7, <1>8, WorkStep

(* The directory is read when every listed carrier has been dealt with: a  *)
(* carrier that is neither listed nor in the directory has no gateway.     *)
LEMMA ReadDirStep ==
  ASSUME IInv, NEW p \in Goroutines, ReadDir(p)
  PROVE  IInv'
<1> DEFINE todo == {c \in Carriers : file[c] # None /\ ~Enabled(p, c)}
           new == [reload[p] EXCEPT !.phase = "directory", !.todo = todo]
<1>1. /\ Busy(p) /\ reload[p] \in Reloads /\ In(p, "next") /\ Current(p) = None
      /\ reload[p].todo = {} /\ reload[p].list \in Lists
  <2>1. Busy(p) /\ In(p, "next") /\ Current(p) = None /\ reload[p].todo = {}
    BY DEF ReadDir, LoopDone, Busy, In, IInv, Shape
  <2>2. QED
    BY <2>1, ReloadFacts DEF IInv
<1>2. /\ new \in Reloads /\ new.list = reload[p].list /\ new.phase = "directory"
      /\ new.pc = "next" /\ new.current = None /\ new.todo = todo
  <2>1. todo \in SUBSET Carriers /\ "directory" \in Phases
    BY DEF Phases
  <2>2. QED
    BY <1>1, <2>1 DEF Reloads, In, Current
<1>3. /\ reload' = [reload EXCEPT ![p] = new] /\ reload'[p] = new
      /\ \A q \in Goroutines : q # p => reload'[q] = reload[q]
  BY <1>1 DEF ReadDir, IInv, TypeOK
<1>4. UNCHANGED <<db, channel, sofia, suspect>>
  BY DEF ReadDir
<1>5. TypeOK'
  BY <1>2, <1>3, <1>4 DEF IInv, TypeOK, db, channel, sofia
<1>6. NoGhosts'
  BY <1>1, <1>3, <1>4, NoGhostsKept DEF In, sofia
<1>7. Shape(p)'
  BY <1>2, <1>3 DEF Shape, In, Current, Enabled, Busy
<1>8. ASSUME ~suspect PROVE Work(p)'
  <2>1. Work(p) /\ Alone
    BY <1>8 DEF IInv, Clean
  <2>2. ASSUME NEW c \in Carriers, Done(p, c)' PROVE Right(c, Enough(p, c))
    <3>1. c \notin todo
      BY <1>2, <1>3, <2>2 DEF Done
    <3>2. c # reload[p].current
      BY <1>1, ValuesAssumption DEF Current
    <3>3. CASE reload[p].list[c] # "absent"
      <4>1. Done(p, c)
        BY <1>1, <3>2, <3>3 DEF Done
      <4>2. QED
        BY <1>1, <2>1, <4>1 DEF Work
    <3>4. CASE reload[p].list[c] = "absent"
      <4>1. ~Enabled(p, c)
        BY <3>4, ValuesAssumption DEF Enabled
      <4>2. file[c] = None
        BY <3>1, <4>1
      <4>3. \A q \in Goroutines : ~In(q, "drop")
        BY <1>1, <2>1 DEF Alone, Busy, In
      <4>4. QED
        BY <4>1, <4>2, <4>3 DEF IInv, NoGhosts, Right, Enough
    <3>5. QED
      BY <3>3, <3>4
  <2>3. \A c \in Carriers : Right(c, Enough(p, c)) => Right(c, Enough(p, c))'
    BY <1>2, <1>3, <1>4 DEF Right, Enough, Enabled, sofia
  <2>4. QED
    BY <1>2, <1>3, <2>2, <2>3 DEF Work, In
<1>9. QED
  BY <1>1, <1>2, <1>3, <1>4, <1>5, <1>6, <1>7, <1>8, WorkStep

(* The end of a reload: everything is done, and the list is what the rows  *)
(* say unless somebody has yet to announce otherwise.                      *)
LEMMA FinishStep ==
  ASSUME IInv, NEW p \in Goroutines, Finish(p)
  PROVE  IInv'
<1>1. /\ Busy(p) /\ In(p, "next") /\ Current(p) = None
      /\ reload[p].todo = {} /\ reload[p].phase = "directory"
  BY DEF Finish, LoopDone, Busy, In, IInv, Shape
<1>2. /\ reload' = [reload EXCEPT ![p] = Idle] /\ reload'[p] = Idle
      /\ \A q \in Goroutines : q # p => reload'[q] = reload[q]
      /\ UNCHANGED <<db, channel, sofia, suspect>>
  BY DEF Finish, Reloading, IInv, TypeOK
<1>3. TypeOK'
  BY <1>2 DEF IInv, TypeOK, db, channel, sofia
<1>4. NoGhosts'
  BY <1>1, <1>2, NoGhostsKept DEF In, sofia
<1>5. \A q \in Goroutines : Shape(q)'
  BY <1>2 DEF IInv, Shape, In, Current, Enabled, Busy, Idle
<1>6. ASSUME ~suspect PROVE Alone' /\ Fresh' /\ \A q \in Goroutines : Work(q)'
  <2>1. Alone /\ Fresh /\ Work(p)
    BY <1>6 DEF IInv, Clean
  <2>2. \A q \in Goroutines : ~Busy(q)'
    BY <1>1, <1>2, <2>1 DEF Alone, Busy, Idle
  <2>3. CASE Announced
    <3>1. Announced'
      BY <1>1, <1>2, <2>3 DEF Announced, At, In, db, channel
    <3>2. QED
      BY <2>2, <3>1 DEF Alone, Fresh, Work
  <2>4. CASE ~Announced
    <3>1. ASSUME NEW c \in Carriers PROVE Right(c, Wanted(c))
      <4>1. reload[p].list[c] = Asks(c)
        BY <1>1, <2>1, <2>4 DEF Fresh
      <4>2. Enough(p, c) = Wanted(c)
        BY <4>1, AsksWanted DEF Enough, Enabled, IInv
      <4>3. Done(p, c)
        BY <1>1, ValuesAssumption DEF Done, Current
      <4>4. QED
        BY <1>1, <2>1, <4>2, <4>3 DEF Work
    <3>2. \A c \in Carriers : Right(c, Wanted(c))'
      BY <1>2, <3>1 DEF Right, Wanted, Exists, db, sofia
    <3>3. QED
      BY <2>2, <3>2 DEF Alone, Fresh, Work
  <2>5. QED
    BY <2>3, <2>4
<1>7. QED
  BY <1>2, <1>3, <1>4, <1>5, <1>6 DEF IInv, Clean

(* The begin of a reload.  With the other one idle, it owes nothing yet,   *)
(* and its list is the rows.                                               *)
LEMMA ListStep ==
  ASSUME IInv, NEW p \in Goroutines, List(p)
  PROVE  IInv'
<1> DEFINE list == [c \in Carriers |-> Asks(c)]
           new == [pc |-> "next", phase |-> "list", list |-> list, current |-> None,
                   todo |-> {c \in Carriers : list[c] # "absent"}]
<1>1. new \in Reloads
  <2>1. list \in Lists
    BY AsksWanted DEF IInv, Lists
  <2>2. new.todo \in SUBSET Carriers
    OBVIOUS
  <2>3. QED
    BY <2>1, <2>2 DEF Reloads, Phases
<1>2. /\ reload' = [reload EXCEPT ![p] = new] /\ reload'[p] = new
      /\ \A q \in Goroutines : q # p => reload'[q] = reload[q]
      /\ ~Busy(p)
  BY DEF List, Reloading, Begin, In, Busy, IInv, TypeOK
<1>3. UNCHANGED <<db, subscribed, sofia>>
  BY DEF List
<1>4. TypeOK'
  <2>1. pending' \in Nat
    BY DEF List, Begin, IInv, TypeOK
  <2>2. suspect' \in BOOLEAN
    BY Zenon DEF List
  <2>3. QED
    BY <1>1, <1>2, <1>3, <2>1, <2>2 DEF IInv, TypeOK, db, sofia
<1>5. NoGhosts'
  BY <1>2, <1>3, NoGhostsKept DEF In, Busy, sofia
<1>6. ASSUME NEW q \in Goroutines PROVE Shape(q)'
  BY <1>2 DEF IInv, Shape, In, Current, Enabled, Busy
<1>7. ASSUME ~suspect' PROVE Alone' /\ Fresh' /\ \A q \in Goroutines : Work(q)'
  <2>1. \A q \in Goroutines \ {p} : ~Busy(q) /\ ~Busy(q)'
    <3>1. \A q \in Goroutines \ {p} : ~Busy(q)
      BY <1>7 DEF List
    <3>2. QED
      BY <1>2, <3>1 DEF Busy
  <2>2. Work(p)'
    <3>1. \A c \in Carriers : ~Done(p, c)'
      BY <1>2 DEF Done
    <3>2. QED
      BY <1>2, <3>1 DEF Work, In
  <2>3. \A c \in Carriers : reload'[p].list[c] = Asks(c)'
    BY <1>2, <1>3 DEF Asks, Exists, db
  <2>4. Busy(p)'
    BY <1>2 DEF Busy
  <2>5. QED
    BY <2>1, <2>2, <2>3, <2>4 DEF Alone, Fresh, Work
<1>8. QED
  BY <1>4, <1>5, <1>6, <1>7 DEF IInv, Clean

-----------------------------------------------------------------------------
(* What fails, and is noted. *)
LEMMA FailureStep ==
  ASSUME IInv, NEW p \in Goroutines,
         \/ ListFails(p) \/ ReadDirFails(p) \/ CommandFails(p)
         \/ \E c \in Carriers : CarrierSkipped(p, c) \/ RemoveFails(p, c)
  PROVE  IInv'
<1>1. ASSUME ListFails(p) \/ ReadDirFails(p) PROVE IInv'
  <2>1. /\ reload' = [reload EXCEPT ![p] = Idle] /\ reload'[p] = Idle
        /\ \A q \in Goroutines : q # p => reload'[q] = reload[q]
        /\ UNCHANGED <<db, subscribed, sofia>> /\ suspect' = TRUE
    BY <1>1 DEF ListFails, ReadDirFails, Reloading, IInv, TypeOK, channel
  <2>2. pending' \in Nat
    BY <1>1 DEF ListFails, ReadDirFails, Begin, IInv, TypeOK, channel
  <2>3. TypeOK'
    BY <2>1, <2>2 DEF IInv, TypeOK, db, sofia
  <2>4. ~In(p, "drop")
    BY <1>1 DEF ListFails, ReadDirFails, Begin, LoopDone, In
  <2>5. NoGhosts'
    BY <2>1, <2>4, NoGhostsKept DEF sofia
  <2>6. \A q \in Goroutines : Shape(q)'
    BY <2>1 DEF IInv, Shape, In, Current, Enabled, Busy, Idle
  <2>7. QED
    BY <2>1, <2>3, <2>5, <2>6, TroubleStep
<1>2. ASSUME NEW c \in Carriers, CarrierSkipped(p, c) PROVE IInv'
  <2> DEFINE new == [reload[p] EXCEPT !.todo = @ \ {c}]
  <2>1. Busy(p) /\ reload[p] \in Reloads /\ In(p, "next")
    BY <1>2, ReloadFacts DEF CarrierSkipped, NextIs, Busy, In, IInv
  <2>2. /\ new \in Reloads /\ new.list = reload[p].list /\ new.phase = reload[p].phase
        /\ new.pc = "next" /\ new.current = reload[p].current
        /\ new.todo = reload[p].todo \ {c}
    BY <2>1 DEF Reloads, In
  <2>3. /\ reload' = [reload EXCEPT ![p] = new] /\ reload'[p] = new
        /\ \A q \in Goroutines : q # p => reload'[q] = reload[q]
        /\ UNCHANGED <<db, channel, sofia>> /\ suspect' = TRUE
    BY <1>2, <2>1 DEF CarrierSkipped, IInv, TypeOK
  <2>4. TypeOK'
    BY <2>2, <2>3 DEF IInv, TypeOK, db, channel, sofia
  <2>5. NoGhosts'
    BY <2>1, <2>3, NoGhostsKept DEF In, sofia
  <2>6. \A q \in Goroutines : Shape(q)'
    BY <2>1, <2>2, <2>3 DEF IInv, Shape, In, Current, Enabled, Busy
  <2>7. QED
    BY <2>3, <2>4, <2>5, <2>6, TroubleStep
<1>3. ASSUME NEW c \in Carriers, RemoveFails(p, c) PROVE IInv'
  <2> DEFINE new == [reload[p] EXCEPT !.pc = "drop", !.current = c, !.todo = @ \ {c}]
  <2>1. Busy(p) /\ reload[p] \in Reloads /\ In(p, "next") /\ ~Enabled(p, c)
    <3>1. Busy(p) /\ In(p, "next") /\ ~Enabled(p, c)
      BY <1>3 DEF RemoveFails, Unwanted, NextIs, Busy, In, IInv, Shape
    <3>2. QED
      BY <3>1, ReloadFacts DEF IInv
  <2>2. /\ new \in Reloads /\ new.list = reload[p].list /\ new.phase = reload[p].phase
        /\ new.pc = "drop" /\ new.current = c /\ new.todo = reload[p].todo \ {c}
    BY <2>1 DEF Reloads
  <2>3. /\ reload' = [reload EXCEPT ![p] = new] /\ reload'[p] = new
        /\ \A q \in Goroutines : q # p => reload'[q] = reload[q]
        /\ UNCHANGED <<db, channel, sofia>> /\ suspect' = TRUE
    BY <1>3, <2>1 DEF RemoveFails, Command, IInv, TypeOK
  <2>4. TypeOK'
    BY <2>2, <2>3 DEF IInv, TypeOK, db, channel, sofia
  <2>5. NoGhosts'
    BY <2>1, <2>3, NoGhostsKept DEF In, sofia
  <2>6. \A q \in Goroutines : Shape(q)'
    BY <2>1, <2>2, <2>3 DEF IInv, Shape, In, Current, Enabled, Busy
  <2>7. QED
    BY <2>3, <2>4, <2>5, <2>6, TroubleStep
<1>4. ASSUME CommandFails(p) PROVE IInv'
  <2>1. /\ Busy(p) /\ reload[p] \in Reloads /\ Current(p) \in Carriers
        /\ In(p, "kill") => Enabled(p, Current(p))
    BY <1>4, CommandFacts DEF CommandFails, Sent, IInv, Shape
  <2>2. PICK new \in Reloads :
          /\ reload' = [reload EXCEPT ![p] = new]
          /\ new.list = reload[p].list /\ new.phase = reload[p].phase
          /\ new.todo = reload[p].todo
          /\ \/ new.pc = "next" /\ new.current = None
             \/ new.pc = "rescan" /\ new.current = Current(p) /\ In(p, "kill")
    <3> DEFINE killed == [reload[p] EXCEPT !.pc = "rescan"]
               done == [reload[p] EXCEPT !.pc = "next", !.current = None]
    <3>1. /\ killed \in Reloads /\ killed.list = reload[p].list
          /\ killed.phase = reload[p].phase /\ killed.todo = reload[p].todo
          /\ killed.pc = "rescan" /\ killed.current = Current(p)
      BY <2>1 DEF Reloads, Current
    <3>2. /\ done \in Reloads /\ done.list = reload[p].list
          /\ done.phase = reload[p].phase /\ done.todo = reload[p].todo
          /\ done.pc = "next" /\ done.current = None
      BY <2>1 DEF Reloads
    <3>3. CASE In(p, "kill")
      BY <1>4, <3>1, <3>3 DEF CommandFails
    <3>4. CASE ~In(p, "kill")
      <4>1. reload' = [reload EXCEPT ![p] = done]
        BY <1>4, <2>1, <3>4 DEF CommandFails, Continue, IInv, TypeOK
      <4>2. QED
        BY <3>2, <4>1
    <3>5. QED
      BY <3>3, <3>4
  <2>3. /\ reload'[p] = new /\ leaked' = leaked \cup Left(p) /\ suspect' = TRUE
        /\ \A q \in Goroutines : q # p => reload'[q] = reload[q]
        /\ UNCHANGED <<db, channel, file, gateway>>
    BY <1>4, <2>2 DEF CommandFails, IInv, TypeOK
  <2>4. TypeOK'
    <3>1. late' \subseteq Carriers \cup {"rescan"}
      BY <1>4, <2>1 DEF CommandFails, MayComeLate, Sent, IInv, TypeOK
    <3>2. QED
      BY <2>2, <2>3, <3>1 DEF IInv, TypeOK, db, channel, Left
  <2>5. NoGhosts'
    <3>1. ASSUME NEW c \in Carriers, gateway[c] # None, file[c] = None, c \notin leaked'
          PROVE  \E q \in Goroutines : In(q, "drop")' /\ Current(q)' = c
      <4>1. PICK q \in Goroutines : In(q, "drop") /\ Current(q) = c
        BY <2>3, <3>1 DEF IInv, NoGhosts
      <4>2. q # p
        BY <2>3, <3>1, <4>1 DEF Left
      <4>3. QED
        BY <2>3, <4>1, <4>2 DEF In, Current
    <3>2. QED
      BY <2>3, <3>1 DEF NoGhosts
  <2>6. \A q \in Goroutines : Shape(q)'
    BY <2>1, <2>2, <2>3 DEF IInv, Shape, In, Current, Enabled, Busy
  <2>7. QED
    BY <2>3, <2>4, <2>5, <2>6, TroubleStep
<1>5. QED
  BY <1>1, <1>2, <1>3, <1>4

(* A killed edge begins again with a reload, and has nobody busy before. *)
LEMMA RestartStep ==
  ASSUME IInv, EdgeRestarts \/ FreeSwitchRestarts
  PROVE  IInv'
<1>1. CASE EdgeRestarts
  <2>1. TypeOK'
    <3>1. \A p \in Goroutines : Sent(p) \subseteq Carriers \cup {"rescan"}
      BY DEF Sent, IInv, Shape
    <3>2. late' \subseteq Carriers \cup {"rescan"}
      BY <1>1, <3>1 DEF EdgeRestarts, MayComeLate, IInv, TypeOK
    <3>3. QED
      BY <1>1, <3>2 DEF EdgeRestarts, IInv, TypeOK, db, Left
  <2>2. reload' = [p \in Goroutines |-> IF p = "boot" THEN Booting ELSE Idle]
    BY <1>1 DEF EdgeRestarts
  <2>3. \A p \in Goroutines : ~Busy(p)'
    BY <2>2 DEF Busy, Booting, Idle
  <2>4. \A p \in Goroutines : Shape(p)'
    BY <2>2, <2>3 DEF Shape, In, Booting, Idle
  <2>5. NoGhosts'
    BY <1>1 DEF EdgeRestarts, IInv, NoGhosts, Left
  <2>6. Fresh'
    BY <2>2 DEF Fresh, Announced, In, Booting, Goroutines
  <2>7. QED
    BY <2>1, <2>3, <2>4, <2>5, <2>6 DEF IInv, Clean, Alone, Work
<1>2. CASE FreeSwitchRestarts
  <2>1. gateway' = file /\ UNCHANGED <<db, channel, file, reload, suspect>>
    BY <1>2 DEF FreeSwitchRestarts
  <2>2. TypeOK'
    BY <1>2 DEF FreeSwitchRestarts, IInv, TypeOK, db, channel
  <2>3. NoGhosts'
    BY <2>1 DEF NoGhosts
  <2>4. \A p \in Goroutines : Shape(p)'
    BY <2>1 DEF IInv, Shape, In, Current, Enabled, Busy
  <2>5. ASSUME ~suspect PROVE Alone' /\ Fresh' /\ \A p \in Goroutines : Work(p)'
    <3>1. Alone /\ Fresh /\ \A p \in Goroutines : Work(p)
      BY <2>5 DEF IInv, Clean
    <3>2. \A c \in Carriers : \A h : Right(c, h) => file'[c] = h /\ gateway'[c] = h
      BY <2>1 DEF Right
    <3>3. Alone'
      BY <2>1, <3>1 DEF Alone, Busy
    <3>4. Announced => Announced'
      BY <2>1 DEF Announced, At, In, db, channel
    <3>5. \A c \in Carriers : Right(c, Wanted(c)) => Right(c, Wanted(c))'
      BY <2>1, <3>2 DEF Right, Wanted, Exists, db
    <3>6. \A c \in Carriers : UNCHANGED Asks(c)
      BY <2>1 DEF Asks, Exists, db
    <3>7. Fresh'
      BY <2>1, <3>1, <3>4, <3>5, <3>6 DEF Fresh, Busy
    <3>8. ASSUME NEW p \in Goroutines PROVE Work(p)'
      <4>1. \A c \in Carriers : Right(c, Enough(p, c)) => Right(c, Enough(p, c))'
        BY <2>1, <3>2 DEF Right, Enough, Enabled
      <4>2. \A c \in Carriers : Done(p, c)' <=> Done(p, c)
        BY <2>1 DEF Done
      <4>3. QED
        BY <2>1, <3>1, <4>1, <4>2 DEF Work, Busy, In, Current
    <3>9. QED
      BY <3>3, <3>7, <3>8
  <2>6. QED
    BY <2>1, <2>2, <2>3, <2>4, <2>5 DEF IInv, Clean
<1>3. QED
  BY <1>1, <1>2

(* A command that comes late disturbs, and leaves no ghost: a rescan loads *)
(* what has a file, and a killgw takes away.                               *)
LEMMA LateStep ==
  ASSUME IInv, LateRescan \/ \E c \in Carriers : LateKill(c)
  PROVE  IInv'
<1>1. /\ suspect' = TRUE /\ UNCHANGED <<db, channel, file, reload>>
      /\ late' \subseteq late /\ leaked' \subseteq leaked
      /\ gateway' \in [Carriers -> Hosts \cup {None}]
      /\ \A c \in Carriers : gateway'[c] # None /\ file[c] = None
                            => gateway[c] # None /\ (c \in leaked => c \in leaked')
  BY DEF LateRescan, LateKill, LoadNew, IInv, TypeOK
<1>2. TypeOK'
  BY <1>1 DEF IInv, TypeOK, db, channel
<1>3. NoGhosts'
  BY <1>1 DEF IInv, NoGhosts, In, Current
<1>4. \A p \in Goroutines : Shape(p)'
  BY <1>1 DEF IInv, Shape, In, Current, Enabled, Busy
<1>5. QED
  BY <1>1, <1>2, <1>3, <1>4, TroubleStep

(* Every step keeps the invariant.                                         *)
LEMMA NextIInv == IInv /\ [Next]_vars => IInv'
<1> SUFFICES ASSUME IInv, [Next]_vars PROVE IInv'
  OBVIOUS
<1>1. ASSUME NEW r \in Requests, Request(r) PROVE IInv'
  BY <1>1, RequestStep
<1>2. ASSUME NEW p \in Goroutines, ReloadAll(p) PROVE IInv'
  BY <1>2, WriteFileStep, KillStep, RescanStep, RemoveFileStep, DropStep, ReadDirStep,
     FinishStep, ListStep, FailureStep
     DEF ReloadAll, ApplyCarrierGateway, RemoveCarrierGateway
<1>3. CASE Subscribe \/ Unsubscribed
  BY <1>3, SubscriptionStep
<1>4. CASE EdgeRestarts \/ FreeSwitchRestarts
  BY <1>4, RestartStep
<1>5. CASE UNCHANGED vars
  <2>1. TypeOK' /\ (Announced => Announced')
    BY <1>5 DEF IInv, TypeOK, vars, Announced, At, In
  <2>2. QED
    BY <1>5, <2>1, QuietStep DEF vars, sofia
<1>6. CASE LateRescan \/ \E c \in Carriers : LateKill(c)
  BY <1>6, LateStep
<1>7. QED
  BY <1>1, <1>2, <1>3, <1>4, <1>5, <1>6 DEF Next

(* So it holds throughout.                                                 *)
LEMMA Inductive == Spec => []IInv
  BY InitIInv, NextIInv, PTL DEF Spec

-----------------------------------------------------------------------------
(* Every variable keeps its type. *)
THEOREM TypeCorrect == Spec => []TypeOK
<1>1. IInv => TypeOK
  BY DEF IInv
<1>2. QED
  BY <1>1, Inductive, PTL

(* A gateway without a file is about to be killed, or a killgw has failed, *)
(* or an edge has died before it (gateway.go:44-57).                       *)
THEOREM NoGhostsEver == Spec => []NoGhosts
<1>1. IInv => NoGhosts
  BY DEF IInv
<1>2. QED
  BY <1>1, Inductive, PTL

(* With nothing on its way, the directory and Sofia hold the enabled       *)
(* carriers and nothing else, unless a failure or an overlap has not been  *)
(* followed by a reload alone (gateway.go:182-247).                        *)
THEOREM AlwaysCaughtUp == Spec => []CaughtUp
<1>1. IInv => CaughtUp
  <2> SUFFICES ASSUME IInv, Quiet, ~suspect
               PROVE  \A c \in Carriers : Right(c, Wanted(c))
    BY DEF CaughtUp, Right
  <2>1. ~Announced
    BY DEF Quiet, Announced, In, Goroutines
  <2>2. \A p \in Goroutines : ~Busy(p)
    BY DEF Quiet, Busy, In
  <2>3. Fresh
    BY DEF IInv, Clean
  <2>4. QED
    BY <2>1, <2>2, <2>3 DEF Fresh
<1>2. QED
  BY <1>1, Inductive, PTL

-----------------------------------------------------------------------------
(* EslClient.  What the mutex gives is Exclusive: only its holder is past  *)
(* Lock.  From that follows OneCommand, which makes the unnumbered replies *)
(* safe: the connection carries the one command of the holder that waits   *)
(* for it, or nothing.                                                     *)
Locks(c) == pc[c] \in {"dial", "send", "wait", "connect"}

Exclusive == \A c \in Clients : Locks(c) <=> holder = c

OneCommand ==
  /\ \A c \in Clients : pc[c] \in {"send", "wait"} => connected
  /\ \A c \in Clients : pc[c] = "wait" => Len(wire) = 1 /\ wire[1].by = c
  /\ (\A c \in Clients : pc[c] # "wait") => wire = <<>>

EslInv == EslTypeOK /\ Exclusive /\ OneCommand

(* At first nobody holds the mutex and nothing is connected.               *)
LEMMA InitEsl == EslInit => EslInv
<1> SUFFICES ASSUME EslInit PROVE EslInv
  OBVIOUS
<1>1. EslTypeOK
  BY DEF EslInit, EslTypeOK
<1>2. \A c \in Clients : ~Locks(c) /\ pc[c] # "wait" /\ pc[c] # "send" /\ holder # c
  BY KeeperAssumption DEF EslInit, Locks, Clients
<1>3. QED
  BY <1>1, <1>2 DEF EslInit, EslInv, Exclusive, OneCommand

(* While a client holds the mutex no other is at a step that needs it. *)
LEMMA HolderAlone ==
  ASSUME EslInv, NEW c \in Clients, holder = c
  PROVE  \A d \in Clients : d # c => ~Locks(d)
  BY DEF EslInv, Exclusive

(* Nothing is on the connection unless somebody waits for it. *)
LEMMA WireQuiet ==
  ASSUME EslInv, holder = Nobody \/ \E c \in Clients : Locks(c) /\ pc[c] # "wait"
  PROVE  wire = <<>>
<1>1. \A c \in Clients : pc[c] # "wait"
  BY KeeperAssumption DEF EslInv, Exclusive, Locks, Clients
<1>2. QED
  BY <1>1 DEF EslInv, OneCommand

(* Who returns from a locked call leaves the connection empty and unlocks. *)
LEMMA ReturnStep ==
  ASSUME EslInv, NEW c \in Clients, Locks(c), NEW o \in {"ok", "error"},
         connected' \in BOOLEAN, wire' = <<>>, left' \in [Clients -> Nat], Return(c, o)
  PROVE  EslInv'
<1>1. holder = c
  BY DEF EslInv, Exclusive
<1>2. pc' = [pc EXCEPT ![c] = "idle"] /\ holder' = Nobody
  BY DEF Return, Goto
<1>3. EslTypeOK'
  BY <1>2 DEF EslInv, EslTypeOK, Return, Commands
<1>4. \A d \in Clients : ~Locks(d)'
  BY <1>1, <1>2, HolderAlone DEF EslInv, EslTypeOK, Locks
<1>5. Exclusive'
  BY <1>2, <1>4, KeeperAssumption DEF Exclusive, Clients
<1>6. OneCommand'
  BY <1>4 DEF OneCommand, Locks
<1>7. QED
  BY <1>3, <1>5, <1>6 DEF EslInv

(* A caller that waits for the mutex touches nothing.                      *)
LEMMA CallStep ==
  ASSUME EslInv, NEW c \in Clients, Call(c)
  PROVE  EslInv'
<1>1. EslTypeOK'
  BY DEF EslInv, EslTypeOK, Call, Goto, Commands
<1>2. \A d \in Clients : (Locks(d)' <=> Locks(d)) /\ (pc'[d] = pc[d] \/ ~Locks(d)')
  BY DEF EslInv, EslTypeOK, Call, Goto, Locks
<1>3. QED
  BY <1>1, <1>2 DEF EslInv, EslTypeOK, Call, Goto, Exclusive, OneCommand, Locks

(* The mutex goes to a caller only when nobody has it.                     *)
LEMMA LockStep ==
  ASSUME EslInv, NEW c \in Clients, Lock(c)
  PROVE  EslInv'
<1>1. PICK l \in {"connect", "send", "dial"} :
        pc' = [pc EXCEPT ![c] = l] /\ (l = "send" => connected)
  BY DEF Lock, Goto
<1>2. EslTypeOK'
  BY <1>1 DEF EslInv, EslTypeOK, Lock, Commands
<1>3. \A d \in Clients : ~Locks(d)
  BY KeeperAssumption DEF EslInv, Exclusive, Lock, Clients
<1>4. \A d \in Clients : Locks(d)' <=> d = c
  BY <1>1, <1>3 DEF EslInv, EslTypeOK, Locks
<1>5. wire' = <<>>
  BY WireQuiet DEF Lock
<1>6. OneCommand'
  BY <1>1, <1>4, <1>5 DEF EslInv, EslTypeOK, OneCommand, Locks, Lock
<1>7. QED
  BY <1>2, <1>4, <1>6 DEF EslInv, Exclusive, Lock

(* A new connection has nothing on it.                                     *)
LEMMA DialStep ==
  ASSUME EslInv, NEW c \in Clients, Dial(c)
  PROVE  EslInv'
<1>1. pc' = [pc EXCEPT ![c] = "send"] /\ connected' = TRUE /\ wire' = <<>>
  BY DEF Dial, Goto
<1>2. EslTypeOK'
  BY <1>1 DEF EslInv, EslTypeOK, Dial, Commands
<1>3. \A d \in Clients : Locks(d)' <=> Locks(d)
  BY <1>1 DEF EslInv, EslTypeOK, Dial, Locks
<1>4. \A d \in Clients : pc'[d] # "wait"
  BY <1>1, HolderAlone DEF EslInv, EslTypeOK, Exclusive, Dial, Locks
<1>5. QED
  BY <1>1, <1>2, <1>3, <1>4 DEF EslInv, Exclusive, OneCommand, Dial

(* The command goes on a connection that its caller found empty.           *)
LEMMA SendStep ==
  ASSUME EslInv, NEW c \in Clients, Send(c)
  PROVE  EslInv'
<1> DEFINE cmd == [by |-> c, done |-> FALSE]
<1>1. pc' = [pc EXCEPT ![c] = "wait"] /\ pc[c] = "send" /\ Locks(c)
  BY DEF Send, Goto, Locks
<1>2. wire = <<>> /\ connected
  BY <1>1, WireQuiet DEF EslInv, OneCommand
<1>3. wire' = <<cmd>> /\ cmd \in Commands
  BY <1>2 DEF Send, Commands
<1>4. Len(wire') = 1 /\ wire'[1].by = c /\ wire' \in Seq(Commands)
  BY <1>3
<1>5. EslTypeOK'
  BY <1>1, <1>2, <1>4 DEF EslInv, EslTypeOK, Send
<1>6. \A d \in Clients : Locks(d)' <=> Locks(d)
  BY <1>1 DEF EslInv, EslTypeOK, Locks
<1>7. \A d \in Clients : d # c => ~Locks(d)'
  BY <1>1, <1>6, HolderAlone DEF EslInv, Exclusive
<1>8. OneCommand'
  BY <1>1, <1>2, <1>4, <1>7 DEF EslInv, EslTypeOK, OneCommand, Locks, Send
<1>9. QED
  BY <1>5, <1>6, <1>8 DEF EslInv, Exclusive, Send

(* A reply is taken: it was the only one. *)
LEMMA ReceiveStep ==
  ASSUME EslInv, NEW c \in Clients, Receive(c)
  PROVE  EslInv'
<1>1. Locks(c) /\ pc[c] = "wait"
  BY DEF Receive, Locks
<1>2. wire \in Seq(Commands) /\ Len(wire) = 1
  BY <1>1 DEF EslInv, OneCommand, EslTypeOK
<1>3. Tail(wire) = <<>>
  <2>1. Tail(wire) \in Seq(Commands) /\ Len(Tail(wire)) = 0
    BY <1>2, HeadTailProperties, EmptySeq
  <2>2. QED
    BY <2>1, EmptySeq
<1>4. QED
  BY <1>1, <1>3, ReturnStep DEF Receive, EslInv, EslTypeOK

(* A failure returns without a connection.                                 *)
LEMMA FailSteps ==
  ASSUME EslInv, NEW c \in Clients, DialFails(c) \/ SendFails(c)
  PROVE  EslInv'
<1>1. Locks(c) /\ Return(c, "error") /\ connected' \in BOOLEAN
  BY DEF DialFails, SendFails, Locks, EslInv, EslTypeOK
<1>2. wire' = <<>>
  BY WireQuiet, <1>1 DEF DialFails, SendFails
<1>3. left' \in [Clients -> Nat]
  <2>1. left \in [Clients -> Nat]
    BY DEF EslInv, EslTypeOK
  <2>2. \/ left' = left
        \/ left' = [d \in Clients |-> IF Undone(d) = {} THEN left[d] ELSE left[d] + 1]
    BY DEF DialFails, SendFails, LeaveBehind
  <2>3. \A d \in Clients : (IF Undone(d) = {} THEN left[d] ELSE left[d] + 1) \in Nat
    BY <2>1
  <2>4. QED
    BY <2>1, <2>2, <2>3
<1>4. QED
  BY <1>1, <1>2, <1>3, ReturnStep

(* The keeper connects with the mutex, so no command is in the way.        *)
LEMMA ConnectStep ==
  ASSUME EslInv, Connect
  PROVE  EslInv'
<1>1. Locks(Keeper) /\ Keeper \in Clients /\ pc[Keeper] = "connect" /\ holder = Keeper
  BY DEF Connect, Locks, Clients, EslInv, Exclusive
<1>2. wire' = <<>> /\ pc' = [pc EXCEPT ![Keeper] = "idle"] /\ holder' = Nobody
  BY <1>1, WireQuiet DEF Connect, Goto
<1>3. EslTypeOK'
  <2>1. connected' \in BOOLEAN /\ watching' \in BOOLEAN
    BY DEF Connect, EslInv, EslTypeOK
  <2>2. wire' \in IF connected' THEN Seq(Commands) ELSE {<<>>}
    BY <1>2, <2>1, EmptySeq
  <2>3. QED
    BY <1>1, <1>2, <2>1, <2>2 DEF Connect, EslInv, EslTypeOK
<1>4. \A d \in Clients : ~Locks(d)'
  BY <1>1, <1>2, HolderAlone DEF EslInv, EslTypeOK, Locks
<1>5. Exclusive'
  BY <1>2, <1>4, KeeperAssumption DEF Exclusive, Clients
<1>6. OneCommand'
  BY <1>2, <1>4 DEF OneCommand, Locks
<1>7. QED
  BY <1>3, <1>5, <1>6 DEF EslInv

(* Close finds the mutex free, so no caller waits on what it closes.       *)
LEMMA CloseStep ==
  ASSUME EslInv, Close
  PROVE  EslInv'
<1>1. \A c \in Clients : ~Locks(c)
  BY KeeperAssumption DEF Close, EslInv, Exclusive, Clients
<1>2. QED
  BY <1>1 DEF Close, EslInv, EslTypeOK, Exclusive, OneCommand, Locks, Commands

(* FreeSWITCH carries out the one command there is, if it has not yet. *)
LEMMA RunFacts ==
  ASSUME EslInv, Run
  PROVE  /\ connected /\ wire \in Seq(Commands) /\ Len(wire) = 1
         /\ ~wire[1].done
         /\ wire' \in Seq(Commands) /\ Len(wire') = 1
         /\ wire'[1].done /\ wire'[1].by = wire[1].by
         /\ UNCHANGED <<pc, holder, connected, left, answer, watching>>
<1>1. PICK i \in 1 .. Len(wire) :
        /\ ~wire[i].done /\ wire' = [wire EXCEPT ![i].done = TRUE]
        /\ UNCHANGED <<pc, holder, connected, left, answer, watching>>
  BY DEF Run
<1>2. wire # <<>>
  BY <1>1
<1>3. connected /\ wire \in Seq(Commands)
  BY <1>2 DEF EslInv, EslTypeOK
<1>4. Len(wire) = 1
  BY <1>2 DEF EslInv, OneCommand
<1>5. i = 1 /\ 1 \in 1 .. Len(wire) /\ wire[1] \in Commands
  BY <1>3, <1>4
<1> DEFINE ran == [wire[1] EXCEPT !.done = TRUE]
<1>6. wire' = [wire EXCEPT ![1] = ran]
  BY <1>1, <1>5
<1>7. ran \in Commands /\ ran.done /\ ran.by = wire[1].by
  BY <1>5 DEF Commands
<1> HIDE DEF ran
<1>8. wire' \in Seq(Commands) /\ Len(wire') = 1 /\ wire'[1] = ran
  <2>1. ran \in Commands
    BY <1>7
  <2>2. /\ [wire EXCEPT ![1] = ran] \in Seq(Commands)
        /\ Len([wire EXCEPT ![1] = ran]) = Len(wire)
        /\ [wire EXCEPT ![1] = ran][1] = ran
    BY <1>3, <1>5, <2>1, ExceptSeq
  <2>3. QED
    BY <1>4, <1>6, <2>2
<1>9. QED
  BY <1>1, <1>3, <1>4, <1>5, <1>7, <1>8

(* FreeSWITCH runs the command there is, once.                             *)
LEMMA RunStep ==
  ASSUME EslInv, Run
  PROVE  EslInv'
<1>1. EslTypeOK'
  BY RunFacts DEF EslInv, EslTypeOK
<1>2. OneCommand'
  <2>1. \A c \in Clients : pc[c] = "wait" => wire[1].by = c
    BY DEF EslInv, OneCommand
  <2>2. ~\A c \in Clients : pc[c] # "wait"
    BY RunFacts DEF EslInv, OneCommand
  <2>3. QED
    BY <2>1, <2>2, RunFacts DEF OneCommand
<1>3. Exclusive'
  BY RunFacts DEF EslInv, Exclusive, Locks
<1>4. QED
  BY <1>1, <1>2, <1>3 DEF EslInv

(* Every step keeps the invariant.                                         *)
LEMMA NextEsl == EslInv /\ [EslNext]_eslVars => EslInv'
<1> SUFFICES ASSUME EslInv, [EslNext]_eslVars PROVE EslInv'
  OBVIOUS
<1>1. ASSUME NEW c \in Clients, API(c) PROVE EslInv'
  BY <1>1, DialStep, FailSteps, SendStep, ReceiveStep DEF API, Exchange
<1>2. ASSUME NEW c \in Clients, Settle(c) PROVE EslInv'
  BY <1>2 DEF Settle, EslInv, EslTypeOK, Exclusive, OneCommand, Locks
<1>3. CASE UNCHANGED eslVars
  BY <1>3 DEF eslVars, EslInv, EslTypeOK, Exclusive, OneCommand, Locks
<1>4. QED
  BY <1>1, <1>2, <1>3, CallStep, LockStep, ConnectStep, CloseStep, RunStep DEF EslNext

(* So it holds throughout.                                                 *)
LEMMA EslSound == EslSpec => []EslInv
  BY InitEsl, NextEsl, PTL DEF EslSpec

(* Every variable has its type in every reachable state; among others,     *)
(* nothing is sent on a connection that is not there (esl.go:102-107).     *)
THEOREM EslTypeCorrect == EslSpec => []EslTypeOK
<1>1. EslInv => EslTypeOK
  BY DEF EslInv
<1>2. QED
  BY <1>1, EslSound, PTL

(* The goroutines that share the connection never get in each other's way  *)
(* on it: what is on it is the command of the one caller that waits        *)
(* (esl.go:95-97, "cannot interleave on one connection").                  *)
THEOREM NeverInterleaved == EslSpec => [](Exclusive /\ OneCommand)
<1>1. EslInv => Exclusive /\ OneCommand
  BY DEF EslInv
<1>2. QED
  BY <1>1, EslSound, PTL

-----------------------------------------------------------------------------
(* The refinement.  What State and Undone say, given the one command.      *)
LEMMA Waits ==
  ASSUME EslInv, NEW c \in Clients, pc[c] = "wait"
  PROVE  /\ Ran(c) <=> wire[1].done
         /\ \A d \in Clients : Undone(d) = {} <=> d # c \/ wire[1].done
<1>1. Len(wire) = 1 /\ wire[1].by = c
  BY DEF EslInv, OneCommand
<1>2. 1 .. Len(wire) = {1}
  BY <1>1
<1>3. QED
  BY <1>1, <1>2 DEF Ran, Undone

(* What changes no caller's state is no step of the abstract commands.     *)
LEMMA Same ==
  ASSUME \A d \in Callers : /\ State(d)' = State(d)
                            /\ answer'[d] = answer[d] /\ left'[d] = left[d]
  PROVE  UNCHANGED Commanded!vars
  BY DEF Commanded!vars

(* Steps that end no call and carry nothing out. *)
LEMMA SilentSteps ==
  ASSUME EslInv, NEW c \in Clients, Lock(c) \/ Dial(c) \/ Send(c)
  PROVE  UNCHANGED Commanded!vars
<1>1. /\ pc[c] # "idle" /\ pc[c] # "wait" /\ pc'[c] # "idle"
      /\ \A d \in Clients : d # c => pc'[d] = pc[d]
      /\ UNCHANGED <<answer, left>>
  BY DEF Lock, Dial, Send, Goto, EslInv, EslTypeOK
<1>2. \A d \in Clients : pc[d] # "wait"
  BY <1>1, KeeperAssumption DEF Lock, Dial, Send, EslInv, Exclusive, Locks, Clients
<1>3. wire = <<>>
  BY <1>2 DEF EslInv, OneCommand
<1>4. pc'[c] = "wait" => ~Ran(c)'
  <2>1. CASE Send(c)
    <3>1. wire' = <<[by |-> c, done |-> FALSE]>>
      BY <1>3, <2>1 DEF Send
    <3>2. QED
      BY <3>1 DEF Ran
  <2>2. CASE Lock(c) \/ Dial(c)
    BY <2>2 DEF Lock, Dial, Goto, EslInv, EslTypeOK
  <2>3. QED
    BY <2>1, <2>2
<1>5. \A d \in Callers : State(d)' = State(d)
  BY <1>1, <1>2, <1>4 DEF State, Clients
<1>6. QED
  BY <1>1, <1>5, Same

(* A call is the abstract call, ...                                        *)
LEMMA CallRefines ==
  ASSUME EslInv, NEW c \in Clients, Call(c)
  PROVE  [Commanded!Next]_(Commanded!vars)
<1>1. /\ pc[c] = "idle" /\ pc'[c] = "lock"
      /\ \A d \in Clients : d # c => pc'[d] = pc[d]
      /\ UNCHANGED <<answer, left, wire>>
  BY DEF Call, Goto, EslInv, EslTypeOK
<1>2. \A d \in Callers : d # c => State(d)' = State(d)
  BY <1>1 DEF State, Ran, Clients
<1>3. CASE c \in Callers
  <2>1. State(c) = "idle" /\ State(c)' = "called"
    BY <1>1 DEF State
  <2>2. Commanded!Call(c)
    BY <1>1, <1>2, <1>3, <2>1 DEF Commanded!Call
  <2>3. QED
    BY <1>3, <2>2 DEF Commanded!Next
<1>4. CASE c \notin Callers
  BY <1>1, <1>2, <1>4, Same
<1>5. QED
  BY <1>3, <1>4

(* The end of an API call. *)
LEMMA ReturnRefines ==
  ASSUME EslInv, NEW c \in Clients, Locks(c), NEW o \in {"ok", "error"}, Return(c, o),
         c \in Callers /\ o = "ok" => State(c) = "ran" /\ UNCHANGED left,
         c \in Callers => \/ UNCHANGED left
                          \/ State(c) = "called" /\ left'[c] = left[c] + 1,
         \A d \in Callers : d # c => left'[d] = left[d]
  PROVE  [Commanded!Next]_(Commanded!vars)
<1>1. /\ pc'[c] = "idle" /\ answer'[c] = o
      /\ \A d \in Clients : d # c => pc'[d] = pc[d] /\ answer'[d] = answer[d]
  BY DEF Return, Goto, EslInv, EslTypeOK
<1>2. \A d \in Clients : d # c => pc[d] # "wait"
  BY HolderAlone DEF EslInv, Exclusive, Locks
<1>3. \A d \in Callers : d # c => State(d)' = State(d)
  BY <1>1, <1>2 DEF State, Clients
<1>4. CASE c \in Callers
  <2>1. State(c) # "idle" /\ State(c)' = "idle"
    BY <1>1 DEF State, Locks
  <2>2. CASE o = "ok"
    <3>1. State(c) = "ran" /\ UNCHANGED left
      BY <1>4, <2>2
    <3>2. Commanded!Ok(c)
      BY <1>1, <1>3, <1>4, <2>1, <2>2, <3>1 DEF Commanded!Ok, Clients
    <3>3. QED
      BY <1>4, <3>2 DEF Commanded!Next
  <2>3. CASE o = "error"
    <3>1. Commanded!Error(c)
      BY <1>1, <1>3, <1>4, <2>1, <2>3 DEF Commanded!Error, Clients
    <3>2. QED
      BY <1>4, <3>1 DEF Commanded!Next
  <2>4. QED
    BY <2>2, <2>3
<1>5. CASE c \notin Callers
  BY <1>1, <1>3, <1>5, Same DEF Clients
<1>6. QED
  BY <1>4, <1>5

(* ... the reply that is read the abstract answer, ...                     *)
LEMMA ReceiveRefines ==
  ASSUME EslInv, NEW c \in Clients, Receive(c)
  PROVE  [Commanded!Next]_(Commanded!vars)
<1>1. pc[c] = "wait" /\ Locks(c) /\ Return(c, "ok") /\ UNCHANGED left
  BY DEF Receive, Locks
<1>2. wire[1].done
  BY DEF Receive, EslInv, EslTypeOK
<1>3. State(c) = "ran"
  BY <1>1, <1>2, Waits DEF State
<1>4. QED
  BY <1>1, <1>3, ReturnRefines

(* ... a failure the abstract error ...                                    *)
LEMMA FailRefines ==
  ASSUME EslInv, NEW c \in Clients, DialFails(c) \/ SendFails(c)
  PROVE  [Commanded!Next]_(Commanded!vars)
<1>1. Locks(c) /\ Return(c, "error")
  BY DEF DialFails, SendFails, Locks
<1>2. CASE DialFails(c)
  BY <1>1, <1>2, ReturnRefines DEF DialFails
<1>3. CASE SendFails(c)
  <2>1. pc[c] = "wait"
    BY <1>3 DEF SendFails
  <2>2. left' = [d \in Clients |-> IF d # c \/ wire[1].done THEN left[d] ELSE left[d] + 1]
    BY <1>3, <2>1, Waits DEF SendFails, LeaveBehind
  <2>3. \A d \in Callers : d # c => left'[d] = left[d]
    BY <2>2 DEF Clients
  <2>4. CASE wire[1].done
    <3>1. UNCHANGED left
      BY <2>2, <2>4 DEF EslInv, EslTypeOK
    <3>2. QED
      BY <1>1, <3>1, ReturnRefines
  <2>5. CASE ~wire[1].done
    <3>1. State(c) = "called" /\ left'[c] = left[c] + 1
      BY <2>1, <2>2, <2>5, Waits DEF State
    <3>2. QED
      BY <1>1, <2>3, <3>1, ReturnRefines
  <2>6. QED
    BY <2>4, <2>5
<1>4. QED
  BY <1>2, <1>3

(* ... and connecting and closing nothing.                                 *)
LEMMA ConnectRefines ==
  ASSUME EslInv, Connect \/ Close
  PROVE  UNCHANGED Commanded!vars
<1>1. \A d \in Callers : pc'[d] = pc[d]
  BY KeeperAssumption DEF Connect, Close, Goto, EslInv, EslTypeOK, Clients
<1>2. \A d \in Callers : pc[d] # "wait"
  BY KeeperAssumption DEF Connect, Close, EslInv, Exclusive, Locks, Clients
<1>3. \A d \in Callers : State(d)' = State(d)
  BY <1>1, <1>2 DEF State
<1>4. QED
  BY <1>3, Same DEF Connect, Close

(* A command is run in the abstract as it is here.                         *)
LEMMA RunRefines ==
  ASSUME EslInv, Run
  PROVE  [Commanded!Next]_(Commanded!vars)
<1>1. PICK c \in Clients : pc[c] = "wait"
  BY RunFacts DEF EslInv, OneCommand
<1>2. /\ ~Ran(c) /\ Ran(c)'
      /\ \A d \in Clients : d # c => pc[d] # "wait"
  <2>1. wire[1].by = c
    BY <1>1 DEF EslInv, OneCommand
  <2>2. Ran(c)'
    BY <2>1, RunFacts DEF Ran
  <2>3. ~Ran(c)
    BY <1>1, Waits, RunFacts
  <2>4. QED
    BY <1>1, <2>2, <2>3 DEF EslInv, Exclusive, Locks
<1>3. \A d \in Callers : d # c => State(d)' = State(d)
  BY <1>2, RunFacts DEF State, Clients
<1>4. CASE c \in Callers
  <2>1. State(c) = "called" /\ State(c)' = "ran"
    BY <1>1, <1>2, RunFacts DEF State
  <2>2. Commanded!Run(c)
    BY <1>3, <1>4, <2>1, RunFacts DEF Commanded!Run
  <2>3. QED
    BY <1>4, <2>2 DEF Commanded!Next
<1>5. CASE c \notin Callers
  BY <1>3, <1>5, Same, RunFacts
<1>6. QED
  BY <1>4, <1>5

(* A command left on a closed connection runs or is lost in both.          *)
LEMMA SettleRefines ==
  ASSUME EslInv, NEW c \in Clients, Settle(c)
  PROVE  [Commanded!Next]_(Commanded!vars)
<1>1. /\ left[c] > 0 /\ left'[c] = left[c] - 1
      /\ \A d \in Clients : d # c => left'[d] = left[d]
      /\ UNCHANGED <<pc, wire, answer>>
  BY DEF Settle, EslInv, EslTypeOK
<1>2. \A d \in Callers : State(d)' = State(d)
  BY <1>1 DEF State, Ran
<1>3. CASE c \in Callers
  <2>1. Commanded!Settle(c)
    BY <1>1, <1>2, <1>3 DEF Commanded!Settle, Clients
  <2>2. QED
    BY <1>3, <2>1 DEF Commanded!Next
<1>4. CASE c \notin Callers
  BY <1>1, <1>2, <1>4, Same DEF Clients
<1>5. QED
  BY <1>3, <1>4

(* Everyone gets the reply to its own command: an answer without error     *)
(* comes after the caller's command was carried out, through timeouts,     *)
(* late replies and reconnections (esl.go:98-117).                         *)
THEOREM Refinement == EslSpec => ImplementsEslCommands
<1>1. EslInit => Commanded!Init
  BY DEF EslInit, Commanded!Init, State, Clients
<1>2. EslInv /\ [EslNext]_eslVars => [Commanded!Next]_(Commanded!vars)
  <2> SUFFICES ASSUME EslInv, [EslNext]_eslVars PROVE [Commanded!Next]_(Commanded!vars)
    OBVIOUS
  <2>1. ASSUME NEW c \in Clients, API(c) PROVE [Commanded!Next]_(Commanded!vars)
    BY <2>1, SilentSteps, FailRefines, ReceiveRefines DEF API, Exchange
  <2>2. CASE UNCHANGED eslVars
    BY <2>2, Same DEF eslVars, State, Ran
  <2>3. QED
    BY <2>1, <2>2, CallRefines, SilentSteps, ConnectRefines, RunRefines,
       SettleRefines DEF EslNext
<1>3. QED
  BY <1>1, <1>2, EslSound, PTL DEF EslSpec, ImplementsEslCommands, Commanded!Spec
=============================================================================
