# CallVoice in TLA+

A verification project for CallVoice, a call-centre telephony platform: an
**API** (Postgres: users, carriers, DIDs, campaigns, leads, call logs), an
**edge** (Redis and FreeSWITCH: agent presence, outbound and inbound calls,
SIP gateways, live events) and a **web** front end whose agent page is a SIP
client in the browser. Paths below are relative to the repository.

## 1. Inventory

| Part | State it keeps | Operations | Talks to |
|---|---|---|---|
| Agent presence `services/edge/internal/agent` | Redis `agent:{id}` (state, TTL) | Start, Stop, SetState, ClaimAvailable, ReleaseOnCall | called by the HTTP handlers, the inbound router, the dialer's hangup |
| Manual dialer `services/edge/internal/dialer` | Redis `channels:carrier:{id}`, `call:meta:{uuid}`, `call:agent:{id}` | Originate, Hangup | CPS gate, FreeSWITCH (ESL), presence, `call.events` |
| Inbound router `services/edge/internal/inbound` | `Router.seen`, one event connection | RunListener, HandleEvent, Route, Apply | FreeSWITCH events and commands, presence, DIDs |
| CPS limiter `internal/cps`, `.../cpsgate` | Redis `cps:...:{second}` | Allow (a Lua script) | called by the dialer |
| Agent sessions `.../httpapi/agent.go`, `.../webrtccred` | Redis credential, FreeSWITCH directory file | start, stop, state; Issue, Revoke | presence, FreeSWITCH |
| Gateways `.../fs/gateway.go`, `cmd/edge/main.go` | gateway files, FreeSWITCH's profile | Apply, Remove, ReloadAll, Reconcile | Postgres, the API's `carriers.changed` |
| Live hub and wallboard `.../live`, `.../httpapi/ws.go`, `ws_live.go` | subscribers' channels, one goroutine per websocket | Subscribe, Unsubscribe, Broadcast; BuildSnapshot | agents' and supervisors' pages; Redis, read-only |
| ESL client `.../fs/esl.go` | one FreeSWITCH connection | API | FreeSWITCH |
| Campaigns and leads `services/api/internal/store` | `campaigns`, `campaign_agents`, `leads`, `call_logs` | Update, SetAgents, Import, ClaimNext, RecordDisposition | agent and admin pages |
| Authentication `services/api/internal/httpapi/auth.go`, `totp.go` | Postgres: `sessions`, users' lockout and TOTP columns | login, logout, setup, enable, verify | all authenticated requests |
| Users `.../store/users.go` | `users` | Create, Update, ResetPassword, within the limit of admins | admin pages |
| Carriers, DIDs `.../store/carriers.go`, `dids.go` | `carriers`, `dids` | CRUD, publish `carriers.changed` | edge |
| Agent page `apps/web/app/agent`, `lib/softphone.ts` | React state, a SIP session | start, dial, next lead, hangup, disposition | API, edge, FreeSWITCH |
| Admin pages, reports, CSV import, migrations, seed | - | forms, queries, batch steps | API, Postgres |

What is hard in this system, and what has to hold:

* **Presence** is shared by goroutines that do not know of each other, one Redis
  command at a time. A claim must exclude every other; a release or a state
  change must not undo what came after it was decided.
* **Outbound calls** live in three stores at once (the Redis counter, the Redis
  call keys, FreeSWITCH), updated one after the other with errors in between.
  Limits must hold up to the concurrency, no live call may be lost, and no one
  may hang up another agent's call.
* **Inbound calls** are announced twice, by events that can be lost, and decided
  by a claim, then a transfer whose reply can be lost. An agent that is claimed
  has a call, or is given back; a call is decided once, and in the end.
* **Rate limits** rest on keys that expire while callers hold old timestamps.
* **Gateways** follow the carriers' rows through a message that may be lost and
  two goroutines that rewrite the same files and the same Sofia profile.
* **Campaigns, users, login, agent page**: check-then-write in separate
  statements, asynchronous callbacks.

`PROJECT.json` lists each hazard at its line, with the property that watches it.

## 2. Plan

| # | Modules | Status |
|---|---|---|
| 1 | `AgentStates` (abstract), `Presence` (detailed), refinement | done, proved |
| 2 | `Dialer` | done, proved |
| 3 | `Inbound`, safety and liveness | done, safety proved |
| 4 | `CpsLimiter` | done, proved |
| 5 | `LeadPool` (abstract), `Campaigns` (detailed), refinement | done, proved |
| 6 | `Users`: accounts and the only admin slot | done, proved |
| 7 | `Auth`: login, lockout, second factor, sessions, password reset | done, proved |
| 8 | `Gateways`: carriers' rows, publication, subscription, boot reload, reconcile | done, proved |
| 9 | `AgentSession`: credential, directory file, FreeSWITCH's directory, presence | done, proved |
| 10 | `EslCommands` (abstract), `EslClient` (detailed), refinement, liveness | done, safety proved |

## 3. Modules

Conventions: an action is one command to Redis or FreeSWITCH, or one statement
to Postgres, with the Go code up to the next one, because that is the grain at
which other goroutines and processes get in between. `pc`-like fields name the
command sent next. Where a reply can be lost the model has both outcomes of the
command. *Mutant* operators are deliberate bugs, used only to show that the
properties notice them. Data that decides nothing (names, numbers, JSON) is left
out.

### AgentStates, Presence
`AgentStates` is the contract: an operation (`call[c]`) is invoked, takes effect
at most once at one instant, and returns an outcome. `Presence` is
`presence.go`: `presence[a]` is the key, `call[c]` the method and its arguments,
`pc[c]` the next command, `dirty[c]` Redis's flag on a connection that
WATCHes. `SetState` = `SetState`, `Exists`, `SetStateGet`, `WritePresence`;
`ClaimAvailable` = `ClaimAvailable` (with WATCH), `ClaimGet`, `ClaimExec`;
`ReleaseOnCall` likewise. `Expire` is the TTL. `Presence` implements
`AgentStates` with the identity mapping on `presence` and `call`; what the
contract must allow to make that true is the news: a claim may miss, and a
release may do nothing, on a key that would have allowed them, because any
write to a watched key makes them give up without a retry.

### Dialer
`Originate` ... `Abandon` are the carrier loop of `Manual.Originate` and
`trackCall`; `HangupCurrent`/`HangupCall` ... `Release` are `Manual.Hangup` and
`cleanupCall`. `leg` and `placed` are FreeSWITCH's truth and appear in no guard
of the edge's own steps. `Disturbances` switches the environment on:
`redisError` (every Redis command, with or without effect, or executed more than
once), `eslError` (refused, or executed with the reply lost), `farHangup`.
go-redis sends a command again when its reply is lost: `INCR` and `DECR` are
executed up to `Attempts` times and may still succeed or fail (`Executions`,
`FailedExecutions`), and `SaveAgain` is the `MULTI` that is written, perhaps
read by others, and written again; the other commands only write the same value
again. `ExpireKeys` is the 24 h TTL of `call:meta` and `call:agent`, at any
time; the counter has none. Verdicts of the CPS gate and disabled carriers are
the free choice in `Skip`. Presence operations are atomic here, as `AgentStates`
promises and `Presence` is shown to deliver.

Four sets are bookkeeping, the excuses of the properties: `lost`, the calls that
an ESL error in `Originate` left up; `expired`, the counted calls whose keys ran
out before anybody hung them up; `leaked`, the carriers counted up, or not down,
by a Redis error (in `trackCall`, or the `loadMeta` whose error `Hangup`
ignores); `overdrawn`, the carriers counted down by mistake: a second `DECR` of
the same call by an overlapping hangup, a `DECR` sent again, or one after which
the keys stayed. Nothing leaves the last two, because the code never repairs a
counter.

### Inbound
`wire` is the event socket, `seen` the router's map, `job` the event in the
hands of the single listener goroutine (`listenLoop` handles one at a time).
`Route`, `LookAt`, `NoAgent`, `ClaimWon`, `ClaimMissed`, `ClaimFails` are
`Route`/`FirstAvailableAgent`; `Transfer...`, `Release`, `Kill...` are `Apply`.
`AgentRequest` is the presence handlers and the TTL; `Disconnect`, `Reconnect`,
`Restart` the life of the listener. `claimedFor`, `stranded`, `overridden` and
`acked` are bookkeeping for the properties.

### EslCommands, EslClient
`EslCommands` is what callers of `API` rely on: an answer without error comes
after their own command was carried out, once; an error says nothing, and the
command may still be carried out later (`late`). `EslClient` is `esl.go`:
`holder` is `Client.mu`, `connected` whether `conn` is nil, `wire` the commands
sent and not answered yet, of which FreeSWITCH carries out the next (`Run`).
`Lock`, `Dial`, `Send`, `Receive`, `SendFails` are `API`; the keeper is the
goroutine of `RunReconnect`: `Connect` is its `ConnectOnce`, and its keepalives
are calls of `API` like any other. A reply does not name its command: `Receive`
takes the first one. What makes that safe is that a caller that gives up closes
the connection (`SendFails`); what FreeSWITCH had read from it, it may still do
(`left`, `Settle`). The mapping calls a caller's command `ran` when it is on the
wire and done. The other models send a command in one step and let an executed
one lose its reply; that it may also be executed after the error is seen here,
and in `Gateways`. Dialling has no deadline in the code (`esl.go:39-48`): no
fairness makes `Dial`, `DialFails` or `Connect` happen.

### CpsLimiter
One limiter key per second: `count[s]`, `expires[s]`. `Allow` is the Lua script,
atomic in Redis. `Capture` is `now := m.now()` at the start of `Originate`: the
time may be seconds old when the limiter of a later carrier is asked.

### LeadPool, Campaigns
`LeadPool` is the contract of leads and call logs: `Import`, `Take`, `Report`
are atomic. `Campaigns` is the API's store, one SQL statement per step, because
every transaction runs at READ COMMITTED and sees what others commit between its
statements. `req[r]` is a request: the statement it sends next and its locals.
What a transaction has written and not committed is not in `lead` or `logs` but
follows from its record, and so do the rows it has locked (`Locked`): `Pick` is
the inner `SELECT ... FOR UPDATE SKIP LOCKED` of `ClaimNext`, `Claim` the
`UPDATE` around it. The `SELECT` joins the lead's list and locks its row too, so
while one claim is under way another finds no lead of that list (`Skipped`), and
may answer that there is none. `UpdateLead` is the first write of
`RecordDisposition`, which waits for the row, `InsertLog` its second and the
commit that publishes both. `SetAgents` is a PUT whose `DELETE` looks at the
team; the rows that others insert after that (`added`) stay, even of an agent it
saw, and the `INSERT` of such an agent fails on the primary key. Left out: a
claim that passes over a lead because its list is locked holds that lead's own
row until the statement ends. `Patch` and `UpdateCampaign` are the `SELECT` and
the `UPDATE` of `CampaignStore.Update`. `handed` is bookkeeping: the pages that
have been given a lead. The mapping to `LeadPool` is the identity on `lead` and
`logs`; the steps of `Take`, `Report` and `Import` are `Claim`, `InsertLog` and
`Import`, all others stutter.

### Users
`UserStore.Create` and `Update`, again one statement per step. `GetForUpdate`
locks the row (`RowLocked` until the transaction ends); `AdminSlot` is
`pg_advisory_xact_lock`, which only a creation or promotion of an admin takes,
and `CountAdmins` the count under it. `Write` writes all columns, as the code
does, from the row it has read and what the request asks for.

### Auth
One account, because every statement of login, lockout, TOTP and sessions names
one user by id. `req[r]` is a request, begun with the row it has read: `Login`,
`Verify`, `Setup`, `Enable`, `Serve` (any other route behind `RequireSession`)
decide from that row; `RecordFailure`, `ResetFailed`, `InsertSession`,
`WriteSecret`, `CheckCode`, `WriteEnabled`, `DropSession` are the statements
that follow, each with whatever has happened meanwhile. A password is right or
wrong, a TOTP code is the secret it was computed from, a session is what earned
it, and the pending token of a half-done login is a flag, because it is signed
and not stored. Time is the three expiries. An admin's reset and patch of the
account are one step each (`Users` takes them apart). `misses`, `confirmed` and
`overtaken` are bookkeeping: the failures since the last lock or success, the
secret the last enrolment was confirmed with, and a secret replaced in the
middle of one.

### AgentSession
One agent's session: the presence key and the credential in Redis, the user file
and what FreeSWITCH has loaded of it. `Start`, `WriteUser`, `Load`, `StoreCred`
are `handleStart` and `Issue`, `Undo` the deletion of presence after an error;
`Stop`, `RemoveUser`, `Unload`, `DelCred`, `ClearPresence`, `StopPresence` are
`handleStop` and `Revoke`; `WebRTCConfig` is the poll that revokes when it finds
no credential; `SetState`, `WriteState` the two halves of a state change. Claims
and releases are atomic, as `Presence` shows. `Disturbances` switches on failing
commands, lost replies and restarts of the edge and of FreeSWITCH. `session` and
`suspect` are bookkeeping: what the last start or stop was, and whether a
failure or an overlap has not been made up for by a start or stop that ran
alone.

### Gateways
`row` is the carriers table, `req[r]` an API request (a PATCH reads the row
twice, in the handler and in `CarrierStore.Update`, before its `UPDATE`),
`subscribed` and `pending` the Redis channel, which forgets what nobody hears.
`reload[p]` is `ReloadAll` in the goroutine `boot` or `subscriber`: the list it
has read, the carriers its loop has still to do, the next command. `file` and
`gateway` are the directory and what Sofia has loaded. `WriteFile`,
`KillGateway`, `Rescan` are `ApplyCarrierGateway`; `RemoveFile`, `DropGateway`
are `RemoveCarrierGateway`, called for disabled rows and, after `ReadDir`, for
files without an enabled row. A rescan loads what is in the directory and not
loaded yet, of any carrier: this is where the two goroutines meet. One host
stands for all the XML of a carrier; `os.WriteFile` is one step, and Sofia has
obeyed a command when it answers. A command that failed, or was under way when
the edge was killed, may be carried out later (`late`, `LateKill`,
`LateRescan`). An API statement that fails is a request not made, one that fails
after its commit is `PublishFails`. `suspect` and `leaked` are bookkeeping: a
message, carrier or command has been lost, or two reloads have overlapped, or a
command has come late, and no reload alone has followed; the carriers whose file
was removed and whose `killgw` failed or never came. Of a *deleted* carrier such
a gateway stays until FreeSWITCH restarts: reconciliation goes by files.

## 4. Runs

| Run | Instance | Shows |
|---|---|---|
| `presence` | 2 agents, 3 clients | `TypeOK`, `WatchedValueHolds`, `ClaimWinsOnce`, `ImplementsAgentStates` |
| `dialer` | 2 agents, 2 requests, 2 carriers (1 and 2 channels), 3 calls | `TypeOK`, `LegsWithinLimit`, `HangsUpOwnCall`, `UpLegTracked`, `CountExact`, `FreedAfterKill` |
| `inbound` | 2 agents, 2 calls, all disturbances | `TypeOK`, `ClaimsAccountedFor`, `OneCallPerClaim`, `DecidedOnce` |
| `inbound_live` | 2 agents, 2 calls, agents' requests, fairness | `ParkedCallDecided` |
| `inbound_release` (violation) | 1 agent, 1 call, fairness, no disturbance | `ReleasedAfterCall` fails: nobody hears of the end of an inbound call |
| `campaigns` | 2 requests, 2 agents, 1 campaign, 2 leads, 2 dispositions | `TypeOK`, `HandedToItsAgent`, `LogsAgree`, `ImplementsLeadPool`, `StoppedStays` |
| `users` | 2 requests, 2 users, fairness | `TypeOK`, `AtMostOneAdmin`, `KeepsTheRest`, `Answered` |
| `gateways` | 2 carriers, 2 hosts, 1 request, all disturbances | `TypeOK`, `CaughtUp`, `NoGhosts` |
| `cps` | 3 requests, cap 2, seconds 0..3 | `TypeOK`, `PromptGrantsCapped` |
| `auth` | 2 requests, 2 sessions, 2 secrets, a lock after 3 failures | `TypeOK`, `TotpConfirmed`, `LockComes`, `EnrolmentHolds`, `LockHolds` |
| `session` | 3 requests, 2 passwords, all disturbances | `TypeOK`, `Settled`, `DirectoryLoaded` |
| `esl` | 2 callers and the keeper, fairness | `TypeOK`, `Answered`, `ImplementsEslCommands` |

**Bounds and why they suffice.** Presence: races on a key are between a
transaction and at most two disturbers, hence three clients; the second agent
shows that keys do not interfere. Dialer: a carrier of one channel makes two
requests overshoot; a second call makes old and new calls of one agent meet, a
third one fills both carriers beyond the first's limit; two executions of a
command stand for any repetition. The constraint `Bounded` of `MCDialer` allows
one excuse, a carrier or a call (a second adds no new situation, because the
properties are about each carrier and call), explores the third call only while
all three are up without any, lets a counter fall to -1 (below it takes further
failed clamps or a repeated `DECR`) and has one agent at most `on_call`; the
proofs hold without it. Inbound: two calls and two agents give a second claim
while the first is under way, and a miss with another candidate left. CPS: four
seconds hold a window, its TTL and a caller that comes after it. Campaigns: the
races are between two transactions over one lead; the second lead lets `SKIP
LOCKED` pass on to another list, the second agent may report on a lead that is
not its own, and at most two reports per lead (`Bounded` of `MCCampaigns`) are
enough for one to overtake the other. Users: two requests suffice for both locks
to be waited for, two users for two admins. Gateways: two hosts tell an old file
from a new one, and two carriers let a rescan for one load the other. The second
carrier has one host only, PATCHes are of the first, and the rest of `Bounded`
of `MCGateways` keeps at most one gateway left behind, none of them while
reloads overlap: such a gateway only takes part in steps of its own carrier.
Reloads overlap while the edge is subscribed only, because their result is
suspect anyway until a later reload alone. One command at a time may come late,
not the second carrier's `killgw`; while it may, reloads do not overlap, no other
gateway is left behind and no PATCH comes: a reload that Create or Delete has
caused is as good to be disturbed. One request at a time and one message waiting
are enough for a change to come before, during and after each of two reloads; the
proofs hold without any of these bounds.

Auth: races are between a read and a later write of one row, so two requests,
and enough failures for a stale write to take two of them back; `LockComes` is
exact for this instance (there are six standings: five failures are reached, six
are not). AgentSession: a start, a stop and a poll together, and two passwords
to tell an old one from a new one. EslClient: two callers and the keeper wait
for one mutex; `MaxLate` lets a caller leave two commands behind and call again.

**Fairness.** In `FairSpec` of `Inbound`: weak fairness of the listener
goroutine as a whole (it blocks on nothing but the socket once a command has
been answered, and the Go scheduler runs it) and of FreeSWITCH running the
dialplan of a call that came in. No fairness for callers, agents or failures.
`inbound_live` excludes failures of Redis and FreeSWITCH: after those the code
does not retry, and a call may stay parked. In `FairSpec` of `Users`: strong
fairness of every request's next statement. Postgres answers each statement, and
its lock managers serve waiters in the order of their arrival, so a request
whose lock is free again and again gets it; a request may also fail at any time.

In `FairSpec` of `EslClient`: strong fairness of `Lock`, because `sync.Mutex`
hands itself to a waiter that has waited a millisecond; weak fairness of sending
a command and waiting for its reply (`Exchange`), because `Send` ends by its
timeout. Dialling has none: `connectLocked` reads FreeSWITCH's greeting and its
answer to `auth` without a deadline. So `Answered` says: every caller is
answered, or some client dials for ever (`HangsDialling`). FreeSWITCH, which may
never answer, has no fairness either.

**Deadlock** is checked everywhere except in `inbound_release`, where one call
comes and goes and the system may stop.

**Known divergences.** Met while modelling; the properties are stated around
them and say where they do.

* The end of an inbound call frees nobody: `docs/superpowers/plans/notes/jalon-b-acceptance.md:64`
  has hangup cleanup call `ReleaseOnCall` (run `inbound_release`).
* `SetState` requires a session (`presence.go:134`), but EXISTS and GET may see
  one that a Stop deletes before the SET, which brings it back (`Settled` counts
  this as an overlap, healed by the next start or stop).
* A carrier's counter keeps the channel of a call that ended at the far side
  until someone hangs it up (`manual.go:82`, `303`), and for ever once the call's
  keys have expired (`manual.go:324`): by then no hangup finds the call.
* Two hangups of one call that overlap both count it down (`manual.go:333`), as
  does a `DECR` that go-redis sends again; from then on the counter is too low, and
  the carrier's limit is exceeded by more than the requests in progress. An `INCR`
  that is sent again, or whose call is abandoned, makes it too high. `CountExact`
  shows that nothing else does either, and `LegsWithinLimit` that the legs stay
  within the limit and its overshoot until then.
* A FreeSWITCH that accepts the ESL connection and says nothing keeps `Client.mu`
  locked (`esl.go:39`), and every handler, the listener and the keeper wait:
  `Answered` shows that this is the only way to wait for ever.
* A PATCH that read a campaign before it was stopped writes the old status back
  (`campaigns.go:153`), against the transitions of
  `docs/superpowers/plans/2026-07-22-callvoice-campaigns-ops.md:119`;
  `StoppedStays` shows that only such a PATCH does.
* The Redis credential expires, the directory file does not (`cred.go:64`): the
  SIP account outlives it until a poll, a stop or the next start.
* Failed logins that run at once are counted once (`auth.go:435`), so the lock
  of `docs/superpowers/plans/notes/jalon-b-acceptance.md:66` comes after more than five of them;
  `LockComes` bounds how many more.

## 5. Proofs

`PresenceProofs` proves, for any set of agents and clients:

* `TypeCorrect`: `Spec => []TypeOK`;
* `WatchSound`: `Spec => []WatchedValueHolds`;
* `ClaimsExclusive`: `Spec => ClaimWinsOnce`;
* `Refinement`: `Spec => Abs!Spec`.

The only assumption is `NoAgentAssumption` (the placeholder is no agent). The
inductive invariant is `TypeOK /\ WatchedValueHolds`. The second part is what
makes the optimistic transactions correct: while a client is about to EXEC
and its flag is clean, the key still holds what its GET read. It is inductive
because every write of a key goes through `Store`, which marks all clients
that watch it. `ClaimWinsOnce` and each step of the refinement then follow from
it without temporal reasoning: an EXEC on a clean flag finds `available`, a
release finds `on_call`. In the refinement, commands that change nothing
outside the client are stuttering, and each of the others is one abstract step:
`Complete` where the key is written, `GiveUp` where the method returns without
having written it.

`DialerProofs` proves `TypeOK`, `LegsWithinLimit`, `HangsUpOwnCall`,
`UpLegTracked`, `FreedAfterKill` and `CountExact` for any agents, carriers,
limits, calls and number of attempts, and for any finite set of requests
(`RequestsAssumption`; the bound counts them). The inductive invariant is
`TypeInv /\ CallsInv /\ Books /\ Room`.

`CallsInv` ties together what the code keeps in three stores: `call:meta`,
`call:agent` and the locals of each request name calls by the agent they were
placed for, and after a successful `uuid_kill` the leg is down for good. `Books`
adds to `CountExact` what the counting rests on (`Parts`): the call that a
request has placed and not saved is in nobody else's hands, and a hangup
decrements the carrier of its call or none. `CountExact` compares the counter
with `Counted`, the calls whose keys are there, about to be written or expired,
but not those a hangup has just deducted. A `DECR` takes its call out of that
set in the same step, so the counter and the set go down together; the `DEL` of
the meta that comes later takes a call out that is not counted any more; and the
`SET` that clamps a negative counter, which without an excuse is never negative,
finds its carrier overdrawn. The calls placed so far are finitely many in every
state, which is part of the invariant and not assumed.

The limit follows from `Room`: for each carrier that has channels and is not
overdrawn, its counted calls and those up until their `uuid_kill` (`Doomed`),
together with the requests between the check of the counter and the `INCR`
(`InFlight`), are at most the limit plus the number of requests minus one. It is
inductive because an admission needs a counter, hence by `CountExact` a number
of counted calls, below the limit, and all requests together have at most one
call or admission each. `UpLegTracked` then says that every other leg that is up
is counted, or lost.

The same module proves the limiter the dialer asks: `LimiterTypeCorrect` and
`PromptCapped` are `LimiterTypeOK` and `PromptGrantsCapped` of `CpsLimiter`, for
any number of requests, any cap and any bound on the clock. The invariant says
what the count of a window stands for: while a second is the current one or the
one just over, its key counts exactly the grants given to prompt callers and has
not expired, because every key outlives the second after its own. `DialerProofs`
extends both modules, so the names of `CpsLimiter` that would otherwise be
`Dialer`'s too begin with `Limiter` or `limiter`; the limiter's theorems are
about `LimiterSpec` alone.

`InboundProofs` proves `TypeOK`, `ClaimsAccountedFor`, `OneCallPerClaim` and
`DecidedOnce` for any agents, any disturbances and any finite set of calls
(`ChannelsAssumption`; the length of the wire is counted in them). None is
inductive alone: a call whose claim is accounted for would lose its agent if the
second event of it, still on the wire, were routed again. `JobInHand` says what
the router has in hand: a call that it remembers and has not decided, and from
the claim on an agent. `HeldForCall` says the agent was claimed for that call.
`ClaimsKept` adds to `ClaimsAccountedFor` that nothing will be done about the
call any more: it is decided and remembered, or it has no event left. A restart,
which forgets every decision, keeps this because it loses the wire with them.
`RungOnClaim` orders the calls that ring one agent: each rings after its own
claim and before the next. `DecidedOnce` needs `JobInHand` only.

`AgentSessionProofs` proves `TypeOK`, `Settled` and `DirectoryLoaded`
(`TypeCorrect`, `StoresSettle`, `DirectoryFollows`) for any requests, passwords
and disturbances. `Settled` speaks of states without a request; `InOrder` says
how they come about. If nothing is suspect at most one request is under way
(`Alone`), and each command it is about to send says what it has achieved
(`Done`): before the reload the file holds its password, before the credential
is stored FreeSWITCH has loaded it; a revocation has the file, the directory and
the credential removed in this order, and presence last, so that no claim or
pause that comes between brings it back. A pause is only begun in a session, so
it too finds the stores in agreement.

`CampaignsProofs` proves `TypeOK`, `HandedToItsAgent`, `LogsAgree` and that
`Campaigns` implements `LeadPool`, for any agents, campaigns, leads,
dispositions and requests. Alone, none of the properties is inductive: the
missing part is what the row locks are for. `ReqInv` says that a lead picked by
a claim is still new when the claim writes it, and that a request past `Lookup`
still reports on its own agent's lead; `Apart` that two locked rows differ. For
`StoppedStays` it takes one fact more, `Own`: what a request claims or reports
on is a lead of the campaign it has read.

`UsersProofs` proves `TypeOK`, `AtMostOneAdmin` and `KeepsTheRest` for any users
and requests. `RowInv` says that a row which a transaction has read is still
what it read; `SlotInv` that whoever has counted no admins still would; `Apart`
that two transactions hold neither the same row nor the slot together.
`NoDeadlock` is the part of `Answered` that can be proved for any number of
requests: while some are busy, the next statement of one of them waits for no
lock. It follows from `SlotLast`, that nothing is waited for once the admin slot
is held.

`FreeSwitchProofs` is about the two ways to FreeSWITCH. Of `Gateways` it proves
`TypeOK`, `NoGhosts` and `CaughtUp` for any carriers, hosts, requests and
messages. The invariant follows a reload that is alone and undisturbed. `Work`
says what it has achieved: the carriers its loops are done with have the file
and gateway its list asks for, and the one under way has as much of them as its
next command supposes. `Fresh` says what the list is worth: it is what the rows
say, or a change has yet to be announced, handled or read by the boot reload. At
the end of the reload the two together are `CaughtUp`. That the carriers the
list does not name are right too needs `NoGhosts`: `ReadDir` sees files, not
gateways.

Of `EslClient` it proves `EslTypeOK`, that callers never interleave on the
connection (`NeverInterleaved`) and that `EslClient` implements `EslCommands`,
for any callers. `Exclusive` says that only the holder of the mutex is past
`Lock`; from it follows `OneCommand`, that the connection carries the one
command of the caller that waits, or nothing, which is why a reply needs no
number. The module extends `Gateways` too, hence the prefix of `EslInit`,
`EslNext`, `EslSpec` and `EslTypeOK`.

`AuthProofs` proves `TypeOK`, `TotpConfirmed`, `EnrolmentHolds` and `LockHolds`
for any requests, sessions, secrets, any limit of failures and either policy.
The strengthening of `TotpConfirmed` is `CodeChecked`: an enrolment between its
check and its write has shown a code of the secret in the row, or that secret
was replaced under it. The two action properties need the types only: what makes
them hold is who is still in progress when they begin.

That the lock comes (`LockComes`) needs more than the state of one request: a
late failure takes the count back, so neither the count nor any one request's
copy only grows. What only moves one way is the *standing*: for each count, how
many requests know of fewer failures, where a request that has read the count
knows of the lesser of what it read and what is stored, and any other of what is
stored. Whoever records a failure knows of one more from then on, those who knew
of more than it did still do, and the others know of no fewer: so at one count
fewer requests are below, and at no smaller count more. No other step makes a
request know of fewer, but for a lock, a success and a reset, which start over.
Hence each failure recorded since then had a standing of its own, all of them
earlier than the present one (`MissesCounted`, the inductive strengthening), and
they are fewer than there are standings, for any finite set of requests and any
limit: `choose(MaxFailedLogins - 1 + N, N)` of them, for N requests.

The assumptions on constants: the placeholders `None`, `Nobody` and `NoAgent`
are none of the values they stand in for (`NoAgentAssumption`,
`NoneAssumption`); the order in which carriers are tried is a sequence of
carriers (`OrderAssumption`), each with an integer as its channel limit
(`MaxAssumption`); the requests of `Dialer` are finitely many
(`RequestsAssumption`) and go-redis tries a command at least once
(`AttemptsAssumption`), and so are the calls of `Inbound` (`ChannelsAssumption`)
and the requests of `Auth`; hosts, rows and the markers of `Gateways` differ
(`ValuesAssumption`), and so do secrets and the words of `Auth`
(`ConstantsAssumption`, with a limit of failures of at least one) and the keeper
and the callers of `EslClient` (`KeeperAssumption`); the CPS cap is an integer
and the bound of the clock a natural number. TLC evaluates them in every run.

Only model-checked: liveness under fairness (`ParkedCallDecided`, `Answered` of
`Users` and of `EslClient`), which is out of the prover's reach. Every other
property that a passing run checks is proved, and no proof rests on a recursive
definition.

## 6. Not modelled

* Reports, admin pages, the wallboard: they read and keep no state.
* The live hub: one mutex around a map and non-blocking sends; a channel is
  closed and written under that mutex only, and a send never waits. The wallboard
  reads Redis key by key while it changes, and SCAN may return a key twice, so an
  agent may be listed, and counted, twice in a snapshot.
* The agent page: asynchronous browser code over a SIP library. Its requests may
  come in any order and from several tabs in `Dialer`, `Inbound`, `AgentSession`
  and `Campaigns`, which is more than the page does.
* Adding a disposition to a campaign: dispositions are never changed or deleted,
  so in `Campaigns` all are there from the start. DIDs: plain rows, which
  `Inbound` looks up with any outcome.
* Migrations and seed: run once, alone. CSV parsing, password hashing, encryption,
  token and dial string and XML formats, SIP and media.
* `SetCampaign` of the presence store, which nothing calls; the backoff of
  `RunReconnect`, because `Dial` may fail any number of times.
