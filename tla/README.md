# A TLA+ model of the ShellFleet server

The server (`src/src`, Rust, tokio and axum) keeps one websocket per agent and
one per browser, routes messages between them, matches the agents' answers to
the requests that caused them, and keeps accounts, tokens and jobs in SQLite.
What is hard about it is concurrency: each socket, HTTP request, timer and
webhook is a task of its own, state is shared through `tokio::sync::Mutex`es in
`AppState` that are taken one after another and never together, and database
statements are rarely grouped in transactions.  Between any two awaits of a task
every other task may run.  The modules here model those interleavings.

Nothing is persisted except SQLite.  After a restart of the server all maps of
`AppState` are empty and agents reconnect; for the modules whose state is only in
memory a crash is a return to `Init` and is not an action.  Where rows outlive a
crash and disagree with what was lost, it is one: `BackupRuns!Restart`,
`ProbeReports!ReportsRestart`, `InternalAuth!NoncesRestart`.

## Inventory

| Part | State | Operations | What makes it correct |
|---|---|---|---|
| Agent sessions, `main.rs` 210-251, 919-1631 | `agents`, `disconnect_states`, `agent_id_opt` and `tx` of each socket task, the debounce tasks, `tokens.hostname` | upgrade, Register (guards, insert, resolve, settle, stamp), close or time-out, teardown (guard, remove, purge, Pending), timer (confirm, fire), reminder (collect, fire) | no ghost and no evicted agents; every disconnect is announced or cancelled, answered once, announced only if real, and reminded of while it lasts; one host per token |
| Operation routing, `operation_routing.rs`, `main.rs` 1498-1541, 1633-2002 | `operation_owners`, `ui_clients` | claim, use, stop by UI sockets; output and end by agent sockets; release at either side's end | an operation has one owner, kept until a start or use of it is forwarded; a stop ends its sender's operation only; nothing stays locked |
| Command dispatch, `agent_dispatch.rs`, `api_v1.rs` 143-305, `ee.rs` 93-151 | `pending_exec`, one oneshot channel per call | look up, insert, send, await, time out, cancel, resolve, purge | every call ends; answered by its target; no leaked waiter; cancelled only if the agent is gone |
| Agent list, `main.rs` 253-287, 1158-1173, 1641-1720 | `ui_clients`, capabilities, snapshots held across awaits | change, snapshot, per-client access check, send; a UI socket's own request | every socket in `ui_clients` gets to see the last change |
| Backup jobs, `backups.rs`, `main.rs` 1405-1473 | `backup_jobs`, `pending_backup_lists`, `pending_backup_restores` | upsert, delete, run now, schedule, result; push a waiter, send, answer, time out | "running" is real; a due job starts; queues stay in step with requests |
| Fan-out, `fan_out.rs`, `main.rs` | `fan_out_runs`, `fan_out_results` | mark, send, attribute a response | no row is pending without a request that can close it |
| Update windows, `update_windows.rs`, `main.rs` | `update_windows`, `scheduled_apt_runs` | schedule, run now, record a result | a flag stands for a request |
| Health probes, `health.rs`, `main.rs` 1176-1268 | `health_probes`, `last_state` | change, push, report, tell | the newest set is pushed; the operator knows the state |
| Webhooks, `webhook.rs` | the dispatch queue, permits, audit rows | fire, pull, spawn, deliver, drop | every event ends on record |
| Device pairing and tokens, `device_auth.rs`, `cli_auth.rs`, `tokens.rs`, `db.rs` 439-700 | `pending_devices`, `tokens` | request, approve, poll, refresh, revoke, expire, register | one grant per code; a refresh token is used once; revoked means out |
| Accounts, `auth.rs`, `users.rs`, `invites.rs`, `db.rs` 1391-1700 | `users`, `invites`, `seat_limit` | login callback, role change, delete, redeem | seats are not overdrawn; an admin remains |
| Sessions and the second factor, `auth.rs`, `mfa.rs`, `passkey_mfa.rs`, `throttle.rs` | `session_epoch`, recovery hashes, signed tokens, the throttle's record | sign in, exchange, log out, enrol, disable | an ended session stays ended and is exchanged for no other; a recovery code is used once |
| Requests of the EE, `internal_auth.rs` | `internal_request_nonces` | verify, sweep, take the nonce | no request is handled twice |
| API keys, EE bridge and recorder, request filters, labels, notifications, metrics, telemetry, TLS, migrations | - | one request or one start-up at a time | not modelled, see the end |

The last column is what should hold.  Where the code does not have it is said under
"What the violations show" and "What the models say besides".

How they interact: the sessions own `agents`; every other part only reads it,
through a clone of the entry's channel, and is told of an agent's end by the
purges in the teardown (`pending_exec`, `operation_owners`) or, as the waiter
queues, rows and flags, not at all.  UI sockets reach agents through routing,
HTTP handlers through dispatch, the waiter queues and fan-out, schedulers through
the same channels; the agent's socket task finds out by itself whom an answer is
for.  Webhooks are fired from sessions and answers into the dispatch queue.
Accounts, device codes, second factor and nonces meet only in the database, in
different tables.

## Modules

| Module | Models |
|---|---|
| `AgentSession` | one socket task per connection, step by step between awaits, and its debounce task |
| `OfflineAlerts` | the reminder that an agent is still offline, beside `AgentSession` |
| `AgentRegistry` | the abstract registry: what the other parts may rely on about `agents` and about the order of teardown and purge |
| `OperationOwnership` | the abstract promise of `OperationOwners` |
| `OperationRouting` | owners, UI sockets and agent sockets; extends `AgentRegistry` |
| `ExecDispatch` | calls, waiters, responses and the purge; extends `AgentRegistry` |
| `BackupRuns` | rows of backup jobs, scheduler, run-now, results, restarts; extends `AgentRegistry` |
| `ReplyQueues` | the queues of waiters of list-archives and restore; extends `AgentRegistry` |
| `FanOut` | the runs of one kind and the attribution of answers; extends `AgentRegistry` |
| `UpdateWindows` | rows, scheduler, button and flags of package upgrades; extends `AgentRegistry` |
| `AgentList` | broadcasts of the list and the UI sockets' own requests; extends `AgentRegistry` |
| `ProbePush`, `ProbeReports` | probe sets on their way to the agent, results on their way back; extend `AgentRegistry` |
| `WebhookQueue` | the dispatch queue, the permits and the deliveries |
| `DeviceTokens` | device codes, token pairs and the sockets opened with them |
| `Accounts` | users, roles, seats, invites |
| `SecondFactor` | the sessions of one account, their epoch, and the exchanges |
| `InternalAuth` | nonces of the EE's requests |
| `AgentSessionMC`, `OfflineAlertsMC`, `MessagesMC`, `ExecDispatchMC`, `AgentTrafficMC`, `BackgroundMC`, `AccountsMC` | the instances TLC checks |
| `AgentSessionProofs` | theorems about `AgentSession` and `OfflineAlerts` |
| `OperationRoutingProofs`, `ExecDispatchProofs` | theorems about these two |
| `RequestProofs` | theorems about `UpdateWindows`, `ReplyQueues` and `FanOut` |
| `AgentTrafficProofs` | theorems about `AgentList`, `ProbePush`, `ProbeReports` and, with `RequestProofs`, about `AgentTrafficMC` |
| `BackgroundProofs` | theorems about `BackupRuns`, `WebhookQueue` and `BackgroundMC` |
| `InternalAuthProofs`, `AccessProofs` | theorems about `InternalAuth`; about `DeviceTokens`, `Accounts`, `SecondFactor` and `AccountsMC` |

`AgentSession` is shown to implement `AgentRegistry` (`ImplementsRegistry`), and
all modules that extend `AgentRegistry` are built on its steps, so what they
assume about sockets is what the session code does.

Definitions whose comment begins with "Mutant:" are not part of a specification:
each is a plausible mistake in the definition after it, and shows that the
property it goes with would find the mistake.

Database statements are taken to succeed, except where an action says otherwise
(`AcceptUnread`, `StampToken`, `CutPoll`, `FailToBurn`, `AbandonSignIn`); the
transactions are serialisable, as SQLite's are.  An axum handler is dropped at an await
when its client hangs up, and the modules have an action for it wherever something is
then left undone: `Abandon`, `FailRunNow`, `HangUpNow`, `HangUpRun`, `HangUpPush`,
`CutPoll`, `CutRefresh`, `AbandonSignIn`.

### AgentSession

`pc[c]` says at which await the task of socket `c` stands:

| `pc` | in `handle_agent_socket` |
|---|---|
| idle, open | before the upgrade; in the read loop, nothing registered by the last message |
| accepted | both Register guards passed (995-1054), before the registry lock |
| resolving | the entry is inserted (1058), before the `disconnect_states` lock |
| settling | the entry of `disconnect_states` is removed (1087) and being matched |
| stamping | before `upsert_token_seen` (1109) |
| online | in the read loop after a registration |
| closing | the loop is left, before the overlap guard (1558) |
| releasing | the registry entry is removed (1570), before the purges |
| debouncing | the debounce task is spawned (1597), before Pending is inserted (1625) |
| closed | the task is over |

A connection is recognised by its channel in the code (`same_channel`) and by
its name in the model.  `states`, `prior` and `task` are the disconnect entry,
the entry a registering socket took out, and the debounce task; an entry names
the task whose handle it holds.  `bound` is the row of a token: `host` is
`tokens.hostname`, `good` whether the row is there as its pairing made it; a row that
`upsert_token_seen` puts back after a deletion is one no upgrade accepts (`Accept`).
`latest` and
`answers` are history variables that only properties read.

Assumptions: a socket registers under one hostname, as agents do; the code lets
the legacy secret change it (see "What the models say besides").  A sleeping task
fires only after its own socket's teardown is over, because the grace (50 s)
exceeds the wait for a lock that nobody holds across an await.  The database may
fail at `StampToken`, which the code ignores, and when the guard reads the binding,
which then lets any host pass (`AcceptUnread`).  A revocation or a refresh deletes the
row at any time and closes no socket (`ForgetToken`).  `Overlap` says whether an agent's
next socket may register before its last one is torn down; the code has a guard
for it ("k8s pod handover, or a reconnect that beat this socket's teardown").

### OfflineAlerts

`overdue` are the confirmed entries whose `last_alert` is old enough (`Elapse`), so
that a clock is not needed; an entry that is removed or replaced takes its
`last_alert` with it (`SessionStep`).  `CollectDue` is what a tick does under the
lock, `Remind` the webhook after it.

### OperationRouting

`Start`, `Use` and `Stop` are the check under the owners' lock, and `Stop` gives the
operation up there; `Forward` is the send under the agents' lock, by which time the
agent may be gone (the claim of a start then stays), or the operation of a stop be
another client's.  `command` is what is being forwarded, `begun` a history: the
operations whose owner's start was sent to a connection.  `RouteOutput` looks the owner
up and drops it if the message ends the operation; `DeliverOutput` serves it under the
`ui_clients` lock.  `Leave` and `ReleaseClient` are the two locks taken when a UI socket
ends.  Authorisation, approvals and recordings change none of this state and are left
out.

### ExecDispatch

`LookUp`, `InsertWaiter` and `SendCommand`/`FailToSend` are
`dispatch_run_command`; `Receive`, `LearnDisconnect` and `TimeOut` the awaiting
handlers; `Abandon` drops a handler at an await; `CleanUp` is the removal the
guard spawns.  `Resolve` is the response path, `CancelPending` the teardown's
purge.  The writer task of a socket may be gone before or after its teardown,
so a send may fail or succeed at any time; a command that went into a channel
nobody reads is simply never answered.

### BackupRuns

`job[j]` is a row of `backup_jobs`, `due` the jobs with a cron tick since their
`last_run_at`.  `scheduler` and `operator` are the scheduler's task and a call of
`run_now_handler`, with the channel they have cloned; `wire` counts the requests
each socket has yet to answer.  The scheduler writes "running" before it sends
(`RecordJob`, `SendJob`, `FailJob`), `run_now_handler` after (`SendRunNow`,
`RecordRunNow`); `Answer` is the socket's handling of a result.  `DueJobsStart` asks for
`Tried`: the scheduler sends the job's request, or finds the agent's channel closed.
A job that is due again and again may be passed over only if others move its
`last_run_at` on each time (`MovedOn`): an answer of an earlier run, run_now, or an
upsert of a job that has never run, whose `updated_at` counts instead.  `excused` is a
history variable: the jobs whose request or answer was lost with a socket or the
server, or whose result `run_now` wrote over.

### ReplyQueues

`PushWaiter` puts the sender at the end of the agent's queue under its lock,
`SendRequest` and `FailToSend` are the send, `Receive` and `TimeOut` the waiting
handler, `Abandon` its end; `Respond` pops the front.  Nobody ever takes a waiter
out of the middle.  `ListArchives` and `Restore` are the two handlers.

### FanOut

`create_handler` keeps the registry's lock for the whole loop (`LockAgents` to
`UnlockAgents`), so no other step that needs the registry comes in between;
`MarkPending`, `SendRun`, `FailRun` and `MarkOffline` are the turns of the loop.
`LookUpRow` and `StampRow` are `maybe_attribute_response`: the oldest pending row
is read, and updated in another statement.  `stray` counts the requests that can
close no row any more, by the four ways `NoOrphanPending` names.

### UpdateWindows

`ticker` and `runNow` are the scheduler's task and a call of `run_now_handler`;
`FlagWindow`/`SendWindow`/`FailWindow` and `FlagRunNow`/`SendNow`/`FailNow` are
their flag, send and undo.  `upgrades` says who asked each socket, which the code
does not know; `TakeFlag` and `RecordResult` are what a response does.  `dangling`
holds the flags whose request was lost.

### AgentList

A list is known by the number of registry changes it shows.  `ReadRegistry` and
`ReadClients` are the two snapshots of `broadcast_agent_list`, `Publish` the send
after the EE was asked, `DropClient` the removal of a socket whose channel is
closed; `OpenList` and `Enter` are the first read of a new UI socket and, after the EE
has answered, its insert into `ui_clients`; `ReadList` is its own request for the list,
`SendHeld` the send of what was read.  `late` is a history: the sockets that entered
with an older list after the last change's broadcast had looked into `ui_clients`.
A teardown broadcasts after the purges (`Depart`, `Purge`).

### ProbePush and ProbeReports

`OwePush`, `ReadProbes` and `SendProbes` are `push_to_agent`, called by the
handlers that change a probe and by registrations.  `ReadState`, `WriteState` and
`Tell` are a result: `last_state` is read, written, and the operator told.

### WebhookQueue

`FireEvent` is `try_send`; `RecordDrop` the audit row of a dropped event;
`PullEvent` and `SpawnDelivery` are `dispatcher_loop`, which waits for a permit
with the event in hand; `SpawnSinks`, `DeliverTo` and `EndDelivery` the task.
The request to a sink, which the HTTP client ends after 10 s, is inside `DeliverTo`: it
changes nothing until the sink's audit row is written.

### DeviceTokens

`device` is `pending_devices`, `token` the pairs, numbered as they are issued.
`ReadApproved`, `MintPair` and `DeletePending` are `poll_device_token`;
`ReadApproved` and `ConsumeDevice` are `poll_cli_token`; `LookUpRefresh` and
`ReplacePair` are `replace_token_on_refresh`.  `OpenSocket`, `CheckBinding`,
`UpsertTokenSeen` and `CloseHolder` are an agent's socket, which nothing closes
when its token is revoked.

### Accounts

`signIn` follows `callback_handler`: `CountUsers`, `SettleRole`, `ReadSeatLimit`,
then one of `SignInExisting`, `RefuseSeat` and `TakeSeat`
(`upsert_login_with_seat_check`, one transaction), then `RedeemInvite`.  `change`
follows `set_role_handler` and `delete_handler`, whose count of the admins and
whose write are statements of their own.

### SecondFactor

A session is a signed token that the server does not keep: it is good while its `iat` is
not before the row's `epoch` (`ValidSession`).  `StartBump`, `ClearFactor` and
`WriteEpoch` are logout, a change of role and `disable_handler`: the time is read first
and written later.  `StartExchange`, `ReadFactors`, `SpendCode`, `FailToBurn`,
`RejectCode` and `IssueFull` are `verify_handler`; with "asked" instead of "checked" the
passkey's finish.  `exchange[x].of` is the pending session that was checked.
`ConfirmFactor` stores the codes of the request, whatever they are. A list is the set of
its entries, and `accepted` counts for each since it was enrolled: a confirmation sent
again enrols the same codes anew, as the code lets it.  Time is in whole seconds, and
several things may happen in one.

### InternalAuth

`VerifyRequest` is the check of the stamp, `ConsumeNonce` the transaction that
sweeps and inserts, with the time that was read before it began.  `Skew` is what the
crate `shared` lets pass: it is not in this repository, which says nothing of how long
that is.  So what the 300 s of `NONCE_TTL_SECS` are good for is stated twice.
`NoEarlyReplay`, a theorem, assumes nothing about lengths: a request is not let through
again before the nonce it took has run out.  `HandledOnce`, that it is never let through
again, follows if `LifetimeCovers` (`2 * Skew + MaxDelay =< NonceTtl`), which whoever
sets the two lengths has to see to; `accounts` has constants that satisfy it.

## Runs

| Run | Instance | Shows |
|---|---|---|
| `session_overlap` | 3 sockets of 1 agent and a refused one, overlap, 340 312 states | no ghost entry; the newest socket owns the id; Pending has its timer and is resolved; webhooks answer one to one; the registry is implemented |
| `session_sequential` | 4 sockets of 2 hosts, 2 tokens (one legacy, one shared), one refused socket, no overlap, the alerter, 277 664 states | Confirmed means gone; a timer confirms its own entry; a lost agent is tracked, announced and reminded of as long as it stays away |
| `session_stale_pending` | the 3 overlapping sockets | violation: `ConfirmedMeansGone` |
| `session_shared_token` | the same sockets without the alerter | violation: `OneHostPerToken` |
| `messages` | 2 sockets of one agent, 1 of another; 2 UI sockets and 1 operation, 24 125 states; a call to each agent, 53 820 states | exclusive ownership that is kept until the start or use is sent, nothing stays locked, the abstract ownership is implemented; every call ends, is answered by its target, leaves no waiter |
| `exec_cancelled` | the calls of `messages` | violation: `CancelsOnlyLost` |
| `agent_traffic` | 2 sockets of 1 agent; 2 fan-out runs, 4 calls on queues of 2, 1 UI socket, 2 probe handlers, 1 probe; 1 493 870 states | flags, rows, queues, lists, probe sets and alarms agree with what is under way |
| `background_tasks` | 1 job over 2 sockets, 2 runs at a time, 57 219 states; jobs of 2 agents in one round, a socket each, 36 335 states; 5 events, a queue of 2, 2 deliveries, 2 sinks, 14 750 states | "running" is real; a due job starts whatever becomes of the other agent and its job in the same round; every event ends on record |
| `accounts` | 1 code, 2 polls, 2 pairs; 3 logins, 2 sign-ins, 2 seats, 1 invite; 2 exchanges, 2 ends, 3 sessions, 1 recovery code; 2 requests, 2 deliveries; 1 745 234 states | one grant per code, revoked stays out, seats are kept, ended stays ended, requests are handled once |
| `device_refresh` | 2 refreshes of one pair | violation: `RefreshOnce` |
| `last_admin` | 2 admins, 2 calls | violation: `AdminRemains` |
| `factor_late_exchange` | 1 exchange, 1 end, 3 sessions | violation: `ExchangedIsLive` |

`MessagesMC`, `AgentTrafficMC`, `BackgroundMC` and `AccountsMC` put components side by
side that share nothing, or, in the first two, only the registry, which the agents'
sockets change.  A variable `part` says which of them a behaviour is one of: their
product would only repeat each component's behaviours, and their state spaces
add up instead.  A part may leave an agent, a socket or a job at rest that is there for
another part.  Temporal properties get the fairness of their own part only.

Bounds.  Sockets are accepted once and calls made once or a bounded number of
times, so the state spaces are finite without a constraint.  Three overlapping
sockets are the least in which one teardown's task can meet the entry of
another's while a third is registered; two sockets, two clients and one key are
the least in which a claim, a late end and a purge of an old teardown compete.
Two sockets of one agent are the least for the traffic modules, where the old
one's answers come while the new one is registered.  Three calls on a queue of two
fill it with a dead waiter inside; `MaxChanges` and `MaxRevisions` of 3 let a set
be overtaken twice.  `MaxInFlight` of 2 lets a scheduled run meet one started by
hand.  Two jobs of two agents are the
least in which one agent's absence could end the round of the other; that part leaves
`run_now`, disabled rows and deleted rows to the part with one job, whose sockets
overlap.  Five events overfill two deliveries, the one in hand and the queue of 2 in the
dispatcher.  Three logins on two seats with two sign-ins at a time are the
least that can overdraw them.  `MaxFails` of 1 and `LockTime` of 1 make the lock
happen in two seconds; the count itself is arithmetic.  All invariants and all
action properties of the passing runs are also proved for all sizes; the
instances matter for liveness, for the violations and for the mutants.

Symmetry is used in `accounts` only, where no temporal property is checked.  The
permutations act on the names of calls and of people in all four parts at once,
which none of the parts compares with anything but equality.

Deadlock is not checked: when all sockets are closed, all calls made and all
timers over, the instances really stop.

Fairness.  Weak fairness is given to what the server does by itself: a socket
task that is past a message, the debounce timers, the waiting handlers with
their timeouts, the spawned clean-ups, the scheduler of the backup jobs, the
alerter and the interval it waits for, the webhook dispatcher and its deliveries
(each request to a sink has a timeout, and a permit is given back by whoever ends
a delivery).  Tokio polls ready tasks, and no task
holds a lock across an await that could last.  No fairness is given to peers: an
agent need not answer, connect or disconnect.

## What the violations show

* `ConfirmedMeansGone` (`DisconnectState`: "the agent is still gone").  Socket 1
  removes its entry and is suspended before it inserts Pending; socket 2 of the
  agent registers and finds no disconnect entry; socket 1 inserts Pending.  The
  agent is online, nothing removes the entry, and the timer fires the disconnect
  webhook, followed by still-offline reminders every hour.  Under overlap a
  timer may also confirm a Pending entry of a later teardown (`FiresOwnEntry`
  is only claimed without overlap).
* `OneHostPerToken` ("bound to the first hostname it registers with").  The
  binding is checked before and written after the registry insert.
  In the model a binding that cannot be read, one that is not written, and a row that
  is deleted while its agent is connected let a second host in as well.
* `CancelsOnlyLost` ("cancel any pending exec commands for the disconnected
  agent").  The purge goes by agent id after the registry lock is released; a
  command sent over the agent's new connection in between is cancelled.  The
  purge of `operation_owners` has the same shape: `HeldUntilRevoked` allows
  the agent's side to revoke for this reason.
* `RefreshOnce` ("single-use refresh-token rotation").  The row is looked up
  outside the transaction, and the transaction inserts a pair whether or not its
  DELETE found one: two refreshes that both pass the lookup each get a pair.
* `AdminRemains` ("refuse to demote the last remaining admin").  Each of two
  calls counts two admins before either writes.
* `ExchangedIsLive` ("otherwise a revoked token could still be exchanged for a fresh
  MFA-verified session").  The epoch is compared when an exchange begins.  An end that is
  written before the full session is issued (the passkey's finish awaits the EE for up
  to 15 s in between) is not seen, and the session, being newer than the end, is good.

Each of the six is lost by what is described here and by nothing else in the model:
a theorem states it of every behaviour without it (`ConfirmedMeansGone` as
`ConfirmedGone`; the others at the end of Proofs).

## What the models say besides

Behaviours that are in the models, that no property of a run excludes, and that a reader
should know of.  We found no line of the repository that promises otherwise, unless one
is quoted:

* A stop releases the operation when it is checked (`main.rs` 1951) and is sent after
  more awaits (1981).  Another client may claim and start the operation in between, and
  the agent is then sent the stop of the client that owns it no more, although a stop is
  refused with "operation is owned by another client" (1958) when it is checked.  The
  keys of Docker logs, journals and the like are reused, and that of a Docker exec is one
  for the whole agent.  `NoStrayStop` says that this does not happen; the model has it
  only under the hypothesis of `UndisturbedStopsHit`.
* A recovery code can be accepted twice, although the verification "burns a recovery
  code" (`mfa.rs` 19-21): two verifications read the list before either writes it back,
  or the list cannot be encrypted or written, which is only logged; and of two that
  accept different codes the later write brings the other code back.  `CodesSpentOnce`
  says that this does not happen; the model has it only under the hypotheses of
  `RecoveryCodesAreSpent`.
* Two first logins that overlap both count no users and both become admin, and
  two sign-ins with one invite both take its role before one redeems it.
  `count_users` that fails counts as 0 and grants admin too (`auth.rs`).
* Two ends of sessions that overlap can write the earlier time last, and a
  deleted and re-created account starts from epoch 0: both revive sessions
  (`EndedStaysEnded` names them).
* A confirmation of the second factor that is sent again enrols the codes it holds
  anew, spent ones included: the server does not compare them with anything.  And a
  verification under way writes what is left of the list it has read over that of an
  enrolment that came in between, or of a factor that was turned off.
* A socket whose token was revoked puts the row back when it registers, without
  a refresh token and expired: it shows in lists and is good for nothing.  A
  refresh that had looked the row up before the revocation still mints a pair.
* `run_now` of a backup writes "running" after the send, over a result that was
  faster; a failed send of an update window leaves its row at "running".
* A list of agents, or a set of probes, that was read earlier can be sent later,
  so the last one received need not be the newest.
* A new UI socket reads the registry, asks the EE, and enters `ui_clients`.  A change
  whose broadcast looks there in between is not shown to it until the next change or
  its own next request (`late`, the exception of `ChangesAreShown`).
* A token whose row was deleted under an open socket is written again when the socket
  registers, under whatever host it names: the binding of a token lasts no longer than
  its row.
* A backup waiter whose send failed, or whose socket was lost, stays in its queue.
  Every later answer then goes to the call before the one that waits, and when as
  many are lost as the queue has places, every call is refused until the next
  restart.  The comment at `main.rs` 177-179 speaks of the most recent waiter; the
  code pops the oldest (1274).
* The throttle is checked before and recorded after the verification: as many
  attempts more than the limit get through as are under way at a time.
* A reminder that was collected before an agent came back is fired after its
  reconnect was.
* A socket that registers again under another hostname, which only the legacy
  secret allows, leaves its first entry in the registry for ever.  The sessions
  are modelled with one hostname each.

## Proofs

All theorems assume only the named assumptions on the constants
(`ConstantsAssumption`, `RegistryAssumption`, `ClientsAssumption`,
`RequestsAssumption`, and those of the other modules): null values are no members,
the maps have their types, limits are positive.  How long the nonces of `InternalAuth`
are kept is no assumption; `NoReplay` has it as a hypothesis, `LifetimeCovers`.
Histories have no bound that a theorem
depends on.

`AgentSessionProofs`.  None of the invariants is inductive by itself.  `IInv`
adds: `Identity` (an identity is the socket's host and is set exactly from the
insert on; a task exists only after its teardown), `Registry` (an entry belongs
to the newest socket of its id, which has not looked at it in a teardown yet),
`Entries` (a disconnect entry names a socket of that id whose task is asleep, or
firing if confirmed) and `Held` (the same of an entry that was taken out).  From
it follow `TypeCorrect`, `GhostFree`, `OverlapGuard`, `PendingTimed` and
`AnsweredOnce`.  `RegistryImplemented` maps `pc` and `ident` to the abstract
link of a connection; `InsertEntry`, `SkipTeardown`, `RemoveEntry` and
`ReleaseAgent` are the abstract steps and all others stutter.

Under `~Overlap`, `SeqInv` says in addition that one socket of a host is active
at a time, that it is the newest, that an id has an entry exactly while its
newest socket is over or has not resolved yet, and that a sleeping task's handle
is in an entry or in the hands of the socket that took it out.  From it follow
`ConfirmedGone`, `GoneTracked` and `OwnEntry`.  `SessionsBesideAlerter`: the
alerter changes nothing of the sessions, so all of this holds of `OfflineAlerts`
as well, which is what `session_sequential` checks.  `RemindersAreOfTheLost` is the
safety half of `StrandedIsSurfaced`: whoever is overdue has a confirmed entry
(`OverdueAreConfirmed`), and so is gone when the alerter collects it.

`OperationRoutingProofs`.  `HeldUntilRevoked` and `NothingOwnedByGone` are inductive
together with the fact that a command is set only while it is forwarded, and that what
has begun is owned (`BegunIsOwned`).  `OwnershipImplemented`: a start claims or keeps,
every release is a `Free` of a set, nothing else touches the owners.

`ExecDispatchProofs`.  `NoLeakedWaiter` and `WaiterFindable` need that a waiter
in the map has an unused channel, that a call which has not inserted one has a
fresh channel, and that a removal is on its way only for calls that have ended;
`AnsweredByTarget` that a channel which carries a value got it from the target.

`BackgroundProofs`.  `RunningIsReal` needs `SentIsReal`: between the send of
`run_now` and its "running", the run it sent is under way, or lost, or the row is
gone; and `GoneIsBlank`: a row that is not there has no status, so that a job made
anew shows nothing.  `TasksHaveJobs` says that whoever writes has a job.  Of the
webhooks, `RecordedAtEnd` (the audit rows of an event tell how far it has got) and
`HeldOnce` (an event in flight is in one place) need each other and three facts:
`PermitsBalance`, permits and tasks that hold one add up to the limit; `InOrder`,
the channel keeps the order in which events were fired, so that what is pulled is
not in it any more; and the types.  `RecordedAtEnd` is the safety half of
`EventsAreRecorded`: TLC checks that every event comes to its end, the theorem
says of any number of events and sinks what is on record then.

`RequestProofs`.  `FlagHasRequest` is inductive with `TasksOwnSockets`: the channel
a scheduler or a button has cloned is one of the agent it flags, so that a
request that replaces "being sent" is found among that agent's.

`QueueBalance` counts: each step adds or takes at most one waiter (`OneMore`,
`OneLess`, `SameBalance`), and the request that goes with it.  That it is one, and
the same one, is what must be known besides: `Unsent` (a request that was not sent
is neither lost nor under way), `AskedOnce` (a request is under way on one socket,
and not lost too, so that losing a socket loses each of its requests once) and
`HoldEntries`.  There is no assumption that calls are finitely many: that those
outstanding are is part of the invariant.

`NoOrphanPending` counts rows against requests on all sockets of an agent, and is
the longest argument.  `OneLoop`: the registry's lock is held by one run.
`MarkedIsConnected`: under that lock the target that was just marked cannot leave
before it is sent to.  `SentOnce`: no socket has a request of a run that is yet to
be sent, so that a send adds a request to those counted.  `ListenForNone`: a socket
that has looked no row up has no response in hand.  `LastSecond` is needed for a
run's start to be a number.  Again the sets that are counted are finite by the
invariant, not by assumption; the sockets of one agent are pairs with runs in
`Held`, which is what each step adds to or takes from.

`AgentTrafficProofs`.  `ChangesAreShown` speaks of quiet moments only; `NobodyForgotten`
says it of all: a UI socket that is not `late` has been shown the last change, or a
broadcast that will show it is under way (it has not read the registry, or it has read
that change and still has the socket before it).  `ListsArePast`: nobody holds a list
that is newer than the registry.

`ProbesArePushed` has the same shape: `PushedOrComing` says at every moment that the
agent's socket has been sent the newest set, or somebody will send it (`Coming`: a push
that has read it, or has yet to read; of pushes that are yet to read, only the newest
change's and a registration's count: a handler for an older change may be cut off
without being missed), or the newest change's handler was cut off.  `NoneFromFuture`:
nobody has read a set that is yet to come.

`AlarmMatchesState` needs that a probe none of whose results was mistaken or cut off
is dealt with by one socket at a time (`OneAtATime`), and that what this socket has
read or written is still true when it tells the operator (`StillTrue`);
`ResultsOfRows`: a report that is dealt with is of a probe that has been made.

`TrafficTypeCorrect` and `ConnectedHaveTheNewestSet` are of `AgentTrafficMC`: the
component that the behaviour is one of keeps its own invariant, and the others keep
their types because the registry does and nothing else of theirs changes.
`BackgroundTypeCorrect` and `AccessTypeCorrect` are simpler, as those components
share no variable.

`InternalAuthProofs`.  `Verified` bounds how old a verified delivery may be; `Lasting`:
the nonce of a request that was let through is in the table, or the clock has passed its
time.  From these `NoEarlyReplay` follows for all constants (`NoncesLast`).  `Remembered`
adds, under `LifetimeCovers`, that a request is let through at most once (`NoReplay`).

`AccessProofs`.  For `DeviceTokens`, `Settled` says of a code whose polls neither
overlapped nor were cut off how much was granted, by what its poll or its row
shows; `SessionTakesRow` that a session was paid for with the row.  `RevokedIsSpent`:
numbers not issued yet have no row and no socket, revoked pairs keep no refresh
token and an expired access token, whatever is put back.  For `Accounts`,
`SeatsKept` needs only that no limit in force or in hand is above the largest
(`CapsAreKnown`), and that the users are finitely many.  For `SecondFactor`,
`EndsInv` says that unless `reset` the one end under way is not before the epoch,
which is past all sessions that have ended.

Seven theorems are about properties that the model has only under a hypothesis: five
that runs show violated, and `NoStrayStop` and `CodesSpentOnce`.  The hypotheses deny
what violates them; they are of states, or of steps of the code, that occur, and
exclude no other interleaving, failure or loss.

* `OrderlyPurgeCancelsLost`: `CancelsOnlyLost` under `TeardownsAlone` (while a
  teardown has removed its entry and not purged yet, no entry of the agent is
  there).  `HoldEntries`: who is sent to, or awaited, has a clone of an entry.
* `UndisturbedStopsHit`: `NoStrayStop` under `StopsUndisturbed` (nobody claims an
  operation between the check of its stop and the send).  `StoppedIsFree`: what is being
  stopped is nobody's, and so has not begun.
* `BoundTokensHaveOneHost`: `OneHostPerToken` under `BindsAlone` (no two hosts with one
  token are between the guard and the write) and `BindingTrusted`: the write of the
  binding, whose failure the code only logs, succeeds; so does the read, when the guard
  depends on it; and no row is deleted while an agent is connected with its token.
  `BoundToHost`: a socket that may bind its token finds it unbound or its own, and one
  that is registered and past that has bound it.
* `RefreshesAloneAreOnce`: `RefreshOnce` under `RefreshesAlone` (one refresh token
  is in the hands of one call at a time).  `AcceptedIsSpent`: a refresh token
  that was accepted is in no row and in nobody's hands, whatever a socket or a
  revocation puts there.
* `ChangesAloneLeaveAdmin`: `AdminRemains` under `ChangesAlone` (one call of
  `set_role` or `delete` at a time).  `SawUsers`: a sign-in that will write
  another role than admin has counted a user, and users do not run out since;
  `LeavesAdmin`: a call that is about to take an admin away leaves another.
* `ExchangesAreOfLive`: `ExchangedIsLive` under `EndsMissExchanges` (no end is written
  while a session that it ends is being exchanged).  `LiveInv`: what is being exchanged
  was issued and has not ended.
* `RecoveryCodesAreSpent`: `CodesSpentOnce` under `OneReader` (one verification at a time
  is between the read of the list and its end) and `CodesAreBurned` (what is accepted is
  written back).  `CodesInv`: what the row lists, and what the verification has read, was
  not accepted since it was enrolled.

Only model-checked: the liveness properties (`PendingResolves`, `AbandonedIsFreed`,
`EveryCallEnds`, `WaitersDrain`, `DueJobsStart`, `EventsAreRecorded`,
`StrandedIsSurfaced`), which are out of the prover's reach, and that the violations do
occur. Every invariant and every action property of a passing run is a theorem.

## Plan

Done: all modules above, their runs, and the theorems listed under Proofs, one for
each property of the runs that is not a liveness property.  Left, in the order of
importance:

1. To prove: the safety halves of the other liveness properties, as is done for
   `EventsAreRecorded` and `StrandedIsSurfaced`: what may keep a call from its end,
   a waiter from its removal, a due job from its start.
2. To model: a socket that registers twice.

## Not modelled

* API keys and the rest of `api_v1.rs`, request filters (CSRF, RBAC, IP allowlist,
  security headers): decisions about one request, with no state that survives it
  other than a cached table.
* The EE bridge and the recorder: they forward requests and frames to a sidecar
  that is not in this repository and decides what becomes of them.
* Labels, notifications, metrics, telemetry, the TLS listener, migrations:
  single-statement writes, periodic queries and start-up.
* The IP buckets of `anon_limiter.rs` and `throttle.rs`: arithmetic under one lock.
* TOTP, signatures, encryption, the exchange with GitHub: whether an answer is
  right is left open.
* Payloads of webhooks and the events still queued when the server ends.
