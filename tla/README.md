# A verification project for mosaico

mosaico lets coding agents (Claude Code, Codex, opencode, Pi, ACP servers) of
several hosts work in shared channels over Nostr relays. On each host one daemon
owns a SQLite store, the relay subscriptions and the sessions it hosts; a command
line and harness hooks talk to it over a Unix socket. This directory holds TLA+
modules of the parts of that daemon whose correctness depends on the order of
events, the TLC instances that check them, and TLAPS proofs about them.

Paths below are relative to `src/src/`.

## 1. The system

### 1.1 Components

| Component | State | Operations | Where |
|---|---|---|---|
| Event claims | table `event_claims`: state, attempts, updated_at, retry_at per (event, claim key) | claim, take over, renew, finish, charge, fail foreign keys, prune | `state/event_claims*`, `state/retention.rs` |
| Claim handlers | one task per dispatched event: its claimed targets and their generations | dispatch, admission, run owned targets one by one, record outcomes | `daemon/server/demux/*`, `daemon/server/management_command.rs` |
| Demux and claim retry driver | a timer, the set of parked events, a pass-level backoff | replay the view, find due claims, re-dispatch the present, charge the absent | `daemon/server/demux.rs`, `demux/claim_retries.rs` |
| Inbox | table `inbox`: state per (event, recipient); table `work_start_claims` | park, claim, confirm, re-enqueue, lease, acknowledge, take handoffs | `state/inbox*`, `state/work_start.rs` |
| Doorbell and injectors | tasks; confirmation timers in memory | scan, claim, render, write to a PTY or an RPC harness, bookkeeping | `session_host/delivery*`, `session_host/transport*`, `reconcile/delivery` |
| Turn hooks | none of their own; one call at a time per harness | turn_start, turn_check, turn_end | `daemon/server/turns.rs`, `turn_context/*` |
| Extension delivery | a registry of live recipients and leases in memory | wait, acknowledge, decline, expire | `daemon/server/session_delivery*` |
| Session lifecycle | table `sessions`: runtime state, generation, presentation, idle deadline, work state | turn edges, attach and detach, evict when idle, stop, recover | `state/session_lifecycle.rs`, `daemon/server/managed_lifecycle*` |
| Session start, end, resume | the same table, locators, native attempts | launch, register, end, resume | `daemon/server/session_*` |
| Routes and standing | tables `session_channels`, `session_standing`: which channels a session reads and whether the relay has it as a member | admit, commit, compensate, leave, clean up, repair, forget | `state/session_routes*`, `state/session_standing.rs`, `daemon/server/managed_lifecycle/standing*` |
| Subscriptions | what the daemon wants to hear, what it believes it has asked for, the runtime's demands | snapshot, plan, open, replace, close, confirm | `reconcile/subscriptions`, `daemon/server/subscriptions.rs`, `nostr_runtime/demands.rs` |
| Presence and status | a lease per session, one pending and one parked publication, a lane | project, coalesce, defer, publish, retry, renew, withdraw | `reconcile/status`, `session_presence.rs`, `presence_publisher*` |
| Nostr runtime, group view, fabric provider | relay connections, a view rebuilt from events | connect, publish, fetch, fold | `nostr_runtime`, `fabric` |
| Configuration reload | the live configuration and the backend key | swap configuration, runtime, subscriptions | `daemon/server/config_reload.rs` |
| Handle leases and signers | which handle and key an identity holds | allocate, reuse, retire | `state/handle_leases*`, `state/session_signers.rs` |
| Messages and channel wait | table `messages`, a cursor per waiter | store, wait, read after cursor | `state/messages*`, `wait_cursor` |
| Blocking pool, PTY supervisor, RPC harness, server shell | processes, sockets | I/O around the rest | `daemon/blocking.rs`, `pty`, `rpc_harness` |
| CLI, catalogs, installation, attachments, integrations | files, terminals | one-shot commands | rest of the repository |

`PROJECT.json` lists every component with its sources and how far it is modelled.

### 1.2 How they interact

```
 relay event --> view --> demux --> handler --claims--> event_claims
                   |                |  side effect: spawn, resume, admit, park
   retry timer --> due claims ------'        |
                                             v
           doorbell <--ring-- inbox (pending) <--- hooks, extension waits
              |                   ^
              v                   | roll back, stale submissions, expired leases
       PTY / RPC harness --hooks--'  --> work state --> reaction, presence, eviction

 launch, join, leave, forget --> standing (under one lane) --> relay roster
        |                              |                            |
        v                              v                            v
 subscription sync --> demands    routes + member rows        group view (late)
                                       |                            |
                                       '--> status policy --> publisher --> relay
```

Everything that survives a crash is a row of the store. A store call runs under
one lock, but a handler makes many of them and awaits in between, so what it read
may be old when it writes. Most of the protection is in the rows: the state and
generation (`attempts`) of a claim, the state of an inbox row, the token of an
extension lease, the generation and the epochs of a session, the epoch and owner
of a standing row. The rest is three in-memory locks held across awaits: the
standing lane, the subscription lock and the publication lane.

### 1.3 What is hard

- Handlers of one event overlap: the view wakes, the retry timer and attachment
  continuations all dispatch it, and a lease may run out while a handler works.
- A message has many carriers that race for it: concurrent doorbell scans, three
  hooks, several extension waits, and the timers that give rows back.
- Side effects cannot be undone: a paste without its Enter key, an RPC prompt
  that is refused after its row was marked.
- A session's row is written by a dozen tasks, each from a snapshot it took before
  it waited for a process, a relay or a supervisor.
- The relay's roster, the daemon's record of it and the decoded view of it move at
  three different moments, while launches, leaves and forgets go on.
- A publication is read, projected, queued and sent in separate steps; a newer one
  may overtake it anywhere.
- Crashes lose tasks, timers, leases and locks, and keep the rows; a reload
  replaces the runtime under tasks that still use the former one.
- A store call that fails leaves a handler's work unrecorded.

`PROJECT.json` lists each of these at its line, with the properties that would be
violated if it went wrong.

## 2. What makes each component correct

- Event claims: a generation names one handler; at most one side effect starts per
  generation; two handlers never work on a target at once unless a side effect
  outlives its lease; a completed row is final and stands for work that began; an
  open row has an attempt left; a live lease is respected. Together: the table
  implements a ledger of side effects that knows nothing of leases and crashes.
- Retry driver: every claim of an event it drives comes to an end, through absence
  from the view, failing store calls, restarts and reloads; its timer does not spin.
- Inbox: a row has one carrier; it is never lost except in the ways the code logs
  as lost; `injected` means the agent saw it; an injected row stays so; a reaction
  is published once; a lease ends by its own token; submissions and leases resolve.
- Session lifecycle: every live process is that of a row that is not stopped; an
  evicted runtime was idle and unattached; a late observation never takes the
  presentation back; a stopped generation is not taken up again, nor a revoked
  identity; a kill that was acknowledged left no process; no row stays stopping,
  and every exit is noticed.
- Routes and standing: every membership the relay granted is recorded; a forgotten
  session has no route; a cleanup waits for the leave that owns the channel; a
  removal that is due is made; the route of a running session becomes a membership.
- Subscriptions: what is believed open is open; a demand keeps its subscription
  through every order of frames; a wanted channel is subscribed in the end.
- Presence: what the policy last said is what the relay shows; an admitted channel
  is shown; a session that ended goes dark.

## 3. Modules

| Module | What it is |
|---|---|
| `EventClaims` | the claim table, the handlers, the driver's writes, the pruner, crashes, time |
| `SideEffectLedger` | the abstract specification that `EventClaims` implements |
| `EventClaimsProofs` | theorems about it, and the refinement |
| `ClaimRetryDriver` | the demux task and its timer over the claims and handlers of `EventClaims` |
| `ClaimRetryDriverProofs` | its theorems |
| `InboxDelivery` | one recipient's inbox rows and handoffs, injectors, hooks, extension, timers, crashes |
| `InboxDeliveryProofs` | its theorems |
| `SessionRow` | what each store call does to a session's row and its PTY locator |
| `SessionLifecycle` | one identity's supervisors, engine, lifecycle loop, startup task, launches and operator calls over that row, with crashes of the daemon and of supervisors |
| `SessionLifecycleProofs` | its theorems about the row |
| `SessionProcessProofs` | its theorems about the row and the processes outside the store |
| `StandingStore` | what each store transaction does to a session's route to and standing in a channel |
| `ChannelStanding` | the tasks that move that standing, the relay's roster and the view of it |
| `ChannelStandingProofs` | its theorems |
| `SubscriptionSync` | the subscription sync, the demands, the frames to the relay, the reload |
| `SubscriptionSyncProofs` | its theorems |
| `StatusPolicy` | what one call of the status reconciler does to a session's lease |
| `PresencePublisher` | the tasks that call it, the publisher's queue and lane, the relay's status |
| `PresencePublisherProofs` | its theorem |
| `MCEventClaims`, `MCClaimRetryDriver`, `MCInboxDelivery`, `MCSessionLifecycle`, `MCChannelStanding`, `MCSubscriptionSync`, `MCPresencePublisher` | TLC instances |

`ClaimRetryDriver` composes with `EventClaims`, `SessionLifecycle` with
`SessionRow`, `ChannelStanding` with `StandingStore`, `PresencePublisher` with
`StatusPolicy`.

Where the environment is large, a module has a constant `Budgets`: a set of
records that say how often each kind of event may happen (and, in
`SessionLifecycle`, which kinds at all). A behaviour draws one record at the
start, in the variable `budget`, and each such event spends from it. An MC module
lists the records it explores, its slices. So one run covers many small
environments, and no action is cut out of the next-state relation.

### 3.1 EventClaims, SideEffectLedger

`claims` is the table. A row's `wait` stands for its due time: where the code
stores `updated_at` and `retry_at` and compares a due time with the clock, the
model keeps the seconds that are left, and `Tick` takes one from every row. For a
processing row the code compares `updated_at <= now - 600` and so the row is due
one second later than the lease, hence `Lease + 1`. `attempts` is both failure
counter and generation, as in the code: a claim returns it and every later write
of the handler compares it (`Owns`).

A handler is a `Run`. It stands at `claiming` target `at`, at `admission`,
`retrying` or `failing` the targets of a rejected admission, in the `queue` before
its next target (`run_owned` renews every target it still holds and gives up the
current one when it lost it), or `working`. `TakeTarget`, `ExhaustTarget` and
`SkipTarget` are the three results of the claim call; `BeginWork` and `LoseTarget`
those of `run_owned`; `FinishWork` and `FinishRejected` are `finish_claim` and the
two finishers of offline mentions and management commands, whose fences differ
(`Completed`, `Finished`). `ChargeAbsent` and `FailForeign` are the retry driver's
own writes. `Crash` drops the runs and keeps the rows.

`SideEffectLedger` is what all of this is for, said without rows, leases and
handlers: an effect is begun while it is open, under a number that was not used,
at most `Limit` times; it is done only after it was begun; a done one stays done,
one given up may still turn out done, until it is forgotten. `EventClaims`
implements it with the row's state as `status` and the started generations as
`begun` (`ImplementsLedger`).

What is abstracted: what a side effect does (it takes some seconds, then an
outcome the kind allows); which backend key a claim key names (`rekeyed` says
whether it is the current one); when an event is dispatched (at any moment).
`Prune` waits until no handler holds the row: a handler still alive after the
seven days of retention is out of scope.

### 3.2 ClaimRetryDriver

In `EventClaims` an event may be dispatched, charged or ended at any moment. Here
the one task that does so is modelled: `at_` is where it stands (`apply` replays
the whole view, `arm` computes the timer, `wait` selects between the view's and
the handlers' notifications and the timer, `mentions` and `pass` are one sweep
over what is due). `parked` are the due events the view does not hold during the
grace time, `floor` the pass-level backoff after a pass that failed or left its
first due claim due. `Handler` is any step of a handler of `EventClaims`, with the
notification that `finish_claim` sends when it schedules a retry; `RecordLost` is
a `finish_claim` whose store call fails. `Restart` is a crash of the daemon;
`Reload` and `Respawn` are the two ends of a configuration reload, between which
the former task still runs.

The batches of 64 events are larger than the sets of events here. A sweep takes
no time and sees the view as it was when it began; the store calls of it may fail.

### 3.3 InboxDelivery

Rows of different recipients never meet, so the module has one recipient. `row`
is the table's state column, `handoff` the work-start claim of a row. An injector
is a `Run` with the rows it planned and the rows it claimed (`mine`, the prompt's
chat ids); its phases follow `ring_doorbells_inner` and `inject_planned_messages`
from one await to the next. A behaviour draws its `transport`. With `"pty"` the
write is a paste and, 200 ms later, an Enter; the prompt box `box` belongs to the
environment and stays through a daemon crash. With `"rpc"` the write opens a turn
or steers the running one. The phases `turn`, `untracked`, `steering` are the
tasks that wait for the harness. `hook` is the harness hook being served, `lease`
the extension's wait calls, `timer` the rows whose confirmation timer is armed in
memory.

`shown`, `reacted` and `dropped` are history: what the agent was shown, the
reactions published, and the rows whose delivery was given up in a way the code
knows of (and mostly logs).

What is abstracted: text (a prompt is the set of messages in it, so the
confirmation by id and that by body are one); debounce and the choice of channels
(they decide when a scan plans); retention of inbox rows; time (a timer fires at
any moment after it is armed). The session runs throughout: its start and stop
belong to the session lifecycle.

### 3.4 SessionRow, SessionLifecycle

Identities do not share rows, so the module has one. `SessionRow` holds the store
calls as operators from row to row; one whose WHERE clause matches nothing returns
the row. They are fenced differently (by generation; by generation and attachment
epoch; by generation and lifecycle epoch while stopping), which is where most of
the lifecycle's difficulty lies. The locator is `[pty, gen]`; a PTY is named by
the generation it was launched for, `deadline` is none, armed or due.

| Part of the module | Code |
|---|---|
| `sup`, `Attach`, `Detach`, `ChildExits`, `SupervisorCrashes` | the supervisor process: clients, attachment epoch, metadata file, exit guard (`pty/supervisor*`, `pty/meta.rs`) |
| `notes`, `PresentationChanged` | the notification thread and its call |
| `reports`, `exits`, `ExitCall`, `ExitLookup`, `ExitAct` | the persisted exit report and the exit call, cut where it waits for a registered session |
| `task["loop"]`: `Tick` .. `ReserveEviction` | one pass of the lifecycle loop: replay reports, reconcile presentation, settle stopping rows, evict |
| `task["boot"]`, `Revive`, `ReviveEngine` | `reconcile_sessions` over the rows that ran when the daemon started (`frozen`) |
| `engine`, `ending` | the entry of the engine map, and engines between leaving it and stopping their row |
| `launch` | reserve, spawn, bind, engine, or release when one of them fails |
| `SessionStartHook` | a harness that reports itself from its PTY |
| `op`, `Terminate`, `KillSettle`, `ForgetSettle`, `SessionEnd` | operator calls, cut where they wait for a process to end |
| `Crash`, `Start` | the daemon; supervisors, reports and rows survive |

A task keeps the snapshot of the row that it read (`snap`) and each store call is
one step. `cancel_session` and the store call next to it are one step: they touch
the engine map and the row, and what a third task could see between them only
decides which of two engines' ends is recorded as the reason, which is not
modelled. Binding pid and locator is one store call in the code.

What is abstracted: RPC-hosted runtimes; stop reasons, busy time and timestamps;
pid reuse; the five seconds between passes of the loop (it may run at any time);
what `InboxDelivery` has in detail (`inbox` is none, pending or injected). An
exit report of an unknown PTY is dropped after five minutes, that is, at any
replay or at none.

### 3.5 StandingStore, ChannelStanding

One session and one channel. `db` holds the session's generation and lifecycle
epoch, its route and its standing row; `relay` says whether the roster names it,
`view` whether the decoded view does, `ready` whether the readiness cache vouches
for it. Each request or background admission is a `Task`; the coordinator of
`managed_lifecycle/standing*` is the one task `Standing`. A task's `ops` entry
keeps what it read; `TakeLane` is the acquisition of `standing_sync` with the
checks the code repeats under it, and the steps `Granted`, `Commit`, `Removed`,
`Mark` follow while the lane is held, with `GrantFails`, `CommitFails` and
`RemoveFails` for answers and writes that fail. A leave gives the lane back
between its phases (`withdraw`), and owns the channel through the in-memory mark
(`Leaving`). `Stop` and `Launch` need no lane: a runtime ends or is replaced under
an admission.

`strayed` is history: the roster may name the session without the daemon knowing,
because an answer or a write was lost.

What is abstracted: history cursors and listings; several channels (rows of two
channels meet only in the lane); what presence says meanwhile (`PresencePublisher`
has that).

### 3.6 SubscriptionSync

A cover is a set of channels and stands for the member authors, the group scope
and the `#h` filter that are computed from it. `sync` is the one sync that holds
the lock; it takes the demands `profiles`, `records`, `broad` in that order,
`Skip`ping what it believes covered, and otherwise `Open`s a subscription under a
fresh id, `Install`s the demand when the relay client took the REQ, closes the
prior one and `Confirm`s the belief. `frames` are on their way to the relay, which
may apply them in any order. The reload runs without the lock: `ReloadBegins` (the
shutdown of the records task), `ReloadResets`, `ReloadInstalls` (a runtime without
demands). A sync in the middle of a demand then works on a runtime that was
replaced (`stale`).

`failed` and `astray` are history: no sync has completed with what is wanted since
one failed; the products whose belief is wrong in one of the ways the module
lists.

### 3.7 StatusPolicy, PresencePublisher

`StatusPolicy` is one call of the reconciler: it takes the lease and a reading
and returns the lease and an effect. In `PresencePublisher` a `call` first reads
the session's projection (routes with a member row of the session's lifecycle
epoch), then asks the policy under its lock, then submits the effect to the
publisher or awaits its publication, and a leave then removes the member. The
publisher has one `pending` job, which the next submission overwrites, one
`parked` job that the local publish gate could not verify, and a FIFO `lane`
shared with the host's other sessions. A job has a revision, the order of which is
all the code compares: revisions are ranked anew with each outcome. Refused jobs
are tried `Attempts` times. `Elapse` is a renewal period; it passes only when the
calls are done and no engine owes a renewal, and a status that is not refreshed
for `Ttl` periods lapses.

`lost` and `misread` are history: the last outcome failed, was overtaken, or died
with its daemon while the relay went on showing the session; the lease holds a
reading that was old when it was applied.

What is abstracted: titles, branches, activity texts, receipts, the stored status
rows of other hosts.

## 4. Runs

| Run | Instance | What it shows |
|---|---|---|
| `claims_orchestration` | one event, two targets, two handlers, two attempts, failing store calls, crashes, a change of the backend key, work bounded by the lease | generations, exclusion, completion, and that the table implements the ledger; the second target waits behind the first, so its lease is renewed or lost; the foreign-key sweep races with the handlers |
| `claims_driver` | an orchestration, an offline mention and a management command, two handlers; six slices of view changes, late attachments, faults, a restart, a reload to another key | every claim the task drives ends, the timer does not spin, leases are respected in the composition |
| `inbox_injectors` | on a PTY and behind an RPC harness: two messages, two injectors, hooks, two leases, faults, crashes; every prompt renders | one carrier, nothing forgotten, seen before injected, reactions, final confirmations, leases end by their own token |
| `inbox_extension` | on a PTY: two leases, an injector, hooks, prompts that cannot be rendered, fair timers, no fault | submissions and leases resolve |
| `session_safety` | two generations, six slices (below) | evicted runtimes had no client and no turn the row knew of, edges were seen and only advance, an acknowledged kill left no process, stopped and revoked are final |
| `session_restart` | one generation, five slices with faults and daemon crashes | a live process never belongs to a stopped row, no row stays stopping, the presentation settles, exits are noticed where nothing is evicted |
| `session_exit_unnoticed` | one generation, eviction, no fault | finding 1 of section 6 |
| `standing` | two tasks and the coordinator, six slices of launches, joins, leaves, forgets, faults, crashes | granted memberships are recorded, forgotten sessions are routeless, a cleanup waits for the leave, due removals and routes settle |
| `standing_rejoin` | a join and a leave, no fault | finding 2 of section 6 |
| `subscriptions` | two channels, five slices of changes, discoveries, refusals, deadlines, a reload | believed is open, demands are served, wanted channels are subscribed |
| `presence` | one channel, two callers, two generations, twelve slices of turns, admissions, a leave, a stop, a relaunch, a forget, an eviction, faults, a restart, also of a stopped session, another session in the lane | nothing is dropped, the admitted is shown, the stopped goes dark |
| `presence_eviction` | an eviction and a turn | finding 3 of section 6 |

Deadlock. The session runs check it: the lifecycle loop always has a next step
while the daemon is up. In the other modules a daemon with nothing to do stops, so
their runs disable the check.

Bounds. `MaxAttempts = 2`, `Lease = 1`, `RetryBase = 1`, `RetryCap = 2`,
`Retention` (0 or 1), `WorkLimit = 1`, `Grace = 1`, `StallBase = 1`, `StallCap = 2`
are seconds or counts cut down so that each comparison is met from both sides: a
lease of one second is still live, just over, and long over; two attempts give a
first claim, a charged retry, a takeover and the exhausted row; a stalled pass
backs off once below and once at the cap. The code's values are ten attempts,
600 s, 30 s doubling to an hour, seven days, five minutes of grace, 30 s doubling
to five minutes. The order of the bounds (work at most a lease, lease below
retention) is that of the code where a property needs it; with `BoundedWork =
FALSE` the driver's run also has side effects that outlive the lease. `age`
saturates at `WorkLimit`, `reacted` at 2. The proofs hold for all values.

Two messages suffice for an inbox row to be planned with another that is claimed
elsewhere, which is what the wide operations (rollback of a plan, all stale
submissions, all handoffs) can get wrong; two injectors, or two leases, suffice
for each claim to lose once. Two injectors together with prompts that cannot be
rendered are in no run: then `ClaimExclusive`, `InjectedIsFinal` and
`LeaseEndsByItsToken` do not hold (section 6), and for the properties that do, the
states are too many for TLC on a PTY; those are proved (section 5).

The whole environment of `SessionLifecycle` at once is beyond TLC. Its slices
follow the hazards. `Presenting`: one runtime with viewers, turns, messages, idle
evictions and a fault. `Ending`, `ForgettingOrEnding`, `OneOfEach`,
`ForgettingRacesHook`: which operator calls and harness hooks meet which launch
(a manual `session_end` may leave its process running, as documented, so
`RowOwnsProcess` is claimed in the other run). `Killing`: a kill against
evictions, exits and relaunches. `Restarting`, `RestartingBusy`, `Failing`,
`Watching`, `WatchingRestart`: what a crash or a failing request can cut. Two
generations are needed for a stale call to meet a newer runtime, and a third would
repeat the second. `MaxEpoch = 2` gives an attachment, a departure and a
reattachment's fence; `life` in a slice lets a reservation be cancelled and
repeated; one fault and one crash at any place meet every failure branch.

In `ChannelStanding` two task slots and the coordinator are the workers a hazard
involves (who waits for the lane, who holds it, who acts in between), `MaxRevoked`
bounds the loop in which a revoked session that still runs is repaired and removed
again. In `SubscriptionSync` two channels make a cover that grows, shrinks or is
replaced. In `PresencePublisher` one channel suffices for a lease with and one
without channels; `Ttl = 2` and `Attempts = 2` are the code's three periods and
three attempts with one less of the same.

Fairness is assumed of what the daemon schedules by itself.

- `InboxDelivery`: armed timers fire (`tokio::time::sleep`), and a wait or an
  acknowledgement the daemon is serving goes on. The agent, its harness, the
  hooks, the extension and new doorbells owe nothing. The run has no crash: after
  one, a submitted row waits until another write's timer sweeps it.
- `ClaimRetryDriver`: the demux task, its respawn after a reload, the handlers
  (every side effect ends) and time.
- `SessionLifecycle`: loop, startup task, engines, launches and served calls go on
  (tokio tasks that never wait for a lock across an await), and so does a
  supervisor's exit call, which gives up by a timeout. Users, harnesses, messages,
  notifications and deadlines owe nothing, and nothing restarts a daemon that is
  down: the properties excuse that state and speak again when it is up.
- `ChannelStanding`: every task runs on, the relay answers or the request times
  out, the coordinator ticks, the view catches up with the roster. Requests,
  launches and stops owe nothing.
- `SubscriptionSync`: the sync, the relay's frames, the reload's own steps.
- `PresencePublisher`: calls, renewals, the engines' ends, the worker and the
  lane, the relay's answers, the view, scheduled admissions; and time, strongly
  (`SF_vars(Elapse)`), since the guard of `Elapse` is a modelling convention: a
  publication takes less than a period.

## 5. Proofs

Liveness under fairness and `ENABLED` are beyond the proof system. The theorems
below are about every value of the constants, every budget included, except where
a hypothesis on the environment is named.

`EventClaimsProofs`, for every set of events, kinds, targets, handlers and every
value of the bounds that `ConstantsAssumption` and `RetryDelayAssumption` allow:

- `TypeCorrectness`, `OpenClaimsHaveAttempts`: types, and that attempts stay below
  the cap while a row is open;
- `GenerationsNameOneRun`: two live handlers never hold one claim at one
  generation;
- `EffectsStartOnce`: at most one side effect starts per generation, so at most
  `MaxAttempts` per claim between two prunings;
- `EffectsExclude`: if no side effect outlives the lease, two handlers never work
  on one target at once;
- `CompletionIsFinal` and `LiveLeasesAreRespected`: the two action properties.

The argument. None of the invariants is inductive alone. A row only moves forward
(`RowsAdvance`: a step leaves its attempts as they are or raises them, never
returns from pending to processing at the same generation without a claim, and
only pruning makes it disappear). Hence a held generation is never ahead of its
row and is behind it once the row is pending (`FenceInv`), and a claim gives a
generation that no live handler has: a new row has none, a pending row has already
charged the old one, a takeover charges it in the same call. That is
`GenerationUnique`. With it, no side effect has started at a generation whose
handler is still queued (`StartedInv`), so starting one starts the first. For
exclusion, a handler renews before each target, so when it begins the lease is
full; while it works, age grows as the lease shrinks, so with work bounded by the
lease the row stays its own until it is terminal (`LeaseInv`), and two workers
would own one generation. `IInv` is the conjunction; `InvStep` proves it
inductive with one lemma per kind of step.

The same module proves the refinement, `LedgerIsImplemented`, under the same
assumptions: the initial states map to the ledger's, and under `IInv` each action
maps to one of the ledger's or a stutter (`BeginWork` and the claims of the kinds
without admission to `Begin`, a completion to `Done`, charges, takeovers and the
foreign-key sweep to `GiveUp` of the rows that end, `Prune` to `Forget`). It needs
one more invariant, that a handler that may complete a row has begun it.
`CompletionFollowsWork` then carries the ledger's "done only after begun" back to
the table.

`ClaimRetryDriverProofs` carries this to the composition: each step of the demux
task, its timer, its passes, a reload and a restart is a step of `EventClaims` or
leaves its variables alone (`DriverSteps`), so `IInv` holds under the driver
(`DriverInvariance`), and with it `DriverStartsOnce` and `DriverRespectsLeases`.
The exception is `RecordLost`, an outcome that could not be written: the table has
that step only with `StoreFaults`, the driver draws it from its budget, so it has
a proof of its own (`LostKeeps`; it only lets a claim go).

`TimerDoesNotSpin` is about the task itself: between two seconds it makes at most
one pass that served nothing, unless a change of the view gave parked events back.
`idle` counts such passes; `SpinInv` is inductive. Within a pass (`SweepInv`):
either a claim was served or a call failed, or nothing is due, or the claim that
was due first is due still; without time passing, only a dispatch or a handler
moves a row, and none of their writes makes a row due (`FinishedIsNotDue`). So at
the pass's end a due claim means that it failed or stalled, and both arm the
backoff. After it (`CalmInv`): a backoff runs, or nothing is due and nothing
parked is about to be, hence the timer is not zero. This needs that backoffs are
not zero, for retries as for stalls; `BackoffAssumption` says so of the values the
configurations give, because exponentiation is outside the provers' arithmetic.

`InboxDeliveryProofs`, for every set of messages, injectors and leases:

- without further assumption: `TypeCorrect`, `ReactedOnce`, `NothingLost`,
  `SeenFirst`, `ReactedToSeen`;
- when every prompt can be rendered (`~RenderFails`): `OneCarrier`,
  `ConfirmedIsFinal`, `TokensEndTheirLease`.

The argument has two invariants. `Traced` holds always. A row that is delivered,
leased or confirmed was so set by an injector, the hook or a lease, and each of
them goes only in a step that moves what it finds in that state, or has shown it
to the agent, or gives it up; so whoever else has moved the row meanwhile, its
present state names somebody who answers for it (`Located`). On a PTY what is
confirmed, or staged for a reaction, was shown, is the hook's, or was given up
(`SeenOnPty`). A handoff is published in the store call that takes it
(`Reactions`). An unrenderable prompt thus makes rows come twice, but neither loses
one nor confirms one unseen.

`Owned` needs the assumption. Every operation that takes rows takes pending ones,
so what an injector, the hook or a lease holds is held by it alone as long as
nobody gives it back for it; the operations that give rows back name their own,
but for the rollback of a whole plan after a prompt that could not be rendered. A
lease whose release failed leaves its rows leased until the next restart, so
`LeaseEndsByItsToken` allows that step too.

`SessionLifecycleProofs`, for every number of generations and every budget:

- `TypeCorrectness`;
- `StopsAreFinal`: a stopped row only leaves that state for a newer generation;
- `RevocationsAreFinal`: a revoked row stays revoked and is never reserved again;
- `EdgesOnlyAdvance`: within a generation the presentation a row shows is replaced
  only at a later attachment epoch, or to and from "unavailable".

The argument. About a dozen tasks write the row, each from a snapshot that may be
old, so nothing useful can be said of what a writer believes. What holds is a
property of the store calls: each of them, whatever generation, epoch or snapshot
its caller passes, takes a row to one that `RowStep` allows (one lemma for each
call in `SessionRow`). Every action leaves the row alone or applies one or two
store calls to it, which is a lemma for each action. The three action properties
are then read off `RowStep`. The inductive invariant `IInv` adds two facts to the
types: a row that was never reserved is stopped (`Opened`; without it the first
reservation would be no newer generation), and a call that is being served has found a
generation to work on (`CallInv`; without it a call could name a PTY that does not
exist).

`SessionProcessProofs` relates the row to the supervisors, in every environment
without `session_end`, `forget` and session-start hooks (`Undisturbed`), for every
number of generations, evictions, launches, kills, crashes and faults. The
exclusion is not one of convenience: `session_end` leaves its process running by
design, a `forget` whose termination fails does the same, and a hook that arrives
late binds the PTY of one generation to the next.

- `RowsOwnProcesses` and `KillsAreFinal`. Every task writes the row from a snapshot
  that may be old, but each of those that stop a generation has first seen its child
  end: the exit reported, the supervisor found dead, the termination awaited, the
  engine cancelled by one of these. A child does not come back for its generation,
  and a launch only begins one for the row's own. So at each place in each task
  where a stop may follow, the child is `Settled`; that is `OwnInv`, which has one
  part per actor (rows, locators, exit calls, engines, tasks, operator calls).
- `EdgesAreSeen`. Clients come and go in turn, so an attachment epoch says whether
  there is one, and an epoch that has been stays so. `EdgeInv` says that of
  everything that carries a presentation: notifications, probes and their answers,
  the row, the snapshots of the loop.
- `EvictionsAreOfIdle`, where the daemon cannot both restart and have a request
  fail. A noted turn keeps its row working until it ends, and a stopping row is
  idle and headless (`TurnInv`). The kill comes later, from a snapshot: it is
  harmless because the eviction is reserved as the task knows it, or a client has
  been since, whose epoch the supervisor compares (`Fresh`). An eviction is
  therefore only given up by the task that carries it out, or where the child is
  known to have ended (`KillInv`, `BoundInv`). After a restart the startup task and
  the loop may carry out the same eviction, and a request of one that fails gives
  it up under the other, hence the hypothesis (section 6).

`ChannelStandingProofs`, for every set of tasks and every budget: `TypeCorrect`
(with the lane: a worker is between a relay mutation and its record exactly if it
holds `standing_sync`), `MembersRecorded`, `ForgottenRouteless` and
`CleanupsWaitForLeaves`. The roster and
the member row change under the lane only, so between a grant and its commit
nobody else's mutation falls. What could break the record is an absence that is
written for a session still on the roster; `MarkInv` says that whoever is about
to write one has removed it, or finds no member row. Finalization follows the
revocation and takes the route, and every write that grants a route checks the
revocation (`FinalInv`). The coordinator may remove a membership while a leave
waits, when an admission of its own lost its runtime; but such an admission runs
under a route, routes only go under the lane, and so the membership it takes back
is not the one the leave is about (`CoordinatorInv`).

`SubscriptionSyncProofs`, for every set of channels and every budget:
`DemandsAreServed` and `BeliefsAreOpen`. Three demands leave one of four ids free,
so a REQ goes out under an id that no demand and no frame has (`Ids`); hence the
frames of an id are of one subscription, and a CLOSE is only sent for an id whose
demand was replaced, removed or never installed (`Wire`). A product's belief may
only differ from its demand while that product is being synced (`Trust`):
`Between` says what holds in the meantime, product by product, and that is what
the confirmation makes the new belief; every way out of a sync before that, and a
reload, either leaves belief and demand as they were, takes the belief back or
names the product in `astray`.

`PresencePublisherProofs`, for every set of channels and tasks, every number of
generations and attempts, every budget, and every lapse of more than one renewal
period: `NothingDropped`. The argument. Unless it is lost, the last outcome of the
policy is in one place: with the call that will submit it, pending, in publication,
parked, or landed (`CarryInv`). Wherever it is, it says what the lease shows, and
no job that could still come after it has a revision as high: so a submission that
overwrites it, an awaited publication that discards it and a requeue that would
put an older job in its place either do not happen or set `lost`. A call of the
policy gives the new outcome the highest revision, or is silent because nothing it
shows has changed (`Sound`, one lemma for each call of `StatusPolicy`). That a
landed status does not lapse is about the engines: a lease that shows the session
is nursed (`NurseInv`), i.e. its generation is hosted and renews it, or its engine
is cancelled, or a call is about to close it; so no period passes without a renewal
(`EngineInv`). A lease set from a reading that was no longer true when it was
applied may be nursed by nobody, hence `~misread`. The proof corrected the model
twice: a session that stops before its daemon dies, or meanwhile, can still be shown
with no outcome left to withdraw it, which is `lost` now and a slice of the run; and a
status that lapses after a single period (`Ttl = 1`) would lapse between renewals.

Only model-checked: the liveness properties; and of `SessionLifecycle`,
`EvictedWasIdle`, `EdgesWereSeen` and `KilledIsDead` in the slices with
`session_end`, `forget` or hooks.

## 6. Findings

Three runs state what the repository says and TLC finds it violated;
`PROJECT.json` quotes the sentences.

1. `session_exit_unnoticed`: an exit that is reported while its row is stopping is
   used up without effect; when the eviction is then cancelled the row runs with no
   process, no engine and no locator, and nothing in the code ends it.
2. `standing_rejoin`: a join that follows a leave, before the decoded view caught
   up with the removal, takes the session for a member: it is recorded as one
   without a grant, and no repair looks at it again.
3. `presence_eviction`: an idle eviction that a viewer cancels moves the session's
   lifecycle epoch on, its member rows keep the former one, and from the next turn
   on the running session is shown offline.

The models also show, without a run of their own:

Event claims and reload

- between the moment a reload installs the empty view and the moment it respawns
  the demux task, the former task may charge events as absent, its grace being
  over (`config_reload.rs:119` and `:121`, against
  `docs/daemon-design.md:178-179`; `Reload`, `DriveAbsent`, `Respawn`);
- the claim that a late attachment's dispatch leaves pending arms no timer by
  itself: the next notification, pass or view change does (`LateDispatch`).

Inbox

- an unrenderable prompt gives back every row its injector planned, in whatever
  state they are (`prompt.rs:37`, against the comment at
  `state/inbox/delivery.rs:83`). With two injectors those may be another's:
  `r2` plans `{m1}`, `m2` is parked, `r1` plans both, `r2` claims `m1` and `r1`
  claims `m2`; now the rollback of `r1` takes `m1` from `r2` and a hook may claim
  it a second time (`ClaimExclusive` fails). If `r2`'s delivery fails first and a
  wait leases `m1`, the rollback takes a leased row whose lease goes on
  (`LeaseEndsByItsToken` fails), and once a second wait has leased it anew, the
  expiry of the first lease rolls back the second, which
  `state/inbox/extension_delivery.rs:133` excludes. If `m1` was confirmed first, it
  is delivered once more (`InjectedIsFinal` fails). These three are therefore
  claimed with `RenderFails = FALSE` only, in the run as in the proofs; what holds
  regardless is in section 5. `Reenqueued`, `RenderNothing`;
- a daemon that dies in mid-delivery leaves a `delivered` row that nothing offers
  again (`Crash` after `ClaimPlanned`; `NothingForgotten` counts it as given up);
- the text of a message may reach the agent twice, by a hook and from the prompt
  box, when the Enter key after a paste fails (`Paste`, `DeliverFails`, `HookClaim`);
- over RPC a row is `injected` before the harness accepted it, and stays so when it
  refuses (`FinalizeInjected`, `EndSteer`), so `InjectedWasSeen` speaks of a PTY.

Sessions

- a kill that meets a stopping row is acknowledged, and the eviction, cancelled
  because the child is gone, makes the row running (`KillStart` at a stopping
  snapshot, `KillSettle`, `EvictionUncontrolled`);
- a forget that is repeated may find the row stopped by the engine it cancelled
  itself and take the runtime for dead (`ForgetStart`, a failed `Terminate`,
  `EngineTeardown`, `ForgetStart`);
- a turn that begins while the daemon is down, or while its row is stopping
  (`state/session_lifecycle.rs:63-80` wants a running row, and the hook then fails
  with "turn_start lost runtime generation"), is not recorded. A viewer that cancels
  the eviction makes the row running and idle with a fresh deadline, at which the
  working runtime is evicted (`TurnStarts` at a stopping row, `Attach`,
  `EvictionChanged`, `DeadlineElapses`, `ReserveEviction`), against
  `docs/session-state.md:48-51`. So `EvictedWasIdle` speaks of turns the row was
  told of;
- after a restart the startup task and the loop may both be about to kill for one
  eviction; if the request of one fails it makes the row running again, a turn is
  noted, and the other one kills (`EvictionUncontrolled`, `TurnStarts`,
  `KillIfHeadless`). So `EvictionsAreOfIdle` excludes a restart and a failed
  request in one behaviour;
- a relaunch that overtakes the former engine's teardown is taken for a reassertion
  and gets no engine (`AlreadyRunning` in `LaunchBind`).

Routes and standing

- the repair scan asks for no recovery authority: a revoked session that still runs
  is granted its channel and removed again for as long as it runs (`ScanRoutes`,
  `Commit`, `Compensate`; `MaxRevoked` bounds it);
- the last phase of a leave deletes the route that a newer launch of the session
  has just been given, where the launch came after the check (`TakeToRemove`,
  `Launch`, `Left`).

Subscriptions (`astray` names them)

- group records are recorded as covered before they are opened
  (`daemon/server/group_records.rs:78`, against the comment at `:23-24`), so after
  a refusal no sync opens them until the coverage changes;
- a sync in flight across a reload confirms on the new runtime what it opened on
  the old one (`config_reload.rs:115-119`, against `docs/daemon-design.md:219-224`);
- a broad demand whose close is refused is gone, while the belief stays
  (`nostr_runtime/demands.rs:112`);
- a channel wait that reaches its deadline drops its sync wherever that stands
  (`channel_wait.rs:59`).

Presence

- a leave that finds the projection already narrowed by a concurrent
  reconciliation gets nothing to publish and does not wait for that publication
  before it removes the member (`daemon/server/presence.rs:115-123`);
- an awaited publication queues behind the worker's, and an effect may be
  submitted after a newer one (`presence_publisher.rs:97-98`; `lost`);
- a reading that is old when it reaches the policy becomes the newest revision, and
  renewals repeat it without reading again (`misread`);
- opening a lease without channels replaces one that was not closed without
  withdrawing it: the former status lapses only (`reconcile/status/mod.rs:137`);
- the status of a session that stopped before its daemon died, or is found gone
  when the daemon comes back, is withdrawn by nobody, since the new policy has no
  lease to close: it lapses only (`daemon/server/managed_lifecycle.rs:186`; `lost`);
- a resume whose background admission fails is not retried and not shown.

A manual `session_end` leaves its process running; the documentation says so, and
it is not a finding.

## 7. What is left

Modelled in part, with the reason:

- Event claims: what a side effect does is one opaque step; it belongs to the
  launches of `SessionLifecycle` and the admissions of `ChannelStanding`, and the
  product of the three state spaces is out of TLC's reach.
- Sessions hosted by an RPC harness: their row has the same calls as that of a
  PTY, without presentation and locator; `InboxDelivery` has their work state.
- Several channels of one session (moves included), several sessions of one host:
  rows of different channels and identities meet only in locks, which are modelled
  as the order in which workers take them.

Not modelled:

- Handle leases and signers: one store transaction allocates a handle; no step of
  another task falls between its reads and writes.
- Native turn attempts: an append-only ledger closed by id.
- Messages and channel wait: a cursor over rows that are only appended. Its
  deadline is in `SubscriptionSync`.
- One-shot reads, EOSE handling and signed publication of the Nostr runtime; the
  blocking pool; socket framing, terminal bytes and process groups: I/O around the
  steps that are modelled, and the Nostr SDK is external.
- Schema migrations: one-shot, tested by fixtures.
- Command line, pickers, rendering, debug views, catalogs, workspaces,
  installation, attachments, integrations, site: more than half of the
  repository's lines. They hold no state that outlives a call and have no order of
  events to get wrong, which is why the modelled share of the lines is small.

Hazards known and not covered by a property: a management claim is not driven by
the timer after a crash (`state/event_claims/retry.rs:23`); rows given back after a
failed write wait for the next doorbell (`session_host/delivery/prompt.rs:234`),
and so do the rows a scan leaves to an extension that then goes quiet
(`doorbell.rs:33`); a prompt confirms by a substring of its body
(`state/inbox/delivery.rs:266`); a pid may be reused (`liveness.rs:10`); a handler
that outlives the retention of its row (`state/retention.rs:35`).

Further proofs: the three session properties of `SessionProcessProofs` for
environments with `session_end`, `forget` and hooks, as far as they hold there.
