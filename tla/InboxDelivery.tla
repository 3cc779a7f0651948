--------------------------- MODULE InboxDelivery ---------------------------
(***************************************************************************)
(* The durable inbox of one recipient identity (table inbox) and everything *)
(* that hands its rows to the agent: doorbell injectors that write to a PTY *)
(* or to an RPC harness, the harness's hooks, and the Pi extension's wait   *)
(* and acknowledge calls.  Rows of different recipients never meet, so one  *)
(* recipient is modelled.                                                   *)
(*                                                                         *)
(* A store call is one step (the store lock); a handler is cut wherever the *)
(* code awaits or gives the lock back.  The agent, its harness and its      *)
(* prompt box are the environment.  Timers fire at any moment after they    *)
(* are armed.  The session is running throughout.                           *)
(***************************************************************************)
EXTENDS Naturals, FiniteSets

CONSTANTS
  Msg,          \* direct mentions of the recipient
  Run,          \* injector tasks that may be alive at once (they are spawned freely)
  Lease,        \* extension leases that may be alive at once
  Transports,   \* what may host the session: "pty", "rpc" or either
  RenderFails,  \* whether a channel's metadata may be missing when a prompt is rendered
  Faults,       \* whether a store call or a hook's context assembly may fail
  Crashes       \* whether the daemon may die and restart

ASSUME TransportAssumption == Transports \subseteq {"pty", "rpc"} /\ Transports # {}
ASSUME SwitchesAssumption ==
  RenderFails \in BOOLEAN /\ Faults \in BOOLEAN /\ Crashes \in BOOLEAN

VARIABLES
  transport, \* what hosts the session, for the whole behaviour
  row,      \* [Msg -> States]: the table
  run,      \* [Run -> [phase, plan, mine]]: injectors; mine is the prompt's chat_ids
  lease,    \* [Lease -> [phase, rows]]: wait calls and the leases they handed out
  live,     \* the extension renewed its delivery lease lately (live_until)
  hook,     \* [phase, prompt, got]: the harness hook being served
  timer,    \* rows whose submission has a confirmation timer armed
  box,      \* rows whose text was written to the PTY and not taken as a prompt yet
  working,  \* work_state = 'working'
  handoff,  \* [Msg -> {"none", "staged", "taken"}]: work-start claims
  shown,    \* rows the agent has been shown (history)
  reacted,  \* [Msg -> 0..2]: work-start reactions published (history)
  dropped   \* rows whose delivery was given up unseen, by a known way (history)

vars == <<row, run, lease, live, hook, timer, box, working, handoff, shown, reacted, dropped>>
history == <<shown, reacted, dropped>>

----------------------------------------------------------------------------
(* Rows *)

States == {"none", "pending", "delivered", "leased", "submitted", "injected", "echo_consumed"}
RunPhases == {"idle", "planned", "claimed", "pasted", "written", "starting", "turn", "untracked", "steered", "steering"}
LeasePhases == {"free", "rendering", "offered", "accepted", "acked", "declined"}
HookPhases == {"idle", "prompt", "claim", "context"}

In(state) == {m \in Msg : row[m] = state}

\* One UPDATE of the rows of S that are in one of the states `from`.
Moved(S, from, state) == [m \in Msg |-> IF m \in S /\ row[m] \in from THEN state ELSE row[m]]

\* Mutant: the rollback writes a state no reader of the table knows.
ReenqueuedAsRetry(S) == [m \in Msg |-> IF m \in S THEN "retry" ELSE row[m]]

\* reenqueue_pending: the named rows, whatever state they are in.
Reenqueued(S) == Moved(S, States \ {"none"}, "pending")

\* stage_from_inbox_tx: INSERT OR IGNORE.
Staged(S) == [m \in Msg |-> IF m \in S /\ handoff[m] = "none" THEN "staged" ELSE handoff[m]]

\* Mutant: the claims are published and not completed.
PublishKept(stage, S) ==
  LET taken == {m \in S : stage[m] = "staged"}
  IN  /\ handoff' = stage
      /\ reacted' = [m \in Msg |-> IF m \in taken /\ reacted[m] < 2 THEN reacted[m] + 1
                                   ELSE reacted[m]]

\* take_work_start_claims_for_events, and one reaction per claim taken, where
\* `stage` is the handoff table the call finds.
Publish(stage, S) ==
  LET taken == {m \in S : stage[m] = "staged"}
  IN  /\ handoff' = [m \in Msg |-> IF m \in taken THEN "taken" ELSE stage[m]]
      /\ reacted' = [m \in Msg |-> IF m \in taken /\ reacted[m] < 2 THEN reacted[m] + 1
                                   ELSE reacted[m]]

IdleRun == [phase |-> "idle", plan |-> {}, mine |-> {}]
FreeLease == [phase |-> "free", rows |-> {}]
IdleHook == [phase |-> "idle", prompt |-> {}, got |-> {}]

\* The spawn prompt of an RPC session may still be on its way: a turn of no rows.
Spawning == [IdleRun EXCEPT !.phase = "starting"]

Init ==
  /\ transport \in Transports
  /\ row = [m \in Msg |-> "none"]
  /\ run \in {[r \in Run |-> IdleRun]} \union
            (IF transport = "pty" THEN {}
             ELSE {[r \in Run |-> IF r = s THEN Spawning ELSE IdleRun] : s \in Run})
  /\ lease = [l \in Lease |-> FreeLease]
  /\ live = FALSE
  /\ hook = IdleHook
  /\ timer = {}
  /\ box = {}
  /\ working = FALSE
  /\ handoff = [m \in Msg |-> "none"]
  /\ shown = {}
  /\ reacted = [m \in Msg |-> 0]
  /\ dropped = {}

\* park_direct_mention, enqueue_inbox: INSERT OR IGNORE.
Park(m) ==
  /\ row[m] = "none"
  /\ row' = [row EXCEPT ![m] = "pending"]
  /\ UNCHANGED <<run, lease, live, hook, timer, box, working, handoff, history>>

----------------------------------------------------------------------------
(* Injectors: ring_doorbells and pty_send *)

Advance(r, phase) == run' = [run EXCEPT ![r].phase = phase]
EndRun(r) == run' = [run EXCEPT ![r] = IdleRun]

\* The scan peeks at the pending rows and plans all of them.  A doorbell leaves
\* the session to a live extension; pty_send does not ask.
Plan(r) ==
  /\ run[r].phase = "idle"
  /\ ~live \/ transport = "pty"
  /\ In("pending") # {}
  /\ run' = [run EXCEPT ![r] = [phase |-> "planned", plan |-> In("pending"), mine |-> {}]]
  /\ UNCHANGED <<row, lease, live, hook, timer, box, working, handoff, history>>

\* Mutant: the claim returns every planned row, not only those it changed.
ClaimWholePlan(r) ==
  /\ run[r].phase = "planned"
  /\ row' = [m \in Msg |-> IF m \in run[r].plan THEN "delivered" ELSE row[m]]
  /\ run' = [run EXCEPT ![r].phase = "claimed", ![r].mine = run[r].plan]
  /\ UNCHANGED <<lease, live, hook, timer, box, working, handoff, history>>

\* Mutant: the injector's claim stages the work-start, as the hook's claim does.
ClaimAndStage(r) ==
  LET mine == run[r].plan \intersect In("pending")
  IN  /\ run[r].phase = "planned"
      /\ row' = Moved(mine, {"pending"}, "delivered")
      /\ handoff' = Staged(mine)
      /\ IF mine = {} THEN EndRun(r)
         ELSE run' = [run EXCEPT ![r].phase = "claimed", ![r].mine = mine]
      /\ UNCHANGED <<lease, live, hook, timer, box, working, history>>

\* claim_pending_event_ids_for_pubkey: the planned rows that are still pending.
ClaimPlanned(r) ==
  LET mine == run[r].plan \intersect In("pending")
  IN  /\ run[r].phase = "planned"
      /\ row' = Moved(mine, {"pending"}, "delivered")
      /\ IF mine = {} THEN EndRun(r)
         ELSE run' = [run EXCEPT ![r].phase = "claimed", ![r].mine = mine]
      /\ UNCHANGED <<lease, live, hook, timer, box, working, handoff, history>>

\* The endpoint is dead or the claim fails: the plan is abandoned.
AbandonPlan(r) ==
  /\ run[r].phase = "planned"
  /\ EndRun(r)
  /\ UNCHANGED <<row, lease, live, hook, timer, box, working, handoff, history>>

\* Mutant: a failed delivery leaves its rows claimed.
NoRollBack(r, S) == UNCHANGED <<row, dropped>>

\* Roll S back to pending; a failed rollback leaks the claimed rows.
RollBack(r, S) ==
  \/ row' = Reenqueued(S) /\ UNCHANGED dropped
  \/ Faults /\ UNCHANGED row /\ dropped' = dropped \union run[r].mine

\* render_terminal_mention gives no prompt: every PLANNED row is rolled back.
RenderNothing(r) ==
  /\ RenderFails
  /\ run[r].phase = "claimed"
  /\ RollBack(r, run[r].plan)
  /\ EndRun(r)
  /\ timer' = timer \ run[r].plan
  /\ UNCHANGED <<lease, live, hook, box, working, handoff, shown, reacted>>

\* PTY deliver, first half: paste the text.
Paste(r) ==
  /\ transport = "pty"
  /\ run[r].phase = "claimed"
  /\ Advance(r, "pasted")
  /\ box' = box \union run[r].mine
  /\ UNCHANGED <<row, lease, live, hook, timer, working, handoff, history>>

\* An RPC harness is running a turn that one of the injectors opened.
NativeTurn == \E r \in Run : run[r].phase \in {"written", "starting", "turn", "untracked"}

\* deliver succeeds: the PTY after its Enter key, an RPC harness by opening a
\* turn ("written") or by steering the running one ("steered").
Deliver(r) ==
  /\ \/ transport = "pty" /\ run[r].phase = "pasted" /\ Advance(r, "written")
     \/ transport = "rpc" /\ run[r].phase = "claimed"
        /\ Advance(r, IF NativeTurn THEN "steered" ELSE "written")
  /\ UNCHANGED <<row, lease, live, hook, timer, box, working, handoff, history>>

\* deliver fails: reenqueue_after_failure rolls the claimed rows back.
DeliverFails(r) ==
  /\ run[r].phase \in {"claimed", "pasted"}
  /\ RollBack(r, run[r].mine)
  /\ EndRun(r)
  /\ UNCHANGED <<lease, live, hook, timer, box, working, handoff, shown, reacted>>

\* Mutant: nothing times the submission out.
FinalizeUntimed(r) ==
  /\ transport = "pty"
  /\ run[r].phase = "written"
  /\ row' = Moved(run[r].mine, {"delivered", "pending"}, "submitted")
  /\ EndRun(r)
  /\ UNCHANGED <<lease, live, hook, timer, box, working, handoff, history>>

\* finalize_injection of a PTY write, then schedule_submitted_reenqueue.
FinalizeSubmitted(r) ==
  /\ transport = "pty"
  /\ run[r].phase = "written"
  /\ row' = Moved(run[r].mine, {"delivered", "pending"}, "submitted")
  /\ timer' = timer \union {m \in run[r].mine : row'[m] = "submitted"}
  /\ EndRun(r)
  /\ UNCHANGED <<lease, live, hook, box, working, handoff, history>>

\* finalize_injection of an RPC delivery: mark_injected_for_echo.
FinalizeInjected(r) ==
  /\ transport = "rpc"
  /\ run[r].phase \in {"written", "steered"}
  /\ row' = Moved(run[r].mine, {"delivered", "submitted"}, "injected")
  /\ handoff' = Staged({m \in run[r].mine : row'[m] = "injected"})
  /\ Advance(r, IF run[r].phase = "written" THEN "starting" ELSE "steering")
  /\ UNCHANGED <<lease, live, hook, timer, box, working, history>>

\* The write succeeded and its bookkeeping failed: the rows stay claimed, and
\* nobody records the turn an RPC harness has begun.
FinalizeFails(r) ==
  /\ Faults
  /\ run[r].phase \in {"written", "steered"}
  /\ IF transport = "rpc" /\ run[r].phase = "written" THEN Advance(r, "untracked") ELSE EndRun(r)
  /\ dropped' = dropped \union run[r].mine
  /\ UNCHANGED <<row, lease, live, hook, timer, box, working, handoff, shown, reacted>>

\* managed_turn::track: the turn starts, then the prompt's handoffs are taken;
\* a prompt of no rows takes every handoff of the recipient.
StartTurn(r) ==
  /\ run[r].phase = "starting"
  /\ working' = TRUE
  /\ Publish(handoff, IF run[r].mine = {} THEN Msg ELSE run[r].mine)
  /\ Advance(r, "turn")
  /\ UNCHANGED <<row, lease, live, hook, timer, box, shown, dropped>>

\* The store call that opens the attempt or the turn fails: the harness runs on.
TrackFails(r) ==
  /\ Faults
  /\ run[r].phase = "starting"
  /\ Advance(r, "untracked")
  /\ UNCHANGED <<row, lease, live, hook, timer, box, working, handoff, history>>

\* What became of the prompt in the harness: the agent saw it, or never will.
Seen(S, seen) ==
  /\ shown' = IF seen THEN shown \union S ELSE shown
  /\ dropped' = IF seen THEN dropped ELSE dropped \union S

\* apply_session_turn_ended: only from working.
TurnEnds ==
  /\ working' = FALSE
  /\ row' = IF working THEN Moved(Msg, {"injected"}, "echo_consumed") ELSE row

\* finish_lifecycle: the native turn completed, failed or was rejected.  The
\* outcome is recorded; no row is rolled back.
EndTurn(r) ==
  /\ run[r].phase = "turn"
  /\ \E seen \in BOOLEAN : Seen(run[r].mine, seen)
  /\ TurnEnds
  /\ EndRun(r)
  /\ UNCHANGED <<lease, live, hook, timer, box, handoff, reacted>>

\* A turn nobody tracks ends, and nobody is told.
EndUntracked(r) ==
  /\ run[r].phase = "untracked"
  /\ \E seen \in BOOLEAN : Seen(run[r].mine, seen)
  /\ EndRun(r)
  /\ UNCHANGED <<row, lease, live, hook, timer, box, working, handoff, reacted>>

\* Mutant: a refused steer gives its rows back.
EndSteerRequeues(r) ==
  /\ run[r].phase = "steering"
  /\ row' = Reenqueued(run[r].mine)
  /\ EndRun(r)
  /\ UNCHANGED <<lease, live, hook, timer, box, working, handoff, history>>

\* track_steer: only an accepted steer reacts; a refused one is only logged.
EndSteer(r) ==
  /\ run[r].phase = "steering"
  /\ \E accepted \in BOOLEAN :
       /\ Seen(run[r].mine, accepted)
       /\ IF accepted THEN Publish(handoff, run[r].mine) ELSE UNCHANGED <<handoff, reacted>>
  /\ EndRun(r)
  /\ UNCHANGED <<row, lease, live, hook, timer, box, working>>

\* Mutant: the timer gives confirmed rows back as well.
StaleAnything(m) ==
  /\ m \in timer
  /\ row' = Moved({m} \union (Msg \ timer), {"submitted", "injected"}, "pending")
  /\ timer' = timer \ {m}
  /\ UNCHANGED <<run, lease, live, hook, box, working, handoff, history>>

\* schedule_submitted_reenqueue fires for m's write: it rolls back every
\* submission old enough, so also those whose own timer died with a daemon.
StaleSubmission(m) ==
  /\ m \in timer
  /\ row' = Moved({m} \union (Msg \ timer), {"submitted"}, "pending")
  /\ timer' = timer \ {m}
  /\ UNCHANGED <<run, lease, live, hook, box, working, handoff, history>>

----------------------------------------------------------------------------
(* Harness hooks.  A session's harness runs them one at a time. *)

\* Only the hooks of an unhosted or PTY session own its lifecycle.
HookOwnsLifecycle == transport = "pty"

\* rpc_turn_start: a prompt begins a turn.  The prompt is what the PTY box
\* holds, or something the user typed; the agent sees it either way.
PromptHook ==
  /\ hook.phase = "idle"
  /\ \E prompt \in {{}, box} :
       /\ hook' = [phase |-> IF HookOwnsLifecycle THEN "prompt" ELSE "claim",
                   prompt |-> prompt, got |-> {}]
       /\ box' = box \ prompt
       /\ shown' = shown \union prompt
  /\ working' = (HookOwnsLifecycle \/ working)
  /\ UNCHANGED <<row, run, lease, live, timer, handoff, reacted, dropped>>

\* Mutant: any prompt confirms every submission.
ConfirmAll ==
  /\ hook.phase = "prompt"
  /\ row' = Moved(Msg, {"submitted"}, "injected")
  /\ handoff' = Staged(In("submitted"))
  /\ timer' = timer \ In("submitted")
  /\ hook' = [hook EXCEPT !.phase = "claim"]
  /\ UNCHANGED <<run, lease, live, box, working, shown, reacted, dropped>>

\* confirm_submitted_from_prompt and reenqueue_submitted, under one lock.
ConfirmPrompt ==
  LET confirmed == hook.prompt \intersect In("submitted")
  IN  /\ hook.phase = "prompt"
      /\ row' = [m \in Msg |-> IF m \in confirmed THEN "injected"
                               ELSE IF row[m] = "submitted" THEN "pending" ELSE row[m]]
      /\ handoff' = Staged(confirmed)
      /\ timer' = timer \ In("submitted")
      /\ hook' = [hook EXCEPT !.phase = "claim"]
      /\ UNCHANGED <<run, lease, live, box, working, shown, reacted, dropped>>

\* The harness passes no prompt text, or the store call fails.
SkipConfirm ==
  /\ hook.phase = "prompt"
  /\ hook' = [hook EXCEPT !.phase = "claim"]
  /\ UNCHANGED <<row, run, lease, live, timer, box, working, handoff, history>>

\* rpc_turn_check: a mid-turn hook only claims.
CheckHook ==
  /\ hook.phase = "idle"
  /\ hook' = [IdleHook EXCEPT !.phase = "claim"]
  /\ UNCHANGED <<row, run, lease, live, timer, box, working, handoff, history>>

\* take_inbox: claim_pending_for_pubkey stages the work-start of every row.
HookClaim ==
  /\ hook.phase = "claim"
  /\ row' = Moved(Msg, {"pending"}, "delivered")
  /\ handoff' = Staged(In("pending"))
  /\ hook' = [hook EXCEPT !.phase = "context", !.got = In("pending")]
  /\ UNCHANGED <<run, lease, live, timer, box, working, shown, reacted, dropped>>

\* The context reaches the agent; publish_for_started_turn takes every handoff
\* of the recipient (not in turn_start of a managed session).
HookContext ==
  /\ hook.phase = "context"
  /\ shown' = shown \union hook.got
  /\ \/ Publish(handoff, Msg)
     \/ ~HookOwnsLifecycle /\ UNCHANGED <<handoff, reacted>>
  /\ hook' = IdleHook
  /\ UNCHANGED <<row, run, lease, live, timer, box, working, dropped>>

\* capture_inputs fails: the hook returns an error and its claims are gone.
HookFails ==
  /\ Faults
  /\ hook.phase = "context"
  /\ dropped' = dropped \union hook.got
  /\ hook' = IdleHook
  /\ UNCHANGED <<row, run, lease, live, timer, box, working, handoff, shown, reacted>>

\* The terminal or the harness loses what was typed into the box.
LoseInput ==
  /\ box # {}
  /\ box' = {}
  /\ UNCHANGED <<row, run, lease, live, hook, timer, working, handoff, history>>

\* rpc_turn_end.
TurnEndHook ==
  /\ HookOwnsLifecycle
  /\ hook.phase = "idle"
  /\ TurnEnds
  /\ UNCHANGED <<run, lease, live, hook, timer, box, handoff, history>>

----------------------------------------------------------------------------
(* The Pi extension: wait, acknowledge, expiry *)

\* Mutant: leasing stages the work-start.
WaitStages(l) ==
  /\ transport = "pty"
  /\ lease[l].phase = "free"
  /\ live' = TRUE
  /\ In("pending") # {}
  /\ row' = Moved(Msg, {"pending"}, "leased")
  /\ handoff' = Staged(In("pending"))
  /\ lease' = [lease EXCEPT ![l] = [phase |-> "rendering", rows |-> In("pending")]]
  /\ UNCHANGED <<run, hook, timer, box, working, history>>

\* rpc_wait: renew the delivery lease and lease the pending rows.
WaitLeases(l) ==
  /\ transport = "pty"
  /\ lease[l].phase = "free"
  /\ live' = TRUE
  /\ In("pending") # {}
  /\ row' = Moved(Msg, {"pending"}, "leased")
  /\ lease' = [lease EXCEPT ![l] = [phase |-> "rendering", rows |-> In("pending")]]
  /\ UNCHANGED <<run, hook, timer, box, working, handoff, history>>

\* LIVE_GRACE_SECS pass without a wait.
GoQuiet ==
  /\ live
  /\ live' = FALSE
  /\ UNCHANGED <<row, run, lease, hook, timer, box, working, handoff, history>>

\* The rendered prompt and its lease id go to the extension; schedule_expiry.
Offer(l) ==
  /\ lease[l].phase = "rendering"
  /\ lease' = [lease EXCEPT ![l].phase = "offered"]
  /\ UNCHANGED <<row, run, live, hook, timer, box, working, handoff, history>>

\* Mutant: the end of one lease requeues every leased row.
ReleaseEveryLease(l) ==
  /\ row' = Moved(Msg, {"leased"}, "pending")
  /\ lease' = [lease EXCEPT ![l] = FreeLease]

\* reenqueue_extension_lease_ids: the named rows, if they are still leased.
ReleaseLease(l) ==
  /\ row' = Moved(lease[l].rows, {"leased"}, "pending")
  /\ lease' = [lease EXCEPT ![l] = FreeLease]

\* The prompt cannot be rendered.
WaitRendersNothing(l) ==
  /\ RenderFails
  /\ lease[l].phase = "rendering"
  /\ ReleaseLease(l)
  /\ UNCHANGED <<run, live, hook, timer, box, working, handoff, history>>

\* Pi takes the custom message; its acknowledgement is on its way.
Accept(l) ==
  /\ lease[l].phase = "offered"
  /\ lease' = [lease EXCEPT ![l].phase = "accepted"]
  /\ shown' = shown \union lease[l].rows
  /\ UNCHANGED <<row, run, live, hook, timer, box, working, handoff, reacted, dropped>>

\* rpc_ack takes the lease out of the registry: from here on it cannot expire.
TakeLease(l) ==
  /\ \/ lease[l].phase = "accepted" /\ lease' = [lease EXCEPT ![l].phase = "acked"]
     \/ lease[l].phase = "offered" /\ lease' = [lease EXCEPT ![l].phase = "declined"]
  /\ UNCHANGED <<row, run, live, hook, timer, box, working, handoff, history>>

\* acknowledge_extension_lease: the named rows, if they are still leased;
\* acceptance is an error when one is not.
Acknowledge(l) ==
  LET mine == {m \in lease[l].rows : row[m] = "leased"}
  IN  /\ lease[l].phase = "acked"
      /\ row' = Moved(mine, {"leased"}, "injected")
      /\ IF mine = lease[l].rows
         THEN Publish(Staged(mine), mine)
         ELSE handoff' = Staged(mine) /\ UNCHANGED reacted
      /\ lease' = [lease EXCEPT ![l] = FreeLease]
      /\ UNCHANGED <<run, live, hook, timer, box, working, shown, dropped>>

Decline(l) ==
  /\ lease[l].phase = "declined"
  /\ ReleaseLease(l)
  /\ UNCHANGED <<run, live, hook, timer, box, working, handoff, history>>

\* LEASE_SECS pass and the lease is still in the registry.
Expire(l) ==
  /\ lease[l].phase \in {"offered", "accepted"}
  /\ ReleaseLease(l)
  /\ UNCHANGED <<run, live, hook, timer, box, working, handoff, history>>

\* A store call on the lease's rows fails after the registry gave the lease up:
\* they stay leased until a restart.
LeaseFails(l) ==
  /\ Faults
  /\ lease[l].phase \in {"rendering", "offered", "accepted", "acked", "declined"}
  /\ lease[l].phase = "rendering" => RenderFails
  /\ lease' = [lease EXCEPT ![l] = FreeLease]
  /\ dropped' = dropped \union lease[l].rows
  /\ UNCHANGED <<row, run, live, hook, timer, box, working, handoff, shown, reacted>>

----------------------------------------------------------------------------
(* Crash *)

\* Rows whose delivery the daemon's memory alone knows about.
InFlight ==
  (UNION {run[r].mine : r \in Run}) \union hook.got

\* The daemon dies and restarts: store and PTY box stay, tasks, timers and the
\* lease registry are gone; startup requeues every leased row before it accepts.
\* An RPC harness dies with its daemon; its next generation starts idle.
Crash ==
  /\ Crashes
  /\ row' = Moved(Msg, {"leased"}, "pending")
  /\ run' = [r \in Run |-> IdleRun]
  /\ lease' = [l \in Lease |-> FreeLease]
  /\ live' = FALSE
  /\ hook' = IdleHook
  /\ timer' = {}
  /\ dropped' = dropped \union InFlight
  /\ working' = (transport = "pty" /\ working)
  /\ UNCHANGED <<box, handoff, shown, reacted>>

Injector(r) ==
  \/ Plan(r) \/ ClaimPlanned(r) \/ AbandonPlan(r) \/ RenderNothing(r)
  \/ Paste(r) \/ Deliver(r) \/ DeliverFails(r)
  \/ FinalizeSubmitted(r) \/ FinalizeInjected(r) \/ FinalizeFails(r)
  \/ StartTurn(r) \/ TrackFails(r) \/ EndTurn(r) \/ EndUntracked(r) \/ EndSteer(r)

Hook ==
  \/ PromptHook \/ ConfirmPrompt \/ SkipConfirm \/ CheckHook
  \/ HookClaim \/ HookContext \/ HookFails \/ TurnEndHook

Extension(l) ==
  \/ WaitLeases(l) \/ Offer(l) \/ WaitRendersNothing(l) \/ Accept(l)
  \/ TakeLease(l) \/ Acknowledge(l) \/ Decline(l) \/ Expire(l)
  \/ LeaseFails(l)

Next ==
  /\ UNCHANGED transport
  /\ \/ \E m \in Msg : Park(m) \/ StaleSubmission(m)
     \/ \E r \in Run : Injector(r)
     \/ Hook
     \/ \E l \in Lease : Extension(l)
     \/ GoQuiet \/ LoseInput
     \/ Crash

Spec == Init /\ [][Next]_<<vars, transport>>

\* Spawned tasks run to their end and timers fire: tokio polls what is ready.
\* Nothing is assumed of the agent, its hooks, the extension or new doorbells.
FairSpec ==
  /\ Spec
  /\ \A m \in Msg : WF_vars(StaleSubmission(m))
  /\ \A l \in Lease :
       /\ WF_vars(Offer(l) \/ WaitRendersNothing(l))
       /\ WF_vars(Expire(l))
       /\ WF_vars(Acknowledge(l) \/ Decline(l))

----------------------------------------------------------------------------
(* Properties *)

\* Every variable keeps its type.
TypeOK ==
  /\ transport \in Transports /\ row \in [Msg -> States]
  /\ run \in [Run -> [phase : RunPhases, plan : SUBSET Msg, mine : SUBSET Msg]]
  /\ lease \in [Lease -> [phase : LeasePhases, rows : SUBSET Msg]]
  /\ hook \in [phase : HookPhases, prompt : SUBSET Msg, got : SUBSET Msg]
  /\ live \in BOOLEAN /\ working \in BOOLEAN
  /\ timer \in SUBSET Msg /\ box \in SUBSET Msg
  /\ handoff \in [Msg -> {"none", "staged", "taken"}]
  /\ shown \in SUBSET Msg /\ dropped \in SUBSET Msg
  /\ reacted \in [Msg -> 0..2]

\* The injector r, or the hook, or the extension lease l works on the row m.
Injects(r, m) == run[r].phase # "planned" /\ m \in run[r].mine
Carried(m) ==
  (\E r \in Run : Injects(r, m)) \/ m \in hook.got \/ (\E l \in Lease : m \in lease[l].rows)

\* "The FIRST caller - the direct injection path or a hook - wins" (delivery.rs):
\* a row is carried by one of all the injectors, hooks and leases that race for
\* it, and its state says by which kind.  (An unrenderable prompt gives back the
\* rows of other carriers too, and so breaks this and InjectedIsFinal.)
ClaimExclusive ==
  /\ \A r \in Run : \A m \in run[r].mine :
       /\ row[m] = IF run[r].phase \in {"claimed", "pasted", "written", "steered"}
                   THEN "delivered" ELSE row[m]
       /\ m \notin hook.got
       /\ \A q \in Run \ {r} : m \notin run[q].mine
  /\ \A m \in hook.got : row[m] = "delivered"
  /\ \A l \in Lease : \A m \in lease[l].rows :
       row[m] = "leased" /\ \A k \in Lease \ {l} : m \notin lease[k].rows

\* A parked message the agent has not seen stays pending or submitted (both are
\* retried), or somebody carries it, or it was given up in one of the six ways
\* the code can: a failed rollback, failed bookkeeping after a write, a failed
\* store call on a lease, a failed hook, a refused RPC prompt, and a crash in
\* mid-delivery.
NothingForgotten ==
  \A m \in Msg :
    row[m] \notin {"none", "pending", "submitted"} => m \in shown \union dropped \/ Carried(m)

\* "PTY write success is not confirmation" (inbox.rs): a row is injected, or
\* echo_consumed, only when the agent was shown the message.  (An RPC row is injected
\* before the harness accepts it.)
InjectedWasSeen ==
  transport = "pty" => \A m \in Msg : row[m] \in {"injected", "echo_consumed"} => m \in shown \/ Carried(m)

\* The work-start reaction is published at most once for a message, however
\* often its delivery is retried, and (on a PTY) only for one the agent was shown or
\* whose delivery failed after it was staged.
ReactionOnce == \A m \in Msg : reacted[m] <= 1
ReactionOfSeen ==
  transport = "pty" => \A m \in Msg : reacted[m] > 0 => m \in shown \union dropped

\* A confirmed prompt is final: no timer, hook or lease gives it back.
InjectedIsFinal ==
  [][\A m \in Msg : row[m] \in {"injected", "echo_consumed"}
                     => row'[m] \in {"injected", "echo_consumed"}]_vars

\* "An expired token must never roll back a different, newer lease for the same
\* recipient" (extension_delivery.rs): a row stops being leased only in a step
\* that ends the lease that names it, and none that still names it lives on; or at
\* the restart, which gives back what a failed store call left leased.  Not so where
\* prompts cannot be rendered: the rollback of a whole plan takes a row that was
\* leased meanwhile, and the token of that lease may then roll back a newer one.
LeaseEndsByItsToken ==
  [][\A m \in Msg : row[m] = "leased" /\ row'[m] # "leased"
       => \/ /\ \E l \in Lease : m \in lease[l].rows
             /\ \A l \in Lease : m \in lease[l].rows => lease'[l] = FreeLease
          \/ Crash]_vars

\* While the daemon lives, no submission and no extension lease stays open.
ClaimsResolve ==
  \A m \in Msg : row[m] \in {"submitted", "leased"} ~> row[m] \notin {"submitted", "leased"}
=============================================================================
