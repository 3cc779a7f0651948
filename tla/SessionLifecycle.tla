-------------------------- MODULE SessionLifecycle --------------------------
(***************************************************************************)
(* The life of one session identity that is hosted on PTYs: its row and     *)
(* locator (SessionRow), the PTY supervisors (processes of their own, which *)
(* outlive the daemon), the engine task that watches a runtime, and the     *)
(* daemon's tasks that all write the same row: the lifecycle loop, the      *)
(* startup reconciliation, launches, the supervisors' exit calls, operator  *)
(* kills and forgets, session_end and the harness hooks.                    *)
(*                                                                         *)
(* A store call is one step; a task is cut wherever it awaits or asks a     *)
(* supervisor, and goes on with the snapshot of the row it read before.     *)
(* cancel_session and the store call that follows it are one step: nothing  *)
(* a task reads tells the order of the two apart but the recorded reason.   *)
(***************************************************************************)
EXTENDS SessionRow, FiniteSets

CONSTANTS
  MaxEpoch,    \* bound: attachment epochs of a supervisor
  Budgets      \* what the environment may do in a behaviour, one of these (Budget):
               \*   features: which of AllFeatures happen at all
               \*   gens:     bound on the generations launches reserve
               \*   life:     bound on the lifecycle epochs an eviction is reserved at
               \*   ops:      kills, forgets, session_ends and session-start hooks left
               \*   faults:   control requests that may still fail, supervisors that may crash
               \*   crashes:  crashes of the daemon left

AllFeatures == {"attach", "evict", "turn", "message", "doorbell", "kill", "forget", "end", "hook"}

Budget == [features : SUBSET AllFeatures, gens : Nat, life : Nat, ops : Nat, faults : Nat,
           crashes : Nat]

ASSUME BoundsAssumption == MaxEpoch \in Nat /\ Budgets \subseteq Budget

VARIABLES
  row, locator,  \* the store (SessionRow)
  inbox,         \* the recipient's outstanding inbox work
  sup,           \* [Pty -> supervisor]: process state, attachment, metadata file
  reports,       \* PTYs whose exit report is on disk
  notes,         \* presentation notifications on their way to the daemon
  exits,         \* [Pty -> [pc, snap]]: the exit call of each supervisor
  daemon,        \* "up" or "down"
  engine,        \* the entry of the engine map: [gen, pid, cancelled], gen 0 if none
  ending,        \* generations whose engine left the map and is tearing down
  task,          \* ["loop", "boot" -> record]: the lifecycle loop, the startup task
  frozen,        \* the running row the startup task set out to revive
  op,            \* ["kill", "forget" -> [pc, snap]]: operator calls being served
  launch,        \* [pc, gen, pty]: the launch in progress
  budget,        \* what the environment may still do (Budget)
  acked          \* generations a kill was acknowledged for (history)

vars == <<row, locator, inbox, sup, reports, notes, exits, daemon, engine, ending,
          task, frozen, op, launch, budget, acked>>

store == <<row, locator, inbox>>
host == <<sup, reports, exits>>
run == <<engine, ending>>

----------------------------------------------------------------------------
(* Supervisors and engines *)

Tasks == {"loop", "boot"}
Ops == {"kill", "forget"}
NoEngine == [gen |-> 0, pid |-> NoPid, cancelled |-> FALSE]
NoSup == [state |-> "none", clients |-> 0, epoch |-> 0, turn |-> "none", meta |-> FALSE, end |-> "none"]
Dead(meta) == [NoSup EXCEPT !.state = "dead", !.meta = meta]
IdleTask == [pc |-> "start", snap |-> NoRow, pty |-> 0, epoch |-> 0, clients |-> 0, todo |-> {}, then |-> "start"]
IdleOp == [pc |-> "idle", snap |-> NoRow]
IdleLaunch == [pc |-> "idle", gen |-> 0, pty |-> 0]

Up(p) == p \in Pty /\ sup[p].state = "up"

\* Mutant: a process counts as alive until it is reaped.
PidAliveUnreaped(pid) == pid # NoPid /\ sup[pid.pty].state # "none"

\* Liveness of the process a row or an engine watches.
PidAlive(pid) == \/ pid.kind = "supervisor" /\ sup[pid.pty].state \in {"up", "exiting"}
                 \/ pid.kind = "harness" /\ sup[pid.pty].state = "up"

\* The harness child of p is gone: the supervisor removes its socket and its
\* metadata, writes the exit report and calls the daemon.
ChildGone(p, why) ==
  /\ sup' = [sup EXCEPT ![p].state = "exiting", ![p].meta = FALSE, ![p].end = why]
  /\ reports' = reports \union {p}
  /\ exits' = [exits EXCEPT ![p].pc = "call"]

Cancel(e, g) == IF e.gen = g THEN [e EXCEPT !.cancelled = TRUE] ELSE e

\* managed_lifecycle::stop_generation for the generation of a snapshot.
StopGeneration(g) == row' = Stopped(row, g) /\ engine' = Cancel(engine, g)

\* What supervisor_exited does after it looked the session up (snapshot s).
SupervisorExited(s) ==
  /\ locator' = Cleared(locator, s.gen)
  /\ CASE s.runtime = "stopping" -> /\ row' = EvictionFinalized(row, s.gen, s.life)
                                    /\ engine' = Cancel(engine, s.gen)
       [] s.runtime = "running" -> StopGeneration(s.gen)
       [] OTHER -> UNCHANGED <<row, engine>>

\* spawn_session refuses only when a newer generation is hosted already.
SpawnEngine(g, pid) ==
  engine' = IF engine.gen < g THEN [gen |-> g, pid |-> pid, cancelled |-> FALSE] ELSE engine

Use(counter) == budget[counter] > 0 /\ budget' = [budget EXCEPT ![counter] = budget[counter] - 1]

Init ==
  /\ row = NoRow /\ locator = NoLocator /\ inbox = "none"
  /\ sup = [p \in Pty |-> NoSup] /\ reports = {} /\ notes = {}
  /\ exits = [p \in Pty |-> IdleOp]
  /\ daemon = "up" /\ engine = NoEngine /\ ending = {}
  /\ task = [a \in Tasks |-> IF a = "loop" THEN IdleTask ELSE [IdleTask EXCEPT !.pc = "done"]]
  /\ frozen = NoRow
  /\ op = [a \in Ops |-> IdleOp] /\ launch = IdleLaunch
  /\ budget \in Budgets
  /\ acked = {}

----------------------------------------------------------------------------
(* The supervisor process and its harness *)

\* A notification is sent once, and lost when no daemon takes it.
Notify(p) ==
  \E sent \in BOOLEAN :
    notes' = IF sent /\ daemon = "up"
               THEN notes \union {[pty |-> p, epoch |-> sup'[p].epoch, clients |-> sup'[p].clients]}
               ELSE notes

Attach(p) ==
  /\ "attach" \in budget.features /\ Up(p) /\ sup[p].clients = 0 /\ sup[p].epoch < MaxEpoch
  /\ sup' = [sup EXCEPT ![p].clients = 1, ![p].epoch = sup[p].epoch + 1]
  /\ Notify(p)
  /\ UNCHANGED <<store, reports, exits, daemon, run, task, frozen, op, launch, budget, acked>>

\* Mutant: a departure is counted whether or not the client had attached.
DetachUnattached(p) ==
  /\ Up(p) /\ sup[p].epoch < MaxEpoch
  /\ sup' = [sup EXCEPT ![p].clients = @ - 1, ![p].epoch = sup[p].epoch + 1]
  /\ Notify(p)
  /\ UNCHANGED <<store, reports, exits, daemon, run, task, frozen, op, launch, budget, acked>>

\* Mutant: the last client's departure does not advance the attachment epoch.
DetachSilently(p) ==
  /\ Up(p) /\ sup[p].clients = 1
  /\ sup' = [sup EXCEPT ![p].clients = 0]
  /\ Notify(p)
  /\ UNCHANGED <<store, reports, exits, daemon, run, task, frozen, op, launch, budget, acked>>

Detach(p) ==
  /\ Up(p) /\ sup[p].clients = 1
  /\ sup' = [sup EXCEPT ![p].clients = 0, ![p].epoch = sup[p].epoch + 1]
  /\ Notify(p)
  /\ UNCHANGED <<store, reports, exits, daemon, run, task, frozen, op, launch, budget, acked>>

\* A prompt is submitted, by the attached user or by an injected message.  Its
\* hook is served by a running daemon only (connect_running), and writes a row
\* that says running only; otherwise the row never hears of the turn.
TurnStarts(p) ==
  /\ "turn" \in budget.features /\ Up(p) /\ sup[p].turn = "none"
  /\ sup[p].clients = 1 \/ inbox = "injected"
  /\ sup' = [sup EXCEPT ![p].turn = IF daemon = "up" /\ Running(row) THEN "noted" ELSE "missed"]
  /\ row' = IF daemon = "up" THEN TurnStarted(row, row.gen) ELSE row
  /\ UNCHANGED <<locator, inbox, reports, notes, exits, daemon, run, task, frozen, op, launch, budget, acked>>

\* The turn's end closes the injected inbox rows, if the row was working.
TurnEnds(p) ==
  /\ Up(p) /\ sup[p].turn # "none"
  /\ sup' = [sup EXCEPT ![p].turn = "none"]
  /\ row' = IF daemon = "up" THEN TurnEnded(row, row.gen) ELSE row
  /\ inbox' = IF daemon = "up" /\ EndsTurn(row, row.gen) /\ inbox = "injected" THEN "none" ELSE inbox
  /\ UNCHANGED <<locator, reports, notes, exits, daemon, run, task, frozen, op, launch, budget, acked>>

ChildExits(p) ==
  /\ Up(p) /\ ChildGone(p, "exited")
  /\ UNCHANGED <<store, notes, daemon, run, task, frozen, op, launch, budget, acked>>

\* The supervisor dies without running its exit guard: its metadata stays.
SupervisorCrashes(p) ==
  /\ Up(p) /\ Use("faults")
  /\ sup' = [sup EXCEPT ![p] = Dead(TRUE)]
  /\ UNCHANGED <<store, reports, notes, exits, daemon, run, task, frozen, op, launch, acked>>

\* The exit call is over: `accepted` removes the report from disk.
ExitCallEnds(p, accepted) ==
  /\ exits' = [exits EXCEPT ![p] = IdleOp]
  /\ sup' = [sup EXCEPT ![p] = Dead(FALSE)]
  /\ reports' = IF accepted THEN reports \ {p} ELSE reports

\* wait_for_registered_session: up to two seconds for a running session, then
\* the call is refused.  No daemon at all ends it the same way.
ExitCall(p) ==
  /\ exits[p].pc = "call"
  /\ IF daemon = "up" /\ Resolves(row, locator, p) /\ Running(row)
       THEN exits' = [exits EXCEPT ![p].pc = "handle"] /\ UNCHANGED <<sup, reports>>
       ELSE ExitCallEnds(p, FALSE)
  /\ UNCHANGED <<store, notes, daemon, run, task, frozen, op, launch, budget, acked>>

ExitLookup(p) ==
  /\ exits[p].pc = "handle"
  /\ IF Resolves(row, locator, p)
       THEN exits' = [exits EXCEPT ![p] = [pc |-> "act", snap |-> row]] /\ UNCHANGED <<sup, reports>>
       ELSE ExitCallEnds(p, TRUE)
  /\ UNCHANGED <<store, notes, daemon, run, task, frozen, op, launch, budget, acked>>

ExitAct(p) ==
  /\ exits[p].pc = "act"
  /\ SupervisorExited(exits[p].snap)
  /\ ExitCallEnds(p, TRUE)
  /\ UNCHANGED <<inbox, notes, daemon, ending, task, frozen, op, launch, budget, acked>>

Exit(p) == ExitCall(p) \/ ExitLookup(p) \/ ExitAct(p)

Supervisor(p) ==
  Attach(p) \/ Detach(p) \/ TurnStarts(p) \/ TurnEnds(p) \/ ChildExits(p) \/ SupervisorCrashes(p)

----------------------------------------------------------------------------
(* Notifications, messages, time, engines *)

\* pty_presentation_changed.
PresentationChanged(n) ==
  /\ daemon = "up" /\ notes' = notes \ {n}
  /\ row' = IF Resolves(row, locator, n.pty) THEN Observed(row, row, n.epoch, n.clients) ELSE row
  /\ UNCHANGED <<locator, inbox, host, daemon, run, task, frozen, op, launch, budget, acked>>

Message ==
  /\ "message" \in budget.features /\ daemon = "up" /\ inbox = "none"
  /\ inbox' = "pending" /\ row' = DeadlineCancelled(row)
  /\ UNCHANGED <<locator, host, notes, daemon, run, task, frozen, op, launch, budget, acked>>

\* The doorbell writes the message to the bound PTY (InboxDelivery has the detail).
Inject ==
  /\ daemon = "up" /\ inbox = "pending" /\ Running(row)
  /\ Bound(locator, row.gen) /\ Up(locator.pty)
  /\ inbox' = "injected"
  /\ UNCHANGED <<row, locator, host, notes, daemon, run, task, frozen, op, launch, budget, acked>>

\* A doorbell that finds the bound endpoint dead clears its locator.
ClearDeadEndpoint ==
  /\ "doorbell" \in budget.features /\ daemon = "up" /\ inbox = "pending" /\ Running(row)
  /\ Bound(locator, row.gen) /\ ~Up(locator.pty)
  /\ locator' = Cleared(locator, row.gen)
  /\ UNCHANGED <<row, inbox, host, notes, daemon, run, task, frozen, op, launch, budget, acked>>

DeadlineElapses ==
  /\ "evict" \in budget.features /\ row.deadline = "armed"
  /\ row' = [row EXCEPT !.deadline = "due"]
  /\ UNCHANGED <<locator, inbox, host, notes, daemon, run, task, frozen, op, launch, budget, acked>>

\* The engine's select loop ends: cancelled, or the watched process is gone.
EngineLeaves ==
  /\ engine.gen > 0
  /\ engine.cancelled \/ (engine.pid # NoPid /\ ~PidAlive(engine.pid))
  /\ engine' = NoEngine /\ ending' = ending \union {engine.gen}
  /\ UNCHANGED <<store, host, notes, daemon, task, frozen, op, launch, budget, acked>>

EngineTeardown(g) ==
  /\ g \in ending /\ ending' = ending \ {g}
  /\ IF RunningAt(row, g) THEN StopGeneration(g) ELSE UNCHANGED <<row, engine>>
  /\ UNCHANGED <<locator, inbox, host, notes, daemon, task, frozen, op, launch, budget, acked>>

Engine == EngineLeaves \/ \E g \in ending : EngineTeardown(g)

----------------------------------------------------------------------------
(* The lifecycle loop and the startup task.  Both replay exit reports and    *)
(* settle stopping rows; then the loop looks for due evictions and starts    *)
(* again, and the startup task revives the session it found running.        *)

Task(a) == task[a]
Goto(a, pc) == task' = [task EXCEPT ![a].pc = pc]           \* keeps the snapshot
Enter(a, pc) == task' = [task EXCEPT ![a] = [IdleTask EXCEPT !.pc = pc]]

\* Where a task goes when it has settled one session: `then`, set on the way in.
Leave(a) == Enter(a, Task(a).then)

Tick(a) ==
  /\ Task(a).pc = "start"
  /\ task' = [task EXCEPT ![a] = [IdleTask EXCEPT !.pc = "replay", !.todo = reports]]
  /\ UNCHANGED <<store, host, notes, daemon, run, frozen, op, launch, budget, acked>>

\* session_for_pty of one report.  A report of an unknown PTY is kept for five
\* minutes, and dropped after that.
Replay(a, p) ==
  /\ Task(a).pc = "replay" /\ p \in Task(a).todo
  /\ IF Resolves(row, locator, p)
       THEN /\ task' = [task EXCEPT ![a].pc = "replaying", ![a].snap = row, ![a].pty = p]
            /\ UNCHANGED reports
       ELSE /\ task' = [task EXCEPT ![a].todo = @ \ {p}]
            /\ \E old \in BOOLEAN : reports' = IF old THEN reports \ {p} ELSE reports
  /\ UNCHANGED <<store, sup, exits, notes, daemon, run, frozen, op, launch, budget, acked>>

ReplayExit(a) ==
  /\ Task(a).pc = "replaying"
  /\ SupervisorExited(Task(a).snap)
  /\ reports' = reports \ {Task(a).pty}
  /\ task' = [task EXCEPT ![a] = [IdleTask EXCEPT !.pc = "replay", !.todo = Task(a).todo \ {Task(a).pty}]]
  /\ UNCHANGED <<inbox, sup, exits, notes, daemon, ending, frozen, op, launch, budget, acked>>

Replayed(a) ==
  /\ Task(a).pc = "replay" /\ Task(a).todo = {}
  /\ Enter(a, IF a = "loop" THEN "present" ELSE "stopping")
  /\ UNCHANGED <<store, host, notes, daemon, run, frozen, op, launch, budget, acked>>

\* presentation::reconcile reads the running row and its bound locator.
Present ==
  /\ Task("loop").pc = "present"
  /\ task' = [task EXCEPT !["loop"] =
       IF Running(row) /\ Bound(locator, row.gen)
         THEN [@ EXCEPT !.pc = "probe", !.snap = row, !.pty = locator.pty]
         ELSE [@ EXCEPT !.pc = "stopping"]]
  /\ UNCHANGED <<store, host, notes, daemon, run, frozen, op, launch, budget, acked>>

\* presentation_observation: an answer, or (not up, or a failed request) none.
Probe ==
  LET p == Task("loop").pty IN
  /\ Task("loop").pc = "probe"
  /\ \/ /\ Up(p)
        /\ task' = [task EXCEPT !["loop"].pc = "apply", !["loop"].epoch = sup[p].epoch,
                                !["loop"].clients = sup[p].clients]
        /\ UNCHANGED budget
     \/ ~Up(p) /\ Goto("loop", "lost") /\ UNCHANGED budget
     \/ Up(p) /\ Use("faults") /\ Goto("loop", "lost")
  /\ UNCHANGED <<store, host, notes, daemon, run, frozen, op, launch, acked>>

ApplyProbe ==
  LET t == Task("loop") IN
  /\ t.pc = "apply" /\ Enter("loop", "stopping")
  /\ row' = Observed(row, t.snap, t.epoch, t.clients)
  /\ UNCHANGED <<locator, inbox, host, notes, daemon, run, frozen, op, launch, budget, acked>>

\* No answer: the runtime is kept unavailable while its process lives.
ProbeLost ==
  LET s == Task("loop").snap IN
  /\ Task("loop").pc = "lost" /\ Enter("loop", "stopping")
  /\ IF PidAlive(s.pid) THEN row' = Unobservable(row, s) /\ UNCHANGED engine
                        ELSE StopGeneration(s.gen)
  /\ UNCHANGED <<locator, inbox, host, notes, daemon, ending, frozen, op, launch, budget, acked>>

\* reconcile_stopping lists the stopping row.
ListStopping(a) ==
  LET next == IF a = "loop" THEN "due" ELSE "revive" IN
  /\ Task(a).pc = "stopping"
  /\ task' = [task EXCEPT ![a] = IF row.runtime = "stopping"
                THEN [@ EXCEPT !.pc = "kill", !.snap = row, !.then = next]
                ELSE [@ EXCEPT !.pc = next]]
  /\ UNCHANGED <<store, host, notes, daemon, run, frozen, op, launch, budget, acked>>

\* terminate_automatic_if_unattached asks the bound supervisor to kill its child
\* if nobody is attached at the expected epoch.  The answer may be lost.
KillIfHeadless(a) ==
  LET s == Task(a).snap
      p == locator.pty IN
  /\ Task(a).pc = "kill"
  /\ \/ /\ Bound(locator, s.gen) /\ Up(p) /\ sup[p].clients = 0 /\ sup[p].epoch = s.att
        /\ ChildGone(p, "evicted")
        /\ \/ Goto(a, "finalize") /\ UNCHANGED budget
           \/ Goto(a, "uncontrolled") /\ Use("faults")
     \/ /\ Bound(locator, s.gen) /\ Up(p) /\ ~(sup[p].clients = 0 /\ sup[p].epoch = s.att)
        /\ task' = [task EXCEPT ![a].pc = "changed", ![a].epoch = sup[p].epoch,
                                ![a].clients = sup[p].clients]
        /\ UNCHANGED <<host, budget>>
     \/ /\ ~Bound(locator, s.gen) \/ ~Up(p)
        /\ Goto(a, "uncontrolled") /\ UNCHANGED <<host, budget>>
     \/ /\ Bound(locator, s.gen) /\ Up(p) /\ Use("faults")
        /\ Goto(a, "uncontrolled") /\ UNCHANGED host
  /\ UNCHANGED <<store, notes, daemon, run, frozen, op, launch, acked>>

FinalizeEviction(a) ==
  LET s == Task(a).snap IN
  /\ Task(a).pc = "finalize" /\ Leave(a)
  /\ engine' = Cancel(engine, s.gen)
  /\ row' = EvictionFinalized(row, s.gen, s.life)
  /\ locator' = IF row' # row THEN Cleared(locator, s.gen) ELSE locator
  /\ UNCHANGED <<inbox, host, notes, daemon, ending, frozen, op, launch, budget, acked>>

EvictionChanged(a) ==
  LET t == Task(a) IN
  /\ t.pc = "changed" /\ Leave(a)
  /\ row' = Observed(row, t.snap, t.epoch, t.clients)
  /\ UNCHANGED <<locator, inbox, host, notes, daemon, run, frozen, op, launch, budget, acked>>

EvictionUncontrolled(a) ==
  /\ Task(a).pc = "uncontrolled" /\ Leave(a)
  /\ row' = Unobservable(row, Task(a).snap)
  /\ UNCHANGED <<locator, inbox, host, notes, daemon, run, frozen, op, launch, budget, acked>>

ListDue ==
  /\ Task("loop").pc = "due"
  /\ task' = [task EXCEPT !["loop"] = IF IsDue(row, inbox)
                THEN [@ EXCEPT !.pc = "reserve", !.snap = row] ELSE IdleTask]
  /\ UNCHANGED <<store, host, notes, daemon, run, frozen, op, launch, budget, acked>>

\* The candidate is reserved only as it was listed; the reserved row is the snapshot.
ReserveEviction ==
  LET s == Task("loop").snap IN
  /\ Task("loop").pc = "reserve"
  /\ IF CanReserveEviction(row, s, inbox) /\ row.life < budget.life
       THEN /\ row' = EvictionReserved(row)
            /\ task' = [task EXCEPT !["loop"] = [@ EXCEPT !.pc = "kill", !.snap = row', !.then = "start"]]
       ELSE task' = [task EXCEPT !["loop"] = IdleTask] /\ UNCHANGED row
  /\ UNCHANGED <<locator, inbox, host, notes, daemon, run, frozen, op, launch, budget, acked>>

\* Mutant: a runtime without a locator or metadata is taken for gone.
ReviveUnproven ==
  LET s == frozen
      p == locator.pty IN
  /\ Task("boot").pc = "revive"
  /\ IF Running(s) /\ Bound(locator, s.gen) /\ Up(p)
       THEN Goto("boot", "spawn") /\ UNCHANGED <<row, engine>>
       ELSE Goto("boot", "done") /\ StopGeneration(s.gen)
  /\ UNCHANGED <<locator, inbox, host, notes, daemon, ending, frozen, op, launch, budget, acked>>

\* The startup task decides about the row that was running when the daemon
\* started: a reachable supervisor is revived; otherwise the PTY's metadata says
\* whether it is gone, and without metadata or locator nothing is ended.
Revive ==
  LET s == frozen
      p == locator.pty
      done == Goto("boot", "done") IN
  /\ Task("boot").pc = "revive"
  /\ \/ ~Running(s) /\ done /\ UNCHANGED <<row, engine, budget>>
     \/ /\ Running(s) /\ Bound(locator, s.gen) /\ Up(p) /\ Goto("boot", "spawn")
        /\ \/ UNCHANGED <<row, budget>>
           \/ Use("faults") /\ row' = Unobservable(row, s)
        /\ UNCHANGED engine
     \/ /\ Running(s) /\ ~Bound(locator, s.gen)
        /\ done /\ row' = Unobservable(row, s) /\ UNCHANGED <<engine, budget>>
     \/ /\ Running(s) /\ Bound(locator, s.gen) /\ ~Up(p) /\ ~sup[p].meta
        /\ done /\ row' = Unobservable(row, s) /\ UNCHANGED <<engine, budget>>
     \/ /\ Running(s) /\ Bound(locator, s.gen) /\ ~Up(p) /\ sup[p].meta
        /\ done /\ StopGeneration(s.gen) /\ UNCHANGED budget
  /\ UNCHANGED <<locator, inbox, host, notes, daemon, ending, frozen, op, launch, acked>>

ReviveEngine ==
  /\ Task("boot").pc = "spawn" /\ Goto("boot", "done")
  /\ SpawnEngine(frozen.gen, frozen.pid)
  /\ UNCHANGED <<store, host, notes, daemon, ending, frozen, op, launch, budget, acked>>

Settle(a) ==
  \/ Tick(a) \/ (\E p \in Task(a).todo : Replay(a, p)) \/ ReplayExit(a) \/ Replayed(a)
  \/ ListStopping(a) \/ KillIfHeadless(a) \/ FinalizeEviction(a)
  \/ EvictionChanged(a) \/ EvictionUncontrolled(a)

Loop == Settle("loop") \/ Present \/ Probe \/ ApplyProbe \/ ProbeLost \/ ListDue \/ ReserveEviction
Boot == Settle("boot") \/ Revive \/ ReviveEngine

----------------------------------------------------------------------------
(* Launches and session-start hooks *)

\* rpc_session_start up to bind_locators: a running row keeps its generation, a
\* stopped one is reserved anew; then pid and locator are bound.
SessionStart(p, pid) ==
  LET r == IF CanReserve(row) THEN Reserved(row, pid) ELSE row IN
  IF CanBind(r, r.gen)
    THEN /\ row' = [r EXCEPT !.pid = pid]
         /\ locator' = [pty |-> p, gen |-> r.gen]
    ELSE /\ row' = IF engine.gen > 0 THEN row ELSE Stopped(row, row.gen)   \* RuntimeReservation's drop
         /\ UNCHANGED locator

\* A running row, and an engine of the identity, whichever generation it is of.
AlreadyRunning == Running(row) /\ engine.gen > 0

LaunchReserve ==
  /\ daemon = "up" /\ launch.pc = "idle" /\ CanReserve(row) /\ row.gen < budget.gens
  /\ row' = Reserved(row, NoPid)
  /\ launch' = [pc |-> "spawn", gen |-> row'.gen, pty |-> row'.gen]
  /\ UNCHANGED <<locator, inbox, host, notes, daemon, run, task, frozen, op, budget, acked>>

LaunchSpawn ==
  LET p == launch.pty IN
  /\ launch.pc = "spawn"
  /\ \/ /\ sup' = [sup EXCEPT ![p] = [NoSup EXCEPT !.state = "up", !.meta = TRUE]]
        /\ launch' = [launch EXCEPT !.pc = "bind"]
        /\ UNCHANGED <<row, budget>>
     \/ /\ Use("faults")
        /\ row' = Stopped(row, launch.gen) /\ launch' = IdleLaunch
        /\ UNCHANGED sup
  /\ UNCHANGED <<locator, inbox, reports, exits, notes, daemon, run, task, frozen, op, acked>>

\* bootstrap_hosted_session_start: the start of what runs already is a reassertion,
\* and spawns no engine; a refused start kills the endpoint.
LaunchBind ==
  LET p == launch.pty IN
  /\ launch.pc = "bind"
  /\ SessionStart(p, [kind |-> "supervisor", pty |-> p])
  /\ launch' = IF locator' # [pty |-> p, gen |-> row'.gen] THEN [launch EXCEPT !.pc = "release"]
               ELSE IF AlreadyRunning THEN IdleLaunch
               ELSE [launch EXCEPT !.pc = "engine", !.gen = row'.gen]
  /\ UNCHANGED <<inbox, host, notes, daemon, run, task, frozen, op, budget, acked>>

LaunchEngine ==
  /\ launch.pc = "engine"
  /\ IF engine.gen > launch.gen
       THEN /\ row' = Stopped(row, launch.gen)
            /\ launch' = [launch EXCEPT !.pc = "release"] /\ UNCHANGED engine
       ELSE /\ SpawnEngine(launch.gen, [kind |-> "supervisor", pty |-> launch.pty])
            /\ launch' = IdleLaunch /\ UNCHANGED row
  /\ UNCHANGED <<locator, inbox, host, notes, daemon, ending, task, frozen, op, budget, acked>>

LaunchRelease ==
  LET p == launch.pty IN
  /\ launch.pc = "release" /\ launch' = IdleLaunch
  /\ IF Up(p) THEN ChildGone(p, "killed") ELSE UNCHANGED host
  /\ row' = Stopped(row, launch.gen)
  /\ UNCHANGED <<locator, inbox, notes, daemon, run, task, frozen, op, budget, acked>>

\* A launch goes on by itself once its generation is reserved.
Launching == LaunchSpawn \/ LaunchBind \/ LaunchEngine \/ LaunchRelease

\* A harness reports itself again, from the PTY it runs in.
SessionStartHook(p) ==
  LET pid == [kind |-> "harness", pty |-> p] IN
  /\ "hook" \in budget.features /\ daemon = "up" /\ Up(p) /\ Use("ops")
  /\ SessionStart(p, pid)
  /\ IF ~AlreadyRunning /\ locator' = [pty |-> p, gen |-> row'.gen]
       THEN SpawnEngine(row'.gen, pid) ELSE UNCHANGED engine
  /\ UNCHANGED <<inbox, host, notes, daemon, ending, task, frozen, op, launch, acked>>

----------------------------------------------------------------------------
(* session_kill, session_end *)

KillStart ==
  /\ "kill" \in budget.features /\ daemon = "up" /\ op["kill"].pc = "idle" /\ row.gen > 0
  /\ Use("ops")
  /\ op' = [op EXCEPT !["kill"] = [pc |-> "terminate", snap |-> row]]
  /\ UNCHANGED <<store, host, notes, daemon, run, task, frozen, launch, acked>>

\* Revocation is the first durable write of a forget; then the engine is cancelled.
ForgetStart ==
  /\ "forget" \in budget.features /\ daemon = "up" /\ op["forget"].pc = "idle" /\ row.gen > 0
  /\ Use("ops")
  /\ row' = [row EXCEPT !.revoked = TRUE]
  /\ engine' = Cancel(engine, row.gen)
  /\ op' = [op EXCEPT !["forget"] = [pc |-> "terminate", snap |-> row']]
  /\ UNCHANGED <<locator, inbox, host, notes, daemon, ending, task, frozen, launch, acked>>

\* Mutant: a runtime without its locator is taken for gone.
TerminateUnbound(a) ==
  LET s == op[a].snap
      p == locator.pty
      go(pc) == op' = [op EXCEPT ![a].pc = pc] IN
  /\ op[a].pc = "terminate"
  /\ IF s.runtime # "stopped" /\ Bound(locator, s.gen) /\ Up(p)
       THEN ChildGone(p, "killed") /\ go("clear")
       ELSE go("settle") /\ UNCHANGED host
  /\ UNCHANGED <<store, notes, daemon, run, task, frozen, launch, budget, acked>>

\* terminate_explicit: nothing to do for a stopped snapshot; refused without the
\* locator; otherwise the child is killed, or proved gone by metadata or pid.  The
\* supervisor and the signals may both fail to end it.
Terminate(a) ==
  LET s == op[a].snap
      p == locator.pty
      go(pc) == op' = [op EXCEPT ![a].pc = pc] IN
  /\ op[a].pc = "terminate"
  /\ \/ s.runtime = "stopped" /\ go("settle") /\ UNCHANGED <<host, budget>>
     \/ s.runtime # "stopped" /\ ~Bound(locator, s.gen) /\ go("idle") /\ UNCHANGED <<host, budget>>
     \/ /\ s.runtime # "stopped" /\ Bound(locator, s.gen)
        /\ \/ Up(p) /\ ChildGone(p, "killed") /\ go("clear") /\ UNCHANGED budget
           \/ Up(p) /\ Use("faults") /\ go("idle") /\ UNCHANGED host
           \/ ~Up(p) /\ sup[p].meta /\ go("clear") /\ UNCHANGED budget
                     /\ sup' = [sup EXCEPT ![p].meta = FALSE] /\ UNCHANGED <<reports, exits>>
           \/ ~Up(p) /\ ~sup[p].meta /\ UNCHANGED <<host, budget>>
                     /\ go(IF PidAlive(s.pid) THEN "idle" ELSE "clear")
  /\ UNCHANGED <<store, notes, daemon, run, task, frozen, launch, acked>>

TerminateClear(a) ==
  /\ op[a].pc = "clear" /\ op' = [op EXCEPT ![a].pc = "settle"]
  /\ locator' = Cleared(locator, op[a].snap.gen)
  /\ UNCHANGED <<row, inbox, host, notes, daemon, run, task, frozen, launch, budget, acked>>

\* The reply says ended when the generation does not run after the call.
KillSettle ==
  LET s == op["kill"].snap IN
  /\ op["kill"].pc = "settle" /\ op' = [op EXCEPT !["kill"] = IdleOp]
  /\ StopGeneration(s.gen)
  /\ acked' = IF row'.gen = s.gen /\ ~Running(row') THEN acked \union {s.gen} ELSE acked
  /\ UNCHANGED <<locator, inbox, host, notes, daemon, ending, task, frozen, launch, budget>>

\* Finalizing a revocation removes every locator of the identity.
ForgetSettle ==
  LET s == op["forget"].snap
      finalized == row.gen = s.gen /\ row.revoked IN
  /\ op["forget"].pc = "settle" /\ op' = [op EXCEPT !["forget"] = IdleOp]
  /\ row' = RevocationFinalized(row, s.gen)
  /\ locator' = IF finalized THEN NoLocator ELSE locator
  /\ UNCHANGED <<inbox, host, notes, daemon, run, task, frozen, launch, budget, acked>>

\* A manual session_end stops the generation and leaves its process alone.
SessionEnd ==
  /\ "end" \in budget.features /\ daemon = "up" /\ Running(row) /\ Use("ops")
  /\ StopGeneration(row.gen)
  /\ UNCHANGED <<locator, inbox, host, notes, daemon, ending, task, frozen, op, launch, acked>>

Operator == KillStart \/ ForgetStart \/ SessionEnd
OperatorCall == KillSettle \/ ForgetSettle \/ \E a \in Ops : Terminate(a) \/ TerminateClear(a)

----------------------------------------------------------------------------
(* The daemon dies and comes back *)

\* Everything in memory is lost; exit calls fail and leave their reports.
Crash ==
  /\ daemon = "up" /\ Use("crashes")
  /\ daemon' = "down" /\ engine' = NoEngine /\ ending' = {} /\ notes' = {}
  /\ task' = [a \in Tasks |-> [IdleTask EXCEPT !.pc = "done"]]
  /\ frozen' = NoRow /\ op' = [a \in Ops |-> IdleOp] /\ launch' = IdleLaunch
  /\ LET cut == {p \in Pty : exits[p].pc \in {"handle", "act"}} IN
       /\ exits' = [p \in Pty |-> IF p \in cut THEN IdleOp ELSE exits[p]]
       /\ sup' = [p \in Pty |-> IF p \in cut THEN Dead(FALSE) ELSE sup[p]]
  /\ UNCHANGED <<store, reports, acked>>

\* The loop starts, then the running rows are listed for the startup task.
Start ==
  /\ daemon = "down" /\ daemon' = "up"
  /\ task' = [a \in Tasks |-> IdleTask]
  /\ frozen' = IF Running(row) THEN row ELSE NoRow
  /\ UNCHANGED <<store, host, notes, run, op, launch, budget, acked>>

Next ==
  \/ \E p \in Pty : Supervisor(p) \/ Exit(p) \/ SessionStartHook(p)
  \/ \E n \in notes : PresentationChanged(n)
  \/ Message \/ Inject \/ ClearDeadEndpoint \/ DeadlineElapses \/ Engine
  \/ Loop \/ Boot \/ LaunchReserve \/ Launching \/ Operator \/ OperatorCall \/ Crash \/ Start

Spec == Init /\ [][Next]_vars

----------------------------------------------------------------------------
(* Properties *)

Pcs == {"start", "replay", "replaying", "present", "probe", "apply", "lost", "stopping", "kill",
        "finalize", "changed", "uncontrolled", "due", "reserve", "revive", "spawn", "done"}
Sup == [state : {"none", "up", "exiting", "dead"}, clients : {0, 1}, epoch : Nat,
        turn : {"none", "noted", "missed"}, meta : BOOLEAN, end : {"none", "exited", "evicted", "killed"}]
Note == [pty : Pty, epoch : Nat, clients : {0, 1}]
ExitOf == [pc : {"idle", "call", "handle", "act"}, snap : Row]
EngineOf == [gen : 0..MaxGen, pid : Pid, cancelled : BOOLEAN]
TaskOf == [pc : Pcs, snap : Row, pty : 0..MaxGen, epoch : Nat, clients : {0, 1},
           todo : SUBSET Pty, then : Pcs]
OpOf == [pc : {"idle", "terminate", "clear", "settle"}, snap : Row]
LaunchOf == [pc : {"idle", "spawn", "bind", "engine", "release"}, gen : 0..MaxGen, pty : 0..MaxGen]

\* The type invariant: every row, snapshot and task the steps build has the shape
\* the store and the tasks give it.
TypeOK ==
  /\ row \in Row /\ locator \in Locator /\ inbox \in {"none", "pending", "injected"}
  /\ sup \in [Pty -> Sup] /\ reports \subseteq Pty /\ notes \subseteq Note /\ exits \in [Pty -> ExitOf]
  /\ daemon \in {"up", "down"} /\ engine \in EngineOf /\ ending \subseteq Pty
  /\ task \in [Tasks -> TaskOf] /\ frozen \in Row
  /\ op \in [Ops -> OpOf] /\ launch \in LaunchOf
  /\ budget \in Budget /\ acked \subseteq Pty

\* Safety.  Every supervisor whose child runs is the one of the row's generation,
\* and that row is not stopped: no store call of a stale snapshot, no replayed
\* report and no late probe ends a runtime whose process goes on, and no second
\* process is launched beside one.  (session_end and forget leave a process on
\* purpose or by a failed termination; their runs do not claim this.)
RowOwnsProcess == \A p \in Pty : Up(p) => row.gen = p /\ row.runtime # "stopped"

\* Safety.  A runtime the eviction ended had no attached client and no turn that
\* its row was told of when its child was killed: kill_if_headless is fenced by the
\* attachment epoch of the row that reserve_due_idle_eviction accepted, and a turn
\* that started before takes that row's deadline, through cancelled evictions,
\* late observations and evictions that are reserved again.
EvictedWasIdle ==
  \A p \in Pty : sup[p].end = "evicted" => sup[p].clients = 0 /\ sup[p].turn # "noted"

\* Safety.  What the row says of the presentation was true of its supervisor at the
\* attachment epoch it says it for (clients come and go in turn, so an odd epoch
\* is headed), and that epoch has happened.
EdgesWereSeen ==
  row.runtime # "stopped" /\ row.pres # "unavailable" =>
    /\ Up(row.gen) => row.att <= sup[row.gen].epoch
    /\ row.pres = PresentationOf(row.att % 2)

\* Action property.  A notification, probe or cancelled eviction that arrives late
\* never takes the presentation of a generation back: a step goes to a later
\* attachment epoch, or says of the same one only that it is unknown or known again.
EdgesAdvance ==
  [][row'.gen = row.gen =>
       \/ row'.att > row.att
       \/ row'.att = row.att /\ (row'.pres = row.pres \/ "unavailable" \in {row.pres, row'.pres})]_vars

\* Safety.  A kill that was acknowledged as ended left no child of that generation
\* running, whichever of the loop, the engine and the supervisor's own exit call
\* raced it (rpc_session_kill, terminate_explicit).
KilledIsDead == \A g \in acked : ~Up(g)

\* Action property.  A stopped generation is never taken up again: stopped is left
\* for a newer generation only, by the reservation of a launch or a hook.
StopIsFinal ==
  [][row.gen > 0 /\ row.runtime = "stopped" => row'.runtime = "stopped" \/ row'.gen > row.gen]_vars

\* Action property.  Nothing gives a revoked identity its recovery authority back
\* or reserves a generation for it, not even a launch or a hook that was under way
\* when forget_session revoked it.
RevocationIsFinal == [][row.revoked => row'.revoked /\ row'.gen = row.gen]_vars

\* The daemon's own tasks, its engines and the calls it serves run on; a daemon
\* that is down is never sure to come back, and users, harnesses and messages
\* owe nothing.
Fairness ==
  /\ WF_vars(Loop) /\ WF_vars(Boot) /\ WF_vars(Engine) /\ WF_vars(OperatorCall)
  /\ WF_vars(Launching) /\ \A p \in Pty : WF_vars(Exit(p))

FairSpec == Spec /\ Fairness

\* Liveness.  While the daemon is up, a stopping row becomes stopped or running
\* again: the loop and the startup task settle every eviction that was left
\* half-done by a race, a failed request or a restart (reconcile_stopping).
StoppingSettles == \A g \in Pty :
  (row.gen = g /\ row.runtime = "stopping")
    ~> (daemon = "down" \/ row.gen # g \/ row.runtime # "stopping")

\* The child of the bound runtime of p has ended and the row says that it runs.
UnnoticedExit(p) == sup[p].state = "dead" /\ RunningAt(row, p) /\ row.pid # NoPid

\* Liveness.  While the daemon is up, a runtime that was bound to its process and
\* whose process is gone stops running: the exit call, its replayed report, the
\* engine, the probe and the startup task between them notice every exit.
ExitIsNoticed == \A p \in Pty : UnnoticedExit(p) ~> (daemon = "down" \/ ~RunningAt(row, p))

\* Liveness.  The same where nothing is ever evicted, through restarts, lost
\* notifications and failed requests.
UnevictedExitIsNoticed == \A p \in Pty :
  (UnnoticedExit(p) /\ "evict" \notin budget.features) ~> (daemon = "down" \/ ~RunningAt(row, p))

\* Liveness.  While the daemon is up and the attachment of a bound supervisor does
\* not change, the row comes to show it, whatever notifications were lost, late or
\* reordered and whatever failed request made it unavailable (presentation::reconcile).
PresentationSettles == \A p \in Pty : \A e \in 0..MaxEpoch :
  (Up(p) /\ sup[p].epoch = e /\ RunningAt(row, p) /\ Bound(locator, p)) ~>
    (daemon = "down" \/ ~Up(p) \/ sup[p].epoch # e \/ ~RunningAt(row, p) \/ ~Bound(locator, p)
      \/ (row.att = e /\ row.pres = PresentationOf(sup[p].clients)))
=============================================================================
