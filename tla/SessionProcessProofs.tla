------------------------ MODULE SessionProcessProofs ------------------------
(***************************************************************************)
(* What relates the row of SessionLifecycle to the processes outside the    *)
(* store, as long as nobody ends a session and leaves its process running   *)
(* on purpose or takes its PTY for another generation (Undisturbed).        *)
(*                                                                         *)
(* The argument.  A child runs, or is about to, only for the generation of  *)
(* the row, and that row is not stopped (OwnerInv).  Whoever may stop a     *)
(* generation has seen the end of its child before, and no child comes back *)
(* for it (Settled), so it stops nothing that runs, however late it acts.   *)
(*                                                                         *)
(* What is told of a presentation was so at its attachment epoch (EdgeInv). *)
(* A turn that was noted keeps the row working, and a row that is stopping  *)
(* is idle and headless (TurnInv); a task about to kill still knows the     *)
(* eviction as it is reserved, or a client has been since and the           *)
(* supervisor's own check of the epoch refuses it (Fresh, KillInv).         *)
(***************************************************************************)
EXTENDS SessionLifecycleProofs

\* No session_end and no forget, which leave a process behind, and no hook
\* that binds the PTY of an older generation.
Undisturbed == budget.features \cap {"end", "forget", "hook"} = {}

\* The launch of g has not started the child, has not bound it.
Unspawned(g) == launch.pc = "spawn" /\ launch.pty = g
Unbound(g) == launch.pc \in {"spawn", "bind"} /\ launch.pty = g

\* The generation g had its launch; its child was started; started and ended;
\* it runs no child and never will.
Spawned(g) == g <= row.gen /\ ~Unspawned(g)
Known(g) == g <= row.gen /\ ~Unbound(g)
Ended(g) == Spawned(g) /\ ~Up(g)
Settled(g) == Known(g) /\ ~Up(g)

PidOf(g) == [kind |-> "supervisor", pty |-> g]
PidInv(r) == r.pid \in {NoPid, PidOf(r.gen)}

\* A child that runs, and one that a launch is about to start, is the one of the
\* row's generation, and the row does not say stopped.
OwnerInv ==
  /\ ~row.revoked
  /\ \A p \in Pty : Up(p) => row.gen = p
  /\ \A p \in Pty : Up(p) \/ Unbound(p) => row.runtime # "stopped"
  /\ launch.pc # "idle" => launch.gen = row.gen /\ launch.pty = row.gen
  /\ launch.pc = "spawn" => ~Up(row.gen)

\* The locator leads to the child of its generation, which the row then watches.
LocatorInv ==
  /\ locator # NoLocator => locator.pty = locator.gen /\ Known(locator.gen)
  /\ PidInv(row)
  /\ Bound(locator, row.gen) => row.pid = PidOf(row.gen)

\* A report is on disk, and an exit call goes on, for children that ended.
ExitInv ==
  /\ \A p \in reports : Ended(p)
  /\ \A p \in Pty : exits[p].pc # "idle" => Ended(p)
  /\ \A p \in Pty : exits[p].pc = "act" => Settled(exits[p].snap.gen)

\* An engine watches the child of its generation, and is cancelled or tears down
\* only once that child ended.
EngineInv ==
  /\ engine.gen > 0 => Known(engine.gen) /\ engine.pid \in {NoPid, PidOf(engine.gen)}
  /\ engine.gen > 0 /\ engine.cancelled => Settled(engine.gen)
  /\ \A g \in ending : Settled(g)

\* What a task holds of a session between its steps: t is its record.
Holds(t) ==
  /\ \A p \in t.todo : Ended(p)
  /\ t.then \in {"start", "due", "revive"}
  /\ t.pc \in {"replaying", "finalize"} => Settled(t.snap.gen)
  /\ t.pc \in {"probe", "lost", "apply"} =>
       Known(t.snap.gen) /\ t.pty = t.snap.gen /\ t.snap.pid = PidOf(t.snap.gen)

TaskInv ==
  /\ \A a \in Tasks : Holds(task[a])
  /\ PidInv(frozen)
  /\ task["boot"].pc = "spawn" => Known(frozen.gen)

\* A kill settles, and is acknowledged, once the child has ended.
CallsInv ==
  /\ op["forget"].pc = "idle"
  /\ op["kill"].pc = "terminate" /\ op["kill"].snap.runtime = "stopped" => Settled(op["kill"].snap.gen)
  /\ op["kill"].pc \in {"clear", "settle"} => Settled(op["kill"].snap.gen)
  /\ \A g \in acked : Settled(g)

OwnInv == OwnerInv /\ LocatorInv /\ ExitInv /\ EngineInv /\ TaskInv /\ CallsInv

\* What every step may start from.
Calm == IInv /\ Undisturbed /\ OwnInv

----------------------------------------------------------------------------
(* Attachments and turns *)

\* The attachment epoch e of g has been.
Seen(g, e) == Spawned(g) /\ (Up(g) => e <= sup[g].epoch)

\* What was told of the presentation of g was so.
Told(g, epoch, clients) == clients = epoch % 2 /\ Seen(g, epoch)

\* What the row says of it was so at its attachment epoch.
Shown == row.runtime # "stopped" /\ row.pres # "unavailable" =>
  Seen(row.gen, row.att) /\ row.pres = PresentationOf(row.att % 2)

\* So is what notifications, tasks and the row say of it.
EdgeInv ==
  /\ \A p \in Pty : sup[p].clients = sup[p].epoch % 2
  /\ \A n \in notes : Told(n.pty, n.epoch, n.clients)
  /\ \A a \in Tasks : task[a].pc \in {"apply", "changed"} =>
       Told(task[a].snap.gen, task[a].epoch, task[a].clients)
  /\ Shown

\* A turn that was noted keeps the row working, and a row that is stopping is idle
\* and headless.
TurnInv ==
  /\ row.work = "working" => row.runtime = "running"
  /\ row.runtime = "stopping" => row.pres = "headless"
  /\ \A p \in Pty : Up(p) => sup[p].end = "none"
  /\ \A p \in Pty : Up(p) /\ sup[p].turn = "noted" => row.work = "working"

\* While its child runs, a generation whose presentation is known, probed or judged
\* keeps its locator.
BoundWhileUp(g) == Up(g) => Bound(locator, g)
BoundInv ==
  /\ row.runtime # "stopped" /\ row.pres # "unavailable" => BoundWhileUp(row.gen)
  /\ \A a \in Tasks : task[a].pc \in {"probe", "apply", "kill", "changed"} =>
       BoundWhileUp(task[a].snap.gen)
  /\ \A a \in Tasks : task[a].pc \in {"probe", "lost"} => Running(task[a].snap)

\* The supervisor of g, if it is up, went past the attachment epoch e.
Passed(g, e) == Spawned(g) /\ (Up(g) => sup[g].epoch > e)

\* The eviction a task knows as s is reserved still, or a client has been since.
Fresh(s) == (StoppingAt(row, s.gen, s.life) /\ row.att = s.att) \/ Passed(s.gen, s.att)

\* The daemon never goes down, and the startup task is over.
Alone == budget.crashes = 0 /\ daemon = "up" /\ task["boot"].pc = "done"

\* An eviction is given up only where the child has ended.
Proven ==
  /\ budget.faults = 0
  /\ \A a \in Tasks : task[a].pc = "uncontrolled" => Ended(task[a].snap.gen)

\* A task about to kill is fenced by Fresh: an eviction that another task may yet
\* carry out is never given up while its child runs.
KillInv ==
  /\ \A a \in Tasks : task[a].pc = "kill" => Fresh(task[a].snap)
  /\ Alone \/ Proven

----------------------------------------------------------------------------
(* What the store calls keep *)

\* The row goes on as the same generation of the same process; and it is not stopped.
Kept(r, n) == n.gen = r.gen /\ n.revoked = r.revoked /\ n.pid = r.pid
Alive(r, n) == Kept(r, n) /\ (n.runtime = "stopped" => r.runtime = "stopped")

LEMMA StopsKeep ==
  ASSUME NEW r \in Row, NEW g, NEW life
  PROVE  /\ Kept(r, Stopped(r, g)) /\ (Stopped(r, g) = r \/ (r.gen = g /\ Stopped(r, g) = AsStopped(r)))
         /\ Kept(r, EvictionFinalized(r, g, life))
         /\ \/ EvictionFinalized(r, g, life) = r
            \/ r.gen = g /\ EvictionFinalized(r, g, life) = AsStopped(r)
<1>1. Kept(r, AsStopped(r))
  BY DEF Kept, AsStopped, Row
<1>2. Kept(r, r)
  BY DEF Kept
<1> QED
  BY <1>1, <1>2 DEF Stopped, EvictionFinalized, RunningAt, StoppingAt

LEMMA AliveSame == \A r : Alive(r, r)
BY DEF Alive, Kept

LEMMA TurnsKeepAlive ==
  ASSUME NEW r \in Row, NEW g
  PROVE  Alive(r, TurnStarted(r, g)) /\ Alive(r, TurnEnded(r, g)) /\ Alive(r, DeadlineCancelled(r))
BY DEF Alive, Kept, Row, TurnStarted, TurnEnded, EndsTurn, DeadlineCancelled

LEMMA ReservedKeepsAlive ==
  ASSUME NEW r \in Row
  PROVE  Alive(r, EvictionReserved(r)) /\ Alive(r, [r EXCEPT !.deadline = "due"])
BY DEF Alive, Kept, Row, EvictionReserved

LEMMA EdgesKeepAlive ==
  ASSUME NEW r \in Row, NEW g, NEW life, NEW epoch, NEW pres
  PROVE  /\ Alive(r, PresentationEdge(r, g, epoch, pres))
         /\ Alive(r, PresentationLost(r, g, epoch))
         /\ Alive(r, EvictionCancelled(r, g, life, epoch, pres))
BY DEF Alive, Kept, Row, PresentationEdge, PresentationLost, EvictionCancelled

LEMMA ObservationsKeepAlive ==
  ASSUME NEW r \in Row, NEW s, NEW epoch, NEW clients
  PROVE  Alive(r, Observed(r, s, epoch, clients)) /\ Alive(r, Unobservable(r, s))
BY EdgesKeepAlive, AliveSame DEF Observed, Unobservable

----------------------------------------------------------------------------
(* Who writes what *)

\* Undisturbed, there is no hook and no session_end, and nothing is forgotten.
LEMMA Steps ==
  ASSUME Calm, [Next]_vars
  PROVE  \/ UNCHANGED vars
         \/ \E p \in Pty : Supervisor(p) \/ Exit(p)
         \/ \E n \in notes : PresentationChanged(n)
         \/ Message \/ Inject \/ ClearDeadEndpoint \/ DeadlineElapses \/ Engine
         \/ Loop \/ Boot \/ LaunchReserve \/ Launching \/ KillStart \/ KillSettle
         \/ Terminate("kill") \/ TerminateClear("kill") \/ Crash \/ Start
<1>1. /\ "hook" \notin budget.features /\ "end" \notin budget.features
      /\ "forget" \notin budget.features /\ op["forget"].pc = "idle"
  BY DEF Calm, Undisturbed, OwnInv, CallsInv
<1>2. ~SessionEnd /\ ~ForgetStart /\ ~ForgetSettle /\ ~Terminate("forget") /\ ~TerminateClear("forget")
  BY <1>1 DEF SessionEnd, ForgetStart, ForgetSettle, Terminate, TerminateClear
<1>3. \A p \in Pty : ~SessionStartHook(p)
  BY <1>1 DEF SessionStartHook
<1> QED
  BY <1>2, <1>3 DEF Next, Operator, OperatorCall, Ops

LEMMA LocatorWriters ==
  ASSUME Calm, [Next]_vars
  PROVE  locator' \in {locator, NoLocator} \/ LaunchBind
BY Steps DEF Supervisor, Attach, Detach, TurnStarts, TurnEnds, ChildExits, SupervisorCrashes,
  Exit, ExitCall, ExitLookup, ExitAct, SupervisorExited, PresentationChanged, Message, Inject,
  ClearDeadEndpoint, DeadlineElapses, Engine, EngineLeaves, EngineTeardown,
  Loop, Boot, Settle, Tick, Replay, ReplayExit, Replayed, Present, Probe, ApplyProbe, ProbeLost,
  ListStopping, KillIfHeadless, FinalizeEviction, EvictionChanged, EvictionUncontrolled, ListDue,
  ReserveEviction, Revive, ReviveEngine, LaunchReserve, Launching, LaunchSpawn,
  LaunchEngine, LaunchRelease, KillStart, KillSettle, Terminate, TerminateClear, Crash, Start,
  vars, store, Cleared

\* A step that stops at most a generation whose child has ended.
StopsEnded ==
  \E g \in 0..MaxGen :
    /\ Settled(g) /\ Kept(row, row')
    /\ row' = row \/ (row.gen = g /\ row' = AsStopped(row))
    /\ engine' \in {engine, Cancel(engine, g)}

LEMMA StopGenerationEnds ==
  ASSUME Calm, NEW g \in 0..MaxGen, Settled(g), StopGeneration(g)
  PROVE  StopsEnded
BY StopsKeep DEF Calm, IInv, TypeOK, StopGeneration, StopsEnded

LEMMA SupervisorExitedEnds ==
  ASSUME Calm, NEW s \in Row, Settled(s.gen), SupervisorExited(s)
  PROVE  StopsEnded
<1>1. s.gen \in 0..MaxGen
  BY DEF Row
<1>2. CASE s.runtime = "stopping"
  BY <1>1, <1>2, StopsKeep DEF SupervisorExited, StopsEnded, Calm, IInv, TypeOK
<1>3. CASE s.runtime = "running"
  BY <1>1, <1>3, StopGenerationEnds DEF SupervisorExited
<1>4. CASE s.runtime \notin {"stopping", "running"}
  BY <1>1, <1>4 DEF SupervisorExited, StopsEnded, Kept
<1> QED
  BY <1>2, <1>3, <1>4

LEMMA ExitActEnds ==
  ASSUME Calm, NEW p \in Pty, ExitAct(p)
  PROVE  StopsEnded
BY SupervisorExitedEnds DEF ExitAct, Calm, OwnInv, ExitInv, IInv, TypeOK, ExitOf

LEMMA ReplayExitEnds ==
  ASSUME Calm, NEW a \in Tasks, ReplayExit(a)
  PROVE  StopsEnded
BY SupervisorExitedEnds DEF ReplayExit, Calm, OwnInv, TaskInv, Holds, IInv, TypeOK, TaskOf, Task

LEMMA EngineTeardownEnds ==
  ASSUME Calm, NEW g \in ending, EngineTeardown(g)
  PROVE  StopsEnded
<1>1. Settled(g) /\ g \in 0..MaxGen
  BY PtyIsGeneration DEF Calm, OwnInv, EngineInv, IInv, TypeOK
<1>2. CASE RunningAt(row, g)
  BY <1>1, <1>2, StopGenerationEnds DEF EngineTeardown
<1>3. CASE ~RunningAt(row, g)
  BY <1>1, <1>3 DEF EngineTeardown, StopsEnded, Kept
<1> QED
  BY <1>2, <1>3

\* The probed process is the child of its generation.
LEMMA ProbeLostEnds ==
  ASSUME Calm, ProbeLost
  PROVE  StopsEnded \/ (Alive(row, row') /\ engine' = engine)
<1> DEFINE s == Task("loop").snap
<1>1. s \in Row /\ s.gen \in 0..MaxGen /\ Known(s.gen) /\ s.pid = PidOf(s.gen)
  BY DEF ProbeLost, Calm, OwnInv, TaskInv, Holds, IInv, TypeOK, TaskOf, Task, Tasks, Row
<1>2. CASE PidAlive(s.pid)
  BY <1>2, ObservationsKeepAlive DEF ProbeLost, Calm, IInv, TypeOK
<1>3. CASE ~PidAlive(s.pid)
  <2>1. Settled(s.gen)
    BY <1>1, <1>3 DEF Settled, PidAlive, PidOf, Up
  <2>2. StopGeneration(s.gen)
    BY <1>3 DEF ProbeLost
  <2> QED
    BY <1>1, <2>1, <2>2, StopGenerationEnds
<1> QED
  BY <1>2, <1>3

LEMMA FinalizeEvictionEnds ==
  ASSUME Calm, NEW a \in Tasks, FinalizeEviction(a)
  PROVE  StopsEnded
<1>1. Settled(Task(a).snap.gen) /\ Task(a).snap.gen \in 0..MaxGen
  BY DEF FinalizeEviction, Calm, OwnInv, TaskInv, Holds, IInv, TypeOK, TaskOf, Task, Row
<1> QED
  BY <1>1, StopsKeep DEF FinalizeEviction, StopsEnded, Calm, IInv, TypeOK

\* The child a locator leads to is gone once its supervisor is not up.
LEMMA BoundSettles ==
  ASSUME Calm, NEW g, Bound(locator, g)
  PROVE  locator.pty = g /\ Known(g) /\ (~Up(locator.pty) => Settled(g))
BY DEF Bound, Calm, OwnInv, LocatorInv, Settled

LEMMA ReviveEnds ==
  ASSUME Calm, Revive
  PROVE  StopsEnded \/ (Alive(row, row') /\ engine' = engine)
<1>1. CASE Bound(locator, frozen.gen) /\ ~Up(locator.pty) /\ StopGeneration(frozen.gen)
  <2>1. frozen.gen \in 0..MaxGen
    BY DEF Calm, IInv, TypeOK, Row
  <2> QED
    BY <1>1, <2>1, BoundSettles, StopGenerationEnds
<1>2. CASE ~(Bound(locator, frozen.gen) /\ ~Up(locator.pty) /\ StopGeneration(frozen.gen))
  BY <1>2, ObservationsKeepAlive, AliveSame DEF Revive, Calm, IInv, TypeOK
<1> QED
  BY <1>1, <1>2

LEMMA KillSettleEnds ==
  ASSUME Calm, KillSettle
  PROVE  StopsEnded
<1>1. Settled(op["kill"].snap.gen) /\ op["kill"].snap.gen \in 0..MaxGen
  BY PtyIsGeneration DEF KillSettle, Calm, OwnInv, CallsInv, IInv, CallInv, Ops
<1> QED
  BY <1>1, StopGenerationEnds DEF KillSettle

LEMMA RowWriters ==
  ASSUME Calm, [Next]_vars
  PROVE  /\ Alive(row, row') \/ StopsEnded \/ LaunchReserve \/ Launching
         /\ engine' = engine \/ StopsEnded \/ EngineLeaves \/ ReviveEngine \/ LaunchEngine \/ Crash
<1> DEFINE Goal == /\ Alive(row, row') \/ StopsEnded
                   /\ engine' = engine \/ StopsEnded
<1>0. row \in Row
  BY DEF Calm, IInv, TypeOK
<1>1. ASSUME NEW p \in Pty, Supervisor(p) \/ Exit(p) PROVE Goal
  BY <1>0, <1>1, TurnsKeepAlive, AliveSame, ExitActEnds DEF Supervisor, Exit, Attach, Detach,
     TurnStarts, TurnEnds, ChildExits, SupervisorCrashes, ExitCall, ExitLookup, store, run
<1>2. ASSUME NEW n \in notes, PresentationChanged(n) PROVE Goal
  BY <1>0, <1>2, ObservationsKeepAlive, AliveSame DEF PresentationChanged, run
<1>3. CASE Message \/ Inject \/ ClearDeadEndpoint \/ DeadlineElapses
  BY <1>0, <1>3, TurnsKeepAlive, ReservedKeepsAlive, AliveSame DEF Message, Inject,
     ClearDeadEndpoint, DeadlineElapses, store, run
<1>4. CASE Engine
  BY <1>4, AliveSame, EngineTeardownEnds DEF Engine, EngineLeaves, store
<1>5. ASSUME NEW a \in Tasks, Settle(a) PROVE Goal
  BY <1>0, <1>5, AliveSame, ReplayExitEnds, FinalizeEvictionEnds, ObservationsKeepAlive
     DEF Settle, Tick, Replay, Replayed, ListStopping, KillIfHeadless, EvictionChanged,
     EvictionUncontrolled, store, run
<1>6. CASE Present \/ Probe \/ ApplyProbe \/ ProbeLost \/ ListDue \/ ReserveEviction
  BY <1>0, <1>6, AliveSame, ProbeLostEnds, ObservationsKeepAlive, ReservedKeepsAlive
     DEF Present, Probe, ApplyProbe, ListDue, ReserveEviction, store, run
<1>7. CASE Revive \/ ReviveEngine
  BY <1>7, AliveSame, ReviveEnds DEF ReviveEngine, store
<1>8. CASE LaunchReserve \/ Launching
  BY <1>8 DEF LaunchReserve, Launching, LaunchSpawn, LaunchBind, LaunchRelease, run
<1>9. CASE KillStart \/ KillSettle \/ Terminate("kill") \/ TerminateClear("kill")
  BY <1>9, AliveSame, KillSettleEnds DEF KillStart, Terminate, TerminateClear, store, run
<1>10. CASE Crash \/ Start \/ UNCHANGED vars
  BY <1>10, AliveSame DEF Crash, Start, vars, store, run
<1> QED
  BY Steps, <1>1, <1>2, <1>3, <1>4, <1>5, <1>6, <1>7, <1>8, <1>9, <1>10 DEF Loop, Boot, Tasks

LEMMA LaunchWriters ==
  ASSUME Calm, [Next]_vars
  PROVE  launch' = launch \/ LaunchReserve \/ Launching \/ Crash
BY Steps DEF Supervisor, Attach, Detach, TurnStarts, TurnEnds, ChildExits, SupervisorCrashes,
  Exit, ExitCall, ExitLookup, ExitAct, PresentationChanged, Message, Inject,
  ClearDeadEndpoint, DeadlineElapses, Engine, EngineLeaves, EngineTeardown,
  Loop, Boot, Settle, Tick, Replay, ReplayExit, Replayed, Present, Probe, ApplyProbe, ProbeLost,
  ListStopping, KillIfHeadless, FinalizeEviction, EvictionChanged, EvictionUncontrolled, ListDue,
  ReserveEviction, Revive, ReviveEngine, KillStart, KillSettle, Terminate, TerminateClear, Start, vars

\* The child of p, which runs, ends.
ChildEnds == \E p \in Pty : Up(p) /\ \E why \in {"exited", "evicted", "killed"} : ChildGone(p, why)

LEMMA HostWriters ==
  ASSUME Calm, [Next]_vars
  PROVE  \/ UNCHANGED sup /\ UNCHANGED exits /\ reports' \subseteq reports
         \/ ChildEnds
         \/ (\E p \in Pty : Attach(p) \/ Detach(p) \/ TurnStarts(p) \/ TurnEnds(p)
                             \/ SupervisorCrashes(p) \/ Exit(p))
         \/ LaunchSpawn \/ Terminate("kill") \/ Crash
BY Steps DEF Supervisor, ChildExits, PresentationChanged, Message, Inject,
  ClearDeadEndpoint, DeadlineElapses, Engine, EngineLeaves, EngineTeardown,
  Loop, Boot, Settle, Tick, Replay, ReplayExit, Replayed, Present, Probe, ApplyProbe, ProbeLost,
  ListStopping, KillIfHeadless, FinalizeEviction, EvictionChanged, EvictionUncontrolled, ListDue,
  ReserveEviction, Revive, ReviveEngine, LaunchReserve, Launching, LaunchBind,
  LaunchEngine, LaunchRelease, KillStart, KillSettle, TerminateClear, Start, vars, host,
  ChildEnds, Up

----------------------------------------------------------------------------
(* What a launch does, given that the row is still of its generation *)

LEMMA Launched ==
  ASSUME Calm, launch.pc # "idle"
  PROVE  launch.gen = row.gen /\ launch.pty = row.gen /\ row.gen \in Pty
BY DEF Calm, OwnInv, OwnerInv, IInv, CallInv

LEMMA LaunchReserveDoes ==
  ASSUME Calm, LaunchReserve
  PROVE  /\ row.gen \in Nat /\ row'.gen = row.gen + 1 /\ row'.gen \in Pty
         /\ row.runtime = "stopped" /\ row'.runtime # "stopped" /\ ~row'.revoked
         /\ row'.pid = NoPid /\ row'.pres = "unavailable" /\ row'.work = "idle"
         /\ launch.pc = "idle"
         /\ launch' = [pc |-> "spawn", gen |-> row'.gen, pty |-> row'.gen]
<1>1. row.gen \in Nat /\ row.gen + 1 \in Pty
  BY MaxGenAssumption DEF Calm, IInv, TypeOK, Row, LaunchReserve, CanReserve, Pty
<1> QED
  BY <1>1 DEF LaunchReserve, CanReserve, Reserved, NoRow

LEMMA LaunchSpawnDoes ==
  ASSUME Calm, LaunchSpawn
  PROVE  /\ launch.pc = "spawn" /\ locator' = locator
         /\ \/ /\ row' = row
               /\ sup' = [sup EXCEPT ![row.gen] = [NoSup EXCEPT !.state = "up", !.meta = TRUE]]
               /\ launch' = [launch EXCEPT !.pc = "bind"]
            \/ sup' = sup /\ Kept(row, row') /\ row' = Stopped(row, row.gen) /\ launch' = IdleLaunch
         /\ reports' = reports /\ exits' = exits
<1>1. launch.pc = "spawn"
  BY DEF LaunchSpawn
<1>2. launch.pty = row.gen /\ launch.gen = row.gen
  BY <1>1, Launched
<1> QED
  BY <1>1, <1>2, StopsKeep DEF LaunchSpawn, Calm, IInv, TypeOK

LEMMA LaunchBindDoes ==
  ASSUME Calm, LaunchBind
  PROVE  /\ launch.pc = "bind"
         /\ \/ /\ row' = [row EXCEPT !.pid = PidOf(row.gen)]
               /\ locator' = [pty |-> row.gen, gen |-> row.gen]
            \/ row' = row /\ locator' = locator
         /\ \/ launch' = IdleLaunch
            \/ launch' = [launch EXCEPT !.pc = "release"]
            \/ launch' = [launch EXCEPT !.pc = "engine", !.gen = row.gen]
<1>1. launch.pc = "bind" /\ launch.pty = row.gen /\ row.gen \in Pty
  BY Launched DEF LaunchBind
<1>2. row.runtime # "stopped" /\ ~row.revoked
  BY <1>1 DEF Calm, OwnInv, OwnerInv, Unbound
<1>3. ~CanReserve(row)
  BY <1>2 DEF CanReserve
<1>4. SessionStart(row.gen, PidOf(row.gen))
  BY <1>1 DEF LaunchBind, PidOf
<1>5. CASE CanBind(row, row.gen)
  <2>1. row' = [row EXCEPT !.pid = PidOf(row.gen)] /\ locator' = [pty |-> row.gen, gen |-> row.gen]
    BY <1>3, <1>4, <1>5 DEF SessionStart
  <2>2. row'.gen = row.gen
    BY <2>1 DEF Calm, IInv, TypeOK, Row
  <2> QED
    BY <1>1, <2>1, <2>2 DEF LaunchBind
<1>6. CASE ~CanBind(row, row.gen)
  <2>1. ~RunningAt(row, row.gen)
    BY <1>2, <1>6 DEF CanBind
  <2>2. row' = row /\ locator' = locator
    BY <1>3, <1>4, <1>6, <2>1 DEF SessionStart, Stopped
  <2> QED
    BY <1>1, <2>2 DEF LaunchBind
<1> QED
  BY <1>5, <1>6

\* No engine is of a newer generation than the row's.
LEMMA LaunchEngineDoes ==
  ASSUME Calm, LaunchEngine
  PROVE  /\ launch.pc = "engine" /\ launch' = IdleLaunch /\ row' = row /\ locator' = locator
         /\ SpawnEngine(row.gen, PidOf(row.gen))
<1>1. launch.pc = "engine" /\ launch.pty = row.gen /\ launch.gen = row.gen /\ row.gen \in Pty
  BY Launched DEF LaunchEngine
<1>2. engine.gen \in Nat /\ (engine.gen > 0 => engine.gen <= row.gen)
  BY MaxGenAssumption DEF Calm, OwnInv, EngineInv, Known, IInv, TypeOK, EngineOf
<1>3. ~(engine.gen > launch.gen)
  BY <1>1, <1>2, MaxGenAssumption DEF Pty
<1> QED
  BY <1>1, <1>3 DEF LaunchEngine, PidOf

LEMMA LaunchReleaseDoes ==
  ASSUME Calm, LaunchRelease
  PROVE  /\ launch.pc = "release" /\ launch' = IdleLaunch
         /\ Kept(row, row') /\ row' = Stopped(row, row.gen) /\ locator' = locator
         /\ IF Up(row.gen) THEN ChildGone(row.gen, "killed") ELSE UNCHANGED host
<1>1. launch.pc = "release" /\ launch.pty = row.gen /\ launch.gen = row.gen /\ row.gen \in Pty
  BY Launched DEF LaunchRelease
<1> QED
  BY <1>1, StopsKeep DEF LaunchRelease, Calm, IInv, TypeOK

LEMMA RowAdvances ==
  ASSUME Calm, [Next]_vars
  PROVE  \/ row'.gen = row.gen /\ row'.revoked = row.revoked
         \/ LaunchReserve
<1>1. CASE LaunchSpawn
  BY <1>1, LaunchSpawnDoes DEF Kept
<1>2. CASE LaunchBind
  BY <1>2, LaunchBindDoes DEF Calm, IInv, TypeOK, Row
<1>3. CASE LaunchEngine
  BY <1>3, LaunchEngineDoes
<1>4. CASE LaunchRelease
  BY <1>4, LaunchReleaseDoes DEF Kept
<1> QED
  BY RowWriters, <1>1, <1>2, <1>3, <1>4 DEF Launching, Alive, Kept, StopsEnded

----------------------------------------------------------------------------
(* A child that ended does not come back *)

LEMMA ChildGoneDoes ==
  ASSUME Calm, NEW p \in Pty, NEW why, ChildGone(p, why)
  PROVE  /\ ~Up(p)'
         /\ \A q \in Pty : /\ sup'[q].epoch = sup[q].epoch /\ sup'[q].clients = sup[q].clients
                           /\ sup'[q].turn = sup[q].turn
                           /\ q # p => sup'[q] = sup[q]
         /\ sup'[p].end = why
         /\ reports' = reports \union {p}
         /\ \A q \in Pty : q # p => exits'[q] = exits[q]
         /\ exits'[p].pc = "call"
BY DEF Calm, IInv, TypeOK, ChildGone, Up, Sup, ExitOf

LEMMA SupervisorDoes ==
  ASSUME Calm, NEW p \in Pty, Attach(p) \/ Detach(p) \/ TurnStarts(p) \/ TurnEnds(p)
  PROVE  /\ Up(p) /\ Up(p)' /\ sup'[p].epoch >= sup[p].epoch
         /\ \A q \in Pty : q # p => sup'[q] = sup[q]
<1>1. CASE Attach(p) \/ Detach(p)
  BY <1>1 DEF Calm, IInv, TypeOK, Attach, Detach, Up, Sup
<1>2. CASE TurnStarts(p) \/ TurnEnds(p)
  BY <1>2 DEF Calm, IInv, TypeOK, TurnStarts, TurnEnds, Up, Sup
<1> QED
  BY <1>1, <1>2

LEMMA TerminateDoes ==
  ASSUME Calm, Terminate("kill")
  PROVE  \/ ChildEnds
         \/ /\ reports' = reports /\ exits' = exits
            /\ \A q \in Pty : /\ sup'[q].state = sup[q].state /\ sup'[q].epoch = sup[q].epoch
                              /\ sup'[q].clients = sup[q].clients /\ sup'[q].end = sup[q].end
                              /\ sup'[q].turn = sup[q].turn
<1>1. ASSUME sup' = [sup EXCEPT ![locator.pty].meta = FALSE]
      PROVE  \A q \in Pty : /\ sup'[q].state = sup[q].state /\ sup'[q].epoch = sup[q].epoch
                            /\ sup'[q].clients = sup[q].clients /\ sup'[q].end = sup[q].end
                            /\ sup'[q].turn = sup[q].turn
  BY <1>1 DEF Calm, IInv, TypeOK, Sup
<1> QED
  BY <1>1 DEF Terminate, ChildEnds, Up, host

\* Only a launch starts a child, and attachment epochs only grow.
LEMMA UpStep ==
  ASSUME Calm, [Next]_vars, NEW q \in Pty, Up(q)'
  PROVE  (Up(q) /\ sup'[q].epoch >= sup[q].epoch) \/ (LaunchSpawn /\ q = row.gen)
<1>0. sup[q].epoch \in Nat /\ sup \in [Pty -> Sup]
  BY DEF Calm, IInv, TypeOK, Sup
<1>1. CASE UNCHANGED sup
  BY <1>0, <1>1 DEF Up
<1>2. CASE ChildEnds
  <2>1. PICK p \in Pty : Up(p) /\ \E why \in {"exited", "evicted", "killed"} : ChildGone(p, why)
    BY <1>2 DEF ChildEnds
  <2> QED
    BY <1>0, <2>1, ChildGoneDoes DEF Up
<1>3. ASSUME NEW p \in Pty, Attach(p) \/ Detach(p) \/ TurnStarts(p) \/ TurnEnds(p)
      PROVE  Up(q) /\ sup'[q].epoch >= sup[q].epoch
  BY <1>0, <1>3, SupervisorDoes DEF Up
<1>4. ASSUME NEW p \in Pty, SupervisorCrashes(p) \/ Exit(p)
      PROVE  Up(q) /\ sup'[q].epoch >= sup[q].epoch
  <2>1. sup' = sup \/ \E meta \in BOOLEAN : sup' = [sup EXCEPT ![p] = Dead(meta)]
    BY <1>4 DEF SupervisorCrashes, Exit, ExitCall, ExitLookup, ExitAct, ExitCallEnds
  <2>2. \A meta \in BOOLEAN : Dead(meta).state # "up"
    BY DEF Dead, NoSup
  <2> QED
    BY <1>0, <2>1, <2>2 DEF Up
<1>5. CASE LaunchSpawn
  <2>1. launch.pc # "idle"
    BY <1>5 DEF LaunchSpawn
  <2> QED
    BY <1>0, <1>5, <2>1, LaunchSpawnDoes, Launched DEF Up
<1>6. CASE Terminate("kill")
  BY <1>0, <1>2, <1>6, TerminateDoes DEF Up
<1>7. CASE Crash
  <2>1. Dead(FALSE).state # "up"
    BY DEF Dead, NoSup
  <2>2. sup'[q] \in {sup[q], Dead(FALSE)}
    BY <1>7 DEF Crash
  <2>3. sup'[q] = sup[q]
    BY <2>1, <2>2 DEF Up
  <2> QED
    BY <1>0, <2>3 DEF Up
<1> QED
  BY HostWriters, <1>1, <1>2, <1>3, <1>4, <1>5, <1>6, <1>7

\* A launch that is under way was so before, or is of a newer generation.
LEMMA UnboundStep ==
  ASSUME Calm, [Next]_vars, NEW g \in 0..MaxGen, g <= row.gen
  PROVE  /\ g <= row'.gen
         /\ Unspawned(g)' => Unspawned(g)
         /\ Unbound(g)' => Unbound(g)
<1>0. row.gen \in Nat /\ g \in Nat
  BY MaxGenAssumption DEF Calm, IInv, TypeOK, Row
<1>5. g <= row'.gen
  BY <1>0, RowAdvances, LaunchReserveDoes
<1> SUFFICES (Unspawned(g)' => Unspawned(g)) /\ (Unbound(g)' => Unbound(g))
  BY <1>5
<1>1. CASE LaunchReserve
  BY <1>0, <1>1, LaunchReserveDoes DEF Unspawned, Unbound
<1>2. CASE launch' = launch
  BY <1>2 DEF Unspawned, Unbound
<1>3. CASE Launching
  <2>0. launch \in LaunchOf
    BY DEF Calm, IInv, TypeOK
  <2>1. CASE LaunchSpawn
    BY <2>0, <2>1, LaunchSpawnDoes DEF Unspawned, Unbound, IdleLaunch, LaunchOf
  <2>2. CASE LaunchBind
    <3>1. /\ IdleLaunch.pc = "idle" /\ [launch EXCEPT !.pc = "release"].pc = "release"
          /\ [launch EXCEPT !.pc = "engine", !.gen = row.gen].pc = "engine"
      BY <2>0 DEF IdleLaunch, LaunchOf
    <3>2. launch'.pc \in {"idle", "release", "engine"}
      BY <2>2, <3>1, LaunchBindDoes, Zenon
    <3> QED
      BY <3>2 DEF Unspawned, Unbound
  <2>3. CASE LaunchEngine \/ LaunchRelease
    BY <2>3, LaunchEngineDoes, LaunchReleaseDoes DEF Unspawned, Unbound, IdleLaunch
  <2> QED
    BY <1>3, <2>1, <2>2, <2>3 DEF Launching
<1>4. CASE Crash
  BY <1>4 DEF Crash, IdleLaunch, Unspawned, Unbound
<1> QED
  BY LaunchWriters, <1>1, <1>2, <1>3, <1>4

\* What is known of a child stays so.
LEMMA Settling ==
  ASSUME Calm, [Next]_vars, NEW g \in 0..MaxGen
  PROVE  /\ Known(g) => Known(g)'
         /\ Spawned(g) => Spawned(g)'
         /\ Settled(g) => Settled(g)'
         /\ Ended(g) => Ended(g)'
         /\ Spawned(g) /\ Up(g)' => Up(g) /\ sup'[g].epoch >= sup[g].epoch
<1>1. Known(g) => Spawned(g)
  BY DEF Known, Spawned, Unbound, Unspawned
<1>2. Spawned(g) /\ Up(g)' => Up(g) /\ sup'[g].epoch >= sup[g].epoch
  <2>1. Spawned(g) => ~(LaunchSpawn /\ g = row.gen)
    BY Launched DEF LaunchSpawn, Spawned, Unspawned
  <2> QED
    BY <2>1, UpStep DEF Up
<1> QED
  BY <1>1, <1>2, UnboundStep DEF Known, Spawned, Settled, Ended

\* A child that runs has been started, and one that its locator leads to was bound.
LEMMA UpSpawned ==
  ASSUME Calm, NEW p \in Pty, Up(p)
  PROVE  Spawned(p) /\ p = row.gen /\ p \in 0..MaxGen
<1>1. p = row.gen /\ p \in 0..MaxGen /\ p \in Nat
  BY MaxGenAssumption DEF Calm, OwnInv, OwnerInv, Pty
<1> QED
  BY <1>1 DEF Calm, OwnInv, OwnerInv, Spawned, Unspawned

LEMMA EndsChild ==
  ASSUME Calm, [Next]_vars, NEW p \in Pty, Up(p), ~Up(p)'
  PROVE  Ended(p)'
BY UpSpawned, Settling DEF Ended

LEMMA ResolvesSettles ==
  ASSUME Calm, NEW p, Resolves(row, locator, p)
  PROVE  p = row.gen /\ Known(p) /\ p \in 0..MaxGen /\ (Ended(p) => Settled(p))
<1>1. locator # NoLocator /\ row.gen \in 0..MaxGen
  BY DEF Resolves, NoLocator, Calm, IInv, TypeOK, Row
<1> QED
  BY <1>1 DEF Resolves, Calm, OwnInv, LocatorInv, Ended, Settled

----------------------------------------------------------------------------
(* The parts of the invariant *)

LEMMA OwnerStep ==
  ASSUME Calm, [Next]_vars
  PROVE  OwnerInv'
<1>0. /\ ~row.revoked
      /\ \A p \in Pty : Up(p) => row.gen = p
      /\ \A p \in Pty : Up(p) \/ Unbound(p) => row.runtime # "stopped"
      /\ launch.pc # "idle" => launch.gen = row.gen /\ launch.pty = row.gen /\ row.gen \in Pty
      /\ launch.pc = "spawn" => ~Up(row.gen)
  BY Launched DEF Calm, OwnInv, OwnerInv
<1>1. CASE LaunchReserve
  <2>1. \A p \in Pty : ~Up(p)'
    <3> SUFFICES ASSUME NEW p \in Pty, Up(p)' PROVE FALSE
      OBVIOUS
    <3>1. ~LaunchSpawn
      BY <1>1, LaunchReserveDoes DEF LaunchSpawn
    <3> QED
      BY <1>0, <1>1, <3>1, UpStep, LaunchReserveDoes
  <2> QED
    BY <1>1, <2>1, LaunchReserveDoes DEF OwnerInv, Up
<1>2. CASE LaunchSpawn
  <2>1. launch.pc = "spawn" /\ launch.pty = row.gen /\ row.gen \in Pty /\ launch \in LaunchOf
    BY <1>0, <1>2 DEF LaunchSpawn, Calm, IInv, TypeOK
  <2>2. \A p \in Pty : Up(p)' => p = row.gen
    BY <1>0, UpStep
  <2>3. row.runtime # "stopped"
    BY <1>0, <2>1 DEF Unbound
  <2>4. CASE row' = row /\ launch' = [launch EXCEPT !.pc = "bind"]
    <3>1. launch'.pc = "bind" /\ launch'.gen = launch.gen /\ launch'.pty = launch.pty
      BY <2>1, <2>4 DEF LaunchOf
    <3> QED
      BY <1>0, <2>1, <2>2, <2>3, <2>4, <3>1 DEF OwnerInv
  <2>5. CASE sup' = sup /\ Kept(row, row') /\ launch' = IdleLaunch
    <3>1. \A p \in Pty : ~Up(p)'
      BY <1>0, <2>1, <2>5 DEF Up
    <3> QED
      BY <1>0, <2>5, <3>1 DEF OwnerInv, Kept, IdleLaunch, Unbound
  <2> QED
    BY <1>2, <2>4, <2>5, LaunchSpawnDoes
<1>3. CASE LaunchBind
  <2>1. /\ row' = row \/ row' = [row EXCEPT !.pid = PidOf(row.gen)]
        /\ row \in Row /\ launch \in LaunchOf /\ row.gen \in Pty
    BY <1>0, <1>3, LaunchBindDoes DEF Calm, IInv, TypeOK, LaunchBind
  <2>2. row'.gen = row.gen /\ row'.revoked = row.revoked /\ row'.runtime = row.runtime
    BY <2>1 DEF Row
  <2>3. launch.pc = "bind" /\ launch.gen = row.gen /\ launch.pty = row.gen
    BY <1>0, <1>3, LaunchBindDoes
  <2>4. launch'.pc \in {"idle", "release", "engine"}
        /\ (launch'.pc # "idle" => launch'.gen = row.gen /\ launch'.pty = row.gen)
    <3>1. /\ IdleLaunch.pc = "idle" /\ [launch EXCEPT !.pc = "release"].pc = "release"
          /\ [launch EXCEPT !.pc = "release"].gen = launch.gen
          /\ [launch EXCEPT !.pc = "release"].pty = launch.pty
          /\ [launch EXCEPT !.pc = "engine", !.gen = row.gen].pc = "engine"
          /\ [launch EXCEPT !.pc = "engine", !.gen = row.gen].gen = row.gen
          /\ [launch EXCEPT !.pc = "engine", !.gen = row.gen].pty = launch.pty
      BY <2>1 DEF IdleLaunch, LaunchOf
    <3>2. CASE launch' = IdleLaunch
      BY <3>1, <3>2
    <3>3. CASE launch' = [launch EXCEPT !.pc = "release"]
      BY <2>3, <3>1, <3>3, Zenon
    <3>4. CASE launch' = [launch EXCEPT !.pc = "engine", !.gen = row.gen]
      BY <2>3, <3>1, <3>4, Zenon
    <3> QED
      BY <1>3, <3>2, <3>3, <3>4, LaunchBindDoes
  <2>5. \A p \in Pty : Up(p)' => Up(p)
    BY <2>3, UpStep DEF LaunchSpawn
  <2>6. row.runtime # "stopped"
    BY <1>0, <2>1, <2>3 DEF Unbound
  <2> QED
    BY <1>0, <2>2, <2>4, <2>5, <2>6 DEF OwnerInv
<1>4. CASE LaunchEngine
  <2>1. launch' = IdleLaunch /\ row' = row
    BY <1>4, LaunchEngineDoes
  <2>2. \A p \in Pty : Up(p)' => Up(p)
    BY <1>4, UpStep DEF LaunchSpawn, LaunchEngine
  <2> QED
    BY <1>0, <2>1, <2>2 DEF OwnerInv, IdleLaunch, Unbound
<1>5. CASE LaunchRelease
  <2>1. launch.pc = "release" /\ launch' = IdleLaunch /\ Kept(row, row')
    BY <1>5, LaunchReleaseDoes
  <2>2. \A p \in Pty : p = row.gen => ~Up(p)'
    BY <1>0, <1>5, <2>1, LaunchReleaseDoes, ChildGoneDoes DEF host, Up
  <2>3. \A p \in Pty : ~Up(p)'
    BY <1>0, <2>1, <2>2, UpStep DEF LaunchSpawn
  <2> QED
    BY <1>0, <2>1, <2>3 DEF OwnerInv, IdleLaunch, Unbound, Kept
<1>6. ASSUME ~LaunchReserve, ~Launching PROVE OwnerInv'
  <2>1. launch' = launch \/ launch' = IdleLaunch
    BY <1>6, LaunchWriters DEF Crash
  <2>2. \A p \in Pty : (Up(p)' => Up(p)) /\ (Unbound(p)' => Unbound(p))
    BY <1>6, <2>1, UpStep DEF Launching, Unbound, IdleLaunch
  <2>3. Kept(row, row') /\ ~row'.revoked
    BY <1>0, <1>6, RowWriters DEF Alive, StopsEnded, Kept
  <2>4. \A p \in Pty : Up(p) \/ Unbound(p) => row'.runtime # "stopped"
    <3> SUFFICES ASSUME NEW p \in Pty, Up(p) \/ Unbound(p) PROVE row'.runtime # "stopped"
      OBVIOUS
    <3>1. row.gen = p /\ row.runtime # "stopped"
      BY <1>0 DEF Unbound
    <3>2. CASE Alive(row, row')
      BY <3>1, <3>2 DEF Alive
    <3>3. CASE StopsEnded
      BY <3>1, <3>3 DEF StopsEnded, Settled, Known
    <3> QED
      BY <1>6, <3>2, <3>3, RowWriters
  <2>5. launch'.pc # "idle" => launch' = launch
    BY <2>1 DEF IdleLaunch
  <2>6. row'.gen = row.gen
    BY <2>3 DEF Kept
  <2>7. launch'.pc = "spawn" => ~(\E p \in Pty : p = row'.gen /\ Up(p)')
    BY <1>0, <2>2, <2>5, <2>6
  <2>8. Up(row.gen)' => \E p \in Pty : p = row'.gen /\ Up(p)'
    BY DEF Up
  <2>9. launch'.pc # "idle" => launch'.gen = row'.gen /\ launch'.pty = row'.gen
    BY <1>0, <2>5, <2>6
  <2>10. \A p \in Pty : Up(p)' => row'.gen = p
    BY <1>0, <2>2, <2>6
  <2>11. \A p \in Pty : Up(p)' \/ Unbound(p)' => row'.runtime # "stopped"
    BY <2>2, <2>4
  <2> QED
    BY <2>3, <2>7, <2>8, <2>9, <2>10, <2>11 DEF OwnerInv
<1> QED
  BY <1>1, <1>2, <1>3, <1>4, <1>5, <1>6 DEF Launching

LEMMA LocatorStep ==
  ASSUME Calm, [Next]_vars
  PROVE  LocatorInv'
<1>0. /\ locator # NoLocator =>
           locator.pty = locator.gen /\ Known(locator.gen) /\ locator.gen \in 0..MaxGen
      /\ PidInv(row) /\ (Bound(locator, row.gen) => row.pid = PidOf(row.gen))
      /\ row \in Row /\ row.gen \in 0..MaxGen
  BY PtyIsGeneration DEF Calm, OwnInv, LocatorInv, IInv, TypeOK, Locator, Row
<1>1. CASE LaunchBind
  <2>1. launch.pc = "bind" /\ launch.pty = row.gen /\ row.gen \in Pty /\ launch \in LaunchOf
    BY <1>1, Launched DEF LaunchBind, Calm, IInv, TypeOK
  <2>2. /\ IdleLaunch.pc = "idle" /\ [launch EXCEPT !.pc = "release"].pc = "release"
        /\ [launch EXCEPT !.pc = "engine", !.gen = row.gen].pc = "engine"
    BY <2>1 DEF IdleLaunch, LaunchOf
  <2>3. launch'.pc \notin {"spawn", "bind"}
    BY <1>1, <2>2, LaunchBindDoes, Zenon
  <2>4. CASE /\ row' = [row EXCEPT !.pid = PidOf(row.gen)]
             /\ locator' = [pty |-> row.gen, gen |-> row.gen]
    <3>1. row'.gen = row.gen /\ row'.pid = PidOf(row.gen) /\ row.gen <= row.gen
      BY <1>0, <2>4, MaxGenAssumption DEF Row
    <3> QED
      BY <2>3, <2>4, <3>1 DEF LocatorInv, PidInv, Known, Unbound, PidOf
  <2>5. CASE row' = row /\ locator' = locator
    BY <1>0, <2>5, Settling DEF LocatorInv, PidInv, PidOf
  <2> QED
    BY <1>1, <2>4, <2>5, LaunchBindDoes
<1>2. CASE ~LaunchBind
  <2>1. locator' \in {locator, NoLocator}
    BY <1>2, LocatorWriters
  <2>2. locator' # NoLocator =>
          locator' = locator /\ locator'.pty = locator'.gen /\ Known(locator.gen)'
    BY <1>0, <2>1, Settling
  <2>3. CASE LaunchReserve
    <3>1. ~Bound(locator', row'.gen)
      <4>1. locator # NoLocator => locator.gen <= row.gen
        BY <1>0 DEF Known
      <4> QED
        BY <2>1, <2>3, <4>1, LaunchReserveDoes DEF Bound
    <3> QED
      BY <2>2, <2>3, <3>1, LaunchReserveDoes DEF LocatorInv, PidInv
  <2>4. CASE ~LaunchReserve
    <3>1. Kept(row, row')
      BY <1>2, <2>4, RowWriters, LaunchSpawnDoes, LaunchEngineDoes, LaunchReleaseDoes
         DEF Launching, Alive, StopsEnded, Kept
    <3> QED
      BY <1>0, <2>1, <2>2, <3>1 DEF LocatorInv, PidInv, PidOf, Kept, Bound
  <2> QED
    BY <2>3, <2>4
<1> QED
  BY <1>1, <1>2

\* Reports and exit calls go on, come of a child that ends, or are accepted.
LEMMA ExitStep ==
  ASSUME Calm, [Next]_vars
  PROVE  ExitInv'
<1>0. /\ \A p \in reports : Ended(p)
      /\ \A p \in Pty : exits[p].pc # "idle" => Ended(p)
      /\ \A p \in Pty : exits[p].pc = "act" => Settled(exits[p].snap.gen)
      /\ reports \subseteq Pty /\ Pty \subseteq 0..MaxGen
      /\ exits \in [Pty -> ExitOf] /\ \A p \in Pty : exits[p].snap.gen \in 0..MaxGen
  BY PtyIsGeneration DEF Calm, OwnInv, ExitInv, IInv, TypeOK, ExitOf, Row
<1>1. /\ \A p \in reports : Ended(p)'
      /\ \A p \in Pty : exits[p].pc # "idle" => Ended(p)'
      /\ \A p \in Pty : exits[p].pc = "act" => \A g \in {exits[p].snap.gen} : Settled(g)'
  BY <1>0, Settling
<1>2. ASSUME /\ reports' \subseteq reports
             /\ \A p \in Pty : exits'[p].pc # "idle" => exits[p].pc # "idle"
             /\ \A p \in Pty : exits'[p].pc = "act" =>
                  \/ exits'[p] = exits[p]
                  \/ \E g \in 0..MaxGen : exits'[p].snap.gen = g /\ Settled(g)
      PROVE  ExitInv'
  <2>1. \A p \in Pty : exits'[p].pc = "act" => \E g \in 0..MaxGen : exits'[p].snap.gen = g /\ Settled(g)'
    BY <1>0, <1>1, <1>2, Settling
  <2> QED
    BY <1>1, <1>2, <2>1 DEF ExitInv, Settled, Known, Up, Unbound
<1>3. CASE ChildEnds
  <2>1. PICK p \in Pty : Up(p) /\ \E why \in {"exited", "evicted", "killed"} : ChildGone(p, why)
    BY <1>3 DEF ChildEnds
  <2>2. Ended(p)'
    BY <2>1, EndsChild, ChildGoneDoes
  <2>3. reports' = reports \union {p} /\ (\A q \in Pty : q # p => exits'[q] = exits[q]) /\ exits'[p].pc = "call"
    BY <2>1, ChildGoneDoes
  <2>4. \A q \in Pty : exits'[q].pc = "act" => exits'[q] = exits[q]
    BY <2>3
  <2> QED
    BY <1>1, <2>2, <2>3, <2>4 DEF ExitInv, Settled, Known, Up, Unbound
<1>4. CASE UNCHANGED exits /\ reports' \subseteq reports
  BY <1>2, <1>4
<1>5. ASSUME NEW p \in Pty, Exit(p) PROVE ExitInv'
  <2>1. IdleOp.pc = "idle"
    BY DEF IdleOp
  <2>2. CASE \E accepted \in BOOLEAN : ExitCallEnds(p, accepted)
    <3>1. reports' \subseteq reports /\ exits' = [exits EXCEPT ![p] = IdleOp]
      BY <2>2 DEF ExitCallEnds
    <3> QED
      BY <1>0, <1>2, <2>1, <3>1
  <2>3. CASE ExitCall(p) /\ exits' = [exits EXCEPT ![p].pc = "handle"] /\ reports' = reports
    <3>1. exits[p].pc # "idle" /\ exits'[p].pc = "handle" /\ \A q \in Pty : q # p => exits'[q] = exits[q]
      BY <1>0, <2>3 DEF ExitCall, ExitOf
    <3> QED
      BY <1>2, <2>3, <3>1
  <2>4. CASE ExitLookup(p) /\ Resolves(row, locator, p)
    <3>1. exits[p].pc # "idle" /\ exits' = [exits EXCEPT ![p] = [pc |-> "act", snap |-> row]] /\ reports' = reports
      BY <2>4 DEF ExitLookup
    <3>2. Settled(row.gen) /\ row.gen \in 0..MaxGen
      BY <1>0, <2>4, <3>1, ResolvesSettles
    <3>3. exits'[p].snap.gen = row.gen /\ \A q \in Pty : q # p => exits'[q] = exits[q]
      BY <1>0, <3>1
    <3> QED
      BY <1>2, <3>1, <3>2, <3>3
  <2> QED
    BY <1>5, <2>2, <2>3, <2>4 DEF Exit, ExitCall, ExitLookup, ExitAct
<1>6. CASE Crash
  <2>1. IdleOp.pc = "idle"
    BY DEF IdleOp
  <2>2. reports' = reports /\ \A p \in Pty : exits'[p] \in {exits[p], IdleOp}
    BY <1>6 DEF Crash
  <2> QED
    BY <1>2, <2>1, <2>2
<1>7. CASE \E p \in Pty : Attach(p) \/ Detach(p) \/ TurnStarts(p) \/ TurnEnds(p) \/ SupervisorCrashes(p)
  BY <1>4, <1>7 DEF Attach, Detach, TurnStarts, TurnEnds, SupervisorCrashes
<1> QED
  BY HostWriters, <1>3, <1>4, <1>5, <1>6, <1>7, LaunchSpawnDoes, TerminateDoes

LEMMA EngineStep ==
  ASSUME Calm, [Next]_vars
  PROVE  EngineInv'
<1>0. /\ engine.gen > 0 => Known(engine.gen) /\ engine.pid \in {NoPid, PidOf(engine.gen)}
      /\ engine.gen > 0 /\ engine.cancelled => Settled(engine.gen)
      /\ \A g \in ending : Settled(g)
      /\ engine \in EngineOf /\ engine.gen \in 0..MaxGen /\ ending \subseteq Pty
      /\ Pty \subseteq 0..MaxGen
  BY PtyIsGeneration DEF Calm, OwnInv, EngineInv, IInv, TypeOK, EngineOf
<1>1. ASSUME \/ engine'.gen = 0
             \/ \E g \in 0..MaxGen :
                  /\ engine'.gen = g /\ Known(g)' /\ engine'.pid \in {NoPid, PidOf(g)}
                  /\ engine'.cancelled => Settled(g)'
      PROVE  /\ engine'.gen > 0 => Known(engine.gen)' /\ engine'.pid \in {NoPid, PidOf(engine'.gen)}
             /\ engine'.gen > 0 /\ engine'.cancelled => Settled(engine.gen)'
  BY <1>1 DEF Known, Settled, Unbound, Up
<1>2. \/ engine'.gen = 0
      \/ \E g \in 0..MaxGen :
           /\ engine'.gen = g /\ Known(g)' /\ engine'.pid \in {NoPid, PidOf(g)}
           /\ engine'.cancelled => Settled(g)'
  <2>1. CASE engine' = engine
    BY <1>0, <2>1, Settling DEF EngineOf
  <2>2. CASE StopsEnded
    <3>1. PICK g \in 0..MaxGen : Settled(g) /\ engine' \in {engine, Cancel(engine, g)}
      BY <2>2 DEF StopsEnded
    <3>2. /\ engine'.gen = engine.gen /\ engine'.pid = engine.pid
          /\ engine'.cancelled = engine.cancelled \/ g = engine.gen
      BY <1>0, <3>1 DEF Cancel, EngineOf
    <3> QED
      BY <1>0, <3>1, <3>2, Settling DEF EngineOf
  <2>3. CASE EngineLeaves \/ Crash
    <3>1. engine' = NoEngine
      BY <2>3 DEF EngineLeaves, Crash
    <3>2. engine'.gen = 0
      BY <3>1 DEF NoEngine
    <3> QED
      BY <3>2
  <2>4. CASE ReviveEngine
    <3>1. Known(frozen.gen) /\ PidInv(frozen) /\ frozen.gen \in 0..MaxGen
      BY <2>4 DEF ReviveEngine, Task, Calm, OwnInv, TaskInv, IInv, TypeOK, Row
    <3>2. engine' = engine \/ engine' = [gen |-> frozen.gen, pid |-> frozen.pid, cancelled |-> FALSE]
      BY <2>4 DEF ReviveEngine, SpawnEngine
    <3> QED
      BY <2>1, <3>1, <3>2, Settling DEF PidInv
  <2>5. CASE LaunchEngine
    <3>1. launch.pc = "engine" /\ row.gen \in Pty /\ SpawnEngine(row.gen, PidOf(row.gen))
      BY <2>5, LaunchEngineDoes, Launched
    <3>2. Known(row.gen) /\ row.gen \in 0..MaxGen
      BY <1>0, <3>1, MaxGenAssumption DEF Known, Unbound, Pty
    <3>3. engine' = engine \/ engine' = [gen |-> row.gen, pid |-> PidOf(row.gen), cancelled |-> FALSE]
      BY <3>1 DEF SpawnEngine
    <3> QED
      BY <2>1, <3>2, <3>3, Settling
  <2> QED
    BY RowWriters, <2>1, <2>2, <2>3, <2>4, <2>5
<1>3. \A g \in ending' : Settled(g)'
  <2>1. CASE ending' \subseteq ending
    BY <1>0, <2>1, Settling
  <2>2. CASE EngineLeaves
    <3>1. Settled(engine.gen)
      BY <1>0, <2>2 DEF EngineLeaves, PidAlive, PidOf, Up, Settled
    <3>2. ending' = ending \union {engine.gen}
      BY <2>2 DEF EngineLeaves
    <3> QED
      BY <1>0, <3>1, <3>2, Settling
  <2>3. ending' \subseteq ending \/ EngineLeaves
    BY Steps DEF Supervisor, Attach, Detach, TurnStarts, TurnEnds, ChildExits, SupervisorCrashes,
      Exit, ExitCall, ExitLookup, ExitAct, PresentationChanged, Message, Inject,
      ClearDeadEndpoint, DeadlineElapses, Engine, EngineTeardown, Loop, Boot, Settle, Tick,
      Replay, ReplayExit, Replayed, Present, Probe, ApplyProbe, ProbeLost, ListStopping,
      KillIfHeadless, FinalizeEviction, EvictionChanged, EvictionUncontrolled, ListDue,
      ReserveEviction, Revive, ReviveEngine, LaunchReserve, Launching, LaunchSpawn, LaunchBind,
      LaunchEngine, LaunchRelease, KillStart, KillSettle, Terminate, TerminateClear, Crash,
      Start, vars, run
  <2> QED
    BY <2>1, <2>2, <2>3
<1> QED
  BY <1>1, <1>2, <1>3 DEF EngineInv

----------------------------------------------------------------------------
(* What the tasks hold *)

\* Task a notes what the supervisor of its session, which is up, says of its clients.
Asked(a) ==
  \E p \in Pty : /\ Up(p) /\ p = task'[a].snap.gen
                 /\ task'[a].epoch = sup[p].epoch /\ task'[a].clients = sup[p].clients

\* The step of task a, if any, leaves it with what Holds says.
Moves(a) ==
  /\ task'[a].todo \subseteq task[a].todo \union reports
  /\ task'[a].then \in {"start", "due", "revive"}
  /\ task'[a].pc \in {"replaying", "finalize"} =>
       \E g \in 0..MaxGen : task'[a].snap.gen = g /\ Settled(g)'
  /\ task'[a].pc \in {"probe", "lost", "apply"} =>
       \E g \in 0..MaxGen : /\ task'[a].snap.gen = g /\ Known(g)
                            /\ task'[a].pty = g /\ task'[a].snap.pid = PidOf(g)
  /\ task'[a].pc = "spawn" => task[a].pc = "spawn" \/ Revive
  /\ task'[a].pc \in {"apply", "changed"} => task'[a] = task[a] \/ Asked(a)

LEMMA Held ==
  ASSUME Calm, NEW a \in Tasks
  PROVE  /\ Holds(task[a]) /\ task[a] \in TaskOf /\ task \in [Tasks -> TaskOf]
         /\ task[a].snap \in Row /\ task[a].snap.gen \in 0..MaxGen /\ task[a].todo \subseteq Pty
BY DEF Calm, OwnInv, TaskInv, IInv, TypeOK, TaskOf, Row

LEMMA MovesHolds ==
  ASSUME Calm, [Next]_vars, NEW a \in Tasks, Moves(a)
  PROVE  Holds(task[a])'
<1>1. \A p \in task[a].todo \union reports : Ended(p)'
  BY Held, Settling, PtyIsGeneration DEF Holds, Calm, OwnInv, ExitInv, IInv, TypeOK
<1>2. task'[a].pc \in {"probe", "lost", "apply"} =>
        \E g \in 0..MaxGen : /\ task'[a].snap.gen = g /\ Known(g)'
                             /\ task'[a].pty = g /\ task'[a].snap.pid = PidOf(g)
  BY Settling DEF Moves
<1> QED
  BY <1>1, <1>2 DEF Moves, Holds, Settled, Known, Unbound, Up, PidOf

LEMMA StaysMoves ==
  ASSUME Calm, [Next]_vars, NEW a \in Tasks, task'[a] = task[a]
  PROVE  Moves(a)
BY Held, Settling DEF Moves, Holds

\* A task that goes on with nothing, or with its session at a step that needs nothing.
LEMMA PlainMoves ==
  ASSUME Calm, [Next]_vars, NEW a \in Tasks,
         task'[a].pc \notin {"replaying", "finalize", "probe", "lost", "apply"},
         task'[a].pc = "spawn" => Revive,
         task'[a].pc = "changed" => Asked(a),
         task'[a].todo \subseteq task[a].todo \union reports,
         task'[a].then \in {"start", "due", "revive"}
  PROVE  Moves(a)
BY DEF Moves

LEMMA EnterMoves ==
  ASSUME Calm, [Next]_vars, NEW a \in Tasks,
         NEW pc \in {"start", "present", "stopping", "due", "revive", "done"}, Enter(a, pc)
  PROVE  \A b \in Tasks : Moves(b)
<1>1. task \in [Tasks -> TaskOf] /\ IdleTask.todo = {} /\ IdleTask.then = "start" /\ IdleTask \in TaskOf
  BY Held, Constants DEF IdleTask
<1>2. task'[a] = [IdleTask EXCEPT !.pc = pc] /\ \A b \in Tasks \ {a} : task'[b] = task[b]
  BY <1>1 DEF Enter
<1>3. task'[a].pc = pc /\ task'[a].todo = {} /\ task'[a].then = "start"
  BY <1>1, <1>2 DEF TaskOf
<1> QED
  BY <1>2, <1>3, StaysMoves, PlainMoves

LEMMA GotoMoves ==
  ASSUME Calm, [Next]_vars, NEW a \in Tasks, NEW pc \in Pcs, Goto(a, pc),
         pc \notin {"replaying", "finalize", "probe", "lost", "apply"},
         pc = "spawn" => Revive, pc # "changed"
  PROVE  \A b \in Tasks : Moves(b)
<1>1. task \in [Tasks -> TaskOf] /\ task[a].then \in {"start", "due", "revive"}
  BY Held DEF Holds
<1>2. task'[a].pc = pc /\ task'[a].todo = task[a].todo /\ task'[a].then = task[a].then
      /\ \A b \in Tasks \ {a} : task'[b] = task[b]
  BY <1>1 DEF Goto, TaskOf
<1> QED
  BY <1>1, <1>2, StaysMoves, PlainMoves

LEMMA TickMoves ==
  ASSUME Calm, [Next]_vars, NEW a \in Tasks, Tick(a)
  PROVE  \A b \in Tasks : Moves(b)
<1> DEFINE t == [IdleTask EXCEPT !.pc = "replay", !.todo = reports]
<1>1. task \in [Tasks -> TaskOf] /\ IdleTask \in TaskOf /\ IdleTask.then = "start"
  BY Held, Constants DEF IdleTask
<1>2. t.pc = "replay" /\ t.todo = reports /\ t.then = "start"
  BY <1>1 DEF TaskOf
<1>3. task'[a] = t /\ \A b \in Tasks \ {a} : task'[b] = task[b]
  BY <1>1, Zenon DEF Tick
<1>4. task'[a].pc = "replay" /\ task'[a].todo = reports /\ task'[a].then = "start"
  BY <1>2, <1>3
<1> QED
  BY <1>3, <1>4, StaysMoves, PlainMoves

LEMMA ReplayMoves ==
  ASSUME Calm, [Next]_vars, NEW a \in Tasks, NEW p \in Task(a).todo, Replay(a, p)
  PROVE  \A b \in Tasks : Moves(b)
<1>1. task \in [Tasks -> TaskOf] /\ task[a].then \in {"start", "due", "revive"} /\ Ended(p) /\ p \in Pty
      /\ task[a].pc = "replay"
  BY Held DEF Holds, Task, Replay
<1>2. CASE Resolves(row, locator, p)
  <2>1. Settled(row.gen) /\ row.gen \in 0..MaxGen
    BY <1>1, <1>2, ResolvesSettles
  <2>2. task'[a].pc = "replaying" /\ task'[a].snap = row /\ task'[a].todo = task[a].todo
        /\ task'[a].then = task[a].then /\ \A b \in Tasks \ {a} : task'[b] = task[b]
    BY <1>1, <1>2 DEF Replay, TaskOf
  <2>3. Moves(a)
    BY <1>1, <2>1, <2>2, Settling DEF Moves
  <2> QED
    BY <2>2, <2>3, StaysMoves
<1>3. CASE ~Resolves(row, locator, p)
  <2>1. task'[a].pc = "replay" /\ task'[a].todo \subseteq task[a].todo
        /\ task'[a].then = task[a].then /\ \A b \in Tasks \ {a} : task'[b] = task[b]
    BY <1>1, <1>3 DEF Replay, TaskOf
  <2> QED
    BY <1>1, <2>1, StaysMoves, PlainMoves
<1> QED
  BY <1>2, <1>3

LEMMA ReplayExitMoves ==
  ASSUME Calm, [Next]_vars, NEW a \in Tasks, ReplayExit(a)
  PROVE  \A b \in Tasks : Moves(b)
<1> DEFINE t == [IdleTask EXCEPT !.pc = "replay", !.todo = Task(a).todo \ {Task(a).pty}]
<1>1. task \in [Tasks -> TaskOf] /\ IdleTask \in TaskOf /\ IdleTask.then = "start"
  BY Held, Constants DEF IdleTask
<1>2. t.pc = "replay" /\ t.todo \subseteq task[a].todo /\ t.then = "start"
  BY <1>1 DEF TaskOf, Task
<1>3. task'[a] = t /\ \A b \in Tasks \ {a} : task'[b] = task[b]
  BY <1>1, Zenon DEF ReplayExit
<1>4. task'[a].pc = "replay" /\ task'[a].todo \subseteq task[a].todo /\ task'[a].then = "start"
  BY <1>2, <1>3
<1> QED
  BY <1>3, <1>4, StaysMoves, PlainMoves

LEMMA PresentMoves ==
  ASSUME Calm, [Next]_vars, Present
  PROVE  \A b \in Tasks : Moves(b)
<1>1. task \in [Tasks -> TaskOf] /\ "loop" \in Tasks /\ task["loop"].then \in {"start", "due", "revive"}
  BY Held DEF Holds, Tasks
<1>2. CASE Running(row) /\ Bound(locator, row.gen)
  <2>1. locator.pty = row.gen /\ Known(row.gen) /\ row.gen \in 0..MaxGen /\ row.pid = PidOf(row.gen)
    BY <1>2, BoundSettles DEF Calm, OwnInv, LocatorInv, IInv, TypeOK, Row
  <2>2. /\ task'["loop"].pc = "probe" /\ task'["loop"].snap = row /\ task'["loop"].pty = locator.pty
        /\ task'["loop"].todo = task["loop"].todo /\ task'["loop"].then = task["loop"].then
        /\ \A b \in Tasks \ {"loop"} : task'[b] = task[b]
    BY <1>1, <1>2 DEF Present, TaskOf
  <2>3. Moves("loop")
    BY <1>1, <2>1, <2>2 DEF Moves
  <2> QED
    BY <2>2, <2>3, StaysMoves
<1>3. CASE ~(Running(row) /\ Bound(locator, row.gen))
  <2>1. /\ task'["loop"].pc = "stopping"
        /\ task'["loop"].todo = task["loop"].todo /\ task'["loop"].then = task["loop"].then
        /\ \A b \in Tasks \ {"loop"} : task'[b] = task[b]
    BY <1>1, <1>3 DEF Present, TaskOf
  <2> QED
    BY <1>1, <2>1, StaysMoves, PlainMoves
<1> QED
  BY <1>2, <1>3

\* A supervisor's answer, noted by a task.
LEMMA AnswerDoes ==
  ASSUME Calm, NEW a \in Tasks, NEW pc, NEW epoch, NEW clients,
         task' = [task EXCEPT ![a].pc = pc, ![a].epoch = epoch, ![a].clients = clients]
  PROVE  /\ task'[a].pc = pc /\ task'[a].epoch = epoch /\ task'[a].clients = clients
         /\ task'[a].snap = task[a].snap /\ task'[a].pty = task[a].pty
         /\ task'[a].todo = task[a].todo /\ task'[a].then = task[a].then
         /\ \A b \in Tasks \ {a} : task'[b] = task[b]
<1>1. task \in [Tasks -> TaskOf]
  BY Held
<1> QED
  BY <1>1 DEF TaskOf

LEMMA GotoDoes ==
  ASSUME Calm, NEW a \in Tasks, NEW pc, Goto(a, pc)
  PROVE  /\ task'[a].pc = pc /\ task'[a].epoch = task[a].epoch /\ task'[a].clients = task[a].clients
         /\ task'[a].snap = task[a].snap /\ task'[a].pty = task[a].pty
         /\ task'[a].todo = task[a].todo /\ task'[a].then = task[a].then
         /\ \A b \in Tasks \ {a} : task'[b] = task[b]
<1>1. task \in [Tasks -> TaskOf]
  BY Held
<1> QED
  BY <1>1 DEF TaskOf, Goto

LEMMA ProbeMoves ==
  ASSUME Calm, [Next]_vars, Probe
  PROVE  \A b \in Tasks : Moves(b)
<1>1. "loop" \in Tasks /\ task["loop"].pc = "probe" /\ Holds(task["loop"]) /\ task["loop"].snap.gen \in 0..MaxGen
  BY Held DEF Probe, Task, Tasks
<1>2. /\ task'["loop"].pc \in {"apply", "lost"}
      /\ task'["loop"].snap = task["loop"].snap /\ task'["loop"].pty = task["loop"].pty
      /\ task'["loop"].todo = task["loop"].todo /\ task'["loop"].then = task["loop"].then
      /\ \A b \in Tasks \ {"loop"} : task'[b] = task[b]
      /\ task'["loop"].pc = "apply" => Asked("loop")
  <2>1. CASE Goto("loop", "lost")
    BY <1>1, <2>1, GotoDoes
  <2>2. CASE ~Goto("loop", "lost")
    <3> DEFINE p == Task("loop").pty
    <3>1. task' = [task EXCEPT !["loop"].pc = "apply", !["loop"].epoch = sup[p].epoch,
                              !["loop"].clients = sup[p].clients]
      BY <2>2, Zenon DEF Probe
    <3>2. Up(p) /\ p \in Pty /\ p = task["loop"].snap.gen
      BY <1>1, <2>2 DEF Probe, Up, Task, Holds
    <3>3. /\ task'["loop"].pc = "apply"
          /\ task'["loop"].epoch = sup[p].epoch /\ task'["loop"].clients = sup[p].clients
          /\ task'["loop"].snap = task["loop"].snap /\ task'["loop"].pty = task["loop"].pty
          /\ task'["loop"].todo = task["loop"].todo /\ task'["loop"].then = task["loop"].then
          /\ \A b \in Tasks \ {"loop"} : task'[b] = task[b]
      <4>1. PICK e, c : e = sup[p].epoch /\ c = sup[p].clients
        OBVIOUS
      <4>2. task' = [task EXCEPT !["loop"].pc = "apply", !["loop"].epoch = e, !["loop"].clients = c]
        BY <3>1, <4>1, Zenon
      <4> HIDE DEF p
      <4>3. task \in [Tasks -> TaskOf]
        BY <1>1, Held
      <4> QED  BY <1>1, <4>1, <4>2, <4>3 DEF TaskOf
    <3>4. Asked("loop")
      BY <3>2, <3>3 DEF Asked
    <3> QED
      BY <3>3, <3>4
  <2> QED
    BY <2>1, <2>2
<1>3. Moves("loop")
  BY <1>1, <1>2 DEF Moves, Holds
<1> QED
  BY <1>2, <1>3, StaysMoves

LEMMA ListStoppingMoves ==
  ASSUME Calm, [Next]_vars, NEW a \in Tasks, ListStopping(a)
  PROVE  \A b \in Tasks : Moves(b)
<1>1. task \in [Tasks -> TaskOf] /\ task[a].then \in {"start", "due", "revive"}
  BY Held DEF Holds
<1>2. CASE row.runtime = "stopping"
  <2>1. /\ task'[a].pc = "kill" /\ task'[a].todo = task[a].todo /\ task'[a].then \in {"due", "revive"}
        /\ \A b \in Tasks \ {a} : task'[b] = task[b]
    BY <1>1, <1>2 DEF ListStopping, TaskOf
  <2> QED
    BY <2>1, StaysMoves, PlainMoves
<1>3. CASE row.runtime # "stopping"
  <2>1. /\ task'[a].pc \in {"due", "revive"} /\ task'[a].todo = task[a].todo /\ task'[a].then = task[a].then
        /\ \A b \in Tasks \ {a} : task'[b] = task[b]
    BY <1>1, <1>3 DEF ListStopping, TaskOf
  <2> QED
    BY <1>1, <2>1, StaysMoves, PlainMoves
<1> QED
  BY <1>2, <1>3

\* A task that has killed the child its locator leads to has settled its session.
LEMMA KillIfHeadlessMoves ==
  ASSUME Calm, [Next]_vars, NEW a \in Tasks, KillIfHeadless(a)
  PROVE  \A b \in Tasks : Moves(b)
<1>1. task[a].then \in {"start", "due", "revive"} /\ task[a].snap.gen \in 0..MaxGen
  BY Held DEF Holds
<1>2. CASE Goto(a, "uncontrolled")
  BY <1>2, GotoMoves DEF Pcs
<1>3. CASE Goto(a, "finalize")
  <2>1. Bound(locator, task[a].snap.gen) /\ Up(locator.pty) /\ ChildGone(locator.pty, "evicted")
    <3>1. ~Goto(a, "uncontrolled")
      BY <1>3, GotoDoes
    <3>2. ASSUME NEW e, NEW c, task' = [task EXCEPT ![a].pc = "changed", ![a].epoch = e, ![a].clients = c]
          PROVE  FALSE
      <4>1. task'[a].pc = "changed"
        BY <3>2, AnswerDoes
      <4> QED
        BY <1>3, <4>1, GotoDoes
    <3> QED
      BY <3>1, <3>2, Zenon DEF KillIfHeadless, Task
  <2>2. locator.pty = task[a].snap.gen /\ Known(task[a].snap.gen) /\ locator.pty \in Pty
    BY <2>1, BoundSettles DEF Up
  <2>3. \A p \in Pty : p = locator.pty => ~Up(p)'
    BY <2>1, ChildGoneDoes
  <2>4. \A g \in 0..MaxGen : g = task[a].snap.gen => Settled(g)'
    BY <2>2, <2>3, Settling DEF Settled
  <2>5. Moves(a)
    BY <1>1, <1>3, <2>4, GotoDoes DEF Moves
  <2> QED
    BY <1>3, <2>5, GotoDoes, StaysMoves
<1>4. CASE ~Goto(a, "uncontrolled") /\ ~Goto(a, "finalize")
  <2> DEFINE p == locator.pty
  <2>1. task' = [task EXCEPT ![a].pc = "changed", ![a].epoch = sup[p].epoch,
                            ![a].clients = sup[p].clients]
    BY <1>4, Zenon DEF KillIfHeadless
  <2>2. /\ task'[a].pc = "changed" /\ task'[a].todo = task[a].todo /\ task'[a].then = task[a].then
        /\ \A b \in Tasks \ {a} : task'[b] = task[b]
    BY <2>1, AnswerDoes
  <2>3. Bound(locator, task[a].snap.gen) /\ Up(p)
    BY <1>4 DEF KillIfHeadless, Task
  <2>4. p \in Pty /\ p = task[a].snap.gen
    BY <2>3, BoundSettles DEF Up
  <2>5. /\ task'[a].epoch = sup[p].epoch /\ task'[a].clients = sup[p].clients
        /\ task'[a].snap = task[a].snap
    <3>1. PICK e, c : e = sup[p].epoch /\ c = sup[p].clients
      OBVIOUS
    <3>2. task' = [task EXCEPT ![a].pc = "changed", ![a].epoch = e, ![a].clients = c]
      BY <2>1, <3>1, Zenon
    <3> HIDE DEF p
    <3>3. task \in [Tasks -> TaskOf]
      BY Held
    <3> QED  BY <3>1, <3>2, <3>3 DEF TaskOf
  <2>6. Asked(a)
    BY <2>3, <2>4, <2>5 DEF Asked
  <2> QED
    BY <1>1, <2>2, <2>6, StaysMoves, PlainMoves
<1> QED
  BY <1>2, <1>3, <1>4

LEMMA SettleMoves ==
  ASSUME Calm, [Next]_vars, NEW a \in Tasks, Settle(a)
  PROVE  \A b \in Tasks : Moves(b)
<1>1. CASE FinalizeEviction(a) \/ EvictionChanged(a) \/ EvictionUncontrolled(a)
  <2>1. Enter(a, task[a].then) /\ task[a].then \in {"start", "due", "revive"}
    BY <1>1, Held DEF FinalizeEviction, EvictionChanged, EvictionUncontrolled, Leave, Task, Holds
  <2> QED
    BY <2>1, EnterMoves
<1>2. CASE Replayed(a)
  BY <1>2, EnterMoves DEF Replayed
<1> QED
  BY <1>1, <1>2, TickMoves, ReplayMoves, ReplayExitMoves, ListStoppingMoves, KillIfHeadlessMoves
     DEF Settle

LEMMA DueMoves ==
  ASSUME Calm, [Next]_vars, ListDue \/ ReserveEviction
  PROVE  \A b \in Tasks : Moves(b)
<1>1. /\ task \in [Tasks -> TaskOf] /\ "loop" \in Tasks
      /\ task["loop"].then \in {"start", "due", "revive"}
      /\ IdleTask.pc = "start" /\ IdleTask.todo = {} /\ IdleTask.then = "start"
  BY Held DEF Holds, Tasks, IdleTask
<1>2. CASE task' = [task EXCEPT !["loop"] = IdleTask]
  <2>1. task'["loop"] = IdleTask /\ \A b \in Tasks \ {"loop"} : task'[b] = task[b]
    BY <1>1, <1>2
  <2> QED
    BY <1>1, <2>1, StaysMoves, PlainMoves
<1>3. CASE ListDue /\ ~(task' = [task EXCEPT !["loop"] = IdleTask])
  <2>1. /\ task'["loop"].pc = "reserve" /\ task'["loop"].todo = task["loop"].todo
        /\ task'["loop"].then = task["loop"].then
        /\ \A b \in Tasks \ {"loop"} : task'[b] = task[b]
    BY <1>1, <1>3 DEF ListDue, TaskOf
  <2> QED
    BY <1>1, <2>1, StaysMoves, PlainMoves
<1>4. CASE ReserveEviction /\ ~(task' = [task EXCEPT !["loop"] = IdleTask])
  <2>1. /\ task'["loop"].pc = "kill" /\ task'["loop"].todo = task["loop"].todo
        /\ task'["loop"].then = "start"
        /\ \A b \in Tasks \ {"loop"} : task'[b] = task[b]
    BY <1>1, <1>4 DEF ReserveEviction, TaskOf
  <2> QED
    BY <1>1, <2>1, StaysMoves, PlainMoves
<1> QED
  BY <1>2, <1>3, <1>4

LEMMA TasksMove ==
  ASSUME Calm, [Next]_vars
  PROVE  \A b \in Tasks : Moves(b)
<1>0. "loop" \in Tasks /\ "boot" \in Tasks
  BY DEF Tasks
<1>1. CASE \E a \in Tasks : Settle(a)
  BY <1>1, SettleMoves
<1>2. CASE Present \/ Probe \/ ListDue \/ ReserveEviction
  BY <1>2, PresentMoves, ProbeMoves, DueMoves
<1>3. CASE ApplyProbe \/ ProbeLost
  BY <1>0, <1>3, EnterMoves DEF ApplyProbe, ProbeLost
<1>4. CASE Revive \/ ReviveEngine
  BY <1>0, <1>4, GotoMoves DEF Revive, ReviveEngine, Pcs
<1>5. CASE Crash \/ Start
  <2>1. \A a \in Tasks : task'[a] \in {IdleTask, [IdleTask EXCEPT !.pc = "done"]}
    BY <1>5 DEF Crash, Start
  <2>2. \A t \in {IdleTask, [IdleTask EXCEPT !.pc = "done"]} :
          t.pc \in {"start", "done"} /\ t.todo = {} /\ t.then = "start"
    BY DEF IdleTask
  <2>3. \A a \in Tasks : task'[a].pc \in {"start", "done"} /\ task'[a].todo = {} /\ task'[a].then = "start"
    BY <2>1, <2>2
  <2> QED
    BY <2>3, PlainMoves
<1>6. CASE UNCHANGED task
  BY <1>6, StaysMoves
<1>7. \/ \E a \in Tasks : Settle(a)
      \/ Present \/ Probe \/ ListDue \/ ReserveEviction \/ ApplyProbe \/ ProbeLost
      \/ Revive \/ ReviveEngine \/ Crash \/ Start \/ UNCHANGED task
  BY <1>0, Steps DEF Supervisor, Attach, Detach, TurnStarts, TurnEnds, ChildExits,
     SupervisorCrashes, Exit, ExitCall, ExitLookup, ExitAct, PresentationChanged, Message,
     Inject, ClearDeadEndpoint, DeadlineElapses, Engine, EngineLeaves, EngineTeardown,
     Loop, Boot, LaunchReserve, Launching, LaunchSpawn, LaunchBind, LaunchEngine,
     LaunchRelease, KillStart, KillSettle, Terminate, TerminateClear, vars
<1> QED
  BY <1>1, <1>2, <1>3, <1>4, <1>5, <1>6, <1>7

LEMMA TaskStep ==
  ASSUME Calm, [Next]_vars
  PROVE  TaskInv'
<1>0. "boot" \in Tasks /\ frozen.gen \in 0..MaxGen
  BY DEF Tasks, Calm, IInv, TypeOK, Row
<1>1. \A a \in Tasks : Holds(task[a])'
  BY TasksMove, MovesHolds
<1>2. frozen' = frozen \/ ((Crash \/ Start) /\ frozen' \in {NoRow, row})
  BY Steps DEF Supervisor, Attach, Detach, TurnStarts, TurnEnds, ChildExits,
     SupervisorCrashes, Exit, ExitCall, ExitLookup, ExitAct, PresentationChanged, Message,
     Inject, ClearDeadEndpoint, DeadlineElapses, Engine, EngineLeaves, EngineTeardown,
     Loop, Boot, Settle, Tick, Replay, ReplayExit, Replayed, Present, Probe, ApplyProbe,
     ProbeLost, ListStopping, KillIfHeadless, FinalizeEviction, EvictionChanged,
     EvictionUncontrolled, ListDue, ReserveEviction, Revive, ReviveEngine, LaunchReserve,
     Launching, LaunchSpawn, LaunchBind, LaunchEngine, LaunchRelease, KillStart, KillSettle,
     Terminate, TerminateClear, Crash, Start, vars
<1>3. PidInv(frozen)'
  BY <1>2 DEF Calm, OwnInv, LocatorInv, TaskInv, PidInv, PidOf, NoRow
<1>4. task'["boot"].pc = "spawn" => Known(frozen.gen)'
  <2> SUFFICES ASSUME task'["boot"].pc = "spawn" PROVE Known(frozen.gen)'
    OBVIOUS
  <2>1. ~Crash /\ ~Start
    <3>1. [IdleTask EXCEPT !.pc = "done"].pc # "spawn" /\ IdleTask.pc # "spawn"
      BY DEF IdleTask
    <3> QED
      BY <1>0, <3>1 DEF Crash, Start
  <2>2. task["boot"].pc = "spawn" \/ Revive
    BY <1>0, TasksMove DEF Moves
  <2>3. Known(frozen.gen)
    <3>1. CASE task["boot"].pc = "spawn"
      BY <3>1 DEF Calm, OwnInv, TaskInv
    <3>2. CASE Revive
      <4>1. CASE Bound(locator, frozen.gen)
        BY <4>1, BoundSettles
      <4>2. CASE ~Bound(locator, frozen.gen)
        <5>1. Goto("boot", "done")
          BY <3>2, <4>2 DEF Revive
        <5> QED
          BY <1>0, <5>1, GotoDoes
      <4> QED
        BY <4>1, <4>2
    <3> QED
      BY <2>2, <3>1, <3>2
  <2>4. frozen' = frozen
    BY <1>2, <2>1
  <2>5. \A g \in 0..MaxGen : g = frozen.gen => Known(g)'
    BY <2>3, Settling
  <2> QED
    BY <1>0, <2>4, <2>5 DEF Known, Unbound
<1> QED
  BY <1>1, <1>3, <1>4 DEF TaskInv

----------------------------------------------------------------------------
(* What a kill has seen *)

LEMMA KillWriters ==
  ASSUME Calm, [Next]_vars
  PROVE  \/ op' = op /\ acked' = acked
         \/ KillStart \/ KillSettle \/ Terminate("kill") \/ TerminateClear("kill") \/ Crash
BY Steps DEF Supervisor, Attach, Detach, TurnStarts, TurnEnds, ChildExits,
   SupervisorCrashes, Exit, ExitCall, ExitLookup, ExitAct, PresentationChanged, Message,
   Inject, ClearDeadEndpoint, DeadlineElapses, Engine, EngineLeaves, EngineTeardown,
   Loop, Boot, Settle, Tick, Replay, ReplayExit, Replayed, Present, Probe, ApplyProbe,
   ProbeLost, ListStopping, KillIfHeadless, FinalizeEviction, EvictionChanged,
   EvictionUncontrolled, ListDue, ReserveEviction, Revive, ReviveEngine, LaunchReserve,
   Launching, LaunchSpawn, LaunchBind, LaunchEngine, LaunchRelease, Start, vars

\* A termination that goes on to the store has seen the child end.
LEMMA TerminateSettles ==
  ASSUME Calm, [Next]_vars, Terminate("kill")
  PROVE  /\ op' = [op EXCEPT !["kill"].pc = op'["kill"].pc] /\ op'["kill"].pc \in {"idle", "clear", "settle"}
         /\ \A g \in 0..MaxGen :
              g = op["kill"].snap.gen /\ op'["kill"].pc \in {"clear", "settle"} => Settled(g)'
<1> DEFINE s == op["kill"].snap
<1>0. op \in [Ops -> OpOf] /\ "kill" \in Ops /\ s.gen \in 0..MaxGen
  BY DEF Calm, IInv, TypeOK, OpOf, Row, Ops
<1>1. op["kill"].pc = "terminate" /\ (s.runtime = "stopped" => Settled(s.gen))
  BY DEF Terminate, Calm, OwnInv, CallsInv
<1>2. /\ op' = [op EXCEPT !["kill"].pc = op'["kill"].pc]
      /\ op'["kill"].pc \in {"idle", "clear", "settle"}
  <2>1. \E pc \in {"idle", "clear", "settle"} : op' = [op EXCEPT !["kill"].pc = pc]
    BY DEF Terminate
  <2> QED
    BY <1>0, <2>1 DEF OpOf
<1>3. CASE s.runtime = "stopped"
  BY <1>0, <1>1, <1>2, <1>3, Settling
<1>4. CASE s.runtime # "stopped" /\ ~Bound(locator, s.gen)
  <2>1. op' = [op EXCEPT !["kill"].pc = "idle"]
    BY <1>4 DEF Terminate
  <2>2. op'["kill"].pc = "idle"
    BY <1>0, <2>1 DEF OpOf
  <2> QED
    BY <1>2, <2>2
<1>5. CASE s.runtime # "stopped" /\ Bound(locator, s.gen)
  <2>1. locator.pty = s.gen /\ Known(s.gen) /\ (~Up(locator.pty) => Settled(s.gen))
    BY <1>5, BoundSettles
  <2>2. CASE ~Up(locator.pty)
    BY <1>0, <1>2, <2>1, <2>2, Settling
  <2>3. CASE Up(locator.pty) /\ op'["kill"].pc # "idle"
    <3>1. ChildGone(locator.pty, "killed") /\ locator.pty \in Pty
      <4>1. op' # [op EXCEPT !["kill"].pc = "idle"]
        BY <1>0, <2>3 DEF OpOf
      <4> QED
        BY <1>5, <2>3, <4>1 DEF Terminate, Up
    <3>2. \A p \in Pty : p = locator.pty => ~Up(p)'
      BY <3>1, ChildGoneDoes
    <3> QED
      BY <1>0, <1>2, <2>1, <3>1, <3>2, Settling DEF Settled
  <2> QED
    BY <1>2, <2>2, <2>3
<1> QED
  BY <1>3, <1>4, <1>5

LEMMA CallsStep ==
  ASSUME Calm, [Next]_vars
  PROVE  CallsInv'
<1>0. /\ op["forget"].pc = "idle" /\ op \in [Ops -> OpOf] /\ "kill" \in Ops /\ "forget" \in Ops
      /\ op["kill"].snap.gen \in 0..MaxGen /\ IdleOp.pc = "idle"
      /\ \A g \in acked : g \in 0..MaxGen /\ Settled(g)
  BY PtyIsGeneration DEF Calm, OwnInv, CallsInv, IInv, TypeOK, OpOf, Row, Ops, IdleOp
<1>1. ASSUME op'["forget"].pc = "idle",
             \A g \in acked' : Settled(g)',
             op'["kill"].pc = "idle" \/
               (\E g \in 0..MaxGen :
                  /\ op'["kill"].snap.gen = g
                  /\ op'["kill"].pc = "terminate" /\ op'["kill"].snap.runtime = "stopped" => Settled(g)'
                  /\ op'["kill"].pc \in {"clear", "settle"} => Settled(g)')
      PROVE  CallsInv'
  BY <1>1 DEF CallsInv, Settled, Known, Unbound, Up
<1>2. \A g \in acked : Settled(g)'
  BY <1>0, Settling
<1>3. CASE op' = op /\ acked' = acked
  <2>1. \A g \in 0..MaxGen : Settled(g) => Settled(g)'
    BY Settling
  <2> QED
    BY <1>0, <1>1, <1>2, <1>3, <2>1 DEF Calm, OwnInv, CallsInv
<1>4. CASE KillStart
  <2>1. /\ op'["kill"].snap = row /\ op'["kill"].pc = "terminate" /\ op'["forget"] = op["forget"]
        /\ acked' = acked
    BY <1>0, <1>4 DEF KillStart
  <2>2. row.gen \in 0..MaxGen /\ row.gen \in Pty /\ row.gen \in Nat
    BY <1>4, MaxGenAssumption DEF KillStart, Calm, IInv, TypeOK, Row, Pty
  <2>3. row.runtime = "stopped" => Settled(row.gen)
    BY <2>2 DEF Calm, OwnInv, OwnerInv, Settled, Known
  <2>4. \A g \in 0..MaxGen : g = row.gen /\ row.runtime = "stopped" => Settled(g)'
    BY <2>3, Settling
  <2> QED
    BY <1>0, <1>1, <1>2, <2>1, <2>2, <2>4
<1>5. CASE KillSettle
  <2>1. Settled(op["kill"].snap.gen)
    BY <1>5 DEF KillSettle, Calm, OwnInv, CallsInv
  <2>2. op'["kill"] = IdleOp /\ op'["forget"] = op["forget"]
    BY <1>0, <1>5 DEF KillSettle
  <2>3. acked' \subseteq acked \union {op["kill"].snap.gen}
    BY <1>5 DEF KillSettle
  <2>4. \A g \in 0..MaxGen : g = op["kill"].snap.gen => Settled(g)'
    BY <2>1, Settling
  <2>5. \A g \in acked' : Settled(g)'
    BY <1>0, <1>2, <2>3, <2>4
  <2> QED
    BY <1>0, <1>1, <2>2, <2>5
<1>6. CASE Terminate("kill")
  <2>1. /\ op'["forget"] = op["forget"] /\ op'["kill"].snap = op["kill"].snap
        /\ acked' = acked
    BY <1>0, <1>6, TerminateSettles DEF Terminate, OpOf
  <2>2. /\ op'["kill"].pc \in {"idle", "clear", "settle"}
        /\ \A g \in 0..MaxGen :
             g = op["kill"].snap.gen /\ op'["kill"].pc \in {"clear", "settle"} => Settled(g)'
    BY <1>6, TerminateSettles
  <2> QED
    BY <1>0, <1>1, <1>2, <2>1, <2>2
<1>7. CASE TerminateClear("kill")
  <2>1. /\ op["kill"].pc = "clear" /\ op' = [op EXCEPT !["kill"].pc = "settle"] /\ acked' = acked
    BY <1>7 DEF TerminateClear
  <2>2. /\ op'["kill"].pc = "settle" /\ op'["kill"].snap = op["kill"].snap /\ op'["forget"] = op["forget"]
    BY <1>0, <2>1 DEF OpOf
  <2>3. Settled(op["kill"].snap.gen)
    BY <2>1 DEF Calm, OwnInv, CallsInv
  <2>4. \A g \in 0..MaxGen : g = op["kill"].snap.gen => Settled(g)'
    BY <2>3, Settling
  <2> QED
    BY <1>0, <1>1, <1>2, <2>1, <2>2, <2>4
<1>8. CASE Crash
  BY <1>0, <1>1, <1>2, <1>8 DEF Crash
<1> QED
  BY KillWriters, <1>3, <1>4, <1>5, <1>6, <1>7, <1>8

----------------------------------------------------------------------------
(* Every step keeps the invariant *)

LEMMA FeaturesStay ==
  ASSUME IInv, [Next]_vars
  PROVE  /\ budget'.features = budget.features
         /\ budget'.crashes <= budget.crashes /\ budget'.faults <= budget.faults
<1>1. budget \in Budget
  BY DEF IInv, TypeOK
<1>2. budget' = budget \/ \E c \in {"ops", "faults", "crashes"} : Use(c)
  BY DEF Next, Supervisor, Attach, Detach, TurnStarts, TurnEnds, ChildExits, SupervisorCrashes,
     Exit, ExitCall, ExitLookup, ExitAct, SessionStartHook, PresentationChanged, Message,
     Inject, ClearDeadEndpoint, DeadlineElapses, Engine, EngineLeaves, EngineTeardown,
     Loop, Boot, Settle, Tick, Replay, ReplayExit, Replayed, Present, Probe, ApplyProbe,
     ProbeLost, ListStopping, KillIfHeadless, FinalizeEviction, EvictionChanged,
     EvictionUncontrolled, ListDue, ReserveEviction, Revive, ReviveEngine, LaunchReserve,
     Launching, LaunchSpawn, LaunchBind, LaunchEngine, LaunchRelease, Operator, KillStart,
     ForgetStart, SessionEnd, OperatorCall, Terminate, TerminateClear, KillSettle,
     ForgetSettle, Crash, Start, vars
<1>3. ASSUME NEW c \in {"ops", "faults", "crashes"}, Use(c)
      PROVE  /\ budget'.features = budget.features /\ budget'.crashes <= budget.crashes
             /\ budget'.faults <= budget.faults
  BY <1>1, <1>3 DEF Use, Budget
<1> QED
  BY <1>1, <1>2, <1>3 DEF Budget

LEMMA OwnInvInit == Init => (Undisturbed => OwnInv)
<1> SUFFICES ASSUME Init PROVE OwnInv
  OBVIOUS
<1>1. \A p \in Pty : ~Up(p)
  BY DEF Init, NoSup, Up
<1>2. OwnerInv /\ LocatorInv /\ EngineInv
  BY <1>1 DEF Init, OwnerInv, LocatorInv, EngineInv, NoRow, NoLocator, NoEngine, IdleLaunch,
     Unbound, PidInv, Bound
<1>3. ExitInv /\ CallsInv
  BY DEF Init, ExitInv, CallsInv, IdleOp, Ops
<1>4. TaskInv
  <2>1. \A a \in Tasks : task[a] \in {IdleTask, [IdleTask EXCEPT !.pc = "done"]}
    BY DEF Init
  <2>2. \A t \in {IdleTask, [IdleTask EXCEPT !.pc = "done"]} :
          t.pc \in {"start", "done"} /\ t.todo = {} /\ t.then = "start"
    BY DEF IdleTask
  <2>3. \A a \in Tasks : task[a].pc \in {"start", "done"} /\ task[a].todo = {} /\ task[a].then = "start"
    BY <2>1, <2>2
  <2> QED
    BY <2>3 DEF TaskInv, Holds, Init, PidInv, NoRow, Tasks
<1> QED
  BY <1>2, <1>3, <1>4 DEF OwnInv

LEMMA OwnInvStep ==
  ASSUME IInv, Undisturbed => OwnInv, [Next]_vars
  PROVE  (Undisturbed => OwnInv)'
<1> SUFFICES ASSUME Undisturbed PROVE OwnInv'
  BY FeaturesStay DEF Undisturbed
<1>1. Calm
  BY DEF Calm
<1> QED
  BY <1>1, OwnerStep, LocatorStep, ExitStep, EngineStep, TaskStep, CallsStep DEF OwnInv

THEOREM Ownership == Spec => [](Undisturbed => OwnInv)
<1>1. IInv /\ (Undisturbed => OwnInv) /\ [Next]_vars => (Undisturbed => OwnInv)'
  BY OwnInvStep
<1> QED
  BY Invariance, OwnInvInit, <1>1, PTL DEF Spec

\* No store call of a stale snapshot, no replayed report, no late probe, no engine and
\* no kill ends the row of a child that runs, and no second child is launched beside
\* one, through faults, crashes and restarts: where no session_end and no forget leaves
\* the process behind and no hook takes the PTY for another generation.
THEOREM RowsOwnProcesses == Spec => [](Undisturbed => RowOwnsProcess)
<1>1. (Undisturbed => OwnInv) => (Undisturbed => RowOwnsProcess)
  BY DEF OwnInv, OwnerInv, RowOwnsProcess
<1> QED
  BY Ownership, <1>1, PTL

\* A kill that was acknowledged left no child of its generation, and none comes back
\* for it, whatever the loop, the engine, exit calls, launches and restarts do beside it.
THEOREM KillsAreFinal == Spec => [](Undisturbed => KilledIsDead)
<1>1. (Undisturbed => OwnInv) => (Undisturbed => KilledIsDead)
  BY DEF OwnInv, CallsInv, Settled, KilledIsDead
<1> QED
  BY Ownership, <1>1, PTL

----------------------------------------------------------------------------
(* What the row says of the presentation *)

EdgeCalm == Calm /\ EdgeInv

LEMMA Parity ==
  ASSUME NEW n \in Nat
  PROVE  /\ 0 % 2 = 0 /\ (n % 2 = 0 => (n + 1) % 2 = 1) /\ (n % 2 = 1 => (n + 1) % 2 = 0)
OBVIOUS

LEMMA SeenStays ==
  ASSUME Calm, [Next]_vars, NEW g \in 0..MaxGen, NEW e \in Nat, Seen(g, e)
  PROVE  Seen(g, e)'
<1>1. Up(g) => sup[g].epoch \in Nat
  BY DEF Up, Calm, IInv, TypeOK, Sup
<1>2. Up(g)' => sup'[g].epoch \in Nat
  BY NextStep DEF Up, Calm, IInv, TypeOK, Sup
<1> QED
  BY <1>1, <1>2, Settling DEF Seen

\* A child that runs has seen the epoch of its supervisor.
LEMMA UpSeen ==
  ASSUME Calm, [Next]_vars, NEW p \in Pty, Up(p), NEW e, e = sup'[p].epoch \/ e = sup[p].epoch
  PROVE  Seen(p, e)'
<1>1. Spawned(p) /\ p \in 0..MaxGen
  BY UpSpawned
<1>2. sup[p].epoch \in Nat /\ sup'[p].epoch \in Nat
  BY NextStep DEF Calm, IInv, TypeOK, Sup
<1> QED
  BY <1>1, <1>2, Settling DEF Seen

LEMMA ClientsStep ==
  ASSUME EdgeCalm, [Next]_vars
  PROVE  \A p \in Pty : sup'[p].clients = sup'[p].epoch % 2
<1>0. /\ \A p \in Pty : sup[p].clients = sup[p].epoch % 2 /\ sup[p].epoch \in Nat
      /\ sup \in [Pty -> Sup] /\ Calm
  BY DEF EdgeCalm, EdgeInv, Calm, IInv, TypeOK, Sup
<1>1. ASSUME NEW p \in Pty, Attach(p) \/ Detach(p)
      PROVE  \A q \in Pty : sup'[q].clients = sup'[q].epoch % 2
  <2>1. /\ sup[p].epoch + 1 = sup'[p].epoch /\ \A q \in Pty : q # p => sup'[q] = sup[q]
        /\ (sup[p].clients = 0 /\ sup'[p].clients = 1) \/ (sup[p].clients = 1 /\ sup'[p].clients = 0)
    BY <1>0, <1>1 DEF Attach, Detach, Sup
  <2> QED
    BY <1>0, <2>1, Parity
<1>2. ASSUME NEW p \in Pty, TurnStarts(p) \/ TurnEnds(p)
      PROVE  \A q \in Pty : sup'[q].clients = sup'[q].epoch % 2
  <2>1. \A q \in Pty : sup'[q].clients = sup[q].clients /\ sup'[q].epoch = sup[q].epoch
    BY <1>0, <1>2 DEF TurnStarts, TurnEnds, Sup
  <2> QED
    BY <1>0, <2>1
<1>3. ASSUME \A q \in Pty : sup'[q] = sup[q] \/ \E meta \in BOOLEAN : sup'[q] = Dead(meta)
      PROVE  \A q \in Pty : sup'[q].clients = sup'[q].epoch % 2
  <2>1. \A meta \in BOOLEAN : Dead(meta).clients = 0 /\ Dead(meta).epoch = 0
    BY DEF Dead, NoSup
  <2>2. 0 % 2 = 0
    OBVIOUS
  <2> QED
    BY <1>0, <1>3, <2>1, <2>2
<1>4. ASSUME NEW p \in Pty, SupervisorCrashes(p) \/ Exit(p)
      PROVE  \A q \in Pty : sup'[q].clients = sup'[q].epoch % 2
  <2>1. sup' = sup \/ \E meta \in BOOLEAN : sup' = [sup EXCEPT ![p] = Dead(meta)]
    BY <1>4 DEF SupervisorCrashes, Exit, ExitCall, ExitLookup, ExitAct, ExitCallEnds
  <2> QED
    BY <1>0, <1>3, <2>1
<1>5. CASE Crash
  <2>1. \A q \in Pty : sup'[q] \in {sup[q], Dead(FALSE)}
    BY <1>5 DEF Crash
  <2> QED
    BY <1>3, <2>1
<1>6. CASE ChildEnds
  BY <1>0, <1>6, ChildGoneDoes DEF ChildEnds
<1>7. CASE Terminate("kill")
  BY <1>0, <1>6, <1>7, TerminateDoes
<1>8. CASE LaunchSpawn
  <2> DEFINE s == [NoSup EXCEPT !.state = "up", !.meta = TRUE]
  <2>1. s.clients = 0 /\ s.epoch = 0 /\ 0 % 2 = 0
    BY DEF NoSup
  <2>2. sup' = sup \/ sup' = [sup EXCEPT ![row.gen] = s]
    BY <1>0, <1>8, LaunchSpawnDoes
  <2> QED
    <3> HIDE DEF s
    <3> QED  BY <1>0, <2>1, <2>2
<1> QED
  BY <1>0, HostWriters, <1>1, <1>2, <1>4, <1>5, <1>6, <1>7, <1>8

LEMMA NotesStep ==
  ASSUME EdgeCalm, [Next]_vars
  PROVE  \A n \in notes' : Told(n.pty, n.epoch, n.clients)'
<1>0. Calm /\ \A n \in notes : /\ n.clients = n.epoch % 2 /\ Seen(n.pty, n.epoch)
                               /\ n.pty \in 0..MaxGen /\ n.epoch \in Nat
  BY PtyIsGeneration DEF EdgeCalm, EdgeInv, Told, Calm, IInv, TypeOK, Note
<1>1. \A n \in notes : n.clients = n.epoch % 2 /\ Seen(n.pty, n.epoch)'
  BY <1>0, SeenStays
<1>2. CASE \E p \in Pty : Attach(p) \/ Detach(p)
  <2>1. PICK p \in Pty : Attach(p) \/ Detach(p)
    BY <1>2
  <2> DEFINE note == [pty |-> p, epoch |-> sup'[p].epoch, clients |-> sup'[p].clients]
  <2>2. Up(p) /\ notes' \subseteq notes \union {note}
    BY <2>1 DEF Attach, Detach, Notify
  <2>3. /\ \A e : e = sup'[p].epoch => Seen(p, e)'
        /\ sup'[p].clients = sup'[p].epoch % 2
    BY <1>0, <2>2, UpSeen, ClientsStep
  <2>4. note.pty = p /\ note.epoch = sup'[p].epoch /\ note.clients = sup'[p].clients
    OBVIOUS
  <2> HIDE DEF note
  <2>5. \A n \in notes' : n.clients = n.epoch % 2 /\ Seen(n.pty, n.epoch)'
    BY <1>1, <2>2, <2>3, <2>4
  <2> QED
    BY <2>5 DEF Told
<1>3. CASE notes' \subseteq notes
  BY <1>1, <1>3 DEF Told
<1>4. notes' \subseteq notes \/ \E p \in Pty : Attach(p) \/ Detach(p)
  BY <1>0, Steps DEF Supervisor, TurnStarts, TurnEnds, ChildExits,
   SupervisorCrashes, Exit, ExitCall, ExitLookup, ExitAct, PresentationChanged, Message,
   Inject, ClearDeadEndpoint, DeadlineElapses, Engine, EngineLeaves, EngineTeardown,
   Loop, Boot, Settle, Tick, Replay, ReplayExit, Replayed, Present, Probe, ApplyProbe,
   ProbeLost, ListStopping, KillIfHeadless, FinalizeEviction, EvictionChanged,
   EvictionUncontrolled, ListDue, ReserveEviction, Revive, ReviveEngine, LaunchReserve,
   Launching, LaunchSpawn, LaunchBind, LaunchEngine, LaunchRelease, KillStart, KillSettle,
   Terminate, TerminateClear, Crash, Start, vars
<1> QED
  BY <1>2, <1>3, <1>4

LEMMA AnswersStep ==
  ASSUME EdgeCalm, [Next]_vars
  PROVE  \A a \in Tasks : task'[a].pc \in {"apply", "changed"} =>
           Told(task[a].snap.gen, task[a].epoch, task[a].clients)'
<1> SUFFICES ASSUME NEW a \in Tasks, task'[a].pc \in {"apply", "changed"}
             PROVE  Told(task[a].snap.gen, task[a].epoch, task[a].clients)'
  OBVIOUS
<1>0. Calm
  BY DEF EdgeCalm
<1>1. CASE Asked(a)
  <2>1. PICK p \in Pty : /\ Up(p) /\ p = task'[a].snap.gen
                         /\ task'[a].epoch = sup[p].epoch /\ task'[a].clients = sup[p].clients
    BY <1>1 DEF Asked
  <2>2. \A e : e = sup[p].epoch => Seen(p, e)'
    BY <1>0, <2>1, UpSeen
  <2>3. sup[p].clients = sup[p].epoch % 2
    BY DEF EdgeCalm, EdgeInv
  <2> QED
    BY <2>1, <2>2, <2>3 DEF Told, Seen, Spawned, Unspawned, Up
<1>2. CASE task'[a] = task[a]
  <2>1. /\ task[a].snap.gen \in 0..MaxGen /\ task[a].epoch \in Nat
        /\ task[a].clients = task[a].epoch % 2 /\ Seen(task[a].snap.gen, task[a].epoch)
    BY <1>0, <1>2, Held DEF EdgeCalm, EdgeInv, Told, TaskOf
  <2>2. \A g \in 0..MaxGen : \A e \in Nat : Seen(g, e) => Seen(g, e)'
    BY <1>0, SeenStays
  <2> QED
    BY <1>2, <2>1, <2>2 DEF Told, Seen, Spawned, Unspawned, Up
<1> QED
  BY <1>0, <1>1, <1>2, TasksMove DEF Moves

\* The store call says nothing new of the presentation.
EdgeKept(r, n) ==
  n.runtime = "stopped" \/ n.pres = "unavailable" \/
  (n.gen = r.gen /\ n.att = r.att /\ n.pres = r.pres /\ r.runtime # "stopped")

\* It says what was told: s is the snapshot the observation was made for.
EdgeApplied(n, s, epoch, clients) ==
  n.gen = s.gen /\ n.att = epoch /\ n.pres = PresentationOf(clients)

LEMMA EdgeSame == \A r : EdgeKept(r, r)
BY DEF EdgeKept

LEMMA StopsKeepEdge ==
  ASSUME NEW r \in Row, NEW g, NEW life, NEW pid, NEW s
  PROVE  /\ EdgeKept(r, Stopped(r, g)) /\ EdgeKept(r, EvictionFinalized(r, g, life))
         /\ EdgeKept(r, Reserved(r, pid)) /\ EdgeKept(r, Unobservable(r, s))
BY DEF EdgeKept, Row, Stopped, EvictionFinalized, AsStopped, Reserved, NoRow, Unobservable,
  PresentationLost, EvictionCancelled, RunningAt, Running, StoppingAt

LEMMA TurnsKeepEdge ==
  ASSUME NEW r \in Row, NEW g, NEW pid
  PROVE  /\ EdgeKept(r, TurnStarted(r, g)) /\ EdgeKept(r, TurnEnded(r, g))
         /\ EdgeKept(r, DeadlineCancelled(r)) /\ EdgeKept(r, [r EXCEPT !.deadline = "due"])
         /\ EdgeKept(r, [r EXCEPT !.pid = pid])
BY DEF EdgeKept, Row, TurnStarted, TurnEnded, EndsTurn, DeadlineCancelled

LEMMA EvictionKeepsEdge ==
  ASSUME NEW r \in Row, Running(r)
  PROVE  EdgeKept(r, EvictionReserved(r))
BY DEF EdgeKept, Row, EvictionReserved, Running

LEMMA ObservedEdge ==
  ASSUME NEW r \in Row, NEW s \in Row, NEW epoch, NEW clients
  PROVE  \/ EdgeKept(r, Observed(r, s, epoch, clients))
         \/ EdgeApplied(Observed(r, s, epoch, clients), s, epoch, clients)
BY EdgeSame DEF EdgeApplied, Row, Observed, PresentationEdge, EvictionCancelled, RunningAt, StoppingAt

\* What the row comes to say was told of its generation.
Announced == \E clients \in {0, 1} :
  row'.pres = PresentationOf(clients) /\ Told(row'.gen, row'.att, clients)

LEMMA ObservedAnnounces ==
  ASSUME EdgeCalm, NEW s \in Row, NEW epoch, NEW clients \in {0, 1}, Told(s.gen, epoch, clients),
         row' = Observed(row, s, epoch, clients)
  PROVE  EdgeKept(row, row') \/ Announced
<1>1. EdgeKept(row, row') \/ EdgeApplied(row', s, epoch, clients)
  BY ObservedEdge DEF EdgeCalm, Calm, IInv, TypeOK
<1> QED
  BY <1>1 DEF EdgeApplied, Announced

LEMMA EdgeWriters ==
  ASSUME EdgeCalm, [Next]_vars
  PROVE  EdgeKept(row, row') \/ Announced
<1> DEFINE Goal == EdgeKept(row, row') \/ Announced
<1>0. row \in Row /\ Calm
  BY DEF EdgeCalm, Calm, IInv, TypeOK
<1>1. ASSUME NEW p \in Pty, Supervisor(p) \/ Exit(p) PROVE Goal
  <2>1. CASE Supervisor(p)
    BY <1>0, <2>1, TurnsKeepEdge, EdgeSame DEF Supervisor, Attach, Detach, TurnStarts, TurnEnds,
       ChildExits, SupervisorCrashes, store
  <2>2. CASE Exit(p)
    BY <1>0, <2>2, StopsKeepEdge, EdgeSame DEF Exit, ExitCall, ExitLookup, ExitAct,
       SupervisorExited, StopGeneration, store
  <2> QED
    BY <1>1, <2>1, <2>2
<1>2. ASSUME NEW n \in notes, PresentationChanged(n) PROVE Goal
  <2>1. CASE Resolves(row, locator, n.pty)
    <3>1. n.pty = row.gen /\ n.clients \in {0, 1}
      BY <1>0, <2>1, ResolvesSettles DEF Calm, IInv, TypeOK, Note
    <3>2. Told(row.gen, n.epoch, n.clients)
      BY <3>1 DEF EdgeCalm, EdgeInv
    <3> QED
      BY <1>0, <1>2, <2>1, <3>1, <3>2, ObservedAnnounces DEF PresentationChanged
  <2>2. CASE ~Resolves(row, locator, n.pty)
    BY <1>2, <2>2, EdgeSame DEF PresentationChanged
  <2> QED
    BY <2>1, <2>2
<1>3. CASE Message \/ Inject \/ ClearDeadEndpoint \/ DeadlineElapses
  BY <1>0, <1>3, TurnsKeepEdge, EdgeSame DEF Message, Inject, ClearDeadEndpoint, DeadlineElapses, store
<1>4. CASE Engine
  BY <1>0, <1>4, EdgeSame, StopsKeepEdge DEF Engine, EngineLeaves, EngineTeardown, StopGeneration, store
<1>5. ASSUME NEW a \in Tasks, task[a].pc \in {"apply", "changed"},
             row' = Observed(row, task[a].snap, task[a].epoch, task[a].clients)
      PROVE  Goal
  <2>1. task[a].snap \in Row /\ task[a].clients \in {0, 1}
    BY DEF EdgeCalm, Calm, IInv, TypeOK, TaskOf
  <2>2. Told(task[a].snap.gen, task[a].epoch, task[a].clients)
    BY <1>5 DEF EdgeCalm, EdgeInv
  <2> QED
    BY <1>5, <2>1, <2>2, ObservedAnnounces
<1>6. ASSUME NEW a \in Tasks, Settle(a) PROVE Goal
  BY <1>0, <1>5, <1>6, EdgeSame, StopsKeepEdge DEF Settle, Tick, Replay, ReplayExit, Replayed,
     SupervisorExited, StopGeneration, ListStopping, KillIfHeadless, FinalizeEviction,
     EvictionChanged, EvictionUncontrolled, Task, store
<1>7. CASE Present \/ Probe \/ ProbeLost \/ ListDue
  BY <1>0, <1>7, EdgeSame, StopsKeepEdge DEF Present, Probe, ProbeLost, ListDue, StopGeneration, store
<1>8. CASE ApplyProbe
  BY <1>5, <1>8 DEF ApplyProbe, Task, Tasks
<1>9. CASE ReserveEviction
  BY <1>0, <1>9, EdgeSame, EvictionKeepsEdge DEF ReserveEviction, CanReserveEviction, IsDue
<1>10. CASE Revive \/ ReviveEngine
  BY <1>0, <1>10, EdgeSame, StopsKeepEdge DEF Revive, ReviveEngine, StopGeneration, store
<1>11. CASE LaunchReserve \/ LaunchSpawn \/ LaunchEngine \/ LaunchRelease
  BY <1>0, <1>11, EdgeSame, StopsKeepEdge DEF LaunchReserve, LaunchSpawn, LaunchEngine, LaunchRelease
<1>12. CASE LaunchBind
  <2>1. row' \in {row, [row EXCEPT !.pid = PidOf(row.gen)]}
    BY <1>0, <1>12, LaunchBindDoes
  <2> QED
    BY <1>0, <2>1, EdgeSame, TurnsKeepEdge
<1>13. CASE KillStart \/ KillSettle \/ Terminate("kill") \/ TerminateClear("kill")
  BY <1>0, <1>13, EdgeSame, StopsKeepEdge DEF KillStart, KillSettle, Terminate, TerminateClear,
     StopGeneration, store
<1>14. CASE Crash \/ Start \/ UNCHANGED vars
  BY <1>14, EdgeSame DEF Crash, Start, vars, store
<1> QED
  BY <1>0, Steps, <1>1, <1>2, <1>3, <1>4, <1>6, <1>7, <1>8, <1>9, <1>10, <1>11, <1>12, <1>13, <1>14
     DEF Loop, Boot, Launching, Tasks

LEMMA ShownStep ==
  ASSUME EdgeCalm, [Next]_vars
  PROVE  Shown'
<1> SUFFICES ASSUME row'.runtime # "stopped", row'.pres # "unavailable"
             PROVE  Seen(row.gen, row.att)' /\ row'.pres = PresentationOf(row'.att % 2)
  BY DEF Shown, PresentationOf
<1>0. Calm /\ row \in Row /\ row' \in Row
  BY NextStep DEF EdgeCalm, Calm, IInv, TypeOK
<1>1. row'.gen \in 0..MaxGen /\ row'.att \in Nat
  BY <1>0 DEF Row
<1>2. Seen(row'.gen, row'.att) /\ row'.pres = PresentationOf(row'.att % 2)
  <2>1. CASE EdgeKept(row, row')
    BY <2>1 DEF EdgeKept, EdgeCalm, EdgeInv, Shown
  <2>2. CASE Announced
    BY <2>2 DEF Announced, Told
  <2> QED
    BY <2>1, <2>2, EdgeWriters
<1>3. PICK g \in 0..MaxGen, e \in Nat : g = row'.gen /\ e = row'.att
  BY <1>1
<1>4. Seen(g, e)'
  BY <1>0, <1>2, <1>3, SeenStays
<1> QED
  BY <1>2, <1>3, <1>4 DEF Seen, Spawned, Unspawned, Up

LEMMA EdgeInvInit == Init => EdgeInv
<1> SUFFICES ASSUME Init PROVE EdgeInv
  OBVIOUS
<1>1. \A p \in Pty : sup[p].clients = sup[p].epoch % 2
  <2>1. NoSup.clients = 0 /\ NoSup.epoch = 0 /\ 0 % 2 = 0
    BY DEF NoSup
  <2> QED
    BY <2>1 DEF Init
<1>2. \A a \in Tasks : task[a].pc \notin {"apply", "changed"}
  <2>1. \A a \in Tasks : task[a] \in {IdleTask, [IdleTask EXCEPT !.pc = "done"]}
    BY DEF Init
  <2>2. \A t \in {IdleTask, [IdleTask EXCEPT !.pc = "done"]} : t.pc \in {"start", "done"}
    BY DEF IdleTask
  <2> QED
    BY <2>1, <2>2
<1> QED
  BY <1>1, <1>2 DEF Init, EdgeInv, Shown, NoRow

LEMMA EdgeInvStep ==
  ASSUME IInv, Undisturbed => OwnInv /\ EdgeInv, [Next]_vars
  PROVE  (Undisturbed => OwnInv /\ EdgeInv)'
<1> SUFFICES ASSUME Undisturbed PROVE OwnInv' /\ EdgeInv'
  BY FeaturesStay DEF Undisturbed
<1>1. EdgeCalm /\ Calm
  BY DEF EdgeCalm, Calm
<1>2. OwnInv'
  BY OwnInvStep, FeaturesStay DEF Undisturbed
<1>3. EdgeInv'
  BY <1>1, ClientsStep, NotesStep, AnswersStep, ShownStep DEF EdgeInv
<1> QED
  BY <1>2, <1>3

\* What the row says of the presentation was so at its attachment epoch, and that epoch
\* has been: whatever notifications were lost, late or reordered, whatever probes and
\* cancelled evictions were late, and through faults, crashes and restarts.
THEOREM EdgesAreSeen == Spec => [](Undisturbed => EdgesWereSeen)
<1>1. Init => (Undisturbed => OwnInv /\ EdgeInv)
  BY OwnInvInit, EdgeInvInit
<1>2. IInv /\ (Undisturbed => OwnInv /\ EdgeInv) /\ [Next]_vars => (Undisturbed => OwnInv /\ EdgeInv)'
  BY EdgeInvStep
<1>3. (Undisturbed => OwnInv /\ EdgeInv) => (Undisturbed => EdgesWereSeen)
  BY DEF EdgeInv, Shown, EdgesWereSeen, Seen
<1> QED
  BY Invariance, <1>1, <1>2, <1>3, PTL DEF Spec

----------------------------------------------------------------------------
(* Who takes a locator away *)

LocatorEnds == \E g \in 0..MaxGen : Settled(g) /\ locator' = Cleared(locator, g)

LEMMA LocatorClears ==
  ASSUME Calm, [Next]_vars
  PROVE  locator' = locator \/ LaunchBind \/ LocatorEnds
<1>1. ASSUME NEW p \in Pty, Exit(p) PROVE locator' = locator \/ LocatorEnds
  <2>1. CASE ExitAct(p)
    <3>1. Settled(exits[p].snap.gen) /\ exits[p].snap.gen \in 0..MaxGen
      BY <2>1 DEF ExitAct, Calm, OwnInv, ExitInv, IInv, TypeOK, ExitOf, Row
    <3> QED
      BY <2>1, <3>1 DEF ExitAct, SupervisorExited, LocatorEnds
  <2> QED
    BY <1>1, <2>1 DEF Exit, ExitCall, ExitLookup, store
<1>2. ASSUME NEW a \in Tasks, ReplayExit(a) \/ FinalizeEviction(a)
      PROVE  locator' = locator \/ LocatorEnds
  <2>1. Settled(task[a].snap.gen) /\ task[a].snap.gen \in 0..MaxGen
    BY <1>2, Held DEF Holds, ReplayExit, FinalizeEviction, Task
  <2> QED
    BY <1>2, <2>1 DEF ReplayExit, FinalizeEviction, SupervisorExited, LocatorEnds, Task
<1>3. CASE ClearDeadEndpoint
  <2>1. Settled(row.gen) /\ row.gen \in 0..MaxGen
    BY <1>3, BoundSettles DEF ClearDeadEndpoint, Calm, IInv, TypeOK, Row
  <2> QED
    BY <1>3, <2>1 DEF ClearDeadEndpoint, LocatorEnds
<1>4. CASE TerminateClear("kill")
  <2>1. Settled(op["kill"].snap.gen) /\ op["kill"].snap.gen \in 0..MaxGen
    BY <1>4, PtyIsGeneration DEF TerminateClear, Calm, OwnInv, CallsInv, IInv, CallInv, Ops
  <2> QED
    BY <1>4, <2>1 DEF TerminateClear, LocatorEnds
<1> QED
  BY <1>1, <1>2, <1>3, <1>4, Steps DEF Supervisor, Attach, Detach, TurnStarts, TurnEnds, ChildExits,
     SupervisorCrashes, PresentationChanged, Message, Inject, DeadlineElapses, Engine,
     EngineLeaves, EngineTeardown, Loop, Boot, Settle, Tick, Replay, Replayed, Present, Probe,
     ApplyProbe, ProbeLost, ListStopping, KillIfHeadless, EvictionChanged, EvictionUncontrolled,
     ListDue, ReserveEviction, Revive, ReviveEngine, LaunchReserve, Launching, LaunchSpawn,
     LaunchEngine, LaunchRelease, KillStart, KillSettle, Terminate, Crash, Start, vars, store, Tasks

\* While its child runs, nothing takes the locator of a generation away.
LEMMA BoundStays ==
  ASSUME Calm, [Next]_vars, NEW g \in 0..MaxGen, Spawned(g), BoundWhileUp(g)
  PROVE  BoundWhileUp(g)'
<1> SUFFICES ASSUME Up(g)' PROVE Bound(locator, g)'
  BY DEF BoundWhileUp
<1>1. Up(g) /\ Bound(locator, g) /\ g = row.gen
  BY Settling DEF BoundWhileUp, Up, Calm, OwnInv, OwnerInv
<1>2. CASE LaunchBind
  BY <1>1, <1>2, LaunchBindDoes DEF Bound, NoLocator, Up, Pty
<1>3. CASE LocatorEnds
  BY <1>1, <1>3 DEF LocatorEnds, Cleared, Settled, Bound
<1> QED
  BY <1>1, <1>2, <1>3, LocatorClears DEF Bound

----------------------------------------------------------------------------
(* What a step does to the row of a turn and of an eviction *)

EvictCalm == EdgeCalm /\ TurnInv /\ BoundInv

\* The store call leaves turns and evictions alone.
Rests(r, n) ==
  /\ n.gen = r.gen /\ n.work = r.work /\ EdgeKept(r, n)
  /\ r.runtime = "running" <=> n.runtime = "running"
  /\ r.runtime = "stopping" <=> n.runtime = "stopping"
  /\ r.runtime = "stopping" => n.life = r.life /\ n.att = r.att /\ n.pres = r.pres

\* It applies what was told of the session of the snapshot s.
Observes(s) ==
  \E epoch \in Nat : \E clients \in {0, 1} :
    row' = Observed(row, s, epoch, clients) /\ Told(s.gen, epoch, clients) /\ BoundWhileUp(s.gen)

\* A launch gives its generation up, whose child does not run.
LaunchStops ==
  row' = Stopped(row, row.gen) /\ \A p \in Pty : p = row.gen => ~Up(p)'

RowKinds ==
  \/ Rests(row, row') \/ (\E p \in Pty : TurnStarts(p) \/ TurnEnds(p))
  \/ StopsEnded \/ (\E s \in Row : Observes(s)) \/ ReserveEviction
  \/ (\E a \in Tasks : EvictionUncontrolled(a)) \/ LaunchReserve \/ LaunchStops

LEMMA RestsSame == \A r : Rests(r, r)
BY EdgeSame DEF Rests

LEMMA CallsRest ==
  ASSUME NEW r \in Row, NEW s, NEW pid
  PROVE  /\ Rests(r, DeadlineCancelled(r)) /\ Rests(r, [r EXCEPT !.deadline = "due"])
         /\ Rests(r, [r EXCEPT !.pid = pid]) /\ (Running(s) => Rests(r, Unobservable(r, s)))
BY TurnsKeepEdge, StopsKeepEdge DEF Rests, Row, DeadlineCancelled, Unobservable, PresentationLost, RunningAt, Running

LEMMA StepKinds ==
  ASSUME EvictCalm, [Next]_vars
  PROVE  RowKinds
<1>0. row \in Row /\ Calm /\ EdgeCalm
  BY DEF EvictCalm, EdgeCalm, Calm, IInv, TypeOK
<1>1. ASSUME NEW p \in Pty, Supervisor(p) \/ Exit(p) PROVE RowKinds
  BY <1>0, <1>1, RestsSame, ExitActEnds DEF RowKinds, Supervisor, Exit, Attach, Detach,
     ChildExits, SupervisorCrashes, ExitCall, ExitLookup, store
<1>2. ASSUME NEW n \in notes, PresentationChanged(n) PROVE RowKinds
  <2>1. CASE Resolves(row, locator, n.pty)
    <3>1. n.pty = row.gen /\ n.clients \in {0, 1} /\ n.epoch \in Nat
      BY <1>0, <2>1, ResolvesSettles DEF Calm, IInv, TypeOK, Note
    <3>2. Told(row.gen, n.epoch, n.clients)
      BY <1>0, <3>1 DEF EdgeCalm, EdgeInv
    <3>3. BoundWhileUp(row.gen)
      BY <2>1, <3>1, <1>0 DEF BoundWhileUp, Bound, Resolves, NoLocator
    <3>4. Observes(row)
      BY <1>2, <2>1, <3>1, <3>2, <3>3 DEF Observes, PresentationChanged
    <3> QED
      BY <1>0, <3>4 DEF RowKinds
  <2>2. CASE ~Resolves(row, locator, n.pty)
    BY <1>2, <2>2, RestsSame DEF PresentationChanged, RowKinds
  <2> QED
    BY <2>1, <2>2
<1>3. CASE Message \/ Inject \/ ClearDeadEndpoint \/ DeadlineElapses
  BY <1>0, <1>3, CallsRest, RestsSame DEF Message, Inject, ClearDeadEndpoint, DeadlineElapses,
     store, RowKinds
<1>4. CASE Engine
  BY <1>0, <1>4, RestsSame, EngineTeardownEnds DEF Engine, EngineLeaves, store, RowKinds
<1>5. ASSUME NEW a \in Tasks, task[a].pc \in {"apply", "changed"},
             row' = Observed(row, task[a].snap, task[a].epoch, task[a].clients)
      PROVE  RowKinds
  <2>1. task[a].snap \in Row /\ task[a].epoch \in Nat /\ task[a].clients \in {0, 1}
    BY <1>0, Held DEF TaskOf
  <2>2. Told(task[a].snap.gen, task[a].epoch, task[a].clients) /\ BoundWhileUp(task[a].snap.gen)
    BY <1>5 DEF EvictCalm, EdgeCalm, EdgeInv, BoundInv
  <2>3. Observes(task[a].snap)
    BY <1>5, <2>1, <2>2 DEF Observes
  <2> QED
    BY <2>1, <2>3 DEF RowKinds
<1>6. ASSUME NEW a \in Tasks, Settle(a) PROVE RowKinds
  <2>1. CASE EvictionChanged(a)
    BY <1>5, <2>1 DEF EvictionChanged, Task
  <2>2. CASE ~EvictionChanged(a)
    BY <1>0, <1>6, <2>2, RestsSame, ReplayExitEnds, FinalizeEvictionEnds DEF Settle, Tick, Replay,
       Replayed, ListStopping, KillIfHeadless, store, RowKinds
  <2> QED
    BY <2>1, <2>2
<1>7. CASE Present \/ Probe \/ ListDue \/ ReserveEviction
  BY <1>7, RestsSame DEF Present, Probe, ListDue, store, RowKinds
<1>8. CASE ApplyProbe
  BY <1>5, <1>8 DEF ApplyProbe, Task, Tasks
<1>9. CASE ProbeLost
  <2>1. Running(task["loop"].snap)
    BY <1>9 DEF ProbeLost, Task, Tasks, EvictCalm, BoundInv
  <2>2. CASE PidAlive(task["loop"].snap.pid)
    BY <1>0, <1>9, <2>1, <2>2, CallsRest DEF ProbeLost, Task, RowKinds
  <2>3. CASE ~PidAlive(task["loop"].snap.pid)
    <3>1. /\ Known(task["loop"].snap.gen) /\ task["loop"].snap.pid = PidOf(task["loop"].snap.gen)
          /\ task["loop"].snap.gen \in 0..MaxGen
      BY <1>0, <1>9, Held DEF Holds, ProbeLost, Task, Tasks
    <3>2. Settled(task["loop"].snap.gen)
      BY <2>3, <3>1 DEF Settled, PidAlive, PidOf, Up
    <3> QED
      BY <1>0, <1>9, <2>3, <3>1, <3>2, StopGenerationEnds DEF ProbeLost, Task, RowKinds
  <2> QED
    BY <2>2, <2>3
<1>10. CASE Revive \/ ReviveEngine
  <2>1. CASE Bound(locator, frozen.gen) /\ ~Up(locator.pty) /\ StopGeneration(frozen.gen)
    <3>1. frozen.gen \in 0..MaxGen
      BY <1>0 DEF Calm, IInv, TypeOK, Row
    <3> QED
      BY <1>0, <2>1, <3>1, BoundSettles, StopGenerationEnds DEF RowKinds
  <2>2. CASE ~(Bound(locator, frozen.gen) /\ ~Up(locator.pty) /\ StopGeneration(frozen.gen))
    BY <1>0, <1>10, <2>2, CallsRest, RestsSame DEF Revive, ReviveEngine, store, RowKinds
  <2> QED
    BY <2>1, <2>2
<1>11. CASE LaunchReserve \/ LaunchEngine
  BY <1>0, <1>11, RestsSame, LaunchEngineDoes DEF RowKinds
<1>12. CASE LaunchSpawn
  <2>1. CASE row' = row
    BY <2>1, RestsSame DEF RowKinds
  <2>2. CASE sup' = sup /\ row' = Stopped(row, row.gen)
    <3>1. ~Up(row.gen)
      BY <1>0, <1>12 DEF LaunchSpawn, Calm, OwnInv, OwnerInv
    <3> QED
      BY <2>2, <3>1 DEF RowKinds, LaunchStops, Up
  <2> QED
    BY <1>0, <1>12, <2>1, <2>2, LaunchSpawnDoes
<1>13. CASE LaunchBind
  <2>1. row' \in {row, [row EXCEPT !.pid = PidOf(row.gen)]}
    BY <1>0, <1>13, LaunchBindDoes
  <2> QED
    BY <1>0, <2>1, RestsSame, CallsRest DEF RowKinds
<1>14. CASE LaunchRelease
  <2>1. row' = Stopped(row, row.gen) /\ row.gen \in Pty
    BY <1>0, <1>14, LaunchReleaseDoes, Launched DEF LaunchRelease
  <2>2. \A p \in Pty : p = row.gen => ~Up(p)'
    BY <1>0, <1>14, <2>1, LaunchReleaseDoes, ChildGoneDoes DEF host, Up
  <2> QED
    BY <2>1, <2>2 DEF RowKinds, LaunchStops
<1>15. CASE KillStart \/ KillSettle \/ Terminate("kill") \/ TerminateClear("kill")
  BY <1>0, <1>15, RestsSame, KillSettleEnds DEF KillStart, Terminate, TerminateClear, store, RowKinds
<1>16. CASE Crash \/ Start \/ UNCHANGED vars
  BY <1>16, RestsSame DEF Crash, Start, vars, store, RowKinds
<1> QED
  BY <1>0, Steps, <1>1, <1>2, <1>3, <1>4, <1>6, <1>7, <1>8, <1>9, <1>10, <1>11, <1>12, <1>13,
     <1>14, <1>15, <1>16 DEF Loop, Boot, Launching, Tasks

\* What the store calls do to a row that works only while it runs and is headless
\* while it is stopping.
Sound(r) == (r.work = "working" => r.runtime = "running") /\ (r.runtime = "stopping" => r.pres = "headless")

LEMMA CallsSound ==
  ASSUME NEW r \in Row, Sound(r), NEW s, NEW g, NEW epoch, NEW clients, NEW pid
  PROVE  /\ Sound(TurnStarted(r, g)) /\ Sound(TurnEnded(r, g)) /\ Sound(Stopped(r, g))
         /\ Sound(Observed(r, s, epoch, clients)) /\ Sound(Unobservable(r, s))
         /\ Sound(Reserved(r, pid))
         /\ (r.work = "idle" /\ r.pres = "headless" => Sound(EvictionReserved(r)))
<1>1. Sound(TurnStarted(r, g)) /\ Sound(TurnEnded(r, g)) /\ Sound(Stopped(r, g)) /\ Sound(Reserved(r, pid))
  BY DEF Sound, Row, TurnStarted, TurnEnded, EndsTurn, Stopped, AsStopped, RunningAt, Running,
     Reserved, NoRow
<1>2. Sound(Observed(r, s, epoch, clients)) /\ Sound(Unobservable(r, s))
  BY DEF Sound, Row, Observed, Unobservable, PresentationEdge, PresentationLost,
     EvictionCancelled, RunningAt, StoppingAt, Running
<1>3. r.work = "idle" /\ r.pres = "headless" => Sound(EvictionReserved(r))
  BY DEF Sound, Row, EvictionReserved
<1> QED
  BY <1>1, <1>2, <1>3

LEMMA AsStoppedIs ==
  ASSUME NEW r \in Row
  PROVE  /\ AsStopped(r).gen = r.gen /\ AsStopped(r).runtime = "stopped" /\ Sound(AsStopped(r))
         /\ AsStopped(r).pres = "unavailable"
BY DEF AsStopped, Row, Sound

LEMMA SoundStep ==
  ASSUME EvictCalm, [Next]_vars
  PROVE  Sound(row')
<1>0. row \in Row /\ Calm /\ Sound(row)
  BY DEF EvictCalm, EdgeCalm, Calm, IInv, TypeOK, TurnInv, Sound
<1>1. CASE Rests(row, row')
  <2>1. row' \in Row
    BY <1>0, NextStep DEF Calm, IInv, TypeOK
  <2> QED
    BY <1>0, <1>1, <2>1 DEF Rests, Sound, Row
<1>2. ASSUME NEW p \in Pty, TurnStarts(p) \/ TurnEnds(p) PROVE Sound(row')
  BY <1>0, <1>2, CallsSound DEF TurnStarts, TurnEnds
<1>3. CASE StopsEnded
  BY <1>0, <1>3, AsStoppedIs DEF StopsEnded
<1>4. ASSUME NEW s \in Row, Observes(s) PROVE Sound(row')
  BY <1>0, <1>4, CallsSound DEF Observes
<1>5. CASE ReserveEviction
  BY <1>0, <1>5, CallsSound DEF ReserveEviction, CanReserveEviction, IsDue
<1>6. ASSUME NEW a \in Tasks, EvictionUncontrolled(a) PROVE Sound(row')
  BY <1>0, <1>6, CallsSound DEF EvictionUncontrolled
<1>7. CASE LaunchReserve \/ LaunchStops
  BY <1>0, <1>7, CallsSound DEF LaunchReserve, LaunchStops
<1> QED
  BY StepKinds, <1>1, <1>2, <1>3, <1>4, <1>5, <1>6, <1>7 DEF RowKinds

\* A child that runs came with no turn and no end, and takes up and ends turns by itself.
LEMMA TurnsStep ==
  ASSUME Calm, [Next]_vars, NEW q \in Pty, Up(q)'
  PROVE  \/ Up(q) /\ sup'[q].end = sup[q].end /\ (sup'[q].turn = sup[q].turn \/ TurnStarts(q) \/ TurnEnds(q))
         \/ sup'[q].end = "none" /\ sup'[q].turn = "none"
<1>0. sup \in [Pty -> Sup]
  BY DEF Calm, IInv, TypeOK
<1>1. CASE UNCHANGED sup
  BY <1>1 DEF Up
<1>2. CASE ChildEnds
  <2>1. PICK p \in Pty : Up(p) /\ \E why \in {"exited", "evicted", "killed"} : ChildGone(p, why)
    BY <1>2 DEF ChildEnds
  <2> QED
    BY <1>0, <2>1, ChildGoneDoes DEF Up
<1>3. ASSUME NEW p \in Pty, Attach(p) \/ Detach(p) \/ TurnStarts(p) \/ TurnEnds(p)
      PROVE  Up(q) /\ sup'[q].end = sup[q].end /\ (sup'[q].turn = sup[q].turn \/ TurnStarts(q) \/ TurnEnds(q))
  <2>1. CASE Attach(p) \/ Detach(p)
    BY <1>0, <2>1 DEF Attach, Detach, Up, Sup
  <2>2. CASE TurnStarts(p)
    BY <1>0, <2>2 DEF TurnStarts, Up, Sup
  <2>3. CASE TurnEnds(p)
    BY <1>0, <2>3 DEF TurnEnds, Up, Sup
  <2> QED
    BY <1>3, <2>1, <2>2, <2>3
<1>4. ASSUME NEW p \in Pty, SupervisorCrashes(p) \/ Exit(p)
      PROVE  Up(q) /\ sup'[q] = sup[q]
  <2>1. sup' = sup \/ \E meta \in BOOLEAN : sup' = [sup EXCEPT ![p] = Dead(meta)]
    BY <1>4 DEF SupervisorCrashes, Exit, ExitCall, ExitLookup, ExitAct, ExitCallEnds
  <2>2. \A meta \in BOOLEAN : Dead(meta).state # "up"
    BY DEF Dead, NoSup
  <2> QED
    BY <1>0, <2>1, <2>2 DEF Up
<1>5. CASE LaunchSpawn
  <2> DEFINE s == [NoSup EXCEPT !.state = "up", !.meta = TRUE]
  <2>1. s.end = "none" /\ s.turn = "none"
    BY DEF NoSup
  <2>2. sup' = sup \/ sup' = [sup EXCEPT ![row.gen] = s]
    BY <1>0, <1>5, LaunchSpawnDoes
  <2> QED
    <3> HIDE DEF s
    <3> QED  BY <1>0, <2>1, <2>2 DEF Up
<1>6. CASE Terminate("kill")
  BY <1>0, <1>2, <1>6, TerminateDoes DEF Up
<1>7. CASE Crash
  <2>1. Dead(FALSE).state # "up"
    BY DEF Dead, NoSup
  <2>2. sup'[q] \in {sup[q], Dead(FALSE)}
    BY <1>7 DEF Crash
  <2>3. sup'[q] = sup[q]
    BY <2>1, <2>2 DEF Up
  <2> QED
    BY <1>0, <2>3 DEF Up
<1> QED
  BY HostWriters, <1>1, <1>2, <1>3, <1>4, <1>5, <1>6, <1>7

LEMMA CallsWork ==
  ASSUME NEW r \in Row, Running(r), r.work = "working", NEW s, NEW epoch, NEW clients
  PROVE  /\ TurnStarted(r, r.gen).work = "working"
         /\ Observed(r, s, epoch, clients).work = "working"
         /\ Unobservable(r, s).work = "working"
BY DEF Row, TurnStarted, Observed, Unobservable, PresentationEdge, PresentationLost,
  EvictionCancelled, RunningAt, StoppingAt, Running

\* The row of a child that runs works on until the child ends its turn.
LEMMA WorkStays ==
  ASSUME EvictCalm, [Next]_vars, NEW p \in Pty, Up(p), Up(p)', row.work = "working"
  PROVE  row'.work = "working" \/ TurnEnds(p)
<1>0. row \in Row /\ Calm /\ Running(row) /\ p = row.gen
  BY DEF EvictCalm, EdgeCalm, Calm, IInv, TypeOK, OwnInv, OwnerInv, TurnInv, Running
<1>1. CASE Rests(row, row')
  BY <1>1 DEF Rests
<1>2. ASSUME NEW q \in Pty, TurnStarts(q) \/ TurnEnds(q) PROVE row'.work = "working" \/ TurnEnds(p)
  <2>1. q = p
    BY <1>0, <1>2 DEF TurnStarts, TurnEnds, Calm, OwnInv, OwnerInv
  <2> QED
    BY <1>0, <1>2, <2>1, CallsWork DEF TurnStarts
<1>3. CASE StopsEnded
  BY <1>0, <1>3 DEF StopsEnded, Settled
<1>4. ASSUME NEW s \in Row, Observes(s) PROVE row'.work = "working"
  BY <1>0, <1>4, CallsWork DEF Observes
<1>5. CASE ReserveEviction
  BY <1>0, <1>5 DEF ReserveEviction, CanReserveEviction, IsDue
<1>6. ASSUME NEW a \in Tasks, EvictionUncontrolled(a) PROVE row'.work = "working"
  BY <1>0, <1>6, CallsWork DEF EvictionUncontrolled
<1>7. CASE LaunchReserve \/ LaunchStops
  BY <1>0, <1>7 DEF LaunchReserve, CanReserve, Running, LaunchStops
<1> QED
  BY StepKinds, <1>1, <1>2, <1>3, <1>4, <1>5, <1>6, <1>7 DEF RowKinds

LEMMA TurnInvStep ==
  ASSUME EvictCalm, [Next]_vars
  PROVE  TurnInv'
<1>0. Calm /\ sup \in [Pty -> Sup] /\ row \in Row
  BY DEF EvictCalm, EdgeCalm, Calm, IInv, TypeOK
<1>1. ASSUME NEW p \in Pty, Up(p)' PROVE sup'[p].end = "none"
  BY <1>0, <1>1, TurnsStep DEF EvictCalm, TurnInv
<1>2. ASSUME NEW p \in Pty, Up(p)', sup'[p].turn = "noted" PROVE row'.work = "working"
  <2>1. CASE TurnEnds(p)
    BY <1>0, <1>2, <2>1 DEF TurnEnds, Sup
  <2>2. CASE TurnStarts(p)
    <3>1. daemon = "up" /\ Running(row)
      BY <1>0, <1>2, <2>2 DEF TurnStarts, Sup
    <3> QED
      BY <1>0, <2>2, <3>1 DEF TurnStarts, TurnStarted, RunningAt, Row
  <2>3. CASE Up(p) /\ sup'[p].turn = sup[p].turn /\ ~TurnEnds(p)
    <3>1. row.work = "working"
      BY <1>2, <2>3 DEF EvictCalm, TurnInv
    <3> QED
      BY <1>2, <2>3, <3>1, WorkStays
  <2> QED
    BY <1>0, <1>2, <2>1, <2>2, <2>3, TurnsStep
<1> QED
  BY <1>1, <1>2, SoundStep DEF TurnInv, Sound, Up

----------------------------------------------------------------------------
(* What a step makes of an eviction a task carries out *)

Watching == {"probe", "apply", "lost", "kill", "changed", "uncontrolled"}

\* Task a begins to probe, or goes on with what it probes.
Probes(a) ==
  \/ task'[a].pc = "probe" /\ task'[a].snap = row /\ Running(row) /\ Bound(locator, row.gen)
  \/ task[a].pc = "probe" /\ task'[a].snap = task[a].snap /\ task'[a].pc \in {"apply", "lost"}

\* It takes up the eviction of the row it finds stopping, or reserves one.
TakesUp(a) ==
  task'[a].pc = "kill" /\
  ((task'[a].snap = row /\ row' = row /\ row.runtime = "stopping")
    \/ (task'[a].snap = row' /\ ReserveEviction /\ row' = EvictionReserved(row)))

\* It asks the supervisor to kill the child.
Kills(a) ==
  /\ task[a].pc = "kill" /\ task'[a].snap = task[a].snap /\ task'[a].pc \in {"changed", "uncontrolled"}
  /\ task'[a].pc = "uncontrolled" =>
       ~Bound(locator, task[a].snap.gen) \/ ~Up(locator.pty) \/ budget.faults > 0

Advances(a) ==
  task'[a] = task[a] \/ task'[a].pc \notin Watching \/ Probes(a) \/ TakesUp(a) \/ Kills(a)

LEMMA EnterAdvances ==
  ASSUME Calm, NEW a \in Tasks, NEW pc \in Pcs \ Watching, Enter(a, pc)
  PROVE  \A b \in Tasks : Advances(b)
<1>1. task \in [Tasks -> TaskOf] /\ IdleTask \in TaskOf
  BY Held, Constants
<1>2. task'[a] = [IdleTask EXCEPT !.pc = pc] /\ \A b \in Tasks \ {a} : task'[b] = task[b]
  BY <1>1 DEF Enter
<1>3. task'[a].pc = pc
  BY <1>1, <1>2 DEF TaskOf
<1> QED
  BY <1>2, <1>3 DEF Advances

LEMMA GotoAdvances ==
  ASSUME Calm, NEW a \in Tasks, NEW pc \in Pcs \ Watching, Goto(a, pc)
  PROVE  \A b \in Tasks : Advances(b)
BY GotoDoes DEF Advances

LEMMA ReplayingAdvances ==
  ASSUME Calm, [Next]_vars, NEW a \in Tasks,
         Tick(a) \/ Replayed(a) \/ ReplayExit(a) \/ \E p \in task[a].todo : Replay(a, p)
  PROVE  \A b \in Tasks : Advances(b)
<1>1. task \in [Tasks -> TaskOf] /\ IdleTask \in TaskOf
  BY Held, Constants
<1>2. CASE Tick(a)
  <2> DEFINE t == [IdleTask EXCEPT !.pc = "replay", !.todo = reports]
  <2>1. t.pc = "replay"
    BY <1>1 DEF TaskOf
  <2>2. task'[a] = t /\ \A b \in Tasks \ {a} : task'[b] = task[b]
    BY <1>1, <1>2 DEF Tick
  <2> QED
    BY <2>1, <2>2 DEF Advances, Watching
<1>3. CASE Replayed(a)
  BY <1>3, EnterAdvances DEF Replayed, Pcs, Watching
<1>4. CASE ReplayExit(a)
  <2> DEFINE t == [IdleTask EXCEPT !.pc = "replay", !.todo = Task(a).todo \ {Task(a).pty}]
  <2>1. t.pc = "replay"
    BY <1>1 DEF TaskOf
  <2>2. task'[a] = t /\ \A b \in Tasks \ {a} : task'[b] = task[b]
    BY <1>1, <1>4 DEF ReplayExit
  <2> QED
    BY <2>1, <2>2 DEF Advances, Watching
<1>5. ASSUME NEW p \in task[a].todo, Replay(a, p) PROVE \A b \in Tasks : Advances(b)
  <2>1. task'[a].pc \in {"replaying", "replay"} /\ \A b \in Tasks \ {a} : task'[b] = task[b]
    BY <1>1, <1>5 DEF Replay, TaskOf, Task
  <2> QED
    BY <2>1 DEF Advances, Watching
<1> QED
  BY <1>2, <1>3, <1>4, <1>5

LEMMA PresentAdvances ==
  ASSUME Calm, [Next]_vars, Present \/ Probe
  PROVE  \A b \in Tasks : Advances(b)
<1>1. task \in [Tasks -> TaskOf] /\ "loop" \in Tasks
  BY Held DEF Tasks
<1>2. CASE Present
  <2>1. \A b \in Tasks \ {"loop"} : task'[b] = task[b]
    BY <1>1, <1>2 DEF Present
  <2>2. Advances("loop")
    BY <1>1, <1>2 DEF Present, Advances, Probes, Watching, TaskOf
  <2> QED
    BY <2>1, <2>2 DEF Advances
<1>3. CASE Probe
  <2>1. CASE Goto("loop", "lost")
    BY <1>1, <1>3, <2>1, GotoDoes DEF Probe, Task, Advances, Probes, Pcs
  <2>2. CASE ~Goto("loop", "lost")
    <3>1. PICK e, c : task' = [task EXCEPT !["loop"].pc = "apply", !["loop"].epoch = e, !["loop"].clients = c]
      BY <1>3, <2>2, Zenon DEF Probe
    <3>2. /\ task'["loop"].pc = "apply" /\ task'["loop"].snap = task["loop"].snap
          /\ \A b \in Tasks \ {"loop"} : task'[b] = task[b]
      BY <1>1, <3>1 DEF TaskOf
    <3> QED
      BY <1>3, <3>2 DEF Probe, Task, Advances, Probes
  <2> QED
    BY <2>1, <2>2
<1> QED
  BY <1>2, <1>3

LEMMA KillAdvances ==
  ASSUME Calm, [Next]_vars, NEW a \in Tasks, KillIfHeadless(a)
  PROVE  \A b \in Tasks : Advances(b)
<1>1. task \in [Tasks -> TaskOf] /\ task[a].pc = "kill"
  BY Held DEF KillIfHeadless, Task
<1>2. CASE Goto(a, "finalize")
  BY <1>2, GotoAdvances DEF Pcs, Watching
<1>3. CASE Goto(a, "uncontrolled") /\ ~Goto(a, "finalize")
  <2>1. /\ task'[a].pc = "uncontrolled" /\ task'[a].snap = task[a].snap
        /\ \A b \in Tasks \ {a} : task'[b] = task[b]
    BY <1>3, GotoDoes DEF Pcs
  <2>2. ASSUME NEW e, NEW c, task' = [task EXCEPT ![a].pc = "changed", ![a].epoch = e, ![a].clients = c]
        PROVE  FALSE
    <3>1. task'[a].pc = "changed"
      BY <2>2, AnswerDoes
    <3> QED
      BY <2>1, <3>1
  <2>3. ~Bound(locator, task[a].snap.gen) \/ ~Up(locator.pty) \/ budget.faults > 0
    <3>1. \/ Use("faults") \/ ~Bound(locator, task[a].snap.gen) \/ ~Up(locator.pty)
      BY <1>3, <2>2, Zenon DEF KillIfHeadless, Task
    <3> QED
      BY <3>1 DEF Use
  <2> QED
    BY <1>1, <2>1, <2>3 DEF Advances, Kills
<1>4. CASE ~Goto(a, "uncontrolled") /\ ~Goto(a, "finalize")
  <2>1. PICK e, c : task' = [task EXCEPT ![a].pc = "changed", ![a].epoch = e, ![a].clients = c]
    BY <1>4, Zenon DEF KillIfHeadless
  <2>2. /\ task'[a].pc = "changed" /\ task'[a].snap = task[a].snap
        /\ \A b \in Tasks \ {a} : task'[b] = task[b]
    BY <1>1, <2>1 DEF TaskOf
  <2> QED
    BY <1>1, <2>2 DEF Advances, Kills
<1> QED
  BY <1>2, <1>3, <1>4

LEMMA EvictAdvances ==
  ASSUME Calm, [Next]_vars, ListDue \/ ReserveEviction \/ \E a \in Tasks : ListStopping(a)
  PROVE  \A b \in Tasks : Advances(b)
<1>1. task \in [Tasks -> TaskOf] /\ "loop" \in Tasks /\ IdleTask.pc = "start"
  BY Held DEF Tasks, IdleTask
<1>2. CASE task' = [task EXCEPT !["loop"] = IdleTask]
  <2>1. task'["loop"].pc = "start" /\ \A b \in Tasks \ {"loop"} : task'[b] = task[b]
    BY <1>1, <1>2
  <2> QED
    BY <2>1 DEF Advances, Watching
<1>3. CASE ListDue /\ ~(task' = [task EXCEPT !["loop"] = IdleTask])
  <2>1. task'["loop"].pc = "reserve" /\ \A b \in Tasks \ {"loop"} : task'[b] = task[b]
    BY <1>1, <1>3 DEF ListDue, TaskOf
  <2> QED
    BY <2>1 DEF Advances, Watching
<1>4. CASE ReserveEviction /\ ~(task' = [task EXCEPT !["loop"] = IdleTask])
  <2>1. /\ task'["loop"].pc = "kill" /\ task'["loop"].snap = row' /\ row' = EvictionReserved(row)
        /\ \A b \in Tasks \ {"loop"} : task'[b] = task[b]
    BY <1>1, <1>4 DEF ReserveEviction, TaskOf
  <2> QED
    BY <1>4, <2>1 DEF Advances, TakesUp
<1>5. ASSUME NEW a \in Tasks, ListStopping(a) PROVE \A b \in Tasks : Advances(b)
  <2>1. \A b \in Tasks \ {a} : task'[b] = task[b]
    BY <1>1, <1>5 DEF ListStopping
  <2>2. CASE row.runtime = "stopping"
    <3>1. task'[a].pc = "kill" /\ task'[a].snap = row /\ row' = row
      <4>1. PICK r, n : /\ r = row
                        /\ task' = [task EXCEPT ![a] = [@ EXCEPT !.pc = "kill", !.snap = r, !.then = n]]
        BY <1>5, <2>2, Zenon DEF ListStopping
      <4>2. task'[a].pc = "kill" /\ task'[a].snap = r
        BY <1>1, <4>1 DEF TaskOf
      <4> QED
        BY <1>5, <4>1, <4>2 DEF ListStopping, store
    <3> QED
      BY <2>1, <2>2, <3>1 DEF Advances, TakesUp
  <2>3. CASE row.runtime # "stopping"
    <3>1. task'[a].pc \in {"due", "revive"}
      BY <1>1, <1>5, <2>3 DEF ListStopping, TaskOf
    <3> QED
      BY <2>1, <3>1 DEF Advances, Watching
  <2> QED
    BY <2>2, <2>3
<1> QED
  BY <1>2, <1>3, <1>4, <1>5

LEMMA TasksAdvance ==
  ASSUME Calm, [Next]_vars
  PROVE  \A b \in Tasks : Advances(b)
<1>0. "loop" \in Tasks /\ "boot" \in Tasks
  BY DEF Tasks
<1>1. ASSUME NEW a \in Tasks, Settle(a) PROVE \A b \in Tasks : Advances(b)
  <2>1. CASE FinalizeEviction(a) \/ EvictionChanged(a) \/ EvictionUncontrolled(a)
    <3>1. Enter(a, task[a].then) /\ task[a].then \in {"start", "due", "revive"}
      BY <2>1, Held DEF FinalizeEviction, EvictionChanged, EvictionUncontrolled, Leave, Task, Holds
    <3> QED
      BY <3>1, EnterAdvances DEF Pcs, Watching
  <2> QED
    BY <1>1, <2>1, ReplayingAdvances, EvictAdvances, KillAdvances DEF Settle, Task
<1>2. CASE Present \/ Probe \/ ListDue \/ ReserveEviction
  BY <1>2, PresentAdvances, EvictAdvances
<1>3. CASE ApplyProbe \/ ProbeLost
  BY <1>0, <1>3, EnterAdvances DEF ApplyProbe, ProbeLost, Pcs, Watching
<1>4. CASE Revive \/ ReviveEngine
  BY <1>0, <1>4, GotoAdvances DEF Revive, ReviveEngine, Pcs, Watching
<1>5. CASE Crash \/ Start
  <2>1. \A a \in Tasks : task'[a] \in {IdleTask, [IdleTask EXCEPT !.pc = "done"]}
    BY <1>5 DEF Crash, Start
  <2>2. \A t \in {IdleTask, [IdleTask EXCEPT !.pc = "done"]} : t.pc \in {"start", "done"}
    BY DEF IdleTask
  <2>3. \A a \in Tasks : task'[a].pc \in {"start", "done"}
    BY <2>1, <2>2
  <2> QED
    BY <2>3 DEF Advances, Watching
<1>6. CASE UNCHANGED task
  BY <1>6 DEF Advances
<1>7. \/ \E a \in Tasks : Settle(a)
      \/ Present \/ Probe \/ ListDue \/ ReserveEviction \/ ApplyProbe \/ ProbeLost
      \/ Revive \/ ReviveEngine \/ Crash \/ Start \/ UNCHANGED task
  BY <1>0, Steps DEF Supervisor, Attach, Detach, TurnStarts, TurnEnds, ChildExits,
     SupervisorCrashes, Exit, ExitCall, ExitLookup, ExitAct, PresentationChanged, Message,
     Inject, ClearDeadEndpoint, DeadlineElapses, Engine, EngineLeaves, EngineTeardown,
     Loop, Boot, LaunchReserve, Launching, LaunchSpawn, LaunchBind, LaunchEngine,
     LaunchRelease, KillStart, KillSettle, Terminate, TerminateClear, vars
<1> QED
  BY <1>1, <1>2, <1>3, <1>4, <1>5, <1>6, <1>7

----------------------------------------------------------------------------
(* Every step keeps the locator of what is watched *)

KillCalm == EvictCalm /\ KillInv

\* A session whose presentation is known, and one a task probes or is to kill, has had a child.
LEMMA WatchedSpawned ==
  ASSUME KillCalm
  PROVE  /\ row.runtime # "stopped" /\ row.pres # "unavailable" => Spawned(row.gen)
         /\ row.runtime = "stopping" => Spawned(row.gen) /\ BoundWhileUp(row.gen)
         /\ \A a \in Tasks : task[a].pc \in {"probe", "apply", "kill", "changed"} => Spawned(task[a].snap.gen)
<1>0. Calm /\ Shown
  BY DEF KillCalm, EvictCalm, EdgeCalm, EdgeInv
<1>1. row.runtime # "stopped" /\ row.pres # "unavailable" => Spawned(row.gen)
  BY <1>0 DEF Shown, Seen
<1>2. row.runtime = "stopping" => Spawned(row.gen) /\ BoundWhileUp(row.gen)
  BY <1>1 DEF KillCalm, EvictCalm, TurnInv, BoundInv
<1>3. ASSUME NEW a \in Tasks, task[a].pc \in {"probe", "apply", "kill", "changed"}
      PROVE  Spawned(task[a].snap.gen)
  <2>1. CASE task[a].pc \in {"probe", "apply"}
    BY <1>0, <2>1, Held DEF Holds, Known, Spawned, Unbound, Unspawned
  <2>2. CASE task[a].pc = "changed"
    BY <2>2 DEF KillCalm, EvictCalm, EdgeCalm, EdgeInv, Told, Seen
  <2>3. CASE task[a].pc = "kill"
    BY <1>2, <2>3 DEF KillCalm, KillInv, Fresh, StoppingAt, Passed
  <2> QED
    BY <1>3, <2>1, <2>2, <2>3
<1> QED
  BY <1>1, <1>2, <1>3

LEMMA RowEdgeKept ==
  ASSUME EvictCalm, [Next]_vars
  PROVE  EdgeKept(row, row') \/ \E s \in Row : Observes(s) /\ row'.gen = s.gen
<1>0. row \in Row
  BY DEF EvictCalm, EdgeCalm, Calm, IInv, TypeOK
<1>1. CASE Rests(row, row')
  BY <1>1 DEF Rests
<1>2. ASSUME NEW p \in Pty, TurnStarts(p) \/ TurnEnds(p) PROVE EdgeKept(row, row')
  BY <1>0, <1>2, TurnsKeepEdge, EdgeSame DEF TurnStarts, TurnEnds
<1>3. CASE StopsEnded
  BY <1>0, <1>3, AsStoppedIs, EdgeSame DEF StopsEnded, EdgeKept
<1>4. ASSUME NEW s \in Row, Observes(s) PROVE EdgeKept(row, row') \/ row'.gen = s.gen
  BY <1>0, <1>4, ObservedEdge DEF Observes, EdgeApplied
<1>5. CASE ReserveEviction
  BY <1>0, <1>5, EvictionKeepsEdge, EdgeSame DEF ReserveEviction, CanReserveEviction, IsDue
<1>6. ASSUME NEW a \in Tasks, EvictionUncontrolled(a) PROVE EdgeKept(row, row')
  BY <1>0, <1>6, StopsKeepEdge DEF EvictionUncontrolled
<1>7. CASE LaunchReserve \/ LaunchStops
  BY <1>0, <1>7, StopsKeepEdge DEF LaunchReserve, LaunchStops
<1> QED
  BY StepKinds, <1>1, <1>2, <1>3, <1>4, <1>5, <1>6, <1>7 DEF RowKinds

LEMMA BoundInvStep ==
  ASSUME KillCalm, [Next]_vars
  PROVE  BoundInv'
<1>0. EvictCalm /\ Calm /\ row \in Row /\ row' \in Row
  BY NextStep DEF KillCalm, EvictCalm, EdgeCalm, Calm, IInv, TypeOK
<1>1. ASSUME row'.runtime # "stopped", row'.pres # "unavailable"
      PROVE  \A g : g = row'.gen => BoundWhileUp(g)'
  <2>1. Spawned(row'.gen) /\ BoundWhileUp(row'.gen)
    <3>1. CASE EdgeKept(row, row')
      BY <1>0, <1>1, <3>1, WatchedSpawned DEF EdgeKept, EvictCalm, BoundInv
    <3>2. ASSUME NEW s \in Row, Observes(s), row'.gen = s.gen PROVE Spawned(row'.gen) /\ BoundWhileUp(row'.gen)
      BY <3>2 DEF Observes, Told, Seen
    <3> QED
      BY <1>0, <3>1, <3>2, RowEdgeKept
  <2>2. PICK g \in 0..MaxGen : g = row'.gen
    BY <1>0 DEF Row
  <2>3. BoundWhileUp(g)'
    BY <1>0, <2>1, <2>2, BoundStays
  <2> QED
    BY <2>2, <2>3
<1>2. ASSUME NEW a \in Tasks, task'[a].pc \in {"probe", "apply", "kill", "changed"}
      PROVE  \A g : g = task'[a].snap.gen => BoundWhileUp(g)'
  <2>1. \E g \in 0..MaxGen : g = task'[a].snap.gen /\ Spawned(g) /\ BoundWhileUp(g)
    <3>0. task[a].snap.gen \in 0..MaxGen /\ row.gen \in 0..MaxGen
      BY <1>0, Held DEF Row
    <3>1. CASE task'[a] = task[a]
      BY <1>0, <1>2, <3>0, <3>1, WatchedSpawned DEF EvictCalm, BoundInv
    <3>2. CASE Probes(a)
      <4>1. CASE task'[a].snap = row /\ Bound(locator, row.gen)
        BY <1>0, <3>0, <4>1, BoundSettles DEF BoundWhileUp, Known, Spawned, Unbound, Unspawned
      <4>2. CASE task[a].pc = "probe" /\ task'[a].snap = task[a].snap
        BY <1>0, <3>0, <4>2, WatchedSpawned DEF EvictCalm, BoundInv
      <4> QED
        BY <3>2, <4>1, <4>2 DEF Probes
    <3>3. CASE TakesUp(a)
      <4>1. CASE task'[a].snap = row /\ row.runtime = "stopping"
        BY <3>0, <4>1, WatchedSpawned
      <4>2. CASE task'[a].snap = row' /\ ReserveEviction /\ row' = EvictionReserved(row)
        <5>1. row'.gen = row.gen
          BY <1>0, <4>2 DEF EvictionReserved, Row
        <5>2. row.runtime # "stopped" /\ row.pres # "unavailable"
          <6>1. CASE CanReserveEviction(row, task["loop"].snap, inbox)
            BY <6>1 DEF CanReserveEviction, IsDue, Running
          <6>2. CASE ~CanReserveEviction(row, task["loop"].snap, inbox)
            <7>1. row' = row
              BY <4>2, <6>2 DEF ReserveEviction, Task
            <7>2. row'.runtime = "stopping"
              BY <1>0, <4>2 DEF EvictionReserved, Row
            <7> QED
              BY <1>0, <7>1, <7>2 DEF EvictCalm, TurnInv
          <6> QED
            BY <6>1, <6>2
        <5> QED
          BY <1>0, <3>0, <4>2, <5>1, <5>2, WatchedSpawned DEF EvictCalm, BoundInv
      <4> QED
        BY <3>3, <4>1, <4>2 DEF TakesUp
    <3>4. CASE Kills(a)
      BY <1>0, <3>0, <3>4, WatchedSpawned DEF Kills, EvictCalm, BoundInv
    <3> QED
      BY <1>0, <1>2, <3>1, <3>2, <3>3, <3>4, TasksAdvance DEF Advances, Watching
  <2> QED
    BY <1>0, <2>1, BoundStays
<1>3. ASSUME NEW a \in Tasks, task'[a].pc \in {"probe", "lost"} PROVE Running(task'[a].snap)
  <2>1. CASE task'[a] = task[a]
    BY <1>0, <1>3, <2>1 DEF EvictCalm, BoundInv
  <2>2. CASE Probes(a)
    BY <1>0, <2>2 DEF Probes, EvictCalm, BoundInv
  <2> QED
    BY <1>0, <1>3, <2>1, <2>2, TasksAdvance DEF Advances, Watching, TakesUp, Kills
<1> QED
  BY <1>1, <1>2, <1>3 DEF BoundInv, BoundWhileUp, Bound, Up, Running

----------------------------------------------------------------------------
(* Every step keeps the fence of the kills *)

LEMMA PassedStays ==
  ASSUME Calm, [Next]_vars, NEW g \in 0..MaxGen, NEW e \in Nat, Passed(g, e)
  PROVE  Passed(g, e)'
<1>1. Up(g) => sup[g].epoch \in Nat
  BY DEF Up, Calm, IInv, TypeOK, Sup
<1>2. Up(g)' => sup'[g].epoch \in Nat
  BY NextStep DEF Up, Calm, IInv, TypeOK, Sup
<1> QED
  BY <1>1, <1>2, Settling DEF Passed

\* An eviction ends as one whose child has ended or has had a client since, or is given up.
LEMMA StoppingEnds ==
  ASSUME KillCalm, [Next]_vars, row.runtime = "stopping"
  PROVE  \/ row'.gen = row.gen /\ row'.runtime = "stopping" /\ row'.life = row.life /\ row'.att = row.att
         \/ Passed(row.gen, row.att)
         \/ \E a \in Tasks : EvictionUncontrolled(a) /\ task[a].snap.gen = row.gen
<1> DEFINE Goes == row'.gen = row.gen /\ row'.runtime = "stopping" /\ row'.life = row.life /\ row'.att = row.att
<1>0. row \in Row /\ Calm /\ EvictCalm /\ row.gen \in 0..MaxGen /\ Spawned(row.gen)
  BY WatchedSpawned DEF KillCalm, EvictCalm, EdgeCalm, Calm, IInv, TypeOK, Row
<1>1. CASE Rests(row, row')
  BY <1>1 DEF Rests
<1>2. ASSUME NEW p \in Pty, TurnStarts(p) \/ TurnEnds(p) PROVE Goes
  BY <1>2 DEF TurnStarts, TurnEnds, TurnStarted, TurnEnded, EndsTurn, RunningAt, Running
<1>3. CASE StopsEnded
  <2>1. CASE row' = row
    BY <2>1
  <2>2. CASE Settled(row.gen)
    BY <1>0, <2>2 DEF Settled, Passed
  <2> QED
    BY <1>3, <2>1, <2>2 DEF StopsEnded
<1>4. ASSUME NEW s \in Row, Observes(s) PROVE Goes \/ Passed(row.gen, row.att)
  <2>1. PICK epoch \in Nat, clients \in {0, 1} : row' = Observed(row, s, epoch, clients) /\ Told(s.gen, epoch, clients)
    BY <1>4 DEF Observes
  <2>2. CASE s.gen = row.gen /\ row.att < epoch
    <3>1. row.att \in Nat /\ (Up(row.gen) => sup[row.gen].epoch \in Nat)
      BY <1>0 DEF Row, Up, Calm, IInv, TypeOK, Sup
    <3>2. Up(row.gen) => epoch <= sup[row.gen].epoch
      BY <2>1, <2>2 DEF Told, Seen
    <3>3. Up(row.gen) => sup[row.gen].epoch > row.att
      BY <2>2, <3>1, <3>2
    <3> QED
      BY <1>0, <3>3 DEF Passed
  <2>3. CASE ~(s.gen = row.gen /\ row.att < epoch)
    <3>1. row' = row
      BY <2>1, <2>3 DEF Observed, PresentationEdge, EvictionCancelled, RunningAt, StoppingAt, Running, PresentationOf
    <3> QED
      BY <3>1
  <2> QED
    BY <2>2, <2>3
<1>5. CASE ReserveEviction
  BY <1>5 DEF ReserveEviction, CanReserveEviction, IsDue, Running
<1>6. ASSUME NEW a \in Tasks, EvictionUncontrolled(a) PROVE Goes \/ task[a].snap.gen = row.gen
  BY <1>6 DEF EvictionUncontrolled, Task, Unobservable, PresentationLost, EvictionCancelled, RunningAt,
     StoppingAt, Running
<1>7. CASE LaunchReserve \/ LaunchStops
  BY <1>7 DEF LaunchReserve, CanReserve, LaunchStops, Stopped, RunningAt, Running
<1> QED
  BY <1>0, StepKinds, <1>1, <1>2, <1>3, <1>4, <1>5, <1>6, <1>7 DEF RowKinds

LEMMA BootDone ==
  ASSUME KillCalm, [Next]_vars, Alone
  PROVE  Alone'
<1>0. Calm /\ task \in [Tasks -> TaskOf] /\ "boot" \in Tasks /\ "loop" \in Tasks
  BY Held DEF KillCalm, EvictCalm, EdgeCalm, Tasks
<1>1. budget'.crashes = 0
  <2>1. budget.crashes = 0 /\ budget'.crashes \in Nat /\ budget'.crashes <= budget.crashes
    BY <1>0, FeaturesStay, NextStep DEF Alone, Calm, IInv, TypeOK, Budget
  <2> QED
    BY <2>1
<1>2. ~Crash /\ ~Start
  <2>1. ~Use("crashes") /\ daemon # "down"
    BY DEF Use, Alone
  <2> QED
    BY <2>1 DEF Crash, Start
<1>3. ~Boot
  BY DEF Alone, Boot, Settle, Tick, Replay, ReplayExit, Replayed, ListStopping, KillIfHeadless,
     FinalizeEviction, EvictionChanged, EvictionUncontrolled, Revive, ReviveEngine, Task
<1>4. ASSUME Loop PROVE task'["boot"] = task["boot"]
  <2>1. CASE Settle("loop")
    BY <1>0, <2>1 DEF Settle, Tick, Replay, ReplayExit, Replayed, ListStopping, KillIfHeadless,
       FinalizeEviction, EvictionChanged, EvictionUncontrolled, Enter, Goto, Leave
  <2>2. CASE ~Settle("loop")
    BY <1>0, <1>4, <2>2 DEF Loop, Present, Probe, ApplyProbe, ProbeLost, ListDue, ReserveEviction,
       Enter, Goto
  <2> QED
    BY <2>1, <2>2
<1>5. ASSUME ~Loop PROVE task' = task
  BY <1>0, <1>2, <1>3, <1>5, Steps DEF Supervisor, Attach, Detach, TurnStarts, TurnEnds, ChildExits,
     SupervisorCrashes, Exit, ExitCall, ExitLookup, ExitAct, PresentationChanged, Message,
     Inject, ClearDeadEndpoint, DeadlineElapses, Engine, EngineLeaves, EngineTeardown,
     LaunchReserve, Launching, LaunchSpawn, LaunchBind, LaunchEngine,
     LaunchRelease, KillStart, KillSettle, Terminate, TerminateClear, vars
<1>6. daemon' = daemon
  BY <1>0, <1>2, Steps DEF Supervisor, Attach, Detach, TurnStarts, TurnEnds, ChildExits,
     SupervisorCrashes, Exit, ExitCall, ExitLookup, ExitAct, PresentationChanged, Message,
     Inject, ClearDeadEndpoint, DeadlineElapses, Engine, EngineLeaves, EngineTeardown,
     Loop, Boot, Settle, Tick, Replay, ReplayExit, Replayed, Present, Probe, ApplyProbe,
     ProbeLost, ListStopping, KillIfHeadless, FinalizeEviction, EvictionChanged,
     EvictionUncontrolled, ListDue, ReserveEviction, Revive, ReviveEngine,
     LaunchReserve, Launching, LaunchSpawn, LaunchBind, LaunchEngine,
     LaunchRelease, KillStart, KillSettle, Terminate, TerminateClear, vars
<1> QED
  BY <1>1, <1>4, <1>5, <1>6 DEF Alone

LEMMA ProvenStep ==
  ASSUME KillCalm, [Next]_vars, Proven
  PROVE  Proven'
<1>0. Calm /\ budget.faults = 0
  BY DEF KillCalm, EvictCalm, EdgeCalm, Proven
<1>1. budget'.faults = 0
  <2>1. budget'.faults \in Nat /\ budget'.faults <= budget.faults
    BY <1>0, FeaturesStay, NextStep DEF Calm, IInv, TypeOK, Budget
  <2> QED
    BY <1>0, <2>1
<1>2. ASSUME NEW a \in Tasks, task'[a].pc = "uncontrolled"
      PROVE  \A g : g = task'[a].snap.gen => Ended(g)'
  <2>1. task[a].snap.gen \in 0..MaxGen
    BY <1>0, Held
  <2>2. Ended(task[a].snap.gen) /\ task'[a].snap = task[a].snap
    <3>1. CASE task'[a] = task[a]
      BY <1>2, <3>1 DEF Proven
    <3>2. CASE Kills(a)
      <4>1. /\ task'[a].snap = task[a].snap
            /\ ~Bound(locator, task[a].snap.gen) \/ ~Up(locator.pty)
        BY <1>0, <1>2, <3>2 DEF Kills
      <4>2. Spawned(task[a].snap.gen) /\ BoundWhileUp(task[a].snap.gen)
        BY <3>2, WatchedSpawned DEF Kills, KillCalm, EvictCalm, BoundInv
      <4>3. ~Up(task[a].snap.gen)
        BY <1>0, <4>1, <4>2, BoundSettles DEF BoundWhileUp
      <4> QED
        BY <4>1, <4>2, <4>3 DEF Ended
    <3> QED
      BY <1>0, <1>2, <3>1, <3>2, TasksAdvance DEF Advances, Watching, Probes, TakesUp
  <2> QED
    BY <1>0, <2>1, <2>2, Settling
<1> QED
  BY <1>1, <1>2 DEF Proven, Ended, Spawned, Unspawned, Up

LEMMA FreshStep ==
  ASSUME KillCalm, [Next]_vars, NEW a \in Tasks, task'[a].pc = "kill"
  PROVE  Fresh(task[a].snap)'
<1>0. Calm /\ row \in Row /\ row' \in Row /\ task[a].snap \in Row
  BY NextStep, Held DEF KillCalm, EvictCalm, EdgeCalm, Calm, IInv, TypeOK
<1>1. CASE TakesUp(a)
  BY <1>0, <1>1 DEF TakesUp, Fresh, StoppingAt, EvictionReserved, Row
<1>2. CASE task'[a] = task[a]
  <2> DEFINE s == task[a].snap
  <2>1. s.gen \in 0..MaxGen /\ s.att \in Nat
    BY <1>0 DEF Row
  <2>2. CASE Passed(s.gen, s.att)
    <3>1. PICK g \in 0..MaxGen, e \in Nat : g = s.gen /\ e = s.att
      BY <2>1
    <3>2. Passed(g, e)'
      BY <1>0, <2>2, <3>1, PassedStays
    <3> QED
      BY <1>2, <3>1, <3>2 DEF Fresh, Passed, Spawned, Unspawned, Up
  <2>3. CASE StoppingAt(row, s.gen, s.life) /\ row.att = s.att /\ ~Passed(s.gen, s.att)
    <3>1. row.runtime = "stopping" /\ row.gen = s.gen /\ row.life = s.life
      BY <2>3 DEF StoppingAt
    <3>2. ASSUME NEW b \in Tasks, EvictionUncontrolled(b), task[b].snap.gen = row.gen PROVE FALSE
      <4>1. task[b].pc = "uncontrolled" /\ task[a].pc = "kill"
        BY <1>2, <3>2 DEF EvictionUncontrolled, Task
      <4>2. CASE Alone
        <5>1. b = "loop" /\ a = "loop"
          BY <4>1, <4>2 DEF Alone, Tasks
        <5> QED
          BY <4>1, <5>1
      <4>3. CASE Proven
        BY <2>3, <3>1, <3>2, <4>1, <4>3 DEF Proven, Ended, Passed
      <4> QED
        BY <4>2, <4>3 DEF KillCalm, KillInv
    <3>3. row'.gen = row.gen /\ row'.runtime = "stopping" /\ row'.life = row.life /\ row'.att = row.att
      BY <2>3, <3>1, <3>2, StoppingEnds
    <3> QED
      BY <1>2, <2>3, <3>1, <3>3 DEF Fresh, StoppingAt
  <2>4. Fresh(s)
    BY <1>2 DEF KillCalm, KillInv
  <2> QED
    BY <2>2, <2>3, <2>4 DEF Fresh
<1> QED
  BY <1>0, <1>1, <1>2, TasksAdvance DEF Advances, Watching, Probes, Kills

LEMMA KillInvStep ==
  ASSUME KillCalm, [Next]_vars
  PROVE  KillInv'
<1>1. \A a \in Tasks : task'[a].pc = "kill" => Fresh(task[a].snap)'
  BY FreshStep
<1>2. Alone' \/ Proven'
  BY BootDone, ProvenStep DEF KillCalm, KillInv
<1> QED
  BY <1>1, <1>2 DEF KillInv

----------------------------------------------------------------------------
(* Evictions end idle runtimes only *)

\* Task a kills the child of p, which is as its snapshot says.
Evicts(a, p) ==
  /\ task[a].pc = "kill" /\ p = task[a].snap.gen /\ Up(p)
  /\ sup[p].clients = 0 /\ sup[p].epoch = task[a].snap.att

LEMMA EndStep ==
  ASSUME Calm, TurnInv, [Next]_vars, NEW p \in Pty, sup'[p].end = "evicted"
  PROVE  /\ sup'[p].clients = sup[p].clients /\ sup'[p].turn = sup[p].turn
         /\ sup[p].end = "evicted" \/ \E a \in Tasks : Evicts(a, p)
<1>0. sup \in [Pty -> Sup] /\ (Up(p) => sup[p].end = "none")
  BY DEF Calm, IInv, TypeOK, TurnInv
<1>1. CASE UNCHANGED sup
  BY <1>1
<1>2. ASSUME NEW q \in Pty, NEW why \in {"exited", "killed"}, Up(q), ChildGone(q, why)
      PROVE  sup'[p] = sup[p]
  BY <1>2, ChildGoneDoes
<1>3. ASSUME NEW q \in Pty, Attach(q) \/ Detach(q) \/ TurnStarts(q) \/ TurnEnds(q)
      PROVE  sup'[p] = sup[p]
  BY <1>0, <1>3, SupervisorDoes, TurnsStep
<1>4. ASSUME NEW q \in Pty, SupervisorCrashes(q) \/ Exit(q)
      PROVE  sup'[p] = sup[p]
  <2>1. sup' = sup \/ \E meta \in BOOLEAN : sup' = [sup EXCEPT ![q] = Dead(meta)]
    BY <1>4 DEF SupervisorCrashes, Exit, ExitCall, ExitLookup, ExitAct, ExitCallEnds
  <2>2. \A meta \in BOOLEAN : Dead(meta).end = "none"
    BY DEF Dead, NoSup
  <2> QED
    BY <1>0, <2>1, <2>2
<1>5. CASE LaunchSpawn
  <2> DEFINE s == [NoSup EXCEPT !.state = "up", !.meta = TRUE]
  <2>1. s.end = "none"
    BY DEF NoSup
  <2>2. sup' = sup \/ sup' = [sup EXCEPT ![row.gen] = s]
    BY <1>0, <1>5, LaunchSpawnDoes
  <2>3. sup'[p] = sup[p]
    <3> HIDE DEF s
    <3> QED  BY <1>0, <2>1, <2>2
  <2> QED
    BY <2>3
<1>6. CASE Terminate("kill")
  <2>1. CASE \E q \in Pty : Up(q) /\ ChildGone(q, "killed")
    BY <1>2, <2>1
  <2>2. CASE sup' = sup \/ sup' = [sup EXCEPT ![locator.pty].meta = FALSE]
    BY <1>0, <2>2 DEF Sup
  <2> QED
    BY <1>6, <2>1, <2>2 DEF Terminate, Up, host
<1>7. CASE Crash
  <2>1. Dead(FALSE).end = "none"
    BY DEF Dead, NoSup
  <2>2. sup'[p] \in {sup[p], Dead(FALSE)}
    BY <1>7 DEF Crash
  <2>3. sup'[p] = sup[p]
    BY <2>1, <2>2
  <2> QED
    BY <2>3
<1>8. ASSUME NEW a \in Tasks, KillIfHeadless(a)
      PROVE  /\ sup'[p].clients = sup[p].clients /\ sup'[p].turn = sup[p].turn
             /\ sup[p].end = "evicted" \/ Evicts(a, p)
  <2>1. CASE sup' = sup
    BY <2>1
  <2>2. CASE ~(sup' = sup)
    <3>1. /\ task[a].pc = "kill" /\ Bound(locator, task[a].snap.gen) /\ Up(locator.pty)
          /\ sup[locator.pty].clients = 0 /\ sup[locator.pty].epoch = task[a].snap.att
          /\ ChildGone(locator.pty, "evicted")
      BY <1>8, <2>2 DEF KillIfHeadless, Task, host
    <3>2. locator.pty = task[a].snap.gen /\ locator.pty \in Pty
      BY <3>1, BoundSettles DEF Up
    <3>3. \A q \in Pty : /\ sup'[q].clients = sup[q].clients /\ sup'[q].turn = sup[q].turn
                         /\ q # locator.pty => sup'[q] = sup[q]
      BY <3>1, <3>2, ChildGoneDoes
    <3> QED
      BY <3>1, <3>2, <3>3 DEF Evicts
  <2> QED
    BY <2>1, <2>2
<1>9. \/ UNCHANGED sup
      \/ \E q \in Pty, why \in {"exited", "killed"} : Up(q) /\ ChildGone(q, why)
      \/ (\E q \in Pty : Attach(q) \/ Detach(q) \/ TurnStarts(q) \/ TurnEnds(q)
                          \/ SupervisorCrashes(q) \/ Exit(q))
      \/ LaunchSpawn \/ Terminate("kill") \/ Crash
      \/ \E a \in Tasks : KillIfHeadless(a)
  BY Steps DEF Supervisor, ChildExits, PresentationChanged, Message, Inject,
     ClearDeadEndpoint, DeadlineElapses, Engine, EngineLeaves, EngineTeardown,
     Loop, Boot, Settle, Tick, Replay, ReplayExit, Replayed, Present, Probe, ApplyProbe, ProbeLost,
     ListStopping, FinalizeEviction, EvictionChanged, EvictionUncontrolled, ListDue,
     ReserveEviction, Revive, ReviveEngine, LaunchReserve, Launching, LaunchBind,
     LaunchEngine, LaunchRelease, KillStart, KillSettle, TerminateClear, Start, vars, host,
     Up, Tasks
<1> QED
  BY <1>1, <1>2, <1>3, <1>4, <1>5, <1>6, <1>7, <1>8, <1>9

LEMMA EvictedStep ==
  ASSUME KillCalm, EvictedWasIdle, [Next]_vars
  PROVE  EvictedWasIdle'
<1>0. Calm /\ TurnInv
  BY DEF KillCalm, EvictCalm, EdgeCalm
<1>1. ASSUME NEW p \in Pty, sup'[p].end = "evicted"
      PROVE  sup'[p].clients = 0 /\ sup'[p].turn # "noted"
  <2>1. CASE sup[p].end = "evicted"
    BY <1>0, <1>1, <2>1, EndStep DEF EvictedWasIdle
  <2>2. ASSUME NEW a \in Tasks, Evicts(a, p) PROVE sup[p].clients = 0 /\ sup[p].turn # "noted"
    <3>1. Up(p) /\ sup[p].clients = 0 /\ sup[p].epoch \in Nat
      BY <1>0, <2>2 DEF Evicts, Calm, IInv, TypeOK, Sup
    <3>2. ~Passed(task[a].snap.gen, task[a].snap.att)
      BY <2>2, <3>1 DEF Evicts, Passed
    <3>3. StoppingAt(row, task[a].snap.gen, task[a].snap.life)
      BY <2>2, <3>2 DEF Evicts, Fresh, KillCalm, KillInv
    <3>4. row.work # "working"
      BY <1>0, <3>3 DEF StoppingAt, TurnInv
    <3> QED
      BY <1>0, <3>1, <3>4 DEF TurnInv
  <2> QED
    BY <1>0, <1>1, <2>1, <2>2, EndStep
<1> QED
  BY <1>1 DEF EvictedWasIdle

EvictInv == OwnInv /\ EdgeInv /\ TurnInv /\ BoundInv /\ KillInv /\ EvictedWasIdle

LEMMA EvictInvInit == Init /\ (budget.crashes = 0 \/ budget.faults = 0) => (Undisturbed => EvictInv)
<1> SUFFICES ASSUME Init, budget.crashes = 0 \/ budget.faults = 0, Undisturbed PROVE EvictInv
  OBVIOUS
<1>0. "boot" \in Tasks /\ "loop" \in Tasks /\ OwnInv /\ EdgeInv
  BY OwnInvInit, EdgeInvInit DEF Tasks
<1>1. \A p \in Pty : ~Up(p) /\ sup[p].end = "none"
  BY DEF Init, NoSup, Up
<1>2. \A a \in Tasks : task[a].pc \in {"start", "done"}
  <2>1. \A a \in Tasks : task[a] \in {IdleTask, [IdleTask EXCEPT !.pc = "done"]}
    BY DEF Init
  <2>2. \A t \in {IdleTask, [IdleTask EXCEPT !.pc = "done"]} : t.pc \in {"start", "done"}
    BY DEF IdleTask
  <2> QED
    BY <2>1, <2>2
<1>3. task["boot"].pc = "done" /\ daemon = "up"
  <2>1. [IdleTask EXCEPT !.pc = "done"].pc = "done"
    BY DEF IdleTask
  <2> QED
    BY <1>0, <2>1 DEF Init
<1>4. TurnInv /\ BoundInv /\ EvictedWasIdle
  BY <1>1, <1>2 DEF Init, NoRow, TurnInv, BoundInv, EvictedWasIdle
<1>5. KillInv
  BY <1>2, <1>3 DEF KillInv, Alone, Proven
<1> QED
  BY <1>0, <1>4, <1>5 DEF EvictInv

LEMMA EvictInvStep ==
  ASSUME IInv, Undisturbed => EvictInv, [Next]_vars
  PROVE  (Undisturbed => EvictInv)'
<1> SUFFICES ASSUME Undisturbed PROVE EvictInv'
  BY FeaturesStay DEF Undisturbed
<1>1. Calm /\ EdgeCalm /\ EvictCalm /\ KillCalm /\ EvictedWasIdle
  BY DEF Calm, EdgeCalm, EvictCalm, KillCalm, EvictInv
<1>2. OwnInv' /\ EdgeInv'
  BY <1>1, EdgeInvStep, FeaturesStay DEF Undisturbed, EvictInv
<1> QED
  BY <1>1, <1>2, TurnInvStep, BoundInvStep, KillInvStep, EvictedStep DEF EvictInv

\* A runtime that an eviction ended had no attached client and no turn its row was told
\* of, whatever late observations, cancelled and repeated evictions and concurrent kills
\* came between: unless a restart and a failed control request meet in one behaviour,
\* when one task may give up the eviction another still carries out.
THEOREM EvictionsAreOfIdle ==
  Spec /\ (budget.crashes = 0 \/ budget.faults = 0) => [](Undisturbed => EvictedWasIdle)
<1>1. IInv /\ (Undisturbed => EvictInv) /\ [Next]_vars => (Undisturbed => EvictInv)'
  BY EvictInvStep
<1>2. (Undisturbed => EvictInv) => (Undisturbed => EvictedWasIdle)
  BY DEF EvictInv
<1> QED
  BY Invariance, EvictInvInit, <1>1, <1>2, PTL DEF Spec
=============================================================================
