----------------------- MODULE SessionLifecycleProofs -----------------------
(***************************************************************************)
(* Proofs about SessionLifecycle, for every number of generations and every *)
(* bound on epochs, operator calls, faults and crashes.                     *)
(*                                                                         *)
(* The argument.  Many tasks write the row, each with a snapshot that may   *)
(* be old, but they all do it through the store calls of SessionRow.  A     *)
(* store call is safe whatever snapshot its caller holds (RowStep): that is *)
(* one lemma for each call.  Every action is then a store call or leaves    *)
(* the row alone, and the action properties are what RowStep says.          *)
(***************************************************************************)
EXTENDS SessionLifecycle, TLAPS

Presentations == {"unavailable", "headed", "headless"}

\* A row that is not stopped has been reserved once.
Opened(r) == r.gen = 0 => r.runtime = "stopped"

\* What a step may do to the row r, whatever its writer believed.
RowStep(r, n) ==
  /\ n \in Row /\ Opened(n)
  /\ r.gen > 0 /\ r.runtime = "stopped" => n.runtime = "stopped" \/ n.gen > r.gen
  /\ r.revoked => n.revoked /\ n.gen = r.gen
  /\ n.gen = r.gen =>
       \/ n.att > r.att
       \/ n.att = r.att /\ (n.pres = r.pres \/ "unavailable" \in {r.pres, n.pres})

\* The calls that are being served have found a generation to work on.
CallInv ==
  /\ \A a \in Ops : op[a].pc # "idle" => op[a].snap.gen \in Pty
  /\ launch.pc # "idle" => launch.gen \in Pty /\ launch.pty \in Pty

\* The inductive invariant.
IInv == TypeOK /\ Opened(row) /\ CallInv

----------------------------------------------------------------------------
(* The store calls *)

LEMMA SameRow ==
  ASSUME NEW r \in Row, Opened(r)
  PROVE  RowStep(r, r)
BY MaxGenAssumption DEF RowStep, Row, Opened

\* Rows are closed under the writing of a column.
LEMMA Columns ==
  ASSUME NEW r \in Row
  PROVE  /\ \A v \in {"running", "stopping", "stopped"} : [r EXCEPT !.runtime = v] \in Row
         /\ \A v \in Presentations : [r EXCEPT !.pres = v] \in Row
         /\ \A v \in {"idle", "working"} : [r EXCEPT !.work = v] \in Row
         /\ \A v \in Nat : [r EXCEPT !.life = v] \in Row
         /\ \A v \in Nat : [r EXCEPT !.att = v] \in Row
         /\ \A v \in {"none", "armed", "due"} : [r EXCEPT !.deadline = v] \in Row
BY DEF Row, Presentations

LEMMA NoRowTyped == NoRow \in Row /\ Opened(NoRow)
BY MaxGenAssumption DEF NoRow, Row, Pid, Opened

LEMMA StoppedStep ==
  ASSUME NEW r \in Row, Opened(r), NEW g, NEW life
  PROVE  /\ RowStep(r, Stopped(r, g))
         /\ RowStep(r, EvictionFinalized(r, g, life))
         /\ RowStep(r, RevocationFinalized(r, g))
<1>1. AsStopped(r) \in Row
  <2> DEFINE a == [r EXCEPT !.runtime = "stopped"]
             b == [a EXCEPT !.pres = "unavailable"]
             c == [b EXCEPT !.work = "idle"]
             d == [c EXCEPT !.life = r.life + 1]
  <2>1. r.life + 1 \in Nat
    BY DEF Row
  <2>2. a \in Row
    BY Columns
  <2>3. b \in Row
    <3> HIDE DEF a
    <3> QED  BY <2>2, Columns DEF Presentations
  <2>4. c \in Row
    <3> HIDE DEF b
    <3> QED  BY <2>3, Columns
  <2>5. d \in Row
    <3> HIDE DEF c
    <3> QED  BY <2>1, <2>4, Columns
  <2>6. [d EXCEPT !.deadline = "none"] \in Row
    <3> HIDE DEF d
    <3> QED  BY <2>5, Columns
  <2> QED
    BY <2>6, Zenon DEF AsStopped
<1>2. /\ AsStopped(r).gen = r.gen /\ AsStopped(r).runtime = "stopped"
      /\ AsStopped(r).revoked = r.revoked
      /\ AsStopped(r).att = r.att /\ AsStopped(r).pres = "unavailable"
  BY DEF AsStopped, Row
<1>3. RowStep(r, AsStopped(r))
  BY <1>1, <1>2 DEF RowStep, Opened
<1> QED
  BY <1>3, SameRow DEF Stopped, EvictionFinalized, RevocationFinalized

LEMMA PresentationStep ==
  ASSUME NEW r \in Row, Opened(r), NEW g, NEW epoch \in Nat, NEW pres \in Presentations
  PROVE  /\ RowStep(r, PresentationEdge(r, g, epoch, pres))
         /\ RowStep(r, PresentationLost(r, g, epoch))
BY MaxGenAssumption DEF RowStep, Row, Opened, PresentationEdge, PresentationLost, DeadlineFor,
   RunningAt, Running, Presentations

LEMMA TurnStep ==
  ASSUME NEW r \in Row, Opened(r), NEW g
  PROVE  /\ RowStep(r, TurnStarted(r, g))
         /\ RowStep(r, TurnEnded(r, g))
         /\ RowStep(r, DeadlineCancelled(r))
BY MaxGenAssumption DEF RowStep, Row, Opened, TurnStarted, TurnEnded, EndsTurn,
   DeadlineCancelled, DeadlineFor, RunningAt, Running

LEMMA EvictionStep ==
  ASSUME NEW r \in Row, Opened(r), NEW g, NEW life, NEW epoch \in Nat, NEW pres \in Presentations
  PROVE  /\ RowStep(r, EvictionCancelled(r, g, life, epoch, pres))
         /\ Running(r) => RowStep(r, EvictionReserved(r))
<1>1. DeadlineFor(pres, "idle") \in {"none", "armed", "due"}
  BY DEF DeadlineFor
<1>2. ASSUME StoppingAt(r, g, life), r.att < epoch \/ (pres = "unavailable" /\ r.att = epoch)
      PROVE  RowStep(r, EvictionCancelled(r, g, life, epoch, pres))
  <2> DEFINE n == [r EXCEPT !.runtime = "running", !.pres = pres, !.att = epoch,
                            !.life = r.life + 1, !.deadline = DeadlineFor(pres, "idle")]
  <2>1. n \in Row
    <3> DEFINE a == [r EXCEPT !.runtime = "running", !.pres = pres, !.att = epoch]
    <3>1. a \in Row
      BY DEF Row, Presentations
    <3>2. r.life + 1 \in Nat
      BY DEF Row
    <3>3. [a EXCEPT !.life = r.life + 1, !.deadline = DeadlineFor(pres, "idle")] \in Row
      <4> HIDE DEF a
      <4> QED  BY <1>1, <3>1, <3>2 DEF Row
    <3> QED
      BY <3>3, Zenon
  <2>2. /\ n.gen = r.gen /\ n.runtime = "running" /\ n.revoked = r.revoked
        /\ n.att = epoch /\ n.pres = pres
    BY DEF Row
  <2>3. r.gen # 0 /\ r.runtime = "stopping"
    BY <1>2 DEF StoppingAt, Opened
  <2>4. RowStep(r, n)
    BY <1>2, <2>1, <2>2, <2>3 DEF RowStep, Opened, Row
  <2> QED
    BY <1>2, <2>4 DEF EvictionCancelled
<1>3. ASSUME Running(r)
      PROVE  RowStep(r, EvictionReserved(r))
  <2>1. EvictionReserved(r) \in Row
    <3> DEFINE a == [r EXCEPT !.runtime = "stopping"]
               b == [a EXCEPT !.life = r.life + 1]
    <3>1. r.life + 1 \in Nat
      BY DEF Row
    <3>2. a \in Row
      BY Columns
    <3>3. b \in Row
      <4> HIDE DEF a
      <4> QED  BY <3>1, <3>2, Columns
    <3>4. [b EXCEPT !.deadline = "none"] \in Row
      <4> HIDE DEF b
      <4> QED  BY <3>3, Columns
    <3> QED
      BY <3>4, Zenon DEF EvictionReserved
  <2>2. /\ EvictionReserved(r).gen = r.gen /\ EvictionReserved(r).revoked = r.revoked
        /\ EvictionReserved(r).att = r.att /\ EvictionReserved(r).pres = r.pres
    BY DEF EvictionReserved, Row
  <2> QED
    BY <1>3, <2>1, <2>2 DEF RowStep, Opened, Running, Row
<1> QED
  BY <1>2, <1>3, SameRow DEF EvictionCancelled

LEMMA ReservedStep ==
  ASSUME NEW r \in Row, Opened(r), CanReserve(r), NEW pid \in Pid
  PROVE  RowStep(r, Reserved(r, pid)) /\ Reserved(r, pid).gen \in Pty
<1> DEFINE n == Reserved(r, pid)
<1>1. r.gen \in Nat /\ r.gen + 1 \in Pty /\ r.life + 1 \in Nat
  BY MaxGenAssumption DEF CanReserve, Row, Pty
<1>2. n.gen = r.gen + 1
  BY DEF Reserved, NoRow
<1>3. n \in Row
  <2> DEFINE a == [NoRow EXCEPT !.gen = r.gen + 1, !.runtime = "running"]
  <2>1. a \in Row
    <3>1. r.gen + 1 \in 0..MaxGen
      BY <1>1, MaxGenAssumption DEF Pty
    <3> QED
      BY <3>1, NoRowTyped DEF Row
  <2>2. [a EXCEPT !.life = r.life + 1, !.pid = pid] \in Row
    <3> HIDE DEF a
    <3> QED  BY <1>1, <2>1 DEF Row
  <2> QED
    BY <2>2, Zenon DEF Reserved
<1> QED
  BY <1>1, <1>2, <1>3 DEF RowStep, Opened, CanReserve

LEMMA ObservedStep ==
  ASSUME NEW r \in Row, Opened(r), NEW s \in Row, NEW epoch \in Nat, NEW clients
  PROVE  RowStep(r, Observed(r, s, epoch, clients)) /\ RowStep(r, Unobservable(r, s))
<1>1. PresentationOf(clients) \in Presentations /\ "unavailable" \in Presentations
  BY DEF PresentationOf, Presentations
<1>2. s.att \in Nat
  BY DEF Row
<1> QED
  BY <1>1, <1>2, PresentationStep, EvictionStep, SameRow DEF Observed, Unobservable
----------------------------------------------------------------------------
(* What the steps build *)

LEMMA Constants ==
  /\ NoSup \in Sup /\ \A meta \in BOOLEAN : Dead(meta) \in Sup
  /\ IdleOp \in ExitOf /\ IdleOp \in OpOf /\ IdleLaunch \in LaunchOf
  /\ NoEngine \in EngineOf /\ NoLocator \in Locator
  /\ \A pc \in Pcs : [IdleTask EXCEPT !.pc = pc] \in TaskOf
  /\ IdleTask \in TaskOf
<1>1. NoSup \in Sup /\ \A meta \in BOOLEAN : Dead(meta) \in Sup
  BY DEF NoSup, Dead, Sup
<1>2. IdleOp \in ExitOf /\ IdleOp \in OpOf
  BY NoRowTyped DEF IdleOp, ExitOf, OpOf
<1>3. IdleLaunch \in LaunchOf
  BY MaxGenAssumption DEF IdleLaunch, LaunchOf
<1>4. NoEngine \in EngineOf
  BY MaxGenAssumption DEF NoEngine, EngineOf, Pid
<1>5. IdleTask \in TaskOf
  BY NoRowTyped, MaxGenAssumption DEF IdleTask, TaskOf, Pcs
<1>6. ASSUME NEW pc \in Pcs PROVE [IdleTask EXCEPT !.pc = pc] \in TaskOf
  BY <1>5 DEF TaskOf
<1> QED
  BY <1>1, <1>2, <1>3, <1>4, <1>5, <1>6 DEF Locator

LEMMA ClearedTyped ==
  ASSUME NEW l \in Locator, NEW g
  PROVE  Cleared(l, g) \in Locator
BY DEF Cleared, Locator

LEMMA EngineTyped ==
  ASSUME NEW e \in EngineOf, NEW g
  PROVE  Cancel(e, g) \in EngineOf
BY DEF Cancel, EngineOf

LEMMA SpawnEngineTyped ==
  ASSUME engine \in EngineOf, NEW g \in 0..MaxGen, NEW pid \in Pid, SpawnEngine(g, pid)
  PROVE  engine' \in EngineOf
BY DEF SpawnEngine, EngineOf

LEMMA BoundLocator ==
  ASSUME locator \in Locator, NEW g, Bound(locator, g)
  PROVE  locator.pty \in Pty
BY DEF Locator, Bound

LEMMA StopGenerationStep ==
  ASSUME IInv, NEW g, StopGeneration(g)
  PROVE  RowStep(row, row') /\ engine' \in EngineOf
BY StoppedStep, EngineTyped DEF IInv, TypeOK, StopGeneration

LEMMA ChildGoneTyped ==
  ASSUME IInv, NEW p \in Pty, NEW why \in {"exited", "evicted", "killed"}, ChildGone(p, why)
  PROVE  sup' \in [Pty -> Sup] /\ reports' \subseteq Pty /\ exits' \in [Pty -> ExitOf]
<1> DEFINE a == [sup EXCEPT ![p].state = "exiting"]
           b == [a EXCEPT ![p].meta = FALSE]
<1>1. a \in [Pty -> Sup]
  BY DEF IInv, TypeOK, Sup
<1>2. b \in [Pty -> Sup]
  <2> HIDE DEF a
  <2> QED  BY <1>1 DEF Sup
<1>3. [b EXCEPT ![p].end = why] \in [Pty -> Sup]
  <2> HIDE DEF b
  <2> QED  BY <1>2 DEF Sup
<1>4. sup' \in [Pty -> Sup]
  BY <1>3, Zenon DEF ChildGone
<1>5. reports' \subseteq Pty /\ exits' \in [Pty -> ExitOf]
  BY DEF ChildGone, IInv, TypeOK, ExitOf
<1> QED
  BY <1>4, <1>5

LEMMA SupervisorExitedStep ==
  ASSUME IInv, NEW s \in Row, SupervisorExited(s)
  PROVE  RowStep(row, row') /\ engine' \in EngineOf /\ locator' \in Locator
<1>1. locator' \in Locator
  BY ClearedTyped DEF SupervisorExited, IInv, TypeOK
<1>2. CASE s.runtime = "stopping"
  BY <1>1, <1>2, StoppedStep, EngineTyped DEF SupervisorExited, IInv, TypeOK
<1>3. CASE s.runtime = "running"
  BY <1>1, <1>3, StopGenerationStep DEF SupervisorExited
<1>4. CASE s.runtime \notin {"stopping", "running"}
  BY <1>1, <1>4, SameRow DEF SupervisorExited, IInv, TypeOK
<1> QED
  BY <1>2, <1>3, <1>4

LEMMA ExitCallEndsTyped ==
  ASSUME IInv, NEW p \in Pty, NEW accepted, ExitCallEnds(p, accepted)
  PROVE  sup' \in [Pty -> Sup] /\ reports' \subseteq Pty /\ exits' \in [Pty -> ExitOf]
<1>1. Dead(FALSE) \in Sup /\ IdleOp \in ExitOf
  BY Constants
<1> QED
  BY <1>1 DEF ExitCallEnds, IInv, TypeOK

\* Task records are closed under the writing of a field.
LEMMA TaskFields ==
  ASSUME NEW t \in TaskOf
  PROVE  /\ \A v \in Pcs : [t EXCEPT !.pc = v] \in TaskOf
         /\ \A v \in Row : [t EXCEPT !.snap = v] \in TaskOf
         /\ \A v \in 0..MaxGen : [t EXCEPT !.pty = v] \in TaskOf
         /\ \A v \in SUBSET Pty : [t EXCEPT !.todo = v] \in TaskOf
         /\ \A v \in Pcs : [t EXCEPT !.then = v] \in TaskOf
BY DEF TaskOf

LEMMA TaskUpdates ==
  ASSUME NEW t \in TaskOf, NEW pc \in Pcs
  PROVE  /\ [t EXCEPT !.pc = pc] \in TaskOf
         /\ \A todo \in SUBSET Pty : [t EXCEPT !.pc = pc, !.todo = todo] \in TaskOf
         /\ \A snap \in Row : [t EXCEPT !.pc = pc, !.snap = snap] \in TaskOf
         /\ \A snap \in Row, pty \in 0..MaxGen :
              [t EXCEPT !.pc = pc, !.snap = snap, !.pty = pty] \in TaskOf
         /\ \A snap \in Row, then \in Pcs :
              [t EXCEPT !.pc = pc, !.snap = snap, !.then = then] \in TaskOf
<1> DEFINE u == [t EXCEPT !.pc = pc]
<1>1. u \in TaskOf
  BY TaskFields
<1>2. ASSUME NEW todo \in SUBSET Pty PROVE [u EXCEPT !.todo = todo] \in TaskOf
  <2> HIDE DEF u
  <2> QED  BY <1>1, TaskFields
<1>3. ASSUME NEW snap \in Row
      PROVE  /\ [u EXCEPT !.snap = snap] \in TaskOf
             /\ \A pty \in 0..MaxGen : [[u EXCEPT !.snap = snap] EXCEPT !.pty = pty] \in TaskOf
             /\ \A then \in Pcs : [[u EXCEPT !.snap = snap] EXCEPT !.then = then] \in TaskOf
  <2> DEFINE v == [u EXCEPT !.snap = snap]
  <2>1. v \in TaskOf
    <3> HIDE DEF u
    <3> QED  BY <1>1, TaskFields
  <2>2. /\ \A pty \in 0..MaxGen : [v EXCEPT !.pty = pty] \in TaskOf
        /\ \A then \in Pcs : [v EXCEPT !.then = then] \in TaskOf
    <3> HIDE DEF v
    <3> QED  BY <2>1, TaskFields
  <2> QED
    BY <2>1, <2>2, Zenon
<1> QED
  BY <1>1, <1>2, <1>3, Zenon

LEMMA PtyIsGeneration == \A q \in Pty : q \in 0..MaxGen
BY MaxGenAssumption DEF Pty

\* A launch that moves on keeps its PTY; one that ends is idle.
LEMMA LaunchMoves ==
  ASSUME IInv, launch.pc # "idle",
         \/ launch' = IdleLaunch
         \/ \E pc \in {"bind", "engine", "release"} :
              \/ launch' = [launch EXCEPT !.pc = pc]
              \/ \E g \in Pty : launch' = [launch EXCEPT !.pc = pc, !.gen = g]
  PROVE  /\ launch' \in LaunchOf
         /\ launch'.pc # "idle" => launch'.gen \in Pty /\ launch'.pty \in Pty
<1>1. launch \in LaunchOf /\ launch.gen \in Pty /\ launch.pty \in Pty
  BY DEF IInv, TypeOK, CallInv
<1>2. CASE launch' = IdleLaunch
  BY <1>2, Constants DEF IdleLaunch
<1>3. ASSUME NEW pc \in {"bind", "engine", "release"}, launch' = [launch EXCEPT !.pc = pc]
      PROVE  launch' \in LaunchOf /\ launch'.gen = launch.gen /\ launch'.pty = launch.pty
  BY <1>1, <1>3 DEF LaunchOf
<1>4. ASSUME NEW pc \in {"bind", "engine", "release"}, NEW g \in Pty,
             launch' = [launch EXCEPT !.pc = pc, !.gen = g]
      PROVE  launch' \in LaunchOf /\ launch'.gen = g /\ launch'.pty = launch.pty
  BY <1>1, <1>4, PtyIsGeneration DEF LaunchOf
<1> QED
  BY <1>1, <1>2, <1>3, <1>4

\* What a session start does when nothing or one of its two writes is done.
LEMMA SessionStartStep ==
  ASSUME IInv, NEW p \in Pty, NEW pid \in Pid, SessionStart(p, pid)
  PROVE  /\ RowStep(row, row') /\ locator' \in Locator
         /\ locator' = [pty |-> p, gen |-> row'.gen] => row'.gen \in Pty
<1> DEFINE r == IF CanReserve(row) THEN Reserved(row, pid) ELSE row
<1>1. RowStep(row, r) /\ r \in Row /\ Opened(r)
  BY ReservedStep, SameRow DEF IInv, TypeOK, RowStep
<1>2. CASE CanBind(r, r.gen)
  <2>1. row' = [r EXCEPT !.pid = pid] /\ locator' = [pty |-> p, gen |-> r.gen]
    BY <1>2 DEF SessionStart
  <2>2. r.gen \in Pty
    <3> HIDE DEF r
    <3> QED  BY <1>1, <1>2, MaxGenAssumption DEF CanBind, RunningAt, Running, Opened, Row, Pty
  <2>3. RowStep(row, [r EXCEPT !.pid = pid]) /\ [r EXCEPT !.pid = pid].gen = r.gen
    <3> HIDE DEF r
    <3> QED  BY <1>1 DEF RowStep, Row, Opened
  <2>4. locator' \in Locator
    BY <2>1, <2>2 DEF Locator
  <2> QED
    BY <2>1, <2>2, <2>3, <2>4
<1>3. CASE ~CanBind(r, r.gen)
  <2>1. locator' = locator /\ (row' = row \/ row' = Stopped(row, row.gen))
    BY <1>3 DEF SessionStart
  <2>2. locator' = [pty |-> p, gen |-> row'.gen] => row'.gen \in Pty
    BY <2>1 DEF IInv, TypeOK, Locator, NoLocator, Pty
  <2> QED
    BY <2>1, <2>2, StoppedStep, SameRow DEF IInv, TypeOK
<1> QED
  BY <1>2, <1>3

LEMMA EnterTyped ==
  ASSUME IInv, NEW a \in Tasks, NEW pc \in Pcs, Enter(a, pc) \/ Goto(a, pc)
  PROVE  task' \in [Tasks -> TaskOf]
<1>1. CASE Enter(a, pc)
  BY <1>1, Constants DEF Enter, IInv, TypeOK
<1>2. CASE Goto(a, pc)
  BY <1>2 DEF Goto, IInv, TypeOK, TaskOf
<1> QED
  BY <1>1, <1>2

LEMMA UseTyped ==
  ASSUME IInv, NEW c \in {"ops", "faults", "crashes"}, Use(c)
  PROVE  budget' \in Budget
BY DEF Use, IInv, TypeOK, Budget

----------------------------------------------------------------------------
(* The supervisors and their exit calls *)

LEMMA AttachStep ==
  ASSUME IInv, NEW p \in Pty, Attach(p)
  PROVE  IInv' /\ RowStep(row, row')
<1>1. RowStep(row, row')
  BY SameRow DEF IInv, TypeOK, Attach, store
<1> QED
  BY <1>1 DEF Attach, IInv, TypeOK, CallInv, RowStep, store, host, run, Notify, Up, Sup, Note

LEMMA DetachStep ==
  ASSUME IInv, NEW p \in Pty, Detach(p)
  PROVE  IInv' /\ RowStep(row, row')
<1>1. RowStep(row, row')
  BY SameRow DEF IInv, TypeOK, Detach, store
<1> QED
  BY <1>1 DEF Detach, IInv, TypeOK, CallInv, RowStep, store, host, run, Notify, Up, Sup, Note

LEMMA TurnStartsStep ==
  ASSUME IInv, NEW p \in Pty, TurnStarts(p)
  PROVE  IInv' /\ RowStep(row, row')
<1>1. RowStep(row, row')
  BY TurnStep, SameRow DEF IInv, TypeOK, TurnStarts
<1> QED
  BY <1>1 DEF TurnStarts, IInv, TypeOK, CallInv, RowStep, store, host, run, Up, Sup

LEMMA TurnEndsStep ==
  ASSUME IInv, NEW p \in Pty, TurnEnds(p)
  PROVE  IInv' /\ RowStep(row, row')
<1>1. RowStep(row, row')
  BY TurnStep, SameRow DEF IInv, TypeOK, TurnEnds
<1> QED
  BY <1>1 DEF TurnEnds, IInv, TypeOK, CallInv, RowStep, store, host, run, Up, Sup

LEMMA ChildExitsStep ==
  ASSUME IInv, NEW p \in Pty, ChildExits(p)
  PROVE  IInv' /\ RowStep(row, row')
<1>1. RowStep(row, row')
  BY SameRow DEF IInv, TypeOK, ChildExits, store
<1> QED
  BY <1>1, ChildGoneTyped DEF ChildExits, IInv, TypeOK, CallInv, RowStep, store, host, run, Up

LEMMA SupervisorCrashesStep ==
  ASSUME IInv, NEW p \in Pty, SupervisorCrashes(p)
  PROVE  IInv' /\ RowStep(row, row')
<1>1. RowStep(row, row')
  BY SameRow DEF IInv, TypeOK, SupervisorCrashes, store
<1> QED
  BY <1>1, Constants, UseTyped DEF SupervisorCrashes, IInv, TypeOK, CallInv, RowStep, store,
     host, run

LEMMA ExitCallStep ==
  ASSUME IInv, NEW p \in Pty, ExitCall(p)
  PROVE  IInv' /\ RowStep(row, row')
<1>1. RowStep(row, row')
  BY SameRow DEF IInv, TypeOK, ExitCall, store
<1>2. exits[p].pc = "call" => [exits EXCEPT ![p].pc = "handle"] \in [Pty -> ExitOf]
  BY DEF IInv, TypeOK, ExitOf
<1> QED
  BY <1>1, <1>2, ExitCallEndsTyped DEF ExitCall, IInv, TypeOK, CallInv, RowStep, store,
     host, run

LEMMA ExitLookupStep ==
  ASSUME IInv, NEW p \in Pty, ExitLookup(p)
  PROVE  IInv' /\ RowStep(row, row')
<1>1. RowStep(row, row')
  BY SameRow DEF IInv, TypeOK, ExitLookup, store
<1>2. [pc |-> "act", snap |-> row] \in ExitOf
  BY DEF IInv, TypeOK, ExitOf
<1> QED
  BY <1>1, <1>2, ExitCallEndsTyped DEF ExitLookup, IInv, TypeOK, CallInv, RowStep, store,
     host, run

LEMMA ExitActStep ==
  ASSUME IInv, NEW p \in Pty, ExitAct(p)
  PROVE  IInv' /\ RowStep(row, row')
<1>1. RowStep(row, row')
  BY SupervisorExitedStep DEF IInv, TypeOK, ExitAct, ExitOf
<1> QED
  BY <1>1, SupervisorExitedStep, ExitCallEndsTyped DEF ExitAct, IInv, TypeOK, CallInv,
     RowStep, store, host, run, ExitOf

----------------------------------------------------------------------------
(* Notifications, messages, time, engines *)

LEMMA PresentationChangedStep ==
  ASSUME IInv, NEW n \in notes, PresentationChanged(n)
  PROVE  IInv' /\ RowStep(row, row')
<1>1. RowStep(row, row')
  BY ObservedStep, SameRow DEF IInv, TypeOK, PresentationChanged, Note
<1> QED
  BY <1>1 DEF PresentationChanged, IInv, TypeOK, CallInv, RowStep, store, host, run

LEMMA MessageStep ==
  ASSUME IInv, Message
  PROVE  IInv' /\ RowStep(row, row')
<1>1. RowStep(row, row')
  BY TurnStep DEF IInv, TypeOK, Message
<1> QED
  BY <1>1 DEF Message, IInv, TypeOK, CallInv, RowStep, store, host, run

LEMMA InjectStep ==
  ASSUME IInv, Inject
  PROVE  IInv' /\ RowStep(row, row')
<1>1. RowStep(row, row')
  BY SameRow DEF IInv, TypeOK, Inject, store
<1> QED
  BY <1>1 DEF Inject, IInv, TypeOK, CallInv, RowStep, store, host, run

LEMMA ClearDeadEndpointStep ==
  ASSUME IInv, ClearDeadEndpoint
  PROVE  IInv' /\ RowStep(row, row')
<1>1. RowStep(row, row')
  BY SameRow DEF IInv, TypeOK, ClearDeadEndpoint, store
<1> QED
  BY <1>1, ClearedTyped DEF ClearDeadEndpoint, IInv, TypeOK, CallInv, RowStep, store, host, run

LEMMA DeadlineElapsesStep ==
  ASSUME IInv, DeadlineElapses
  PROVE  IInv' /\ RowStep(row, row')
<1>1. RowStep(row, row')
  BY DEF DeadlineElapses, IInv, TypeOK, RowStep, Row, Opened
<1> QED
  BY <1>1 DEF DeadlineElapses, IInv, TypeOK, CallInv, RowStep, host, run

LEMMA EngineLeavesStep ==
  ASSUME IInv, EngineLeaves
  PROVE  IInv' /\ RowStep(row, row')
<1>1. RowStep(row, row')
  BY SameRow DEF IInv, TypeOK, EngineLeaves, store
<1> QED
  BY <1>1, Constants DEF EngineLeaves, IInv, TypeOK, CallInv, RowStep, store, host, run,
     EngineOf, Pty

LEMMA EngineTeardownStep ==
  ASSUME IInv, NEW g \in ending, EngineTeardown(g)
  PROVE  IInv' /\ RowStep(row, row')
<1>1. RowStep(row, row')
  BY StopGenerationStep, SameRow DEF IInv, TypeOK, EngineTeardown
<1> QED
  BY <1>1, StopGenerationStep DEF EngineTeardown, IInv, TypeOK, CallInv, RowStep, store,
     host, run

----------------------------------------------------------------------------
(* The lifecycle loop and the startup task *)

LEMMA TickStep ==
  ASSUME IInv, NEW a \in Tasks, Tick(a)
  PROVE  IInv' /\ RowStep(row, row')
<1>1. RowStep(row, row')
  BY SameRow DEF IInv, TypeOK, Tick, store
<1>2. "replay" \in Pcs /\ reports \in SUBSET Pty
  BY DEF IInv, TypeOK, Pcs
<1>3. [IdleTask EXCEPT !.pc = "replay", !.todo = reports] \in TaskOf
  BY <1>2, Constants, TaskUpdates, Zenon
<1> QED
  BY <1>1, <1>2, <1>3 DEF Tick, IInv, TypeOK, CallInv, RowStep, store, host, run

LEMMA ReplayStep ==
  ASSUME IInv, NEW a \in Tasks, NEW p \in Pty, Replay(a, p)
  PROVE  IInv' /\ RowStep(row, row')
<1>1. RowStep(row, row')
  BY SameRow DEF IInv, TypeOK, Replay, store
<1>2. Task(a) \in TaskOf /\ {"replaying"} \subseteq Pcs /\ p \in 0..MaxGen
  BY DEF IInv, TypeOK, Task, Pcs, Pty
<1>3. Task(a).todo \ {p} \in SUBSET Pty
  BY <1>2 DEF TaskOf
<1>4. [Task(a) EXCEPT !.pc = "replaying", !.snap = row, !.pty = p] \in TaskOf
  BY <1>2, TaskUpdates DEF IInv, TypeOK
<1>5. [Task(a) EXCEPT !.todo = Task(a).todo \ {p}] \in TaskOf
  BY <1>2, <1>3, TaskFields
<1>6. task' \in [Tasks -> TaskOf]
  BY <1>2, <1>4, <1>5 DEF Replay, Task, IInv, TypeOK
<1> QED
  BY <1>1, <1>2, <1>3, <1>4, <1>5, <1>6 DEF Replay, IInv, TypeOK, CallInv, RowStep, store,
     host, run

LEMMA ReplayExitStep ==
  ASSUME IInv, NEW a \in Tasks, ReplayExit(a)
  PROVE  IInv' /\ RowStep(row, row')
<1>1. RowStep(row, row')
  BY SupervisorExitedStep DEF IInv, TypeOK, ReplayExit, Task, TaskOf
<1>2. Task(a).snap \in Row /\ Task(a).todo \ {Task(a).pty} \in SUBSET Pty /\ "replay" \in Pcs
  BY DEF IInv, TypeOK, Task, TaskOf, Pcs
<1>3. [IdleTask EXCEPT !.pc = "replay", !.todo = Task(a).todo \ {Task(a).pty}] \in TaskOf
  BY <1>2, Constants, TaskUpdates, Zenon
<1> QED
  BY <1>1, <1>2, <1>3, SupervisorExitedStep DEF ReplayExit, IInv, TypeOK, CallInv, RowStep,
     store, host, run

LEMMA ReplayedStep ==
  ASSUME IInv, NEW a \in Tasks, Replayed(a)
  PROVE  IInv' /\ RowStep(row, row')
<1>1. RowStep(row, row')
  BY SameRow DEF IInv, TypeOK, Replayed, store
<1> QED
  BY <1>1, EnterTyped DEF Replayed, IInv, TypeOK, CallInv, RowStep, store, host, run, Pcs

LEMMA PresentStep ==
  ASSUME IInv, Present
  PROVE  IInv' /\ RowStep(row, row')
<1>1. RowStep(row, row')
  BY SameRow DEF IInv, TypeOK, Present, store
<1>2. Task("loop") \in TaskOf /\ {"probe", "stopping"} \subseteq Pcs /\ locator \in Locator
  BY DEF IInv, TypeOK, Task, Pcs, Tasks
<1>3. [Task("loop") EXCEPT !.pc = "stopping"] \in TaskOf
  BY <1>2, TaskUpdates
<1>4. \A g : Bound(locator, g) => locator.pty \in 0..MaxGen
  BY <1>2, BoundLocator DEF Pty
<1>5. \A g : Bound(locator, g) => [Task("loop") EXCEPT !.pc = "probe", !.snap = row, !.pty = locator.pty] \in TaskOf
  BY <1>2, <1>4, TaskUpdates DEF IInv, TypeOK
<1>6. task' \in [Tasks -> TaskOf]
  BY <1>2, <1>3, <1>5 DEF Present, Task, IInv, TypeOK
<1> QED
  BY <1>1, <1>2, <1>3, <1>4, <1>5, <1>6 DEF Present, IInv, TypeOK, CallInv, RowStep, store,
     host, run

\* What a task notes of a supervisor that answered.
LEMMA AnswerTyped ==
  ASSUME IInv, NEW a \in Tasks, NEW pc \in Pcs, NEW p \in Pty
  PROVE  [task EXCEPT ![a].pc = pc, ![a].epoch = sup[p].epoch, ![a].clients = sup[p].clients]
           \in [Tasks -> TaskOf]
<1> DEFINE t == [task EXCEPT ![a].pc = pc]
           u == [t EXCEPT ![a].epoch = sup[p].epoch]
<1>1. sup[p].epoch \in Nat /\ sup[p].clients \in {0, 1}
  BY DEF IInv, TypeOK, Sup
<1>2. t \in [Tasks -> TaskOf]
  BY DEF IInv, TypeOK, TaskOf
<1>3. u \in [Tasks -> TaskOf]
  <2> HIDE DEF t
  <2> QED  BY <1>1, <1>2 DEF TaskOf
<1>4. [u EXCEPT ![a].clients = sup[p].clients] \in [Tasks -> TaskOf]
  <2> HIDE DEF u
  <2> QED  BY <1>1, <1>3 DEF TaskOf
<1> QED
  BY <1>4, Zenon

LEMMA ProbeStep ==
  ASSUME IInv, Probe
  PROVE  IInv' /\ RowStep(row, row')
<1>1. RowStep(row, row')
  BY SameRow DEF IInv, TypeOK, Probe, store
<1>2. task' \in [Tasks -> TaskOf]
  <2>1. "loop" \in Tasks /\ "lost" \in Pcs /\ "apply" \in Pcs /\ task \in [Tasks -> TaskOf]
    BY DEF Tasks, Pcs, IInv, TypeOK
  <2>2. CASE Goto("loop", "lost")
    BY <2>1, <2>2, EnterTyped
  <2>3. CASE Up(Task("loop").pty) /\ ~Goto("loop", "lost")
    <3> DEFINE p == Task("loop").pty
    <3>1. p \in Pty
      BY <2>3 DEF Up
    <3>2. task' = [task EXCEPT !["loop"].pc = "apply", !["loop"].epoch = sup[p].epoch,
                              !["loop"].clients = sup[p].clients]
      BY <2>3, Zenon DEF Probe
    <3> QED
      BY <2>1, <3>1, <3>2, AnswerTyped, Zenon
  <2> QED
    BY <2>2, <2>3 DEF Probe
<1> QED
  BY <1>1, <1>2, UseTyped DEF Probe, IInv, TypeOK, CallInv, RowStep, store, host, run

LEMMA ApplyProbeStep ==
  ASSUME IInv, ApplyProbe
  PROVE  IInv' /\ RowStep(row, row')
<1>1. RowStep(row, row')
  BY ObservedStep DEF IInv, TypeOK, ApplyProbe, Task, TaskOf, Tasks
<1> QED
  BY <1>1, EnterTyped DEF ApplyProbe, IInv, TypeOK, CallInv, RowStep, store, host, run,
     Tasks, Pcs

LEMMA ProbeLostStep ==
  ASSUME IInv, ProbeLost
  PROVE  IInv' /\ RowStep(row, row')
<1>1. RowStep(row, row')
  BY ObservedStep, StopGenerationStep DEF IInv, TypeOK, ProbeLost, Task, TaskOf, Tasks
<1> QED
  BY <1>1, EnterTyped, StopGenerationStep DEF ProbeLost, IInv, TypeOK, CallInv, RowStep,
     store, host, run, Tasks, Pcs

LEMMA ListStoppingStep ==
  ASSUME IInv, NEW a \in Tasks, ListStopping(a)
  PROVE  IInv' /\ RowStep(row, row')
<1>1. RowStep(row, row')
  BY SameRow DEF IInv, TypeOK, ListStopping, store
<1>2. Task(a) \in TaskOf /\ {"kill", "due", "revive"} \subseteq Pcs
  BY DEF IInv, TypeOK, Task, Pcs
<1>3. \A then \in Pcs : [Task(a) EXCEPT !.pc = "kill", !.snap = row, !.then = then] \in TaskOf
  BY <1>2, TaskUpdates DEF IInv, TypeOK
<1>4. \A pc \in Pcs : [Task(a) EXCEPT !.pc = pc] \in TaskOf
  BY <1>2, TaskUpdates
<1>5. task' \in [Tasks -> TaskOf]
  BY <1>2, <1>3, <1>4 DEF ListStopping, Task, IInv, TypeOK
<1> QED
  BY <1>1, <1>2, <1>3, <1>4, <1>5 DEF ListStopping, IInv, TypeOK, CallInv, RowStep, store,
     host, run

LEMMA KillIfHeadlessStep ==
  ASSUME IInv, NEW a \in Tasks, KillIfHeadless(a)
  PROVE  IInv' /\ RowStep(row, row')
<1>1. RowStep(row, row')
  BY SameRow DEF IInv, TypeOK, KillIfHeadless, store
<1>2. task' \in [Tasks -> TaskOf]
  <2>1. {"finalize", "uncontrolled", "changed"} \subseteq Pcs /\ task \in [Tasks -> TaskOf]
    BY DEF Pcs, IInv, TypeOK
  <2>2. CASE Goto(a, "finalize") \/ Goto(a, "uncontrolled")
    BY <2>1, <2>2, EnterTyped
  <2>3. CASE Up(locator.pty) /\ ~Goto(a, "finalize") /\ ~Goto(a, "uncontrolled")
    <3> DEFINE p == locator.pty
    <3>1. p \in Pty
      BY <2>3 DEF Up
    <3>2. task' = [task EXCEPT ![a].pc = "changed", ![a].epoch = sup[p].epoch,
                              ![a].clients = sup[p].clients]
      BY <2>3, Zenon DEF KillIfHeadless
    <3> QED
      BY <2>1, <3>1, <3>2, AnswerTyped, Zenon
  <2> QED
    BY <2>2, <2>3 DEF KillIfHeadless
<1>3. sup' \in [Pty -> Sup] /\ reports' \subseteq Pty /\ exits' \in [Pty -> ExitOf]
  BY ChildGoneTyped DEF KillIfHeadless, Up, host, IInv, TypeOK
<1>4. budget' \in Budget
  BY UseTyped DEF KillIfHeadless, IInv, TypeOK
<1> QED
  BY <1>1, <1>2, <1>3, <1>4 DEF KillIfHeadless, IInv, TypeOK, CallInv, RowStep, store, run

LEMMA FinalizeEvictionStep ==
  ASSUME IInv, NEW a \in Tasks, FinalizeEviction(a)
  PROVE  IInv' /\ RowStep(row, row')
<1>1. RowStep(row, row')
  BY StoppedStep DEF IInv, TypeOK, FinalizeEviction
<1> QED
  BY <1>1, EnterTyped, EngineTyped, ClearedTyped DEF FinalizeEviction, IInv, TypeOK,
     CallInv, RowStep, store, host, run, Leave, Task, TaskOf

LEMMA EvictionChangedStep ==
  ASSUME IInv, NEW a \in Tasks, EvictionChanged(a)
  PROVE  IInv' /\ RowStep(row, row')
<1>1. RowStep(row, row')
  BY ObservedStep DEF IInv, TypeOK, EvictionChanged, Task, TaskOf
<1> QED
  BY <1>1, EnterTyped DEF EvictionChanged, IInv, TypeOK, CallInv, RowStep, store, host, run,
     Leave, Task, TaskOf

LEMMA EvictionUncontrolledStep ==
  ASSUME IInv, NEW a \in Tasks, EvictionUncontrolled(a)
  PROVE  IInv' /\ RowStep(row, row')
<1>1. RowStep(row, row')
  BY ObservedStep DEF IInv, TypeOK, EvictionUncontrolled, Task, TaskOf
<1> QED
  BY <1>1, EnterTyped DEF EvictionUncontrolled, IInv, TypeOK, CallInv, RowStep, store, host,
     run, Leave, Task, TaskOf

LEMMA ListDueStep ==
  ASSUME IInv, ListDue
  PROVE  IInv' /\ RowStep(row, row')
<1>1. RowStep(row, row')
  BY SameRow DEF IInv, TypeOK, ListDue, store
<1>2. Task("loop") \in TaskOf /\ {"reserve"} \subseteq Pcs
  BY DEF IInv, TypeOK, Task, Pcs, Tasks
<1>3. [Task("loop") EXCEPT !.pc = "reserve", !.snap = row] \in TaskOf
  BY <1>2, TaskUpdates DEF IInv, TypeOK
<1>4. task' \in [Tasks -> TaskOf]
  BY <1>2, <1>3, Constants DEF ListDue, Task, IInv, TypeOK
<1> QED
  BY <1>1, <1>2, <1>3, <1>4 DEF ListDue, IInv, TypeOK, CallInv, RowStep, store, host, run

LEMMA ReserveEvictionStep ==
  ASSUME IInv, ReserveEviction
  PROVE  IInv' /\ RowStep(row, row')
<1>1. RowStep(row, row')
  BY EvictionStep, SameRow DEF IInv, TypeOK, ReserveEviction, CanReserveEviction, IsDue,
     Presentations
<1>2. Task("loop") \in TaskOf /\ {"kill", "start"} \subseteq Pcs /\ row' \in Row
  BY <1>1 DEF IInv, TypeOK, Task, Pcs, Tasks, RowStep
<1>3. [Task("loop") EXCEPT !.pc = "kill", !.snap = row', !.then = "start"] \in TaskOf
  BY <1>2, TaskUpdates
<1>4. task' \in [Tasks -> TaskOf]
  BY <1>2, <1>3, Constants DEF ReserveEviction, Task, IInv, TypeOK
<1> QED
  BY <1>1, <1>2, <1>3, <1>4 DEF ReserveEviction, IInv, TypeOK, CallInv, RowStep, store,
     host, run

LEMMA ReviveStep ==
  ASSUME IInv, Revive
  PROVE  IInv' /\ RowStep(row, row')
<1>1. RowStep(row, row')
  BY ObservedStep, StopGenerationStep, SameRow DEF IInv, TypeOK, Revive
<1> QED
  BY <1>1, EnterTyped, UseTyped, StopGenerationStep DEF Revive, IInv, TypeOK, CallInv,
     RowStep, store, host, run, Tasks, Pcs

LEMMA ReviveEngineStep ==
  ASSUME IInv, ReviveEngine
  PROVE  IInv' /\ RowStep(row, row')
<1>1. RowStep(row, row')
  BY SameRow DEF IInv, TypeOK, ReviveEngine, store
<1> QED
  BY <1>1, EnterTyped, SpawnEngineTyped DEF ReviveEngine, IInv, TypeOK, CallInv, RowStep,
     store, host, run, Tasks, Pcs, Row

----------------------------------------------------------------------------
(* Launches, hooks and operator calls *)

LEMMA LaunchReserveStep ==
  ASSUME IInv, LaunchReserve
  PROVE  IInv' /\ RowStep(row, row')
<1>1. RowStep(row, row')
  BY ReservedStep DEF IInv, TypeOK, LaunchReserve, Pid
<1>2. row'.gen \in Pty
  BY ReservedStep DEF IInv, TypeOK, LaunchReserve, Pid
<1>3. launch' \in LaunchOf /\ (launch'.pc # "idle" => launch'.gen \in Pty /\ launch'.pty \in Pty)
  BY <1>2, MaxGenAssumption DEF LaunchReserve, LaunchOf, Pty
<1> QED
  BY <1>1, <1>2, <1>3 DEF LaunchReserve, IInv, TypeOK, CallInv, RowStep, store, host, run

LEMMA LaunchSpawnStep ==
  ASSUME IInv, LaunchSpawn
  PROVE  IInv' /\ RowStep(row, row')
<1>1. RowStep(row, row')
  BY StoppedStep, SameRow DEF IInv, TypeOK, LaunchSpawn
<1>2. [NoSup EXCEPT !.state = "up", !.meta = TRUE] \in Sup
  BY DEF NoSup, Sup
<1>3. sup' \in [Pty -> Sup]
  BY <1>2 DEF LaunchSpawn, IInv, TypeOK
<1>4. budget' \in Budget
  BY UseTyped DEF LaunchSpawn, IInv, TypeOK
<1>5. launch' \in LaunchOf /\ (launch'.pc # "idle" => launch'.gen \in Pty /\ launch'.pty \in Pty)
  BY LaunchMoves DEF LaunchSpawn
<1> QED
  BY <1>1, <1>2, <1>3, <1>4, <1>5 DEF LaunchSpawn, IInv, TypeOK, CallInv, RowStep, store,
     host, run

LEMMA LaunchBindStep ==
  ASSUME IInv, LaunchBind
  PROVE  IInv' /\ RowStep(row, row')
<1>0. launch.pty \in Pty /\ [kind |-> "supervisor", pty |-> launch.pty] \in Pid
  BY DEF LaunchBind, IInv, CallInv, Pid
<1>1. RowStep(row, row')
  BY <1>0, SessionStartStep DEF LaunchBind
<1>2. locator' \in Locator /\ (locator' = [pty |-> launch.pty, gen |-> row'.gen] => row'.gen \in Pty)
  BY <1>0, SessionStartStep DEF LaunchBind
<1>3. row'.gen \in 0..MaxGen
  BY <1>1 DEF RowStep, Row
<1>4. launch' \in LaunchOf /\ (launch'.pc # "idle" => launch'.gen \in Pty /\ launch'.pty \in Pty)
  BY <1>2, <1>3, LaunchMoves DEF LaunchBind
<1> QED
  BY <1>1, <1>2, <1>3, <1>4 DEF LaunchBind, IInv, TypeOK, CallInv, RowStep, store, host, run

LEMMA LaunchEngineStep ==
  ASSUME IInv, LaunchEngine
  PROVE  IInv' /\ RowStep(row, row')
<1>1. RowStep(row, row')
  BY StoppedStep, SameRow DEF IInv, TypeOK, LaunchEngine
<1>2. [kind |-> "supervisor", pty |-> launch.pty] \in Pid /\ launch.gen \in 0..MaxGen
  BY DEF LaunchEngine, IInv, CallInv, Pid, Pty
<1>3. engine' \in EngineOf
  BY <1>2, SpawnEngineTyped DEF LaunchEngine, IInv, TypeOK
<1>4. launch' \in LaunchOf /\ (launch'.pc # "idle" => launch'.gen \in Pty /\ launch'.pty \in Pty)
  BY LaunchMoves DEF LaunchEngine
<1> QED
  BY <1>1, <1>2, <1>3, <1>4 DEF LaunchEngine, IInv, TypeOK, CallInv, RowStep, store, host, run

LEMMA LaunchReleaseStep ==
  ASSUME IInv, LaunchRelease
  PROVE  IInv' /\ RowStep(row, row')
<1>1. RowStep(row, row')
  BY StoppedStep DEF IInv, TypeOK, LaunchRelease
<1>2. launch.pty \in Pty
  BY DEF LaunchRelease, IInv, CallInv
<1>3. sup' \in [Pty -> Sup] /\ reports' \subseteq Pty /\ exits' \in [Pty -> ExitOf]
  BY <1>2, ChildGoneTyped DEF LaunchRelease, IInv, TypeOK, host
<1>4. launch' \in LaunchOf /\ (launch'.pc # "idle" => launch'.gen \in Pty /\ launch'.pty \in Pty)
  BY LaunchMoves DEF LaunchRelease
<1> QED
  BY <1>1, <1>2, <1>3, <1>4 DEF LaunchRelease, IInv, TypeOK, CallInv, RowStep, store, host, run

LEMMA SessionStartHookStep ==
  ASSUME IInv, NEW p \in Pty, SessionStartHook(p)
  PROVE  IInv' /\ RowStep(row, row')
<1>0. [kind |-> "harness", pty |-> p] \in Pid
  BY DEF Pid
<1>1. RowStep(row, row')
  BY <1>0, SessionStartStep DEF SessionStartHook
<1>2. locator' \in Locator
  BY <1>0, SessionStartStep DEF SessionStartHook
<1>3. row'.gen \in 0..MaxGen
  BY <1>1 DEF RowStep, Row
<1>4. engine' \in EngineOf
  BY <1>0, <1>3, SpawnEngineTyped DEF SessionStartHook, IInv, TypeOK
<1>5. budget' \in Budget
  BY UseTyped DEF SessionStartHook
<1> QED
  BY <1>1, <1>2, <1>3, <1>4, <1>5 DEF SessionStartHook, IInv, TypeOK, CallInv, RowStep,
     store, host, run

LEMMA KillStartStep ==
  ASSUME IInv, KillStart
  PROVE  IInv' /\ RowStep(row, row')
<1>1. RowStep(row, row')
  BY SameRow DEF IInv, TypeOK, KillStart, store
<1>2. row.gen \in Pty
  BY MaxGenAssumption DEF KillStart, IInv, TypeOK, Row, Pty
<1>3. [pc |-> "terminate", snap |-> row] \in OpOf
  BY DEF IInv, TypeOK, OpOf
<1>4. op' \in [Ops -> OpOf] /\ \A b \in Ops : op'[b].pc # "idle" => op'[b].snap.gen \in Pty
  BY <1>2, <1>3 DEF KillStart, IInv, TypeOK, CallInv, Ops
<1>5. budget' \in Budget
  BY UseTyped DEF KillStart
<1> QED
  BY <1>1, <1>2, <1>3, <1>4, <1>5 DEF KillStart, IInv, TypeOK, CallInv, RowStep, store,
     host, run

LEMMA ForgetStartStep ==
  ASSUME IInv, ForgetStart
  PROVE  IInv' /\ RowStep(row, row')
<1>0. /\ row' \in Row /\ row'.gen = row.gen /\ row'.runtime = row.runtime
      /\ row'.revoked = TRUE /\ row'.att = row.att /\ row'.pres = row.pres
  BY DEF ForgetStart, IInv, TypeOK, Row
<1>1. RowStep(row, row') /\ row' \in Row /\ row'.gen \in Pty
  <2>1. row.gen \in Pty
    BY MaxGenAssumption DEF ForgetStart, IInv, TypeOK, Row, Pty
  <2> QED
    BY <1>0, <2>1 DEF RowStep, IInv, Opened
<1>2. [pc |-> "terminate", snap |-> row'] \in OpOf
  BY <1>1 DEF OpOf
<1>3. /\ op' \in [Ops -> OpOf]
      /\ \A b \in Ops : op'[b].pc # "idle" => op'[b].snap.gen \in Pty
  BY <1>1, <1>2 DEF ForgetStart, IInv, TypeOK, CallInv, Ops
<1>4. budget' \in Budget /\ engine' \in EngineOf
  BY UseTyped, EngineTyped DEF ForgetStart, IInv, TypeOK
<1> QED
  BY <1>1, <1>3, <1>4 DEF ForgetStart, IInv, TypeOK, CallInv, RowStep, host, run

LEMMA TerminateStep ==
  ASSUME IInv, NEW a \in Ops, Terminate(a)
  PROVE  IInv' /\ RowStep(row, row')
<1>1. RowStep(row, row')
  BY SameRow DEF IInv, TypeOK, Terminate, store
<1>2. op' \in [Ops -> OpOf] /\ \A b \in Ops : op'[b].pc # "idle" => op'[b].snap.gen \in Pty
  BY DEF Terminate, IInv, TypeOK, CallInv, OpOf
<1>3. budget' \in Budget
  BY UseTyped DEF Terminate, IInv, TypeOK
<1>4. [sup EXCEPT ![locator.pty].meta = FALSE] \in [Pty -> Sup]
  BY DEF IInv, TypeOK, Sup
<1>5. Up(locator.pty) => locator.pty \in Pty
  BY DEF Up
<1>6. sup' \in [Pty -> Sup] /\ reports' \subseteq Pty /\ exits' \in [Pty -> ExitOf]
  BY <1>4, <1>5, ChildGoneTyped DEF Terminate, IInv, TypeOK, host
<1> QED
  BY <1>1, <1>2, <1>3, <1>4, <1>5, <1>6 DEF Terminate, IInv, TypeOK, CallInv, RowStep,
     store, host, run

LEMMA TerminateClearStep ==
  ASSUME IInv, NEW a \in Ops, TerminateClear(a)
  PROVE  IInv' /\ RowStep(row, row')
<1>1. RowStep(row, row')
  BY SameRow DEF IInv, TypeOK, TerminateClear, store
<1> QED
  BY <1>1, ClearedTyped DEF TerminateClear, IInv, TypeOK, CallInv, RowStep, store, host,
     run, OpOf

LEMMA KillSettleStep ==
  ASSUME IInv, KillSettle
  PROVE  IInv' /\ RowStep(row, row')
<1>1. RowStep(row, row')
  BY StopGenerationStep DEF KillSettle
<1>2. engine' \in EngineOf
  BY StopGenerationStep DEF KillSettle
<1>3. op["kill"].snap.gen \in Pty
  BY DEF KillSettle, IInv, CallInv, Ops
<1>4. op' \in [Ops -> OpOf] /\ \A b \in Ops : op'[b].pc # "idle" => op'[b].snap.gen \in Pty
  BY Constants DEF KillSettle, IInv, TypeOK, CallInv, Ops, IdleOp
<1>5. acked' \subseteq Pty
  BY <1>3 DEF KillSettle, IInv, TypeOK
<1> QED
  BY <1>1, <1>2, <1>3, <1>4, <1>5 DEF KillSettle, IInv, TypeOK, CallInv, RowStep, store,
     host, run

LEMMA ForgetSettleStep ==
  ASSUME IInv, ForgetSettle
  PROVE  IInv' /\ RowStep(row, row')
<1>1. RowStep(row, row')
  BY StoppedStep DEF IInv, TypeOK, ForgetSettle
<1>2. op' \in [Ops -> OpOf] /\ \A b \in Ops : op'[b].pc # "idle" => op'[b].snap.gen \in Pty
  BY Constants DEF ForgetSettle, IInv, TypeOK, CallInv, Ops, IdleOp
<1> QED
  BY <1>1, <1>2, Constants DEF ForgetSettle, IInv, TypeOK, CallInv, RowStep, store, host, run

LEMMA SessionEndStep ==
  ASSUME IInv, SessionEnd
  PROVE  IInv' /\ RowStep(row, row')
<1>1. RowStep(row, row')
  BY StopGenerationStep DEF SessionEnd
<1> QED
  BY <1>1, StopGenerationStep, UseTyped DEF SessionEnd, IInv, TypeOK, CallInv, RowStep,
     store, host, run

LEMMA CrashStep ==
  ASSUME IInv, Crash
  PROVE  IInv' /\ RowStep(row, row')
<1>1. RowStep(row, row')
  BY SameRow DEF IInv, TypeOK, Crash, store
<1>2. [IdleTask EXCEPT !.pc = "done"] \in TaskOf
  BY Constants DEF Pcs
<1>3. exits' \in [Pty -> ExitOf] /\ sup' \in [Pty -> Sup]
  BY Constants DEF Crash, IInv, TypeOK
<1>4. task' \in [Tasks -> TaskOf] /\ op' \in [Ops -> OpOf]
  BY <1>2, Constants DEF Crash
<1>5. budget' \in Budget
  BY UseTyped DEF Crash
<1> QED
  BY <1>1, <1>2, <1>3, <1>4, <1>5, Constants, NoRowTyped DEF Crash, IInv, TypeOK, CallInv,
     RowStep, store, host, run, IdleOp, IdleLaunch

LEMMA StartStep ==
  ASSUME IInv, Start
  PROVE  IInv' /\ RowStep(row, row')
<1>1. RowStep(row, row')
  BY SameRow DEF IInv, TypeOK, Start, store
<1> QED
  BY <1>1, Constants, NoRowTyped DEF Start, IInv, TypeOK, CallInv, RowStep, store, host, run

----------------------------------------------------------------------------
(* The specification *)

LEMMA InitHolds == Init => IInv
<1> SUFFICES ASSUME Init PROVE IInv
  OBVIOUS
<1>1. task \in [Tasks -> TaskOf]
  <2>1. IdleTask \in TaskOf /\ [IdleTask EXCEPT !.pc = "done"] \in TaskOf
    BY Constants DEF Pcs
  <2> QED
    BY <2>1 DEF Init
<1>2. budget \in Budget
  BY BoundsAssumption DEF Init
<1> QED
  BY <1>1, <1>2, Constants, NoRowTyped DEF Init, IInv, TypeOK, CallInv, IdleOp, IdleLaunch

\* The steps of the lifecycle loop and of the startup task.
LEMMA SettleStep ==
  ASSUME IInv, NEW a \in Tasks, Settle(a)
  PROVE  IInv' /\ RowStep(row, row')
<1>1. CASE Tick(a)                 BY <1>1, TickStep
<1>2. CASE \E p \in Task(a).todo : Replay(a, p)
  <2>1. Task(a).todo \subseteq Pty
    BY DEF IInv, TypeOK, Task, TaskOf
  <2> QED
    BY <1>2, <2>1, ReplayStep
<1>3. CASE ReplayExit(a)           BY <1>3, ReplayExitStep
<1>4. CASE Replayed(a)             BY <1>4, ReplayedStep
<1>5. CASE ListStopping(a)         BY <1>5, ListStoppingStep
<1>6. CASE KillIfHeadless(a)       BY <1>6, KillIfHeadlessStep
<1>7. CASE FinalizeEviction(a)     BY <1>7, FinalizeEvictionStep
<1>8. CASE EvictionChanged(a)      BY <1>8, EvictionChangedStep
<1>9. CASE EvictionUncontrolled(a) BY <1>9, EvictionUncontrolledStep
<1> QED
  BY <1>1, <1>2, <1>3, <1>4, <1>5, <1>6, <1>7, <1>8, <1>9 DEF Settle

LEMMA StutterStep ==
  ASSUME IInv, UNCHANGED vars
  PROVE  IInv' /\ RowStep(row, row')
<1>1. RowStep(row, row')
  BY SameRow DEF IInv, TypeOK, vars
<1> QED
  BY <1>1 DEF vars, IInv, TypeOK, CallInv, Opened

\* Every step keeps the invariant and treats the row as a store call may.
LEMMA NextStep ==
  ASSUME IInv, [Next]_vars
  PROVE  IInv' /\ RowStep(row, row')
<1>1. ASSUME NEW p \in Pty, Supervisor(p) PROVE IInv' /\ RowStep(row, row')
  BY <1>1, AttachStep, DetachStep, TurnStartsStep, TurnEndsStep, ChildExitsStep,
     SupervisorCrashesStep DEF Supervisor
<1>2. ASSUME NEW p \in Pty, Exit(p) PROVE IInv' /\ RowStep(row, row')
  BY <1>2, ExitCallStep, ExitLookupStep, ExitActStep DEF Exit
<1>3. ASSUME NEW p \in Pty, SessionStartHook(p) PROVE IInv' /\ RowStep(row, row')
  BY <1>3, SessionStartHookStep
<1>4. ASSUME NEW n \in notes, PresentationChanged(n) PROVE IInv' /\ RowStep(row, row')
  BY <1>4, PresentationChangedStep
<1>5. CASE Message \/ Inject \/ ClearDeadEndpoint \/ DeadlineElapses
  BY <1>5, MessageStep, InjectStep, ClearDeadEndpointStep, DeadlineElapsesStep
<1>6. CASE Engine
  BY <1>6, EngineLeavesStep, EngineTeardownStep DEF Engine
<1>7. CASE Loop
  BY <1>7, SettleStep, PresentStep, ProbeStep, ApplyProbeStep, ProbeLostStep, ListDueStep,
     ReserveEvictionStep DEF Loop, Tasks
<1>8. CASE Boot
  BY <1>8, SettleStep, ReviveStep, ReviveEngineStep DEF Boot, Tasks
<1>9. CASE LaunchReserve \/ Launching
  BY <1>9, LaunchReserveStep, LaunchSpawnStep, LaunchBindStep, LaunchEngineStep,
     LaunchReleaseStep DEF Launching
<1>10. CASE Operator
  BY <1>10, KillStartStep, ForgetStartStep, SessionEndStep DEF Operator
<1>11. CASE OperatorCall
  BY <1>11, TerminateStep, TerminateClearStep, KillSettleStep, ForgetSettleStep DEF OperatorCall
<1>12. CASE Crash \/ Start
  BY <1>12, CrashStep, StartStep
<1>13. CASE UNCHANGED vars
  BY <1>13, StutterStep
<1> QED
  BY <1>1, <1>2, <1>3, <1>4, <1>5, <1>6, <1>7, <1>8, <1>9, <1>10, <1>11, <1>12, <1>13 DEF Next

\* The invariant holds in every reachable state.
THEOREM Invariance == Spec => []IInv
<1>1. IInv /\ [Next]_vars => IInv'
  BY NextStep
<1> QED
  BY InitHolds, <1>1, PTL DEF Spec

\* Every variable keeps its type, through every interleaving of the daemon's tasks
\* with supervisors, operators and crashes: no task ever builds a row, a locator or
\* a snapshot that the store could not hold.
THEOREM TypeCorrectness == Spec => []TypeOK
<1>1. IInv => TypeOK
  BY DEF IInv
<1> QED
  BY Invariance, <1>1, PTL

\* A stopped generation is left for a newer one only: no late observation, exit,
\* engine or cancelled eviction of any task revives it.
THEOREM StopsAreFinal == Spec => StopIsFinal
<1>1. IInv /\ [Next]_vars =>
        (row.gen > 0 /\ row.runtime = "stopped" => row'.runtime = "stopped" \/ row'.gen > row.gen)
  BY NextStep DEF RowStep
<1> QED
  BY Invariance, <1>1, PTL DEF Spec, StopIsFinal

\* A revoked identity stays revoked and gets no new generation, also from a launch
\* or a hook that was under way when it was revoked.
THEOREM RevocationsAreFinal == Spec => RevocationIsFinal
<1>1. IInv /\ [Next]_vars => (row.revoked => row'.revoked /\ row'.gen = row.gen)
  BY NextStep DEF RowStep
<1> QED
  BY Invariance, <1>1, PTL DEF Spec, RevocationIsFinal

\* Within a generation the presentation goes forward in attachment epochs, or says
\* of the same epoch only that it is unknown or known again, however late and out
\* of order notifications, probes and cancelled evictions are applied.
THEOREM EdgesOnlyAdvance == Spec => EdgesAdvance
<1>1. IInv /\ [Next]_vars =>
        (row'.gen = row.gen =>
           \/ row'.att > row.att
           \/ row'.att = row.att /\ (row'.pres = row.pres \/ "unavailable" \in {row.pres, row'.pres}))
  BY NextStep DEF RowStep
<1> QED
  BY Invariance, <1>1, PTL DEF Spec, EdgesAdvance

=============================================================================
