----------------------------- MODULE SessionRow -----------------------------
(***************************************************************************)
(* The persisted row of one session identity (table sessions) and its PTY   *)
(* locator (table session_locators): what each store call does to them.     *)
(* A store call is one transaction; one whose WHERE clause matches nothing  *)
(* returns the row it was given.  Callers pass snapshots they read earlier, *)
(* so every call names the generation, and where it matters the lifecycle   *)
(* or attachment epoch, that it believes in.                                *)
(*                                                                         *)
(* A PTY is named by the generation it was launched for.  A deadline is     *)
(* none, armed (set, not elapsed) or due.  The reason a runtime stopped,    *)
(* its timestamps and its standing in channels are not modelled: the only   *)
(* code that writes 'stopping' is the idle eviction.                        *)
(***************************************************************************)
EXTENDS Naturals

CONSTANT MaxGen     \* bound: runtime generations, and so PTYs

ASSUME MaxGenAssumption == MaxGen \in Nat \ {0}

Pty == 1..MaxGen
NoPid == [kind |-> "none", pty |-> 0]
Pid == {NoPid} \union [kind : {"supervisor", "harness"}, pty : Pty]

NoLocator == [pty |-> 0, gen |-> 0]
Locator == {NoLocator} \union [pty : Pty, gen : Pty]

Row == [gen : 0..MaxGen, runtime : {"running", "stopping", "stopped"},
        pres : {"unavailable", "headed", "headless"}, work : {"idle", "working"},
        revoked : BOOLEAN, life : Nat, att : Nat,
        deadline : {"none", "armed", "due"}, pid : Pid]

\* No row yet: nothing runs, and the first reservation makes generation 1.
NoRow == [gen |-> 0, runtime |-> "stopped", pres |-> "unavailable", work |-> "idle",
          revoked |-> FALSE, life |-> 0, att |-> 0, deadline |-> "none", pid |-> NoPid]

Running(r) == r.runtime = "running"
RunningAt(r, g) == r.gen = g /\ Running(r)
StoppingAt(r, g, life) == r.gen = g /\ r.runtime = "stopping" /\ r.life = life

----------------------------------------------------------------------------
(* Admission *)

\* Mutant: a reservation does not look at the recovery authority.
CanReserveRevoked(r) == r.runtime = "stopped" /\ r.gen < MaxGen

CanReserve(r) == r.runtime = "stopped" /\ ~r.revoked /\ r.gen < MaxGen

\* Mutant: a resumed session keeps its generation.
ReservedAgain(r, pid) ==
  [NoRow EXCEPT !.gen = IF r.gen = 0 THEN 1 ELSE r.gen,
                !.runtime = "running", !.life = r.life + 1, !.pid = pid]

Reserved(r, pid) ==
  [NoRow EXCEPT !.gen = r.gen + 1, !.runtime = "running", !.life = r.life + 1, !.pid = pid]

CanBind(r, g) == RunningAt(r, g) /\ ~r.revoked

----------------------------------------------------------------------------
(* Presentation and turns *)

DeadlineFor(pres, work) == IF pres = "headless" /\ work = "idle" THEN "armed" ELSE "none"

\* Mutant: an edge of the epoch that was lost is not taken back.
PresentationEdgeNewer(r, g, epoch, pres) ==
  IF RunningAt(r, g) /\ r.att < epoch
    THEN [r EXCEPT !.pres = pres, !.att = epoch, !.deadline = DeadlineFor(pres, r.work)]
    ELSE r

\* Mutant: an edge is applied whatever its epoch.
PresentationEdgeUnfenced(r, g, epoch, pres) ==
  IF RunningAt(r, g)
    THEN [r EXCEPT !.pres = pres, !.att = epoch, !.deadline = DeadlineFor(pres, r.work)]
    ELSE r

PresentationEdge(r, g, epoch, pres) ==
  IF RunningAt(r, g) /\ (r.att < epoch \/ (r.att = epoch /\ r.pres = "unavailable"))
    THEN [r EXCEPT !.pres = pres, !.att = epoch, !.deadline = DeadlineFor(pres, r.work)]
    ELSE r

PresentationLost(r, g, epoch) ==
  IF RunningAt(r, g) /\ r.att = epoch
    THEN [r EXCEPT !.pres = "unavailable", !.deadline = "none"] ELSE r

\* Mutant: a turn leaves the idle deadline running.
TurnStartedStillDue(r, g) ==
  IF RunningAt(r, g) /\ r.deadline = "none" THEN [r EXCEPT !.work = "working"] ELSE r

TurnStarted(r, g) ==
  IF RunningAt(r, g) THEN [r EXCEPT !.work = "working", !.deadline = "none"] ELSE r

EndsTurn(r, g) == RunningAt(r, g) /\ r.work = "working"

TurnEnded(r, g) ==
  IF EndsTurn(r, g) THEN [r EXCEPT !.work = "idle", !.deadline = DeadlineFor(r.pres, "idle")]
                    ELSE r

\* Accepted work takes the idle deadline of a running runtime away.
DeadlineCancelled(r) == IF Running(r) THEN [r EXCEPT !.deadline = "none"] ELSE r

----------------------------------------------------------------------------
(* Stopping and stopped *)

IsDue(r, inbox) ==
  /\ Running(r) /\ r.pres = "headless" /\ r.work = "idle" /\ r.deadline = "due"
  /\ inbox = "none"

CanReserveEviction(r, s, inbox) ==
  r.gen = s.gen /\ r.life = s.life /\ r.att = s.att /\ IsDue(r, inbox)

EvictionReserved(r) ==
  [r EXCEPT !.runtime = "stopping", !.life = r.life + 1, !.deadline = "none"]

\* Mutant: an eviction that lost its control channel is not cancelled.
EvictionCancelledByEdge(r, g, life, epoch, pres) ==
  IF StoppingAt(r, g, life) /\ r.att < epoch
    THEN [r EXCEPT !.runtime = "running", !.pres = pres, !.att = epoch,
                   !.life = r.life + 1, !.deadline = DeadlineFor(pres, "idle")]
    ELSE r

EvictionCancelled(r, g, life, epoch, pres) ==
  IF StoppingAt(r, g, life) /\ (r.att < epoch \/ (pres = "unavailable" /\ r.att = epoch))
    THEN [r EXCEPT !.runtime = "running", !.pres = pres, !.att = epoch,
                   !.life = r.life + 1, !.deadline = DeadlineFor(pres, "idle")]
    ELSE r

AsStopped(r) ==
  [r EXCEPT !.runtime = "stopped", !.pres = "unavailable", !.work = "idle",
            !.life = r.life + 1, !.deadline = "none"]

\* Mutant: a stop ends whichever generation runs.
StoppedUnfenced(r, g) == IF Running(r) THEN AsStopped(r) ELSE r

Stopped(r, g) == IF RunningAt(r, g) THEN AsStopped(r) ELSE r

EvictionFinalized(r, g, life) == IF StoppingAt(r, g, life) THEN AsStopped(r) ELSE r

RevocationFinalized(r, g) == IF r.gen = g /\ r.revoked THEN AsStopped(r) ELSE r

----------------------------------------------------------------------------
(* What a caller does with a snapshot s of the row *)

PresentationOf(clients) == IF clients = 0 THEN "headless" ELSE "headed"

\* Apply an observation of the supervisor.
Observed(r, s, epoch, clients) ==
  IF Running(s) THEN PresentationEdge(r, s.gen, epoch, PresentationOf(clients))
  ELSE IF s.runtime = "stopping"
    THEN EvictionCancelled(r, s.gen, s.life, epoch, PresentationOf(clients))
  ELSE r

\* Record that the supervisor could not be asked.
Unobservable(r, s) ==
  IF Running(s) THEN PresentationLost(r, s.gen, s.att)
  ELSE IF s.runtime = "stopping" THEN EvictionCancelled(r, s.gen, s.life, s.att, "unavailable")
  ELSE r

----------------------------------------------------------------------------
(* The PTY locator *)

Bound(l, g) == l # NoLocator /\ l.gen = g

Cleared(l, g) == IF Bound(l, g) THEN NoLocator ELSE l

\* The row a PTY's name leads to, unless its locator is of another generation.
Resolves(r, l, p) == l.pty = p /\ l.gen = r.gen /\ r.gen > 0
=============================================================================
