-------------------------- MODULE ClaimRetryDriver --------------------------
(***************************************************************************)
(* The demux task that brings events to the handlers of EventClaims: it     *)
(* replays the whole view when the view changes, and when its timer fires   *)
(* it goes once through the claims that are due.  It is one task; between   *)
(* its store calls the handlers go on.                                      *)
(*                                                                         *)
(* The view is the set of events the relay connection currently delivers.   *)
(* An event that is not in it is parked until the view changes or the grace *)
(* time after the start of the demux is over, and charged afterwards.       *)
(*                                                                         *)
(* The 64 events or mentions of a batch are more than there are here.  A     *)
(* pass takes no time, and sees the view as it was when it began.           *)
(***************************************************************************)
EXTENDS EventClaims

CONSTANTS
  Grace,       \* ABSENCE_GRACE
  StallBase,   \* STALL_BASE_BACKOFF
  StallCap,    \* STALL_MAX_BACKOFF
  Budgets      \* bounds: what the environment may do in a behaviour, one of these

\* events: those that are ever addressed to this backend.
Budget == [events : SUBSET Event, views : Nat, late : Nat, faults : Nat, crashes : Nat, reloads : Nat]

ASSUME DriverAssumption ==
  /\ Grace \in Nat /\ StallBase \in Nat \ {0} /\ StallCap \in Nat \ {0}
  /\ Budgets \subseteq Budget

\* The backoffs are never zero (RETRY_BASE_DELAY_SECS, STALL_BASE_BACKOFF), and
\* the stall's reaches its cap: 2^n is what the provers know nothing about.
ASSUME BackoffAssumption ==
  /\ \A attempts \in 1..MaxAttempts : RetryDelay(attempts) > 0
  /\ \A rank \in 0..StallCap : StallBase * 2^rank \in Nat \ {0}
  /\ StallBase * 2^StallCap >= StallCap

VARIABLES
  view,    \* SUBSET Event: the current level of the view
  wakes,   \* SUBSET {"view", "retry"}: notifications the task has not taken
  at_,     \* where the task stands: "apply", "arm", "wait", "mentions" or "pass"
  todo,    \* events the task still has to go through
  pass,    \* what the pass saw (Pass)
  parked,  \* due events that wait for the view
  grace,   \* seconds until the view counts as converged
  floor,   \* [left, rank]: the pass-level backoff, rank 0 if there is none
  timer,   \* {} or {n}: the armed timer fires in n seconds
  swapped, \* a reload replaced the view and not yet the task
  idle,    \* passes that served nothing since a second passed or parked events came back (history)
  budget   \* what the environment may still do

driver == <<view, wakes, at_, todo, pass, parked, grace, floor, timer, swapped, idle, budget>>
all == <<vars, driver>>

NoClaim == <<>>
\* stuck: the claim that was due first.  failed: a store call of the pass failed.
\* moved: a due claim was served meanwhile, by whomever (history).
Pass == [stuck : Claim \union {NoClaim}, failed : BOOLEAN, moved : BOOLEAN]
NoPass == [stuck |-> NoClaim, failed |-> FALSE, moved |-> FALSE]
NoFloor == [left |-> 0, rank |-> 0]

Spend(counter) == budget[counter] > 0 /\ budget' = [budget EXCEPT ![counter] = budget[counter] - 1]
Fault == Spend("faults")

Mention(e) == Kind[e] = "offline-mention"
TimerDriven(e) == Driven(e) \/ Mention(e)
SomeDue(e) == \E c \in Claim : c[1] = e /\ Due(claims[c])

\* A dispatch that would claim nothing and end nothing changes nothing.
Takes(e) == (Driven(e) => ~rekeyed) /\ \E c \in Claim : c[1] = e /\ (Claimable(claims[c]) \/ Exhausts(claims[c]))

\* The claims a pass is about: due, and not set aside until the view changes.
Unparked(S) == {c \in Claim : TimerDriven(c[1]) /\ Due(claims[c]) /\ ~(Driven(c[1]) /\ c[1] \in S)}

InASweep == at_ \in {"mentions", "pass"}

\* A claim the pass is about is taken, recorded, ended, charged or set aside.
Served == \E c \in Unparked(parked) : c \notin Unparked(parked)'
Noted == [pass EXCEPT !.moved = pass.moved \/ (InASweep /\ Served)]

\* Claims are taken before the dispatch returns.
Claiming == \E r \in Run : phase[r] = "claiming"

\* The task starts, or starts over: spawn_demux.
Fresh ==
  /\ at_' = "apply" /\ todo' = {} /\ pass' = NoPass /\ parked' = {}
  /\ grace' = Grace /\ floor' = NoFloor /\ timer' = {} /\ swapped' = FALSE /\ idle' = 0

DriverInit ==
  /\ Init
  /\ view = {} /\ wakes = {} /\ at_ = "apply" /\ todo = {} /\ pass = NoPass /\ parked = {}
  /\ grace = Grace /\ floor = NoFloor /\ timer = {} /\ swapped = FALSE /\ idle = 0 /\ budget \in Budgets

----------------------------------------------------------------------------
(* Replaying the view *)

ApplyEvent(e) ==
  /\ at_ = "apply" /\ e \in todo /\ ~Claiming
  /\ todo' = todo \ {e}
  /\ IF Takes(e) THEN \E r \in Run : Dispatch(r, e) ELSE UNCHANGED vars
  /\ UNCHANGED <<view, wakes, at_, pass, parked, grace, floor, timer, swapped, idle, budget>>

Applied ==
  /\ at_ = "apply" /\ todo = {} /\ ~Claiming
  /\ at_' = "arm" /\ parked' = {} /\ idle' = IF parked = {} THEN idle ELSE 0
  /\ UNCHANGED <<vars, view, wakes, todo, pass, grace, floor, timer, swapped, budget>>

----------------------------------------------------------------------------
(* Arming the timer *)

Escalated ==
  LET delay == StallBase * 2^floor.rank
  IN  [left |-> IF delay < StallCap THEN delay ELSE StallCap,
       rank |-> IF delay < StallCap THEN floor.rank + 1 ELSE floor.rank]

Earliest(S) == {n \in S : \A m \in S : n <= m}

Dues == {claims[c].wait : c \in {d \in Claim : /\ TimerDriven(d[1]) /\ Open(claims[d])
                                               /\ ~(Driven(d[1]) /\ d[1] \in parked)}}

\* Mutant: parked events wait for the view only.
ArmedWithoutGrace == {IF n < floor.left THEN floor.left ELSE n : n \in Earliest(Dues)}

\* Driver::wait
Armed == {IF n < floor.left THEN floor.left ELSE n :
            n \in Earliest(Dues \union IF parked = {} THEN {} ELSE {grace})}

Arm ==
  /\ at_ = "arm" /\ at_' = "wait" /\ timer' = Armed
  /\ UNCHANGED <<vars, view, wakes, todo, pass, parked, grace, floor, swapped, idle, budget>>

ArmFails ==
  /\ at_ = "arm" /\ at_' = "wait" /\ Fault
  /\ floor' = (IF floor.left > 0 THEN floor ELSE Escalated)
  /\ timer' = {floor'.left}
  /\ UNCHANGED <<vars, view, wakes, todo, pass, parked, grace, swapped, idle>>

WakeView ==
  /\ at_ = "wait" /\ "view" \in wakes /\ wakes' = wakes \ {"view"}
  /\ at_' = "apply" /\ todo' = view /\ timer' = {}
  /\ UNCHANGED <<vars, view, pass, parked, grace, floor, swapped, idle, budget>>

WakeRetry ==
  /\ at_ = "wait" /\ "retry" \in wakes /\ wakes' = wakes \ {"retry"}
  /\ at_' = "arm" /\ timer' = {}
  /\ UNCHANGED <<vars, view, todo, pass, parked, grace, floor, swapped, idle, budget>>

----------------------------------------------------------------------------
(* One pass over what is due *)

\* The store calls that name the first due claim or the due mentions may fail;
\* a failed list of mentions is not reported.
StartPass ==
  LET Mentions == {e \in Event : Mention(e) /\ SomeDue(e)}
      FirstDue == IF Unparked(parked') = {} THEN {NoClaim} ELSE Unparked(parked')
  IN
  /\ at_ = "wait" /\ timer = {0}
  /\ at_' = "mentions" /\ timer' = {}
  /\ parked' = IF grace = 0 THEN {} ELSE parked
  /\ \/ /\ todo' = Mentions /\ UNCHANGED budget
        /\ \E c \in FirstDue : pass' = [NoPass EXCEPT !.stuck = c]
     \/ /\ todo' = Mentions /\ Fault
        /\ pass' = [NoPass EXCEPT !.failed = TRUE]
     \/ /\ todo' = {} /\ Fault
        /\ \E c \in FirstDue : pass' = [NoPass EXCEPT !.stuck = c]
  /\ UNCHANGED <<vars, view, wakes, grace, floor, swapped, idle>>

\* drive_retries: from the stored payload, whatever the view holds.
DriveMention(e) ==
  /\ at_ = "mentions" /\ e \in todo /\ ~Claiming
  /\ todo' = todo \ {e}
  /\ IF Takes(e) THEN \E r \in Run : Dispatch(r, e) ELSE UNCHANGED vars
  /\ UNCHANGED <<view, wakes, at_, pass, parked, grace, floor, timer, swapped, idle, budget>>

ScanDriven ==
  /\ at_ = "mentions" /\ todo = {} /\ ~Claiming /\ at_' = "pass"
  /\ \/ todo' = {e \in Event : Driven(e) /\ SomeDue(e)} \ parked /\ UNCHANGED <<pass, budget>>
     \/ todo' = {} /\ pass' = [pass EXCEPT !.failed = TRUE] /\ Fault
  /\ UNCHANGED <<vars, view, wakes, parked, grace, floor, timer, swapped, idle>>

InPass(e) == at_ = "pass" /\ e \in todo /\ ~Claiming /\ todo' = todo \ {e}

DriveAbsent(e) ==
  /\ InPass(e) /\ e \notin view
  /\ IF grace = 0
       THEN (IF SomeDue(e) THEN ChargeAbsent(e) ELSE UNCHANGED vars) /\ UNCHANGED parked
       ELSE parked' = parked \union {e} /\ UNCHANGED vars
  /\ pass' = Noted
  /\ UNCHANGED <<view, wakes, at_, grace, floor, timer, swapped, idle, budget>>

\* Claim keys this backend does not produce are ended, the others dispatched.
DrivePresent(e) ==
  /\ InPass(e) /\ e \in view
  /\ IF rekeyed /\ \E c \in Claim : c[1] = e /\ Open(claims[c]) THEN FailForeign(e)
     ELSE IF Takes(e) THEN \E r \in Run : Dispatch(r, e) ELSE UNCHANGED vars
  /\ UNCHANGED <<view, wakes, at_, parked, grace, floor, timer, swapped, idle, budget>>
  /\ pass' = Noted

DriveFails(e) ==
  /\ InPass(e) /\ (e \in view \/ grace = 0) /\ Fault
  /\ pass' = [pass EXCEPT !.failed = TRUE]
  /\ UNCHANGED <<vars, view, wakes, at_, parked, grace, floor, timer, swapped, idle>>

\* Mutant: a store error does not count as a stall.
StalledByClaims == pass.stuck # NoClaim /\ pass.stuck \in Unparked(parked) /\ ~pass.failed

\* A store error, or the claim that was due first still is.
Stalled == pass.failed \/ (pass.stuck # NoClaim /\ pass.stuck \in Unparked(parked))

EndPass ==
  /\ at_ = "pass" /\ todo = {} /\ ~Claiming /\ at_' = "arm"
  /\ \/ floor' = (IF Stalled THEN Escalated ELSE NoFloor) /\ UNCHANGED budget
     \/ floor' = Escalated /\ Fault
  /\ idle' = IF pass.moved THEN 0 ELSE idle + 1
  /\ pass' = NoPass
  /\ UNCHANGED <<vars, view, wakes, todo, parked, grace, timer, swapped>>

----------------------------------------------------------------------------
(* The handlers, the view, the process and time *)

\* finish_claim wakes the task when it schedules a retry.
Schedules == \E c \in Claim : claims[c].state = "processing" /\ claims'[c].state = "pending"

Handler(r) ==
  /\ RunStep(r)
  /\ wakes' = IF Schedules THEN wakes \union {"retry"} ELSE wakes
  /\ UNCHANGED <<view, at_, todo, parked, grace, floor, timer, swapped, idle, budget>>
  /\ pass' = Noted

\* The store call that records an outcome fails: nothing is recorded, nobody woken.
RecordLost(r) ==
  /\ phase[r] = "working" /\ Fault
  /\ Release(r, at[r])
  /\ UNCHANGED <<claims, event, at, started, rekeyed>>
  /\ UNCHANGED <<view, wakes, at_, todo, pass, parked, grace, floor, timer, swapped, idle>>

\* An event with attachments reaches its handler from a task of its own.
LateDispatch(e) ==
  /\ e \in view /\ Takes(e) /\ ~Claiming /\ Spend("late")
  /\ \E r \in Run : Dispatch(r, e)
  /\ UNCHANGED <<view, wakes, at_, todo, pass, parked, grace, floor, timer, swapped, idle>>

ViewChanges ==
  /\ ~InASweep /\ ~swapped /\ Spend("views")
  /\ \E events \in SUBSET budget.events : view' = events
  /\ wakes' = wakes \union {"view"}
  /\ UNCHANGED <<vars, at_, todo, pass, parked, grace, floor, timer, swapped, idle>>

\* Another configuration, maybe another backend key: the view starts over.  The
\* former task still runs while the former relay connection is shut down,
\* which takes less than a second here.
Reload ==
  /\ ~swapped /\ ~InASweep /\ ~Claiming /\ Spend("reloads")
  /\ Rekey \/ UNCHANGED vars
  /\ view' = {} /\ swapped' = TRUE
  /\ UNCHANGED <<wakes, at_, todo, pass, parked, grace, floor, timer, idle>>

Respawn ==
  /\ swapped /\ ~InASweep /\ ~Claiming
  /\ wakes' = wakes \ {"view"} /\ Fresh
  /\ UNCHANGED <<vars, view, budget>>

Restart ==
  /\ Spend("crashes")
  /\ Crash \/ ((\A r \in Run : phase[r] = "idle") /\ UNCHANGED vars)
  /\ view' = {} /\ wakes' = {} /\ Fresh

Sooner(n) == IF n > 0 THEN n - 1 ELSE 0

Second ==
  /\ ~InASweep /\ ~swapped
  /\ IF ENABLED Tick THEN Tick ELSE UNCHANGED vars
  /\ grace' = Sooner(grace) /\ floor' = [floor EXCEPT !.left = Sooner(floor.left)]
  /\ timer' = {Sooner(n) : n \in timer} /\ idle' = 0
  /\ <<vars, grace, floor, timer>>' # <<vars, grace, floor, timer>>
  /\ UNCHANGED <<view, wakes, at_, todo, pass, parked, swapped, budget>>

Pruned == (\E c \in Claim : Prune(c)) /\ UNCHANGED driver

Demux ==
  \/ \E e \in Event : ApplyEvent(e) \/ DriveMention(e) \/ DriveAbsent(e) \/ DrivePresent(e)
  \/ Applied \/ Arm \/ WakeView \/ WakeRetry \/ StartPass \/ ScanDriven \/ EndPass

DriverNext ==
  \/ Demux
  \/ \E e \in Event : DriveFails(e) \/ LateDispatch(e)
  \/ ArmFails
  \/ \E r \in Run : Handler(r) \/ RecordLost(r)
  \/ ViewChanges \/ Reload \/ Respawn \/ Restart \/ Second \/ Pruned

DriverSpec == DriverInit /\ [][DriverNext]_all

\* The task and the handlers are scheduled, side effects end, and time passes.
FairDriverSpec ==
  /\ DriverSpec
  /\ WF_all(Demux) /\ WF_all(Respawn) /\ WF_all(Second) /\ \A r \in Run : WF_all(Handler(r))

----------------------------------------------------------------------------
(* Properties *)

\* Every claim of an event that the task drives comes to an end, through
\* retries, takeovers, absence from the view, failing store calls, restarts and
\* reloads: the timer is armed for whatever is left (demux.rs, claim_retries.rs).
EveryClaimEnds ==
  \A c \in Claim : TimerDriven(c[1]) /\ Open(claims[c]) ~> ~Open(claims[c])

\* The timer does not spin: between two seconds the task makes at most one pass
\* during which no due claim was served, however stores fail, handlers lose
\* claims and rows stay due (escalate), unless the view took events back.
PassesDoNotSpin == idle <= 1
=============================================================================
