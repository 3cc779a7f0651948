----------------------- MODULE ClaimRetryDriverProofs -----------------------
(***************************************************************************)
(* What is proved of the claim table holds under the driver: each step of   *)
(* the demux task is one of the table's steps or leaves the table alone.    *)
(* One step of the driver module is not among them, the outcome that could  *)
(* not be recorded (RecordLost): it is allowed here whether or not the      *)
(* table's own StoreFaults is, and lets a claim go without writing its row. *)
(*                                                                         *)
(* And the timer does not spin (SpinInv): a pass whose claims are all still *)
(* due has failed or is stalled, and then a backoff holds the timer.        *)
(***************************************************************************)
EXTENDS ClaimRetryDriver, EventClaimsProofs

----------------------------------------------------------------------------
(* The driver's steps *)

\* Every step of the driver is one of the claim table's, or leaves it alone, or
\* is a record that was lost.
LEMMA DriverSteps ==
  ASSUME [DriverNext]_all
  PROVE  [Next]_vars \/ \E r \in Run : RecordLost(r)
<1>1. ASSUME NEW e \in Event,
             \/ ApplyEvent(e) \/ DriveMention(e) \/ DriveAbsent(e) \/ DrivePresent(e)
             \/ DriveFails(e) \/ LateDispatch(e)
      PROVE  [Next]_vars
  <2>1. \/ \E r \in Run : Dispatch(r, e)
        \/ ChargeAbsent(e) \/ FailForeign(e) \/ UNCHANGED vars
    BY <1>1 DEF ApplyEvent, DriveMention, DriveAbsent, DrivePresent, DriveFails, LateDispatch
  <2>2. QED
    BY <2>1 DEF Next
<1>2. ASSUME \/ Applied \/ Arm \/ WakeView \/ WakeRetry \/ StartPass \/ ScanDriven \/ EndPass
             \/ ArmFails \/ ViewChanges \/ Respawn
      PROVE  UNCHANGED vars
  BY <1>2
  DEF Applied, Arm, WakeView, WakeRetry, StartPass, ScanDriven, EndPass, ArmFails, ViewChanges, Respawn
<1>3. ASSUME NEW r \in Run, Handler(r)
      PROVE  [Next]_vars
  BY <1>3 DEF Handler, Next
<1>4. ASSUME Reload \/ Restart \/ Second \/ Pruned
      PROVE  [Next]_vars
  BY <1>4 DEF Reload, Restart, Second, Pruned, Next
<1>5. CASE UNCHANGED all
  BY <1>5 DEF all
<1>6. QED
  BY <1>1, <1>2, <1>3, <1>4, <1>5 DEF DriverNext, Demux

----------------------------------------------------------------------------
(* A record that was lost *)

LEMMA LostTypes ==
  ASSUME IInv, NEW r \in Run, RecordLost(r)
  PROVE  TypeOK' /\ HeldInv'
<1>t. /\ phase \in [Run -> Phases] /\ event \in [Run -> Event] /\ held \in [Run -> SUBSET Index]
      /\ gen \in [Run -> [Index -> 0..MaxAttempts]] /\ at \in [Run -> 0..MaxTargets]
      /\ age \in [Run -> 0..WorkLimit]
  BY DEF IInv, TypeOK
<1>h. HeldInv /\ phase[r] = "working" /\ Release(r, at[r])
      /\ UNCHANGED <<claims, event, at, started, rekeyed>>
  BY DEF IInv, RecordLost
<1>i. at[r] \in held[r] /\ at[r] \in Index
  BY <1>t, <1>h DEF HeldInv
<1>1. held' \in [Run -> SUBSET Index] /\ held' = [held EXCEPT ![r] = held[r] \ {at[r]}]
  BY <1>t, <1>h DEF Release
<1>2. gen' \in [Run -> [Index -> 0..MaxAttempts]]
  <2>1. 0 \in 0..MaxAttempts
    BY ConstantTypes
  <2>2. gen' = [gen EXCEPT ![r][at[r]] = 0]
    BY <1>h DEF Release
  <2>3. [gen[r] EXCEPT ![at[r]] = 0] \in [Index -> 0..MaxAttempts]
    BY <1>t, <2>1
  <2>4. QED
    BY <1>t, <2>2, <2>3
<1>3. /\ phase' = [phase EXCEPT ![r] = IF held[r] \subseteq {at[r]} THEN "idle" ELSE "queue"]
      /\ phase' \in [Run -> Phases]
  BY <1>t, <1>h DEF Release, Phases
<1>4. age' \in [Run -> 0..WorkLimit]
  BY <1>t, <1>h, ConstantTypes DEF Release
<1>5. TypeOK'
  BY <1>h, <1>1, <1>2, <1>3, <1>4 DEF IInv, TypeOK
<1>6. HeldInv'
  <2> SUFFICES ASSUME NEW s \in Run
               PROVE  /\ held'[s] \subseteq 1..Targets[event[s]]
                      /\ phase'[s] = "idle" => held'[s] = {}
                      /\ phase'[s] = "claiming" =>
                           at[s] \in 1..Targets[event[s]] /\ \A i \in held'[s] : i < at[s]
                      /\ phase'[s] \notin {"idle", "claiming"} => held'[s] # {}
                      /\ phase'[s] = "working" => at[s] \in held'[s]
    BY <1>h DEF HeldInv
  <2>1. CASE s = r
    BY <1>t, <1>h, <1>i, <1>1, <1>3, <2>1 DEF HeldInv
  <2>2. CASE s # r
    BY <1>t, <1>h, <1>1, <1>3, <2>2 DEF HeldInv
  <2>3. QED
    BY <2>1, <2>2
<1>7. QED
  BY <1>5, <1>6

LEMMA LostKeeps ==
  ASSUME IInv, NEW r \in Run, RecordLost(r)
  PROVE  IInv'
<1>t. TypeOK /\ FenceInv /\ OpenHasAttemptsLeft /\ LeaseInv /\ EffectExclusion
      /\ claims' = claims /\ at' = at /\ event' = event /\ started' = started
  BY DEF IInv, RecordLost
<1>1. TypeOK' /\ HeldInv'
  BY LostTypes
<1>2. \A c \in Claim : RowAdvances(claims[c], claims'[c])
  <2> SUFFICES ASSUME NEW c \in Claim
               PROVE  RowAdvances(claims[c], claims[c])
    BY <1>t
  <2>1. GoodRow(claims[c])
    BY <1>t, RowsAreGood
  <2>2. QED
    BY <2>1, ConstantTypes DEF GoodRow, RowType, RowAdvances
<1>3. ASSUME NEW s \in Run, NEW c \in Claim, Holds(s, c)'
      PROVE  /\ Holds(s, c) /\ gen'[s][c[2]] = gen[s][c[2]]
             /\ phase'[s] = "working" => phase[s] = "working" /\ at'[s] = at[s] /\ age'[s] = age[s]
             /\ phase[s] = "working" /\ at[s] = c[2] => phase'[s] = "working" /\ at'[s] = c[2]
  BY <1>t, <1>3, ReleaseLetsGo DEF RecordLost
<1>4. FenceInv' /\ OpenHasAttemptsLeft' /\ GenerationUnique' /\ StartedInv' /\ EffectOncePerGeneration'
  BY <1>t, <1>1, <1>2, <1>3, QuietStep DEF IInv
<1>5. LeaseInv'
  BY <1>t, <1>3 DEF LeaseInv
<1>6. EffectExclusion'
  <2>1. \A s \in Run : phase'[s] = "working" => phase[s] = "working"
    <3>1. phase \in [Run -> Phases] /\ Release(r, at[r])
      BY <1>t DEF TypeOK, RecordLost
    <3>2. QED
      BY <3>1 DEF Release
  <2>2. QED
    BY <1>t, <2>1 DEF EffectExclusion
<1>7. QED
  BY <1>1, <1>4, <1>5, <1>6 DEF IInv

----------------------------------------------------------------------------
(* Theorems *)

\* The invariant of the claim table is an invariant of the demux task and its
\* handlers, for every budget of views, faults, crashes and reloads.
THEOREM DriverInvariance == DriverSpec => []IInv
<1>1. DriverInit => IInv
  BY InitInv DEF DriverInit
<1>2. IInv /\ [DriverNext]_all => IInv'
  BY DriverSteps, InvStep, LostKeeps
<1>3. QED
  BY <1>1, <1>2, PTL DEF DriverSpec

\* Whatever the driver dispatches, charges, fails or loses, a lease that still
\* runs is ended by its owner, by an unfenced management completion or by the
\* foreign-key sweep only (demux.rs, claim_retries.rs; LiveLeaseRespected).
THEOREM DriverRespectsLeases == FairDriverSpec => LiveLeaseRespected
<1>1. IInv /\ [DriverNext]_all => Respected
  <2> SUFFICES ASSUME IInv, [DriverNext]_all
               PROVE  Respected
    OBVIOUS
  <2>1. CASE [Next]_vars
    BY <2>1, LeaseIsRespected
  <2>2. CASE \E r \in Run : RecordLost(r)
    <3>1. claims' = claims
      BY <2>2 DEF RecordLost
    <3>2. QED
      BY <3>1 DEF Respected, Taken, Owns
  <2>3. QED
    BY <2>1, <2>2, DriverSteps
<1>2. Respected <=> \A c \in Claim :
         /\ claims[c].state = "processing" /\ claims[c].wait > 0
         /\ ~Owns(claims'[c], claims[c].attempts)
         => \/ \E r \in Run : Holds(r, c) /\ c[2] \notin held'[r]
                             /\ (gen[r][c[2]] = claims[c].attempts \/ Kind[c[1]] = "management")
            \/ rekeyed /\ claims'[c].state = "failed"
  BY DEF Respected, Taken, Excused, Ends
<1>3. QED
  BY <1>1, <1>2, DriverInvariance, PTL DEF FairDriverSpec, DriverSpec, LiveLeaseRespected

\* Under the driver too, a side effect starts at most once per generation, two
\* live handlers never hold one generation, and none works while another does
\* when side effects fit in the lease.
THEOREM DriverStartsOnce ==
  DriverSpec => [](EffectOncePerGeneration /\ GenerationUnique /\ EffectExclusion)
BY DriverInvariance, PTL DEF IInv
----------------------------------------------------------------------------
(* The timer does not spin *)

Places == {"apply", "arm", "wait", "mentions", "pass"}

\* What the task keeps, as types.
DriverTypeOK ==
  /\ at_ \in Places /\ grace \in Nat /\ timer \in SUBSET Nat /\ idle \in {0, 1}
  /\ floor \in [left : Nat, rank : 0..StallCap]
  /\ pass \in Pass

\* During a pass none before it was idle, and the grace time is over for every
\* event that was set aside.  Unless something was served or a store call
\* failed, the claim that was due first still is, or none was due.
SweepInv ==
  InASweep =>
    /\ idle = 0
    /\ grace > 0 \/ parked = {}
    /\ \/ pass.moved \/ pass.failed \/ Unparked(parked) = {}
       \/ pass.stuck # NoClaim /\ pass.stuck \in Unparked(parked)

\* After an idle pass the task backs off or nothing is due, so that the timer
\* does not fire before a second has passed.
CalmInv ==
  ~InASweep /\ idle = 1 =>
    /\ floor.left > 0 \/ (Unparked(parked) = {} /\ (grace > 0 \/ parked = {}))
    /\ at_ = "wait" => 0 \notin timer

SpinInv == DriverTypeOK /\ SweepInv /\ CalmInv

\* Recording an outcome does not make a row due.
LEMMA FinishedIsNotDue ==
  ASSUME NEW row, GoodRow(row), NEW g, NEW kind,
         NEW outcome \in {"completed", "failed", "retry"},
         Due(Finished(row, g, kind, outcome))
  PROVE  Due(row)
<1>1. CASE outcome = "completed"
  BY <1>1, ConstantTypes DEF Finished, Completed, Ended, Open, Due
<1>2. CASE outcome = "failed"
  BY <1>2, ConstantTypes DEF Finished, Failed, Ended, Open, Due
<1>3. CASE outcome = "retry"
  <2>1. CASE Owns(row, g)
    <3>1. row.attempts + 1 \in 1..MaxAttempts
      BY <2>1, ConstantTypes DEF GoodRow, RowType, Owns, Open
    <3>2. RetryDelay(row.attempts + 1) > 0
      BY <3>1, BackoffAssumption
    <3>3. QED
      BY <1>3, <2>1, <3>1, <3>2, ConstantTypes DEF Finished, Charged, Ended, Open, Due
  <2>2. QED
    BY <1>3, <2>1 DEF Finished
<1>4. QED
  BY <1>1, <1>2, <1>3

\* What the handlers and the task do to the table, without time.
Timeless ==
  \/ UNCHANGED claims
  \/ \E r \in Run : RunStep(r)
  \/ \E e \in Event : ChargeAbsent(e) \/ FailForeign(e)
  \/ \E c \in Claim : Prune(c)

\* Only a second that passes makes a claim due.
LEMMA OnlyTimeMakesDue ==
  ASSUME IInv, Timeless, NEW c \in Claim, Due(claims'[c])
  PROVE  Due(claims[c])
<1> USE ConstantTypes
<1>t. claims \in [Claim -> RowType]
  BY DEF IInv, TypeOK, RowType
<1>g. ASSUME NEW d \in Claim
      PROVE  GoodRow(claims[d])
  BY RowsAreGood DEF IInv
<1>h. ASSUME NEW r \in Run, phase[r] = "claiming"
      PROVE  Current(r) \in Claim
  BY <1>h, HeldClaim DEF HeldInv, Current, IInv
<1>1. CASE UNCHANGED claims
  BY <1>1
<1>2. ASSUME NEW r \in Run, TakeTarget(r)
      PROVE  Due(claims[c])
  <2>1. \A row : ~Due(Claimed(row))
    BY DEF Due, Claimed
  <2>2. QED
    BY <1>t, <1>2, <1>h, <2>1 DEF TakeTarget
<1>3. ASSUME NEW r \in Run, ExhaustTarget(r)
      PROVE  Due(claims[c])
  <2>1. \A n : ~Due(Ended("failed", n))
    BY DEF Due, Ended, Open
  <2>2. QED
    BY <1>t, <1>3, <1>h, <2>1 DEF ExhaustTarget
<1>c. ASSUME NEW r \in Run, NEW i, NEW outcome \in {"completed", "failed", "retry"},
             Record(r, i, outcome)
      PROVE  Due(claims[c])
  BY <1>t, <1>c, <1>g, FinishedIsNotDue DEF Record
<1>4. ASSUME NEW r \in Run, FinishRejected(r)
      PROVE  Due(claims[c])
  BY <1>4, <1>c DEF FinishRejected
<1>5. ASSUME NEW r \in Run, FinishWork(r)
      PROVE  Due(claims[c])
  <2>1. Outcomes(event[r]) \subseteq {"completed", "failed", "retry"}
    BY ConstantsAssumption DEF Outcomes, Kinds, IInv, TypeOK
  <2>2. QED
    BY <1>5, <1>c, <2>1 DEF FinishWork
<1>6. ASSUME NEW r \in Run, BeginWork(r) \/ LoseTarget(r)
      PROVE  Due(claims[c])
  <2>1. CASE RenewHeld(r)
    <3>1. ASSUME NEW g, Due(Renewed(claims[c], g))
          PROVE  Due(claims[c])
      BY <3>1, <1>t DEF Renewed, Leased, Due, RowType
    <3>2. QED
      BY <2>1, <3>1 DEF RenewHeld
  <2>2. QED
    BY <1>1, <1>6, <2>1 DEF BeginWork, LoseTarget
<1>7. ASSUME NEW e \in Event, ChargeAbsent(e)
      PROVE  Due(claims[c])
  BY <1>7 DEF ChargeAbsent
<1>8. ASSUME NEW e \in Event, FailForeign(e)
      PROVE  Due(claims[c])
  <2>1. Due(Failed(claims[c])) => Due(claims[c])
    BY DEF Failed, Ended, Due, Open
  <2>2. QED
    BY <1>8, <2>1 DEF FailForeign
<1>9. ASSUME NEW d \in Claim, Prune(d)
      PROVE  Due(claims[c])
  <2>1. ~Due(NoRow)
    BY DEF Due, Open, NoRow
  <2>2. QED
    BY <1>t, <1>9, <2>1 DEF Prune
<1>10. ASSUME NEW r \in Run, RunStep(r)
       PROVE  Due(claims[c])
  BY <1>10, <1>1, <1>2, <1>3, <1>4, <1>5, <1>6 DEF RunStep, SkipTarget, Admission
<1>11. QED
  BY <1>1, <1>7, <1>8, <1>9, <1>10 DEF Timeless

\* While the parked events stay parked and no second passes, no claim comes
\* back to the pass.
LEMMA OnlyTimeUnparks ==
  ASSUME IInv, Timeless, parked \subseteq parked'
  PROVE  Unparked(parked)' \subseteq Unparked(parked)
BY OnlyTimeMakesDue DEF Unparked, TimerDriven, Driven, Mention

\* The pass-level backoff is at least a second long.
LEMMA EscalatedBacksOff ==
  ASSUME floor \in [left : Nat, rank : 0..StallCap]
  PROVE  Escalated \in [left : Nat, rank : 0..StallCap] /\ Escalated.left > 0
<1>1. PICK delay \in Nat \ {0} : delay = StallBase * 2^floor.rank
  BY BackoffAssumption
<1>2. StallCap \in Nat \ {0} /\ floor.rank \in 0..StallCap
  BY DriverAssumption
<1>3. floor.rank = StallCap => delay >= StallCap
  BY <1>1, BackoffAssumption
<1>4. Escalated = [left |-> IF delay < StallCap THEN delay ELSE StallCap,
                   rank |-> IF delay < StallCap THEN floor.rank + 1 ELSE floor.rank]
  BY <1>1 DEF Escalated
<1>5. QED
  BY <1>1, <1>2, <1>3, <1>4

LEMMA InitSpin == DriverInit => SpinInv
<1> SUFFICES ASSUME DriverInit PROVE SpinInv
  OBVIOUS
<1>1. Grace \in Nat /\ StallCap \in Nat
  BY DriverAssumption
<1>2. NoFloor \in [left : Nat, rank : 0..StallCap] /\ NoPass \in Pass
  BY <1>1 DEF NoFloor, NoPass, Pass
<1>3. QED
  BY <1>1, <1>2 DEF DriverInit, SpinInv, DriverTypeOK, SweepInv, CalmInv, Places, InASweep

\* What a step of a pass notes: if nothing was served, the claims the pass is
\* about are the same, or some are no longer set aside.
LEMMA PassGoesOn ==
  ASSUME IInv, SpinInv, Timeless, InASweep, InASweep', parked \subseteq parked',
         grace' = grace, idle' = idle, floor' = floor, timer' = timer,
         at_' \in Places,
         \/ grace > 0 \/ parked' = parked,
         \/ pass' = Noted
         \/ pass' = pass /\ Unparked(parked) \subseteq Unparked(parked)'
         \/ pass' = [pass EXCEPT !.failed = TRUE]
  PROVE  SpinInv'
<1>1. pass' \in Pass /\ pass'.stuck = pass.stuck
      /\ (pass.moved => pass'.moved) /\ (pass.failed => pass'.failed)
  BY DEF SpinInv, DriverTypeOK, Pass, Noted
<1>2. Unparked(parked)' \subseteq Unparked(parked)
  BY OnlyTimeUnparks
<1>3. \/ pass'.moved \/ pass'.failed
      \/ Unparked(parked) \subseteq Unparked(parked)'
  <2>1. CASE pass' = Noted
    BY <2>1 DEF Noted, Served, SpinInv, DriverTypeOK, Pass
  <2>2. CASE pass' = [pass EXCEPT !.failed = TRUE]
    BY <2>2 DEF SpinInv, DriverTypeOK, Pass
  <2>3. QED
    BY <2>1, <2>2
<1>4. SweepInv'
  BY <1>1, <1>2, <1>3 DEF SpinInv, SweepInv
<1>5. QED
  BY <1>1, <1>4 DEF SpinInv, DriverTypeOK, CalmInv

\* Between passes, what the task does not touch stays calm.
LEMMA CalmStays ==
  ASSUME IInv, SpinInv, Timeless, ~InASweep, pass' \in Pass,
         UNCHANGED <<at_, parked, grace, floor, timer, idle>>
  PROVE  SpinInv'
<1>1. Unparked(parked)' \subseteq Unparked(parked)
  BY OnlyTimeUnparks
<1>2. QED
  BY <1>1 DEF SpinInv, DriverTypeOK, SweepInv, CalmInv, InASweep

\* A step of a pass on one event.
LEMMA PassSteps ==
  ASSUME IInv, SpinInv, NEW e \in Event,
         DriveMention(e) \/ DriveAbsent(e) \/ DrivePresent(e) \/ DriveFails(e)
  PROVE  SpinInv'
<1>t. at_ \in Places /\ (InASweep => grace > 0 \/ parked = {})
  BY DEF SpinInv, DriverTypeOK, SweepInv
<1>1. CASE DriveMention(e)
  <2>1. UNCHANGED <<claims, at_, pass, parked, grace, floor, timer, idle>> /\ InASweep
    BY <1>1 DEF DriveMention, Dispatch, vars, InASweep
  <2>2. Unparked(parked)' = Unparked(parked) /\ Timeless /\ InASweep'
    BY <2>1 DEF Unparked, Timeless, InASweep
  <2>3. QED
    BY <1>t, <2>1, <2>2, PassGoesOn
<1>2. CASE DriveAbsent(e)
  <2>1. /\ UNCHANGED <<at_, grace, floor, timer, idle>> /\ InASweep /\ pass' = Noted
        /\ parked \subseteq parked' /\ (grace = 0 => parked' = parked)
    BY <1>2 DEF DriveAbsent, InPass, InASweep
  <2>2. Timeless /\ InASweep'
    BY <1>2, <2>1 DEF DriveAbsent, Timeless, vars, InASweep
  <2>3. grace > 0 \/ parked' = parked
    BY <2>1 DEF SpinInv, DriverTypeOK
  <2>4. QED
    BY <1>t, <2>1, <2>2, <2>3, PassGoesOn
<1>3. CASE DrivePresent(e)
  <2>1. /\ UNCHANGED <<at_, parked, grace, floor, timer, idle>> /\ InASweep /\ pass' = Noted
    BY <1>3 DEF DrivePresent, InPass, InASweep
  <2>2. Timeless /\ InASweep'
    BY <1>3, <2>1 DEF DrivePresent, Dispatch, Timeless, vars, InASweep
  <2>4. QED
    BY <1>t, <2>1, <2>2, PassGoesOn
<1>4. CASE DriveFails(e)
  <2>1. /\ UNCHANGED <<vars, at_, parked, grace, floor, timer, idle>> /\ InASweep
        /\ pass' = [pass EXCEPT !.failed = TRUE]
    BY <1>4 DEF DriveFails, InPass, InASweep
  <2>2. Timeless /\ InASweep'
    BY <2>1 DEF Timeless, vars, InASweep
  <2>4. QED
    BY <1>t, <2>1, <2>2, PassGoesOn
<1>5. QED
  BY <1>1, <1>2, <1>3, <1>4

\* The handlers and the pruner, whenever they step.
LEMMA HandlerSteps ==
  ASSUME IInv, SpinInv,
         \/ \E r \in Run : Handler(r) \/ RecordLost(r)
         \/ \E e \in Event : LateDispatch(e)
         \/ Pruned \/ UNCHANGED all
  PROVE  SpinInv'
<1>t. at_ \in Places /\ pass \in Pass
  BY DEF SpinInv, DriverTypeOK
<1>n. Noted \in Pass
  BY <1>t DEF Noted, Pass
<1>1. UNCHANGED <<at_, parked, grace, floor, timer, idle>>
  BY DEF Handler, RecordLost, LateDispatch, Pruned, driver, all
<1>2. Timeless
  BY DEF Handler, RecordLost, LateDispatch, Dispatch, Pruned, Timeless, all, vars
<1>3. pass' = Noted \/ (pass' = pass /\ Unparked(parked) \subseteq Unparked(parked)')
  <2>1. ASSUME NEW r \in Run, Handler(r)
        PROVE  pass' = Noted
    BY <2>1 DEF Handler
  <2>2. ASSUME claims' = claims, UNCHANGED <<pass, parked>>
        PROVE  pass' = pass /\ Unparked(parked) \subseteq Unparked(parked)'
    BY <2>2 DEF Unparked
  <2>3. ASSUME NEW c \in Claim, Prune(c), UNCHANGED driver
        PROVE  pass' = pass /\ Unparked(parked) \subseteq Unparked(parked)'
    <3>1. \A d \in Claim : Due(claims[d]) => claims'[d] = claims[d]
      BY <2>3 DEF Prune, Terminal, Due, Open, IInv, TypeOK
    <3>2. QED
      BY <2>3, <3>1 DEF Unparked, driver
  <2>4. QED
    BY <2>1, <2>2, <2>3 DEF RecordLost, LateDispatch, Dispatch, Pruned, all, vars, driver
<1>4. CASE InASweep
  <2>1. InASweep' /\ (grace > 0 \/ parked' = parked)
    BY <1>1, <1>4 DEF InASweep
  <2>2. QED
    BY <1>t, <1>1, <1>2, <1>3, <1>4, <2>1, PassGoesOn
<1>5. CASE ~InASweep
  BY <1>t, <1>n, <1>1, <1>2, <1>3, <1>5, CalmStays
<1>6. QED
  BY <1>4, <1>5

\* The steps that start the task over.
LEMMA FreshIsCalm ==
  ASSUME Fresh
  PROVE  SpinInv'
<1>1. Grace \in Nat /\ StallCap \in Nat
  BY DriverAssumption
<1>2. NoFloor \in [left : Nat, rank : 0..StallCap] /\ NoPass \in Pass
  BY <1>1 DEF NoFloor, NoPass, Pass
<1>3. QED
  BY <1>1, <1>2 DEF Fresh, SpinInv, DriverTypeOK, SweepInv, CalmInv, Places, InASweep

\* A second that passes: nothing is idle after it.
LEMMA SecondIsCalm ==
  ASSUME SpinInv, Second
  PROVE  SpinInv'
<1>1. \A n \in Nat : Sooner(n) \in Nat
  BY DEF Sooner
<1>2. floor' \in [left : Nat, rank : 0..StallCap] /\ timer' \in SUBSET Nat /\ grace' \in Nat
  BY <1>1 DEF Second, SpinInv, DriverTypeOK
<1>3. UNCHANGED <<at_, pass>> /\ idle' = 0 /\ ~InASweep
  BY DEF Second
<1>4. QED
  BY <1>2, <1>3 DEF SpinInv, DriverTypeOK, SweepInv, CalmInv, InASweep

\* A pass begins: only when the timer fires, and a calm task's timer does not.
LEMMA StartPassSpin ==
  ASSUME SpinInv, StartPass
  PROVE  SpinInv'
<1>1. idle = 0
  BY DEF StartPass, SpinInv, DriverTypeOK, CalmInv, InASweep
<1>2. /\ UNCHANGED <<vars, grace, floor, idle>> /\ at_' = "mentions" /\ timer' = {}
      /\ parked' = IF grace = 0 THEN {} ELSE parked
  BY DEF StartPass
<1>3. grace > 0 \/ parked' = {}
  BY <1>2 DEF SpinInv, DriverTypeOK
<1>4. Unparked(parked') = Unparked(parked)'
  BY <1>2 DEF Unparked, vars
<1>5. ASSUME NEW c \in Claim \union {NoClaim}
      PROVE  /\ [NoPass EXCEPT !.stuck = c] \in Pass
             /\ [NoPass EXCEPT !.stuck = c].stuck = c
  BY DEF NoPass, Pass
<1>6. [NoPass EXCEPT !.failed = TRUE] \in Pass /\ [NoPass EXCEPT !.failed = TRUE].failed
  BY DEF NoPass, Pass
<1>7. \A c \in Claim : c # NoClaim
  BY DEF Claim, NoClaim
<1>8. /\ pass' \in Pass
      /\ \/ pass'.failed \/ Unparked(parked)' = {}
         \/ pass'.stuck # NoClaim /\ pass'.stuck \in Unparked(parked)'
  <2>1. CASE pass' = [NoPass EXCEPT !.failed = TRUE]
    BY <2>1, <1>6
  <2>2. CASE Unparked(parked') = {} /\ pass' = [NoPass EXCEPT !.stuck = NoClaim]
    BY <2>2, <1>4, <1>5
  <2>3. ASSUME NEW c \in Unparked(parked'), pass' = [NoPass EXCEPT !.stuck = c]
        PROVE  pass' \in Pass /\ pass'.stuck # NoClaim /\ pass'.stuck \in Unparked(parked)'
    <3>1. c \in Claim
      BY DEF Unparked
    <3>2. QED
      BY <2>3, <3>1, <1>4, <1>5, <1>7
  <2>4. QED
    BY <2>1, <2>2, <2>3 DEF StartPass
<1>9. SweepInv'
  BY <1>1, <1>2, <1>3, <1>8 DEF SweepInv
<1>10. QED
  BY <1>1, <1>2, <1>8, <1>9 DEF SpinInv, DriverTypeOK, CalmInv, Places, InASweep

\* A pass goes through the driven claims after the mentions.
LEMMA ScanSpin ==
  ASSUME IInv, SpinInv, ScanDriven
  PROVE  SpinInv'
<1>1. /\ UNCHANGED <<claims, parked, grace, floor, timer, idle>> /\ InASweep
      /\ InASweep' /\ Timeless /\ at_' \in Places
      /\ pass' = pass \/ pass' = [pass EXCEPT !.failed = TRUE]
  BY DEF ScanDriven, vars, InASweep, Timeless, Places
<1>2. Unparked(parked)' = Unparked(parked)
  BY <1>1 DEF Unparked
<1>3. grace > 0 \/ parked' = parked
  BY <1>1
<1>4. QED
  BY <1>1, <1>2, <1>3, PassGoesOn

\* A pass ends.  If it served nothing, either it was stalled and the task backs
\* off, or nothing is due.
LEMMA EndPassSpin ==
  ASSUME SpinInv, EndPass
  PROVE  SpinInv'
<1>1. /\ UNCHANGED <<vars, parked, grace, timer>> /\ at_' = "arm" /\ pass' = NoPass
      /\ InASweep /\ idle' = IF pass.moved THEN 0 ELSE idle + 1
      /\ floor' = Escalated \/ (floor' = NoFloor /\ ~Stalled)
  BY DEF EndPass, InASweep
<1>2. idle = 0 /\ (grace > 0 \/ parked = {})
  BY <1>1 DEF SpinInv, SweepInv
<1>3. NoPass \in Pass /\ NoFloor \in [left : Nat, rank : 0..StallCap]
  BY DriverAssumption DEF NoPass, Pass, NoFloor
<1>4. Escalated \in [left : Nat, rank : 0..StallCap] /\ Escalated.left > 0
  BY EscalatedBacksOff DEF SpinInv, DriverTypeOK
<1>5. Unparked(parked)' = Unparked(parked)
  BY <1>1 DEF Unparked, vars
<1>6. idle' = 1 => floor'.left > 0 \/ Unparked(parked) = {}
  <2>1. CASE floor' = Escalated
    BY <2>1, <1>4
  <2>2. CASE ~Stalled
    BY <2>2, <1>1, <1>2 DEF Stalled, SpinInv, SweepInv
  <2>3. QED
    BY <1>1, <2>1, <2>2
<1>7. idle' \in {0, 1}
  BY <1>1, <1>2
<1>8. QED
  BY <1>1, <1>2, <1>3, <1>4, <1>5, <1>6, <1>7
  DEF SpinInv, DriverTypeOK, SweepInv, CalmInv, Places, InASweep

\* Arming the timer: never for now while the task is to stay calm.
LEMMA ArmSpin ==
  ASSUME IInv, SpinInv, Arm \/ ArmFails
  PROVE  SpinInv'
<1>t. /\ floor \in [left : Nat, rank : 0..StallCap] /\ grace \in Nat
      /\ floor.left \in Nat
  BY DEF SpinInv, DriverTypeOK
<1>1. UNCHANGED <<vars, parked, grace, pass, idle>> /\ at_ = "arm" /\ at_' = "wait"
  BY DEF Arm, ArmFails
<1>2. Unparked(parked)' = Unparked(parked)
  BY <1>1 DEF Unparked, vars
<1>3. CASE Arm
  <2>1. floor' = floor /\ timer' = Armed
    BY <1>3 DEF Arm
  <2>2. Dues \subseteq Nat
    BY DEF Dues, IInv, TypeOK
  <2>3. Unparked(parked) = {} => 0 \notin Dues
    BY DEF Dues, Unparked, Due
  <2>4. timer' \in SUBSET Nat
    BY <2>1, <2>2, <1>t DEF Armed, Earliest
  <2>5. /\ floor.left > 0 => 0 \notin Armed
        /\ Unparked(parked) = {} /\ (grace > 0 \/ parked = {}) => 0 \notin Armed
    BY <2>2, <2>3, <1>t DEF Armed, Earliest
  <2>6. QED
    BY <1>1, <1>2, <2>1, <2>4, <2>5 DEF SpinInv, DriverTypeOK, SweepInv, CalmInv, InASweep, Places
<1>4. CASE ArmFails
  <2>1. Escalated \in [left : Nat, rank : 0..StallCap] /\ Escalated.left > 0
    BY <1>t, EscalatedBacksOff
  <2>2. floor' = (IF floor.left > 0 THEN floor ELSE Escalated) /\ timer' = {floor'.left}
    BY <1>4 DEF ArmFails
  <2>3. /\ floor' \in [left : Nat, rank : 0..StallCap] /\ floor'.left \in Nat /\ floor'.left > 0
    BY <1>t, <2>1, <2>2
  <2>4. timer' \in SUBSET Nat /\ 0 \notin timer'
    BY <2>2, <2>3
  <2>5. QED
    BY <1>1, <1>2, <2>3, <2>4 DEF SpinInv, DriverTypeOK, SweepInv, CalmInv, InASweep, Places
<1>5. QED
  BY <1>3, <1>4

\* Waiting, replaying the view, and what happens to the view.
LEMMA ViewSpin ==
  ASSUME IInv, SpinInv,
         \/ \E e \in Event : ApplyEvent(e)
         \/ Applied \/ WakeView \/ WakeRetry \/ ViewChanges \/ Reload
  PROVE  SpinInv'
<1>1. /\ UNCHANGED <<claims, pass, grace, floor>> /\ ~InASweep /\ ~InASweep' /\ at_' \in Places
      /\ timer' = {} \/ timer' = timer
      /\ at_' = "wait" => at_ = "wait"
  BY DEF ApplyEvent, Dispatch, Applied, WakeView, WakeRetry, ViewChanges, Reload, Rekey, vars,
         InASweep, Places, SpinInv, DriverTypeOK
<1>2. (parked' = parked /\ idle' = idle) \/ (parked' = {} /\ idle' = IF parked = {} THEN idle ELSE 0)
  BY DEF ApplyEvent, Applied, WakeView, WakeRetry, ViewChanges, Reload
<1>3. (idle' = 1 => parked' = parked /\ idle = 1) /\ idle' \in {0, 1}
  BY <1>2 DEF SpinInv, DriverTypeOK
<1>4. parked' = parked => Unparked(parked)' = Unparked(parked)
  BY <1>1 DEF Unparked
<1>5. QED
  BY <1>1, <1>3, <1>4 DEF SpinInv, DriverTypeOK, SweepInv, CalmInv

LEMMA SpinStep ==
  ASSUME IInv, SpinInv, [DriverNext]_all
  PROVE  SpinInv'
<1>1. ASSUME Respawn \/ Restart
      PROVE  SpinInv'
  BY <1>1, FreshIsCalm DEF Respawn, Restart
<1>2. QED
  BY <1>1, PassSteps, HandlerSteps, SecondIsCalm, StartPassSpin, ScanSpin, EndPassSpin, ArmSpin,
     ViewSpin
  DEF DriverNext, Demux

\* The timer of the claim retry task does not spin, for every grace time and
\* backoff, whatever the view, the handlers, failing store calls, crashes and
\* reloads do: between two seconds at most one pass serves no due claim.
THEOREM TimerDoesNotSpin == DriverSpec => []PassesDoNotSpin
<1>1. DriverInit => IInv /\ SpinInv
  BY InitInv, InitSpin DEF DriverInit
<1>2. IInv /\ SpinInv /\ [DriverNext]_all => (IInv /\ SpinInv)'
  BY DriverSteps, InvStep, LostKeeps, SpinStep
<1>3. IInv /\ SpinInv => PassesDoNotSpin
  BY DEF SpinInv, DriverTypeOK, PassesDoNotSpin
<1>4. QED
  BY <1>1, <1>2, <1>3, PTL DEF DriverSpec
=============================================================================
