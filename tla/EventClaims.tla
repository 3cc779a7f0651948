---------------------------- MODULE EventClaims ----------------------------
(***************************************************************************)
(* The durable replay guards of the daemon (table event_claims) and the    *)
(* runs that claim, renew and finish them.                                 *)
(*                                                                         *)
(* A relay event (Event) asks this backend for Targets[e] side effects     *)
(* (spawn, resume, admit, management command).  The pair <<e, i>> is the   *)
(* primary key (event_id, claim_key) of a row.  A run is one spawned       *)
(* handler; it claims its targets before its first await, and afterwards   *)
(* interleaves with every other run, with the retry driver, with the       *)
(* pruner and with crashes.  All rows are read and written under the       *)
(* store lock, one with_store call at a time: one call is one step.        *)
(*                                                                         *)
(* Time.  The code stores updated_at and retry_at and only ever compares   *)
(* a due time with now.  A row here keeps the seconds left instead (wait): *)
(* until retry_at when pending, until updated_at + Lease + 1 when          *)
(* processing, until it may be pruned when terminal.  Tick is one second.  *)
(***************************************************************************)
EXTENDS Naturals, FiniteSets

CONSTANTS
  Event,        \* relay events addressed to this backend
  Kind,         \* [Event -> Kinds]: which handler dispatches the event
  Targets,      \* [Event -> Nat \ {0}]: how many side effects it asks for
  Run,          \* handler instances that may be alive at the same time
  MaxAttempts,  \* MAX_RETRY_ATTEMPTS
  Lease,        \* PROCESSING_LEASE_SECS
  RetryBase,    \* RETRY_BASE_DELAY_SECS
  RetryCap,     \* RETRY_MAX_DELAY_SECS
  Retention,    \* COMPLETED_LEDGER_RETENTION_SECS
  WorkLimit,    \* longest side effect when BoundedWork, else where age saturates
  BoundedWork,  \* whether every side effect ends within WorkLimit
  StoreFaults,  \* whether a store call may fail
  Rekeying      \* whether the backend key may change while the daemon runs

Kinds == {"orchestration", "session-dispatch", "offline-mention", "management"}

\* EVENT_DRIVEN: the claims re-dispatched from the view.
Driven(e) == Kind[e] \in {"orchestration", "session-dispatch"}

MaxTargets == CHOOSE n \in {Targets[e] : e \in Event} : \A e \in Event : Targets[e] <= n
Index == 1..MaxTargets
Claim == {c \in Event \X Index : c[2] <= Targets[c[1]]}

\* retry_delay_secs: 30 s doubling per attempt, capped.
RetryDelay(attempts) ==
  LET delay == RetryBase * 2^(attempts - 1)
  IN  IF delay < RetryCap THEN delay ELSE RetryCap

ASSUME ConstantsAssumption ==
  /\ Event # {}
  /\ Kind \in [Event -> Kinds]
  /\ Targets \in [Event -> Nat \ {0}]
  /\ \A e \in Event : Kind[e] # "orchestration" => Targets[e] = 1
  /\ MaxTargets \in {Targets[e] : e \in Event}
  /\ \A e \in Event : Targets[e] <= MaxTargets
  /\ MaxAttempts \in Nat \ {0}
  /\ Lease \in Nat
  /\ Retention \in Nat
  /\ WorkLimit \in 0..Lease
  /\ BoundedWork \in BOOLEAN
  /\ StoreFaults \in BOOLEAN
  /\ Rekeying \in BOOLEAN

\* The capped backoff is a number of seconds (retry_delay_secs returns u64).
ASSUME RetryDelayAssumption ==
  \A attempts \in 1..MaxAttempts : RetryDelay(attempts) \in Nat

VARIABLES
  claims,   \* [Claim -> Row]: the table
  phase,    \* [Run -> Phases]: where each handler stands
  event,    \* [Run -> Event]: what it handles
  held,     \* [Run -> SUBSET Index]: the targets it claimed and has not finished
  gen,      \* [Run -> [Index -> Nat]]: the generation each claim returned
  at,       \* [Run -> Nat]: the target being claimed or worked on
  age,      \* [Run -> Nat]: seconds the current side effect has lasted
  started,  \* [Claim -> [generation -> Nat]]: side effects started (history)
  rekeyed   \* the backend key is not the one the claim keys were made with

vars == <<claims, phase, event, held, gen, at, age, started, rekeyed>>
runVars == <<phase, event, held, gen, at, age>>

----------------------------------------------------------------------------
(* Rows *)

States == {"none", "pending", "processing", "completed", "failed"}
Row == [state : States, attempts : Nat, wait : Nat]
NoRow == [state |-> "none", attempts |-> 0, wait |-> 0]

Open(row) == row.state \in {"pending", "processing"}
Terminal(row) == row.state \in {"completed", "failed"}
\* Mutant of Due: a lease or a backoff that still runs is taken for due.
DueAtOnce(row) == Open(row)

Due(row) == Open(row) /\ row.wait = 0
Expired(row) == row.state = "processing" /\ row.wait = 0

Ended(state, attempts) == [state |-> state, attempts |-> attempts, wait |-> Retention + 1]
Leased(row) == [row EXCEPT !.wait = Lease + 1]

\* Mutant of Charged: the last failure leaves a tombstone.
ChargedTombstone(row) ==
  LET attempts == row.attempts + 1
  IN  IF attempts >= MaxAttempts
      THEN Ended("completed", attempts)
      ELSE [state |-> "pending", attempts |-> attempts, wait |-> RetryDelay(attempts)]

\* charge_attempt: one more failure; terminal once attempts run out.
Charged(row) ==
  LET attempts == row.attempts + 1
  IN  IF attempts >= MaxAttempts
      THEN Ended("failed", attempts)
      ELSE [state |-> "pending", attempts |-> attempts, wait |-> RetryDelay(attempts)]

\* Mutants of Exhausts and Claimed: the last takeover is allowed; a takeover
\* does not charge the crashed run.
NeverExhausts(row) == Expired(row) /\ row.attempts > MaxAttempts
ClaimedUncharged(row) ==
  [state |-> "processing", attempts |-> row.attempts, wait |-> Lease + 1]

\* claim_orchestration_target: an expired lease charges the crashed run, the
\* last allowed takeover is terminal, and only a due row (or none) is taken.
Exhausts(row) == Expired(row) /\ row.attempts + 1 >= MaxAttempts
Claimable(row) == row.state = "none" \/ (Due(row) /\ ~Exhausts(row))
Claimed(row) ==
  [state    |-> "processing",
   attempts |-> row.attempts + (IF row.state = "processing" THEN 1 ELSE 0),
   wait     |-> Lease + 1]

\* Mutant of Owns: the generation is not compared.
OwnsAnyRun(row, g) == row.state = "processing" /\ g \in Nat

\* owns_claim: the run that claimed at generation g still owns the row.
Owns(row, g) == row.state = "processing" /\ row.attempts = g

\* renew_claim
Renewed(row, g) == IF Owns(row, g) THEN Leased(row) ELSE row

\* complete_unless_reclaimed, complete_offline_mention_run, and the unfenced
\* complete_orchestration_target of a management command.
Completed(row, g, fenced) ==
  IF ~fenced \/ Owns(row, g) \/ row.state \in {"pending", "failed"}
  THEN Ended("completed", row.attempts)
  ELSE row

\* fail_orchestration_target
Failed(row) == IF Open(row) THEN Ended("failed", row.attempts) ELSE row

\* Mutant of Finished: a superseded run's retry is recorded.
FinishedUnfenced(row, g, kind, outcome) ==
  CASE outcome = "completed" -> Completed(row, g, kind # "management")
    [] outcome = "failed"    -> IF Owns(row, g) THEN Failed(row) ELSE row
    [] outcome = "retry"     -> Charged(row)

\* finish_claim and offline_mention::finish: Retry and Failed are recorded
\* only by the owner; Completed also wins over a charge.
Finished(row, g, kind, outcome) ==
  CASE outcome = "completed" -> Completed(row, g, kind # "management")
    [] outcome = "failed"    -> IF Owns(row, g) THEN Failed(row) ELSE row
    [] outcome = "retry"     -> IF Owns(row, g) THEN Charged(row) ELSE row

\* How a handler's work may end, per handler.
Outcomes(e) ==
  CASE Kind[e] \in {"orchestration", "session-dispatch"} -> {"completed", "retry", "failed"}
    [] Kind[e] = "offline-mention" -> {"completed", "retry"}
    [] Kind[e] = "management" -> {"completed"}

\* How admission may reject, per handler: only an orchestration child that
\* declares another parent is terminal.
Rejections(e) ==
  IF Kind[e] = "orchestration" THEN {"retrying", "failing"} ELSE {"retrying"}

----------------------------------------------------------------------------
(* Runs *)

Phases == {"idle", "claiming", "admission", "retrying", "failing", "queue", "working"}
NoGen == [i \in Index |-> 0]
First(S) == CHOOSE i \in S : \A j \in S : i <= j
SomeEvent == CHOOSE e \in Event : TRUE

Init ==
  /\ claims = [c \in Claim |-> NoRow]
  /\ phase = [r \in Run |-> "idle"]
  /\ event = [r \in Run |-> SomeEvent]
  /\ held = [r \in Run |-> {}]
  /\ gen = [r \in Run |-> NoGen]
  /\ at = [r \in Run |-> 0]
  /\ age = [r \in Run |-> 0]
  /\ started = [c \in Claim |-> [g \in 0..MaxAttempts |-> 0]]
  /\ rekeyed = FALSE

\* chat_ops::dispatch, dispatch_all and handle_management_command begin: the
\* event reaches a handler (a view wake, the retry timer, or a continuation
\* after its attachments arrived).  Keys made with another backend key are
\* not produced.
Dispatch(r, e) ==
  /\ phase[r] = "idle"
  /\ Driven(e) => ~rekeyed
  /\ phase' = [phase EXCEPT ![r] = "claiming"]
  /\ event' = [event EXCEPT ![r] = e]
  /\ at' = [at EXCEPT ![r] = 1]
  /\ UNCHANGED <<claims, held, gen, age, started, rekeyed>>

\* What follows the last claim: admission for the driven kinds, the handler
\* itself for the others, nothing when no target was claimed.
AfterClaims(e, targets) ==
  IF targets = {} THEN "idle" ELSE IF Driven(e) THEN "admission" ELSE "working"

\* The target a run stands at, and that target's primary key.
Current(r) == <<event[r], at[r]>>

\* After the call for one target the dispatch goes on to the next one, keeping
\* the targets it claimed.
Proceed(r, targets) ==
  LET e == event[r]
  IN  /\ held' = [held EXCEPT ![r] = targets]
      /\ \/ /\ at[r] = Targets[e]
            /\ phase' = [phase EXCEPT ![r] = AfterClaims(e, targets)]
            /\ at' = at
         \/ /\ at[r] < Targets[e]
            /\ phase' = phase
            /\ at' = [at EXCEPT ![r] = @ + 1]
      /\ age' = [age EXCEPT ![r] = 0]
      /\ UNCHANGED <<event, rekeyed>>

\* claim_driven_target or claim_management_command takes the target.  The
\* kinds without an admission step are at work from here on.
TakeTarget(r) ==
  LET c == Current(r)
      next == Claimed(claims[c])
  IN  /\ phase[r] = "claiming"
      /\ Claimable(claims[c])
      /\ claims' = [claims EXCEPT ![c] = next]
      /\ gen' = [gen EXCEPT ![r][at[r]] = next.attempts]
      /\ started' = IF Driven(event[r]) THEN started
                    ELSE [started EXCEPT ![c][next.attempts] = @ + 1]
      /\ Proceed(r, held[r] \union {at[r]})

\* The call finds the last attempt's lease expired and ends the claim.
ExhaustTarget(r) ==
  LET c == Current(r)
  IN  /\ phase[r] = "claiming"
      /\ Exhausts(claims[c])
      /\ claims' = [claims EXCEPT ![c] = Ended("failed", @.attempts + 1)]
      /\ Proceed(r, held[r])
      /\ UNCHANGED <<gen, started>>

\* The row is another run's, not due yet or terminal, or the call fails.
SkipTarget(r) ==
  LET row == claims[Current(r)]
  IN  /\ phase[r] = "claiming"
      /\ StoreFaults \/ ~(Claimable(row) \/ Exhausts(row))
      /\ Proceed(r, held[r])
      /\ UNCHANGED <<claims, gen, started>>

\* admission: None admits, otherwise one outcome for every claimed target.
Admission(r) ==
  /\ phase[r] = "admission"
  /\ \E next \in Rejections(event[r]) \union {"queue"} : phase' = [phase EXCEPT ![r] = next]
  /\ UNCHANGED <<claims, event, held, gen, at, age, started, rekeyed>>

\* Drop target i from the run; the run ends with its last target.
Release(r, i) ==
  /\ held' = [held EXCEPT ![r] = @ \ {i}]
  /\ gen' = [gen EXCEPT ![r][i] = 0]
  /\ phase' = [phase EXCEPT ![r] =
                 IF held[r] \subseteq {i} THEN "idle"
                 ELSE IF @ = "working" THEN "queue" ELSE @]
  /\ age' = [age EXCEPT ![r] = 0]

\* Record an outcome on target i, unless the store call fails.
Record(r, i, outcome) ==
  LET c == <<event[r], i>>
  IN  \/ claims' = [claims EXCEPT ![c] = Finished(@, gen[r][i], Kind[event[r]], outcome)]
      \/ StoreFaults /\ claims' = claims

\* One finish_claim of a rejected run.
FinishRejected(r) ==
  LET i == First(held[r])
  IN  /\ phase[r] \in {"retrying", "failing"}
      /\ Record(r, i, IF phase[r] = "retrying" THEN "retry" ELSE "failed")
      /\ Release(r, i)
      /\ UNCHANGED <<event, at, started, rekeyed>>

\* renew_held_claims, before each target: extends the lease of the current
\* target and of every target queued behind it.
RenewHeld(r) ==
  claims' = [c \in Claim |->
               IF c[1] = event[r] /\ c[2] \in held[r]
               THEN Renewed(claims[c], gen[r][c[2]]) ELSE claims[c]]

\* run_owned: the run still owns its current target and starts the work.
BeginWork(r) ==
  LET i == First(held[r])
      c == <<event[r], i>>
  IN  /\ phase[r] = "queue"
      /\ Owns(claims[c], gen[r][i])
      /\ RenewHeld(r)
      /\ phase' = [phase EXCEPT ![r] = "working"]
      /\ at' = [at EXCEPT ![r] = i]
      /\ age' = [age EXCEPT ![r] = 0]
      /\ started' = [started EXCEPT ![c][gen[r][i]] = @ + 1]
      /\ UNCHANGED <<event, held, gen, rekeyed>>

\* run_owned: another run took the current target, or the renewal failed.
LoseTarget(r) ==
  LET i == First(held[r])
  IN  /\ phase[r] = "queue"
      /\ \/ ~Owns(claims[<<event[r], i>>], gen[r][i]) /\ RenewHeld(r)
         \/ StoreFaults /\ UNCHANGED claims
      /\ Release(r, i)
      /\ UNCHANGED <<event, at, started, rekeyed>>

\* work.await returns and its outcome is recorded.
FinishWork(r) ==
  /\ phase[r] = "working"
  /\ \E outcome \in Outcomes(event[r]) : Record(r, at[r], outcome)
  /\ Release(r, at[r])
  /\ UNCHANGED <<event, at, started, rekeyed>>

----------------------------------------------------------------------------
(* The retry driver's own writes, the pruner, crashes and time *)

\* charge_absent_driven_claims: the converged view does not hold the event.
ChargeAbsent(e) ==
  /\ Driven(e)
  /\ \E c \in Claim : c[1] = e /\ Due(claims[c])
  /\ claims' = [c \in Claim |->
                  IF c[1] = e /\ Due(claims[c]) THEN Charged(claims[c]) ELSE claims[c]]
  /\ UNCHANGED <<runVars, started, rekeyed>>

\* fail_foreign_claims: keys this backend's dispatch never produces.
FailForeign(e) ==
  /\ Driven(e) /\ rekeyed
  /\ \E c \in Claim : c[1] = e /\ Open(claims[c])
  /\ claims' = [c \in Claim |-> IF c[1] = e THEN Failed(claims[c]) ELSE claims[c]]
  /\ UNCHANGED <<runVars, started, rekeyed>>

\* A config reload to another backend key, or back.  Runs keep going.
Rekey ==
  /\ Rekeying
  /\ rekeyed' = ~rekeyed
  /\ UNCHANGED <<claims, runVars, started>>

\* prune_retained_state deletes a terminal row after the retention time.  A
\* handler still alive after seven days is out of scope: see README.
Prune(c) ==
  /\ Terminal(claims[c]) /\ claims[c].wait = 0
  /\ \A r \in Run : phase[r] # "idle" /\ event[r] = c[1] => c[2] \notin held[r]
  /\ claims' = [claims EXCEPT ![c] = NoRow]
  /\ started' = [started EXCEPT ![c] = [g \in 0..MaxAttempts |-> 0]]
  /\ UNCHANGED <<runVars, rekeyed>>

\* The daemon process dies and restarts: the rows stay, the runs are gone.
Crash ==
  /\ \E r \in Run : phase[r] # "idle"
  /\ phase' = [r \in Run |-> "idle"]
  /\ held' = [r \in Run |-> {}]
  /\ gen' = [r \in Run |-> NoGen]
  /\ age' = [r \in Run |-> 0]
  /\ UNCHANGED <<claims, event, at, started, rekeyed>>

\* One second passes.
Tick ==
  /\ BoundedWork => \A r \in Run : phase[r] = "working" => age[r] < WorkLimit
  /\ \/ \E c \in Claim : claims[c].wait > 0
     \/ \E r \in Run : phase[r] = "working" /\ age[r] < WorkLimit
  /\ claims' = [c \in Claim |->
                  [claims[c] EXCEPT !.wait = IF @ > 0 THEN @ - 1 ELSE 0]]
  /\ age' = [r \in Run |->
               IF phase[r] = "working" /\ age[r] < WorkLimit THEN age[r] + 1 ELSE age[r]]
  /\ UNCHANGED <<phase, event, held, gen, at, started, rekeyed>>

RunStep(r) ==
  \/ TakeTarget(r)
  \/ ExhaustTarget(r)
  \/ SkipTarget(r)
  \/ Admission(r)
  \/ FinishRejected(r)
  \/ BeginWork(r)
  \/ LoseTarget(r)
  \/ FinishWork(r)

Next ==
  \/ \E r \in Run, e \in Event : Dispatch(r, e)
  \/ \E r \in Run : RunStep(r)
  \/ \E e \in Event : ChargeAbsent(e) \/ FailForeign(e)
  \/ Rekey
  \/ \E c \in Claim : Prune(c)
  \/ Crash
  \/ Tick

Spec == Init /\ [][Next]_vars

----------------------------------------------------------------------------
(* Properties *)

\* The handler r is alive and still holds the claim c.
Holds(r, c) == phase[r] # "idle" /\ event[r] = c[1] /\ c[2] \in held[r]

\* Every variable keeps its type; attempts never passes the attempt cap.
TypeOK ==
  /\ claims \in [Claim -> [state : States, attempts : 0..MaxAttempts, wait : Nat]]
  /\ phase \in [Run -> Phases]
  /\ event \in [Run -> Event]
  /\ held \in [Run -> SUBSET Index]
  /\ gen \in [Run -> [Index -> 0..MaxAttempts]]
  /\ at \in [Run -> 0..MaxTargets]
  /\ age \in [Run -> 0..WorkLimit]
  /\ started \in [Claim -> [0..MaxAttempts -> Nat]]
  /\ rekeyed \in BOOLEAN

\* A generation names one run: takeovers, charges and retries always move
\* attempts on before anybody claims again, so no two live handlers carry the
\* same (claim, generation), which is what every fence in ownership.rs and
\* complete_offline_mention_run compares.
GenerationUnique ==
  \A c \in Claim : \A r1, r2 \in Run :
    Holds(r1, c) /\ Holds(r2, c) /\ gen[r1][c[2]] = gen[r2][c[2]] => r1 = r2

\* "so a long serial run neither loses its later targets to a takeover nor
\* runs a target twice" (claim_outcome.rs): between two prunings of a row, at
\* most one side effect starts per generation, through crashes, takeovers and
\* store failures; with the attempt cap that bounds the side effects.
EffectOncePerGeneration ==
  \A c \in Claim : \A g \in 0..MaxAttempts :
    /\ started[c][g] <= 1
    /\ started[c][g] = 1 => g < MaxAttempts

\* "the renew fence bounds duplicate work to a side effect that itself
\* outlives the 10-minute lease" (docs/daemon-design.md): when no side effect
\* outlives the lease, two handlers never work on the same target at once,
\* however long they spent in admission or waiting for their turn.
EffectExclusion ==
  BoundedWork =>
    \A r1, r2 \in Run :
      /\ phase[r1] = "working" /\ phase[r2] = "working"
      /\ event[r1] = event[r2] /\ at[r1] = at[r2]
      => r1 = r2

\* A completed row is a tombstone of work that really began: an admission
\* rejection, a charge or a skipped target never completes it.
CompletedAfterWork ==
  \A c \in Claim :
    claims[c].state = "completed" => \E g \in 0..MaxAttempts : started[c][g] > 0

\* Once completed, a row only ages until the pruner deletes it: no late
\* failure, charge, takeover or foreign-key sweep reopens it.
CompletedIsFinal ==
  [][\A c \in Claim :
       claims[c].state = "completed" => claims'[c].state \in {"completed", "none"}]_vars

\* A lease that has not expired is taken from its owner by nobody: while it
\* runs, the row leaves "processing" or changes generation only in a step in
\* which a handler of this very generation lets it go, or the foreign-key
\* sweep of another backend identity ends it, or an unfenced management
\* completion does.
LiveLeaseRespected ==
  [][\A c \in Claim :
       /\ claims[c].state = "processing" /\ claims[c].wait > 0
       /\ ~Owns(claims'[c], claims[c].attempts)
       => \/ \E r \in Run : Holds(r, c) /\ c[2] \notin held'[r]
                           /\ (gen[r][c[2]] = claims[c].attempts \/ Kind[c[1]] = "management")
          \/ rekeyed /\ claims'[c].state = "failed"]_vars

\* Pending and processing rows always have an attempt left, so a claim is
\* given up exactly when the cap is reached or its failure is permanent.
OpenHasAttemptsLeft ==
  \A c \in Claim : Open(claims[c]) => claims[c].attempts < MaxAttempts
----------------------------------------------------------------------------
(* The abstract specification *)

LedgerState(row) ==
  CASE row.state = "completed" -> "done"
    [] row.state = "failed" -> "dead"
    [] OTHER -> "open"

LedgerStatus == [c \in Claim |-> LedgerState(claims[c])]

Ledger == INSTANCE SideEffectLedger WITH
  Effect <- Claim, Limit <- MaxAttempts, status <- LedgerStatus, begun <- started

\* Refinement.  The table and its handlers keep the promise of SideEffectLedger:
\* through takeovers, retries, store failures, crashes and backend keys that
\* change, no handler begins a side effect that is done or given up, or begins
\* one twice under a generation (event_claims.rs, ownership.rs, claim_outcome.rs).
ImplementsLedger == Ledger!Spec

----------------------------------------------------------------------------
(* The inductive invariant: what the properties above rest on.  It is       *)
(* proved in EventClaimsProofs.                                             *)

\* A handler holds only targets its event has, and claims them in their order;
\* an idle one holds none, and a handler past its claims always has a target
\* left to work through.
HeldInv ==
  \A r \in Run :
    /\ held[r] \subseteq 1..Targets[event[r]]
    /\ phase[r] = "idle" => held[r] = {}
    /\ phase[r] = "claiming" =>
         at[r] \in 1..Targets[event[r]] /\ \A i \in held[r] : i < at[r]
    /\ phase[r] \notin {"idle", "claiming"} => held[r] # {}
    /\ phase[r] = "working" => at[r] \in held[r]

\* A row that does not exist has no attempts and no live claim.  A live claim's
\* generation is behind the row's unless the row is still its own: a pending
\* row has already charged it.
FenceInv ==
  /\ \A c \in Claim : claims[c].state = "none" => claims[c].attempts = 0
  /\ \A c \in Claim : \A r \in Run : Holds(r, c) =>
       /\ claims[c].state # "none"
       /\ gen[r][c[2]] < MaxAttempts
       /\ gen[r][c[2]] <= claims[c].attempts
       /\ claims[c].state = "pending" => gen[r][c[2]] < claims[c].attempts

\* No side effect has started at a generation the row has not reached; at a
\* pending row's generation, and at that of a queued target, none has yet.
StartedInv ==
  \A c \in Claim :
    /\ \A g \in 0..MaxAttempts : started[c][g] > 0 =>
         /\ claims[c].state # "none"
         /\ g <= claims[c].attempts
         /\ claims[c].state = "pending" => g < claims[c].attempts
    /\ \A r \in Run :
         Holds(r, c) /\ ~(phase[r] = "working" /\ at[r] = c[2]) => started[c][gen[r][c[2]]] = 0

\* While every side effect fits in the lease, a working handler's row is its
\* own until it is terminal, and the lease outlasts what is left of the work.
LeaseInv ==
  BoundedWork =>
    \A c \in Claim : \A r \in Run :
      /\ Holds(r, c) /\ phase[r] = "working" /\ at[r] = c[2]
      => \/ Terminal(claims[c])
         \/ /\ Owns(claims[c], gen[r][c[2]])
            /\ claims[c].wait + age[r] > Lease

IInv ==
  /\ TypeOK
  /\ HeldInv
  /\ FenceInv
  /\ OpenHasAttemptsLeft
  /\ GenerationUnique
  /\ StartedInv
  /\ EffectOncePerGeneration
  /\ LeaseInv
  /\ EffectExclusion
=============================================================================
