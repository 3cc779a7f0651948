------------------------- MODULE EventClaimsProofs -------------------------
(***************************************************************************)
(* Proofs about EventClaims, for every set of events and handlers, every   *)
(* attempt cap, lease length and backoff.                                  *)
(*                                                                         *)
(* The argument.  A row only advances (RowAdvances): its attempts never    *)
(* decrease, and it becomes pending only by being charged.  So a handler's *)
(* generation stays at or behind its row's (FenceInv), and a new claim,    *)
(* taken from a pending or an expired row, gets a generation no live       *)
(* handler has and at which no side effect has started.                    *)
(*                                                                         *)
(* EventClaims implements SideEffectLedger: a step that begins a side      *)
(* effect does so at a generation the row has just reached or still owns;  *)
(* a handler that is working has begun its side effect, so that a row it   *)
(* completes is done for a reason (BegunInv); every other step leaves rows *)
(* alone or gives up some that are open.                                   *)
(***************************************************************************)
EXTENDS EventClaims, TLAPS, WellFoundedInduction

RowType == [state : States, attempts : 0..MaxAttempts, wait : Nat]

\* What every step but a pruning does to a row.
RowAdvances(row, next) ==
  /\ next \in RowType
  /\ row.state # "none" => next.state # "none"
  /\ next.attempts >= row.attempts
  /\ next.state = "pending" =>
       \/ row.state = "pending" /\ next.attempts = row.attempts
       \/ next.attempts > row.attempts
  /\ Open(next) => next.attempts < MaxAttempts
  /\ next.state = "none" => next.attempts = 0
  /\ row.state = "completed" => next.state = "completed"

\* A row as the invariant knows it.
GoodRow(row) ==
  /\ row \in RowType
  /\ Open(row) => row.attempts < MaxAttempts
  /\ row.state = "none" => row.attempts = 0

----------------------------------------------------------------------------
(* Lemmas about the operators on rows *)

\* The constants are numbers.
LEMMA ConstantTypes ==
  /\ MaxTargets \in Nat /\ MaxAttempts \in Nat /\ MaxAttempts >= 1
  /\ Lease \in Nat /\ Retention \in Nat /\ WorkLimit \in Nat /\ WorkLimit <= Lease
  /\ \A e \in Event : Targets[e] \in Nat /\ Targets[e] >= 1 /\ Targets[e] <= MaxTargets
BY ConstantsAssumption

\* A set of naturals that is not empty has its First element.
LEMMA FirstElement ==
  ASSUME NEW S \in SUBSET Nat, S # {}
  PROVE  First(S) \in S
<1>1. \E x \in S : \A y \in S : <<y, x>> \notin OpToRel(<, Nat)
  BY NatLessThanWellFounded, WFMin
<1>2. PICK x \in S : \A y \in S : <<y, x>> \notin OpToRel(<, Nat)
  BY <1>1
<1>3. ASSUME NEW y \in S, y < x PROVE FALSE
  <2>1. <<y, x>> \in {ss \in Nat \X Nat : ss[1] < ss[2]}
    BY <1>3
  <2>2. <<y, x>> \in OpToRel(<, Nat)
    BY <2>1 DEF OpToRel
  <2>3. QED
    BY <2>2, <1>2
<1>4. \A y \in S : x <= y
  BY <1>3
<1>5. QED
  BY <1>4 DEF First

\* Changing one value of a function keeps its type.
LEMMA ExceptType ==
  ASSUME NEW A, NEW B, NEW f \in [A -> B], NEW a, NEW b \in B
  PROVE  [f EXCEPT ![a] = b] \in [A -> B]
OBVIOUS

\* charge_attempt advances an open row.
LEMMA ChargedAdvances ==
  ASSUME NEW row, GoodRow(row), Open(row)
  PROVE  /\ RowAdvances(row, Charged(row))
         /\ Charged(row).attempts = row.attempts + 1
         /\ Charged(row).state \in {"pending", "failed"}
<1>1. row.attempts + 1 \in 1..MaxAttempts
  BY ConstantTypes DEF GoodRow, RowType
<1>2. RetryDelay(row.attempts + 1) \in Nat
  BY <1>1, RetryDelayAssumption
<1>3. QED
  BY <1>1, <1>2, ConstantTypes DEF GoodRow, RowType, RowAdvances, Charged, Ended, Open, States

\* fail_orchestration_target advances a row.
LEMMA FailedAdvances ==
  ASSUME NEW row, GoodRow(row)
  PROVE  /\ RowAdvances(row, Failed(row))
         /\ Failed(row) = row \/ Terminal(Failed(row))
         /\ Open(row) => Terminal(Failed(row))
BY ConstantTypes DEF GoodRow, RowType, RowAdvances, Failed, Ended, Open, Terminal, States

\* A claim advances the row to a generation it has not had: it moves past the
\* expired run's generation, and a pending row's has never been claimed.
LEMMA ClaimedAdvances ==
  ASSUME NEW row, GoodRow(row), Claimable(row)
  PROVE  /\ RowAdvances(row, Claimed(row))
         /\ Claimed(row).state = "processing"
         /\ Claimed(row).attempts \in 0..(MaxAttempts - 1)
         /\ row.state = "processing" => Claimed(row).attempts > row.attempts
         /\ Claimed(row).wait = Lease + 1
         /\ row.state \in {"none", "pending", "processing"}
BY ConstantTypes
DEF GoodRow, RowType, RowAdvances, Claimed, Claimable, Exhausts, Expired, Due, Open, States

\* renew_claim advances a row and never shortens its lease.
LEMMA RenewedAdvances ==
  ASSUME NEW row, GoodRow(row), NEW g
  PROVE  /\ RowAdvances(row, Renewed(row, g))
         /\ Renewed(row, g).state = row.state
         /\ Renewed(row, g).attempts = row.attempts
         /\ Owns(row, g) => Renewed(row, g).wait = Lease + 1
         /\ ~Owns(row, g) => Renewed(row, g) = row
BY ConstantTypes DEF GoodRow, RowType, RowAdvances, Renewed, Leased, Owns, Open

\* Recording an outcome advances a row; when its handler does not own it, the
\* row stays as it was or becomes terminal.
LEMMA FinishedAdvances ==
  ASSUME NEW row, GoodRow(row), NEW g, NEW kind,
         NEW outcome \in {"completed", "failed", "retry"}
  PROVE  /\ RowAdvances(row, Finished(row, g, kind, outcome))
         /\ \/ Finished(row, g, kind, outcome) = row
            \/ Terminal(Finished(row, g, kind, outcome))
            \/ Owns(row, g)
         /\ outcome # "completed" /\ ~Owns(row, g) => Finished(row, g, kind, outcome) = row
<1>1. CASE outcome = "completed"
  BY <1>1, ConstantTypes
  DEF GoodRow, RowType, RowAdvances, Finished, Completed, Ended, Open, Terminal, States
<1>2. CASE outcome = "failed"
  BY <1>2, FailedAdvances DEF GoodRow, RowAdvances, RowType, Finished, Owns, Open
<1>3. CASE outcome = "retry"
  BY <1>3, ChargedAdvances DEF GoodRow, RowAdvances, RowType, Finished, Owns, Open
<1>4. QED
  BY <1>1, <1>2, <1>3

----------------------------------------------------------------------------
(* Lemmas about steps *)

\* Every row of the invariant is a good one.
LEMMA RowsAreGood ==
  ASSUME TypeOK, FenceInv, OpenHasAttemptsLeft, NEW c \in Claim
  PROVE  GoodRow(claims[c])
BY DEF TypeOK, FenceInv, OpenHasAttemptsLeft, GoodRow, RowType

\* A claim's target is one of the indices, and the target a live handler holds
\* is one of the event's.
LEMMA HeldClaim ==
  ASSUME TypeOK, HeldInv, NEW r \in Run, NEW i \in 1..Targets[event[r]]
  PROVE  i \in Index /\ <<event[r], i>> \in Claim
BY ConstantTypes DEF TypeOK, Index, Claim

\* What a step preserves that only advances rows and only lets claims go.
LEMMA QuietStep ==
  ASSUME TypeOK, TypeOK', FenceInv, OpenHasAttemptsLeft, GenerationUnique,
         StartedInv, EffectOncePerGeneration,
         \A c \in Claim : RowAdvances(claims[c], claims'[c]),
         \A r \in Run, c \in Claim : Holds(r, c)' =>
            /\ Holds(r, c)
            /\ gen'[r][c[2]] = gen[r][c[2]]
            /\ phase[r] = "working" /\ at[r] = c[2] => phase'[r] = "working" /\ at'[r] = c[2],
         started' = started
  PROVE  /\ FenceInv' /\ OpenHasAttemptsLeft' /\ GenerationUnique'
         /\ StartedInv' /\ EffectOncePerGeneration'
<1>0. ASSUME NEW c \in Claim
      PROVE  claims[c].attempts \in Nat /\ claims'[c].attempts \in Nat
  BY ConstantTypes DEF TypeOK
<1>a. ASSUME NEW r \in Run, NEW c \in Claim
      PROVE  c[2] \in Index /\ gen[r][c[2]] \in 0..MaxAttempts
  BY ConstantTypes DEF TypeOK, Claim, Index
<1>1. FenceInv'
  BY <1>0, <1>a, ConstantTypes DEF FenceInv, RowAdvances
<1>2. OpenHasAttemptsLeft'
  BY DEF OpenHasAttemptsLeft, RowAdvances
<1>3. GenerationUnique'
  BY DEF GenerationUnique
<1>4. EffectOncePerGeneration'
  BY DEF EffectOncePerGeneration
<1>5. StartedInv'
  <2>1. ASSUME NEW c \in Claim, NEW g \in 0..MaxAttempts, started'[c][g] > 0
        PROVE  /\ claims'[c].state # "none"
               /\ g <= claims'[c].attempts
               /\ claims'[c].state = "pending" => g < claims'[c].attempts
    BY <1>0, <2>1, ConstantTypes DEF StartedInv, RowAdvances
  <2>2. ASSUME NEW c \in Claim, NEW r \in Run, Holds(r, c)',
               ~(phase'[r] = "working" /\ at'[r] = c[2])
        PROVE  started'[c][gen'[r][c[2]]] = 0
    BY <2>2 DEF StartedInv
  <2>3. QED
    BY <2>1, <2>2 DEF StartedInv
<1>6. QED
  BY <1>1, <1>2, <1>3, <1>4, <1>5

\* The initial states satisfy the invariant.
LEMMA InitInv == Init => IInv
<1> SUFFICES ASSUME Init PROVE IInv
  OBVIOUS
<1> USE ConstantTypes DEF Init
<1>1. SomeEvent \in Event
  BY ConstantsAssumption DEF SomeEvent
<1>2. TypeOK
  <2>1. NoRow \in RowType /\ NoGen \in [Index -> 0..MaxAttempts]
    BY DEF NoRow, NoGen, RowType, States
  <2>2. claims \in [Claim -> RowType] /\ gen \in [Run -> [Index -> 0..MaxAttempts]]
    BY <2>1
  <2>3. rekeyed \in BOOLEAN /\ phase \in [Run -> Phases]
    BY DEF Phases
  <2>4. QED
    BY <1>1, <2>2, <2>3 DEF TypeOK, RowType
<1>3. HeldInv
  BY DEF HeldInv
<1>4. FenceInv
  BY DEF FenceInv, Holds, NoRow
<1>5. OpenHasAttemptsLeft
  BY DEF OpenHasAttemptsLeft, Open, NoRow
<1>6. GenerationUnique
  BY DEF GenerationUnique, Holds
<1>7. StartedInv
  BY DEF StartedInv, Holds
<1>8. EffectOncePerGeneration
  BY DEF EffectOncePerGeneration
<1>9. LeaseInv /\ EffectExclusion
  BY DEF LeaseInv, EffectExclusion, Holds
<1>10. QED
  BY <1>2, <1>3, <1>4, <1>5, <1>6, <1>7, <1>8, <1>9 DEF IInv

----------------------------------------------------------------------------
(* Types *)

\* Every step keeps TypeOK; the other parts of the invariant say that what is
\* claimed, worked on or released is an index, and that attempts stay capped.
LEMMA TypeStep ==
  ASSUME TypeOK, HeldInv, FenceInv, OpenHasAttemptsLeft, [Next]_vars
  PROVE  TypeOK'
<1> USE ConstantTypes
<1>t. /\ claims \in [Claim -> RowType] /\ phase \in [Run -> Phases] /\ event \in [Run -> Event]
      /\ held \in [Run -> SUBSET Index] /\ gen \in [Run -> [Index -> 0..MaxAttempts]]
      /\ at \in [Run -> 0..MaxTargets] /\ age \in [Run -> 0..WorkLimit]
      /\ started \in [Claim -> [0..MaxAttempts -> Nat]] /\ rekeyed \in BOOLEAN
  BY DEF TypeOK, RowType
<1>r. ASSUME NEW c \in Claim, NEW next, RowAdvances(claims[c], next)
      PROVE  next \in RowType
  BY <1>r DEF RowAdvances
<1>g. ASSUME NEW c \in Claim
      PROVE  GoodRow(claims[c])
  BY RowsAreGood
<1>f. ASSUME NEW r \in Run, held[r] # {}
      PROVE  First(held[r]) \in held[r] /\ First(held[r]) \in Index
  <2>1. held[r] \in SUBSET Nat /\ held[r] \subseteq Index
    BY <1>t DEF Index
  <2>2. First(held[r]) \in held[r]
    BY <1>f, <2>1, FirstElement
  <2>3. QED
    BY <2>1, <2>2
<1>n. ASSUME NEW r \in Run, NEW i, Release(r, i)
      PROVE  /\ phase' \in [Run -> Phases] /\ held' \in [Run -> SUBSET Index]
             /\ gen' \in [Run -> [Index -> 0..MaxAttempts]] /\ age' \in [Run -> 0..WorkLimit]
  <2>1. phase' \in [Run -> Phases] /\ held' \in [Run -> SUBSET Index] /\ age' \in [Run -> 0..WorkLimit]
    BY <1>t, <1>n DEF Release, Phases
  <2>2. [gen[r] EXCEPT ![i] = 0] \in [Index -> 0..MaxAttempts]
    <3>1. gen[r] \in [Index -> 0..MaxAttempts] /\ 0 \in 0..MaxAttempts
      BY <1>t
    <3>2. QED
      BY <3>1, ExceptType
  <2>3. gen' \in [Run -> [Index -> 0..MaxAttempts]]
    BY <1>t, <1>n, <2>2 DEF Release
  <2>4. QED
    BY <2>1, <2>3
<1>c. ASSUME NEW r \in Run, NEW i, NEW outcome \in {"completed", "failed", "retry"}, Record(r, i, outcome)
      PROVE  claims' \in [Claim -> RowType]
  <2>1. CASE claims' = [claims EXCEPT ![<<event[r], i>>] =
                          Finished(@, gen[r][i], Kind[event[r]], outcome)]
    BY <1>t, <1>g, <1>r, <2>1, FinishedAdvances
  <2>2. QED
    BY <1>t, <1>c, <2>1 DEF Record
<1>i. ASSUME NEW c \in Claim, NEW g \in 0..MaxAttempts
      PROVE  [started EXCEPT ![c][g] = @ + 1] \in [Claim -> [0..MaxAttempts -> Nat]]
  <2>1. started[c] \in [0..MaxAttempts -> Nat] /\ started[c][g] + 1 \in Nat
    BY <1>t
  <2>2. [started[c] EXCEPT ![g] = started[c][g] + 1] \in [0..MaxAttempts -> Nat]
    BY <2>1, ExceptType
  <2>3. QED
    BY <1>t, <2>2
<1>1. CASE UNCHANGED vars
  BY <1>t, <1>1 DEF vars, TypeOK, RowType
<1>2. ASSUME NEW r \in Run, NEW e \in Event, Dispatch(r, e)
      PROVE  TypeOK'
  BY <1>t, <1>2 DEF Dispatch, Phases, TypeOK, RowType
<1>p. ASSUME NEW r \in Run, NEW targets \in SUBSET Index, phase[r] = "claiming", Proceed(r, targets)
      PROVE  /\ phase' \in [Run -> Phases] /\ event' \in [Run -> Event]
             /\ held' \in [Run -> SUBSET Index] /\ at' \in [Run -> 0..MaxTargets]
             /\ age' \in [Run -> 0..WorkLimit] /\ rekeyed' \in BOOLEAN
  <2>1. AfterClaims(event[r], targets) \in Phases
    BY DEF AfterClaims, Phases
  <2>2. at[r] < Targets[event[r]] => at[r] + 1 \in 0..MaxTargets
    BY <1>t
  <2>3. QED
    BY <1>t, <1>p, <2>1, <2>2 DEF Proceed
<1>h. ASSUME NEW r \in Run, phase[r] = "claiming"
      PROVE  /\ at[r] \in Index /\ Current(r) \in Claim /\ GoodRow(claims[Current(r)])
             /\ held[r] \in SUBSET Index /\ held[r] \union {at[r]} \in SUBSET Index
  <2>1. at[r] \in Index /\ Current(r) \in Claim
    BY <1>h, HeldClaim DEF HeldInv, Current
  <2>2. QED
    BY <1>t, <1>g, <2>1
<1>3. ASSUME NEW r \in Run, TakeTarget(r)
      PROVE  TypeOK'
  <2> DEFINE c == Current(r)
             next == Claimed(claims[c])
  <2>1. next \in RowType /\ next.attempts \in 0..MaxAttempts
    BY <1>3, <1>h, ClaimedAdvances DEF TakeTarget, RowAdvances
  <2>2. claims' \in [Claim -> RowType]
    BY <1>t, <1>3, <2>1 DEF TakeTarget
  <2>3. gen' \in [Run -> [Index -> 0..MaxAttempts]]
    BY <1>t, <1>3, <2>1 DEF TakeTarget
  <2>4. started' \in [Claim -> [0..MaxAttempts -> Nat]]
    BY <1>t, <1>3, <2>1, <1>h, <1>i DEF TakeTarget
  <2>5. QED
    BY <1>3, <1>h, <1>p, <2>2, <2>3, <2>4 DEF TakeTarget, TypeOK, RowType
<1>4. ASSUME NEW r \in Run, ExhaustTarget(r)
      PROVE  TypeOK'
  <2> DEFINE c == Current(r)
  <2>1. Ended("failed", claims[c].attempts + 1) \in RowType
    BY <1>4, <1>h DEF ExhaustTarget, GoodRow, RowType, Ended, States, Exhausts, Expired, Open
  <2>2. claims' \in [Claim -> RowType]
    BY <1>t, <1>4, <2>1 DEF ExhaustTarget
  <2>3. QED
    BY <1>t, <1>4, <1>h, <1>p, <2>2 DEF ExhaustTarget, TypeOK, RowType
<1>5. ASSUME NEW r \in Run, SkipTarget(r)
      PROVE  TypeOK'
  BY <1>t, <1>5, <1>h, <1>p DEF SkipTarget, TypeOK, RowType
<1>6. ASSUME NEW r \in Run, Admission(r)
      PROVE  TypeOK'
  BY <1>t, <1>6 DEF Admission, Rejections, Phases, TypeOK, RowType
<1>7. ASSUME NEW r \in Run, FinishRejected(r)
      PROVE  TypeOK'
  <2>1. claims' \in [Claim -> RowType]
    BY <1>7, <1>c DEF FinishRejected
  <2>2. QED
    BY <1>t, <1>7, <1>n, <2>1 DEF FinishRejected, TypeOK, RowType
<1>e. ASSUME NEW r \in Run, RenewHeld(r)
      PROVE  claims' \in [Claim -> RowType]
  BY <1>e, <1>t, <1>g, RenewedAdvances DEF RenewHeld, RowAdvances
<1>8. ASSUME NEW r \in Run, BeginWork(r)
      PROVE  TypeOK'
  <2> DEFINE i == First(held[r])
             c == <<event[r], i>>
  <2>1. i \in Index /\ i \in 0..MaxTargets /\ c \in Claim /\ gen[r][i] \in 0..MaxAttempts
    <3>1. i \in held[r] /\ i \in Index
      BY <1>8, <1>f DEF BeginWork, HeldInv
    <3>2. c \in Claim
      BY <3>1, HeldClaim DEF HeldInv
    <3>3. i \in 0..MaxTargets
      BY <3>1 DEF Index
    <3>4. gen[r][i] \in 0..MaxAttempts
      BY <1>t, <3>1
    <3>5. QED
      BY <3>1, <3>2, <3>3, <3>4
  <2>2. started' \in [Claim -> [0..MaxAttempts -> Nat]]
    BY <1>8, <2>1, <1>i DEF BeginWork
  <2>3. phase' \in [Run -> Phases] /\ at' \in [Run -> 0..MaxTargets] /\ age' \in [Run -> 0..WorkLimit]
    BY <1>t, <1>8, <2>1 DEF BeginWork, Phases
  <2>4. claims' \in [Claim -> RowType]
    BY <1>8, <1>e DEF BeginWork
  <2>5. QED
    BY <1>t, <1>8, <2>2, <2>3, <2>4 DEF BeginWork, TypeOK, RowType
<1>9. ASSUME NEW r \in Run, LoseTarget(r)
      PROVE  TypeOK'
  <2>1. claims' \in [Claim -> RowType]
    BY <1>t, <1>9, <1>e DEF LoseTarget
  <2>2. QED
    BY <1>t, <1>9, <1>n, <2>1 DEF LoseTarget, TypeOK, RowType
<1>10. ASSUME NEW r \in Run, FinishWork(r)
       PROVE  TypeOK'
  <2>1. claims' \in [Claim -> RowType]
    <3>1. Outcomes(event[r]) \subseteq {"completed", "failed", "retry"}
      BY <1>t, ConstantsAssumption DEF Outcomes, Kinds
    <3>2. QED
      BY <1>10, <1>c, <3>1 DEF FinishWork
  <2>2. QED
    BY <1>t, <1>10, <1>n, <2>1 DEF FinishWork, TypeOK, RowType
<1>11. ASSUME NEW e \in Event, ChargeAbsent(e)
       PROVE  TypeOK'
  <2>1. \A c \in Claim : Due(claims[c]) => Charged(claims[c]) \in RowType
    BY <1>g, ChargedAdvances DEF Due, RowAdvances
  <2>2. QED
    BY <1>t, <1>11, <2>1 DEF ChargeAbsent, runVars, TypeOK, RowType
<1>12. ASSUME NEW e \in Event, FailForeign(e)
       PROVE  TypeOK'
  <2>1. \A c \in Claim : Failed(claims[c]) \in RowType
    BY <1>g, FailedAdvances DEF RowAdvances
  <2>2. QED
    BY <1>t, <1>12, <2>1 DEF FailForeign, runVars, TypeOK, RowType
<1>13. CASE Rekey
  <2>1. rekeyed' \in BOOLEAN
    BY <1>13 DEF Rekey
  <2>2. QED
    BY <1>t, <1>13, <2>1 DEF Rekey, runVars, TypeOK, RowType
<1>14. ASSUME NEW c \in Claim, Prune(c)
       PROVE  TypeOK'
  <2>1. NoRow \in RowType
    BY DEF NoRow, RowType, States
  <2>2. claims' \in [Claim -> RowType] /\ started' \in [Claim -> [0..MaxAttempts -> Nat]]
    BY <1>t, <1>14, <2>1 DEF Prune
  <2>3. QED
    BY <1>t, <1>14, <2>2 DEF Prune, runVars, TypeOK, RowType
<1>15. CASE Crash
  BY <1>t, <1>15 DEF Crash, NoGen, Phases, TypeOK, RowType
<1>16. CASE Tick
  <2>1. \A c \in Claim : [claims[c] EXCEPT !.wait = IF @ > 0 THEN @ - 1 ELSE 0] \in RowType
    <3>1. ASSUME NEW c \in Claim
          PROVE  (IF claims[c].wait > 0 THEN claims[c].wait - 1 ELSE 0) \in Nat
      BY <1>t DEF RowType
    <3>2. QED
      BY <1>t, <3>1 DEF RowType
  <2>2. claims' \in [Claim -> RowType] /\ age' \in [Run -> 0..WorkLimit]
    BY <1>t, <1>16, <2>1 DEF Tick
  <2>3. QED
    BY <1>t, <1>16, <2>2 DEF Tick, TypeOK, RowType
<1>17. QED
  <2>1. UNCHANGED vars => TypeOK'
    BY <1>1
  <2>2. ASSUME NEW r \in Run, RunStep(r) PROVE TypeOK'
    BY <2>2, <1>3, <1>4, <1>5, <1>6, <1>7, <1>8, <1>9, <1>10 DEF RunStep
  <2>3. CASE Next
    BY <2>3, <2>2, <1>2, <1>11, <1>12, <1>13, <1>14, <1>15, <1>16 DEF Next
  <2>4. QED
    BY <2>1, <2>3

----------------------------------------------------------------------------
(* What a handler holds *)

\* Every step keeps HeldInv.
LEMMA HeldStep ==
  ASSUME TypeOK, TypeOK', HeldInv, [Next]_vars
  PROVE  HeldInv'
<1> USE ConstantTypes
<1>t. /\ phase \in [Run -> Phases] /\ event \in [Run -> Event] /\ held \in [Run -> SUBSET Index]
      /\ at \in [Run -> 0..MaxTargets]
  BY DEF TypeOK
<1>k. \A e \in Event : ~Driven(e) => Targets[e] = 1
  BY ConstantsAssumption DEF Driven, Kinds
<1>p. ASSUME NEW r \in Run, phase[r] = "claiming", Proceed(r, held[r]) \/ Proceed(r, held[r] \union {at[r]})
      PROVE  HeldInv'
  <2>0. PICK targets \in {held[r], held[r] \union {at[r]}} : Proceed(r, targets)
    BY <1>p
  <2>1. at[r] \in 1..Targets[event[r]] /\ targets \subseteq 1..Targets[event[r]]
    BY <1>p, <2>0 DEF HeldInv
  <2>2. CASE at[r] < Targets[event[r]]
    <3>1. /\ held' = [held EXCEPT ![r] = targets] /\ at' = [at EXCEPT ![r] = @ + 1]
          /\ UNCHANGED <<event, phase>>
      BY <2>0, <2>2, <1>t DEF Proceed
    <3>2. \A i \in targets : i < at[r] + 1
      BY <1>t, <1>p, <2>0, <2>1 DEF HeldInv
    <3>3. QED
      BY <1>t, <1>p, <2>1, <2>2, <3>1, <3>2 DEF HeldInv
  <2>3. CASE at[r] = Targets[event[r]]
    <3>1. /\ held' = [held EXCEPT ![r] = targets] /\ at' = at /\ event' = event
          /\ phase' = [phase EXCEPT ![r] = AfterClaims(event[r], targets)]
      BY <2>0, <2>3, <1>t DEF Proceed
    <3>2. AfterClaims(event[r], targets) = "working" => at[r] \in targets
      BY <1>t, <1>k, <2>1, <2>3 DEF AfterClaims
    <3>3. /\ AfterClaims(event[r], targets) \in {"idle", "admission", "working"}
          /\ AfterClaims(event[r], targets) = "idle" <=> targets = {}
      BY DEF AfterClaims
    <3>4. QED
      BY <1>t, <2>1, <3>1, <3>2, <3>3 DEF HeldInv
  <2>4. QED
    BY <2>1, <2>2, <2>3, <1>t
<1>n. ASSUME NEW r \in Run, phase[r] \in {"retrying", "failing", "queue", "working"}, NEW i,
             Release(r, i), UNCHANGED <<event, at>>
      PROVE  HeldInv'
  BY <1>t, <1>n DEF HeldInv, Release
<1>1. CASE UNCHANGED vars
  BY <1>1 DEF vars, HeldInv
<1>2. ASSUME NEW r \in Run, NEW e \in Event, Dispatch(r, e)
      PROVE  HeldInv'
  BY <1>t, <1>2 DEF Dispatch, HeldInv
<1>3. ASSUME NEW r \in Run, TakeTarget(r) \/ ExhaustTarget(r) \/ SkipTarget(r)
      PROVE  HeldInv'
  BY <1>3, <1>p DEF TakeTarget, ExhaustTarget, SkipTarget
<1>4. ASSUME NEW r \in Run, Admission(r)
      PROVE  HeldInv'
  BY <1>t, <1>4 DEF Admission, HeldInv, Rejections
<1>5. ASSUME NEW r \in Run, FinishRejected(r) \/ LoseTarget(r) \/ FinishWork(r)
      PROVE  HeldInv'
  BY <1>5, <1>n DEF FinishRejected, LoseTarget, FinishWork
<1>6. ASSUME NEW r \in Run, BeginWork(r)
      PROVE  HeldInv'
  <2>1. held[r] \in SUBSET Nat /\ held[r] # {}
    BY <1>t, <1>6 DEF BeginWork, HeldInv, Index
  <2>2. First(held[r]) \in held[r]
    BY <2>1, FirstElement
  <2>3. QED
    BY <1>t, <1>6, <2>2 DEF BeginWork, HeldInv
<1>7. ASSUME \/ \E e \in Event : ChargeAbsent(e) \/ FailForeign(e)
             \/ Rekey \/ \E c \in Claim : Prune(c)
      PROVE  HeldInv'
  BY <1>7 DEF ChargeAbsent, FailForeign, Rekey, Prune, runVars, HeldInv
<1>8. CASE Crash
  BY <1>t, <1>8 DEF Crash, HeldInv
<1>9. CASE Tick
  BY <1>9 DEF Tick, HeldInv
<1>10. QED
  BY <1>1, <1>2, <1>3, <1>4, <1>5, <1>6, <1>7, <1>8, <1>9 DEF Next, RunStep

----------------------------------------------------------------------------
(* Generations and side effects *)

\* The rows of the table but the pruned one only advance.
LEMMA RowsAdvance ==
  ASSUME TypeOK, HeldInv, FenceInv, OpenHasAttemptsLeft, [Next]_vars,
         ~ \E c \in Claim : Prune(c)
  PROVE  \A c \in Claim : RowAdvances(claims[c], claims'[c])
<1> USE ConstantTypes
<1>t. claims \in [Claim -> RowType]
  BY DEF TypeOK, RowType
<1>g. ASSUME NEW c \in Claim
      PROVE  GoodRow(claims[c])
  BY RowsAreGood
<1>u. ASSUME NEW c \in Claim
      PROVE  RowAdvances(claims[c], claims[c])
  BY <1>g, <1>t DEF GoodRow, RowAdvances, RowType
<1>1. CASE UNCHANGED claims
  BY <1>1, <1>u
<1>h. ASSUME NEW r \in Run, phase[r] = "claiming"
      PROVE  Current(r) \in Claim
  BY <1>h, HeldClaim DEF HeldInv, Current
<1>2. ASSUME NEW r \in Run, TakeTarget(r)
      PROVE  \A c \in Claim : RowAdvances(claims[c], claims'[c])
  BY <1>t, <1>2, <1>g, <1>u, <1>h, ClaimedAdvances DEF TakeTarget
<1>3. ASSUME NEW r \in Run, ExhaustTarget(r)
      PROVE  \A c \in Claim : RowAdvances(claims[c], claims'[c])
  <2> DEFINE c == Current(r)
  <2>1. RowAdvances(claims[c], Ended("failed", claims[c].attempts + 1))
    BY <1>3, <1>g, <1>h
    DEF ExhaustTarget, GoodRow, RowType, RowAdvances, Ended, States, Exhausts, Expired, Open
  <2>2. QED
    BY <1>t, <1>3, <2>1, <1>u DEF ExhaustTarget
<1>c. ASSUME NEW r \in Run, NEW i, NEW outcome \in {"completed", "failed", "retry"},
             Record(r, i, outcome)
      PROVE  \A c \in Claim : RowAdvances(claims[c], claims'[c])
  BY <1>t, <1>c, <1>g, <1>u, FinishedAdvances DEF Record
<1>4. ASSUME NEW r \in Run, FinishRejected(r)
      PROVE  \A c \in Claim : RowAdvances(claims[c], claims'[c])
  BY <1>4, <1>c DEF FinishRejected
<1>5. ASSUME NEW r \in Run, FinishWork(r)
      PROVE  \A c \in Claim : RowAdvances(claims[c], claims'[c])
  <2>1. Outcomes(event[r]) \subseteq {"completed", "failed", "retry"}
    BY ConstantsAssumption DEF Outcomes, Kinds, TypeOK
  <2>2. QED
    BY <1>5, <1>c, <2>1 DEF FinishWork
<1>6. ASSUME NEW r \in Run, BeginWork(r) \/ LoseTarget(r)
      PROVE  \A c \in Claim : RowAdvances(claims[c], claims'[c])
  <2>1. CASE RenewHeld(r)
    BY <2>1, <1>g, <1>u, RenewedAdvances DEF RenewHeld
  <2>2. QED
    BY <1>1, <1>6, <2>1 DEF BeginWork, LoseTarget
<1>7. ASSUME NEW e \in Event, ChargeAbsent(e)
      PROVE  \A c \in Claim : RowAdvances(claims[c], claims'[c])
  BY <1>7, <1>g, <1>u, ChargedAdvances DEF ChargeAbsent, Due
<1>8. ASSUME NEW e \in Event, FailForeign(e)
      PROVE  \A c \in Claim : RowAdvances(claims[c], claims'[c])
  BY <1>8, <1>g, <1>u, FailedAdvances DEF FailForeign
<1>9. CASE Tick
  <2>1. ASSUME NEW c \in Claim
        PROVE  RowAdvances(claims[c], [claims[c] EXCEPT !.wait = IF @ > 0 THEN @ - 1 ELSE 0])
    <3>1. (IF claims[c].wait > 0 THEN claims[c].wait - 1 ELSE 0) \in Nat
      BY <1>t DEF RowType
    <3>2. QED
      BY <1>g, <3>1 DEF GoodRow, RowAdvances, RowType, Open
  <2>2. QED
    BY <1>9, <2>1 DEF Tick
<1>10. CASE Next
  <2>1. ASSUME NEW r \in Run, RunStep(r)
        PROVE  \A c \in Claim : RowAdvances(claims[c], claims'[c])
    BY <2>1, <1>1, <1>2, <1>3, <1>4, <1>5, <1>6 DEF RunStep, SkipTarget, Admission
  <2>2. QED
    BY <1>10, <2>1, <1>1, <1>7, <1>8, <1>9 DEF Next, Dispatch, Rekey, Crash
<1>11. QED
  BY <1>1, <1>10 DEF vars

\* The parts of the invariant about generations and started side effects.
FenceParts ==
  FenceInv /\ OpenHasAttemptsLeft /\ GenerationUnique /\ StartedInv /\ EffectOncePerGeneration

\* A new claim: nobody alive holds this target at this generation, and no side
\* effect has started at it.
LEMMA TakeTargetFence ==
  ASSUME TypeOK, TypeOK', HeldInv, HeldInv', FenceParts,
         NEW r \in Run, TakeTarget(r),
         \A c \in Claim : RowAdvances(claims[c], claims'[c])
  PROVE  FenceParts'
<1> USE ConstantTypes
<1> DEFINE c == Current(r)
           g == Claimed(claims[c]).attempts
<1>t. /\ claims \in [Claim -> RowType] /\ phase \in [Run -> Phases] /\ event \in [Run -> Event]
      /\ held \in [Run -> SUBSET Index] /\ gen \in [Run -> [Index -> 0..MaxAttempts]]
      /\ at \in [Run -> 0..MaxTargets] /\ started \in [Claim -> [0..MaxAttempts -> Nat]]
  BY DEF TypeOK, RowType
<1>1. /\ at[r] \in Index /\ c \in Claim /\ c = <<event[r], at[r]>> /\ phase[r] = "claiming"
      /\ GoodRow(claims[c]) /\ Claimable(claims[c])
  BY HeldClaim, RowsAreGood DEF HeldInv, Current, TakeTarget, FenceParts
<1>2. /\ claims' = [claims EXCEPT ![c] = Claimed(claims[c])]
      /\ gen' = [gen EXCEPT ![r][at[r]] = g]
      /\ started' = IF Driven(event[r]) THEN started ELSE [started EXCEPT ![c][g] = @ + 1]
      /\ held' = [held EXCEPT ![r] = @ \union {at[r]}] /\ event' = event
      /\ \A s \in Run \ {r} : phase'[s] = phase[s] /\ at'[s] = at[s]
  BY <1>t DEF TakeTarget, Proceed
<1>3. /\ g \in 0..(MaxAttempts - 1)
      /\ claims[c].state \in {"none", "pending", "processing"}
      /\ claims[c].state = "processing" => g > claims[c].attempts
      /\ g >= claims[c].attempts
      /\ claims'[c].state = "processing" /\ claims'[c].attempts = g
  BY <1>t, <1>1, <1>2, ClaimedAdvances DEF RowAdvances
<1>4. ASSUME NEW d \in Claim, d # c
      PROVE  claims'[d] = claims[d] /\ started'[d] = started[d]
  BY <1>4, <1>t, <1>2
<1>5. ASSUME NEW s \in Run, NEW d \in Claim, Holds(s, d)'
      PROVE  \/ s = r /\ d = c /\ gen'[s][d[2]] = g
             \/ ~(s = r /\ d = c) /\ Holds(s, d) /\ gen'[s][d[2]] = gen[s][d[2]]
  <2>1. d = <<d[1], d[2]>> /\ d[2] \in Index /\ d[1] \in Event
    BY DEF Claim, Index
  <2>2. CASE s = r /\ d[2] = at[r]
    BY <1>t, <1>1, <1>2, <1>5, <2>1, <2>2 DEF Holds
  <2>3. CASE s = r /\ d[2] # at[r]
    BY <1>t, <1>1, <1>2, <1>5, <2>1, <2>3 DEF Holds
  <2>4. CASE s # r
    BY <1>t, <1>1, <1>2, <1>5, <2>1, <2>4 DEF Holds
  <2>5. QED
    BY <2>2, <2>3, <2>4
<1>6. ASSUME NEW s \in Run, Holds(s, c)
      PROVE  gen[s][c[2]] < g
  <2>1. claims[c].attempts \in Nat /\ gen[s][c[2]] \in Nat
    BY <1>t, <1>1 DEF RowType, Index
  <2>2. QED
    BY <1>1, <1>3, <1>6, <2>1 DEF FenceParts, FenceInv
<1>7. started[c][g] = 0
  <2>1. claims[c].attempts \in Nat /\ started[c][g] \in Nat
    BY <1>t, <1>1, <1>3 DEF RowType
  <2>2. QED
    BY <1>1, <1>3, <2>1 DEF FenceParts, StartedInv
<1>8. FenceInv'
  <2>1. ASSUME NEW d \in Claim, claims'[d].state = "none" PROVE claims'[d].attempts = 0
    BY <2>1 DEF RowAdvances
  <2>2. ASSUME NEW d \in Claim, NEW s \in Run, Holds(s, d)'
        PROVE  /\ claims'[d].state # "none" /\ gen'[s][d[2]] < MaxAttempts
               /\ gen'[s][d[2]] <= claims'[d].attempts
               /\ claims'[d].state = "pending" => gen'[s][d[2]] < claims'[d].attempts
    <3>1. CASE d = c
      <4>1. CASE s = r
        BY <1>3, <1>5, <2>2, <3>1, <4>1
      <4>2. CASE s # r
        <5>1. gen'[s][c[2]] = gen[s][c[2]] /\ gen[s][c[2]] < g /\ gen[s][c[2]] \in Nat
          <6>1. Holds(s, c) /\ gen'[s][c[2]] = gen[s][c[2]]
            BY <1>1, <1>5, <2>2, <3>1, <4>2
          <6>2. gen[s][c[2]] \in Nat
            BY <1>1, <1>t DEF Index
          <6>3. QED
            BY <1>6, <6>1, <6>2
        <5>2. QED
          BY <1>3, <3>1, <5>1
      <4>3. QED
        BY <4>1, <4>2
    <3>2. CASE d # c
      BY <1>4, <1>5, <2>2, <3>2 DEF FenceParts, FenceInv
    <3>3. QED
      BY <3>1, <3>2
  <2>3. QED
    BY <2>1, <2>2 DEF FenceInv
<1>9. OpenHasAttemptsLeft'
  BY DEF OpenHasAttemptsLeft, RowAdvances
<1>10. GenerationUnique'
  <2>1. ASSUME NEW d \in Claim, NEW s1 \in Run, NEW s2 \in Run, Holds(s1, d)', Holds(s2, d)',
               gen'[s1][d[2]] = gen'[s2][d[2]]
        PROVE  s1 = s2
    <3>1. CASE d = c /\ (s1 = r \/ s2 = r)
      BY <1>1, <1>5, <1>6, <2>1, <3>1, <1>3
    <3>2. CASE ~(d = c /\ (s1 = r \/ s2 = r))
      BY <1>5, <2>1, <3>2 DEF FenceParts, GenerationUnique
    <3>3. QED
      BY <3>1, <3>2
  <2>2. QED
    BY <2>1 DEF GenerationUnique
<1>11. ASSUME NEW d \in Claim, NEW h \in 0..MaxAttempts, ~(d = c /\ h = g)
       PROVE  started'[d][h] = started[d][h]
  BY <1>t, <1>1, <1>2, <1>3, <1>11
<1>12. started'[c][g] = IF Driven(event[r]) THEN 0 ELSE 1
  BY <1>t, <1>1, <1>2, <1>3, <1>7
<1>13. EffectOncePerGeneration'
  <2>1. ASSUME NEW d \in Claim, NEW h \in 0..MaxAttempts
        PROVE  started'[d][h] <= 1 /\ (started'[d][h] = 1 => h < MaxAttempts)
    BY <1>11, <1>12, <1>3 DEF FenceParts, EffectOncePerGeneration
  <2>2. QED
    BY <2>1 DEF EffectOncePerGeneration
<1>14. StartedInv'
  <2>1. ASSUME NEW d \in Claim, NEW h \in 0..MaxAttempts, started'[d][h] > 0
        PROVE  /\ claims'[d].state # "none" /\ h <= claims'[d].attempts
               /\ claims'[d].state = "pending" => h < claims'[d].attempts
    <3>1. CASE d = c /\ h = g
      BY <1>3, <3>1
    <3>2. CASE d = c /\ h # g
      <4>1. h <= claims[c].attempts /\ claims[c].attempts \in Nat
        <5>1. started[c][h] > 0
          BY <1>11, <2>1, <3>2
        <5>2. claims[c].attempts \in Nat
          BY <1>t, <1>1 DEF RowType
        <5>3. QED
          BY <1>1, <5>1, <5>2 DEF FenceParts, StartedInv
      <4>2. QED
        BY <1>3, <3>2, <4>1
    <3>3. CASE d # c
      BY <1>4, <2>1, <3>3 DEF FenceParts, StartedInv
    <3>4. QED
      BY <3>1, <3>2, <3>3
  <2>2. ASSUME NEW d \in Claim, NEW s \in Run, Holds(s, d)',
               ~(phase'[s] = "working" /\ at'[s] = d[2])
        PROVE  started'[d][gen'[s][d[2]]] = 0
    <3>1. CASE s = r /\ d = c
      <4>1. CASE Driven(event[r])
        BY <1>5, <1>12, <2>2, <3>1, <4>1
      <4>2. CASE ~Driven(event[r])
        <5>1. Targets[event[r]] = 1 /\ at[r] = 1 /\ at[r] = Targets[event[r]]
          BY <4>2, <1>t, <1>1, ConstantsAssumption DEF Driven, Kinds, HeldInv
        <5>2. phase' = [phase EXCEPT ![r] = AfterClaims(event[r], held[r] \union {at[r]})] /\ at' = at
          BY <5>1 DEF TakeTarget, Proceed
        <5>3. phase'[r] = "working" /\ at'[r] = c[2]
          BY <1>t, <1>1, <4>2, <5>2 DEF AfterClaims
        <5>4. QED
          BY <2>2, <3>1, <5>3
      <4>3. QED
        BY <4>1, <4>2
    <3>2. CASE ~(s = r /\ d = c)
      <4>1. Holds(s, d) /\ gen'[s][d[2]] = gen[s][d[2]] /\ d[2] \in Index
        BY <1>5, <2>2, <3>2 DEF Claim, Index
      <4>2. ~(phase[s] = "working" /\ at[s] = d[2])
        BY <1>1, <1>2, <2>2
      <4>3. started[d][gen[s][d[2]]] = 0 /\ gen[s][d[2]] \in 0..MaxAttempts
        BY <1>t, <4>1, <4>2 DEF FenceParts, StartedInv
      <4>4. ~(d = c /\ gen[s][d[2]] = g)
        BY <4>1, <1>6, <1>3
      <4>5. QED
        BY <1>11, <4>1, <4>3, <4>4
    <3>3. QED
      BY <3>1, <3>2
  <2>3. QED
    BY <2>1, <2>2 DEF StartedInv
<1>15. QED
  BY <1>8, <1>9, <1>10, <1>13, <1>14 DEF FenceParts

\* Starting work: the generation is the run's own and nothing has started at it.
LEMMA BeginWorkFence ==
  ASSUME TypeOK, TypeOK', HeldInv, HeldInv', FenceParts,
         NEW r \in Run, BeginWork(r),
         \A c \in Claim : RowAdvances(claims[c], claims'[c])
  PROVE  FenceParts'
<1> USE ConstantTypes
<1> DEFINE i == First(held[r])
           c == <<event[r], i>>
           g == gen[r][i]
<1>t. /\ claims \in [Claim -> RowType] /\ phase \in [Run -> Phases] /\ event \in [Run -> Event]
      /\ held \in [Run -> SUBSET Index] /\ gen \in [Run -> [Index -> 0..MaxAttempts]]
      /\ at \in [Run -> 0..MaxTargets] /\ started \in [Claim -> [0..MaxAttempts -> Nat]]
  BY DEF TypeOK, RowType
<1>1. i \in held[r] /\ i \in Index /\ c \in Claim /\ phase[r] = "queue" /\ c[2] = i
  <2>1. held[r] \in SUBSET Nat /\ held[r] # {} /\ phase[r] = "queue"
    BY <1>t DEF BeginWork, HeldInv, Index
  <2>2. i \in held[r] /\ i \in Index
    BY <1>t, <2>1, FirstElement
  <2>3. QED
    BY <2>1, <2>2, HeldClaim DEF HeldInv
<1>2. /\ Owns(claims[c], g) /\ RenewHeld(r)
      /\ started' = [started EXCEPT ![c][g] = @ + 1]
      /\ phase' = [phase EXCEPT ![r] = "working"] /\ at' = [at EXCEPT ![r] = i]
      /\ UNCHANGED <<event, held, gen>>
  BY DEF BeginWork
<1>3. Holds(r, c) /\ g \in 0..MaxAttempts /\ g < MaxAttempts
  BY <1>t, <1>1 DEF Holds, FenceParts, FenceInv
<1>4. started[c][g] = 0
  BY <1>1, <1>3 DEF FenceParts, StartedInv
<1>5. ASSUME NEW d \in Claim
      PROVE  claims'[d].state = claims[d].state /\ claims'[d].attempts = claims[d].attempts
  <2>1. GoodRow(claims[d])
    BY RowsAreGood DEF FenceParts
  <2>2. QED
    BY <1>2, <2>1, RenewedAdvances DEF RenewHeld
<1>6. ASSUME NEW s \in Run, NEW d \in Claim
      PROVE  Holds(s, d)' <=> Holds(s, d)
  BY <1>t, <1>1, <1>2 DEF Holds
<1>7. ASSUME NEW d \in Claim, NEW h \in 0..MaxAttempts
      PROVE  started'[d][h] = IF d = c /\ h = g THEN 1 ELSE started[d][h]
  <2>1. started[d] \in [0..MaxAttempts -> Nat] /\ started[c] \in [0..MaxAttempts -> Nat]
    BY <1>t, <1>1
  <2>2. CASE d = c
    BY <1>t, <1>1, <1>2, <1>3, <1>4, <2>1, <2>2
  <2>3. CASE d # c
    BY <1>t, <1>2, <2>3
  <2>4. QED
    BY <2>2, <2>3
<1>8. FenceInv'
  BY <1>2, <1>5, <1>6 DEF FenceParts, FenceInv
<1>9. OpenHasAttemptsLeft'
  BY <1>5 DEF FenceParts, OpenHasAttemptsLeft, Open
<1>10. GenerationUnique'
  BY <1>2, <1>6 DEF FenceParts, GenerationUnique
<1>11. EffectOncePerGeneration'
  BY <1>3, <1>7 DEF FenceParts, EffectOncePerGeneration
<1>12. StartedInv'
  <2>1. ASSUME NEW d \in Claim, NEW h \in 0..MaxAttempts, started'[d][h] > 0
        PROVE  /\ claims'[d].state # "none" /\ h <= claims'[d].attempts
               /\ claims'[d].state = "pending" => h < claims'[d].attempts
    <3>1. CASE d = c /\ h = g
      BY <1>2, <1>3, <1>5, <3>1 DEF Owns
    <3>2. CASE ~(d = c /\ h = g)
      BY <1>5, <1>7, <2>1, <3>2 DEF FenceParts, StartedInv
    <3>3. QED
      BY <3>1, <3>2
  <2>2. ASSUME NEW d \in Claim, NEW s \in Run, Holds(s, d)',
               ~(phase'[s] = "working" /\ at'[s] = d[2])
        PROVE  started'[d][gen'[s][d[2]]] = 0
    <3>1. Holds(s, d) /\ gen'[s][d[2]] = gen[s][d[2]] /\ gen[s][d[2]] \in 0..MaxAttempts
      <4>1. d[2] \in Index
        BY DEF Claim
      <4>2. QED
        BY <1>t, <1>2, <1>6, <2>2, <4>1
    <3>2. s = r => d # c
      BY <1>t, <1>1, <1>2, <2>2
    <3>3. ~(d = c /\ gen[s][d[2]] = g)
      BY <1>1, <1>3, <3>1, <3>2 DEF FenceParts, GenerationUnique
    <3>4. ~(phase[s] = "working" /\ at[s] = d[2])
      BY <1>t, <1>1, <1>2, <2>2
    <3>5. started[d][gen[s][d[2]]] = 0
      BY <3>1, <3>4 DEF FenceParts, StartedInv
    <3>6. QED
      BY <1>7, <3>1, <3>3, <3>5
  <2>3. QED
    BY <2>1, <2>2 DEF StartedInv
<1>13. QED
  BY <1>8, <1>9, <1>10, <1>11, <1>12 DEF FenceParts

\* Pruning: the row and its history go together, and no live handler holds it.
LEMMA PruneFence ==
  ASSUME TypeOK, FenceParts, NEW c \in Claim, Prune(c)
  PROVE  FenceParts'
<1> USE ConstantTypes
<1>t. /\ claims \in [Claim -> RowType] /\ gen \in [Run -> [Index -> 0..MaxAttempts]]
      /\ started \in [Claim -> [0..MaxAttempts -> Nat]]
  BY DEF TypeOK, RowType
<1>1. /\ claims' = [claims EXCEPT ![c] = NoRow]
      /\ started' = [started EXCEPT ![c] = [g \in 0..MaxAttempts |-> 0]]
      /\ UNCHANGED <<phase, event, held, gen, at>>
      /\ \A r \in Run : ~Holds(r, c)
  BY DEF Prune, runVars, Holds
<1>2. ASSUME NEW d \in Claim, d # c
      PROVE  claims'[d] = claims[d] /\ started'[d] = started[d]
  BY <1>t, <1>1, <1>2
<1>3. claims'[c] = NoRow /\ \A g \in 0..MaxAttempts : started'[c][g] = 0
  BY <1>t, <1>1
<1>4. \A r \in Run, d \in Claim : Holds(r, d)' <=> Holds(r, d)
  BY <1>1 DEF Holds
<1>5. FenceInv'
  BY <1>1, <1>2, <1>3, <1>4 DEF FenceParts, FenceInv, NoRow
<1>6. OpenHasAttemptsLeft'
  BY <1>2, <1>3 DEF FenceParts, OpenHasAttemptsLeft, NoRow, Open
<1>7. GenerationUnique'
  BY <1>1, <1>4 DEF FenceParts, GenerationUnique
<1>8. StartedInv'
  BY <1>1, <1>2, <1>3, <1>4 DEF FenceParts, StartedInv
<1>9. EffectOncePerGeneration'
  BY <1>2, <1>3 DEF FenceParts, EffectOncePerGeneration
<1>10. QED
  BY <1>5, <1>6, <1>7, <1>8, <1>9 DEF FenceParts

\* A handler that drops one target keeps the others, and no longer works.
LEMMA ReleaseLetsGo ==
  ASSUME TypeOK, NEW r \in Run, NEW s \in Run, NEW c \in Claim, Holds(s, c)',
         NEW i, Release(r, i), UNCHANGED <<event, at, started>>,
         phase[r] \in {"retrying", "failing", "queue", "working"},
         phase[r] = "working" => at[r] = i
  PROVE  /\ Holds(s, c) /\ gen'[s][c[2]] = gen[s][c[2]] /\ started' = started
         /\ phase'[s] = "working" => phase[s] = "working" /\ at'[s] = at[s] /\ age'[s] = age[s]
         /\ phase[s] = "working" /\ at[s] = c[2] => phase'[s] = "working" /\ at'[s] = c[2]
<1>t. /\ phase \in [Run -> Phases] /\ event \in [Run -> Event] /\ held \in [Run -> SUBSET Index]
      /\ gen \in [Run -> [Index -> 0..MaxAttempts]] /\ at \in [Run -> 0..MaxTargets]
      /\ age \in [Run -> 0..WorkLimit]
  BY DEF TypeOK
<1>1. CASE s = r
  <2>1. c[2] \in held[r] /\ c[2] # i /\ event[r] = c[1] /\ phase'[r] # "working"
    BY <1>t, <1>1 DEF Release, Holds
  <2>2. gen'[r][c[2]] = gen[r][c[2]]
    BY <1>t, <2>1 DEF Release
  <2>3. QED
    BY <1>1, <2>1, <2>2 DEF Holds
<1>2. CASE s # r
  BY <1>t, <1>2 DEF Release, Holds
<1>3. QED
  BY <1>1, <1>2

\* A step that starts nothing only lets claims go, keeping the others' generations.
LEMMA OnlyLetsGo ==
  ASSUME TypeOK, HeldInv, NEW r \in Run, NEW s \in Run, NEW c \in Claim, Holds(s, c)',
         \/ \E e \in Event : Dispatch(r, e)
         \/ ExhaustTarget(r) \/ SkipTarget(r) \/ Admission(r)
         \/ FinishRejected(r) \/ LoseTarget(r) \/ FinishWork(r)
  PROVE  /\ Holds(s, c) /\ gen'[s][c[2]] = gen[s][c[2]] /\ started' = started
         /\ phase'[s] = "working" => phase[s] = "working" /\ at'[s] = at[s] /\ age'[s] = age[s]
         /\ phase[s] = "working" /\ at[s] = c[2] => phase'[s] = "working" /\ at'[s] = c[2]
<1>t. /\ phase \in [Run -> Phases] /\ event \in [Run -> Event] /\ held \in [Run -> SUBSET Index]
      /\ gen \in [Run -> [Index -> 0..MaxAttempts]] /\ at \in [Run -> 0..MaxTargets]
      /\ age \in [Run -> 0..WorkLimit]
  BY DEF TypeOK
<1>1. ASSUME NEW e \in Event, Dispatch(r, e)
      PROVE  /\ Holds(s, c) /\ gen' = gen /\ started' = started /\ s # r
             /\ phase'[s] = phase[s] /\ at'[s] = at[s] /\ age' = age
  BY <1>1, <1>t DEF Dispatch, HeldInv, Holds
<1>2. CASE ExhaustTarget(r) \/ SkipTarget(r)
  <2>1. /\ phase[r] = "claiming" /\ Proceed(r, held[r]) /\ gen' = gen /\ started' = started
    BY <1>2 DEF ExhaustTarget, SkipTarget
  <2>3. /\ held' = held /\ event' = event
        /\ s # r => phase'[s] = phase[s] /\ at'[s] = at[s] /\ age'[s] = age[s]
    BY <1>t, <2>1 DEF Proceed
  <2>4. CASE s # r
    BY <2>1, <2>3, <2>4 DEF Holds
  <2>5. CASE s = r
    <3>1. Holds(r, c)
      BY <2>1, <2>3, <2>5 DEF Holds
    <3>2. phase'[r] # "working"
      <4>1. CASE at[r] < Targets[event[r]]
        BY <1>t, <2>1, <4>1, ConstantTypes DEF Proceed
      <4>2. CASE at[r] = Targets[event[r]]
        <5>1. phase'[r] = AfterClaims(event[r], held[r])
          BY <1>t, <2>1, <4>2 DEF Proceed
        <5>2. ~Driven(event[r]) => held[r] = {}
          <6>1. ~Driven(event[r]) => Targets[event[r]] = 1
            BY <1>t, ConstantsAssumption DEF Driven, Kinds
          <6>2. \A i \in held[r] : i \in Nat /\ i >= 1 /\ i < at[r]
            BY <1>t, <2>1 DEF HeldInv, Index
          <6>3. QED
            BY <4>2, <6>1, <6>2
        <5>3. QED
          BY <5>1, <5>2 DEF AfterClaims
      <4>3. QED
        BY <2>1, <4>1, <4>2 DEF Proceed
    <3>3. QED
      BY <2>1, <2>5, <3>1, <3>2
  <2>6. QED
    BY <2>4, <2>5
<1>3. CASE Admission(r)
  BY <1>t, <1>3 DEF Admission, Holds, Rejections
<1>5. CASE FinishRejected(r) \/ LoseTarget(r) \/ FinishWork(r)
  <2>1. PICK i : /\ Release(r, i) /\ UNCHANGED <<event, at, started>>
                 /\ phase[r] \in {"retrying", "failing", "queue", "working"}
                 /\ phase[r] = "working" => at[r] = i
    BY <1>5 DEF FinishRejected, LoseTarget, FinishWork
  <2>2. QED
    BY <2>1, ReleaseLetsGo
<1>6. QED
  BY <1>1, <1>2, <1>3, <1>5

\* Every step keeps the parts about generations and started side effects.
LEMMA FenceStep ==
  ASSUME TypeOK, TypeOK', HeldInv, HeldInv', FenceParts, [Next]_vars
  PROVE  FenceParts'
<1>1. CASE \E c \in Claim : Prune(c)
  BY <1>1, PruneFence
<1>2. CASE ~ \E c \in Claim : Prune(c)
  <2>1. \A c \in Claim : RowAdvances(claims[c], claims'[c])
    BY <1>2, RowsAdvance DEF FenceParts
  <2>2. CASE \E r \in Run : TakeTarget(r)
    BY <2>1, <2>2, TakeTargetFence
  <2>3. CASE \E r \in Run : BeginWork(r)
    BY <2>1, <2>3, BeginWorkFence
  <2>4. ASSUME \A s \in Run, c \in Claim : Holds(s, c)' =>
                  /\ Holds(s, c)
                  /\ gen'[s][c[2]] = gen[s][c[2]]
                  /\ phase[s] = "working" /\ at[s] = c[2] =>
                       phase'[s] = "working" /\ at'[s] = c[2],
               started' = started
        PROVE  FenceParts'
    BY <2>1, <2>4, QuietStep DEF FenceParts
  <2>5. ASSUME NEW r \in Run,
               \/ \E e \in Event : Dispatch(r, e)
               \/ ExhaustTarget(r) \/ SkipTarget(r) \/ Admission(r)
               \/ FinishRejected(r) \/ LoseTarget(r) \/ FinishWork(r)
        PROVE  FenceParts'
    <3>1. started' = started
      BY <2>5 DEF Dispatch, ExhaustTarget, SkipTarget, Admission, FinishRejected, LoseTarget, FinishWork
    <3>2. QED
      BY <2>4, <2>5, <3>1, OnlyLetsGo
  <2>6. CASE Crash
    BY <2>4, <2>6 DEF Crash, Holds, TypeOK
  <2>7. CASE \/ UNCHANGED vars \/ Rekey \/ Tick
             \/ \E e \in Event : ChargeAbsent(e) \/ FailForeign(e)
    <3>1. UNCHANGED <<phase, event, held, gen, at, started>>
      BY <2>7 DEF vars, Rekey, Tick, ChargeAbsent, FailForeign, runVars
    <3>2. QED
      BY <2>4, <3>1 DEF Holds
  <2>8. QED
    BY <1>2, <2>2, <2>3, <2>5, <2>6, <2>7 DEF Next, RunStep
<1>3. QED
  BY <1>1, <1>2

----------------------------------------------------------------------------
(* Leases *)

\* The handler s is working on the claim c.
Works(s, c) == Holds(s, c) /\ phase[s] = "working" /\ at[s] = c[2]

\* The row is out of every other handler's reach for as long as the work lasts.
Fenced(row, g, a) == Terminal(row) \/ (Owns(row, g) /\ row.wait + a > Lease)

\* A handler that is working after a step was working before it, or begins.
LEMMA WorkBegins ==
  ASSUME TypeOK, HeldInv, [Next]_vars, NEW s \in Run, NEW c \in Claim,
         Works(s, c)', ~Works(s, c)
  PROVE  \/ TakeTarget(s) /\ c = Current(s)
         \/ BeginWork(s) /\ c = <<event[s], First(held[s])>>
<1>t. /\ phase \in [Run -> Phases] /\ event \in [Run -> Event] /\ held \in [Run -> SUBSET Index]
      /\ at \in [Run -> 0..MaxTargets]
  BY DEF TypeOK
<1>c. c = <<c[1], c[2]>>
  BY DEF Claim
<1>1. ASSUME NEW r \in Run,
             \/ \E e \in Event : Dispatch(r, e)
             \/ ExhaustTarget(r) \/ SkipTarget(r) \/ Admission(r)
             \/ FinishRejected(r) \/ LoseTarget(r) \/ FinishWork(r)
      PROVE  FALSE
  BY <1>1, OnlyLetsGo DEF Works
<1>2. ASSUME NEW r \in Run, TakeTarget(r)
      PROVE  TakeTarget(s) /\ c = Current(s)
  <2>1. CASE s # r
    BY <1>t, <1>2, <2>1 DEF TakeTarget, Proceed, Works, Holds
  <2>2. CASE s = r
    <3>1. phase'[r] = "working" /\ phase[r] = "claiming"
      BY <1>2, <2>2 DEF TakeTarget, Works
    <3>2. event' = event /\ at' = at
      BY <1>t, <1>2, <3>1, ConstantTypes DEF TakeTarget, Proceed
    <3>3. QED
      BY <1>c, <1>2, <2>2, <3>2 DEF Works, Holds, Current
  <2>3. QED
    BY <2>1, <2>2
<1>3. ASSUME NEW r \in Run, BeginWork(r)
      PROVE  BeginWork(s) /\ c = <<event[s], First(held[s])>>
  <2>1. CASE s # r
    BY <1>t, <1>3, <2>1 DEF BeginWork, Works, Holds
  <2>2. CASE s = r
    BY <1>t, <1>c, <1>3, <2>2 DEF BeginWork, Works, Holds
  <2>3. QED
    BY <2>1, <2>2
<1>4. CASE Crash
  BY <1>4 DEF Crash, Works, Holds
<1>5. CASE \/ UNCHANGED vars \/ Rekey \/ Tick
           \/ \E e \in Event : ChargeAbsent(e) \/ FailForeign(e)
           \/ \E d \in Claim : Prune(d)
  BY <1>5 DEF vars, Rekey, Tick, ChargeAbsent, FailForeign, Prune, runVars, Works, Holds
<1>6. QED
  BY <1>1, <1>2, <1>3, <1>4, <1>5 DEF Next, RunStep

\* While work that fits in the lease goes on, its row stays fenced.
LEMMA FencedRow ==
  ASSUME IInv, HeldInv', [Next]_vars, BoundedWork, NEW s \in Run, NEW c \in Claim,
         Works(s, c), Works(s, c)'
  PROVE  Fenced(claims'[c], gen'[s][c[2]], age'[s])
<1> USE ConstantTypes
<1>t. /\ claims \in [Claim -> RowType] /\ phase \in [Run -> Phases] /\ event \in [Run -> Event]
      /\ held \in [Run -> SUBSET Index] /\ gen \in [Run -> [Index -> 0..MaxAttempts]]
      /\ at \in [Run -> 0..MaxTargets] /\ age \in [Run -> 0..WorkLimit]
  BY DEF IInv, TypeOK, RowType
<1>p. TypeOK /\ HeldInv /\ FenceInv /\ OpenHasAttemptsLeft /\ GenerationUnique
  BY DEF IInv
<1>g. \A d \in Claim : GoodRow(claims[d])
  BY <1>p, RowsAreGood
<1>f. Fenced(claims[c], gen[s][c[2]], age[s])
  BY DEF IInv, LeaseInv, Works, Fenced
<1>w. /\ claims[c].wait \in Nat /\ age[s] \in Nat /\ age[s] <= Lease
      /\ Terminal(claims[c]) \/ claims[c].wait > 0
  <2>1. claims[c].wait \in Nat /\ age[s] \in Nat /\ age[s] <= Lease
    BY <1>t DEF RowType
  <2>2. QED
    BY <1>f, <2>1 DEF Fenced
<1>1. ASSUME claims'[c] = claims[c], gen'[s][c[2]] = gen[s][c[2]], age'[s] = age[s]
      PROVE  Fenced(claims'[c], gen'[s][c[2]], age'[s])
  BY <1>f, <1>1
<1>2. ASSUME NEW r \in Run, TakeTarget(r)
      PROVE  Fenced(claims'[c], gen'[s][c[2]], age'[s])
  <2>1. s # r
    BY <1>2 DEF TakeTarget, Works
  <2>2. gen'[s] = gen[s] /\ age'[s] = age[s]
    BY <1>t, <1>2, <2>1 DEF TakeTarget, Proceed
  <2>3. c # Current(r)
    <3>1. Claimable(claims[Current(r)])
      BY <1>2 DEF TakeTarget
    <3>2. ~Claimable(claims[c])
      BY <1>f, <1>w DEF Claimable, Due, Open, Terminal, Fenced, Owns
    <3>3. QED
      BY <3>1, <3>2
  <2>4. claims'[c] = claims[c]
    BY <1>t, <1>2, <2>3 DEF TakeTarget
  <2>5. QED
    BY <1>1, <2>2, <2>4
<1>3. ASSUME NEW r \in Run,
             \/ \E e \in Event : Dispatch(r, e)
             \/ ExhaustTarget(r) \/ SkipTarget(r) \/ Admission(r)
             \/ FinishRejected(r) \/ LoseTarget(r) \/ FinishWork(r)
      PROVE  Fenced(claims'[c], gen'[s][c[2]], age'[s])
  <2>1. /\ gen'[s][c[2]] = gen[s][c[2]]
        /\ age'[s] = age[s]
    BY <1>3, <1>p, OnlyLetsGo DEF Works
  <2>2. CASE \/ \E e \in Event : Dispatch(r, e)
             \/ SkipTarget(r) \/ Admission(r)
    BY <1>1, <2>1, <2>2 DEF Dispatch, SkipTarget, Admission
  <2>3. CASE ExhaustTarget(r)
    <3>1. c # Current(r)
      BY <2>3, <1>w DEF ExhaustTarget, Exhausts, Expired, Terminal
    <3>2. QED
      BY <1>t, <1>1, <2>1, <2>3, <3>1 DEF ExhaustTarget
  <2>4. CASE FinishRejected(r)
    <3> DEFINE i == First(held[r])
               d == <<event[r], i>>
    <3>1. i \in held[r] /\ i \in Index
      <4>1. held[r] \in SUBSET Nat /\ held[r] # {} /\ held[r] \subseteq Index
        <5>1. phase[r] \in {"retrying", "failing"}
          BY <2>4 DEF FinishRejected
        <5>2. held[r] # {}
          BY <1>p, <5>1 DEF HeldInv
        <5>3. held[r] \subseteq Index
          BY <1>t
        <5>4. QED
          BY <5>2, <5>3 DEF Index
      <4>2. First(held[r]) \in held[r]
        BY <4>1, FirstElement
      <4>3. QED
        BY <4>1, <4>2
    <3>2. PICK outcome \in {"retry", "failed"} : Record(r, i, outcome)
      BY <2>4 DEF FinishRejected
    <3>3. CASE c = d
      <4>1. Holds(r, c) /\ s # r /\ c[2] = i
        BY <2>4, <3>1, <3>3 DEF FinishRejected, Holds, Works
      <4>2. ~(Owns(claims[c], gen[r][i]) /\ Owns(claims[c], gen[s][i]))
        BY <1>p, <4>1 DEF GenerationUnique, Works, Owns
      <4>3. CASE Owns(claims[c], gen[r][i])
        BY <1>f, <4>1, <4>2, <4>3 DEF Fenced, Terminal, Owns
      <4>4. CASE ~Owns(claims[c], gen[r][i])
        <5>1. Finished(claims[c], gen[r][i], Kind[event[r]], outcome) = claims[c]
          BY <1>g, <4>4, FinishedAdvances
        <5>2. claims'[c] = claims[c]
          BY <1>t, <3>2, <3>3, <5>1 DEF Record
        <5>3. QED
          BY <1>1, <2>1, <5>2
      <4>5. QED
        BY <4>3, <4>4
    <3>4. CASE c # d
      BY <1>t, <1>1, <2>1, <3>2, <3>4 DEF Record
    <3>5. QED
      BY <3>3, <3>4
  <2>5. CASE LoseTarget(r)
    <3>1. CASE RenewHeld(r)
      BY <1>f, <1>g, <1>w, <2>1, <3>1, RenewedAdvances DEF RenewHeld, Fenced, Owns, Terminal
    <3>2. QED
      BY <1>1, <2>1, <2>5, <3>1 DEF LoseTarget
  <2>6. CASE FinishWork(r)
    <3>1. s # r
      BY <1>t, <2>6 DEF FinishWork, Release, Works
    <3>2. c # <<event[r], at[r]>>
      BY <2>6, <3>1 DEF FinishWork, IInv, EffectExclusion, Works, Holds
    <3>3. claims'[c] = claims[c]
      BY <1>t, <2>6, <3>2 DEF FinishWork, Record
    <3>4. QED
      BY <1>1, <2>1, <3>3
  <2>7. QED
    BY <1>3, <2>2, <2>3, <2>4, <2>5, <2>6
<1>4. ASSUME NEW r \in Run, BeginWork(r)
      PROVE  Fenced(claims'[c], gen'[s][c[2]], age'[s])
  <2>1. s # r
    BY <1>4 DEF BeginWork, Works
  <2>2. gen'[s][c[2]] = gen[s][c[2]] /\ age'[s] = age[s] /\ RenewHeld(r)
    BY <1>t, <1>4, <2>1 DEF BeginWork
  <2>3. QED
    BY <1>f, <1>g, <1>w, <2>2, RenewedAdvances DEF RenewHeld, Fenced, Owns, Terminal
<1>5. ASSUME NEW e \in Event, ChargeAbsent(e)
      PROVE  Fenced(claims'[c], gen'[s][c[2]], age'[s])
  <2>1. ~Due(claims[c])
    BY <1>w DEF Due, Open, Terminal
  <2>2. QED
    BY <1>1, <1>5, <2>1 DEF ChargeAbsent, runVars
<1>6. ASSUME NEW e \in Event, FailForeign(e)
      PROVE  Fenced(claims'[c], gen'[s][c[2]], age'[s])
  <2>1. Failed(claims[c]) = claims[c] \/ Terminal(Failed(claims[c]))
    BY <1>g, FailedAdvances
  <2>2. QED
    BY <1>f, <1>6, <2>1 DEF FailForeign, runVars, Fenced
<1>7. ASSUME NEW d \in Claim, Prune(d)
      PROVE  Fenced(claims'[c], gen'[s][c[2]], age'[s])
  <2>1. c # d
    BY <1>7 DEF Prune, Works, Holds
  <2>2. QED
    BY <1>t, <1>1, <1>7, <2>1 DEF Prune, runVars
<1>8. CASE Tick
  <2>1. age[s] < WorkLimit /\ age'[s] = age[s] + 1 /\ gen' = gen
    BY <1>t, <1>8 DEF Tick, Works
  <2>2. /\ claims'[c].state = claims[c].state /\ claims'[c].attempts = claims[c].attempts
        /\ claims'[c].wait = IF claims[c].wait > 0 THEN claims[c].wait - 1 ELSE 0
    BY <1>t, <1>8 DEF Tick, RowType
  <2>3. QED
    BY <1>f, <1>w, <2>1, <2>2 DEF Fenced, Terminal, Owns
<1>9. CASE UNCHANGED vars \/ Rekey
  BY <1>1, <1>9 DEF vars, Rekey, runVars
<1>10. CASE Crash
  BY <1>10 DEF Crash, Works, Holds
<1>11. QED
  BY <1>2, <1>3, <1>4, <1>5, <1>6, <1>7, <1>8, <1>9, <1>10 DEF Next, RunStep

\* Every step keeps the lease and the exclusion parts of the invariant.
LEMMA LeaseStep ==
  ASSUME IInv, TypeOK', HeldInv', [Next]_vars
  PROVE  LeaseInv' /\ EffectExclusion'
<1> USE ConstantTypes
<1> SUFFICES ASSUME BoundedWork PROVE LeaseInv' /\ EffectExclusion'
  BY DEF LeaseInv, EffectExclusion
<1>p. TypeOK /\ HeldInv /\ FenceInv /\ OpenHasAttemptsLeft /\ GenerationUnique
  BY DEF IInv
<1>t. /\ claims \in [Claim -> RowType] /\ phase \in [Run -> Phases] /\ event \in [Run -> Event]
      /\ held \in [Run -> SUBSET Index] /\ gen \in [Run -> [Index -> 0..MaxAttempts]]
      /\ at \in [Run -> 0..MaxTargets] /\ age \in [Run -> 0..WorkLimit]
  BY <1>p DEF TypeOK, RowType
<1>b. ASSUME NEW s \in Run, NEW c \in Claim, Works(s, c)', ~Works(s, c)
      PROVE  /\ Owns(claims'[c], gen'[s][c[2]]) /\ claims'[c].wait = Lease + 1 /\ age'[s] = 0
             /\ \A q \in Run : ~Works(q, c)
             /\ \A q \in Run \ {s} : phase'[q] = phase[q] /\ at'[q] = at[q] /\ event'[q] = event[q]
  <2>g. GoodRow(claims[c])
    BY <1>p, RowsAreGood
  <2>f. ASSUME NEW q \in Run, Works(q, c)
        PROVE  Fenced(claims[c], gen[q][c[2]], age[q])
    BY <2>f DEF IInv, LeaseInv, Works, Fenced
  <2>w. ASSUME NEW q \in Run, Works(q, c)
        PROVE  Terminal(claims[c]) \/ claims[c].wait > 0
    <3>1. claims[c].wait \in Nat /\ age[q] \in Nat /\ age[q] <= Lease
      BY <1>t DEF RowType
    <3>2. QED
      BY <2>f, <2>w, <3>1 DEF Fenced
  <2>1. CASE TakeTarget(s) /\ c = Current(s)
    <3>1. c[2] = at[s] /\ at[s] \in Index
      BY <2>1, <1>p, <1>t DEF Current, TakeTarget, HeldInv, Claim
    <3>2. Claimable(claims[c]) /\ claims' = [claims EXCEPT ![c] = Claimed(claims[c])]
          /\ gen' = [gen EXCEPT ![s][at[s]] = Claimed(claims[c]).attempts]
      BY <2>1 DEF TakeTarget
    <3>3. claims'[c] = Claimed(claims[c]) /\ gen'[s][c[2]] = Claimed(claims[c]).attempts
      BY <1>t, <3>1, <3>2
    <3>4. ASSUME NEW q \in Run, Works(q, c) PROVE FALSE
      <4>1. Terminal(claims[c]) \/ claims[c].wait > 0
        BY <2>w, <3>4
      <4>2. Terminal(claims[c]) \/ claims[c].state = "processing"
        BY <2>f, <3>4 DEF Fenced, Owns
      <4>3. ~Claimable(claims[c])
        BY <4>1, <4>2 DEF Claimable, Due, Open, Terminal
      <4>4. QED
        BY <3>2, <4>3
    <3>5. /\ age'[s] = 0
          /\ \A q \in Run \ {s} : phase'[q] = phase[q] /\ at'[q] = at[q] /\ event'[q] = event[q]
      BY <1>t, <2>1 DEF TakeTarget, Proceed
    <3>6. QED
      BY <2>g, <3>2, <3>3, <3>4, <3>5, ClaimedAdvances DEF Owns
  <2>2. CASE BeginWork(s) /\ c = <<event[s], First(held[s])>>
    <3>1. First(held[s]) \in held[s]
      <4>1. held[s] \in SUBSET Nat /\ held[s] # {}
        BY <1>t, <1>p, <2>2 DEF BeginWork, HeldInv, Index
      <4>2. QED
        BY <4>1, FirstElement
    <3>2. Holds(s, c) /\ Owns(claims[c], gen[s][c[2]]) /\ RenewHeld(s) /\ gen' = gen
      BY <2>2, <3>1 DEF BeginWork, Holds
    <3>3. claims'[c] = Renewed(claims[c], gen[s][c[2]])
      BY <3>2 DEF RenewHeld, Holds
    <3>4. ASSUME NEW q \in Run, Works(q, c) PROVE FALSE
      <4>1. Owns(claims[c], gen[q][c[2]])
        BY <2>f, <3>2, <3>4 DEF Fenced, Terminal, Owns
      <4>2. q = s
        BY <1>p, <3>2, <3>4, <4>1 DEF GenerationUnique, Works, Owns
      <4>3. QED
        BY <2>2, <3>4, <4>2 DEF BeginWork, Works
    <3>5. /\ age'[s] = 0
          /\ \A q \in Run \ {s} : phase'[q] = phase[q] /\ at'[q] = at[q] /\ event'[q] = event[q]
      BY <1>t, <2>2 DEF BeginWork
    <3>6. QED
      BY <2>g, <3>2, <3>3, <3>4, <3>5, RenewedAdvances DEF Owns
  <2>3. QED
    BY <1>p, <1>b, <2>1, <2>2, WorkBegins
<1>1. LeaseInv'
  <2>1. ASSUME NEW c \in Claim, NEW s \in Run, Works(s, c)'
        PROVE  Fenced(claims'[c], gen'[s][c[2]], age'[s])
    <3>1. CASE Works(s, c)
      BY <2>1, <3>1, FencedRow
    <3>2. CASE ~Works(s, c)
      <4>1. Owns(claims'[c], gen'[s][c[2]]) /\ claims'[c].wait = Lease + 1 /\ age'[s] = 0
        BY <1>b, <2>1, <3>2
      <4>2. QED
        BY <4>1 DEF Fenced
    <3>3. QED
      BY <3>1, <3>2
  <2>2. QED
    BY <2>1 DEF LeaseInv, Works, Fenced
<1>2. EffectExclusion'
  <2>1. ASSUME NEW s1 \in Run, NEW s2 \in Run, s1 # s2,
               phase'[s1] = "working", phase'[s2] = "working",
               event'[s1] = event'[s2], at'[s1] = at'[s2]
        PROVE  FALSE
    <3>1. at'[s1] \in held'[s1] /\ at'[s2] \in held'[s2] /\ held'[s1] \subseteq 1..Targets[event'[s1]]
      BY <2>1 DEF HeldInv
    <3>2. PICK c \in Claim : c[1] = event'[s1] /\ c[2] = at'[s1]
      <4>1. <<event'[s1], at'[s1]>> \in Claim
        BY <3>1 DEF Claim, Index, TypeOK
      <4>2. QED
        BY <4>1
    <3>3. Works(s1, c)' /\ Works(s2, c)'
      BY <2>1, <3>1, <3>2 DEF Works, Holds
    <3>4. CASE Works(s1, c) /\ Works(s2, c)
      BY <2>1, <3>4 DEF Works, Holds, IInv, EffectExclusion
    <3>5. ASSUME NEW p \in {s1, s2}, NEW q \in {s1, s2}, p # q, ~Works(p, c)
          PROVE  FALSE
      <4>1. ~Works(q, c) /\ phase'[q] = phase[q] /\ at'[q] = at[q] /\ event'[q] = event[q]
        BY <1>b, <3>2, <3>3, <3>5
      <4>2. phase[q] = "working" /\ at[q] = c[2] /\ event[q] = c[1]
        BY <2>1, <3>2, <4>1
      <4>3. Works(q, c)
        BY <1>p, <4>2 DEF HeldInv, Works, Holds
      <4>4. QED
        BY <4>1, <4>3
    <3>6. QED
      BY <2>1, <3>4, <3>5
  <2>2. QED
    BY <2>1 DEF EffectExclusion
<1>3. QED
  BY <1>1, <1>2

----------------------------------------------------------------------------
(* Theorems *)

LEMMA InvStep == IInv /\ [Next]_vars => IInv'
<1> SUFFICES ASSUME IInv, [Next]_vars PROVE IInv'
  OBVIOUS
<1>1. TypeOK' /\ HeldInv'
  BY TypeStep, HeldStep DEF IInv
<1>2. FenceParts'
  BY <1>1, FenceStep DEF IInv, FenceParts
<1>3. LeaseInv' /\ EffectExclusion'
  BY <1>1, LeaseStep
<1>4. QED
  BY <1>1, <1>2, <1>3 DEF IInv, FenceParts

\* The invariant is inductive.
THEOREM Invariance == Spec => []IInv
BY InvStep, InitInv, PTL DEF Spec

\* Types are kept for every table, and attempts never pass the cap.
THEOREM TypeCorrectness == Spec => []TypeOK
BY Invariance, PTL DEF IInv

\* No two live handlers carry the same generation of a claim.
THEOREM GenerationsNameOneRun == Spec => []GenerationUnique
BY Invariance, PTL DEF IInv

\* At most one side effect starts per generation, and none at the cap.
THEOREM EffectsStartOnce == Spec => []EffectOncePerGeneration
BY Invariance, PTL DEF IInv

\* When no side effect outlives the lease, nobody works on a target twice at once.
THEOREM EffectsExclude == Spec => []EffectExclusion
BY Invariance, PTL DEF IInv

\* A claim that may still be retried has an attempt left.
THEOREM OpenClaimsHaveAttempts == Spec => []OpenHasAttemptsLeft
BY Invariance, PTL DEF IInv

\* A completed claim stays completed until the pruner deletes it, whatever late
\* handlers, charges, takeovers and sweeps do (CompletedIsFinal).
THEOREM CompletionIsFinal == Spec => CompletedIsFinal
<1> DEFINE Final == \A c \in Claim :
             claims[c].state = "completed" => claims'[c].state \in {"completed", "none"}
<1>1. ASSUME IInv, [Next]_vars PROVE Final
  <2>1. CASE \E d \in Claim : Prune(d)
    <3>1. PICK d \in Claim : Prune(d)
      BY <2>1
    <3>2. ASSUME NEW c \in Claim, claims[c].state = "completed"
          PROVE  claims'[c].state \in {"completed", "none"}
      BY <1>1, <3>1, <3>2 DEF Prune, NoRow, IInv, TypeOK
    <3>3. QED
      BY <3>2
  <2>2. CASE ~ \E d \in Claim : Prune(d)
    BY <1>1, <2>2, RowsAdvance DEF IInv, RowAdvances
  <2>3. QED
    BY <2>1, <2>2
<1>2. IInv /\ [Next]_vars => [Final]_vars
  BY <1>1
<1>3. QED
  BY <1>2, Invariance, PTL DEF Spec, CompletedIsFinal

\* An outcome recorded by a handler ends another generation's claim only when it
\* is the unfenced completion of a management command.
LEMMA FinishedIsFenced ==
  ASSUME NEW row \in RowType, NEW g, NEW kind, NEW outcome \in {"completed", "failed", "retry"},
         row.state = "processing", ~Owns(Finished(row, g, kind, outcome), row.attempts)
  PROVE  g = row.attempts \/ kind = "management"
BY DEF Finished, Completed, Owns, RowType

\* The handler r lets the claim go in this step, as the owner of its generation
\* or as a management command, which is not fenced.
Ends(r, c) == /\ Holds(r, c) /\ c[2] \notin held'[r]
              /\ gen[r][c[2]] = claims[c].attempts \/ Kind[c[1]] = "management"
Taken(c) == /\ claims[c].state = "processing" /\ claims[c].wait > 0
            /\ ~Owns(claims'[c], claims[c].attempts)
Excused(c) == (\E r \in Run : Ends(r, c)) \/ (rekeyed /\ claims'[c].state = "failed")
Respected == \A c \in Claim : Taken(c) => Excused(c)

LEMMA LeaseIsRespected == IInv /\ [Next]_vars => Respected
<1>1. ASSUME IInv, [Next]_vars, NEW c \in Claim, Taken(c) PROVE Excused(c)
  <2> USE ConstantTypes
  <2>t. /\ claims \in [Claim -> RowType] /\ claims[c] \in RowType
        /\ claims[c].state = "processing" /\ claims[c].wait > 0
    BY <1>1 DEF IInv, TypeOK, RowType, Taken
  <2>k. claims'[c] # claims[c] /\ ~Owns(claims'[c], claims[c].attempts)
    BY <1>1 DEF Owns, Taken
  <2>1. ASSUME NEW r \in Run, TakeTarget(r) \/ ExhaustTarget(r) PROVE FALSE
    BY <2>1, <2>t, <2>k
    DEF TakeTarget, ExhaustTarget, Claimable, Exhausts, Expired, Due
  <2>2. ASSUME NEW r \in Run, NEW i \in held[r], phase[r] # "idle", Release(r, i),
               NEW outcome \in {"completed", "failed", "retry"}, Record(r, i, outcome)
        PROVE  Excused(c)
    <3> DEFINE d == <<event[r], i>>
    <3>1. claims' = [claims EXCEPT ![d] = Finished(@, gen[r][i], Kind[event[r]], outcome)]
      BY <2>2, <2>k DEF Record
    <3>2. c = d
      BY <3>1, <2>k, <2>t
    <3>3. ~Owns(Finished(claims[c], gen[r][i], Kind[event[r]], outcome), claims[c].attempts)
      BY <3>1, <3>2, <2>k, <2>t
    <3>4. gen[r][i] = claims[c].attempts \/ Kind[event[r]] = "management"
      BY <3>3, <2>t, FinishedIsFenced
    <3>5. held \in [Run -> SUBSET Index]
      BY <1>1 DEF IInv, TypeOK
    <3>6. i \notin held'[r]
      BY <2>2, <3>5 DEF Release
    <3>7. Ends(r, c)
      BY <2>2, <3>2, <3>4, <3>6 DEF Ends, Holds
    <3>8. QED
      BY <3>7 DEF Excused
  <2>3. ASSUME NEW r \in Run, FinishRejected(r) PROVE Excused(c)
    <3>t. held[r] \in SUBSET Index
      BY <1>1 DEF IInv, TypeOK
    <3>e. held[r] # {}
      BY <1>1, <2>3 DEF FinishRejected, IInv, HeldInv
    <3>1. held[r] # {} /\ held[r] \in SUBSET Nat
      BY <3>t, <3>e DEF Index
    <3>2. First(held[r]) \in held[r]
      BY <3>1, FirstElement
    <3>3. QED
      BY <2>2, <2>3, <3>2 DEF FinishRejected
  <2>4. ASSUME NEW r \in Run, FinishWork(r) PROVE Excused(c)
    <3>1. at[r] \in held[r]
      BY <1>1, <2>4 DEF FinishWork, IInv, HeldInv
    <3>2. Outcomes(event[r]) \subseteq {"completed", "failed", "retry"}
      BY <1>1, ConstantsAssumption DEF Outcomes, Kinds, IInv, TypeOK
    <3>3. QED
      BY <2>2, <2>4, <3>1, <3>2 DEF FinishWork
  <2>5. ASSUME NEW r \in Run, BeginWork(r) \/ LoseTarget(r) PROVE FALSE
    <3>1. claims'[c] = claims[c] \/ \E g : claims'[c] = Renewed(claims[c], g)
      BY <2>5 DEF BeginWork, LoseTarget, RenewHeld
    <3>2. QED
      BY <3>1, <2>t, <2>k DEF Renewed, Leased, Owns, RowType
  <2>6. ASSUME NEW e \in Event, ChargeAbsent(e) PROVE FALSE
    BY <2>6, <2>t, <2>k DEF ChargeAbsent, Due
  <2>7. ASSUME NEW e \in Event, FailForeign(e) PROVE Excused(c)
    <3>1. claims'[c] = Failed(claims[c]) /\ rekeyed
      BY <2>7, <2>k DEF FailForeign
    <3>2. QED
      BY <3>1, <2>t DEF Failed, Open, Ended, Excused
  <2>8. ASSUME NEW d \in Claim, Prune(d) PROVE FALSE
    BY <2>8, <2>t, <2>k DEF Prune, Terminal
  <2>9. CASE Tick
    BY <2>9, <2>t, <2>k DEF Tick, Owns, RowType
  <2>10. CASE UNCHANGED claims
    BY <2>10, <2>k
  <2>11. QED
    BY <1>1, <2>1, <2>3, <2>4, <2>5, <2>6, <2>7, <2>8, <2>9, <2>10
    DEF Next, RunStep, vars, Dispatch, SkipTarget, Admission, Rekey, Crash
<1>2. QED
  BY <1>1 DEF Respected

\* While a lease runs, only a handler of its own generation, an unfenced
\* management completion or the foreign-key sweep ends it (LiveLeaseRespected).
THEOREM LiveLeasesAreRespected == Spec => LiveLeaseRespected
<1>1. IInv /\ [Next]_vars => Respected
  BY LeaseIsRespected
<1>2. Respected <=> \A c \in Claim :
         /\ claims[c].state = "processing" /\ claims[c].wait > 0
         /\ ~Owns(claims'[c], claims[c].attempts)
         => \/ \E r \in Run : Holds(r, c) /\ c[2] \notin held'[r]
                             /\ (gen[r][c[2]] = claims[c].attempts \/ Kind[c[1]] = "management")
            \/ rekeyed /\ claims'[c].state = "failed"
  BY DEF Respected, Taken, Excused, Ends
<1>3. QED
  BY <1>1, <1>2, Invariance, PTL DEF Spec, LiveLeaseRespected

----------------------------------------------------------------------------
(* The refinement of SideEffectLedger *)

\* A side effect of the claim has begun since its row was last pruned.
Begun(c) == \E g \in 0..MaxAttempts : started[c][g] > 0

\* A handler at work has begun its side effect.
BegunInv == \A r \in Run : \A c \in Claim : Works(r, c) => Begun(c)

\* A run that takes a target takes one of its event's, at a generation its row
\* has not had, and the row it leaves is of a later or the same attempt.
LEMMA TakenTarget ==
  ASSUME IInv, NEW r \in Run, TakeTarget(r)
  PROVE  /\ Current(r) \in Claim
         /\ Claimable(claims[Current(r)])
         /\ Claimed(claims[Current(r)]).attempts \in 0..(MaxAttempts - 1)
         /\ started[Current(r)][Claimed(claims[Current(r)]).attempts] = 0
<1> USE ConstantTypes
<1> DEFINE c == Current(r)
           row == claims[c]
           g == Claimed(row).attempts
<1>1. c \in Claim
  BY HeldClaim DEF IInv, HeldInv, TakeTarget, Current
<1>2. GoodRow(row) /\ Claimable(row)
  BY <1>1, RowsAreGood DEF IInv, TakeTarget
<1>3. g \in 0..(MaxAttempts - 1)
  BY <1>2, ClaimedAdvances
<1>4. started[c][g] \in Nat
  BY <1>1, <1>3 DEF IInv, TypeOK
<1>5. started[c][g] > 0 => row.state # "none" /\ g <= row.attempts /\ (row.state = "pending" => g < row.attempts)
  BY <1>1, <1>3 DEF IInv, StartedInv
<1>6. g = row.attempts + (IF row.state = "processing" THEN 1 ELSE 0) /\ row.attempts \in Nat
  BY <1>2 DEF Claimed, GoodRow, RowType
<1>7. row.state \in {"none", "pending", "processing"}
  BY <1>2 DEF Claimable, Due, Open
<1>8. started[c][g] = 0
  BY <1>4, <1>5, <1>6, <1>7
<1>9. QED
  BY <1>1, <1>2, <1>3, <1>8

\* A run that begins work owns the row, at a generation it has not worked at.
LEMMA BegunWork ==
  ASSUME IInv, NEW r \in Run, BeginWork(r)
  PROVE  LET i == First(held[r])
             c == <<event[r], i>>
         IN  /\ c \in Claim /\ Owns(claims[c], gen[r][i])
             /\ gen[r][i] \in 0..(MaxAttempts - 1)
             /\ started[c][gen[r][i]] = 0
<1> USE ConstantTypes
<1> DEFINE i == First(held[r])
           c == <<event[r], i>>
<1>1. held[r] # {} /\ held[r] \subseteq 1..Targets[event[r]]
  BY DEF BeginWork, IInv, HeldInv
<1>2. i \in held[r]
  <2>1. event[r] \in Event
    BY DEF IInv, TypeOK
  <2>2. held[r] \in SUBSET Nat
    BY <1>1, <2>1
  <2>3. QED
    BY <1>1, <2>2, FirstElement
<1>3. c \in Claim
  BY <1>1, <1>2, HeldClaim DEF IInv
<1>4. Holds(r, c) /\ phase[r] = "queue"
  BY <1>2 DEF Holds, BeginWork
<1>5. gen[r][i] \in 0..MaxAttempts /\ gen[r][i] < MaxAttempts
  BY <1>1, <1>2, <1>3, <1>4, HeldClaim DEF IInv, TypeOK, FenceInv
<1>6. started[c][gen[r][i]] = 0
  BY <1>3, <1>4 DEF IInv, StartedInv
<1>7. Owns(claims[c], gen[r][i])
  BY DEF BeginWork
<1>8. QED
  BY <1>3, <1>5, <1>6, <1>7

\* Adding one to a number of a claim leaves no number of any claim smaller.
LEMMA OneMore ==
  ASSUME started \in [Claim -> [0..MaxAttempts -> Nat]], NEW d \in Claim, NEW h \in 0..MaxAttempts,
         started' = [started EXCEPT ![d][h] = @ + 1],
         NEW c \in Claim, NEW g \in 0..MaxAttempts
  PROVE  started'[c][g] >= started[c][g]
<1>1. started[c][g] \in Nat /\ started[d] \in [0..MaxAttempts -> Nat]
  OBVIOUS
<1>2. started'[c][g] = IF c = d /\ g = h THEN started[c][g] + 1 ELSE started[c][g]
  BY <1>1
<1>3. QED
  BY <1>1, <1>2

\* How many side effects of a claim have begun never decreases but by a pruning.
LEMMA StartedGrows ==
  ASSUME IInv, [Next]_vars, NEW c \in Claim, ~Prune(c), NEW g \in 0..MaxAttempts
  PROVE  started'[c][g] >= started[c][g]
<1> USE ConstantTypes
<1>t. started \in [Claim -> [0..MaxAttempts -> Nat]] /\ started[c][g] \in Nat
  BY DEF IInv, TypeOK
<1>1. ASSUME NEW r \in Run, TakeTarget(r) PROVE started'[c][g] >= started[c][g]
  <2> DEFINE d == Current(r)
             h == Claimed(claims[d]).attempts
  <2>1. d \in Claim /\ h \in 0..MaxAttempts
    BY <1>1, TakenTarget
  <2>2. CASE started' = [started EXCEPT ![d][h] = @ + 1]
    <3> HIDE DEF d, h
    <3>1. QED
      BY <1>t, <2>1, <2>2, OneMore
  <2>3. CASE started' = started
    BY <1>t, <2>3
  <2>4. QED
    BY <1>1, <2>2, <2>3 DEF TakeTarget
<1>2. ASSUME NEW r \in Run, BeginWork(r) PROVE started'[c][g] >= started[c][g]
  <2> DEFINE d == <<event[r], First(held[r])>>
             h == gen[r][First(held[r])]
  <2>1. d \in Claim /\ h \in 0..MaxAttempts
    BY <1>2, BegunWork
  <2>2. started' = [started EXCEPT ![d][h] = @ + 1]
    BY <1>2 DEF BeginWork
  <2> HIDE DEF d, h
  <2>3. QED
    BY <1>t, <2>1, <2>2, OneMore
<1>3. ASSUME NEW d \in Claim, Prune(d) PROVE started'[c][g] >= started[c][g]
  <2>1. started'[c] = started[c]
    BY <1>t, <1>3 DEF Prune
  <2>2. QED
    BY <1>t, <2>1
<1>4. CASE UNCHANGED started
  BY <1>t, <1>4
<1>5. QED
  BY <1>1, <1>2, <1>3, <1>4
  DEF Next, RunStep, vars, Dispatch, ExhaustTarget, SkipTarget, Admission, FinishRejected,
      LoseTarget, FinishWork, ChargeAbsent, FailForeign, Rekey, Crash, Tick

LEMMA BegunStep ==
  ASSUME IInv, BegunInv, [Next]_vars
  PROVE  BegunInv'
<1> USE ConstantTypes
<1>a. TypeOK /\ HeldInv /\ started \in [Claim -> [0..MaxAttempts -> Nat]]
  BY DEF IInv, TypeOK
<1> SUFFICES ASSUME NEW r \in Run, NEW c \in Claim, Works(r, c)'
             PROVE  Begun(c)'
  BY DEF BegunInv
<1>1. CASE Works(r, c)
  <2>1. PICK g \in 0..MaxAttempts : started[c][g] > 0
    BY <1>1 DEF BegunInv, Begun
  <2>2. ~Prune(c)
    BY <1>1 DEF Works, Holds, Prune
  <2>3. started'[c][g] >= started[c][g]
    BY <2>2, StartedGrows
  <2>4. TypeOK'
    BY TypeStep DEF IInv
  <2>5. started'[c][g] \in Nat /\ started[c][g] \in Nat
    BY <1>a, <2>4 DEF TypeOK
  <2>6. QED
    BY <2>1, <2>3, <2>5 DEF Begun
<1>2. CASE ~Works(r, c)
  <2>1. CASE TakeTarget(r) /\ c = Current(r)
    <3> DEFINE g == Claimed(claims[c]).attempts
    <3>1. g \in 0..MaxAttempts /\ started[c][g] = 0
      BY <2>1, TakenTarget
    <3>2. ~Driven(event[r])
      <4>1. phase'[r] = "working"
        BY DEF Works
      <4>2. phase \in [Run -> Phases] /\ phase[r] = "claiming"
        BY <1>a, <2>1 DEF TypeOK, TakeTarget
      <4>3. QED
        BY <2>1, <4>1, <4>2 DEF TakeTarget, Proceed, AfterClaims
    <3>3. started' = [started EXCEPT ![c][g] = @ + 1]
      BY <2>1, <3>2 DEF TakeTarget
    <3>4. started'[c][g] = 1
      BY <1>a, <3>1, <3>3
    <3>5. QED
      BY <3>1, <3>4 DEF Begun
  <2>2. CASE BeginWork(r) /\ c = <<event[r], First(held[r])>>
    <3> DEFINE g == gen[r][First(held[r])]
    <3>1. g \in 0..MaxAttempts /\ started[c][g] = 0
      BY <2>2, BegunWork
    <3>2. started' = [started EXCEPT ![c][g] = @ + 1]
      BY <2>2 DEF BeginWork
    <3>3. started'[c][g] = 1
      BY <1>a, <3>1, <3>2
    <3>4. QED
      BY <3>1, <3>3 DEF Begun
  <2>3. QED
    BY <1>2, <1>a, <2>1, <2>2, WorkBegins
<1>3. QED
  BY <1>1, <1>2

----------------------------------------------------------------------------
(* The steps of the ledger *)

\* A step that leaves each claim as it is or gives an open one up.
GivesUp ==
  \A c \in Claim :
    \/ LedgerState(claims'[c]) = LedgerState(claims[c])
    \/ LedgerState(claims[c]) = "open" /\ LedgerState(claims'[c]) = "dead"

LEMMA GivingUp ==
  ASSUME UNCHANGED started, GivesUp
  PROVE  [Ledger!Next]_(Ledger!vars)
<1> DEFINE S == {c \in Claim : LedgerState(claims'[c]) # LedgerState(claims[c])}
<1>1. \A c \in S : LedgerStatus[c] = "open"
  BY DEF GivesUp, LedgerStatus
<1>2. LedgerStatus' = [c \in Claim |-> IF c \in S THEN "dead" ELSE LedgerStatus[c]]
  BY DEF GivesUp, LedgerStatus
<1>3. Ledger!GiveUp(S)
  BY <1>1, <1>2 DEF Ledger!GiveUp
<1>4. S \in SUBSET Claim
  OBVIOUS
<1> HIDE DEF S
<1>5. QED
  BY <1>3, <1>4 DEF Ledger!Next

LEMMA Completing ==
  ASSUME UNCHANGED started, NEW d \in Claim, Begun(d), LedgerState(claims'[d]) = "done",
         \A c \in Claim \ {d} : claims'[c] = claims[c]
  PROVE  [Ledger!Next]_(Ledger!vars)
<1>1. LedgerStatus' = [LedgerStatus EXCEPT ![d] = "done"]
  BY DEF LedgerStatus
<1>2. CASE LedgerStatus[d] = "done"
  <2>1. LedgerStatus' = LedgerStatus
    BY <1>1, <1>2 DEF LedgerStatus
  <2>2. QED
    BY <2>1 DEF Ledger!vars
<1>3. CASE LedgerStatus[d] # "done"
  <2>1. Ledger!Done(d)
    BY <1>1, <1>3 DEF Ledger!Done, Begun
  <2>2. QED
    BY <2>1 DEF Ledger!Next
<1>4. QED
  BY <1>2, <1>3

LEMMA Beginning ==
  ASSUME NEW d \in Claim, NEW n \in 0..(MaxAttempts - 1),
         started' = [started EXCEPT ![d][n] = @ + 1], started[d][n] = 0,
         LedgerState(claims[d]) = "open",
         \A c \in Claim : LedgerState(claims'[c]) = LedgerState(claims[c])
  PROVE  [Ledger!Next]_(Ledger!vars)
<1>1. LedgerStatus' = LedgerStatus /\ LedgerStatus[d] = "open"
  BY DEF LedgerStatus
<1>2. started' = [started EXCEPT ![d][n] = 1]
  OBVIOUS
<1>3. Ledger!Begin(d, n)
  BY <1>1, <1>2 DEF Ledger!Begin
<1>4. QED
  BY <1>3 DEF Ledger!Next

\* Renewing leases leaves every claim as it is.
LEMMA RenewingIsQuiet ==
  ASSUME NEW r \in Run, RenewHeld(r), NEW c \in Claim
  PROVE  LedgerState(claims'[c]) = LedgerState(claims[c])
BY DEF RenewHeld, Renewed, Leased, Owns, LedgerState

\* One recorded outcome completes, gives up or keeps a claim.
LEMMA Recording ==
  ASSUME IInv, UNCHANGED started, NEW r \in Run, NEW i \in held[r], <<event[r], i>> \in Claim,
         NEW outcome \in {"completed", "failed", "retry"}, Record(r, i, outcome),
         outcome = "completed" => Begun(<<event[r], i>>)
  PROVE  [Ledger!Next]_(Ledger!vars)
<1> DEFINE c == <<event[r], i>>
           g == gen[r][i]
           kind == Kind[event[r]]
<1>t. claims \in [Claim -> RowType] /\ claims[c] \in RowType
  BY DEF IInv, TypeOK, RowType
<1>1. CASE claims' = claims
  BY <1>1, GivingUp DEF GivesUp
<1>2. CASE claims' = [claims EXCEPT ![c] = Finished(@, g, kind, outcome)]
  <2>1. claims'[c] = Finished(claims[c], g, kind, outcome) /\ \A d \in Claim \ {c} : claims'[d] = claims[d]
    BY <1>2, <1>t
  <2>2. CASE outcome = "completed" /\ LedgerState(claims'[c]) = "done"
    BY <2>1, <2>2, Completing
  <2>3. CASE outcome = "completed" /\ LedgerState(claims'[c]) # "done"
    <3>1. claims'[c] = claims[c]
      BY <2>1, <2>3 DEF Finished, Completed, Ended, LedgerState
    <3>2. QED
      BY <2>1, <3>1, GivingUp DEF GivesUp
  <2>4. CASE outcome \in {"failed", "retry"}
    <3>1. \/ LedgerState(claims'[c]) = LedgerState(claims[c])
          \/ LedgerState(claims[c]) = "open" /\ LedgerState(claims'[c]) = "dead"
      BY <2>1, <2>4, <1>t
      DEF Finished, Failed, Charged, Ended, Owns, Open, LedgerState, RowType
    <3>2. QED
      BY <2>1, <3>1, GivingUp DEF GivesUp
  <2>5. QED
    BY <2>2, <2>3, <2>4
<1>3. QED
  BY <1>1, <1>2 DEF Record

LEMMA LedgerStep ==
  ASSUME IInv, BegunInv, [Next]_vars
  PROVE  [Ledger!Next]_(Ledger!vars)
<1> USE ConstantTypes
<1>t. /\ claims \in [Claim -> RowType] /\ started \in [Claim -> [0..MaxAttempts -> Nat]]
      /\ event \in [Run -> Event]
  BY DEF IInv, TypeOK, RowType
<1>1. ASSUME NEW r \in Run, TakeTarget(r) PROVE [Ledger!Next]_(Ledger!vars)
  <2> DEFINE d == Current(r)
             n == Claimed(claims[d]).attempts
  <2>1. /\ d \in Claim /\ Claimable(claims[d]) /\ n \in 0..(MaxAttempts - 1) /\ started[d][n] = 0
    BY <1>1, TakenTarget
  <2>2. claims' = [claims EXCEPT ![d] = Claimed(claims[d])]
    BY <1>1 DEF TakeTarget
  <2>3. LedgerState(claims[d]) = "open" /\ LedgerState(Claimed(claims[d])) = "open"
    BY <2>1 DEF Claimable, Due, Open, Claimed, LedgerState
  <2>4. \A c \in Claim : LedgerState(claims'[c]) = LedgerState(claims[c])
    BY <1>t, <2>2, <2>3
  <2>5. CASE started' = [started EXCEPT ![d][n] = @ + 1]
    <3> HIDE DEF d, n
    <3>1. QED
      BY <2>1, <2>3, <2>4, <2>5, Beginning
  <2>6. CASE started' = started
    BY <2>4, <2>6, GivingUp DEF GivesUp
  <2>7. QED
    BY <1>1, <2>5, <2>6 DEF TakeTarget
<1>2. ASSUME NEW r \in Run, ExhaustTarget(r) PROVE [Ledger!Next]_(Ledger!vars)
  <2> DEFINE d == Current(r)
  <2>1. claims' = [claims EXCEPT ![d] = Ended("failed", @.attempts + 1)] /\ UNCHANGED started
    BY <1>2 DEF ExhaustTarget
  <2>2. LedgerState(claims[d]) = "open" /\ LedgerState(Ended("failed", claims[d].attempts + 1)) = "dead"
    BY <1>2 DEF ExhaustTarget, Exhausts, Expired, Ended, LedgerState
  <2>3. GivesUp
    BY <1>t, <2>1, <2>2 DEF GivesUp
  <2>4. QED
    BY <2>1, <2>3, GivingUp
<1>3. ASSUME NEW r \in Run, FinishRejected(r) PROVE [Ledger!Next]_(Ledger!vars)
  <2>1. held[r] # {} /\ held[r] \subseteq 1..Targets[event[r]] /\ event[r] \in Event
    BY <1>3, <1>t DEF FinishRejected, IInv, HeldInv
  <2>2. held[r] \in SUBSET Nat
    BY <2>1
  <2>3. First(held[r]) \in held[r]
    BY <2>1, <2>2, FirstElement
  <2>4. <<event[r], First(held[r])>> \in Claim
    BY <2>1, <2>3, HeldClaim DEF IInv
  <2>5. UNCHANGED started /\ phase[r] \in {"retrying", "failing"}
        /\ Record(r, First(held[r]), IF phase[r] = "retrying" THEN "retry" ELSE "failed")
    BY <1>3 DEF FinishRejected
  <2>6. QED
    BY <2>3, <2>4, <2>5, Recording
<1>4. ASSUME NEW r \in Run, FinishWork(r) PROVE [Ledger!Next]_(Ledger!vars)
  <2>1. at[r] \in held[r] /\ held[r] \subseteq 1..Targets[event[r]] /\ event[r] \in Event
    BY <1>4, <1>t DEF FinishWork, IInv, HeldInv
  <2>2. <<event[r], at[r]>> \in Claim
    BY <2>1, HeldClaim DEF IInv
  <2>3. Works(r, <<event[r], at[r]>>)
    BY <1>4, <2>1 DEF Works, Holds, FinishWork
  <2>4. Begun(<<event[r], at[r]>>)
    BY <2>2, <2>3 DEF BegunInv
  <2>5. PICK outcome \in Outcomes(event[r]) : Record(r, at[r], outcome)
    BY <1>4 DEF FinishWork
  <2>6. outcome \in {"completed", "failed", "retry"}
    BY <2>1, <2>5, ConstantsAssumption DEF Outcomes, Kinds
  <2>7. UNCHANGED started
    BY <1>4 DEF FinishWork
  <2>8. QED
    BY <2>1, <2>2, <2>4, <2>5, <2>6, <2>7, Recording
<1>5. ASSUME NEW r \in Run, BeginWork(r) PROVE [Ledger!Next]_(Ledger!vars)
  <2> DEFINE d == <<event[r], First(held[r])>>
             n == gen[r][First(held[r])]
  <2>1. d \in Claim /\ Owns(claims[d], n) /\ n \in 0..(MaxAttempts - 1) /\ started[d][n] = 0
    BY <1>5, BegunWork
  <2>2. \A c \in Claim : LedgerState(claims'[c]) = LedgerState(claims[c])
    BY <1>5, RenewingIsQuiet DEF BeginWork
  <2>3. started' = [started EXCEPT ![d][n] = @ + 1]
    BY <1>5 DEF BeginWork
  <2>4. LedgerState(claims[d]) = "open"
    BY <2>1 DEF Owns, LedgerState
  <2> HIDE DEF d, n
  <2>5. QED
    BY <2>1, <2>2, <2>3, <2>4, Beginning
<1>6. ASSUME NEW r \in Run, LoseTarget(r) PROVE [Ledger!Next]_(Ledger!vars)
  <2>1. \A c \in Claim : LedgerState(claims'[c]) = LedgerState(claims[c])
    BY <1>6, RenewingIsQuiet DEF LoseTarget
  <2>2. QED
    BY <1>6, <2>1, GivingUp DEF LoseTarget, GivesUp
<1>7. ASSUME NEW e \in Event, ChargeAbsent(e) PROVE [Ledger!Next]_(Ledger!vars)
  <2>1. GivesUp
    BY <1>7, <1>t DEF GivesUp, ChargeAbsent, Charged, Ended, Due, Open, LedgerState
  <2>2. QED
    BY <1>7, <2>1, GivingUp DEF ChargeAbsent
<1>8. ASSUME NEW e \in Event, FailForeign(e) PROVE [Ledger!Next]_(Ledger!vars)
  <2>1. GivesUp
    BY <1>8, <1>t DEF GivesUp, FailForeign, Failed, Ended, Open, LedgerState
  <2>2. QED
    BY <1>8, <2>1, GivingUp DEF FailForeign
<1>9. ASSUME NEW d \in Claim, Prune(d) PROVE [Ledger!Next]_(Ledger!vars)
  <2>1. LedgerStatus[d] # "open"
    BY <1>9 DEF Prune, Terminal, LedgerStatus, LedgerState
  <2>2. LedgerStatus' = [LedgerStatus EXCEPT ![d] = "open"]
    BY <1>9, <1>t DEF Prune, NoRow, LedgerStatus, LedgerState
  <2>3. started' = [started EXCEPT ![d] = Ledger!Never]
    BY <1>9 DEF Prune, Ledger!Never
  <2>4. Ledger!Forget(d)
    BY <2>1, <2>2, <2>3 DEF Ledger!Forget
  <2>5. QED
    BY <2>4 DEF Ledger!Next
<1>10. CASE Tick
  <2>1. GivesUp
    BY <1>10, <1>t DEF Tick, GivesUp, LedgerState, RowType
  <2>2. QED
    BY <1>10, <2>1, GivingUp DEF Tick
<1>11. CASE UNCHANGED <<claims, started>>
  BY <1>11, GivingUp DEF GivesUp
<1>12. QED
  BY <1>1, <1>2, <1>3, <1>4, <1>5, <1>6, <1>7, <1>8, <1>9, <1>10, <1>11
  DEF Next, RunStep, vars, runVars, Dispatch, SkipTarget, Admission, Rekey, Crash

----------------------------------------------------------------------------
(* Theorems *)

LEMMA BegunInvariant == Spec => [](IInv /\ BegunInv)
<1>1. Init => BegunInv
  BY DEF Init, BegunInv, Works
<1>2. IInv /\ BegunInv /\ [Next]_vars => BegunInv'
  BY BegunStep
<1>3. QED
  BY <1>1, <1>2, Invariance, PTL DEF Spec

\* The table and its handlers keep the promise of the ledger: no side effect is
\* begun once it is done or given up, nor twice under one generation, nor done
\* before it was begun (ImplementsLedger).
THEOREM LedgerIsImplemented == Spec => ImplementsLedger
<1>1. Init => Ledger!Init
  BY DEF Init, Ledger!Init, Ledger!Never, LedgerStatus, LedgerState, NoRow
<1>2. IInv /\ BegunInv /\ [Next]_vars => [Ledger!Next]_(Ledger!vars)
  BY LedgerStep
<1>3. QED
  BY <1>1, <1>2, BegunInvariant, PTL DEF Spec, ImplementsLedger, Ledger!Spec

\* A completed row and a done side effect are one thing.
LEMMA CompletedIsDone ==
  ASSUME NEW c \in Claim
  PROVE  claims[c].state = "completed" <=> LedgerStatus[c] = "done"
BY DEF LedgerStatus, LedgerState

LEMMA DoneStep ==
  ASSUME TypeOK, CompletedAfterWork, [Ledger!Next]_(Ledger!vars)
  PROVE  CompletedAfterWork'
<1> SUFFICES ASSUME NEW c \in Claim, LedgerStatus'[c] = "done"
             PROVE  \E g \in 0..MaxAttempts : started'[c][g] > 0
  BY CompletedIsDone DEF CompletedAfterWork, LedgerStatus, LedgerState
<1>t. /\ started \in [Claim -> [0..MaxAttempts -> Nat]]
      /\ LedgerStatus[c] = "done" => \E g \in 0..MaxAttempts : started[c][g] > 0
      /\ DOMAIN LedgerStatus = Claim
  BY CompletedIsDone DEF TypeOK, CompletedAfterWork, LedgerStatus
<1>1. ASSUME NEW e \in Claim, Ledger!Done(e) PROVE \E g \in 0..MaxAttempts : started'[c][g] > 0
  <2>1. CASE c = e
    BY <1>1, <2>1 DEF Ledger!Done
  <2>2. CASE c # e
    BY <1>1, <1>t, <2>2 DEF Ledger!Done
  <2>3. QED
    BY <2>1, <2>2
<1>2. ASSUME NEW e \in Claim, Ledger!Forget(e) PROVE \E g \in 0..MaxAttempts : started'[c][g] > 0
  <2>1. c # e
    BY <1>2, <1>t DEF Ledger!Forget
  <2>2. LedgerStatus[c] = "done" /\ started'[c] = started[c]
    BY <1>2, <1>t, <2>1 DEF Ledger!Forget
  <2>3. QED
    BY <1>t, <2>2
<1>3. ASSUME NEW e \in Claim, NEW n \in 0..(MaxAttempts - 1), Ledger!Begin(e, n)
      PROVE  \E g \in 0..MaxAttempts : started'[c][g] > 0
  <2>1. PICK g \in 0..MaxAttempts : started[c][g] > 0
    BY <1>3, <1>t DEF Ledger!Begin
  <2>2. started' = [started EXCEPT ![e][n] = 1]
    BY <1>3 DEF Ledger!Begin
  <2>3. started[c] \in [0..MaxAttempts -> Nat] /\ started[e] \in [0..MaxAttempts -> Nat]
    BY <1>t
  <2>4. started'[c] = IF c = e THEN [started[c] EXCEPT ![n] = 1] ELSE started[c]
    BY <1>t, <2>2
  <2>5. started'[c][g] = IF c = e /\ g = n THEN 1 ELSE started[c][g]
    BY <2>3, <2>4
  <2>6. QED
    BY <2>1, <2>5
<1>4. ASSUME NEW S \in SUBSET Claim, Ledger!GiveUp(S)
      PROVE  \E g \in 0..MaxAttempts : started'[c][g] > 0
  BY <1>4, <1>t DEF Ledger!GiveUp
<1>5. CASE UNCHANGED (Ledger!vars)
  BY <1>5, <1>t DEF Ledger!vars
<1>6. QED
  BY <1>1, <1>2, <1>3, <1>4, <1>5 DEF Ledger!Next

\* A row is completed only after one of its side effects has begun: the ledger
\* has no other way to be done (CompletedAfterWork).
THEOREM CompletionFollowsWork == Spec => []CompletedAfterWork
<1>1. Init => CompletedAfterWork
  BY DEF Init, CompletedAfterWork, NoRow
<1>2. IInv /\ BegunInv /\ CompletedAfterWork /\ [Next]_vars => CompletedAfterWork'
  BY LedgerStep, DoneStep DEF IInv
<1>3. QED
  BY <1>1, <1>2, BegunInvariant, PTL DEF Spec
=============================================================================
