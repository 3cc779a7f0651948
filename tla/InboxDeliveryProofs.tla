------------------------ MODULE InboxDeliveryProofs ------------------------
(* Theorems about InboxDelivery, for every set of messages, injectors and     *)
(* leases.  That a row has one carrier, and what follows from it, assumes that *)
(* a prompt can be rendered: the rollback of an unrenderable one takes rows of *)
(* other carriers.  That no message is lost does not.                         *)
(*                                                                           *)
(* The argument.  A row that is delivered, leased or confirmed was so set by a *)
(* carrier, and a carrier goes only in a step that moves what it finds in that *)
(* state, has shown it to the agent or gives it up: so whoever else moved the  *)
(* row meanwhile, its present state leads to somebody (Located).               *)
(* Only pending rows are claimed or leased, and whoever has taken one keeps it *)
(* delivered or leased until it lets it go, so no second carrier finds it      *)
(* pending (Owned); this an unrenderable prompt breaks.                       *)
(* A reaction is published for a staged handoff only, which becomes taken in   *)
(* the same call (Reactions).                                                 *)
EXTENDS InboxDelivery, TLAPS

\* A handoff that was not taken has no reaction.
Reactions == \A m \in Msg : reacted[m] <= 1 /\ (handoff[m] # "taken" => reacted[m] = 0)

\* The phases in which an injector holds claimed rows, and those in which it
\* follows a prompt whose rows are injected.
Writing == {"claimed", "pasted", "written", "steered"}
Turning == {"starting", "turn", "untracked", "steering"}
Rpc == Turning \union {"steered"}

\* What the phases of injectors, hook and leases say of their rows.
RunShape ==
  \A r \in Run :
    /\ run[r].phase \in {"idle", "planned"} => run[r].mine = {}
    /\ run[r].phase = "claimed" => run[r].mine \subseteq run[r].plan
    /\ run[r].phase \in Rpc => transport # "pty"
HookShape == hook.prompt \subseteq shown /\ (hook.phase # "context" => hook.got = {})
LeaseShape ==
  \A l \in Lease :
    /\ lease[l].phase = "free" => lease[l].rows = {}
    /\ lease[l].phase \in {"accepted", "acked"} => lease[l].rows \subseteq shown
Shapes == RunShape /\ HookShape /\ LeaseShape

\* Who answers for a row that nobody retries, by its state.
Resting == {"none", "pending", "submitted"}
Confirmed == {"injected", "echo_consumed"}
Located ==
  \A m \in Msg :
    \/ row[m] \in Resting \/ m \in shown \/ m \in dropped
    \/ row[m] = "leased" /\ \E l \in Lease : m \in lease[l].rows
    \/ row[m] = "delivered" /\ m \in hook.got
    \/ row[m] = "delivered" /\ \E r \in Run : m \in run[r].mine /\ run[r].phase \in Writing
    \/ row[m] \in Confirmed /\ \E r \in Run : m \in run[r].mine /\ run[r].phase \in Turning

\* On a PTY what was confirmed, or staged for a reaction, was shown.
SeenOnPty ==
  transport = "pty" =>
    \A m \in Msg :
      /\ row[m] \in Confirmed => m \in shown
      /\ handoff[m] = "staged" => m \in shown \union dropped \union hook.got
      /\ handoff[m] = "taken" => m \in shown \union dropped

Traced == Shapes /\ Located /\ SeenOnPty

\* The state of a carried row, which says by what kind of carrier, and that
\* there is no second one of that kind.
Claimed == {"delivered"} \union Confirmed
RunOwned ==
  \A r \in Run : \A m \in run[r].mine :
    /\ row[m] \in Claimed
    /\ run[r].phase \in Writing => row[m] = "delivered"
    /\ m \notin hook.got
    /\ \A q \in Run \ {r} : m \notin run[q].mine
HookOwned == \A m \in hook.got : row[m] = "delivered"
LeaseOwned ==
  \A l \in Lease : \A m \in lease[l].rows :
    row[m] = "leased" /\ \A k \in Lease \ {l} : m \notin lease[k].rows
Owned == RunOwned /\ HookOwned /\ LeaseOwned

IInv == TypeOK /\ Traced /\ Owned

----------------------------------------------------------------------------
(* The operators on rows and handoffs *)

Rows == [Msg -> States]
Handoffs == [Msg -> {"none", "staged", "taken"}]
Runs == [Run -> [phase : RunPhases, plan : SUBSET Msg, mine : SUBSET Msg]]
Leases == [Lease -> [phase : LeasePhases, rows : SUBSET Msg]]
Hooks == [phase : HookPhases, prompt : SUBSET Msg, got : SUBSET Msg]

LEMMA MovedRows ==
  ASSUME row \in Rows, NEW S, NEW from, NEW state \in States
  PROVE  /\ Moved(S, from, state) \in Rows
         /\ \A m \in Msg : Moved(S, from, state)[m] =
              IF m \in S /\ row[m] \in from THEN state ELSE row[m]
BY DEF Moved, Rows

LEMMA ReenqueuedRows ==
  ASSUME row \in Rows, NEW S
  PROVE  /\ Reenqueued(S) \in Rows
         /\ \A m \in Msg : Reenqueued(S)[m] =
              IF m \in S /\ row[m] # "none" THEN "pending" ELSE row[m]
<1>1. "pending" \in States
  BY DEF States
<1>2. QED
  BY <1>1, MovedRows DEF Reenqueued, Rows

LEMMA StagedHandoffs ==
  ASSUME handoff \in Handoffs, NEW S
  PROVE  /\ Staged(S) \in Handoffs
         /\ \A m \in Msg : Staged(S)[m] =
              IF m \in S /\ handoff[m] = "none" THEN "staged" ELSE handoff[m]
BY DEF Staged, Handoffs

\* A reaction is published with the handoff it takes.
LEMMA PublishTakes ==
  ASSUME NEW stage \in Handoffs, NEW S, reacted \in [Msg -> 0..2], Publish(stage, S)
  PROVE  /\ handoff' \in Handoffs /\ reacted' \in [Msg -> 0..2]
         /\ \A m \in Msg :
              IF m \in S /\ stage[m] = "staged"
                THEN handoff'[m] = "taken" /\ (reacted[m] = 0 => reacted'[m] = 1)
                ELSE handoff'[m] = stage[m] /\ reacted'[m] = reacted[m]
<1> DEFINE taken == {m \in S : stage[m] = "staged"}
<1>1. /\ handoff' = [m \in Msg |-> IF m \in taken THEN "taken" ELSE stage[m]]
      /\ reacted' = [m \in Msg |-> IF m \in taken /\ reacted[m] < 2 THEN reacted[m] + 1 ELSE reacted[m]]
  BY DEF Publish
<1>2. handoff' \in Handoffs
  BY <1>1 DEF Handoffs
<1>3. reacted' \in [Msg -> 0..2]
  BY <1>1
<1>4. \A m \in Msg : m \in taken <=> m \in S /\ stage[m] = "staged"
  OBVIOUS
<1>5. ASSUME NEW m \in Msg
      PROVE  IF m \in S /\ stage[m] = "staged"
                THEN handoff'[m] = "taken" /\ (reacted[m] = 0 => reacted'[m] = 1)
                ELSE handoff'[m] = stage[m] /\ reacted'[m] = reacted[m]
  BY <1>1, <1>4
<1>6. QED
  BY <1>2, <1>3, <1>5

\* What an injector, the hook and a lease may be set to.
LEMMA Idles ==
  /\ IdleRun \in [phase : RunPhases, plan : SUBSET Msg, mine : SUBSET Msg]
  /\ Spawning \in [phase : RunPhases, plan : SUBSET Msg, mine : SUBSET Msg]
  /\ FreeLease \in [phase : LeasePhases, rows : SUBSET Msg]
  /\ IdleHook \in Hooks
BY DEF IdleRun, Spawning, FreeLease, IdleHook, Hooks, RunPhases, LeasePhases, HookPhases

LEMMA RunAdvances ==
  ASSUME run \in Runs, NEW r \in Run, NEW phase \in RunPhases, Advance(r, phase)
  PROVE  /\ run' \in Runs
         /\ run'[r].phase = phase /\ run'[r].mine = run[r].mine
         /\ \A q \in Run \ {r} : run'[q] = run[q]
BY DEF Runs, Advance

LEMMA RunClaims ==
  ASSUME run \in Runs, NEW r \in Run, NEW S \in SUBSET Msg,
         run' = [run EXCEPT ![r].phase = "claimed", ![r].mine = S]
  PROVE  run' \in Runs
<1> DEFINE next == [run EXCEPT ![r].phase = "claimed"]
<1>1. next \in Runs
  BY DEF Runs, RunPhases
<1>2. run' = [next EXCEPT ![r].mine = S]
  OBVIOUS
<1> HIDE DEF next
<1>3. QED
  BY <1>1, <1>2 DEF Runs

LEMMA RunEnds ==
  ASSUME run \in Runs, NEW r \in Run, EndRun(r)
  PROVE  /\ run' \in Runs
         /\ run'[r].phase = "idle" /\ run'[r].mine = {}
         /\ \A q \in Run \ {r} : run'[q] = run[q]
<1>1. run' \in Runs
  BY Idles DEF Runs, EndRun
<1>2. QED
  BY <1>1 DEF Runs, EndRun, IdleRun

----------------------------------------------------------------------------
(* Types *)

\* TypeOK in the sets the lemmas above are about.
Typed ==
  /\ transport \in Transports /\ row \in Rows /\ run \in Runs /\ lease \in Leases /\ hook \in Hooks
  /\ live \in BOOLEAN /\ working \in BOOLEAN /\ timer \in SUBSET Msg /\ box \in SUBSET Msg
  /\ handoff \in Handoffs /\ shown \in SUBSET Msg /\ dropped \in SUBSET Msg
  /\ reacted \in [Msg -> 0..2]

LEMMA TypedIsTypeOK == Typed <=> TypeOK
BY DEF Typed, TypeOK, Rows, Runs, Leases, Hooks, Handoffs

LEMMA PhaseNames ==
  /\ RunPhases = {"idle", "planned", "claimed", "pasted", "written", "starting", "turn",
                  "untracked", "steered", "steering"}
  /\ {"none", "pending", "delivered", "leased", "submitted", "injected", "echo_consumed"} = States
BY DEF RunPhases, States

\* The rows a carrier names are messages.
LEMMA RowsNamed ==
  ASSUME Typed
  PROVE  /\ \A r \in Run : run[r].plan \in SUBSET Msg /\ run[r].mine \in SUBSET Msg
         /\ \A l \in Lease : lease[l].rows \in SUBSET Msg
         /\ hook.got \in SUBSET Msg /\ hook.prompt \in SUBSET Msg
         /\ InFlight \in SUBSET Msg
<1>1. /\ \A r \in Run : run[r].plan \in SUBSET Msg /\ run[r].mine \in SUBSET Msg
      /\ \A l \in Lease : lease[l].rows \in SUBSET Msg
      /\ hook.got \in SUBSET Msg /\ hook.prompt \in SUBSET Msg
  BY DEF Typed, Runs, Leases, Hooks
<1>2. ASSUME NEW m \in InFlight PROVE m \in Msg
  <2>1. m \in hook.got \/ \E r \in Run : m \in run[r].mine
    BY <1>2 DEF InFlight
  <2>2. QED
    BY <1>1, <2>1
<1>3. InFlight \in SUBSET Msg
  BY <1>2
<1>4. QED
  BY <1>1, <1>3

LEMMA InjectorTyped ==
  ASSUME Typed, UNCHANGED transport, NEW r \in Run, Injector(r)
  PROVE  Typed'
<1> USE RowsNamed
<1>1. CASE Plan(r)
  BY <1>1 DEF Plan, In, Typed, Runs, RunPhases, history
<1>2. CASE ClaimPlanned(r)
  <2> DEFINE mine == run[r].plan \intersect In("pending")
  <2>1. row' \in Rows
    BY <1>2, MovedRows, PhaseNames DEF ClaimPlanned, Typed
  <2>2. CASE mine = {}
    BY <1>2, <2>1, <2>2, RunEnds DEF ClaimPlanned, history, Typed
  <2>3. CASE mine # {}
    <3>1. run' = [run EXCEPT ![r].phase = "claimed", ![r].mine = mine] /\ mine \in SUBSET Msg
      BY <1>2, <2>3 DEF ClaimPlanned, In
    <3>2. run' \in Runs
      BY <3>1, RunClaims DEF Typed
    <3>3. QED
      BY <1>2, <2>1, <3>2 DEF ClaimPlanned, history, Typed
  <2>4. QED
    BY <2>2, <2>3
<1>3. CASE AbandonPlan(r)
  BY <1>3, RunEnds DEF AbandonPlan, history, Typed
<1>4. CASE RenderNothing(r) \/ DeliverFails(r)
  <2>1. row' \in Rows /\ dropped' \in SUBSET Msg
    <3>1. ASSUME NEW S, RollBack(r, S) PROVE row' \in Rows /\ dropped' \in SUBSET Msg
      BY <3>1, ReenqueuedRows DEF RollBack, Typed
    <3>2. QED
      BY <1>4, <3>1 DEF RenderNothing, DeliverFails
  <2>2. run' \in Runs /\ timer' \in SUBSET Msg
    BY <1>4, RunEnds DEF RenderNothing, DeliverFails, Typed
  <2>3. QED
    BY <1>4, <2>1, <2>2 DEF RenderNothing, DeliverFails, Typed
<1>5. CASE Paste(r) \/ Deliver(r) \/ TrackFails(r)
  <2>1. \E phase \in RunPhases : Advance(r, phase)
    BY <1>5, PhaseNames DEF Paste, Deliver, TrackFails
  <2>2. run' \in Runs
    BY <2>1, RunAdvances DEF Typed
  <2>3. QED
    BY <1>5, <2>2 DEF Paste, Deliver, TrackFails, history, Typed
<1>6. CASE FinalizeSubmitted(r)
  BY <1>6, MovedRows, RunEnds, PhaseNames DEF FinalizeSubmitted, history, Typed
<1>7. CASE FinalizeInjected(r)
  <2>1. row' \in Rows /\ handoff' \in Handoffs
    BY <1>7, MovedRows, StagedHandoffs, PhaseNames DEF FinalizeInjected, Typed
  <2>2. run' \in Runs
    BY <1>7, RunAdvances, PhaseNames DEF FinalizeInjected, Typed
  <2>3. QED
    BY <1>7, <2>1, <2>2 DEF FinalizeInjected, history, Typed
<1>8. CASE FinalizeFails(r)
  BY <1>8, RunEnds, RunAdvances, PhaseNames DEF FinalizeFails, Typed
<1>9. CASE StartTurn(r)
  <2>1. handoff' \in Handoffs /\ reacted' \in [Msg -> 0..2]
    BY <1>9, PublishTakes DEF StartTurn, Typed
  <2>2. run' \in Runs
    BY <1>9, RunAdvances, PhaseNames DEF StartTurn, Typed
  <2>3. QED
    BY <1>9, <2>1, <2>2 DEF StartTurn, Typed
<1>10. CASE EndTurn(r)
  <2>1. row' \in Rows
    BY <1>10, MovedRows, PhaseNames DEF EndTurn, TurnEnds, Typed
  <2>2. QED
    BY <1>10, <2>1, RunEnds DEF EndTurn, TurnEnds, Seen, Typed
<1>11. CASE EndUntracked(r)
  BY <1>11, RunEnds DEF EndUntracked, Seen, Typed
<1>12. CASE EndSteer(r)
  <2>1. handoff' \in Handoffs /\ reacted' \in [Msg -> 0..2]
    BY <1>12, PublishTakes DEF EndSteer, Typed
  <2>2. QED
    BY <1>12, <2>1, RunEnds DEF EndSteer, Seen, Typed
<1>13. QED
  BY <1>1, <1>2, <1>3, <1>4, <1>5, <1>6, <1>7, <1>8, <1>9, <1>10, <1>11, <1>12 DEF Injector

LEMMA HookTyped ==
  ASSUME Typed, UNCHANGED transport, Hook
  PROVE  Typed'
<1> USE RowsNamed
<1>1. CASE PromptHook
  <2>1. PICK prompt \in {{}, box} :
          /\ hook' = [phase |-> IF HookOwnsLifecycle THEN "prompt" ELSE "claim",
                      prompt |-> prompt, got |-> {}]
          /\ box' = box \ prompt /\ shown' = shown \union prompt
    BY <1>1 DEF PromptHook
  <2>2. hook' \in Hooks
    BY <2>1 DEF Typed, Hooks, HookPhases
  <2>3. QED
    BY <1>1, <2>1, <2>2 DEF PromptHook, HookOwnsLifecycle, Typed
<1>2. CASE ConfirmPrompt
  <2>1. row' \in Rows
    BY <1>2 DEF ConfirmPrompt, Typed, Rows, States
  <2>2. handoff' \in Handoffs /\ hook' \in Hooks
    BY <1>2, StagedHandoffs DEF ConfirmPrompt, Typed, Hooks, HookPhases
  <2>3. QED
    BY <1>2, <2>1, <2>2 DEF ConfirmPrompt, Typed
<1>3. CASE SkipConfirm \/ CheckHook
  BY <1>3, Idles DEF SkipConfirm, CheckHook, history, Typed, Hooks, HookPhases
<1>4. CASE HookClaim
  <2>1. row' \in Rows /\ handoff' \in Handoffs
    BY <1>4, MovedRows, StagedHandoffs, PhaseNames DEF HookClaim, Typed
  <2>2. hook' \in Hooks
    BY <1>4 DEF HookClaim, In, Typed, Hooks, HookPhases
  <2>3. QED
    BY <1>4, <2>1, <2>2 DEF HookClaim, Typed
<1>5. CASE HookContext
  <2>1. handoff' \in Handoffs /\ reacted' \in [Msg -> 0..2]
    BY <1>5, PublishTakes DEF HookContext, Typed
  <2>2. QED
    BY <1>5, <2>1, Idles DEF HookContext, Typed
<1>6. CASE HookFails
  BY <1>6, Idles DEF HookFails, Typed
<1>7. CASE TurnEndHook
  <2>1. row' \in Rows
    BY <1>7, MovedRows, PhaseNames DEF TurnEndHook, TurnEnds, Typed
  <2>2. QED
    BY <1>7, <2>1 DEF TurnEndHook, TurnEnds, history, Typed
<1>8. QED
  BY <1>1, <1>2, <1>3, <1>4, <1>5, <1>6, <1>7 DEF Hook

\* A lease that is released is free, and its rows are pending.
LEMMA LeaseReleases ==
  ASSUME Typed, NEW l \in Lease, ReleaseLease(l)
  PROVE  /\ row' \in Rows /\ lease' \in Leases
         /\ lease'[l] = FreeLease /\ \A k \in Lease \ {l} : lease'[k] = lease[k]
         /\ \A m \in Msg : row'[m] = IF m \in lease[l].rows /\ row[m] = "leased"
                                    THEN "pending" ELSE row[m]
<1>1. lease' \in Leases
  BY Idles DEF ReleaseLease, Typed, Leases
<1>2. lease'[l] = FreeLease /\ \A k \in Lease \ {l} : lease'[k] = lease[k]
  BY DEF ReleaseLease, Typed, Leases
<1>3. QED
  BY <1>1, <1>2, MovedRows, PhaseNames DEF ReleaseLease, Typed

LEMMA ExtensionTyped ==
  ASSUME Typed, UNCHANGED transport, NEW l \in Lease, Extension(l)
  PROVE  Typed'
<1> USE RowsNamed
<1>1. CASE WaitLeases(l)
  <2>1. row' \in Rows
    BY <1>1, MovedRows, PhaseNames DEF WaitLeases, Typed
  <2>2. lease' \in Leases
    BY <1>1 DEF WaitLeases, In, Typed, Leases, LeasePhases
  <2>3. QED
    BY <1>1, <2>1, <2>2 DEF WaitLeases, history, Typed
<1>2. CASE Offer(l) \/ Accept(l) \/ TakeLease(l)
  <2>1. lease' \in Leases
    BY <1>2 DEF Offer, Accept, TakeLease, Typed, Leases, LeasePhases
  <2>2. QED
    BY <1>2, <2>1 DEF Offer, Accept, TakeLease, history, Typed
<1>3. CASE WaitRendersNothing(l) \/ Decline(l) \/ Expire(l)
  BY <1>3, LeaseReleases DEF WaitRendersNothing, Decline, Expire, history, Typed
<1>4. CASE Acknowledge(l)
  <2> DEFINE mine == {m \in lease[l].rows : row[m] = "leased"}
  <2>1. row' \in Rows
    BY <1>4, MovedRows, PhaseNames DEF Acknowledge, Typed
  <2>2. handoff' \in Handoffs /\ reacted' \in [Msg -> 0..2]
    BY <1>4, StagedHandoffs, PublishTakes DEF Acknowledge, Typed
  <2>3. lease' \in Leases
    BY <1>4, Idles DEF Acknowledge, Typed, Leases
  <2>4. QED
    BY <1>4, <2>1, <2>2, <2>3 DEF Acknowledge, Typed
<1>5. CASE LeaseFails(l)
  BY <1>5, Idles DEF LeaseFails, Typed, Leases
<1>6. QED
  BY <1>1, <1>2, <1>3, <1>4, <1>5 DEF Extension

LEMMA StepTyped == Typed /\ [Next]_<<vars, transport>> => Typed'
<1> SUFFICES ASSUME Typed, [Next]_<<vars, transport>> PROVE Typed'
  OBVIOUS
<1> USE RowsNamed
<1>1. ASSUME UNCHANGED transport, NEW m \in Msg, Park(m) \/ StaleSubmission(m) PROVE Typed'
  <2>1. row' \in Rows
    BY <1>1, MovedRows, PhaseNames DEF Park, StaleSubmission, Typed, Rows
  <2>2. QED
    BY <1>1, <2>1 DEF Park, StaleSubmission, history, Typed
<1>2. ASSUME UNCHANGED transport, GoQuiet \/ LoseInput PROVE Typed'
  BY <1>2 DEF GoQuiet, LoseInput, history, Typed
<1>3. ASSUME UNCHANGED transport, Crash PROVE Typed'
  <2>1. row' \in Rows
    BY <1>3, MovedRows, PhaseNames DEF Crash, Typed
  <2>2. run' \in Runs /\ lease' \in Leases /\ hook' \in Hooks
    BY <1>3, Idles DEF Crash, Runs, Leases
  <2>3. QED
    BY <1>3, <2>1, <2>2 DEF Crash, Typed
<1>4. CASE UNCHANGED <<vars, transport>>
  BY <1>4 DEF vars, Typed
<1>5. QED
  BY <1>1, <1>2, <1>3, <1>4, InjectorTyped, HookTyped, ExtensionTyped DEF Next

LEMMA InitTyped == Init => Typed
<1> SUFFICES ASSUME Init PROVE Typed
  OBVIOUS
<1>1. row \in Rows /\ handoff \in Handoffs /\ reacted \in [Msg -> 0..2]
  BY DEF Init, Rows, Handoffs, States
<1>2. run \in Runs /\ lease \in Leases /\ hook \in Hooks
  BY Idles DEF Init, Runs, Leases
<1>3. QED
  BY <1>1, <1>2 DEF Init, Typed

----------------------------------------------------------------------------
(* Reactions *)

\* What a step may do to the handoffs and to the reactions published.
LEMMA ReactionsKept ==
  ASSUME Typed, Reactions,
         \/ UNCHANGED <<handoff, reacted>>
         \/ \E S \in SUBSET Msg : handoff' = Staged(S) /\ UNCHANGED reacted
         \/ \E S, T \in SUBSET Msg : Publish(handoff, S) \/ Publish(Staged(T), S)
  PROVE  Reactions'
<1>1. CASE UNCHANGED <<handoff, reacted>>
  BY <1>1 DEF Reactions
<1>2. ASSUME NEW S \in SUBSET Msg, handoff' = Staged(S), UNCHANGED reacted PROVE Reactions'
  BY <1>2, StagedHandoffs DEF Reactions, Typed, Handoffs
<1>3. ASSUME NEW S \in SUBSET Msg, NEW T \in SUBSET Msg, Publish(handoff, S) \/ Publish(Staged(T), S)
      PROVE  Reactions'
  <2>1. PICK stage \in Handoffs : /\ Publish(stage, S)
                                  /\ \A m \in Msg : stage[m] # "taken" => handoff[m] # "taken"
    BY <1>3, StagedHandoffs DEF Typed, Handoffs
  <2>2. ASSUME NEW m \in Msg PROVE reacted'[m] <= 1 /\ (handoff'[m] # "taken" => reacted'[m] = 0)
    <3>1. CASE m \in S /\ stage[m] = "staged"
      <4>1. reacted[m] = 0
        BY <2>1, <3>1 DEF Reactions
      <4>2. handoff'[m] = "taken" /\ reacted'[m] = 1
        BY <2>1, <3>1, <4>1, PublishTakes DEF Typed
      <4>3. QED
        BY <4>2
    <3>2. CASE ~(m \in S /\ stage[m] = "staged")
      <4>1. handoff'[m] = stage[m] /\ reacted'[m] = reacted[m]
        BY <2>1, <3>2, PublishTakes DEF Typed
      <4>2. QED
        BY <2>1, <4>1 DEF Reactions
    <3>3. QED
      BY <3>1, <3>2
  <2>3. QED
    BY <2>2 DEF Reactions
<1>4. QED
  BY <1>1, <1>2, <1>3

LEMMA StepReacts == Typed /\ Reactions /\ [Next]_<<vars, transport>> => Reactions'
<1> SUFFICES ASSUME Typed, Reactions, [Next]_<<vars, transport>> PROVE Reactions'
  OBVIOUS
<1> USE RowsNamed
<1>1. ASSUME NEW r \in Run, Injector(r) PROVE Reactions'
  <2>1. CASE FinalizeInjected(r)
    <3>1. {m \in run[r].mine : row'[m] = "injected"} \in SUBSET Msg
      OBVIOUS
    <3>2. QED
      BY <2>1, <3>1, ReactionsKept DEF FinalizeInjected, history
  <2>2. CASE StartTurn(r)
    BY <2>2, ReactionsKept DEF StartTurn
  <2>3. CASE EndSteer(r)
    BY <2>3, ReactionsKept DEF EndSteer
  <2>4. CASE ~(FinalizeInjected(r) \/ StartTurn(r) \/ EndSteer(r))
    <3>1. UNCHANGED <<handoff, reacted>>
      BY <1>1, <2>4 DEF Injector, Plan, ClaimPlanned, AbandonPlan, RenderNothing, Paste, Deliver,
         DeliverFails, FinalizeSubmitted, FinalizeFails, TrackFails, EndTurn, EndUntracked, history
    <3>2. QED
      BY <3>1, ReactionsKept
  <2>5. QED
    BY <2>1, <2>2, <2>3, <2>4
<1>2. CASE Hook
  <2>1. CASE ConfirmPrompt
    <3>1. hook.prompt \intersect In("submitted") \in SUBSET Msg
      OBVIOUS
    <3>2. QED
      BY <2>1, <3>1, ReactionsKept DEF ConfirmPrompt
  <2>2. CASE HookClaim
    BY <2>2, ReactionsKept DEF HookClaim, In
  <2>3. CASE HookContext
    BY <2>3, ReactionsKept DEF HookContext
  <2>4. CASE ~(ConfirmPrompt \/ HookClaim \/ HookContext)
    <3>1. UNCHANGED <<handoff, reacted>>
      BY <1>2, <2>4 DEF Hook, PromptHook, SkipConfirm, CheckHook, HookFails, TurnEndHook, history
    <3>2. QED
      BY <3>1, ReactionsKept
  <2>5. QED
    BY <2>1, <2>2, <2>3, <2>4
<1>3. ASSUME NEW l \in Lease, Extension(l) PROVE Reactions'
  <2>1. CASE Acknowledge(l)
    <3> DEFINE mine == {m \in lease[l].rows : row[m] = "leased"}
    <3>1. mine \in SUBSET Msg
      OBVIOUS
    <3>2. Publish(Staged(mine), mine) \/ (handoff' = Staged(mine) /\ UNCHANGED reacted)
      BY <2>1 DEF Acknowledge
    <3>3. QED
      BY <3>1, <3>2, ReactionsKept
  <2>2. CASE ~Acknowledge(l)
    <3>1. UNCHANGED <<handoff, reacted>>
      BY <1>3, <2>2 DEF Extension, WaitLeases, Offer, WaitRendersNothing, Accept, TakeLease, Decline,
         Expire, LeaseFails, history
    <3>2. QED
      BY <3>1, ReactionsKept
  <2>3. QED
    BY <2>1, <2>2
<1>4. ASSUME NEW m \in Msg, Park(m) \/ StaleSubmission(m) PROVE Reactions'
  BY <1>4, ReactionsKept DEF Park, StaleSubmission, history
<1>5. CASE GoQuiet \/ LoseInput \/ Crash
  BY <1>5, ReactionsKept DEF GoQuiet, LoseInput, Crash, history
<1>6. CASE UNCHANGED <<vars, transport>>
  BY <1>6, ReactionsKept DEF vars
<1>7. QED
  BY <1>1, <1>2, <1>3, <1>4, <1>5, <1>6 DEF Next

LEMMA InitReacts == Init => Reactions
BY DEF Init, Reactions

\* The claim of an injector: it holds what it claimed, or has nothing to hold.
LEMMA ClaimRuns ==
  ASSUME Typed, NEW r \in Run, ClaimPlanned(r)
  PROVE  LET mine == run[r].plan \intersect In("pending")
         IN  /\ \A q \in Run \ {r} : run'[q] = run[q]
             /\ run'[r].mine = mine /\ run'[r].phase \in {"idle", "claimed"}
             /\ run'[r].phase = "idle" => mine = {}
             /\ run'[r].phase = "claimed" => run'[r].plan = run[r].plan
<1> DEFINE mine == run[r].plan \intersect In("pending")
<1>1. CASE mine = {}
  BY <1>1, RunEnds DEF ClaimPlanned, Typed
<1>2. CASE mine # {}
  <2>1. run' = [run EXCEPT ![r].phase = "claimed", ![r].mine = mine]
    BY <1>2 DEF ClaimPlanned
  <2>2. QED
    BY <2>1, <1>2 DEF Typed, Runs
<1>3. QED
  BY <1>1, <1>2

----------------------------------------------------------------------------
(* Who answers for a row *)

\* A step of an injector: a row it had is at rest, shown, given up or still its
\* own, and any other row is as it was.
LEMMA InjectorTraces ==
  ASSUME Typed, Typed', Traced, UNCHANGED <<transport, lease, hook>>, NEW r \in Run,
         \A q \in Run \ {r} : run'[q] = run[q],
         run'[r].phase \in {"idle", "planned"} => run'[r].mine = {},
         run'[r].phase = "claimed" => run'[r].mine \subseteq run'[r].plan,
         run'[r].phase \in Rpc => transport # "pty",
         shown \subseteq shown', dropped \subseteq dropped',
         \A m \in Msg : handoff'[m] = handoff[m] \/ transport # "pty",
         \A m \in Msg : row'[m] \in Confirmed => row[m] \in Confirmed \/ transport # "pty",
         \A m \in Msg :
           \/ row'[m] \in Resting \/ m \in shown' \/ m \in dropped'
           \/ m \in run'[r].mine /\ row'[m] = "delivered" /\ run'[r].phase \in Writing
           \/ m \in run'[r].mine /\ row'[m] \in Confirmed /\ run'[r].phase \in Turning
           \/ /\ row'[m] = row[m] \/ (row[m] \in Confirmed /\ row'[m] \in Confirmed)
              /\ m \in run[r].mine /\ row[m] = "delivered" => run[r].phase \notin Writing
              /\ m \in run[r].mine /\ row[m] \in Confirmed => run[r].phase \notin Turning
  PROVE  Traced'
<1>1. Shapes'
  BY DEF Traced, Shapes, RunShape, HookShape, LeaseShape
<1>2. Located'
  BY DEF Traced, Located, Resting, Confirmed, Writing, Turning
<1>3. SeenOnPty'
  BY DEF Traced, SeenOnPty
<1>4. QED
  BY <1>1, <1>2, <1>3 DEF Traced

\* A rollback leaves each row of S pending, or the injector's rows given up.
LEMMA RolledBack ==
  ASSUME Typed, NEW r \in Run, NEW S \in SUBSET Msg, run[r].mine \subseteq S, RollBack(r, S)
  PROVE  /\ dropped \subseteq dropped'
         /\ \A m \in Msg \ S : row'[m] = row[m]
         /\ \A m \in S : row'[m] \in {"none", "pending"} \/ row'[m] = row[m]
         /\ \A m \in run[r].mine : row'[m] \in {"none", "pending"} \/ m \in dropped'
<1>1. CASE row' = Reenqueued(S) /\ UNCHANGED dropped
  BY <1>1, ReenqueuedRows, RowsNamed DEF Typed
<1>2. CASE UNCHANGED row /\ dropped' = dropped \union run[r].mine
  BY <1>2
<1>3. QED
  BY <1>1, <1>2 DEF RollBack

LEMMA InjectorTraced ==
  ASSUME Typed, Typed', Traced, UNCHANGED transport, NEW r \in Run, Injector(r)
  PROVE  Traced'
<1> USE RowsNamed
<1>1. /\ run[r].phase \in {"idle", "planned"} => run[r].mine = {}
      /\ run[r].phase = "claimed" => run[r].mine \subseteq run[r].plan
      /\ run[r].phase \in Rpc => transport # "pty"
  BY DEF Traced, Shapes, RunShape
<1>2. CASE Plan(r)
  <2>1. /\ \A q \in Run \ {r} : run'[q] = run[q]
        /\ run'[r].phase = "planned" /\ run'[r].mine = {} /\ run[r].mine = {}
    BY <1>1, <1>2 DEF Plan, Typed, Runs
  <2>2. QED
    BY <1>2, <2>1, InjectorTraces DEF Plan, history, Rpc, Turning
<1>3. CASE AbandonPlan(r)
  BY <1>1, <1>3, RunEnds, InjectorTraces DEF AbandonPlan, history, Typed, Rpc, Turning
<1>4. CASE RenderNothing(r) \/ DeliverFails(r)
  <2>1. PICK S \in SUBSET Msg : run[r].mine \subseteq S /\ RollBack(r, S)
    BY <1>1, <1>4 DEF RenderNothing, DeliverFails
  <2>2. EndRun(r) /\ UNCHANGED <<lease, hook, handoff, shown>>
    BY <1>4 DEF RenderNothing, DeliverFails
  <2>3. QED
    BY <2>1, <2>2, RunEnds, RolledBack, InjectorTraces DEF Typed, Rpc, Turning, Resting, Confirmed
<1>5. CASE Paste(r) \/ Deliver(r)
  <2>1. /\ \A q \in Run \ {r} : run'[q] = run[q]
        /\ run'[r].mine = run[r].mine /\ run[r].phase \in Writing
        /\ run'[r].phase \in {"pasted", "written"} \/ (run'[r].phase = "steered" /\ transport # "pty")
    BY <1>5, RunAdvances, PhaseNames DEF Paste, Deliver, Typed, Writing
  <2>2. UNCHANGED <<row, lease, hook, handoff, shown, dropped>>
    BY <1>5 DEF Paste, Deliver, history
  <2>3. QED
    BY <2>1, <2>2, InjectorTraces DEF Rpc, Turning, Writing
<1>6. CASE FinalizeSubmitted(r)
  <2>1. \A m \in Msg : row'[m] = IF m \in run[r].mine /\ row[m] \in {"delivered", "pending"}
                                 THEN "submitted" ELSE row[m]
    BY <1>6, MovedRows, PhaseNames DEF FinalizeSubmitted, Typed
  <2>2. run[r].phase \notin Turning
    BY <1>6 DEF FinalizeSubmitted, Turning
  <2>3. QED
    BY <1>6, <2>1, <2>2, RunEnds, InjectorTraces
    DEF FinalizeSubmitted, history, Typed, Rpc, Turning, Resting, Confirmed
<1>7. CASE FinalizeInjected(r)
  <2>1. \A m \in Msg : row'[m] = IF m \in run[r].mine /\ row[m] \in {"delivered", "submitted"}
                                 THEN "injected" ELSE row[m]
    BY <1>7, MovedRows, PhaseNames DEF FinalizeInjected, Typed
  <2>2. /\ run'[r].phase \in {"starting", "steering"} /\ run'[r].mine = run[r].mine
        /\ \A q \in Run \ {r} : run'[q] = run[q]
    BY <1>7, RunAdvances, PhaseNames DEF FinalizeInjected, Typed
  <2>3. run[r].phase \notin Turning /\ run'[r].phase \in Turning /\ transport # "pty"
    BY <1>7, <2>2 DEF FinalizeInjected, Turning
  <2>4. UNCHANGED <<lease, hook, shown, dropped>>
    BY <1>7 DEF FinalizeInjected, history
  <2>5. QED
    BY <2>1, <2>2, <2>3, <2>4, InjectorTraces DEF Confirmed
<1>8. CASE FinalizeFails(r)
  <2>1. /\ \A q \in Run \ {r} : run'[q] = run[q]
        /\ \/ run'[r].phase = "untracked" /\ transport # "pty"
           \/ run'[r].phase = "idle" /\ run'[r].mine = {}
    BY <1>8, RunAdvances, RunEnds, PhaseNames DEF FinalizeFails, Typed
  <2>2. run[r].mine \subseteq dropped' /\ dropped \subseteq dropped' /\ UNCHANGED <<row, lease, hook, handoff, shown>>
    BY <1>8 DEF FinalizeFails
  <2>3. QED
    BY <2>1, <2>2, InjectorTraces DEF Rpc, Turning
<1>9. CASE StartTurn(r) \/ TrackFails(r)
  <2>1. /\ \A q \in Run \ {r} : run'[q] = run[q]
        /\ run'[r].phase \in {"turn", "untracked"} /\ run'[r].mine = run[r].mine
    BY <1>9, RunAdvances, PhaseNames DEF StartTurn, TrackFails, Typed
  <2>2. transport # "pty" /\ run[r].phase \notin Writing /\ run'[r].phase \in Turning
    BY <1>1, <1>9, <2>1 DEF StartTurn, TrackFails, Rpc, Turning, Writing
  <2>3. UNCHANGED <<row, lease, hook, shown, dropped>>
    BY <1>9 DEF StartTurn, TrackFails, history
  <2>4. QED
    BY <2>1, <2>2, <2>3, InjectorTraces
<1>10. CASE EndTurn(r) \/ EndUntracked(r) \/ EndSteer(r)
  <2>1. /\ \A q \in Run \ {r} : run'[q] = run[q]
        /\ run'[r].phase = "idle" /\ run'[r].mine = {}
    BY <1>10, RunEnds DEF EndTurn, EndUntracked, EndSteer, Typed
  <2>2. transport # "pty"
    BY <1>1, <1>10 DEF EndTurn, EndUntracked, EndSteer, Rpc, Turning
  <2>3. /\ run[r].mine \subseteq shown' \union dropped'
        /\ shown \subseteq shown' /\ dropped \subseteq dropped'
    BY <1>10 DEF EndTurn, EndUntracked, EndSteer, Seen
  <2>4. \A m \in Msg : row'[m] = row[m] \/ (row[m] = "injected" /\ row'[m] = "echo_consumed")
    BY <1>10, MovedRows, PhaseNames DEF EndTurn, EndUntracked, EndSteer, TurnEnds, Typed
  <2>5. UNCHANGED <<lease, hook>>
    BY <1>10 DEF EndTurn, EndUntracked, EndSteer
  <2>6. QED
    BY <2>1, <2>2, <2>3, <2>4, <2>5, InjectorTraces DEF Confirmed, Rpc, Turning
<1>11. CASE ClaimPlanned(r)
  <2> DEFINE mine == run[r].plan \intersect In("pending")
  <2>1. \A m \in Msg : row'[m] = IF m \in mine THEN "delivered" ELSE row[m]
    BY <1>11, MovedRows, PhaseNames DEF ClaimPlanned, In, Typed
  <2>2. /\ \A q \in Run \ {r} : run'[q] = run[q]
        /\ run'[r].mine = mine /\ run'[r].phase \in {"idle", "claimed"}
        /\ run'[r].phase = "idle" => mine = {}
        /\ run'[r].phase = "claimed" => run'[r].plan = run[r].plan
    BY <1>11, ClaimRuns
  <2>3. UNCHANGED <<lease, hook, handoff, shown, dropped>> /\ run[r].mine = {}
    BY <1>1, <1>11 DEF ClaimPlanned, history
  <2> HIDE DEF mine
  <2>4. mine \subseteq run[r].plan
    BY DEF mine
  <2>5. QED
    BY <2>1, <2>2, <2>3, <2>4, InjectorTraces DEF Rpc, Turning, Writing, Confirmed
<1>12. QED
  BY <1>2, <1>3, <1>4, <1>5, <1>6, <1>7, <1>8, <1>9, <1>10, <1>11 DEF Injector

\* A step of anybody else: a row has found a new carrier or keeps the one it had.
LEMMA OthersTrace ==
  ASSUME Typed, Typed', Traced, UNCHANGED <<transport, run>>, HookShape', LeaseShape',
         shown \subseteq shown', dropped \subseteq dropped',
         \A m \in Msg :
           \/ row'[m] \in Resting \/ m \in shown' \/ m \in dropped'
           \/ row'[m] = "leased" /\ \E l \in Lease : m \in lease'[l].rows
           \/ row'[m] = "delivered" /\ m \in hook'.got
           \/ /\ row'[m] = row[m] \/ (row[m] \in Confirmed /\ row'[m] \in Confirmed)
              /\ m \in hook.got => m \in hook'.got
              /\ row[m] = "leased" => \A l \in Lease : m \in lease[l].rows => m \in lease'[l].rows,
         \A m \in Msg : row'[m] \in Confirmed => row[m] \in Confirmed \/ m \in shown',
         transport = "pty" =>
           \A m \in Msg :
             \/ m \in shown' \/ m \in dropped'
             \/ handoff'[m] = handoff[m] /\ (m \in hook.got => m \in hook'.got)
             \/ handoff'[m] = "staged" /\ m \in hook'.got
  PROVE  Traced'
<1>1. Shapes'
  BY DEF Traced, Shapes, RunShape
<1>2. Located'
  BY DEF Traced, Located, Resting, Confirmed, Writing, Turning
<1>3. SeenOnPty'
  BY DEF Traced, SeenOnPty
<1>4. QED
  BY <1>1, <1>2, <1>3 DEF Traced

LEMMA HookTraced ==
  ASSUME Typed, Typed', Traced, UNCHANGED transport, Hook
  PROVE  Traced'
<1> USE RowsNamed
<1>1. HookShape /\ LeaseShape
  BY DEF Traced, Shapes
<1>2. CASE PromptHook
  <2>1. /\ hook.got = {} /\ hook'.got = {} /\ hook'.prompt \subseteq shown' /\ shown \subseteq shown'
        /\ UNCHANGED <<run, lease, row, handoff, dropped>>
    BY <1>1, <1>2 DEF PromptHook, HookShape, history
  <2>2. HookShape' /\ LeaseShape'
    BY <1>1, <2>1 DEF HookShape, LeaseShape
  <2>3. QED
    BY <2>1, <2>2, OthersTrace
<1>3. CASE ConfirmPrompt
  <2>1. /\ hook'.prompt = hook.prompt /\ hook.got = {} /\ hook'.got = {}
        /\ \A m \in Msg : \/ row'[m] = row[m] \/ row'[m] = "pending"
                          \/ row'[m] = "injected" /\ m \in shown
    BY <1>1, <1>3 DEF ConfirmPrompt, HookShape, In, Typed, Hooks
  <2>2. \A m \in Msg : handoff'[m] = handoff[m] \/ m \in shown
    BY <1>1, <1>3, StagedHandoffs DEF ConfirmPrompt, HookShape, Typed
  <2>3. UNCHANGED <<run, lease, shown, dropped>>
    BY <1>3 DEF ConfirmPrompt
  <2>4. HookShape' /\ LeaseShape'
    BY <1>1, <2>1, <2>3 DEF HookShape, LeaseShape
  <2>5. QED
    BY <2>1, <2>2, <2>3, <2>4, OthersTrace DEF Resting, Confirmed
<1>4. CASE SkipConfirm \/ CheckHook
  <2>1. hook.got = {} /\ hook'.got = {} /\ hook'.prompt \subseteq shown
    BY <1>1, <1>4 DEF SkipConfirm, CheckHook, HookShape, IdleHook, Typed, Hooks
  <2>2. UNCHANGED <<run, lease, row, handoff, shown, dropped>>
    BY <1>4 DEF SkipConfirm, CheckHook, history
  <2>3. HookShape' /\ LeaseShape'
    BY <1>1, <2>1, <2>2 DEF HookShape, LeaseShape
  <2>4. QED
    BY <2>1, <2>2, <2>3, OthersTrace
<1>5. CASE TurnEndHook
  <2>1. \A m \in Msg : row'[m] = row[m] \/ (row[m] = "injected" /\ row'[m] = "echo_consumed")
    BY <1>5, MovedRows, PhaseNames DEF TurnEndHook, TurnEnds, Typed
  <2>2. UNCHANGED <<run, lease, hook, handoff, shown, dropped>>
    BY <1>5 DEF TurnEndHook, history
  <2>3. HookShape' /\ LeaseShape'
    BY <1>1, <2>2 DEF HookShape, LeaseShape
  <2>4. QED
    BY <2>1, <2>2, <2>3, OthersTrace DEF Confirmed
<1>6. CASE HookClaim
  <2>1. \A m \in Msg : row'[m] = IF row[m] = "pending" THEN "delivered" ELSE row[m]
    BY <1>6, MovedRows, PhaseNames DEF HookClaim, Typed
  <2>2. /\ hook'.phase = "context" /\ hook'.prompt = hook.prompt
        /\ hook'.got = {m \in Msg : row[m] = "pending"} /\ hook.got = {}
    BY <1>1, <1>6 DEF HookClaim, HookShape, In, Typed, Hooks
  <2>3. \A m \in Msg : handoff'[m] = handoff[m] \/ (row[m] = "pending" /\ handoff'[m] = "staged")
    BY <1>6, StagedHandoffs DEF HookClaim, In, Typed
  <2>4. UNCHANGED <<run, lease, shown, dropped>>
    BY <1>6 DEF HookClaim
  <2>5. HookShape' /\ LeaseShape'
    BY <1>1, <2>2, <2>4 DEF HookShape, LeaseShape
  <2>6. QED
    BY <2>1, <2>2, <2>3, <2>4, <2>5, OthersTrace DEF Confirmed
<1>7. CASE HookContext \/ HookFails
  <2>1. /\ hook'.phase = "idle" /\ hook'.prompt = {} /\ hook'.got = {}
        /\ hook.got \subseteq shown' \union dropped' /\ shown \subseteq shown' /\ dropped \subseteq dropped'
        /\ UNCHANGED <<run, lease, row>>
    BY <1>7 DEF HookContext, HookFails, IdleHook
  <2>2. \A m \in Msg : handoff'[m] = handoff[m] \/ handoff[m] = "staged"
    BY <1>7, PublishTakes DEF HookContext, HookFails, Typed
  <2>3. transport = "pty" => \A m \in Msg : handoff[m] = "staged" => m \in shown' \union dropped'
    BY <2>1 DEF Traced, SeenOnPty
  <2>4. HookShape' /\ LeaseShape'
    BY <1>1, <2>1 DEF HookShape, LeaseShape
  <2>5. QED
    BY <2>1, <2>2, <2>3, <2>4, OthersTrace
<1>8. QED
  BY <1>2, <1>3, <1>4, <1>5, <1>6, <1>7 DEF Hook

\* A lease that ends: its leased rows are pending, or confirmed and shown, or
\* given up.
LEMMA LeaseTraced ==
  ASSUME Typed, Typed', Traced, UNCHANGED <<transport, run, hook>>, NEW l \in Lease,
         lease'[l] = FreeLease, \A k \in Lease \ {l} : lease'[k] = lease[k],
         shown \subseteq shown', dropped \subseteq dropped',
         \A m \in Msg :
           \/ row'[m] = row[m] /\ (m \in lease[l].rows => row[m] # "leased" \/ m \in dropped')
           \/ row'[m] = "pending"
           \/ m \in shown',
         \A m \in Msg : row'[m] = row[m] \/ row'[m] = "pending" \/ m \in shown,
         \A m \in Msg : handoff'[m] = handoff[m] \/ m \in shown
  PROVE  Traced'
<1>1. lease'[l].phase = "free" /\ lease'[l].rows = {}
  BY DEF FreeLease
<1>2. HookShape' /\ LeaseShape'
  BY <1>1 DEF Traced, Shapes, HookShape, LeaseShape
<1>3. \A m \in Msg :
        \/ row'[m] \in Resting \/ m \in shown' \/ m \in dropped'
        \/ /\ row'[m] = row[m]
           /\ row[m] = "leased" => \A k \in Lease : m \in lease[k].rows => m \in lease'[k].rows
  BY <1>1 DEF Resting
<1>4. \A m \in Msg : row'[m] \in Confirmed => row[m] \in Confirmed \/ m \in shown'
  BY DEF Confirmed
<1>5. QED
  BY <1>2, <1>3, <1>4, OthersTrace

LEMMA ExtensionTraced ==
  ASSUME Typed, Typed', Traced, UNCHANGED transport, NEW l \in Lease, Extension(l)
  PROVE  Traced'
<1> USE RowsNamed
<1>1. HookShape /\ LeaseShape
  BY DEF Traced, Shapes
<1>2. CASE WaitLeases(l)
  <2>1. \A m \in Msg : row'[m] = IF row[m] = "pending" THEN "leased" ELSE row[m]
    BY <1>2, MovedRows, PhaseNames DEF WaitLeases, Typed
  <2>2. /\ lease'[l].rows = {m \in Msg : row[m] = "pending"} /\ lease'[l].phase = "rendering"
        /\ \A k \in Lease \ {l} : lease'[k] = lease[k]
        /\ lease[l].rows = {}
    BY <1>1, <1>2 DEF WaitLeases, In, Typed, Leases, LeaseShape
  <2>3. UNCHANGED <<run, hook, handoff, shown, dropped>>
    BY <1>2 DEF WaitLeases, history
  <2>4. HookShape' /\ LeaseShape'
    BY <1>1, <2>2, <2>3 DEF HookShape, LeaseShape
  <2>5. QED
    BY <2>1, <2>2, <2>3, <2>4, OthersTrace DEF Confirmed
<1>3. CASE Offer(l) \/ Accept(l) \/ TakeLease(l)
  <2>1. /\ lease'[l].rows = lease[l].rows /\ lease'[l].phase # "free"
        /\ lease'[l].phase \in {"accepted", "acked"} => lease[l].rows \subseteq shown'
        /\ \A k \in Lease \ {l} : lease'[k] = lease[k]
        /\ shown \subseteq shown'
    BY <1>1, <1>3 DEF Offer, Accept, TakeLease, history, Typed, Leases, LeaseShape
  <2>2. UNCHANGED <<row, run, hook, handoff, dropped>>
    BY <1>3 DEF Offer, Accept, TakeLease, history
  <2>3. HookShape' /\ LeaseShape'
    BY <1>1, <2>1, <2>2 DEF HookShape, LeaseShape
  <2>4. QED
    BY <2>1, <2>2, <2>3, OthersTrace
<1>4. CASE WaitRendersNothing(l) \/ Decline(l) \/ Expire(l)
  <2>1. ReleaseLease(l) /\ UNCHANGED <<run, hook, handoff, shown, dropped>>
    BY <1>4 DEF WaitRendersNothing, Decline, Expire, history
  <2>2. QED
    BY <2>1, LeaseReleases, LeaseTraced
<1>5. CASE Acknowledge(l)
  <2> DEFINE mine == {m \in lease[l].rows : row[m] = "leased"}
  <2>1. lease[l].rows \subseteq shown /\ UNCHANGED <<run, hook, shown, dropped>>
    BY <1>1, <1>5 DEF Acknowledge, LeaseShape
  <2>2. \A m \in Msg : row'[m] = IF m \in mine THEN "injected" ELSE row[m]
    BY <1>5, MovedRows, PhaseNames DEF Acknowledge, Typed
  <2>3. Publish(Staged(mine), mine) \/ handoff' = Staged(mine)
    BY <1>5 DEF Acknowledge
  <2>4. \A m \in Msg : handoff'[m] = handoff[m] \/ m \in mine
    BY <2>3, PublishTakes, StagedHandoffs DEF Typed
  <2>5. lease'[l] = FreeLease /\ \A k \in Lease \ {l} : lease'[k] = lease[k]
    BY <1>5 DEF Acknowledge, Typed, Leases
  <2>6. QED
    BY <2>1, <2>2, <2>4, <2>5, LeaseTraced
<1>6. CASE LeaseFails(l)
  <2>1. lease'[l] = FreeLease /\ \A k \in Lease \ {l} : lease'[k] = lease[k]
    BY <1>6 DEF LeaseFails, Typed, Leases
  <2>2. QED
    BY <1>6, <2>1, LeaseTraced DEF LeaseFails
<1>7. QED
  BY <1>2, <1>3, <1>4, <1>5, <1>6 DEF Extension

\* A crash: every carrier is gone and what it held is given up or pending.
LEMMA Restarted ==
  ASSUME Typed, Crash
  PROVE  /\ \A m \in Msg : row'[m] = IF row[m] = "leased" THEN "pending" ELSE row[m]
         /\ \A r \in Run : run'[r].phase = "idle" /\ run'[r].mine = {}
         /\ \A l \in Lease : lease'[l].phase = "free" /\ lease'[l].rows = {}
         /\ hook'.phase = "idle" /\ hook'.prompt = {} /\ hook'.got = {}
         /\ UNCHANGED <<handoff, shown>> /\ dropped \subseteq dropped'
         /\ hook.got \subseteq dropped' /\ \A r \in Run : run[r].mine \subseteq dropped'
<1>1. \A m \in Msg : row'[m] = IF row[m] = "leased" THEN "pending" ELSE row[m]
  BY MovedRows, PhaseNames DEF Crash, Typed
<1>2. hook.got \subseteq InFlight /\ \A r \in Run : run[r].mine \subseteq InFlight
  BY DEF InFlight
<1>3. QED
  BY <1>1, <1>2 DEF Crash, IdleRun, FreeLease, IdleHook

LEMMA CrashTraced ==
  ASSUME Typed, Typed', Traced, UNCHANGED transport, Crash
  PROVE  Traced'
<1>1. Shapes'
  BY Restarted DEF Shapes, RunShape, HookShape, LeaseShape, Rpc, Turning
<1>2. Located'
  BY Restarted DEF Traced, Located, Resting, Confirmed
<1>3. SeenOnPty'
  BY Restarted DEF Traced, SeenOnPty, Confirmed
<1>4. QED
  BY <1>1, <1>2, <1>3 DEF Traced

LEMMA StepTraced == Typed /\ Typed' /\ Traced /\ [Next]_<<vars, transport>> => Traced'
<1> SUFFICES ASSUME Typed, Typed', Traced, [Next]_<<vars, transport>> PROVE Traced'
  OBVIOUS
<1>1. HookShape /\ LeaseShape
  BY DEF Traced, Shapes
<1>2. ASSUME UNCHANGED transport, NEW m \in Msg, Park(m) \/ StaleSubmission(m) PROVE Traced'
  <2>1. \A n \in Msg : row'[n] = row[n] \/ row'[n] \in Resting
    BY <1>2, MovedRows, PhaseNames DEF Park, StaleSubmission, Typed, Rows, Resting
  <2>2. UNCHANGED <<run, lease, hook, handoff, shown, dropped>>
    BY <1>2 DEF Park, StaleSubmission, history
  <2>3. HookShape' /\ LeaseShape' /\ \A n \in Msg : row'[n] \in Confirmed => row[n] \in Confirmed
    BY <1>1, <2>1, <2>2 DEF HookShape, LeaseShape, Resting, Confirmed
  <2>4. QED
    BY <1>2, <2>1, <2>2, <2>3, OthersTrace
<1>3. ASSUME UNCHANGED <<transport, row, run, lease, hook, handoff, shown, dropped>> PROVE Traced'
  <2>1. HookShape' /\ LeaseShape'
    BY <1>1, <1>3 DEF HookShape, LeaseShape
  <2>2. QED
    BY <1>3, <2>1, OthersTrace
<1>4. CASE UNCHANGED transport /\ (GoQuiet \/ LoseInput)
  BY <1>3, <1>4 DEF GoQuiet, LoseInput, history
<1>5. CASE UNCHANGED <<vars, transport>>
  BY <1>3, <1>5 DEF vars
<1>6. QED
  BY <1>2, <1>4, <1>5, InjectorTraced, HookTraced, ExtensionTraced, CrashTraced DEF Next

LEMMA InitTraced == Init => Traced
<1> SUFFICES ASSUME Init PROVE Traced
  OBVIOUS
<1>1. \A r \in Run : /\ run[r].mine = {} /\ run[r].phase # "claimed"
                     /\ run[r].phase = "idle" \/ transport # "pty"
  BY DEF Init, IdleRun, Spawning
<1>2. Shapes
  BY <1>1 DEF Init, Shapes, RunShape, HookShape, LeaseShape, IdleHook, FreeLease, Rpc, Turning
<1>3. Located /\ SeenOnPty
  BY DEF Init, Located, SeenOnPty, Resting, Confirmed
<1>4. QED
  BY <1>2, <1>3 DEF Traced

----------------------------------------------------------------------------
(* One carrier *)

\* An injector that moves on with the rows it has, or drops them.
LEMMA InjectorOwns ==
  ASSUME Typed, Typed', Owned, UNCHANGED <<lease, hook>>, NEW r \in Run,
         \A q \in Run \ {r} : run'[q] = run[q],
         run'[r].mine = run[r].mine \/ run'[r].mine = {},
         \A m \in run'[r].mine :
           /\ row'[m] \in Claimed
           /\ run'[r].phase \in Writing => row'[m] = "delivered",
         \A m \in Msg \ run[r].mine : row'[m] = row[m] \/ (row[m] = "injected" /\ row'[m] = "echo_consumed")
  PROVE  Owned'
<1>1. \A m \in run[r].mine : /\ m \notin hook.got
                             /\ \A q \in Run \ {r} : m \notin run[q].mine
                             /\ \A l \in Lease : m \notin lease[l].rows
  BY DEF Owned, RunOwned, LeaseOwned, Claimed, Confirmed
<1>2. RunOwned'
  BY <1>1, RowsNamed DEF Owned, RunOwned, Claimed, Confirmed
<1>3. HookOwned' /\ LeaseOwned'
  BY <1>1, RowsNamed DEF Owned, HookOwned, LeaseOwned
<1>4. QED
  BY <1>2, <1>3 DEF Owned

LEMMA InjectorOwned ==
  ASSUME Typed, Typed', Traced, Owned, ~RenderFails, NEW r \in Run, Injector(r)
  PROVE  Owned'
<1> USE RowsNamed
<1>1. /\ run[r].phase \in {"idle", "planned"} => run[r].mine = {}
      /\ \A m \in run[r].mine : row[m] \in Claimed /\ (run[r].phase \in Writing => row[m] = "delivered")
  BY DEF Traced, Shapes, RunShape, Owned, RunOwned
<1>2. CASE Plan(r)
  <2>1. (\A q \in Run \ {r} : run'[q] = run[q]) /\ run'[r].mine = {}
    BY <1>2 DEF Plan, Typed, Runs
  <2>2. QED
    BY <1>2, <2>1, InjectorOwns DEF Plan
<1>3. CASE AbandonPlan(r) \/ DeliverFails(r) \/ FinalizeSubmitted(r)
  <2>1. EndRun(r) /\ UNCHANGED <<lease, hook>>
    BY <1>3 DEF AbandonPlan, DeliverFails, FinalizeSubmitted
  <2>2. \A m \in Msg \ run[r].mine : row'[m] = row[m]
    BY <1>3, RolledBack, MovedRows, PhaseNames DEF AbandonPlan, DeliverFails, FinalizeSubmitted, Typed
  <2>3. QED
    BY <2>1, <2>2, RunEnds, InjectorOwns DEF Typed
<1>4. CASE Paste(r) \/ Deliver(r)
  <2>1. /\ (\A q \in Run \ {r} : run'[q] = run[q]) /\ run'[r].mine = run[r].mine
        /\ run[r].phase \in Writing /\ UNCHANGED <<row, lease, hook>>
    BY <1>4, RunAdvances, PhaseNames DEF Paste, Deliver, Typed, Writing
  <2>2. QED
    BY <1>1, <2>1, InjectorOwns
<1>5. CASE FinalizeInjected(r)
  <2>1. /\ \A m \in Msg \ run[r].mine : row'[m] = row[m]
        /\ \A m \in run[r].mine : row'[m] = "injected"
    BY <1>1, <1>5, MovedRows, PhaseNames DEF FinalizeInjected, Typed, Writing
  <2>2. /\ run'[r].phase \in {"starting", "steering"} /\ run'[r].mine = run[r].mine
        /\ (\A q \in Run \ {r} : run'[q] = run[q]) /\ UNCHANGED <<lease, hook>>
    BY <1>5, RunAdvances, PhaseNames DEF FinalizeInjected, Typed
  <2>3. QED
    BY <2>1, <2>2, InjectorOwns DEF Claimed, Confirmed, Writing
<1>6. CASE FinalizeFails(r) \/ StartTurn(r) \/ TrackFails(r)
  <2>1. /\ \A q \in Run \ {r} : run'[q] = run[q]
        /\ \/ run'[r].phase \in {"turn", "untracked"} /\ run'[r].mine = run[r].mine
           \/ run'[r].mine = {}
    BY <1>6, RunAdvances, RunEnds, PhaseNames DEF FinalizeFails, StartTurn, TrackFails, Typed
  <2>2. UNCHANGED <<row, lease, hook>>
    BY <1>6 DEF FinalizeFails, StartTurn, TrackFails
  <2>3. QED
    BY <1>1, <2>1, <2>2, InjectorOwns DEF Writing
<1>7. CASE EndTurn(r) \/ EndUntracked(r) \/ EndSteer(r)
  <2>1. /\ \A q \in Run \ {r} : run'[q] = run[q]
        /\ run'[r].mine = {} /\ UNCHANGED <<lease, hook>>
    BY <1>7, RunEnds DEF EndTurn, EndUntracked, EndSteer, Typed
  <2>2. \A m \in Msg : row'[m] = row[m] \/ (row[m] = "injected" /\ row'[m] = "echo_consumed")
    BY <1>7, MovedRows, PhaseNames DEF EndTurn, EndUntracked, EndSteer, TurnEnds, Typed
  <2>3. QED
    BY <2>1, <2>2, InjectorOwns
<1>8. CASE ClaimPlanned(r)
  <2> DEFINE mine == run[r].plan \intersect In("pending")
  <2>1. \A m \in Msg : row'[m] = IF m \in mine THEN "delivered" ELSE row[m]
    BY <1>8, MovedRows, PhaseNames DEF ClaimPlanned, In, Typed
  <2>2. /\ \A q \in Run \ {r} : run'[q] = run[q]
        /\ run'[r].mine = mine
    BY <1>8, ClaimRuns
  <2>3. \A m \in mine : m \in Msg /\ row[m] = "pending"
    BY DEF In
  <2> HIDE DEF mine
  <2>4. /\ \A q \in Run : run[q].mine \intersect mine = {}
        /\ hook.got \intersect mine = {} /\ \A l \in Lease : lease[l].rows \intersect mine = {}
    BY <2>3 DEF Owned, RunOwned, HookOwned, LeaseOwned, Claimed, Confirmed
  <2>5. UNCHANGED <<lease, hook>>
    BY <1>8 DEF ClaimPlanned
  <2>6. RunOwned'
    BY <2>1, <2>2, <2>3, <2>4, <2>5 DEF Owned, RunOwned, Claimed, Confirmed, Writing
  <2>7. HookOwned' /\ LeaseOwned'
    BY <2>1, <2>4, <2>5 DEF Owned, HookOwned, LeaseOwned
  <2>8. QED
    BY <2>6, <2>7 DEF Owned
<1>9. QED
  BY <1>2, <1>3, <1>4, <1>5, <1>6, <1>7, <1>8 DEF Injector, RenderNothing

\* A step that keeps every carrier, or drops rows from one, and moves only rows
\* that nobody carries.
LEMMA CarriersKept ==
  ASSUME Typed, Typed', Owned, UNCHANGED run, hook'.got \subseteq hook.got,
         \A l \in Lease : lease'[l].rows \subseteq lease[l].rows,
         \A m \in Msg :
           \/ row'[m] = row[m]
           \/ row[m] \in Resting
           \/ row[m] = "leased" /\ \A l \in Lease : m \notin lease'[l].rows
           \/ row[m] = "injected" /\ row'[m] = "echo_consumed"
  PROVE  Owned'
<1>1. RunOwned'
  BY RowsNamed DEF Owned, RunOwned, Claimed, Confirmed, Resting
<1>2. HookOwned' /\ LeaseOwned'
  BY RowsNamed DEF Owned, HookOwned, LeaseOwned, Resting
<1>3. QED
  BY <1>1, <1>2 DEF Owned

LEMMA HookOwnedKept ==
  ASSUME Typed, Typed', Traced, Owned, Hook
  PROVE  Owned'
<1> USE RowsNamed
<1>1. hook.phase # "context" => hook.got = {}
  BY DEF Traced, Shapes, HookShape
<1>2. CASE ConfirmPrompt
  <2>1. hook'.got = hook.got /\ \A m \in Msg : row'[m] = row[m] \/ row[m] = "submitted"
    BY <1>2 DEF ConfirmPrompt, In, Typed, Hooks
  <2>2. QED
    BY <1>2, <2>1, CarriersKept DEF ConfirmPrompt, Resting
<1>3. CASE TurnEndHook
  <2>1. \A m \in Msg : row'[m] = row[m] \/ (row[m] = "injected" /\ row'[m] = "echo_consumed")
    BY <1>3, MovedRows, PhaseNames DEF TurnEndHook, TurnEnds, Typed
  <2>2. QED
    BY <1>3, <2>1, CarriersKept DEF TurnEndHook
<1>4. CASE PromptHook \/ SkipConfirm \/ CheckHook \/ HookContext \/ HookFails
  <2>1. hook'.got \subseteq hook.got
    BY <1>1, <1>4 DEF PromptHook, SkipConfirm, CheckHook, HookContext, HookFails, IdleHook, Typed, Hooks
  <2>2. UNCHANGED <<row, run, lease>>
    BY <1>4 DEF PromptHook, SkipConfirm, CheckHook, HookContext, HookFails
  <2>3. QED
    BY <2>1, <2>2, CarriersKept
<1>5. CASE HookClaim
  <2>1. \A m \in Msg : row'[m] = IF row[m] = "pending" THEN "delivered" ELSE row[m]
    BY <1>5, MovedRows, PhaseNames DEF HookClaim, Typed
  <2>2. hook'.got = {m \in Msg : row[m] = "pending"} /\ UNCHANGED <<run, lease>>
    BY <1>5 DEF HookClaim, In, Typed, Hooks
  <2>3. RunOwned'
    BY <2>1, <2>2 DEF Owned, RunOwned, Claimed, Confirmed
  <2>4. HookOwned' /\ LeaseOwned'
    BY <2>1, <2>2 DEF Owned, LeaseOwned, HookOwned
  <2>5. QED
    BY <2>3, <2>4 DEF Owned
<1>6. QED
  BY <1>2, <1>3, <1>4, <1>5 DEF Hook

LEMMA ExtensionOwned ==
  ASSUME Typed, Typed', Traced, Owned, NEW l \in Lease, Extension(l)
  PROVE  Owned'
<1> USE RowsNamed
<1>1. CASE WaitLeases(l)
  <2>1. \A m \in Msg : row'[m] = IF row[m] = "pending" THEN "leased" ELSE row[m]
    BY <1>1, MovedRows, PhaseNames DEF WaitLeases, Typed
  <2>2. /\ lease'[l].rows = {m \in Msg : row[m] = "pending"}
        /\ \A k \in Lease \ {l} : lease'[k] = lease[k]
        /\ UNCHANGED <<run, hook>>
    BY <1>1 DEF WaitLeases, In, Typed, Leases
  <2>3. RunOwned' /\ HookOwned'
    BY <2>1, <2>2 DEF Owned, RunOwned, HookOwned, Claimed, Confirmed
  <2>4. LeaseOwned'
    BY <2>1, <2>2 DEF Owned, LeaseOwned
  <2>5. QED
    BY <2>3, <2>4 DEF Owned
<1>2. CASE Offer(l) \/ Accept(l) \/ TakeLease(l)
  <2>1. \A k \in Lease : lease'[k].rows = lease[k].rows
    BY <1>2 DEF Offer, Accept, TakeLease, Typed, Leases
  <2>2. UNCHANGED <<row, run, hook>>
    BY <1>2 DEF Offer, Accept, TakeLease
  <2>3. QED
    BY <2>1, <2>2, CarriersKept
<1>3. CASE WaitRendersNothing(l) \/ Decline(l) \/ Expire(l) \/ Acknowledge(l) \/ LeaseFails(l)
  <2>1. lease'[l] = FreeLease /\ \A k \in Lease \ {l} : lease'[k] = lease[k]
    BY <1>3, LeaseReleases DEF WaitRendersNothing, Decline, Expire, Acknowledge, LeaseFails, Typed, Leases
  <2>2. lease'[l].rows = {}
    BY <2>1 DEF FreeLease
  <2>3. \A m \in Msg : row'[m] = row[m] \/ (row[m] = "leased" /\ m \in lease[l].rows)
    BY <1>3, LeaseReleases, MovedRows, PhaseNames
    DEF WaitRendersNothing, Decline, Expire, Acknowledge, LeaseFails, Typed
  <2>4. \A m \in lease[l].rows : \A k \in Lease \ {l} : m \notin lease[k].rows
    BY DEF Owned, LeaseOwned
  <2>5. UNCHANGED <<run, hook>>
    BY <1>3 DEF WaitRendersNothing, Decline, Expire, Acknowledge, LeaseFails
  <2>6. QED
    BY <2>1, <2>2, <2>3, <2>4, <2>5, CarriersKept
<1>4. QED
  BY <1>1, <1>2, <1>3 DEF Extension

LEMMA StepOwned ==
  ~RenderFails /\ Typed /\ Typed' /\ Traced /\ Owned /\ [Next]_<<vars, transport>> => Owned'
<1> SUFFICES ASSUME ~RenderFails, Typed, Typed', Traced, Owned, [Next]_<<vars, transport>> PROVE Owned'
  OBVIOUS
<1>1. ASSUME NEW m \in Msg, Park(m) \/ StaleSubmission(m) PROVE Owned'
  <2>1. \A n \in Msg : row'[n] = row[n] \/ row[n] \in Resting
    BY <1>1, MovedRows, PhaseNames DEF Park, StaleSubmission, Typed, Rows, Resting
  <2>2. QED
    BY <1>1, <2>1, CarriersKept DEF Park, StaleSubmission
<1>2. CASE GoQuiet \/ LoseInput \/ UNCHANGED <<vars, transport>>
  BY <1>2, CarriersKept DEF GoQuiet, LoseInput, vars
<1>3. CASE Crash
  BY <1>3, Restarted DEF Owned, RunOwned, HookOwned, LeaseOwned
<1>4. QED
  BY <1>1, <1>2, <1>3, InjectorOwned, HookOwnedKept, ExtensionOwned DEF Next

LEMMA InitOwned == Init => Owned
BY DEF Init, Owned, RunOwned, HookOwned, LeaseOwned, IdleRun, Spawning, IdleHook, FreeLease

----------------------------------------------------------------------------
(* What a step does to confirmed and to leased rows *)

EndsItsLease(m) ==
  /\ \E l \in Lease : m \in lease[l].rows
  /\ \A l \in Lease : m \in lease[l].rows => lease'[l] = FreeLease

RowsKept ==
  \A m \in Msg : /\ row[m] \in Confirmed => row'[m] \in Confirmed
                 /\ row[m] = "leased" /\ row'[m] # "leased" => EndsItsLease(m) \/ Crash

LEMMA InjectorRowsKept ==
  ASSUME Typed, Owned, ~RenderFails, NEW r \in Run, Injector(r)
  PROVE  RowsKept
<1> SUFFICES ASSUME NEW m \in Msg
             PROVE  /\ row[m] \in Confirmed => row'[m] \in Confirmed
                    /\ row[m] = "leased" => row'[m] = "leased"
  BY DEF RowsKept
<1>1. CASE ClaimPlanned(r)
  BY <1>1, MovedRows, PhaseNames DEF ClaimPlanned, Typed, Confirmed
<1>2. CASE DeliverFails(r)
  <2>1. m \in run[r].mine => row[m] = "delivered"
    BY <1>2 DEF DeliverFails, Owned, RunOwned, Writing
  <2>2. m \notin run[r].mine => row'[m] = row[m]
    BY <1>2, RolledBack, RowsNamed DEF DeliverFails
  <2>3. QED
    BY <2>1, <2>2 DEF Confirmed
<1>3. CASE FinalizeSubmitted(r) \/ FinalizeInjected(r)
  BY <1>3, MovedRows, PhaseNames DEF FinalizeSubmitted, FinalizeInjected, Typed, Confirmed
<1>4. CASE EndTurn(r)
  BY <1>4, MovedRows, PhaseNames DEF EndTurn, TurnEnds, Typed, Confirmed
<1>5. CASE ~(ClaimPlanned(r) \/ DeliverFails(r) \/ FinalizeSubmitted(r) \/ FinalizeInjected(r) \/ EndTurn(r))
  <2>1. UNCHANGED row
    BY <1>5 DEF Injector, Plan, AbandonPlan, RenderNothing, Paste, Deliver, FinalizeFails, StartTurn,
       TrackFails, EndUntracked, EndSteer
  <2>2. QED
    BY <2>1
<1>6. QED
  BY <1>1, <1>2, <1>3, <1>4, <1>5

LEMMA StepRowsKept ==
  ASSUME Typed, Owned, ~RenderFails, [Next]_<<vars, transport>>
  PROVE  RowsKept
<1>1. CASE Hook
  <2> SUFFICES ASSUME NEW m \in Msg
               PROVE  /\ row[m] \in Confirmed => row'[m] \in Confirmed
                      /\ row[m] = "leased" => row'[m] = "leased"
    BY DEF RowsKept
  <2>1. CASE HookClaim \/ TurnEndHook
    BY <2>1, MovedRows, PhaseNames DEF HookClaim, TurnEndHook, TurnEnds, Typed, Confirmed
  <2>2. CASE ConfirmPrompt
    BY <2>2 DEF ConfirmPrompt, In, Confirmed
  <2>3. CASE ~(HookClaim \/ TurnEndHook \/ ConfirmPrompt)
    <3>1. UNCHANGED row
      BY <1>1, <2>3 DEF Hook, PromptHook, SkipConfirm, CheckHook, HookContext, HookFails
    <3>2. QED
      BY <3>1
  <2>4. QED
    BY <2>1, <2>2, <2>3
<1>2. ASSUME NEW l \in Lease, Extension(l) PROVE RowsKept
  <2>1. CASE WaitLeases(l)
    BY <2>1, MovedRows, PhaseNames DEF WaitLeases, Typed, Confirmed, RowsKept
  <2>2. CASE WaitRendersNothing(l) \/ Decline(l) \/ Expire(l) \/ Acknowledge(l)
    <3>1. lease'[l] = FreeLease
      BY <2>2, LeaseReleases DEF WaitRendersNothing, Decline, Expire, Acknowledge, Typed, Leases
    <3>2. \A m \in Msg : row'[m] = row[m] \/ (row[m] = "leased" /\ m \in lease[l].rows)
      BY <2>2, LeaseReleases, MovedRows, PhaseNames
      DEF WaitRendersNothing, Decline, Expire, Acknowledge, Typed
    <3>3. \A m \in lease[l].rows : \A k \in Lease : m \in lease[k].rows => k = l
      BY DEF Owned, LeaseOwned
    <3>4. QED
      BY <3>1, <3>2, <3>3 DEF RowsKept, EndsItsLease, Confirmed
  <2>3. CASE Offer(l) \/ Accept(l) \/ TakeLease(l) \/ LeaseFails(l)
    BY <2>3 DEF Offer, Accept, TakeLease, LeaseFails, RowsKept
  <2>4. QED
    BY <1>2, <2>1, <2>2, <2>3 DEF Extension
<1>3. CASE Crash
  BY <1>3, Restarted DEF RowsKept, Confirmed
<1>4. ASSUME NEW m \in Msg, Park(m) \/ StaleSubmission(m) PROVE RowsKept
  BY <1>4, MovedRows, PhaseNames DEF Park, StaleSubmission, Typed, Rows, RowsKept, Confirmed
<1>5. CASE GoQuiet \/ LoseInput \/ UNCHANGED <<vars, transport>>
  BY <1>5 DEF GoQuiet, LoseInput, vars, RowsKept
<1>6. QED
  BY <1>1, <1>2, <1>3, <1>4, <1>5, InjectorRowsKept DEF Next

----------------------------------------------------------------------------
(* The theorems *)

\* Whatever injectors, hooks, leases, timers and crashes do, the store call of
\* each of them leaves a state of the table, and no carrier names a row that is
\* no message.
THEOREM TypeCorrect == Spec => []TypeOK
<1>1. Spec => []Typed
  BY InitTyped, StepTyped, PTL DEF Spec
<1>2. QED
  BY <1>1, TypedIsTypeOK, PTL

\* The reaction to a message is published at most once, also when a prompt
\* cannot be rendered, a delivery is rolled back or the daemon restarts: a
\* published handoff is taken in the same call and staged by INSERT OR IGNORE
\* (take_work_start_claims_for_events, stage_from_inbox_tx).
THEOREM ReactedOnce == Spec => []ReactionOnce
<1>1. Spec => [](Typed /\ Reactions)
  BY InitTyped, InitReacts, StepTyped, StepReacts, PTL DEF Spec
<1>2. Reactions => ReactionOnce
  BY DEF Reactions, ReactionOnce
<1>3. QED
  BY <1>1, <1>2, PTL

\* Who answers for a row, whether or not prompts can be rendered.
LEMMA AlwaysTraced == Spec => [](Typed /\ Traced)
<1>1. Init => Typed /\ Traced
  BY InitTyped, InitTraced
<1>2. Typed /\ Traced /\ [Next]_<<vars, transport>> => (Typed /\ Traced)'
  BY StepTyped, StepTraced
<1>3. QED
  BY <1>1, <1>2, PTL DEF Spec

\* A message is pending or submitted, carried, shown, or given up in one of the
\* ways the code knows of (reenqueue_after_failure, finish_lifecycle, the startup
\* recovery of leased rows).  An unrenderable prompt, which gives back rows that
\* others carry, makes them come twice and loses none.
THEOREM NothingLost == Spec => []NothingForgotten
<1>1. Typed /\ Traced => NothingForgotten
  BY DEF Traced, Located, Resting, Writing, Turning, NothingForgotten, Carried, Injects
<1>2. QED
  BY <1>1, AlwaysTraced, PTL

\* "PTY write success is not confirmation" (state/inbox.rs): on a PTY a row is
\* injected or echo_consumed only for what the agent was shown, by the prompt
\* that confirms it or by the extension whose lease it was
\* (confirm_submitted_from_prompt, acknowledge_extension_lease).
THEOREM SeenFirst == Spec => []InjectedWasSeen
<1>1. Typed /\ Traced => InjectedWasSeen
  BY DEF Traced, SeenOnPty, Confirmed, InjectedWasSeen
<1>2. QED
  BY <1>1, AlwaysTraced, PTL

\* On a PTY a reaction is published only for what the agent was shown, or what
\* was given up after its work-start was staged (publish_for_started_turn).
THEOREM ReactedToSeen == Spec => []ReactionOfSeen
<1>1. Spec => [](Typed /\ Reactions)
  BY InitTyped, InitReacts, StepTyped, StepReacts, PTL DEF Spec
<1>2. Typed /\ Traced /\ Reactions => ReactionOfSeen
  BY DEF Traced, SeenOnPty, Typed, Handoffs, Reactions, ReactionOfSeen
<1>3. QED
  BY <1>1, <1>2, AlwaysTraced, PTL

\* The strengthened invariant, where every prompt can be rendered.
THEOREM InductiveInvariant == ASSUME ~RenderFails PROVE Spec => []IInv
<1> DEFINE Inv == Typed /\ Traced /\ Owned
<1>1. Init => Inv
  BY InitTyped, InitTraced, InitOwned
<1>2. Inv /\ [Next]_<<vars, transport>> => Inv'
  BY StepTyped, StepTraced, StepOwned
<1>3. Inv => IInv
  BY TypedIsTypeOK DEF IInv
<1>4. QED
  BY <1>1, <1>2, <1>3, PTL DEF Spec

\* "The FIRST caller - the direct injection path or a hook - wins"
\* (state/inbox/delivery.rs): a row has one carrier of all, and its state says of
\* which kind, because a claim takes pending rows only and whoever gives a row
\* back (reenqueue_pending names rows without asking for their state) had it.
THEOREM OneCarrier == ASSUME ~RenderFails PROVE Spec => []ClaimExclusive
<1>1. IInv => ClaimExclusive
  BY DEF IInv, Owned, RunOwned, HookOwned, LeaseOwned, Writing, ClaimExclusive
<1>2. QED
  BY <1>1, InductiveInvariant, PTL

\* A confirmed prompt is final: rollbacks, timers, hooks and leases find the row
\* in none of the states they move (reenqueue_after_failure names its own rows).
THEOREM ConfirmedIsFinal == ASSUME ~RenderFails PROVE Spec => InjectedIsFinal
<1> DEFINE A == \A m \in Msg : row[m] \in {"injected", "echo_consumed"}
                                 => row'[m] \in {"injected", "echo_consumed"}
<1>1. IInv /\ [Next]_<<vars, transport>> => [A]_vars
  BY StepRowsKept, TypedIsTypeOK DEF IInv, RowsKept, Confirmed
<1>2. Spec => [][A]_vars
  BY <1>1, InductiveInvariant, PTL DEF Spec
<1>3. QED
  BY <1>2 DEF InjectedIsFinal

\* "An expired token must never roll back a different, newer lease for the same
\* recipient" (extension_delivery.rs): a leased row is released with the lease
\* that names it and with no other, because no two leases name it; a lease whose
\* release failed leaves its rows to the next restart (lifecycle/reconcile.rs).
THEOREM TokensEndTheirLease == ASSUME ~RenderFails PROVE Spec => LeaseEndsByItsToken
<1> DEFINE A == \A m \in Msg : row[m] = "leased" /\ row'[m] # "leased"
                 => \/ /\ \E l \in Lease : m \in lease[l].rows
                       /\ \A l \in Lease : m \in lease[l].rows => lease'[l] = FreeLease
                    \/ Crash
<1>1. IInv /\ [Next]_<<vars, transport>> => [A]_vars
  BY StepRowsKept, TypedIsTypeOK DEF IInv, RowsKept, EndsItsLease
<1>2. Spec => [][A]_vars
  BY <1>1, InductiveInvariant, PTL DEF Spec
<1>3. QED
  BY <1>2 DEF LeaseEndsByItsToken
=============================================================================
