-------------------------- MODULE ChannelStanding --------------------------
(***************************************************************************)
(* One session's membership of one channel: the daemon's records of it      *)
(* (StandingStore), the relay's roster, the decoded group view that follows *)
(* the roster, and the tasks that move them: launches, joins, repairs,      *)
(* leaves, cleanups and forgets.                                            *)
(*                                                                         *)
(* Every relay mutation is made under one lane (standing_sync), which is    *)
(* held across the relay's answer; the runtime's own transitions (stop,     *)
(* reservation of a generation) take no lane.  A task works with what it    *)
(* read before it waited for the lane and checks again once it holds it.    *)
(* The relay may refuse a mutation, or apply it and lose the answer.        *)
(***************************************************************************)
EXTENDS StandingStore

CONSTANTS
  Task,        \* slots for requests and background admissions
  Standing,    \* the standing coordinator, one sequential task (not in Task)
  NoTask,      \* nobody holds the lane
  MaxRevoked,  \* bound: standing epochs up to which a revoked session is repaired
  Budgets      \* bounds: what the environment may do in a behaviour, one of these

\* joins, leaves and forgets are requests; a fault is a refused or lost answer,
\* a failed write or a termination that is not confirmed.
Budget == [launches : Nat, joins : Nat, leaves : Nat, forgets : Nat, faults : Nat, crashes : Nat]

ASSUME TaskAssumption == Standing \notin Task /\ NoTask \notin Task \union {Standing}
ASSUME BudgetAssumption == MaxRevoked \in Nat /\ Budgets \subseteq Budget

Worker == Task \union {Standing}

VARIABLES
  db,        \* the store's rows (StandingStore)
  relay,     \* the relay's roster names the session
  view,      \* the decoded group view names the session
  ready,     \* the readiness cache vouches for (channel, session)
  lane,      \* the worker that holds standing_sync, or NoTask
  ops,       \* [Worker -> Op]: what each worker is doing
  strayed,   \* the roster may name the session without the daemon knowing (history)
  budget     \* what the environment may still do

vars == <<db, relay, view, ready, lane, ops, strayed, budget>>

\* Admissions by where they come from; the last three go through the
\* readiness gate of the provider.
Gated == {"start", "restore", "repair"}
Admissions == {"join", "mention", "passive"} \union Gated
Kinds == Admissions \union {"cleanup", "leave", "leaving", "forget", "finalize", "purge"}
InLane == {"grant", "commit", "remove", "mark"}

\* gen and life: the runtime the task read ("cleanup", "purge": life is the
\* owner of the standing row it read).  epoch: the standing row it read
\* ("leaving": 0 if it was no member; "finalize": 0 if nothing is to be purged).
Op == [pc : {"idle", "queued", "withdraw", "terminate"} \union InLane, kind : Kinds,
       gen : Nat, life : Nat, epoch : Nat]

Idle == [pc |-> "idle", kind |-> "join", gen |-> 0, life |-> 0, epoch |-> 0]
Reads(kind, d) == [pc |-> "queued", kind |-> kind, gen |-> d.gen, life |-> d.life, epoch |-> 0]
ReadsStanding(kind, d) == [Reads(kind, d) EXCEPT !.life = d.owner, !.epoch = d.epoch]

Spend(counter) == budget[counter] > 0 /\ budget' = [budget EXCEPT ![counter] = budget[counter] - 1]
Become(w, op) == ops' = [ops EXCEPT ![w] = op]
InStep(w, pc) == lane = w /\ ops[w].pc = pc

\* A leave owns the channel from its first phase until it returns.
Leaving == \E t \in Task : ops[t].kind = "leaving"

Init ==
  /\ db = NoRows /\ relay = FALSE /\ view = FALSE /\ ready = FALSE
  /\ lane = NoTask /\ ops = [w \in Worker |-> Idle]
  /\ strayed = FALSE /\ budget \in Budgets

----------------------------------------------------------------------------
(* The runtime and the group view, without the lane *)

\* A launch reserves a generation, into this channel (here) or another, and
\* schedules the admission of its channel and of the routes it asked for or kept.
Launch(t) ==
  /\ ops[t].pc = "idle" /\ CanReserve(db) /\ Spend("launches")
  /\ \E here, asked \in BOOLEAN :
       /\ db' = Reserved(db, here)
       /\ IF here THEN Become(t, Reads("start", db'))
          ELSE IF asked \/ db.route THEN Become(t, Reads("passive", db'))
          ELSE UNCHANGED ops
  /\ UNCHANGED <<relay, view, ready, lane, strayed>>

Stop ==
  /\ db.running /\ db' = Stopped(db)
  /\ UNCHANGED <<relay, view, ready, lane, ops, strayed, budget>>

\* The roster is a replaceable record: the view decodes the newest, and a
\* delivered roster drops every readiness proof of the channel.
ViewFollows ==
  /\ view # relay /\ view' = relay /\ ready' = FALSE
  /\ UNCHANGED <<db, relay, lane, ops, strayed, budget>>

ReadyExpires ==
  /\ ready /\ ready' = FALSE
  /\ UNCHANGED <<db, relay, view, lane, ops, strayed, budget>>

----------------------------------------------------------------------------
(* What a task reads before it waits for the lane *)

Request(t, counter, kind) ==
  /\ ops[t].pc = "idle" /\ db.gen > 0 /\ Spend(counter)
  /\ Become(t, Reads(kind, db))
  /\ UNCHANGED <<db, relay, view, ready, lane, strayed>>

Join(t) == Request(t, "joins", "join")
Mention(t) == db.running /\ Request(t, "joins", "mention")
Leave(t) == Request(t, "leaves", "leave")
Forget(t) == Request(t, "forgets", "forget")

\* The coordinator's two scans, one item at a time.  The second looks at no
\* recovery authority: a revoked session that still runs is granted its channel
\* and thrown out again for as long as it runs (hence the bound).
ScanDue ==
  /\ ops[Standing].pc = "idle" /\ CleanupDue(db)
  /\ Become(Standing, ReadsStanding("cleanup", db))
  /\ UNCHANGED <<db, relay, view, ready, lane, strayed, budget>>

ScanRoutes ==
  /\ ops[Standing].pc = "idle" /\ db.running /\ db.route /\ ~Member(db)
  /\ ~db.revoked \/ db.epoch < MaxRevoked
  /\ Become(Standing, Reads("repair", db))
  /\ UNCHANGED <<db, relay, view, ready, lane, strayed, budget>>

----------------------------------------------------------------------------
(* Taking the lane: the checks a task repeats once it holds it *)

Enter(w, op) == lane' = w /\ Become(w, op) /\ UNCHANGED db
Cancelled(w) == Become(w, Idle) /\ UNCHANGED <<db, lane>>

\* Mutant: a standing of the same lifecycle is taken for admitted.
CurrentUnlessOwned(op, allowNew) ==
  /\ db.running /\ db.gen = op.gen /\ db.life = op.life
  /\ (db.route \/ allowNew) /\ (db.state = "none" \/ db.owner # op.life)

\* admission_is_current
Current(op, allowNew) ==
  /\ db.running /\ db.gen = op.gen /\ db.life = op.life
  /\ db.route \/ (allowNew /\ (db.state = "none" \/ db.owner # op.life))

Confirmed(op) == db.route /\ Member(db) /\ db.owner = op.life

MayAdmit(op) ==
  CASE op.kind = "join" -> TRUE
    [] op.kind = "mention" -> db.running /\ db.route /\ ~Member(db)
    [] op.kind = "passive" -> Current(op, TRUE)
    [] op.kind = "start" -> ~Confirmed(op) /\ Current(op, TRUE)
    [] OTHER -> Current(op, FALSE)

TakeToAdmit(w) ==
  /\ ops[w].kind \in Admissions
  /\ LET op == IF ops[w].kind = "mention" THEN Reads("mention", db) ELSE ops[w]
     IN IF MayAdmit(op) THEN Enter(w, [op EXCEPT !.pc = "grant"]) ELSE Cancelled(w)

\* Mutant: a cleanup does not wait for the leave that owns the channel.
StillDueUnderLeave(op) == CleanupDue(db) /\ SameStanding(db, op.epoch, op.life)

\* cleanup_still_due
StillDue(op) == ~Leaving /\ CleanupDue(db) /\ SameStanding(db, op.epoch, op.life)

TakeToClean(w) ==
  /\ ops[w].kind = "cleanup"
  /\ IF StillDue(ops[w]) THEN Enter(w, [ops[w] EXCEPT !.pc = "remove"]) ELSE Cancelled(w)

\* Phase one of a leave: the route goes, the standing stays; no await follows.
TakeToLeave(w) ==
  /\ ops[w].kind = "leave"
  /\ IF db.route
       THEN /\ db' = RouteLeft(db) /\ UNCHANGED lane
            /\ Become(w, [Reads("leaving", db) EXCEPT !.pc = "withdraw", !.epoch = LeftStanding(db)])
       ELSE Cancelled(w)

\* Phase two: a join that re-admitted the channel supersedes the leave, and
\* a cleanup may have done the removal already.
TakeToRemove(w) ==
  /\ ops[w].kind = "leaving"
  /\ IF db.route THEN Cancelled(w)
     ELSE Enter(w, [ops[w] EXCEPT !.pc = IF ops[w].epoch > 0 /\ ~Member(db) THEN "mark" ELSE "remove"])

\* Revocation is the first durable write of a forget, and the snapshot of what
\* is to be purged is taken with it.
TakeToRevoke(w) ==
  /\ ops[w].kind = "forget"
  /\ db' = Revoked(db) /\ UNCHANGED lane
  /\ Become(w, [Reads("finalize", db) EXCEPT !.pc = "terminate",
                                             !.epoch = IF db.route \/ Member(db) THEN 1 ELSE 0])

TakeToFinalize(w) ==
  /\ ops[w].kind = "finalize" /\ UNCHANGED lane
  /\ IF db.gen = ops[w].gen /\ db.revoked
       THEN /\ db' = Finalized(db)
            /\ Become(w, IF ops[w].epoch > 0 THEN Reads("purge", db') ELSE Idle)
       ELSE Become(w, Idle) /\ UNCHANGED db

TakeToPurge(w) ==
  /\ ops[w].kind = "purge" /\ Enter(w, [ReadsStanding("purge", db) EXCEPT !.pc = "remove"])

TakeLane(w) ==
  /\ lane = NoTask /\ ops[w].pc = "queued"
  /\ \/ TakeToAdmit(w) \/ TakeToClean(w) \/ TakeToLeave(w) \/ TakeToRemove(w)
     \/ TakeToRevoke(w) \/ TakeToFinalize(w) \/ TakeToPurge(w)
  /\ UNCHANGED <<relay, view, ready, strayed, budget>>

----------------------------------------------------------------------------
(* Under the lane *)

Release(w) == lane' = NoTask /\ Become(w, Idle)

\* Mutant: the lane is free as soon as the relay has answered.
ContinueUnlocked(w, pc) == lane' = NoTask /\ Become(w, [ops[w] EXCEPT !.pc = pc])

Continue(w, pc) == UNCHANGED lane /\ Become(w, [ops[w] EXCEPT !.pc = pc])

\* The grant is skipped for a session the view, or the readiness cache of the
\* gated admissions, already vouches for.
Vouched(op) == op.kind # "mention" /\ (view \/ (op.kind \in Gated /\ ready))

Granted(w) ==
  /\ InStep(w, "grant") /\ Continue(w, "commit")
  /\ relay' = (relay \/ ~Vouched(ops[w]))
  /\ ready' = (ready \/ ops[w].kind \in Gated)
  /\ UNCHANGED <<db, view, strayed, budget>>

\* Refused, or applied without an answer.
GrantFails(w) ==
  /\ InStep(w, "grant") /\ Release(w) /\ Spend("faults")
  /\ \/ UNCHANGED <<relay, strayed>>
     \/ ~Vouched(ops[w]) /\ ~relay /\ relay' = TRUE /\ strayed' = TRUE
  /\ UNCHANGED <<db, view, ready>>

\* The admission lost its runtime: what the relay granted is recorded as due,
\* and the removal follows at once.
Compensate(w) ==
  IF Superseded(db, ops[w].life) THEN Release(w) /\ UNCHANGED db
  ELSE /\ db' = CleanupScheduled(db, ops[w].life) /\ UNCHANGED lane
       /\ Become(w, [ReadsStanding("cleanup", db') EXCEPT !.pc = "remove"])

\* Mutant: an admission whose runtime is gone is dropped.
CommitForgets(w) ==
  /\ InStep(w, "commit") /\ Release(w)
  /\ db' = IF Owns(db, ops[w].gen) THEN Committed(db) ELSE db
  /\ UNCHANGED <<relay, view, ready, strayed, budget>>

Commit(w) ==
  /\ InStep(w, "commit")
  /\ IF Owns(db, ops[w].gen) THEN db' = Committed(db) /\ Release(w) ELSE Compensate(w)
  /\ UNCHANGED <<relay, view, ready, strayed, budget>>

\* The primary write fails; the fallback finds it done, records the cleanup,
\* or fails as well.
CommitFails(w) ==
  /\ InStep(w, "commit") /\ Spend("faults")
  /\ \/ /\ IF AlreadyCommitted(db, ops[w].gen) THEN Release(w) /\ UNCHANGED db ELSE Compensate(w)
        /\ UNCHANGED strayed
     \/ Release(w) /\ strayed' = (strayed \/ (relay /\ ~Member(db))) /\ UNCHANGED db
  /\ UNCHANGED <<relay, view, ready>>

Removed(w) ==
  /\ InStep(w, "remove") /\ Continue(w, "mark")
  /\ relay' = FALSE /\ strayed' = FALSE
  /\ UNCHANGED <<db, view, ready, budget>>

\* Only a leave has something to take back.
RemoveFails(w) ==
  /\ InStep(w, "remove") /\ Release(w) /\ Spend("faults")
  /\ relay' \in {relay, FALSE} /\ strayed' = (strayed /\ relay')
  /\ db' = IF ops[w].kind = "leaving" THEN RouteRestored(db, ops[w].gen, ops[w].epoch) ELSE db
  /\ UNCHANGED <<view, ready>>

Mark(w) ==
  /\ InStep(w, "mark") /\ Release(w)
  /\ db' = IF ops[w].kind = "leaving" THEN Left(db) ELSE MarkedAbsent(db, ops[w].epoch, ops[w].life)
  /\ UNCHANGED <<relay, view, ready, strayed, budget>>

----------------------------------------------------------------------------
(* Between the lanes *)

\* The presence withdrawal returned, whatever the relay answered.
Withdrawn(t) ==
  /\ ops[t].pc = "withdraw" /\ Become(t, [ops[t] EXCEPT !.pc = "queued"])
  /\ UNCHANGED <<db, relay, view, ready, lane, strayed, budget>>

Terminated(t) ==
  /\ ops[t].pc = "terminate"
  /\ \/ Become(t, [ops[t] EXCEPT !.pc = "queued"]) /\ UNCHANGED budget
     \/ Become(t, Idle) /\ Spend("faults")
  /\ UNCHANGED <<db, relay, view, ready, lane, strayed>>

\* Tasks, lane, view and readiness cache are memory; the next daemon sets out
\* to restore the route of a session that was running.
Crash ==
  /\ Spend("crashes") /\ lane' = NoTask /\ view' = FALSE /\ ready' = FALSE
  /\ \E t \in Task : ops' = [w \in Worker |-> IF w = t /\ db.running /\ db.route
                                                THEN Reads("restore", db) ELSE Idle]
  /\ strayed' = (strayed \/ (relay /\ ~Member(db)))
  /\ UNCHANGED <<db, relay>>

Steps(w) == TakeLane(w) \/ Granted(w) \/ Commit(w) \/ Removed(w) \/ Mark(w)
Asks(t) == Launch(t) \/ Join(t) \/ Mention(t) \/ Leave(t) \/ Forget(t)
Fails(w) == GrantFails(w) \/ CommitFails(w) \/ RemoveFails(w)

Next ==
  \/ \E w \in Worker : Steps(w) \/ Fails(w)
  \/ \E t \in Task : Asks(t) \/ Withdrawn(t) \/ Terminated(t)
  \/ ScanDue \/ ScanRoutes
  \/ Stop \/ ViewFollows \/ ReadyExpires \/ Crash

Spec == Init /\ [][Next]_vars

\* Every task runs on, the relay answers or times out, and the coordinator
\* ticks for as long as the daemon lives.
Fairness ==
  /\ \A w \in Worker : WF_vars(Steps(w))
  /\ \A t \in Task : WF_vars(Withdrawn(t)) /\ WF_vars(Terminated(t))
  /\ WF_vars(ScanDue) /\ WF_vars(ScanRoutes) /\ WF_vars(ViewFollows)

FairSpec == Spec /\ Fairness

----------------------------------------------------------------------------
(* Properties *)

\* The types, with the lane and the tasks under it tied to each other: nobody
\* is between a relay mutation and its record without holding standing_sync.
TypeOK ==
  /\ db \in Rows /\ relay \in BOOLEAN /\ view \in BOOLEAN /\ ready \in BOOLEAN
  /\ strayed \in BOOLEAN /\ budget \in Budget
  /\ ops \in [Worker -> Op] /\ lane \in Worker \union {NoTask}
  /\ \A w \in Worker : ops[w].pc \in InLane <=> lane = w

\* Every membership the relay grants is in the store as a member row by the
\* time the lane is free again, so that a leave, a forget or the cleanup will
\* take it back: the session may have been stopped, resumed, forgotten or left
\* while the grant was in flight (commit_confirmed_admission, finalize,
\* begin_route_leave).  Only a lost answer or a lost write leaves one unknown.
EveryMemberIsRecorded ==
  relay => Member(db) \/ strayed \/ \E w \in Worker : InStep(w, "commit")

\* A forgotten session never has a route again, whatever join, launch or failed
\* leave was on its way when it was revoked (state/session_recovery.rs,
\* restore_route_after_failed_leave).
ForgottenHasNoRoute == db.final => ~db.route

\* The coordinator takes no membership away while the leave that owns the
\* channel still waits for its presence withdrawal: the in-memory mark, the lane
\* and the row it read must agree (leaving.rs, cleanup_still_due).
CleanupWaitsForLeave ==
  [][Removed(Standing) /\ ops[Standing].kind = "cleanup" /\ CleanupDue(db)
       => \A t \in Task : ops[t].pc # "withdraw"]_vars

\* A removal that is due is made, or the session is admitted again.
DueIsSettled == CleanupDue(db) ~> ~CleanupDue(db)

\* The route of a running session becomes a membership (the coordinator's
\* repair), whatever made it lose or never have one.
Unadmitted == db.running /\ ~db.revoked /\ db.route /\ ~Member(db)
RouteBecomesMember == Unadmitted ~> ~Unadmitted

\* A session that joined a channel is on its roster: "an agent targeting a
\* channel it isn't yet a member of simply gets added" (channel_membership_rpc.rs:72).
JoinedIsOnRoster ==
  db.route /\ Member(db) /\ lane = NoTask => relay
=============================================================================
