------------------------- MODULE PresencePublisher -------------------------
(***************************************************************************)
(* From a session's row to the status the relay shows for it.               *)
(*                                                                         *)
(* A task changes the store, reads the session's projection of it, asks     *)
(* the policy (StatusPolicy) under its lock, and hands the outcome to the   *)
(* publisher: each of these is a step, and other tasks come in between.     *)
(* The publisher keeps one pending job per session, which the next          *)
(* submission overwrites, and one parked job the local publish gate could   *)
(* not verify; worker, requeue and awaited publications take turns in a     *)
(* FIFO lane that the host's other sessions share.                          *)
(*                                                                         *)
(* One session of several runtime generations.  The order of revisions is   *)
(* all that the code compares, so they are ranked anew with each outcome.   *)
(* Time passes in renewal periods (30 s), and no publication takes longer.  *)
(***************************************************************************)
EXTENDS StatusPolicy, FiniteSets, Sequences

CONSTANTS
  Caller,    \* tasks of the daemon besides the engines
  MaxGen,    \* runtime generations of the session
  Attempts,  \* publications of one job (3)
  Ttl,       \* periods until an unrefreshed status lapses (3), more than one
  NoStatus,  \* the relay shows nothing
  Budgets    \* bounds: what may happen in a behaviour, one of these

Budget == [turns : Nat, joins : Nat, leaves : Nat, stops : Nat, launches : Nat,
           evictions : Nat, forgets : Nat, faults : Nat, crashes : Nat, others : Nat]

ASSUME PublisherAssumption ==
  MaxGen \in Nat \ {0} /\ Attempts \in Nat \ {0} /\ Ttl \in Nat \ {0, 1} /\ Budgets \subseteq Budget

Gen == 1..MaxGen
Task == Caller \union Gen  \* the engine of a generation is named by it

\* Who else takes turns in the lane.
Holder == {"worker", "requeue", "other"}

ASSUME CallerAssumption == IsFiniteSet(Caller) /\ Caller \cap Gen = {} /\ Caller \cap Holder = {}
ASSUME StatusAssumption == NoStatus \notin Status

VARIABLES
  row,       \* the session: generation, life, working, lifecycle epoch
  routes,    \* channels it reads
  standing,  \* [Channel -> Nat]: epoch of its member row, 0 without one
  due,       \* admissions a start or a restart has scheduled
  revoked,   \* it was forgotten
  roster,    \* channels the relay has it as a member of
  view,      \* the local group view: whether it knows the channels, its rosters
  engine,    \* [Gen -> "off", "up" or "cancelled"]
  call,      \* [Task -> Call]: reconciliations under way
  policy,    \* its lease, or NoLease
  pending, signal, parked, lane, publishing,  \* the publisher
  public,    \* what the relay shows: status, revision, periods since
  lost,      \* the last outcome failed or was overtaken, or died with its daemon (history)
  misread,   \* the lease holds a reading that was old when it was applied (history)
  budget     \* what may still happen

vars == <<row, routes, standing, due, revoked, roster, view, engine, call, policy,
          pending, signal, parked, lane, publishing, public, lost, misread, budget>>
session == <<row, routes, standing, due, revoked>>
fabric == <<roster, view>>
publisher == <<pending, signal, parked, lane, publishing>>

NoScope == [channels |-> {}, member |-> FALSE]
NoJob == [rev |-> 0, status |-> NoStatus, member |-> FALSE, scope |-> NoScope, attempt |-> 0]
NoReading == [channels |-> {}, state |-> "idle"]
Idle == [pc |-> "idle", op |-> "none", gen |-> 0, reading |-> NoReading,
         scope |-> NoScope, job |-> NoJob]
Nothing == [status |-> NoStatus, rev |-> 0, age |-> 0]

Spend(counter) == budget[counter] > 0 /\ budget' = [budget EXCEPT ![counter] = budget[counter] - 1]
Keep == UNCHANGED budget

Running == row.life = "running"

\* session_presence::publication: routes with a member row of this epoch.
Truth == [channels |-> {c \in routes : standing[c] = row.epoch}, state |-> IF row.working THEN "working" ELSE "idle"]

Begin(op, gen, scope) ==
  [Idle EXCEPT !.pc = IF op \in {"renew", "close", "revoke"} THEN "policy" ELSE "read",
               !.op = op, !.gen = gen, !.scope = scope]
Starts(t, c) == call' = [call EXCEPT ![t] = c]

\* A session that has been running for a while in the channels it has joined.
Init ==
  /\ row = [gen |-> 1, life |-> "running", working |-> FALSE, epoch |-> 1]
  /\ routes \in SUBSET Channel /\ roster = routes /\ due = {} /\ revoked = FALSE
  /\ standing = [c \in Channel |-> IF c \in routes THEN 1 ELSE 0]
  /\ view = [known |-> TRUE, members |-> roster]
  /\ engine = [g \in Gen |-> IF g = 1 THEN "up" ELSE "off"]
  /\ call = [t \in Task |-> Idle]
  /\ policy = [gen |-> 1, channels |-> routes, state |-> "idle", live |-> TRUE, renewed |-> TRUE]
  /\ public = IF routes = {} THEN Nothing ELSE [status |-> Shown(policy), rev |-> 1, age |-> 0]
  /\ pending = NoJob /\ signal = FALSE /\ parked = NoJob /\ lane = <<>> /\ publishing = NoJob
  /\ lost = FALSE /\ misread = FALSE /\ budget \in Budgets

----------------------------------------------------------------------------
(* What changes the session, and the reconciliation that follows it *)

Free(t) == t \in Caller /\ call[t].pc = "idle"

TurnEdge(t) ==
  /\ Free(t) /\ Running /\ Spend("turns")
  /\ row' = [row EXCEPT !.working = ~row.working]
  /\ Starts(t, Begin("reconcile", row.gen, NoScope))
  /\ UNCHANGED <<routes, standing, due, revoked, fabric, engine, policy, publisher, public, lost, misread>>

\* A confirmed admission: a join, what a start or restart scheduled, or the
\* repair of a route without a member row.  The status follows under its scope.
Admit(t, c) ==
  /\ Free(t) /\ Running
  /\ \/ c \in due /\ Keep
     \/ c \in routes /\ standing[c] = 0 /\ Keep
     \/ Spend("joins")
  /\ roster' = roster \union {c} /\ routes' = routes \union {c} /\ due' = due \ {c}
  /\ standing' = [standing EXCEPT ![c] = row.epoch]
  /\ Starts(t, Begin("reassert", row.gen, [channels |-> {c}, member |-> TRUE]))
  /\ UNCHANGED <<row, revoked, view, engine, policy, publisher, public, lost, misread>>

\* A scheduled admission that fails is logged.
AdmissionFails(c) ==
  /\ c \in due /\ due' = due \ {c} /\ Spend("faults")
  /\ UNCHANGED <<row, routes, standing, revoked, fabric, engine, call, policy, publisher, public, lost, misread>>

\* Phase one of a leave: the route goes; then the narrowed status is awaited.
Leave(t, c) ==
  /\ Free(t) /\ c \in routes /\ Running /\ Spend("leaves")
  /\ routes' = routes \ {c} /\ due' = due \ {c}
  /\ Starts(t, Begin("now", row.gen, [channels |-> {c}, member |-> FALSE]))
  /\ UNCHANGED <<row, standing, revoked, fabric, engine, policy, publisher, public, lost, misread>>

\* Phase two: a join has taken the route back, the relay removes the member, or
\* it refuses and the route comes back.
RemoveMember(t) ==
  /\ call[t].pc = "remove" /\ call[t].op = "now"
  /\ \E c \in call[t].scope.channels :
       \/ /\ c \in routes /\ Starts(t, Begin("reconcile", call[t].gen, NoScope)) /\ Keep
          /\ UNCHANGED <<routes, standing, roster>>
       \/ /\ c \notin routes /\ roster' = roster \ {c} /\ Keep
          /\ standing' = [standing EXCEPT ![c] = 0]
          /\ Starts(t, Begin("reconcile", call[t].gen, call[t].scope))
          /\ UNCHANGED routes
       \/ /\ c \notin routes /\ ~revoked /\ row.gen = call[t].gen /\ Spend("faults")
          /\ routes' = routes \union {c}
          /\ Starts(t, Begin("reconcile", call[t].gen, NoScope))
          /\ UNCHANGED <<standing, roster>>
  /\ UNCHANGED <<row, due, revoked, view, engine, policy, publisher, public, lost, misread>>

\* Mutant: the engine of a stopped generation is not told.
CancelledNever(gen) == engine

Cancelled(gen) == [engine EXCEPT ![gen] = IF engine[gen] = "up" THEN "cancelled" ELSE engine[gen]]

\* The runtime ends, or an eviction of it completes: the engine is cancelled
\* and the lease closed.
Stop(t) ==
  /\ Free(t)
  /\ \/ Running /\ Spend("stops")
     \/ row.life = "stopping" /\ Keep
  /\ row' = [row EXCEPT !.life = "stopped", !.working = FALSE, !.epoch = row.epoch + 1]
  /\ engine' = Cancelled(row.gen) /\ due' = {}
  /\ Starts(t, Begin("close", row.gen, NoScope))
  /\ UNCHANGED <<routes, standing, revoked, fabric, policy, publisher, public, lost, misread>>

\* An idle eviction is reserved; a client that attaches or a supervisor that
\* does not answer cancels it.  Both take a new lifecycle epoch.
Reserve ==
  /\ Running /\ ~row.working /\ Spend("evictions")
  /\ row' = [row EXCEPT !.life = "stopping", !.epoch = row.epoch + 1] /\ due' = {}
  /\ UNCHANGED <<routes, standing, revoked, fabric, engine, call, policy, publisher, public, lost, misread>>
CancelEviction ==
  /\ row.life = "stopping"
  /\ row' = [row EXCEPT !.life = "running", !.epoch = row.epoch + 1]
  /\ UNCHANGED <<routes, standing, due, revoked, fabric, engine, call, policy, publisher, public, lost, misread, budget>>

\* A new generation under a new epoch: every route is to be admitted again.
Launch ==
  /\ row.life = "stopped" /\ ~revoked /\ row.gen < MaxGen /\ Spend("launches")
  /\ row' = [gen |-> row.gen + 1, life |-> "running", working |-> FALSE, epoch |-> row.epoch + 1]
  /\ due' = routes
  /\ engine' = [engine EXCEPT ![row.gen + 1] = "up",
                              ![row.gen] = IF engine[row.gen] = "up" THEN "cancelled" ELSE engine[row.gen]]
  /\ Starts(row.gen + 1, Begin("open", row.gen + 1, NoScope))
  /\ UNCHANGED <<routes, standing, revoked, fabric, policy, publisher, public, lost, misread>>

\* Forget, once the runtime has ended: the lease is revoked and the membership
\* removed without waiting for its publication.
Forget(t) ==
  /\ Free(t) /\ row.life = "stopped" /\ ~revoked /\ Spend("forgets")
  /\ revoked' = TRUE /\ routes' = {} /\ due' = {}
  /\ Starts(t, Begin("revoke", row.gen, NoScope))
  /\ UNCHANGED <<row, standing, fabric, engine, policy, publisher, public, lost, misread>>
RemoveAll(t) ==
  /\ call[t].pc = "remove" /\ call[t].op = "revoke"
  /\ roster' = {} /\ standing' = [c \in Channel |-> 0] /\ Starts(t, Idle)
  /\ UNCHANGED <<row, routes, due, revoked, view, engine, policy, publisher, public, lost, misread, budget>>

----------------------------------------------------------------------------
(* One reconciliation *)

Following(c) ==
  IF c.op \in {"now", "revoke"} THEN [c EXCEPT !.pc = "remove", !.job = NoJob] ELSE Idle

\* Only a running session of the generation is read; an engine opens with
\* whatever row it finds.
Read(t) ==
  /\ call[t].pc = "read"
  /\ Starts(t, IF call[t].op = "open" \/ (Running /\ row.gen = call[t].gen)
               THEN [call[t] EXCEPT !.pc = "policy", !.reading = Truth] ELSE Following(call[t]))
  /\ UNCHANGED <<session, fabric, engine, policy, publisher, public, lost, misread, budget>>

Outcome(c) ==
  CASE c.op = "open"               -> Opened(policy, c.gen, c.reading)
    [] c.op \in {"reconcile", "now"} -> Reconciled(policy, c.gen, c.reading)
    [] c.op = "reassert"           -> Reasserted(policy, c.gen, c.reading)
    [] c.op = "renew"              -> Renewed(policy, c.gen)
    [] c.op = "close"              -> Closed(policy, c.gen)
    [] c.op = "revoke"             -> Revoked(policy, c.gen)

Reads(op) == op \in {"open", "reconcile", "now", "reassert"}

\* Revisions in use, and their renumbering.
Revisions == ({pending.rev, parked.rev, publishing.rev, public.rev} \union {call[t].job.rev : t \in Task}) \ {0}
Rank(rev) == Cardinality({r \in Revisions : r <= rev})
Ranked(x) == [x EXCEPT !.rev = Rank(x.rev)]

\* The scope a leave carries while it waits is for its last reconciliation.
ScopeOf(c) == IF c.op = "now" THEN NoScope ELSE c.scope

\* The policy is asked under its lock, which is released before the submission.
Ask(t) ==
  LET c == call[t]
      o == Outcome(c)
      job == [rev |-> Cardinality(Revisions) + 1, status |-> o.effect.status,
              member |-> o.effect.member, scope |-> ScopeOf(c), attempt |-> 1]
  IN /\ c.pc = "policy" /\ policy' = o.lease
     /\ misread' = IF Reads(c.op) /\ o.lease # NoLease /\ o.lease.gen = c.gen
                     THEN ~Running \/ row.gen # c.gen \/ c.reading # Truth
                   ELSE misread /\ (c.op = "renew" \/ ~Owned(policy, c.gen))
     /\ IF o.effect = NoEffect
          THEN /\ Starts(t, Following(c)) /\ UNCHANGED <<publisher, public>>
               /\ lost' = (lost \/ (c.op = "open" /\ policy # NoLease /\ policy.live))
          ELSE /\ call' = [u \in Task |->
                    IF u = t THEN [c EXCEPT !.pc = IF c.op = "now" THEN "await" ELSE "submit", !.job = job]
                    ELSE [call[u] EXCEPT !.job = Ranked(call[u].job)]]
               /\ pending' = Ranked(pending) /\ parked' = Ranked(parked)
               /\ publishing' = Ranked(publishing) /\ public' = Ranked(public)
               /\ lane' = IF c.op = "now" THEN Append(lane, t) ELSE lane
               /\ lost' = FALSE /\ UNCHANGED signal
     /\ UNCHANGED <<session, fabric, engine, budget>>

\* A job is late when a newer revision is already with the publisher.
Late(job) == \E r \in {pending.rev, parked.rev, publishing.rev, public.rev} : r > job.rev

\* The pending job of the session is overwritten, whatever its revision.
Submit(t) ==
  /\ call[t].pc = "submit"
  /\ pending' = call[t].job /\ signal' = TRUE
  /\ lost' = (lost \/ Late(call[t].job))
  /\ Starts(t, Following(call[t]))
  /\ UNCHANGED <<session, fabric, engine, policy, parked, lane, publishing, public, misread, budget>>

\* The engine renews the lease until it ends, and closes it when cancelled.
Renew(g) ==
  /\ engine[g] # "off" /\ call[g].pc = "idle" /\ policy # NoLease /\ ~policy.renewed
  /\ Starts(g, Begin("renew", g, NoScope))
  /\ UNCHANGED <<session, fabric, engine, policy, publisher, public, lost, misread, budget>>
EngineEnds(g) ==
  /\ engine[g] = "cancelled" /\ call[g].pc = "idle"
  /\ engine' = [engine EXCEPT ![g] = "off"]
  /\ Starts(g, Begin("close", g, NoScope))
  /\ UNCHANGED <<session, fabric, policy, publisher, public, lost, misread, budget>>

----------------------------------------------------------------------------
(* The publication lane *)

Holds(h) == lane # <<>> /\ Head(lane) = h
Queued(h) == \E i \in 1..Len(lane) : lane[i] = h

WorkerWakes ==
  /\ signal /\ ~Queued("worker") /\ signal' = FALSE /\ lane' = Append(lane, "worker")
  /\ UNCHANGED <<session, fabric, engine, call, policy, pending, parked, publishing, public, lost, misread, budget>>

WorkerTakes ==
  /\ Holds("worker") /\ publishing = NoJob
  /\ publishing' = pending /\ pending' = NoJob
  /\ lane' = IF pending = NoJob THEN Tail(lane) ELSE lane
  /\ UNCHANGED <<session, fabric, engine, call, policy, signal, parked, public, lost, misread, budget>>

\* Mutant: an awaited publication leaves an older parked job where it is.
DroppedNever(job, rev) == job

\* discard_superseded
Dropped(job, rev) == IF job.rev <= rev THEN NoJob ELSE job

AwaitedTakes(t) ==
  /\ Holds(t) /\ call[t].pc = "await" /\ publishing = NoJob
  /\ publishing' = call[t].job
  /\ pending' = Dropped(pending, call[t].job.rev) /\ parked' = Dropped(parked, call[t].job.rev)
  /\ lost' = (lost \/ Late(call[t].job))
  /\ Starts(t, [call[t] EXCEPT !.job = NoJob])
  /\ UNCHANGED <<session, fabric, engine, policy, signal, lane, public, misread, budget>>

\* The publications of the host's other sessions hold the lane as well.
OtherQueues ==
  /\ ~Queued("other") /\ Spend("others") /\ lane' = Append(lane, "other")
  /\ UNCHANGED <<session, fabric, engine, call, policy, pending, signal, parked, publishing, public, lost, misread>>
OtherDone ==
  /\ Holds("other") /\ lane' = Tail(lane)
  /\ UNCHANGED <<session, fabric, engine, call, policy, pending, signal, parked, publishing, public, lost, misread, budget>>

\* After a group change, and every five seconds.
RequeueQueues ==
  /\ parked # NoJob /\ ~Queued("requeue") /\ lane' = Append(lane, "requeue")
  /\ UNCHANGED <<session, fabric, engine, call, policy, pending, signal, parked, publishing, public, lost, misread, budget>>

\* Mutant: what waits is taken for newer.
RequeuedNever(job) == pending

Requeued(job) == IF job # NoJob /\ pending.rev < job.rev THEN job ELSE pending

Requeue ==
  /\ Holds("requeue") /\ lane' = Tail(lane) /\ parked' = NoJob
  /\ pending' = Requeued(parked)
  /\ signal' = (signal \/ pending' # pending)
  /\ UNCHANGED <<session, fabric, engine, call, policy, publishing, public, lost, misread, budget>>

----------------------------------------------------------------------------
(* A publication *)

Superseded == pending.rev > publishing.rev

\* verify_publish_scope, or a relay answer the caller had just received.
Verified(job) ==
  \A c \in job.status.channels :
    \/ c \in job.scope.channels /\ (job.member => job.scope.member)
    \/ view.known /\ (job.member => c \in view.members)

\* The lane passes on; the worker looks for another job.
Passes ==
  /\ publishing' = NoJob
  /\ LET h == Head(lane)
     IN /\ lane' = IF h = "worker" THEN Append(Tail(lane), h) ELSE Tail(lane)
        /\ call' = IF h = "worker" THEN call ELSE [call EXCEPT ![h] = Following(call[h])]

\* Mutant: a parked job survives the landing of a newer one.
RetiredNever == parked

\* DeferredJobs::settle of a job that was not deferred.
Retired == Dropped(parked, publishing.rev)

\* A refusal of the gate waits for a group change, unless a newer job is there.
GateRefuses ==
  /\ publishing # NoJob /\ ~Verified(publishing) /\ Passes
  /\ parked' = IF Superseded THEN Retired
               ELSE IF parked.rev <= publishing.rev THEN [publishing EXCEPT !.attempt = 1] ELSE parked
  /\ UNCHANGED <<session, fabric, engine, policy, pending, signal, public, lost, misread, budget>>

Published == public' = [status |-> publishing.status, rev |-> publishing.rev, age |-> 0]

\* The relay takes the status of a member.
Lands ==
  /\ publishing # NoJob /\ Verified(publishing) /\ publishing.status.channels \subseteq roster
  /\ Published /\ Passes /\ parked' = Retired
  /\ UNCHANGED <<session, fabric, engine, policy, pending, signal, lost, misread, budget>>

\* It refuses it, cannot be reached, or its answer is lost: again, a few times.
Fails ==
  /\ publishing # NoJob /\ Verified(publishing)
  /\ \/ ~(publishing.status.channels \subseteq roster) /\ UNCHANGED <<public, budget>>
     \/ Spend("faults") /\ UNCHANGED public
     \/ Spend("faults") /\ publishing.status.channels \subseteq roster /\ Published
  /\ IF publishing.attempt < Attempts /\ ~Superseded
       THEN /\ publishing' = [publishing EXCEPT !.attempt = publishing.attempt + 1]
            /\ UNCHANGED <<lane, call, parked, lost>>
       ELSE /\ Passes /\ parked' = Retired /\ lost' = (lost \/ ~Superseded)
  /\ UNCHANGED <<session, fabric, engine, policy, pending, signal, misread>>

----------------------------------------------------------------------------
(* View, time and crashes *)

Live(status) == status # NoStatus /\ status.state # "offline"

ViewFollows ==
  /\ view # [known |-> TRUE, members |-> roster]
  /\ view' = [known |-> TRUE, members |-> roster]
  /\ UNCHANGED <<session, roster, engine, call, policy, publisher, public, lost, misread, budget>>

\* Nothing but what the gate refuses is still to be published.
Calm ==
  /\ \A t \in Task : call[t].pc \in {"idle", "remove"}
  /\ pending = NoJob /\ publishing = NoJob /\ ~Queued("other")

\* An engine is awake within the period: it has a cancellation or a renewal.
EngineDue ==
  \E g \in Gen : engine[g] = "cancelled" \/ (engine[g] = "up" /\ policy # NoLease /\ policy.gen = g /\ ~policy.renewed)

Elapse ==
  /\ Calm /\ ~EngineDue
  /\ policy' = IF policy = NoLease THEN NoLease ELSE [policy EXCEPT !.renewed = FALSE]
  /\ public' = IF public.status = NoStatus \/ public.age + 1 = Ttl THEN Nothing
               ELSE [public EXCEPT !.age = public.age + 1]
  /\ UNCHANGED <<session, fabric, engine, call, publisher, lost, misread, budget>>

\* The daemon dies and comes back, perhaps after the status lapsed: what still
\* runs is revived and its routes are restored, what is gone is found stopped, and
\* without a lease that publishes nothing.
Restart ==
  \E gone \in BOOLEAN :
    LET revived == Running /\ ~gone
    IN /\ Spend("crashes")
       /\ row' = IF Running /\ gone
                   THEN [row EXCEPT !.life = "stopped", !.working = FALSE, !.epoch = row.epoch + 1]
                 ELSE row
       /\ due' = IF revived THEN routes ELSE {}
       /\ view' = [known |-> FALSE, members |-> {}]
       /\ engine' = [g \in Gen |-> IF revived /\ g = row.gen THEN "up" ELSE "off"]
       /\ call' = [t \in Task |-> IF revived /\ t = row.gen THEN Begin("open", t, NoScope) ELSE Idle]
       /\ public' \in {Nothing, [public EXCEPT !.rev = 0]}
       /\ policy' = NoLease /\ lost' = Live(public'.status) /\ misread' = FALSE
       /\ pending' = NoJob /\ signal' = FALSE /\ parked' = NoJob /\ lane' = <<>> /\ publishing' = NoJob
       /\ UNCHANGED <<routes, standing, revoked, roster>>

----------------------------------------------------------------------------

CallStep(t) == Read(t) \/ Ask(t) \/ Submit(t) \/ RemoveMember(t) \/ RemoveAll(t)
EngineStep(g) == Renew(g) \/ EngineEnds(g)
LaneStep ==
  \/ WorkerWakes \/ WorkerTakes \/ OtherDone \/ Requeue \/ RequeueQueues
  \/ \E t \in Caller : AwaitedTakes(t)
Publication == GateRefuses \/ Lands \/ Fails
Requests(t) == TurnEdge(t) \/ Stop(t) \/ Forget(t) \/ \E c \in Channel : Admit(t, c) \/ Leave(t, c)

Next ==
  \/ \E t \in Task : CallStep(t)
  \/ \E g \in Gen : EngineStep(g)
  \/ LaneStep \/ Publication \/ OtherQueues
  \/ \E t \in Caller : Requests(t)
  \/ \E c \in Channel : AdmissionFails(c)
  \/ Reserve \/ CancelEviction \/ Launch
  \/ ViewFollows \/ Elapse \/ Restart

\* The daemon's tasks run on, scheduled admissions are made, the relay answers,
\* its group records arrive and time passes.
Fairness ==
  /\ \A t \in Task : WF_vars(CallStep(t))
  /\ \A g \in Gen : WF_vars(Renew(g)) /\ WF_vars(EngineEnds(g))
  /\ WF_vars(LaneStep) /\ WF_vars(Publication) /\ WF_vars(ViewFollows) /\ SF_vars(Elapse)
  /\ WF_vars(\E t \in Caller, c \in due : Admit(t, c))

Spec == Init /\ [][Next]_vars
FairSpec == Spec /\ Fairness

----------------------------------------------------------------------------
(* Properties *)

Quiet == Calm /\ parked = NoJob /\ \A g \in Gen : engine[g] # "cancelled"

\* Without waiting for a renewal, what the policy last said is what the relay
\* shows: parking, requeueing, coalescing and the awaited publication of a leave
\* neither drop a job nor let an older one through after it.  The exceptions are
\* an outcome the relay refused to the end, one that was submitted after a newer
\* one, one that died with its daemon (lost), and a lease set from an old reading,
\* which nobody may renew (presence_publisher.rs, deferred.rs: settle, requeue_into).
NothingIsDropped ==
  Quiet /\ ~lost /\ ~misread =>
    IF policy # NoLease /\ policy.live /\ policy.channels # {}
      THEN public.status = Shown(policy)
      ELSE ~Live(public.status)

\* A channel a running session is admitted to shows it sooner or later, across
\* refusals, restarts and races: renewals repeat what was lost.
ShownIn(c) == Live(public.status) /\ c \in public.status.channels
AdmittedIsShown ==
  \A c \in Channel :
    (Running /\ c \in Truth.channels) ~> (ShownIn(c) \/ misread \/ ~(Running /\ c \in Truth.channels))

\* A session that has ended is not shown as live for ever, whatever late
\* reconciliation followed its close: it is withdrawn or lapses
\* (docs/session-state.md:18-20).
StoppedGoesDark == (row.life = "stopped") ~> (~Live(public.status) \/ row.life # "stopped")

\* Violated: a running session is shown in every channel where it has a route
\* and a member row (docs/session-state.md:11, 52-55).
RouteIsShown ==
  \A c \in Channel :
    (Running /\ c \in routes /\ standing[c] # 0)
      ~> (ShownIn(c) \/ misread \/ ~(Running /\ c \in routes /\ standing[c] # 0))
=============================================================================
