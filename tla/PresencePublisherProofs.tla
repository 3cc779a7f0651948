----------------------- MODULE PresencePublisherProofs -----------------------
(***************************************************************************)
(* Proofs about PresencePublisher, for every set of channels and tasks,    *)
(* any number of generations and attempts, every budget and every lapse    *)
(* of more than one period.                                                *)
(*                                                                         *)
(* The argument.  Unless it is lost, the last outcome of the policy is     *)
(* somewhere: with the call that will submit it, pending, in publication,  *)
(* parked, or landed (CarryInv), and wherever it is, no job that could     *)
(* come after it has a revision as high.  A status that has landed does    *)
(* not lapse as long as the lease is nursed: its generation is hosted, or  *)
(* its engine is cancelled, or a call is about to close it (NurseInv), so  *)
(* that no period passes without a renewal.  A lease set from a reading    *)
(* that was no longer true may be nursed by nobody (misread).              *)
(***************************************************************************)
EXTENDS PresencePublisher, SequenceTheorems, FiniteSetTheorems, TLAPS

----------------------------------------------------------------------------
(* The types *)

Scope == [channels : SUBSET Channel, member : BOOLEAN]
Job == [rev : Nat, status : Status \union {NoStatus}, member : BOOLEAN, scope : Scope, attempt : Nat]
Call == [pc : {"idle", "read", "policy", "submit", "await", "remove"},
         op : {"none", "open", "reconcile", "reassert", "now", "renew", "close", "revoke"},
         gen : 0..MaxGen, reading : Projection, scope : Scope, job : Job]

\* Revision 0 is that of no job.
Numbered(job) == job.rev = 0 <=> job = NoJob

SessionOK ==
  /\ row \in [gen : Gen, life : {"running", "stopping", "stopped"}, working : BOOLEAN, epoch : Nat]
  /\ routes \subseteq Channel
  /\ engine \in [Gen -> {"off", "up", "cancelled"}]

\* A call carries a job between the policy and the publisher only, and one that
\* asks the policy is for some generation.
CallsOK ==
  /\ call \in [Task -> Call]
  /\ \A t \in Task :
       /\ Numbered(call[t].job)
       /\ call[t].job # NoJob => call[t].pc \in {"submit", "await"}
       /\ call[t].op # "none" => call[t].gen \in Gen
       /\ call[t].pc \in {"read", "policy"} => call[t].op # "none"
       /\ call[t].pc = "read" => Reads(call[t].op)
       /\ call[t].op = "now" => t \in Caller

PublisherOK ==
  /\ policy \in Lease \union {NoLease} /\ (policy # NoLease => policy.gen \in Gen)
  /\ pending \in Job /\ Numbered(pending) /\ parked \in Job /\ Numbered(parked)
  /\ publishing \in Job /\ Numbered(publishing)
  /\ public \in [status : Status \union {NoStatus}, rev : Nat, age : Nat]
  /\ lane \in Seq(Caller \union Holder) /\ lost \in BOOLEAN /\ misread \in BOOLEAN

TypeOK == SessionOK /\ CallsOK /\ PublisherOK

----------------------------------------------------------------------------
(* The engines *)

\* The engine of a generation runs while that generation does, and ends no sooner.
EngineInv ==
  /\ \A g \in Gen : engine[g] = "up" => row.gen = g /\ row.life # "stopped"
  /\ \A g \in Gen : g > row.gen => engine[g] = "off" /\ call[g].pc = "idle"
  /\ policy # NoLease => policy.gen <= row.gen
  /\ \A t \in Task : call[t].gen <= row.gen
  /\ policy # NoLease /\ row.gen = policy.gen /\ row.life # "stopped" => engine[row.gen] = "up"
  /\ \A t \in Task : /\ call[t].op = "open" /\ call[t].pc \in {"read", "policy"}
                     /\ row.gen = call[t].gen /\ row.life # "stopped"
                     => engine[row.gen] = "up"

\* The lease shows the session, and somebody renews or is about to close it.
Shows(lease) == lease # NoLease /\ lease.live /\ lease.channels # {}
CloseDue(g) == \E t \in Task : call[t].op = "close" /\ call[t].pc = "policy" /\ call[t].gen = g
Nursed ==
  \/ row.gen = policy.gen /\ row.life # "stopped"
  \/ engine[policy.gen] = "cancelled"
  \/ CloseDue(policy.gen)

NurseInv == Shows(policy) /\ ~misread => Nursed

----------------------------------------------------------------------------
(* The last outcome *)

\* Who publishes holds the lane: the worker, or the task that awaits it.
LaneInv ==
  publishing # NoJob =>
    /\ lane # <<>>
    /\ \/ Head(lane) = "worker"
       \/ Head(lane) \in Caller /\ call[Head(lane)].pc = "await" /\ call[Head(lane)].job = NoJob

\* What the lease shows is what the status says.
Matches(lease, status) == IF Shows(lease) THEN status = Shown(lease) ELSE ~Live(status)

\* The jobs of the calls, and those of the publisher, are older.
CallsBefore(rev) == \A t \in Task : call[t].job.rev < rev

InCall(t) ==
  LET job == call[t].job IN
  /\ job # NoJob /\ Matches(policy, job.status)
  /\ \A u \in Task \ {t} : call[u].job.rev < job.rev
  /\ pending.rev < job.rev /\ parked.rev < job.rev /\ publishing.rev < job.rev /\ public.rev < job.rev
InPending ==
  /\ pending # NoJob /\ Matches(policy, pending.status) /\ CallsBefore(pending.rev)
  /\ parked.rev < pending.rev /\ publishing.rev < pending.rev /\ public.rev <= pending.rev
InPublishing ==
  /\ publishing # NoJob /\ Matches(policy, publishing.status) /\ CallsBefore(publishing.rev)
  /\ pending = NoJob /\ parked.rev < publishing.rev /\ public.rev <= publishing.rev
InParked ==
  /\ parked # NoJob /\ Matches(policy, parked.status) /\ CallsBefore(parked.rev)
  /\ pending = NoJob /\ publishing = NoJob /\ public.rev <= parked.rev

\* It has landed; a status that is nursed does not lapse.
Landed ==
  /\ pending = NoJob /\ publishing = NoJob /\ parked = NoJob
  /\ \A t \in Task : call[t].job # NoJob => call[t].job.rev < public.rev
  /\ ~Shows(policy) => ~Live(public.status)
  /\ Shows(policy) /\ Nursed =>
       /\ public.status = Shown(policy)
       /\ public.age = 0 \/ (public.age = 1 /\ ~policy.renewed)

CarryInv == ~lost => (\E t \in Task : InCall(t)) \/ InPending \/ InPublishing \/ InParked \/ Landed

IInv == TypeOK /\ EngineInv /\ NurseInv /\ LaneInv /\ CarryInv

----------------------------------------------------------------------------
(* What every proof uses of the constants *)

LEMMA ConstantFacts ==
  /\ MaxGen \in Nat \ {0} /\ Ttl \in Nat /\ Ttl >= 2 /\ Attempts \in Nat
  /\ Gen \subseteq Nat /\ 1 \in Gen /\ Gen \subseteq 0..MaxGen
  /\ Caller \subseteq Task /\ Gen \subseteq Task
  /\ Caller \cap Gen = {} /\ Caller \cap Holder = {}
  /\ IsFiniteSet(Task)
<1>1. IsFiniteSet(Gen)
  BY PublisherAssumption, FS_Interval DEF Gen
<1>2. IsFiniteSet(Task)
  BY <1>1, CallerAssumption, FS_Union DEF Task
<1>3. MaxGen \in Nat /\ MaxGen # 0 /\ Ttl \in Nat /\ Ttl # 0 /\ Ttl # 1 /\ Attempts \in Nat
  BY PublisherAssumption
<1>4. Gen \subseteq Nat /\ 1 \in Gen /\ Gen \subseteq 0..MaxGen
  BY <1>3 DEF Gen
<1>5. QED
  BY <1>2, <1>3, <1>4, CallerAssumption DEF Task

\* No job, no call and what a call begins and ends with are typed.
LEMMA NoJobFacts ==
  /\ NoJob \in Job /\ NoJob.rev = 0 /\ Numbered(NoJob)
  /\ NoScope \in Scope
BY DEF NoJob, Job, NoScope, Scope, Numbered

LEMMA IdleIsTyped ==
  /\ Idle \in Call
  /\ Idle.pc = "idle" /\ Idle.op = "none" /\ Idle.gen = 0 /\ Idle.job = NoJob
<1>1. Idle.gen \in 0..MaxGen
  BY ConstantFacts DEF Idle
<1>2. NoReading \in Projection
  BY DEF NoReading, Projection
<1>3. QED
  BY <1>1, <1>2, NoJobFacts DEF Idle, Call

LEMMA BeginIsTyped ==
  ASSUME NEW op \in {"open", "reconcile", "reassert", "now", "renew", "close", "revoke"},
         NEW gen \in Gen, NEW scope \in Scope
  PROVE  LET c == Begin(op, gen, scope)
         IN  /\ c \in Call /\ c.op = op /\ c.gen = gen /\ c.job = NoJob
             /\ c.pc = IF op \in {"renew", "close", "revoke"} THEN "policy" ELSE "read"
<1>1. gen \in 0..MaxGen
  BY ConstantFacts
<1>2. QED
  BY <1>1, IdleIsTyped DEF Begin, Call

LEMMA FollowingIsTyped ==
  ASSUME NEW c \in Call
  PROVE  LET d == Following(c)
         IN  /\ d \in Call /\ d.job = NoJob /\ d.pc \in {"idle", "remove"}
             /\ \/ d.gen = 0 /\ d.op = "none"
                \/ d.gen = c.gen /\ d.op = c.op
BY IdleIsTyped, NoJobFacts DEF Following, Call

----------------------------------------------------------------------------
(* Steps that leave the lease, the publisher and the relay alone *)

\* Whoever carries the last outcome still does.
LEMMA CarryKept ==
  ASSUME IInv, UNCHANGED <<policy, pending, parked, publishing, public, lost>>,
         \A u \in Task : call'[u].job = call[u].job,
         policy # NoLease => (Nursed' <=> Nursed)
  PROVE  CarryInv'
<1> SUFFICES ASSUME ~lost PROVE CarryInv'
  BY DEF CarryInv
<1>1. CASE \E t \in Task : InCall(t)
  <2>1. PICK t \in Task : InCall(t)
    BY <1>1
  <2>2. InCall(t)'
    BY <2>1 DEF InCall, Matches, Shows
  <2>3. QED
    BY <2>2 DEF CarryInv
<1>2. CASE InPending
  <2>1. InPending'
    BY <1>2 DEF InPending, Matches, Shows, CallsBefore
  <2>2. QED
    BY <2>1 DEF CarryInv
<1>3. CASE InPublishing
  <2>1. InPublishing'
    BY <1>3 DEF InPublishing, Matches, Shows, CallsBefore
  <2>2. QED
    BY <2>1 DEF CarryInv
<1>4. CASE InParked
  <2>1. InParked'
    BY <1>4 DEF InParked, Matches, Shows, CallsBefore
  <2>2. QED
    BY <2>1 DEF CarryInv
<1>5. CASE Landed
  <2>1. Landed'
    BY <1>5 DEF Landed, Shows
  <2>2. QED
    BY <2>1 DEF CarryInv
<1>6. QED
  BY <1>1, <1>2, <1>3, <1>4, <1>5 DEF IInv, CarryInv

LEMMA Framed ==
  ASSUME IInv, UNCHANGED <<policy, pending, parked, lane, publishing, public, lost, misread>>,
         \A u \in Task : /\ call'[u].job = call[u].job
                         /\ call[u].pc = "await" => call'[u].pc = "await",
         SessionOK', CallsOK', EngineInv',
         policy # NoLease => (Nursed' <=> Nursed)
  PROVE  IInv'
<1>1. TypeOK'
  BY DEF IInv, TypeOK, PublisherOK
<1>2. NurseInv'
  BY DEF IInv, NurseInv, Shows
<1>3. LaneInv'
  BY ConstantFacts DEF IInv, LaneInv
<1>4. CarryInv'
  BY CarryKept
<1>5. QED
  BY <1>1, <1>2, <1>3, <1>4 DEF IInv

\* A task of the session's generation turns to something else.
LEMMA Moved ==
  ASSUME IInv, UNCHANGED <<policy, pending, parked, lane, publishing, public, lost, misread, engine>>,
         NEW t \in Task, NEW c \in Call, Starts(t, c), t \in Gen => t <= row.gen,
         call[t].pc \in {"idle", "read", "remove"}, c.job = NoJob,
         c.gen <= row.gen, c.op = "now" => t \in Caller,
         c.op # "none" => c.gen \in Gen, c.pc \in {"read", "policy"} => c.op # "none",
         c.pc = "read" => Reads(c.op),
         c.op = "close" => c.pc # "policy",
         c.op = "open" /\ c.pc \in {"read", "policy"} =>
           call[t].op = "open" /\ call[t].pc = "read" /\ call[t].gen = c.gen,
         row' \in [gen : Gen, life : {"running", "stopping", "stopped"}, working : BOOLEAN, epoch : Nat],
         routes' \subseteq Channel,
         row'.gen = row.gen, row'.life = "stopped" <=> row.life = "stopped"
  PROVE  IInv'
<1>0. call' = [call EXCEPT ![t] = c] /\ call \in [Task -> Call] /\ engine' = engine
  BY DEF Starts, IInv, TypeOK, CallsOK
<1>1. call[t].job = NoJob
  BY DEF IInv, TypeOK, CallsOK
<1>2. call' \in [Task -> Call] /\ call'[t] = c /\ \A u \in Task \ {t} : call'[u] = call[u]
  BY <1>0
<1>3. SessionOK'
  BY <1>0 DEF IInv, TypeOK, SessionOK
<1>4. CallsOK'
  BY <1>2, NoJobFacts DEF IInv, TypeOK, CallsOK
<1>5. EngineInv'
  <2>1. \A g \in Gen : engine'[g] = "up" => row'.gen = g /\ row'.life # "stopped"
    BY <1>0 DEF IInv, EngineInv
  <2>2. row'.gen \in Nat /\ (t \in Gen => t \in Nat)
    BY ConstantFacts
  <2>3. \A g \in Gen : g > row'.gen => engine'[g] = "off" /\ call'[g].pc = "idle"
    BY <1>0, <1>2, <2>2, ConstantFacts DEF IInv, EngineInv
  <2>4. /\ policy' # NoLease => policy'.gen <= row'.gen
        /\ \A u \in Task : call'[u].gen <= row'.gen
    BY <1>2 DEF IInv, EngineInv
  <2>5. policy' # NoLease /\ row'.gen = policy'.gen /\ row'.life # "stopped" => engine'[row'.gen] = "up"
    BY <1>0 DEF IInv, EngineInv
  <2>6. \A u \in Task : /\ call'[u].op = "open" /\ call'[u].pc \in {"read", "policy"}
                        /\ row'.gen = call'[u].gen /\ row'.life # "stopped"
                        => engine'[row'.gen] = "up"
    BY <1>0, <1>2 DEF IInv, EngineInv
  <2>7. QED
    BY <2>1, <2>3, <2>4, <2>5, <2>6 DEF EngineInv
<1>6. Nursed' <=> Nursed
  BY <1>0, <1>2 DEF Nursed, CloseDue
<1>7. QED
  BY <1>1, <1>2, <1>3, <1>4, <1>5, <1>6, Framed

\* Nobody moves.
LEMMA Unmoved ==
  ASSUME IInv, UNCHANGED <<policy, pending, parked, lane, publishing, public, lost, misread, engine, call>>,
         row' \in [gen : Gen, life : {"running", "stopping", "stopped"}, working : BOOLEAN, epoch : Nat],
         routes' \subseteq Channel,
         row'.gen = row.gen, row'.life = "stopped" <=> row.life = "stopped"
  PROVE  IInv'
<1>1. SessionOK' /\ CallsOK'
  BY DEF IInv, TypeOK, SessionOK, CallsOK
<1>2. EngineInv'
  BY DEF IInv, EngineInv
<1>3. Nursed' <=> Nursed
  BY DEF Nursed, CloseDue
<1>4. QED
  BY <1>1, <1>2, <1>3, Framed

\* What a step that concerns the session uses of its row.
LEMMA RowFacts ==
  ASSUME IInv
  PROVE  /\ row.gen \in Gen /\ row.life \in {"running", "stopping", "stopped"}
         /\ row.working \in BOOLEAN /\ row.epoch \in Nat /\ row.epoch + 1 \in Nat
         /\ row \in [gen : Gen, life : {"running", "stopping", "stopped"}, working : BOOLEAN, epoch : Nat]
         /\ row.gen \in Nat /\ row.gen <= row.gen /\ 0 <= row.gen
         /\ routes \subseteq Channel /\ Truth \in Projection
         /\ \A t \in Caller : t \in Task /\ t \notin Gen
<1>1. SessionOK
  BY DEF IInv, TypeOK
<1>2. Truth \in Projection
  BY <1>1 DEF SessionOK, Truth, Projection
<1>3. \A t \in Caller : t \in Task /\ t \notin Gen
  BY ConstantFacts
<1>4. row.gen \in Gen /\ row.epoch \in Nat /\ row.epoch + 1 \in Nat
  BY <1>1 DEF SessionOK
<1>5. row.gen \in Nat /\ row.gen <= row.gen /\ 0 <= row.gen
  <2>1. row.gen \in Nat
    BY <1>4, ConstantFacts
  <2>2. QED
    BY <2>1
<1>6. QED
  BY <1>1, <1>2, <1>3, <1>4, <1>5 DEF SessionOK

\* An edge of a turn, an admission, a leave or a forget turns an idle task.
LEMMA RequestsKeep ==
  ASSUME IInv, NEW t \in Caller,
         TurnEdge(t) \/ Forget(t) \/ \E k \in Channel : Admit(t, k) \/ Leave(t, k)
  PROVE  IInv'
<1>1. CASE TurnEdge(t)
  <2>1. row' = [row EXCEPT !.working = ~row.working] /\ routes' = routes
    BY <1>1 DEF TurnEdge
  <2> DEFINE c == Begin("reconcile", row.gen, NoScope)
  <2>2. c \in Call /\ c.op = "reconcile" /\ c.gen = row.gen /\ c.job = NoJob /\ c.pc = "read"
    BY BeginIsTyped, RowFacts, NoJobFacts
  <2>3. Starts(t, c) /\ call[t].pc = "idle"
    BY <1>1 DEF TurnEdge, Free
  <2>4. QED
    BY <1>1, <2>1, <2>2, <2>3, RowFacts, Moved DEF TurnEdge, publisher, Reads
<1>2. ASSUME NEW k \in Channel, Admit(t, k) PROVE IInv'
  <2>1. row' = row /\ routes' \subseteq Channel
    BY <1>2, RowFacts DEF Admit
  <2> DEFINE c == Begin("reassert", row.gen, [channels |-> {k}, member |-> TRUE])
  <2>2. c \in Call /\ c.op = "reassert" /\ c.gen = row.gen /\ c.job = NoJob /\ c.pc = "read"
    <3>1. [channels |-> {k}, member |-> TRUE] \in Scope
      BY DEF Scope
    <3>2. QED
      BY <3>1, BeginIsTyped, RowFacts
  <2>3. Starts(t, c) /\ call[t].pc = "idle"
    BY <1>2 DEF Admit, Free
  <2>4. QED
    BY <1>2, <2>1, <2>2, <2>3, RowFacts, Moved DEF Admit, publisher, Reads
<1>3. ASSUME NEW k \in Channel, Leave(t, k) PROVE IInv'
  <2>1. row' = row /\ routes' \subseteq Channel
    BY <1>3, RowFacts DEF Leave
  <2> DEFINE c == Begin("now", row.gen, [channels |-> {k}, member |-> FALSE])
  <2>2. c \in Call /\ c.op = "now" /\ c.gen = row.gen /\ c.job = NoJob /\ c.pc = "read"
    <3>1. [channels |-> {k}, member |-> FALSE] \in Scope
      BY DEF Scope
    <3>2. QED
      BY <3>1, BeginIsTyped, RowFacts
  <2>3. Starts(t, c) /\ call[t].pc = "idle"
    BY <1>3 DEF Leave, Free
  <2>4. QED
    BY <1>3, <2>1, <2>2, <2>3, RowFacts, Moved DEF Leave, publisher, Reads
<1>4. CASE Forget(t)
  <2>1. row' = row /\ routes' \subseteq Channel
    BY <1>4, RowFacts DEF Forget
  <2> DEFINE c == Begin("revoke", row.gen, NoScope)
  <2>2. c \in Call /\ c.op = "revoke" /\ c.gen = row.gen /\ c.job = NoJob /\ c.pc = "policy"
    BY BeginIsTyped, RowFacts, NoJobFacts
  <2>3. Starts(t, c) /\ call[t].pc = "idle"
    BY <1>4 DEF Forget, Free
  <2>4. QED
    BY <1>4, <2>1, <2>2, <2>3, RowFacts, Moved DEF Forget, publisher
<1>5. QED
  BY <1>1, <1>2, <1>3, <1>4

\* A generation beyond the row's has no call under way.
LEMMA BusyIsKnown ==
  ASSUME IInv, NEW t \in Task, call[t].pc # "idle"
  PROVE  /\ t \in Gen => t <= row.gen
         /\ call[t] \in Call /\ call[t].gen <= row.gen
<1>1. ~(t \in Gen /\ t > row.gen) /\ call[t].gen <= row.gen
  BY DEF IInv, EngineInv
<1>2. t \in Gen => t \in Nat
  BY ConstantFacts
<1>3. row.gen \in Nat
  BY RowFacts
<1>4. QED
  BY <1>1, <1>2, <1>3 DEF IInv, TypeOK, CallsOK

\* A call that reads, or removes the member, goes on for its generation.
LEMMA RemovalsKeep ==
  ASSUME IInv, NEW t \in Task, RemoveMember(t) \/ RemoveAll(t) \/ Read(t)
  PROVE  IInv'
<1>1. CASE RemoveMember(t)
  <2>1. call[t].pc = "remove" /\ call[t].op = "now"
    BY <1>1 DEF RemoveMember
  <2>2. call[t] \in Call /\ call[t].gen <= row.gen /\ (t \in Gen => t <= row.gen)
    BY <2>1, BusyIsKnown
  <2>3. call[t].scope \in Scope /\ call[t].scope.channels \subseteq Channel /\ call[t].gen \in Gen
    BY <2>1, <2>2 DEF Call, Scope, IInv, TypeOK, CallsOK
  <2>4. row' = row /\ routes' \subseteq Channel
    BY <1>1, <2>3, RowFacts DEF RemoveMember
  <2>5. PICK s \in Scope : Starts(t, Begin("reconcile", call[t].gen, s))
    BY <1>1, <2>3, NoJobFacts DEF RemoveMember
  <2> DEFINE c == Begin("reconcile", call[t].gen, s)
  <2>6. c \in Call /\ c.op = "reconcile" /\ c.gen = call[t].gen /\ c.job = NoJob /\ c.pc = "read"
    BY <2>3, BeginIsTyped
  <2>7. QED
    BY <1>1, <2>1, <2>2, <2>3, <2>4, <2>5, <2>6, RowFacts, Moved DEF RemoveMember, publisher, Reads
<1>2. CASE RemoveAll(t)
  <2>1. call[t].pc = "remove" /\ Starts(t, Idle) /\ row' = row /\ routes' = routes
    BY <1>2 DEF RemoveAll
  <2>2. t \in Gen => t <= row.gen
    BY <2>1, BusyIsKnown
  <2>3. QED
    BY <1>2, <2>1, <2>2, IdleIsTyped, RowFacts, Moved DEF RemoveAll, publisher
<1>3. CASE Read(t)
  <2>1. call[t].pc = "read" /\ row' = row /\ routes' = routes
    BY <1>3 DEF Read, session
  <2>2. call[t] \in Call /\ call[t].gen <= row.gen /\ (t \in Gen => t <= row.gen)
    BY <2>1, BusyIsKnown
  <2>3. /\ call[t].job = NoJob /\ (call[t].op # "none" => call[t].gen \in Gen) /\ call[t].op # "none"
        /\ Reads(call[t].op) /\ (call[t].op = "now" => t \in Caller)
    BY <2>1 DEF IInv, TypeOK, CallsOK
  <2> DEFINE r == [call[t] EXCEPT !.pc = "policy", !.reading = Truth]
  <2>4. CASE Starts(t, r)
    <3>1. r \in Call /\ r.op = call[t].op /\ r.gen = call[t].gen /\ r.job = NoJob /\ r.pc = "policy"
      BY <2>2, <2>3, RowFacts DEF Call
    <3>2. r.op # "close"
      BY <2>3, <3>1 DEF Reads
    <3>3. QED
      BY <1>3, <2>1, <2>2, <2>3, <2>4, <3>1, <3>2, RowFacts, Moved DEF Read, publisher, session
  <2>5. CASE Starts(t, Following(call[t]))
    <3> DEFINE d == Following(call[t])
    <3>1. d \in Call /\ d.job = NoJob /\ d.pc \in {"idle", "remove"}
          /\ ((d.gen = 0 /\ d.op = "none") \/ (d.gen = call[t].gen /\ d.op = call[t].op))
      BY <2>2, FollowingIsTyped
    <3>2. QED
      BY <1>3, <2>1, <2>2, <2>3, <2>5, <3>1, RowFacts, Moved DEF Read, publisher, session
  <2>6. QED
    BY <1>3, <2>4, <2>5 DEF Read
<1>4. QED
  BY <1>1, <1>2, <1>3

\* An engine that still runs is of no generation to come.
LEMMA RenewKeeps ==
  ASSUME IInv, NEW g \in Gen, Renew(g)
  PROVE  IInv'
<1>1. engine[g] # "off" /\ call[g].pc = "idle" /\ row' = row /\ routes' = routes
      /\ Starts(g, Begin("renew", g, NoScope)) /\ g \in Task
  BY ConstantFacts DEF Renew, session
<1>2. g \in Nat /\ row.gen \in Nat /\ ~(g > row.gen)
  BY <1>1, ConstantFacts, RowFacts DEF IInv, EngineInv
<1>3. g <= row.gen
  BY <1>2
<1> DEFINE c == Begin("renew", g, NoScope)
<1>4. c \in Call /\ c.op = "renew" /\ c.gen = g /\ c.job = NoJob /\ c.pc = "policy"
  BY BeginIsTyped, NoJobFacts
<1>5. QED
  BY <1>1, <1>3, <1>4, RowFacts, Moved DEF Renew, publisher, session

\* An eviction that is reserved or cancelled, a lost admission and a new view
\* concern no call.
LEMMA LifeKeeps ==
  ASSUME IInv,
         Reserve \/ CancelEviction \/ ViewFollows \/ \E k \in Channel : AdmissionFails(k)
  PROVE  IInv'
<1>1. CASE Reserve
  BY <1>1, RowFacts, Unmoved DEF Reserve, Running, publisher
<1>2. CASE CancelEviction
  BY <1>2, RowFacts, Unmoved DEF CancelEviction, publisher
<1>3. CASE ViewFollows
  BY <1>3, RowFacts, Unmoved DEF ViewFollows, publisher, session
<1>4. CASE \E k \in Channel : AdmissionFails(k)
  BY <1>4, RowFacts, Unmoved DEF AdmissionFails, publisher
<1>5. QED
  BY <1>1, <1>2, <1>3, <1>4

\* A generation that stops leaves its lease to the engine it cancels.
LEMMA StopKeeps ==
  ASSUME IInv, NEW t \in Caller, Stop(t)
  PROVE  IInv'
<1> DEFINE c == Begin("close", row.gen, NoScope)
           n == row.gen
<1>1. /\ call' = [call EXCEPT ![t] = c] /\ call[t].pc = "idle"
      /\ row' = [row EXCEPT !.life = "stopped", !.working = FALSE, !.epoch = row.epoch + 1]
      /\ row.life # "stopped"
      /\ engine' = [engine EXCEPT ![n] = IF engine[n] = "up" THEN "cancelled" ELSE engine[n]]
      /\ routes' = routes
      /\ UNCHANGED <<policy, pending, parked, lane, publishing, public, lost, misread>>
  BY DEF Stop, Starts, Free, Cancelled, Running, publisher
<1>2. c \in Call /\ c.op = "close" /\ c.gen = n /\ c.job = NoJob /\ c.pc = "policy"
  BY BeginIsTyped, RowFacts, NoJobFacts
<1>3. t \in Task /\ t \notin Gen /\ n \in Gen /\ call[t].job = NoJob
  BY <1>1, RowFacts DEF IInv, TypeOK, CallsOK
<1>4. call' \in [Task -> Call] /\ call'[t] = c /\ \A u \in Task \ {t} : call'[u] = call[u]
  BY <1>1, <1>2, <1>3 DEF IInv, TypeOK, CallsOK
<1>5. /\ engine' \in [Gen -> {"off", "up", "cancelled"}]
      /\ engine'[n] = (IF engine[n] = "up" THEN "cancelled" ELSE engine[n])
      /\ \A g \in Gen \ {n} : engine'[g] = engine[g]
  BY <1>1, <1>3 DEF IInv, TypeOK, SessionOK
<1>6. row'.gen = n /\ row'.life = "stopped" /\ SessionOK'
  BY <1>1, <1>5, RowFacts DEF SessionOK
<1>7. CallsOK'
  BY <1>2, <1>3, <1>4, NoJobFacts DEF IInv, TypeOK, CallsOK
<1>8. EngineInv'
  <2>1. \A g \in Gen : engine'[g] # "up"
    BY <1>5 DEF IInv, EngineInv
  <2>2. \A g \in Gen : g > n => g # n
    BY RowFacts
  <2>3. \A g \in Gen : g > n => engine'[g] = "off" /\ call'[g].pc = "idle"
    BY <1>3, <1>4, <1>5, <2>2, ConstantFacts DEF IInv, EngineInv
  <2>4. \A u \in Task : call'[u].gen <= n
    BY <1>2, <1>4, RowFacts DEF IInv, EngineInv
  <2>5. QED
    BY <1>1, <1>6, <2>1, <2>3, <2>4 DEF IInv, EngineInv
<1>9. policy # NoLease => (Nursed' <=> Nursed)
  <2>1. engine[n] = "up" \/ policy = NoLease \/ n # policy.gen
    BY <1>1 DEF IInv, EngineInv
  <2>2. policy # NoLease => policy.gen \in Gen
    BY DEF IInv, TypeOK, PublisherOK
  <2>3. \A g \in Gen \ {n} : CloseDue(g)' <=> CloseDue(g)
    BY <1>1, <1>2, <1>3, <1>4 DEF CloseDue
  <2>4. QED
    BY <1>1, <1>5, <1>6, <2>1, <2>2, <2>3 DEF Nursed
<1>10. QED
  BY <1>1, <1>2, <1>3, <1>4, <1>6, <1>7, <1>8, <1>9, Framed

\* An engine that ends leaves the lease to the call that closes it.
LEMMA EngineEndsKeeps ==
  ASSUME IInv, NEW h \in Gen, EngineEnds(h)
  PROVE  IInv'
<1> DEFINE c == Begin("close", h, NoScope)
<1>1. /\ call' = [call EXCEPT ![h] = c] /\ call[h].pc = "idle"
      /\ engine[h] = "cancelled" /\ engine' = [engine EXCEPT ![h] = "off"]
      /\ row' = row /\ routes' = routes
      /\ UNCHANGED <<policy, pending, parked, lane, publishing, public, lost, misread>>
  BY DEF EngineEnds, Starts, session, publisher
<1>2. c \in Call /\ c.op = "close" /\ c.gen = h /\ c.job = NoJob /\ c.pc = "policy"
  BY BeginIsTyped, NoJobFacts
<1>3. h \in Task /\ call[h].job = NoJob
  BY <1>1, ConstantFacts DEF IInv, TypeOK, CallsOK
<1>4. call' \in [Task -> Call] /\ call'[h] = c /\ \A u \in Task \ {h} : call'[u] = call[u]
  BY <1>1, <1>2, <1>3 DEF IInv, TypeOK, CallsOK
<1>5. /\ engine' \in [Gen -> {"off", "up", "cancelled"}]
      /\ engine'[h] = "off" /\ \A g \in Gen \ {h} : engine'[g] = engine[g]
  BY <1>1 DEF IInv, TypeOK, SessionOK
<1>6. SessionOK'
  BY <1>1, <1>5, RowFacts DEF SessionOK
<1>7. CallsOK'
  BY <1>2, <1>3, <1>4, NoJobFacts, ConstantFacts DEF IInv, TypeOK, CallsOK
<1>8. EngineInv'
  <2>0. h \in Nat /\ row.gen \in Nat /\ row.gen \in Gen
    BY ConstantFacts, RowFacts
  <2>1. h <= row.gen /\ (engine[row.gen] = "up" => engine'[row.gen] = "up")
    BY <1>1, <1>5, <2>0 DEF IInv, EngineInv
  <2>2. \A g \in Gen : g > row.gen => g # h
    BY <2>0, <2>1
  <2>3. \A g \in Gen : g > row.gen => engine'[g] = "off" /\ call'[g].pc = "idle"
    BY <1>3, <1>4, <1>5, <2>2, ConstantFacts DEF IInv, EngineInv
  <2>4. \A u \in Task : call'[u].gen <= row.gen
    BY <1>2, <1>4, <2>1 DEF IInv, EngineInv
  <2>5. \A g \in Gen : engine'[g] = "up" => row.gen = g /\ row.life # "stopped"
    BY <1>5 DEF IInv, EngineInv
  <2>6. \A u \in Task : /\ call'[u].op = "open" /\ call'[u].pc \in {"read", "policy"}
                        /\ row.gen = call'[u].gen /\ row.life # "stopped"
                        => engine'[row.gen] = "up"
    BY <1>2, <1>4, <2>1 DEF IInv, EngineInv
  <2>7. QED
    BY <1>1, <2>1, <2>3, <2>4, <2>5, <2>6 DEF IInv, EngineInv
<1>9. policy # NoLease => (Nursed' <=> Nursed)
  <2>1. policy # NoLease => policy.gen \in Gen
    BY DEF IInv, TypeOK, PublisherOK
  <2>2. \A g \in Gen \ {h} : CloseDue(g)' <=> CloseDue(g)
    BY <1>1, <1>2, <1>3, <1>4 DEF CloseDue
  <2>3. CloseDue(h)'
    BY <1>2, <1>3, <1>4 DEF CloseDue
  <2>4. QED
    BY <1>1, <1>5, <2>1, <2>2, <2>3 DEF Nursed
<1>10. QED
  BY <1>1, <1>2, <1>3, <1>4, <1>6, <1>7, <1>8, <1>9, Framed

\* The generation launched had neither a lease nor an engine nor a call.
LEMMA LaunchKeeps ==
  ASSUME IInv, Launch
  PROVE  IInv'
<1> DEFINE n == row.gen
           m == row.gen + 1
           c == Begin("open", m, NoScope)
<1>1. /\ call' = [call EXCEPT ![m] = c] /\ row.life = "stopped" /\ n < MaxGen
      /\ row' = [gen |-> m, life |-> "running", working |-> FALSE, epoch |-> row.epoch + 1]
      /\ engine' = [engine EXCEPT ![m] = "up", ![n] = IF engine[n] = "up" THEN "cancelled" ELSE engine[n]]
      /\ routes' = routes
      /\ UNCHANGED <<policy, pending, parked, lane, publishing, public, lost, misread>>
  BY DEF Launch, Starts, publisher
<1>2. m \in Gen /\ m \in Task /\ n \in Gen /\ m > n /\ m # n /\ m \in Nat /\ n \in Nat
  <2>1. n \in Nat /\ MaxGen \in Nat /\ n \in Gen
    BY RowFacts, ConstantFacts
  <2>2. m \in Gen
    BY <1>1, <2>1 DEF Gen
  <2>3. QED
    BY <2>1, <2>2, ConstantFacts
<1>3. c \in Call /\ c.op = "open" /\ c.gen = m /\ c.job = NoJob /\ c.pc = "read"
  BY <1>2, BeginIsTyped, NoJobFacts
<1>4. call[m].pc = "idle" /\ call[m].job = NoJob
  BY <1>2 DEF IInv, EngineInv, TypeOK, CallsOK
<1>5. call' \in [Task -> Call] /\ call'[m] = c /\ \A u \in Task \ {m} : call'[u] = call[u]
  BY <1>1, <1>2, <1>3 DEF IInv, TypeOK, CallsOK
<1>6. engine[n] # "up"
  BY <1>1, <1>2 DEF IInv, EngineInv
<1>7. /\ engine' \in [Gen -> {"off", "up", "cancelled"}]
      /\ engine'[m] = "up" /\ \A g \in Gen \ {m} : engine'[g] = engine[g]
  BY <1>1, <1>2, <1>6 DEF IInv, TypeOK, SessionOK
<1>8. row'.gen = m /\ row'.life = "running" /\ SessionOK'
  BY <1>1, <1>2, <1>7, RowFacts DEF SessionOK
<1>9. CallsOK'
  BY <1>2, <1>3, <1>5, NoJobFacts DEF IInv, TypeOK, CallsOK, Reads
<1>10. EngineInv'
  <2>1. \A g \in Gen : engine'[g] = "up" => m = g
    BY <1>1, <1>7 DEF IInv, EngineInv
  <2>2. \A g \in Gen : g > m => g # m /\ g > n
    BY <1>2, ConstantFacts
  <2>3. \A g \in Gen : g > m => engine'[g] = "off" /\ call'[g].pc = "idle"
    BY <1>2, <1>5, <1>7, <2>2, ConstantFacts DEF IInv, EngineInv
  <2>4. \A k \in Nat : k <= n => k <= m
    BY <1>2
  <2>5. \A u \in Task : call[u].gen \in Nat /\ call[u].gen <= n
    BY DEF IInv, EngineInv, TypeOK, CallsOK, Call
  <2>6. \A u \in Task : call'[u].gen <= m
    BY <1>2, <1>3, <1>5, <2>4, <2>5
  <2>7. policy # NoLease => policy.gen \in Nat /\ policy.gen <= n
    BY ConstantFacts DEF IInv, EngineInv, TypeOK, PublisherOK
  <2>8. QED
    BY <1>1, <1>7, <1>8, <2>1, <2>3, <2>4, <2>6, <2>7 DEF EngineInv
<1>11. policy # NoLease => (Nursed' <=> Nursed)
  <2>1. policy # NoLease => policy.gen \in Gen /\ policy.gen # m
    BY <1>2, ConstantFacts DEF IInv, TypeOK, PublisherOK, EngineInv
  <2>2. \A g \in Gen : CloseDue(g)' <=> CloseDue(g)
    BY <1>1, <1>2, <1>3, <1>4, <1>5 DEF CloseDue
  <2>3. QED
    BY <1>1, <1>7, <1>8, <2>1, <2>2 DEF Nursed
<1>12. QED
  BY <1>1, <1>2, <1>3, <1>4, <1>5, <1>8, <1>9, <1>10, <1>11, Framed

----------------------------------------------------------------------------
(* Steps of the publisher *)

Turns == Caller \union Holder

\* Who queues comes last; who leaves, first.
LEMMA LaneFacts ==
  ASSUME NEW s \in Seq(Turns), NEW h \in Turns
  PROVE  /\ Append(s, h) \in Seq(Turns) /\ Append(s, h) # <<>>
         /\ s # <<>> => /\ Head(Append(s, h)) = Head(s)
                        /\ Tail(s) \in Seq(Turns) /\ Append(Tail(s), h) \in Seq(Turns)
<1>1. Append(s, h) \in Seq(Turns) /\ Append(s, h) # <<>>
  BY AppendProperties
<1>2. ASSUME s # <<>> PROVE Tail(s) \in Seq(Turns)
  BY <1>2, HeadTailProperties
<1>3. ASSUME s # <<>> PROVE Append(Tail(s), h) \in Seq(Turns)
  BY <1>2, <1>3, AppendProperties
<1>4. ASSUME s # <<>> PROVE Head(Append(s, h)) = Head(s)
  BY <1>4, HeadTailAppend
<1>5. QED
  BY <1>1, <1>2, <1>3, <1>4

\* A call that hands its job over, and may be done with.
Advances(u) ==
  \/ call'[u] = call[u]
  \/ /\ call[u].pc \in {"submit", "await"} /\ call'[u].pc \in {"idle", "remove", "await"}
     /\ call'[u].job = NoJob
     /\ \/ call'[u].gen = 0 /\ call'[u].op = "none"
        \/ call'[u].gen = call[u].gen /\ call'[u].op = call[u].op

\* Handing jobs over changes nothing about engines and leases.
LEMMA Settled ==
  ASSUME IInv, UNCHANGED <<row, routes, engine, policy, misread>>,
         call' \in [Task -> Call], \A u \in Task : Advances(u)
  PROVE  /\ SessionOK' /\ CallsOK' /\ EngineInv' /\ NurseInv'
         /\ policy # NoLease => (Nursed' <=> Nursed)
<1>1. SessionOK'
  BY DEF IInv, TypeOK, SessionOK
<1>2. CallsOK'
  BY NoJobFacts DEF IInv, TypeOK, CallsOK, Advances
<1>3. EngineInv'
  <2>1. \A g \in Gen : g > row.gen => call'[g].pc = "idle"
    BY ConstantFacts DEF IInv, EngineInv, Advances
  <2>2. \A u \in Task : call'[u].gen <= row.gen
    BY RowFacts DEF IInv, EngineInv, Advances
  <2>3. \A u \in Task : call'[u].pc \in {"read", "policy"} => call'[u] = call[u]
    BY DEF Advances
  <2>4. QED
    BY <2>1, <2>2, <2>3 DEF IInv, EngineInv
<1>4. \A g : CloseDue(g)' <=> CloseDue(g)
  BY DEF CloseDue, Advances
<1>5. policy # NoLease => (Nursed' <=> Nursed)
  BY <1>4 DEF Nursed
<1>6. NurseInv'
  BY <1>5 DEF IInv, NurseInv, Shows
<1>7. QED
  BY <1>1, <1>2, <1>3, <1>5, <1>6

\* What the publisher's state is made of.
LEMMA PublisherFacts ==
  ASSUME IInv
  PROVE  /\ PublisherOK /\ lane \in Seq(Turns)
         /\ pending \in Job /\ parked \in Job /\ publishing \in Job
         /\ Numbered(pending) /\ Numbered(parked) /\ Numbered(publishing)
         /\ pending.rev \in Nat /\ parked.rev \in Nat /\ publishing.rev \in Nat /\ public.rev \in Nat
         /\ \A u \in Task : call[u] \in Call /\ call[u].job \in Job /\ Numbered(call[u].job)
                            /\ call[u].job.rev \in Nat
         /\ call \in [Task -> Call]
         /\ NoJob.rev = 0 /\ NoJob \in Job /\ Numbered(NoJob)
BY NoJobFacts DEF IInv, TypeOK, PublisherOK, CallsOK, Call, Job, Turns

\* A turn in the lane is taken by the worker or a task in its publication.
LEMMA Publishing ==
  ASSUME IInv, publishing # NoJob
  PROVE  /\ lane # <<>> /\ Head(lane) # "other" /\ Head(lane) # "requeue"
         /\ \/ Head(lane) = "worker"
            \/ /\ Head(lane) \in Caller /\ Head(lane) # "worker" /\ Head(lane) \in Task
               /\ call[Head(lane)].pc = "await" /\ call[Head(lane)].job = NoJob
BY ConstantFacts DEF IInv, LaneInv, Holder

\* Steps that only queue.
LEMMA QueueKeeps ==
  ASSUME IInv, WorkerWakes \/ OtherQueues \/ RequeueQueues
  PROVE  IInv'
<1>1. /\ UNCHANGED <<row, routes, engine, call, policy, pending, parked, publishing, public, lost, misread>>
      /\ \E h \in Turns : lane' = Append(lane, h)
  <2>1. "worker" \in Turns /\ "other" \in Turns /\ "requeue" \in Turns
    BY DEF Turns, Holder
  <2>2. QED
    BY <2>1 DEF WorkerWakes, OtherQueues, RequeueQueues, session
<1>2. PICK h \in Turns : lane' = Append(lane, h)
  BY <1>1
<1>3. lane' \in Seq(Turns) /\ lane' # <<>> /\ (lane # <<>> => Head(lane') = Head(lane))
  BY <1>2, PublisherFacts, LaneFacts
<1>4. SessionOK' /\ CallsOK' /\ EngineInv' /\ NurseInv' /\ (policy # NoLease => (Nursed' <=> Nursed))
  BY <1>1, PublisherFacts, Settled DEF Advances
<1>5. PublisherOK'
  BY <1>1, <1>3, PublisherFacts DEF PublisherOK, Turns
<1>6. LaneInv'
  BY <1>1, <1>3 DEF IInv, LaneInv
<1>7. CarryInv'
  BY <1>1, <1>4, CarryKept
<1>8. QED
  BY <1>4, <1>5, <1>6, <1>7 DEF IInv, TypeOK

\* A turn of another session in the lane ends.
LEMMA OtherDoneKeeps ==
  ASSUME IInv, OtherDone
  PROVE  IInv'
<1>1. /\ UNCHANGED <<row, routes, engine, call, policy, pending, parked, publishing, public, lost, misread>>
      /\ lane # <<>> /\ Head(lane) = "other" /\ lane' = Tail(lane)
  BY DEF OtherDone, Holds, session
<1>2. lane' \in Seq(Turns)
  BY <1>1, PublisherFacts, HeadTailProperties
<1>3. SessionOK' /\ CallsOK' /\ EngineInv' /\ NurseInv' /\ (policy # NoLease => (Nursed' <=> Nursed))
  BY <1>1, PublisherFacts, Settled DEF Advances
<1>4. PublisherOK'
  BY <1>1, <1>2, PublisherFacts DEF PublisherOK, Turns
<1>5. publishing = NoJob
  BY <1>1, Publishing
<1>6. LaneInv'
  BY <1>1, <1>5 DEF LaneInv
<1>7. CarryInv'
  BY <1>1, <1>3, CarryKept
<1>8. QED
  BY <1>3, <1>4, <1>6, <1>7 DEF IInv, TypeOK

\* The job a task submits overwrites the pending one: it is the last outcome's,
\* or a newer one is elsewhere, unless it comes late.
LEMMA SubmitKeeps ==
  ASSUME IInv, NEW t \in Task, Submit(t)
  PROVE  IInv'
<1> DEFINE job == call[t].job
           d == Following(call[t])
<1>1. /\ call[t].pc = "submit" /\ pending' = job /\ call' = [call EXCEPT ![t] = d]
      /\ lost' = (lost \/ Late(job))
      /\ UNCHANGED <<row, routes, engine, policy, parked, lane, publishing, public, misread>>
  BY DEF Submit, Starts, session
<1>2. /\ d \in Call /\ d.job = NoJob /\ d.pc \in {"idle", "remove"}
      /\ ((d.gen = 0 /\ d.op = "none") \/ (d.gen = call[t].gen /\ d.op = call[t].op))
  BY FollowingIsTyped, PublisherFacts
<1>3. call' \in [Task -> Call] /\ call'[t] = d /\ \A u \in Task \ {t} : call'[u] = call[u]
  BY <1>1, <1>2, PublisherFacts
<1>4. SessionOK' /\ CallsOK' /\ EngineInv' /\ NurseInv' /\ (policy # NoLease => (Nursed' <=> Nursed))
  <2>1. \A u \in Task : Advances(u)
    BY <1>1, <1>2, <1>3 DEF Advances
  <2>2. QED
    BY <1>1, <1>3, <2>1, Settled
<1>5. PublisherOK'
  BY <1>1, PublisherFacts DEF PublisherOK, Late
<1>6. LaneInv'
  BY <1>1, <1>3, ConstantFacts DEF IInv, LaneInv
<1>7. CarryInv'
  <2> SUFFICES ASSUME ~lost' PROVE CarryInv'
    BY DEF CarryInv
  <2>1. ~lost /\ ~Late(job)
    BY <1>1
  <2>2. /\ job.rev \in Nat /\ pending.rev \in Nat /\ parked.rev \in Nat /\ publishing.rev \in Nat /\ public.rev \in Nat
        /\ (job.rev = 0 <=> job = NoJob) /\ NoJob.rev = 0 /\ (pending.rev = 0 <=> pending = NoJob)
        /\ (parked.rev = 0 <=> parked = NoJob) /\ (publishing.rev = 0 <=> publishing = NoJob)
    BY PublisherFacts DEF Numbered
  <2>3. pending.rev <= job.rev /\ parked.rev <= job.rev /\ publishing.rev <= job.rev /\ public.rev <= job.rev
    BY <2>1, <2>2 DEF Late
  <2>4. CASE \E u \in Task : InCall(u)
    <3>1. PICK u \in Task : InCall(u)
      BY <2>4
    <3>2. CASE u = t
      <4>1. /\ job # NoJob /\ Matches(policy, job.status) /\ job.rev > 0
            /\ \A v \in Task \ {t} : call[v].job.rev < job.rev
            /\ parked.rev < job.rev /\ publishing.rev < job.rev /\ public.rev < job.rev
        BY <3>1, <3>2, <2>2 DEF InCall
      <4>2. \A v \in Task : call'[v].job.rev < job.rev
        BY <1>2, <1>3, <2>2, <4>1
      <4>3. InPending'
        BY <1>1, <2>2, <4>1, <4>2 DEF InPending, Matches, Shows, CallsBefore
      <4>4. QED
        BY <4>3 DEF CarryInv
    <3>3. CASE u # t
      <4>1. job.rev < call[u].job.rev /\ 0 < call[u].job.rev
        BY <2>2, <3>1, <3>3, PublisherFacts DEF InCall
      <4>2. InCall(u)'
        BY <1>1, <1>2, <1>3, <2>2, <3>1, <3>3, <4>1 DEF InCall, Matches, Shows
      <4>3. QED
        BY <4>2 DEF CarryInv
    <3>4. QED
      BY <3>2, <3>3
  <2>5. CASE InPending \/ InPublishing \/ InParked
    BY <2>2, <2>3, <2>5 DEF InPending, InPublishing, InParked, CallsBefore
  <2>6. CASE Landed
    <3>1. job = NoJob
      BY <2>2, <2>3, <2>6 DEF Landed
    <3>2. Landed'
      BY <1>1, <1>2, <1>3, <1>4, <2>6, <3>1 DEF Landed, Shows
    <3>3. QED
      BY <3>2 DEF CarryInv
  <2>7. QED
    BY <2>1, <2>4, <2>5, <2>6 DEF IInv, CarryInv
<1>8. QED
  BY <1>4, <1>5, <1>6, <1>7 DEF IInv, TypeOK

\* The worker takes the pending job.
LEMMA WorkerKeeps ==
  ASSUME IInv, WorkerTakes
  PROVE  IInv'
<1>1. /\ lane # <<>> /\ Head(lane) = "worker" /\ publishing = NoJob
      /\ publishing' = pending /\ pending' = NoJob
      /\ lane' = (IF pending = NoJob THEN Tail(lane) ELSE lane)
      /\ UNCHANGED <<row, routes, engine, call, policy, parked, public, lost, misread>>
  BY DEF WorkerTakes, Holds, session
<1>2. lane' \in Seq(Turns)
  BY <1>1, PublisherFacts, HeadTailProperties
<1>3. SessionOK' /\ CallsOK' /\ EngineInv' /\ NurseInv' /\ (policy # NoLease => (Nursed' <=> Nursed))
  BY <1>1, PublisherFacts, Settled DEF Advances
<1>4. PublisherOK'
  BY <1>1, <1>2, PublisherFacts DEF PublisherOK, Turns
<1>5. LaneInv'
  BY <1>1 DEF LaneInv
<1>6. CarryInv'
  <2> SUFFICES ASSUME ~lost PROVE CarryInv'
    BY <1>1 DEF CarryInv
  <2>1. NoJob.rev = 0
    BY PublisherFacts
  <2>2. CASE \E u \in Task : InCall(u)
    <3>1. PICK u \in Task : InCall(u)
      BY <2>2
    <3>2. InCall(u)'
      BY <1>1, <2>1, <3>1 DEF InCall, Matches, Shows
    <3>3. QED
      BY <3>2 DEF CarryInv
  <2>3. CASE InPending
    <3>1. InPublishing'
      BY <1>1, <2>3 DEF InPending, InPublishing, Matches, Shows, CallsBefore
    <3>2. QED
      BY <3>1 DEF CarryInv
  <2>4. CASE InPublishing
    BY <1>1, <2>4 DEF InPublishing
  <2>5. CASE InParked
    <3>1. InParked'
      BY <1>1, <2>5 DEF InParked, Matches, Shows, CallsBefore
    <3>2. QED
      BY <3>1 DEF CarryInv
  <2>6. CASE Landed
    <3>1. Landed'
      BY <1>1, <1>3, <2>6 DEF Landed, Shows
    <3>2. QED
      BY <3>1 DEF CarryInv
  <2>7. QED
    BY <2>2, <2>3, <2>4, <2>5, <2>6 DEF IInv, CarryInv
<1>7. QED
  BY <1>3, <1>4, <1>5, <1>6 DEF IInv, TypeOK

\* A leave's own publication: what is pending or parked and not newer goes.
LEMMA AwaitedKeeps ==
  ASSUME IInv, NEW t \in Caller, AwaitedTakes(t)
  PROVE  IInv'
<1> DEFINE job == call[t].job
           d == [call[t] EXCEPT !.job = NoJob]
<1>1. /\ lane # <<>> /\ Head(lane) = t /\ publishing = NoJob /\ call[t].pc = "await"
      /\ publishing' = job
      /\ pending' = Dropped(pending, job.rev) /\ parked' = Dropped(parked, job.rev)
      /\ call' = [call EXCEPT ![t] = d] /\ lost' = (lost \/ Late(job))
      /\ UNCHANGED <<row, routes, engine, policy, lane, public, misread>>
  BY DEF AwaitedTakes, Starts, session, Holds
<1>2. t \in Task /\ d \in Call /\ d.job = NoJob /\ d.pc = "await" /\ d.gen = call[t].gen /\ d.op = call[t].op
  <2>1. t \in Task /\ call[t] \in Call /\ NoJob \in Job
    BY ConstantFacts, PublisherFacts
  <2>2. QED
    BY <1>1, <2>1 DEF Call
<1>3. call' \in [Task -> Call] /\ call'[t] = d /\ \A u \in Task \ {t} : call'[u] = call[u]
  BY <1>1, <1>2, PublisherFacts
<1>4. SessionOK' /\ CallsOK' /\ EngineInv' /\ NurseInv' /\ (policy # NoLease => (Nursed' <=> Nursed))
  <2>1. \A u \in Task : Advances(u)
    BY <1>1, <1>2, <1>3 DEF Advances
  <2>2. QED
    BY <1>1, <1>3, <2>1, Settled
<1>5. PublisherOK'
  BY <1>1, <1>2, PublisherFacts DEF PublisherOK, Late, Dropped
<1>6. LaneInv'
  BY <1>1, <1>2, <1>3 DEF LaneInv
<1>7. CarryInv'
  <2> SUFFICES ASSUME ~lost' PROVE CarryInv'
    BY DEF CarryInv
  <2>1. ~lost /\ ~Late(job)
    BY <1>1
  <2>2. /\ job.rev \in Nat /\ pending.rev \in Nat /\ parked.rev \in Nat /\ publishing.rev \in Nat /\ public.rev \in Nat
        /\ (job.rev = 0 <=> job = NoJob) /\ NoJob.rev = 0 /\ (pending.rev = 0 <=> pending = NoJob)
        /\ (parked.rev = 0 <=> parked = NoJob) /\ (publishing.rev = 0 <=> publishing = NoJob)
    BY <1>2, PublisherFacts DEF Numbered
  <2>3. /\ pending.rev <= job.rev /\ parked.rev <= job.rev /\ public.rev <= job.rev
        /\ pending' = NoJob /\ parked' = NoJob
    BY <1>1, <2>1, <2>2 DEF Late, Dropped
  <2>4. CASE \E u \in Task : InCall(u)
    <3>1. PICK u \in Task : InCall(u)
      BY <2>4
    <3>2. CASE u = t
      <4>1. /\ job # NoJob /\ Matches(policy, job.status) /\ job.rev > 0
            /\ \A v \in Task \ {t} : call[v].job.rev < job.rev
            /\ public.rev < job.rev
        BY <3>1, <3>2, <2>2 DEF InCall
      <4>2. \A v \in Task : call'[v].job.rev < job.rev
        BY <1>2, <1>3, <2>2, <4>1
      <4>3. InPublishing'
        BY <1>1, <2>2, <2>3, <4>1, <4>2 DEF InPublishing, Matches, Shows, CallsBefore
      <4>4. QED
        BY <4>3 DEF CarryInv
    <3>3. CASE u # t
      <4>1. job.rev < call[u].job.rev /\ 0 < call[u].job.rev
        BY <1>2, <2>2, <3>1, <3>3, PublisherFacts DEF InCall
      <4>2. InCall(u)'
        BY <1>1, <1>2, <1>3, <2>2, <2>3, <3>1, <3>3, <4>1 DEF InCall, Matches, Shows
      <4>3. QED
        BY <4>2 DEF CarryInv
    <3>4. QED
      BY <3>2, <3>3
  <2>5. CASE InPending \/ InPublishing \/ InParked
    BY <1>1, <1>2, <2>2, <2>3, <2>5 DEF InPending, InPublishing, InParked, CallsBefore
  <2>6. CASE Landed
    <3>1. job = NoJob
      BY <1>2, <2>2, <2>3, <2>6 DEF Landed
    <3>2. Landed'
      BY <1>1, <1>2, <1>3, <1>4, <2>3, <2>6, <3>1 DEF Landed, Shows
    <3>3. QED
      BY <3>2 DEF CarryInv
  <2>7. QED
    BY <2>1, <2>4, <2>5, <2>6 DEF IInv, CarryInv
<1>8. QED
  BY <1>4, <1>5, <1>6, <1>7 DEF IInv, TypeOK

\* Revision zero is that of no job.
LEMMA RevFacts ==
  ASSUME IInv
  PROVE  /\ pending.rev \in Nat /\ parked.rev \in Nat /\ publishing.rev \in Nat /\ public.rev \in Nat
         /\ NoJob.rev = 0 /\ (pending.rev = 0 <=> pending = NoJob)
         /\ (parked.rev = 0 <=> parked = NoJob) /\ (publishing.rev = 0 <=> publishing = NoJob)
         /\ \A u \in Task : call[u].job.rev \in Nat /\ (call[u].job.rev = 0 <=> call[u].job = NoJob)
BY PublisherFacts DEF Numbered

\* The parked job goes back to pending unless a newer one is there.
LEMMA RequeueKeeps ==
  ASSUME IInv, Requeue
  PROVE  IInv'
<1>1. /\ lane # <<>> /\ Head(lane) = "requeue" /\ lane' = Tail(lane) /\ parked' = NoJob
      /\ pending' = Requeued(parked)
      /\ UNCHANGED <<row, routes, engine, call, policy, publishing, public, lost, misread>>
  BY DEF Requeue, Holds, session
<1>2. lane' \in Seq(Turns)
  BY <1>1, PublisherFacts, HeadTailProperties
<1>3. SessionOK' /\ CallsOK' /\ EngineInv' /\ NurseInv' /\ (policy # NoLease => (Nursed' <=> Nursed))
  BY <1>1, PublisherFacts, Settled DEF Advances
<1>4. PublisherOK'
  BY <1>1, <1>2, PublisherFacts DEF PublisherOK, Turns, Requeued
<1>5. publishing = NoJob
  BY <1>1, Publishing
<1>6. LaneInv'
  BY <1>1, <1>5 DEF LaneInv
<1>7. CarryInv'
  <2> SUFFICES ASSUME ~lost PROVE CarryInv'
    BY <1>1 DEF CarryInv
  <2>1. pending' = (IF parked # NoJob /\ pending.rev < parked.rev THEN parked ELSE pending)
    BY <1>1 DEF Requeued
  <2>2. CASE \E u \in Task : InCall(u)
    <3>1. PICK u \in Task : InCall(u)
      BY <2>2
    <3>2. pending'.rev < call[u].job.rev /\ 0 < call[u].job.rev
      BY <2>1, <3>1, RevFacts DEF InCall
    <3>3. InCall(u)'
      BY <1>1, <3>1, <3>2, RevFacts DEF InCall, Matches, Shows
    <3>4. QED
      BY <3>3 DEF CarryInv
  <2>3. CASE InPending
    <3>1. pending' = pending /\ 0 < pending.rev
      BY <2>1, <2>3, RevFacts DEF InPending
    <3>2. InPending'
      BY <1>1, <2>3, <3>1, RevFacts DEF InPending, Matches, Shows, CallsBefore
    <3>3. QED
      BY <3>2 DEF CarryInv
  <2>4. CASE InPublishing
    BY <1>5, <2>4 DEF InPublishing
  <2>5. CASE InParked
    <3>1. pending' = parked /\ 0 < parked.rev
      BY <2>1, <2>5, RevFacts DEF InParked
    <3>2. InPending'
      BY <1>1, <2>5, <3>1, RevFacts DEF InParked, InPending, Matches, Shows, CallsBefore
    <3>3. QED
      BY <3>2 DEF CarryInv
  <2>6. CASE Landed
    <3>1. Landed'
      BY <1>1, <1>3, <2>1, <2>6 DEF Landed, Shows
    <3>2. QED
      BY <3>1 DEF CarryInv
  <2>7. QED
    BY <2>2, <2>3, <2>4, <2>5, <2>6 DEF IInv, CarryInv
<1>8. QED
  BY <1>3, <1>4, <1>6, <1>7 DEF IInv, TypeOK

\* A publication that ends takes no job from a call.
LEMMA PassesOn ==
  ASSUME IInv, publishing # NoJob, Passes, UNCHANGED <<row, routes, engine, policy, misread>>
  PROVE  /\ lane' \in Seq(Turns) /\ publishing' = NoJob /\ LaneInv'
         /\ \A u \in Task : call'[u].job = call[u].job
         /\ SessionOK' /\ CallsOK' /\ EngineInv' /\ NurseInv' /\ (policy # NoLease => (Nursed' <=> Nursed))
<1> DEFINE h == Head(lane)
           d == Following(call[h])
<1>1. /\ publishing' = NoJob
      /\ lane' = (IF h = "worker" THEN Append(Tail(lane), h) ELSE Tail(lane))
      /\ call' = (IF h = "worker" THEN call ELSE [call EXCEPT ![h] = d])
  BY DEF Passes
<1>2. lane # <<>> /\ lane \in Seq(Turns) /\ h \in Turns /\ Tail(lane) \in Seq(Turns)
  BY Publishing, PublisherFacts, HeadTailProperties
<1>3. lane' \in Seq(Turns)
  BY <1>1, <1>2, LaneFacts
<1>4. CASE h = "worker"
  <2>1. call' = call
    BY <1>1, <1>4
  <2>2. QED
    BY <1>1, <1>3, <2>1, PublisherFacts, Settled DEF Advances, LaneInv
<1>5. CASE h # "worker"
  <2>1. h \in Task /\ call[h].pc = "await" /\ call[h].job = NoJob
    BY <1>5, Publishing
  <2>2. /\ d \in Call /\ d.job = NoJob /\ d.pc \in {"idle", "remove"}
        /\ ((d.gen = 0 /\ d.op = "none") \/ (d.gen = call[h].gen /\ d.op = call[h].op))
    BY <2>1, FollowingIsTyped, PublisherFacts
  <2>3. call' \in [Task -> Call] /\ call'[h] = d /\ \A u \in Task \ {h} : call'[u] = call[u]
    BY <1>1, <1>5, <2>1, <2>2, PublisherFacts
  <2>4. \A u \in Task : Advances(u) /\ call'[u].job = call[u].job
    BY <2>1, <2>2, <2>3 DEF Advances
  <2>5. QED
    BY <1>1, <1>3, <2>3, <2>4, Settled DEF LaneInv
<1>6. QED
  BY <1>4, <1>5

\* A refused job that nothing newer waits behind is parked.
LEMMA GateKeeps ==
  ASSUME IInv, GateRefuses
  PROVE  IInv'
<1> DEFINE again == [publishing EXCEPT !.attempt = 1]
<1>1. /\ publishing # NoJob /\ Passes
      /\ parked' = (IF Superseded THEN Retired
                    ELSE IF parked.rev <= publishing.rev THEN again ELSE parked)
      /\ UNCHANGED <<row, routes, engine, policy, pending, public, lost, misread>>
  BY DEF GateRefuses, session
<1>2. /\ lane' \in Seq(Turns) /\ publishing' = NoJob /\ LaneInv'
      /\ \A u \in Task : call'[u].job = call[u].job
      /\ SessionOK' /\ CallsOK' /\ EngineInv' /\ NurseInv' /\ (policy # NoLease => (Nursed' <=> Nursed))
  BY <1>1, PassesOn
<1>3. again \in Job /\ again.rev = publishing.rev /\ again.status = publishing.status
      /\ again.rev # 0 /\ again # NoJob
  <2>1. publishing \in Job /\ publishing.rev # 0 /\ NoJob.rev = 0
    BY <1>1, PublisherFacts, RevFacts
  <2>2. again \in Job /\ again.rev = publishing.rev /\ again.status = publishing.status
    BY <2>1 DEF Job
  <2>3. QED
    BY <2>1, <2>2
<1>4. PublisherOK'
  <2>1. parked' \in Job /\ Numbered(parked)'
    BY <1>1, <1>3, PublisherFacts DEF Retired, Dropped, Numbered
  <2>2. QED
    BY <1>1, <1>2, <2>1, PublisherFacts DEF PublisherOK, Turns
<1>5. CarryInv'
  <2> SUFFICES ASSUME ~lost PROVE CarryInv'
    BY <1>1 DEF CarryInv
  <2>1. parked'.rev \in {0, parked.rev, publishing.rev}
    <3>1. parked' = NoJob \/ parked' = parked \/ parked' = again
      BY <1>1 DEF Retired, Dropped
    <3>2. QED
      BY <1>3, <3>1, RevFacts
  <2>2. CASE \E u \in Task : InCall(u)
    <3>1. PICK u \in Task : InCall(u)
      BY <2>2
    <3>2. parked'.rev < call[u].job.rev /\ 0 < call[u].job.rev
      BY <1>3, <2>1, <3>1, RevFacts DEF InCall
    <3>3. InCall(u)'
      BY <1>1, <1>2, <3>1, <3>2, RevFacts DEF InCall, Matches, Shows
    <3>4. QED
      BY <3>3 DEF CarryInv
  <2>3. CASE InPending
    <3>1. parked'.rev < pending.rev /\ 0 < pending.rev
      BY <1>3, <2>1, <2>3, RevFacts DEF InPending
    <3>2. InPending'
      BY <1>1, <1>2, <2>3, <3>1, RevFacts DEF InPending, Matches, Shows, CallsBefore
    <3>3. QED
      BY <3>2 DEF CarryInv
  <2>4. CASE InPublishing
    <3>1. pending.rev = 0 /\ publishing.rev > 0 /\ parked.rev < publishing.rev
      BY <1>1, <2>4, RevFacts DEF InPublishing
    <3>2. parked' = again
      BY <1>1, <3>1, RevFacts DEF Superseded
    <3>3. InParked'
      BY <1>1, <1>2, <1>3, <2>4, <3>2 DEF InPublishing, InParked, Matches, Shows, CallsBefore
    <3>4. QED
      BY <3>3 DEF CarryInv
  <2>5. CASE InParked \/ Landed
    BY <1>1, <2>5 DEF InParked, Landed
  <2>6. QED
    BY <2>2, <2>3, <2>4, <2>5 DEF IInv, CarryInv
<1>6. QED
  BY <1>2, <1>4, <1>5 DEF IInv, TypeOK

\* The relay takes a status: of the parked jobs only a newer one stays.
LEMMA LandsKeeps ==
  ASSUME IInv, Lands
  PROVE  IInv'
<1>1. /\ publishing # NoJob /\ Passes /\ parked' = Retired
      /\ public' = [status |-> publishing.status, rev |-> publishing.rev, age |-> 0]
      /\ UNCHANGED <<row, routes, engine, policy, pending, lost, misread>>
  BY DEF Lands, Published, session
<1>2. /\ lane' \in Seq(Turns) /\ publishing' = NoJob /\ LaneInv'
      /\ \A u \in Task : call'[u].job = call[u].job
      /\ SessionOK' /\ CallsOK' /\ EngineInv' /\ NurseInv' /\ (policy # NoLease => (Nursed' <=> Nursed))
  BY <1>1, PassesOn
<1>3. public'.status = publishing.status /\ public'.rev = publishing.rev /\ public'.age = 0
  BY <1>1
<1>4. PublisherOK'
  <2>1. parked' \in Job /\ Numbered(parked)'
    BY <1>1, PublisherFacts DEF Retired, Dropped, Numbered
  <2>2. public' \in [status : Status \union {NoStatus}, rev : Nat, age : Nat]
    BY <1>1, PublisherFacts DEF Job
  <2>3. QED
    BY <1>1, <1>2, <2>1, <2>2, PublisherFacts DEF PublisherOK, Turns
<1>5. CarryInv'
  <2> SUFFICES ASSUME ~lost PROVE CarryInv'
    BY <1>1 DEF CarryInv
  <2>1. parked' = (IF parked.rev <= publishing.rev THEN NoJob ELSE parked)
    BY <1>1 DEF Retired, Dropped
  <2>2. CASE \E u \in Task : InCall(u)
    <3>1. PICK u \in Task : InCall(u)
      BY <2>2
    <3>2. parked'.rev < call[u].job.rev /\ 0 < call[u].job.rev
      BY <2>1, <3>1, RevFacts DEF InCall
    <3>3. InCall(u)'
      BY <1>1, <1>2, <1>3, <3>1, <3>2, RevFacts DEF InCall, Matches, Shows
    <3>4. QED
      BY <3>3 DEF CarryInv
  <2>3. CASE InPending
    <3>1. parked'.rev < pending.rev /\ 0 < pending.rev /\ publishing.rev <= pending.rev
      BY <2>1, <2>3, RevFacts DEF InPending
    <3>2. InPending'
      BY <1>1, <1>2, <1>3, <2>3, <3>1, RevFacts DEF InPending, Matches, Shows, CallsBefore
    <3>3. QED
      BY <3>2 DEF CarryInv
  <2>4. CASE InPublishing
    <3>1. parked' = NoJob
      BY <2>1, <2>4, RevFacts DEF InPublishing
    <3>2. \A u \in Task : call[u].job.rev < publishing.rev
      BY <2>4 DEF InPublishing, CallsBefore
    <3>3. Landed'
      BY <1>1, <1>2, <1>3, <2>4, <3>1, <3>2 DEF InPublishing, Landed, Matches, Shows
    <3>4. QED
      BY <3>3 DEF CarryInv
  <2>5. CASE InParked \/ Landed
    BY <1>1, <2>5 DEF InParked, Landed
  <2>6. QED
    BY <2>2, <2>3, <2>4, <2>5 DEF IInv, CarryInv
<1>6. QED
  BY <1>2, <1>4, <1>5 DEF IInv, TypeOK

\* A failure is made up for by another attempt or by the newer job that waits;
\* the last one in vain is recorded.
LEMMA FailsKeeps ==
  ASSUME IInv, Fails
  PROVE  IInv'
<1> DEFINE again == [publishing EXCEPT !.attempt = publishing.attempt + 1]
<1>1. /\ publishing # NoJob
      /\ \/ public' = public
         \/ public' = [status |-> publishing.status, rev |-> publishing.rev, age |-> 0]
      /\ UNCHANGED <<row, routes, engine, policy, pending, misread>>
  BY DEF Fails, Published, session
<1>2. public' \in [status : Status \union {NoStatus}, rev : Nat, age : Nat]
  BY <1>1, PublisherFacts DEF PublisherOK, Job
<1>3. CASE /\ ~Superseded /\ publishing' = again
           /\ UNCHANGED <<lane, call, parked, lost>>
  <2>1. SessionOK' /\ CallsOK' /\ EngineInv' /\ NurseInv' /\ (policy # NoLease => (Nursed' <=> Nursed))
    BY <1>1, <1>3, PublisherFacts, Settled DEF Advances
  <2>2. publishing'.rev = publishing.rev /\ publishing'.status = publishing.status /\ publishing' \in Job
    <3>1. publishing \in Job
      BY PublisherFacts
    <3>2. again \in Job /\ again.rev = publishing.rev /\ again.status = publishing.status
      BY <3>1 DEF Job
    <3>3. QED
      BY <1>3, <3>2
  <2>3. publishing' # NoJob /\ Numbered(publishing)'
    BY <1>1, <2>2, RevFacts DEF Numbered
  <2>4. PublisherOK'
    BY <1>1, <1>2, <1>3, <2>2, <2>3, PublisherFacts DEF PublisherOK, Turns
  <2>5. LaneInv'
    BY <1>1, <1>3 DEF IInv, LaneInv
  <2>6. CarryInv'
    <3> SUFFICES ASSUME ~lost PROVE CarryInv'
      BY <1>3 DEF CarryInv
    <3>1. public'.rev \in {public.rev, publishing.rev}
      BY <1>1
    <3>2. CASE \E u \in Task : InCall(u)
      <4>1. PICK u \in Task : InCall(u)
        BY <3>2
      <4>2. InCall(u)'
        BY <1>1, <1>3, <2>2, <3>1, <4>1 DEF InCall, Matches, Shows
      <4>3. QED
        BY <4>2 DEF CarryInv
    <3>3. CASE InPending
      BY <1>3, <3>3, RevFacts DEF InPending, Superseded
    <3>4. CASE InPublishing
      <4>1. public'.rev <= publishing.rev
        BY <3>1, <3>4, RevFacts DEF InPublishing
      <4>2. InPublishing'
        BY <1>1, <1>3, <2>2, <2>3, <3>4, <4>1 DEF InPublishing, Matches, Shows, CallsBefore
      <4>3. QED
        BY <4>2 DEF CarryInv
    <3>5. CASE InParked \/ Landed
      BY <1>1, <3>5 DEF InParked, Landed
    <3>6. QED
      BY <3>2, <3>3, <3>4, <3>5 DEF IInv, CarryInv
  <2>7. QED
    BY <2>1, <2>4, <2>5, <2>6 DEF IInv, TypeOK
<1>4. CASE Passes /\ parked' = Retired /\ lost' = (lost \/ ~Superseded)
  <2>1. /\ lane' \in Seq(Turns) /\ publishing' = NoJob /\ LaneInv'
        /\ \A u \in Task : call'[u].job = call[u].job
        /\ SessionOK' /\ CallsOK' /\ EngineInv' /\ NurseInv' /\ (policy # NoLease => (Nursed' <=> Nursed))
    BY <1>1, <1>4, PassesOn
  <2>2. PublisherOK'
    <3>1. parked' \in Job /\ Numbered(parked)'
      BY <1>4, PublisherFacts DEF Retired, Dropped, Numbered
    <3>2. lost' \in BOOLEAN
      BY <1>4, PublisherFacts DEF PublisherOK, Superseded
    <3>3. QED
      BY <1>1, <1>2, <2>1, <3>1, <3>2, PublisherFacts DEF PublisherOK, Turns
  <2>3. CarryInv'
    <3> SUFFICES ASSUME ~lost' PROVE CarryInv'
      BY DEF CarryInv
    <3>1. ~lost /\ pending.rev > publishing.rev
      BY <1>4 DEF Superseded
    <3>2. parked' = (IF parked.rev <= publishing.rev THEN NoJob ELSE parked)
      BY <1>4 DEF Retired, Dropped
    <3>3. public'.rev \in {public.rev, publishing.rev}
      BY <1>1
    <3>4. CASE \E u \in Task : InCall(u)
      <4>1. PICK u \in Task : InCall(u)
        BY <3>4
      <4>2. parked'.rev < call[u].job.rev /\ 0 < call[u].job.rev
        BY <3>2, <4>1, RevFacts DEF InCall
      <4>3. InCall(u)'
        BY <1>1, <2>1, <3>3, <4>1, <4>2, RevFacts DEF InCall, Matches, Shows
      <4>4. QED
        BY <4>3 DEF CarryInv
    <3>5. CASE InPending
      <4>1. /\ parked'.rev < pending.rev /\ 0 < pending.rev /\ publishing.rev <= pending.rev
            /\ public'.rev <= pending.rev
        BY <3>2, <3>3, <3>5, RevFacts DEF InPending
      <4>2. InPending'
        BY <1>1, <2>1, <3>5, <4>1, RevFacts DEF InPending, Matches, Shows, CallsBefore
      <4>3. QED
        BY <4>2 DEF CarryInv
    <3>6. CASE InPublishing
      BY <3>1, <3>6, RevFacts DEF InPublishing
    <3>7. CASE InParked \/ Landed
      BY <1>1, <3>7 DEF InParked, Landed
    <3>8. QED
      BY <3>1, <3>4, <3>5, <3>6, <3>7 DEF IInv, CarryInv
  <2>4. QED
    BY <2>1, <2>2, <2>3 DEF IInv, TypeOK
<1>5. QED
  BY <1>3, <1>4 DEF Fails

----------------------------------------------------------------------------
(* What the policy answers *)

\* The new lease shows what the old one did.
Same(old, new) ==
  /\ Shows(new) <=> Shows(old)
  /\ Shows(old) => new.gen = old.gen /\ Shown(new) = Shown(old) /\ new.renewed = old.renewed

\* What comes of a call op for the generation gen: the lease is that of the same
\* generation, or one just opened; what is published is what it now shows; silence
\* means that it shows what it did, except where an opening replaces a live lease;
\* and a lease shows the session only from a reading of its generation or because
\* it did and was not closed.
Sound(old, o, op, gen) ==
  /\ o.lease \in Lease \union {NoLease}
  /\ o.lease # NoLease => \/ old # NoLease /\ o.lease.gen = old.gen
                          \/ op = "open" /\ o.lease.gen = gen
  /\ o.effect # NoEffect => o.effect \in Effect /\ Matches(o.lease, o.effect.status)
  /\ o.effect = NoEffect => Same(old, o.lease) \/ (op = "open" /\ old # NoLease /\ old.live)
  /\ Shows(o.lease) =>
       \/ Reads(op) /\ o.lease.gen = gen
       \/ Shows(old) /\ o.lease.gen = old.gen /\ (op \in {"close", "revoke"} => old.gen # gen)

\* Says and Withdraws publish what the lease is to show, or are silent when no
\* channel is concerned.
LEMMA SaysWhatItShows ==
  ASSUME NEW lease \in Lease
  PROVE  LET o == Says(lease)
         IN  /\ o.lease = lease
             /\ o.effect # NoEffect => o.effect \in Effect /\ Matches(lease, o.effect.status)
             /\ o.effect = NoEffect => lease.channels = {}
<1>1. lease # NoLease
  BY PolicyAssumption
<1>2. Shown(lease) \in Status
  BY DEF Shown, Status, Lease
<1>3. [status |-> Shown(lease), member |-> TRUE] \in Effect
  BY <1>2 DEF Effect
<1>4. lease.channels # {} => Matches(lease, Shown(lease))
  BY <1>1 DEF Matches, Shows, Shown, Live
<1>5. [status |-> Shown(lease), member |-> TRUE] # NoEffect
  BY <1>3, PolicyAssumption
<1>6. QED
  BY <1>3, <1>4, <1>5 DEF Says, Silent

LEMMA WithdrawsWhatItShowed ==
  ASSUME NEW lease, NEW prior \in Lease, ~Shows(lease)
  PROVE  LET o == Withdraws(lease, prior)
         IN  /\ o.lease = lease
             /\ o.effect # NoEffect => o.effect \in Effect /\ Matches(lease, o.effect.status)
             /\ o.effect = NoEffect => prior.channels = {}
<1> DEFINE off == [channels |-> prior.channels, state |-> "offline"]
<1>1. off \in Status
  BY DEF Status, Lease
<1>2. [status |-> off, member |-> FALSE] \in Effect
  BY <1>1 DEF Effect
<1>3. Matches(lease, off)
  BY DEF Matches, Live
<1>4. [status |-> off, member |-> FALSE] # NoEffect
  BY <1>2, PolicyAssumption
<1>5. QED
  BY <1>2, <1>3, <1>4 DEF Withdraws, Silent

LEMMA SilenceIsSound ==
  ASSUME NEW lease \in Lease \union {NoLease}, NEW op, NEW gen,
         op \in {"close", "revoke"} /\ lease # NoLease /\ Shows(lease) => lease.gen # gen
  PROVE  Sound(lease, Silent(lease), op, gen)
BY DEF Sound, Silent, Same, Shows

LEMMA OpenedIsSound ==
  ASSUME NEW lease \in Lease \union {NoLease}, NEW gen \in Nat, NEW p \in Projection
  PROVE  Sound(lease, Opened(lease, gen, p), "open", gen)
<1> DEFINE new == [gen |-> gen, channels |-> p.channels, state |-> p.state,
                   live |-> TRUE, renewed |-> TRUE]
<1>1. CASE lease # NoLease /\ lease.gen >= gen
  BY <1>1, SilenceIsSound DEF Opened
<1>2. CASE ~(lease # NoLease /\ lease.gen >= gen)
  <2>1. Opened(lease, gen, p) = Says(new)
    BY <1>2 DEF Opened
  <2>2. new \in Lease /\ new.gen = gen /\ new.live
    BY DEF Lease, Projection
  <2>3. new.channels = {} => ~Shows(new)
    BY DEF Shows
  <2>4. QED
    BY <2>1, <2>2, <2>3, SaysWhatItShows DEF Sound, Same, Shows, Reads
<1>3. QED
  BY <1>1, <1>2

LEMMA ProjectedIsSound ==
  ASSUME NEW lease \in Lease \union {NoLease}, NEW gen \in Nat, NEW p \in Projection,
         NEW always \in BOOLEAN, NEW op \in {"reconcile", "now", "reassert"}
  PROVE  Sound(lease, Projected(lease, gen, p, always), op, gen)
<1> DEFINE new == Projects(lease, p)
<1>1. CASE ~Owned(lease, gen)
  BY <1>1, SilenceIsSound DEF Projected
<1>2. CASE Owned(lease, gen)
  <2>1. lease \in Lease /\ lease # NoLease /\ lease.gen = gen
    BY <1>2 DEF Owned
  <2>2. /\ new \in Lease /\ new.gen = gen /\ new.live /\ new.channels = p.channels
        /\ new.state = p.state /\ new.renewed = lease.renewed
    BY <2>1 DEF Projects, Lease, Projection
  <2>3. new # NoLease /\ Reads(op)
    BY <2>2, PolicyAssumption DEF Reads
  <2>4. CASE new.channels = {}
    <3>1. Projected(lease, gen, p, always) = Withdraws(new, lease)
      BY <1>2, <2>4 DEF Projected
    <3>2. ~Shows(new)
      BY <2>4 DEF Shows
    <3>3. lease.channels = {} => Same(lease, new)
      BY <3>2 DEF Same, Shows
    <3>4. QED
      BY <2>1, <2>2, <2>3, <3>1, <3>2, <3>3, WithdrawsWhatItShowed DEF Sound
  <2>5. CASE new.channels # {} /\ (always \/ Shown(new) # Shown(lease))
    <3>1. Projected(lease, gen, p, always) = Says(new)
      BY <1>2, <2>5 DEF Projected
    <3>2. QED
      BY <2>1, <2>2, <2>3, <2>5, <3>1, SaysWhatItShows DEF Sound
  <2>6. CASE new.channels # {} /\ ~(always \/ Shown(new) # Shown(lease))
    <3>1. Projected(lease, gen, p, always) = Silent(new)
      BY <1>2, <2>6 DEF Projected
    <3>2. Shown(new).channels = new.channels /\ Shown(new).state = new.state
      BY <2>2 DEF Shown
    <3>3. /\ Shown(lease).channels = lease.channels
          /\ Shown(lease).state = (IF lease.live THEN lease.state ELSE "offline")
      BY DEF Shown
    <3>4. lease.live /\ lease.channels = new.channels
      BY <2>1, <2>2, <2>6, <3>2, <3>3 DEF Lease
    <3>5. Same(lease, new)
      BY <2>1, <2>2, <2>3, <2>6, <3>4 DEF Same, Shows
    <3>6. QED
      BY <2>1, <2>2, <2>3, <3>1, <3>5 DEF Sound, Silent
  <2>7. QED
    BY <2>4, <2>5, <2>6
<1>3. QED
  BY <1>1, <1>2

LEMMA RenewedIsSound ==
  ASSUME NEW lease \in Lease \union {NoLease}, NEW gen \in Nat
  PROVE  Sound(lease, Renewed(lease, gen), "renew", gen)
<1> DEFINE new == [lease EXCEPT !.renewed = TRUE]
<1>1. CASE ~Owned(lease, gen) \/ lease.renewed
  BY <1>1, SilenceIsSound DEF Renewed
<1>2. CASE ~(~Owned(lease, gen) \/ lease.renewed)
  <2>1. lease \in Lease /\ lease # NoLease /\ lease.gen = gen
    BY <1>2 DEF Owned
  <2>2. new \in Lease /\ new.gen = lease.gen /\ new.live = lease.live /\ new.channels = lease.channels
    BY <2>1 DEF Lease
  <2>3. new # NoLease
    BY <2>2, PolicyAssumption
  <2>4. Renewed(lease, gen) = Says(new)
    BY <1>2 DEF Renewed
  <2>5. new.channels = {} => Same(lease, new)
    BY <2>2 DEF Same, Shows
  <2>6. Shows(new) <=> Shows(lease)
    BY <2>1, <2>2, <2>3 DEF Shows
  <2>7. QED
    BY <2>1, <2>2, <2>3, <2>4, <2>5, <2>6, SaysWhatItShows DEF Sound
<1>3. QED
  BY <1>1, <1>2

LEMMA ClosedIsSound ==
  ASSUME NEW lease \in Lease \union {NoLease}, NEW gen \in Nat
  PROVE  Sound(lease, Closed(lease, gen), "close", gen)
<1> DEFINE new == [lease EXCEPT !.live = FALSE]
<1>1. CASE ~Owned(lease, gen) \/ ~lease.live
  BY <1>1, SilenceIsSound DEF Closed, Owned, Shows
<1>2. CASE ~(~Owned(lease, gen) \/ ~lease.live)
  <2>1. lease \in Lease /\ lease # NoLease /\ lease.gen = gen
    BY <1>2 DEF Owned
  <2>2. new \in Lease /\ new.gen = lease.gen /\ ~new.live /\ new.channels = lease.channels
    BY <2>1 DEF Lease
  <2>3. ~Shows(new)
    BY <2>2 DEF Shows
  <2>4. Closed(lease, gen) = Says(new)
    BY <1>2 DEF Closed
  <2>5. new.channels = {} => Same(lease, new)
    BY <2>2 DEF Same, Shows
  <2>6. QED
    BY <2>1, <2>2, <2>3, <2>4, <2>5, SaysWhatItShows DEF Sound
<1>3. QED
  BY <1>1, <1>2

LEMMA RevokedIsSound ==
  ASSUME NEW lease \in Lease \union {NoLease}, NEW gen \in Nat
  PROVE  Sound(lease, Revoked(lease, gen), "revoke", gen)
<1>1. CASE ~Owned(lease, gen)
  BY <1>1, SilenceIsSound DEF Revoked, Owned, Shows
<1>2. CASE Owned(lease, gen)
  <2>1. lease \in Lease /\ lease # NoLease
    BY <1>2 DEF Owned
  <2>2. ~Shows(NoLease)
    BY DEF Shows
  <2>3. Revoked(lease, gen) = Withdraws(NoLease, lease)
    BY <1>2 DEF Revoked
  <2>4. lease.channels = {} => Same(lease, NoLease)
    BY <2>2 DEF Same, Shows
  <2>5. QED
    BY <2>1, <2>2, <2>3, <2>4, WithdrawsWhatItShowed DEF Sound
<1>3. QED
  BY <1>1, <1>2

\* Every call of the policy is sound.
LEMMA OutcomeIsSound ==
  ASSUME policy \in Lease \union {NoLease}, NEW c \in Call, c.op # "none"
  PROVE  Sound(policy, Outcome(c), c.op, c.gen)
<1>1. c.gen \in Nat /\ c.reading \in Projection
      /\ c.op \in {"open", "reconcile", "reassert", "now", "renew", "close", "revoke"}
  BY ConstantFacts DEF Call
<1>2. CASE c.op = "open"
  BY <1>1, <1>2, OpenedIsSound DEF Outcome
<1>3. CASE c.op \in {"reconcile", "now"}
  BY <1>1, <1>3, ProjectedIsSound DEF Outcome, Reconciled
<1>4. CASE c.op = "reassert"
  BY <1>1, <1>4, ProjectedIsSound DEF Outcome, Reasserted
<1>5. CASE c.op = "renew"
  BY <1>1, <1>5, RenewedIsSound DEF Outcome
<1>6. CASE c.op = "close"
  BY <1>1, <1>6, ClosedIsSound DEF Outcome
<1>7. CASE c.op = "revoke"
  BY <1>1, <1>7, RevokedIsSound DEF Outcome
<1>8. QED
  BY <1>1, <1>2, <1>3, <1>4, <1>5, <1>6, <1>7

\* Ranks keep zero and are within the number of revisions.
LEMMA RankFacts ==
  ASSUME IInv
  PROVE  /\ Cardinality(Revisions) \in Nat
         /\ \A r \in Nat : /\ Rank(r) \in Nat /\ Rank(r) <= Cardinality(Revisions)
                           /\ r \in Revisions => Rank(r) # 0
         /\ Rank(0) = 0
<1>1. IsFiniteSet(Revisions) /\ Revisions \subseteq Nat \ {0}
  <2> DEFINE f == [t \in Task |-> call[t].job.rev]
             J == {call[t].job.rev : t \in Task}
             P == {pending.rev, parked.rev, publishing.rev, public.rev}
  <2>1. IsFiniteSet(J)
    <3>1. f \in Surjection(Task, J)
      BY DEF Surjection
    <3>2. QED
      BY <3>1, ConstantFacts, FS_Surjection
  <2>2. IsFiniteSet(P)
    <3>1. IsFiniteSet({}) /\ IsFiniteSet({} \union {pending.rev})
      BY FS_EmptySet, FS_AddElement
    <3>2. IsFiniteSet(({} \union {pending.rev}) \union {parked.rev})
      BY <3>1, FS_AddElement
    <3>3. IsFiniteSet((({} \union {pending.rev}) \union {parked.rev}) \union {publishing.rev})
      BY <3>2, FS_AddElement
    <3>4. IsFiniteSet(((({} \union {pending.rev}) \union {parked.rev}) \union {publishing.rev}) \union {public.rev})
      BY <3>3, FS_AddElement
    <3>5. P = ((({} \union {pending.rev}) \union {parked.rev}) \union {publishing.rev}) \union {public.rev}
      OBVIOUS
    <3>6. QED
      BY <3>4, <3>5
  <2>3. IsFiniteSet(P \union J)
    BY <2>1, <2>2, FS_Union
  <2>4. Revisions = (P \union J) \ {0}
    BY DEF Revisions
  <2>5. IsFiniteSet(Revisions)
    BY <2>3, <2>4, FS_Subset
  <2>6. Revisions \subseteq Nat \ {0}
    BY RevFacts DEF Revisions
  <2>7. QED
    BY <2>5, <2>6
<1>2. Cardinality(Revisions) \in Nat
  BY <1>1, FS_CardinalityType
<1>3. ASSUME NEW r \in Nat
      PROVE  /\ Rank(r) \in Nat /\ Rank(r) <= Cardinality(Revisions)
             /\ r \in Revisions => Rank(r) # 0
  <2> DEFINE R == {s \in Revisions : s <= r}
  <2>1. IsFiniteSet(R) /\ Cardinality(R) <= Cardinality(Revisions)
    BY <1>1, FS_Subset
  <2>2. Cardinality(R) \in Nat
    BY <2>1, FS_CardinalityType
  <2>3. r \in Revisions => R # {}
    OBVIOUS
  <2>4. R # {} => Cardinality(R) # 0
    BY <2>1, FS_EmptySet
  <2>5. QED
    BY <2>1, <2>2, <2>3, <2>4 DEF Rank
<1>4. Rank(0) = 0
  <2>1. {s \in Revisions : s <= 0} = {}
    <3>1. \A s \in Nat \ {0} : ~(s <= 0)
      OBVIOUS
    <3>2. QED
      BY <1>1, <3>1
  <2>2. QED
    BY <2>1, FS_EmptySet DEF Rank
<1>5. QED
  BY <1>2, <1>3, <1>4

\* Renumbering makes a job of no job, and no job of none.
LEMMA RankedFacts ==
  ASSUME IInv, NEW j \in Job, Numbered(j), j.rev \in Revisions \union {0}
  PROVE  /\ Ranked(j) \in Job /\ Numbered(Ranked(j))
         /\ Ranked(j) # NoJob => j # NoJob
         /\ Ranked(j).rev \in Nat /\ Ranked(j).rev <= Cardinality(Revisions)
<1>1. j.rev \in Nat
  BY DEF Job
<1>2. /\ Rank(j.rev) \in Nat /\ Rank(j.rev) <= Cardinality(Revisions)
      /\ (Rank(j.rev) = 0 <=> j.rev = 0)
  BY <1>1, RankFacts
<1>3. Ranked(j) \in Job /\ Ranked(j).rev = Rank(j.rev)
  BY <1>2 DEF Ranked, Job
<1>4. j = NoJob => Ranked(j) = NoJob
  BY <1>2, NoJobFacts DEF Ranked, NoJob
<1>5. QED
  BY <1>2, <1>3, <1>4, NoJobFacts DEF Numbered

----------------------------------------------------------------------------
(* The policy is asked *)

\* After its question a call neither reads nor asks; of the others only the
\* revisions of the jobs are new.
LEMMA AskedCalls ==
  ASSUME IInv, NEW t \in Task, Ask(t)
  PROVE  LET c == call[t]
             o == Outcome(c)
             d == call'[t]
         IN  /\ c \in Call /\ c.pc = "policy" /\ c.op # "none" /\ c.gen \in Gen
             /\ call' \in [Task -> Call] /\ d.pc \in {"idle", "remove", "submit", "await"}
             /\ ((d.gen = 0 /\ d.op = "none") \/ (d.gen = c.gen /\ d.op = c.op))
             /\ Numbered(d.job) /\ (d.job # NoJob => d.pc \in {"submit", "await"})
             /\ \A u \in Task \ {t} :
                  /\ call'[u].pc = call[u].pc /\ call'[u].op = call[u].op /\ call'[u].gen = call[u].gen
                  /\ Numbered(call'[u].job) /\ (call'[u].job # NoJob => call[u].job # NoJob)
             /\ o.effect = NoEffect =>
                  /\ UNCHANGED <<pending, parked, lane, publishing, public>>
                  /\ \A u \in Task : call'[u].job = call[u].job
             /\ o.effect # NoEffect =>
                  /\ d.job \in Job /\ d.job.rev = Cardinality(Revisions) + 1 /\ d.job.status = o.effect.status
                  /\ \A u \in Task \ {t} : call'[u].job.rev <= Cardinality(Revisions)
                  /\ pending' = Ranked(pending) /\ parked' = Ranked(parked)
                  /\ publishing' = Ranked(publishing) /\ public' = Ranked(public)
                  /\ lane' = IF c.op = "now" THEN Append(lane, t) ELSE lane
<1> DEFINE c == call[t]
           o == Outcome(c)
<1>1. c \in Call /\ c.pc = "policy" /\ c.op # "none" /\ c.gen \in Gen /\ c.job = NoJob
  BY PublisherFacts DEF Ask, IInv, TypeOK, CallsOK
<1>2. CASE o.effect = NoEffect
  <2> DEFINE d == Following(c)
  <2>1. call' = [call EXCEPT ![t] = d] /\ UNCHANGED <<pending, parked, lane, publishing, public>>
    BY <1>2 DEF Ask, Starts, publisher
  <2>2. /\ d \in Call /\ d.job = NoJob /\ d.pc \in {"idle", "remove"}
        /\ ((d.gen = 0 /\ d.op = "none") \/ (d.gen = c.gen /\ d.op = c.op))
    BY <1>1, FollowingIsTyped
  <2>3. call' \in [Task -> Call] /\ call'[t] = d /\ \A u \in Task \ {t} : call'[u] = call[u]
    BY <2>1, <2>2, PublisherFacts
  <2>4. \A u \in Task : call'[u].job = call[u].job
    BY <1>1, <2>2, <2>3
  <2>5. \A u \in Task : Numbered(call'[u].job)
    BY <2>4, PublisherFacts
  <2>6. QED
    BY <1>1, <1>2, <2>1, <2>2, <2>3, <2>4, <2>5
<1>3. CASE o.effect # NoEffect
  <2> DEFINE n == Cardinality(Revisions) + 1
             job == [rev |-> n, status |-> o.effect.status,
                     member |-> o.effect.member, scope |-> ScopeOf(c), attempt |-> 1]
             d == [c EXCEPT !.pc = IF c.op = "now" THEN "await" ELSE "submit", !.job = job]
  <2>1. /\ call' = [u \in Task |-> IF u = t THEN d ELSE [call[u] EXCEPT !.job = Ranked(call[u].job)]]
        /\ pending' = Ranked(pending) /\ parked' = Ranked(parked)
        /\ publishing' = Ranked(publishing) /\ public' = Ranked(public)
        /\ lane' = (IF c.op = "now" THEN Append(lane, t) ELSE lane)
    BY <1>3 DEF Ask
  <2>2. o.effect \in Effect
    BY <1>1, <1>3, OutcomeIsSound, PublisherFacts DEF Sound, PublisherOK
  <2>3. n \in Nat /\ n # 0
    BY RankFacts
  <2>4. ScopeOf(c) \in Scope
    BY <1>1, NoJobFacts DEF ScopeOf, Call
  <2>5. job \in Job /\ job.rev = n /\ Numbered(job)
    BY <2>2, <2>3, <2>4, NoJobFacts DEF Job, Effect, Numbered
  <2>6. d \in Call /\ d.job = job /\ d.gen = c.gen /\ d.op = c.op /\ d.pc \in {"submit", "await"}
    BY <1>1, <2>5 DEF Call
  <2>7. ASSUME NEW u \in Task \ {t}
        PROVE  LET e == [call[u] EXCEPT !.job = Ranked(call[u].job)]
               IN  /\ e \in Call /\ e.pc = call[u].pc /\ e.op = call[u].op /\ e.gen = call[u].gen
                   /\ Numbered(e.job) /\ (e.job # NoJob => call[u].job # NoJob)
                   /\ e.job.rev <= Cardinality(Revisions)
    <3>1. call[u] \in Call /\ call[u].job \in Job /\ Numbered(call[u].job)
      BY PublisherFacts
    <3>2. call[u].job.rev \in Revisions \union {0}
      BY DEF Revisions
    <3>3. /\ Ranked(call[u].job) \in Job /\ Numbered(Ranked(call[u].job))
          /\ (Ranked(call[u].job) # NoJob => call[u].job # NoJob)
          /\ Ranked(call[u].job).rev <= Cardinality(Revisions)
      BY <3>1, <3>2, RankedFacts
    <3>4. QED
      BY <3>1, <3>3 DEF Call
  <2>8. call' \in [Task -> Call] /\ call'[t] = d
        /\ \A u \in Task \ {t} : call'[u] = [call[u] EXCEPT !.job = Ranked(call[u].job)]
    BY <2>1, <2>6, <2>7
  <2>9. /\ call'[t].pc \in {"submit", "await"} /\ call'[t].gen = c.gen /\ call'[t].op = c.op
        /\ Numbered(call'[t].job) /\ call'[t].job \in Job
        /\ call'[t].job.rev = Cardinality(Revisions) + 1 /\ call'[t].job.status = o.effect.status
    <3>1. job.status = o.effect.status
      OBVIOUS
    <3> HIDE DEF job, d
    <3>2. QED
      BY <2>5, <2>6, <2>8, <3>1
  <2>10. \A u \in Task \ {t} :
           /\ call'[u].pc = call[u].pc /\ call'[u].op = call[u].op /\ call'[u].gen = call[u].gen
           /\ Numbered(call'[u].job) /\ (call'[u].job # NoJob => call[u].job # NoJob)
           /\ call'[u].job.rev <= Cardinality(Revisions)
    BY <2>7, <2>8
  <2> HIDE DEF job, d
  <2>11. QED
    BY <1>1, <1>3, <2>1, <2>8, <2>9, <2>10
<1>4. QED
  BY <1>2, <1>3

\* A new outcome is with the call, in front of every job; after a silent one
\* the last outcome is where it was.
LEMMA AskKeeps ==
  ASSUME IInv, NEW t \in Task, Ask(t)
  PROVE  IInv'
<1> DEFINE c == call[t]
           o == Outcome(c)
           d == call'[t]
           n == Cardinality(Revisions)
<1>1. /\ c \in Call /\ c.pc = "policy" /\ c.op # "none" /\ c.gen \in Gen
      /\ call' \in [Task -> Call] /\ d.pc \in {"idle", "remove", "submit", "await"}
      /\ ((d.gen = 0 /\ d.op = "none") \/ (d.gen = c.gen /\ d.op = c.op))
      /\ Numbered(d.job) /\ (d.job # NoJob => d.pc \in {"submit", "await"})
  BY AskedCalls
<1>2. \A u \in Task \ {t} :
        /\ call'[u].pc = call[u].pc /\ call'[u].op = call[u].op /\ call'[u].gen = call[u].gen
        /\ Numbered(call'[u].job) /\ (call'[u].job # NoJob => call[u].job # NoJob)
  BY AskedCalls
<1>3. /\ UNCHANGED <<row, routes, engine>> /\ policy' = o.lease
      /\ misread' = (IF Reads(c.op) /\ o.lease # NoLease /\ o.lease.gen = c.gen
                       THEN ~Running \/ row.gen # c.gen \/ c.reading # Truth
                     ELSE misread /\ (c.op = "renew" \/ ~Owned(policy, c.gen)))
  BY DEF Ask, session
<1>4. /\ policy' \in Lease \union {NoLease}
      /\ policy' # NoLease => \/ policy # NoLease /\ policy'.gen = policy.gen
                              \/ c.op = "open" /\ policy'.gen = c.gen
      /\ Shows(policy') =>
           \/ Reads(c.op) /\ policy'.gen = c.gen
           \/ Shows(policy) /\ policy'.gen = policy.gen /\ (c.op \in {"close", "revoke"} => policy.gen # c.gen)
  BY <1>1, <1>3, OutcomeIsSound, PublisherFacts DEF Sound, PublisherOK
<1>5. SessionOK'
  BY <1>3 DEF IInv, TypeOK, SessionOK
<1>6. CallsOK'
  BY <1>1, <1>2 DEF IInv, TypeOK, CallsOK
<1>7. policy' # NoLease => policy'.gen \in Gen
  BY <1>1, <1>4, PublisherFacts DEF PublisherOK
<1>8. EngineInv'
  <2>1. \A g \in Gen : g > row.gen => engine'[g] = "off" /\ call'[g].pc = "idle"
    BY <1>1, <1>2, <1>3, ConstantFacts DEF IInv, EngineInv
  <2>2. policy' # NoLease => policy'.gen <= row.gen
    BY <1>4 DEF IInv, EngineInv
  <2>3. \A u \in Task : call'[u].gen <= row.gen
    BY <1>1, <1>2, RowFacts DEF IInv, EngineInv
  <2>4. policy' # NoLease /\ row.gen = policy'.gen /\ row.life # "stopped" => engine[row.gen] = "up"
    BY <1>1, <1>4 DEF IInv, EngineInv
  <2>5. \A u \in Task : /\ call'[u].op = "open" /\ call'[u].pc \in {"read", "policy"}
                        /\ row.gen = call'[u].gen /\ row.life # "stopped"
                        => engine[row.gen] = "up"
    BY <1>1, <1>2 DEF IInv, EngineInv
  <2>6. \A g \in Gen : engine[g] = "up" => row.gen = g /\ row.life # "stopped"
    BY DEF IInv, EngineInv
  <2>7. QED
    BY <1>3, <2>1, <2>2, <2>3, <2>4, <2>5, <2>6 DEF EngineInv
<1>9. \A g \in Gen : /\ CloseDue(g)' => CloseDue(g)
                     /\ CloseDue(g) => CloseDue(g)' \/ (c.op = "close" /\ c.gen = g)
  BY <1>1, <1>2 DEF CloseDue
<1>10. misread' \in BOOLEAN
  BY <1>3, PublisherFacts DEF PublisherOK, Running, Owned
<1>11. NurseInv'
  <2> SUFFICES ASSUME Shows(policy'), ~misread' PROVE Nursed'
    BY DEF NurseInv, Shows
  <2>1. CASE Reads(c.op) /\ policy'.gen = c.gen
    <3>1. policy' # NoLease
      BY DEF Shows
    <3>2. Running /\ row.gen = c.gen
      BY <1>3, <2>1, <3>1
    <3>3. QED
      BY <1>3, <2>1, <3>2 DEF Nursed, Running
  <2>2. CASE ~(Reads(c.op) /\ policy'.gen = c.gen)
    <3>1. Shows(policy) /\ policy'.gen = policy.gen /\ (c.op \in {"close", "revoke"} => policy.gen # c.gen)
      BY <1>4, <2>2
    <3>2. ~misread
      BY <1>1, <1>3, <2>2, <3>1 DEF Owned, Reads, Call
    <3>3. Nursed /\ policy.gen \in Gen
      BY <3>1, <3>2, PublisherFacts DEF IInv, NurseInv, PublisherOK, Shows
    <3>4. QED
      BY <1>3, <1>9, <3>1, <3>3 DEF Nursed
  <2>3. QED
    BY <2>1, <2>2
<1>12. CASE o.effect = NoEffect
  <2>1. /\ UNCHANGED <<pending, parked, lane, publishing, public>>
        /\ \A u \in Task : call'[u].job = call[u].job
        /\ lost' = (lost \/ (c.op = "open" /\ policy # NoLease /\ policy.live))
    BY <1>12, AskedCalls DEF Ask
  <2>2. PublisherOK'
    BY <1>4, <1>7, <1>10, <2>1, PublisherFacts DEF PublisherOK, Lease
  <2>3. LaneInv'
    BY <1>1, <1>2, <2>1, ConstantFacts DEF IInv, LaneInv
  <2>4. CarryInv'
    <3> SUFFICES ASSUME ~lost' PROVE CarryInv'
      BY DEF CarryInv
    <3>1. ~lost /\ Same(policy, policy')
      BY <1>1, <1>3, <1>12, <2>1, OutcomeIsSound, PublisherFacts DEF Sound, PublisherOK
    <3>2. /\ Shows(policy') <=> Shows(policy)
          /\ Shows(policy) => policy'.gen = policy.gen /\ Shown(policy') = Shown(policy) /\ policy'.renewed = policy.renewed
      BY <3>1 DEF Same
    <3>3. \A s : Matches(policy, s) => Matches(policy', s)
      BY <3>2 DEF Matches
    <3>4. CASE \E u \in Task : InCall(u)
      <4>1. PICK u \in Task : InCall(u)
        BY <3>4
      <4>2. Matches(policy', call[u].job.status)
        BY <3>3, <4>1 DEF InCall
      <4>3. InCall(u)'
        BY <2>1, <4>1, <4>2 DEF InCall
      <4>4. QED
        BY <4>3 DEF CarryInv
    <3>5. CASE InPending
      <4>1. InPending'
        BY <2>1, <3>3, <3>5 DEF InPending, CallsBefore
      <4>2. QED
        BY <4>1 DEF CarryInv
    <3>6. CASE InPublishing
      <4>1. InPublishing'
        BY <2>1, <3>3, <3>6 DEF InPublishing, CallsBefore
      <4>2. QED
        BY <4>1 DEF CarryInv
    <3>7. CASE InParked
      <4>1. InParked'
        BY <2>1, <3>3, <3>7 DEF InParked, CallsBefore
      <4>2. QED
        BY <4>1 DEF CarryInv
    <3>8. CASE Landed
      <4>1. Shows(policy) /\ Nursed' => Nursed
        <5>1. policy # NoLease => policy.gen \in Gen
          BY PublisherFacts DEF PublisherOK
        <5>2. QED
          BY <1>3, <1>9, <3>2, <5>1 DEF Nursed, Shows
      <4>2. Landed'
        BY <2>1, <3>2, <3>8, <4>1 DEF Landed
      <4>3. QED
        BY <4>2 DEF CarryInv
    <3>9. QED
      BY <3>1, <3>4, <3>5, <3>6, <3>7, <3>8 DEF IInv, CarryInv
  <2>5. QED
    BY <1>5, <1>6, <1>8, <1>11, <2>2, <2>3, <2>4 DEF IInv, TypeOK
<1>13. CASE o.effect # NoEffect
  <2>1. /\ d.job \in Job /\ d.job.rev = n + 1 /\ d.job.status = o.effect.status
        /\ \A u \in Task \ {t} : call'[u].job.rev <= n
        /\ pending' = Ranked(pending) /\ parked' = Ranked(parked)
        /\ publishing' = Ranked(publishing) /\ public' = Ranked(public)
        /\ lane' = IF c.op = "now" THEN Append(lane, t) ELSE lane
    BY <1>13, AskedCalls
  <2>2. lost' = FALSE
    BY <1>13 DEF Ask
  <2>3. /\ pending' \in Job /\ parked' \in Job /\ publishing' \in Job
        /\ Numbered(pending') /\ Numbered(parked') /\ Numbered(publishing')
        /\ (publishing' # NoJob => publishing # NoJob)
        /\ pending'.rev <= n /\ parked'.rev <= n /\ publishing'.rev <= n
    <3>1. {pending.rev, parked.rev, publishing.rev, public.rev} \subseteq Revisions \union {0}
      BY DEF Revisions
    <3>2. QED
      BY <2>1, <3>1, RankedFacts, PublisherFacts
  <2>4. public' \in [status : Status \union {NoStatus}, rev : Nat, age : Nat] /\ public'.rev <= n
    <3>1. Rank(public.rev) \in Nat /\ Rank(public.rev) <= n
      BY RevFacts, RankFacts
    <3>2. QED
      BY <2>1, <3>1, PublisherFacts DEF PublisherOK, Ranked
  <2>5. c.op = "now" => t \in Turns
    BY DEF IInv, TypeOK, CallsOK, Turns
  <2>6. lane' \in Seq(Turns) /\ (lane # <<>> => lane' # <<>> /\ Head(lane') = Head(lane))
    BY <2>1, <2>5, LaneFacts, PublisherFacts
  <2>7. PublisherOK'
    BY <1>4, <1>7, <1>10, <2>2, <2>3, <2>4, <2>6 DEF PublisherOK, Turns, Numbered
  <2>8. LaneInv'
    <3> SUFFICES ASSUME publishing' # NoJob PROVE LaneInv'
      BY DEF LaneInv
    <3>1. /\ lane # <<>>
          /\ \/ Head(lane) = "worker"
             \/ /\ Head(lane) \in Caller /\ Head(lane) \in Task
                /\ call[Head(lane)].pc = "await" /\ call[Head(lane)].job = NoJob
      BY <2>3, Publishing
    <3>2. Head(lane) \in Task /\ call[Head(lane)].pc = "await" /\ call[Head(lane)].job = NoJob
            => call'[Head(lane)].pc = "await" /\ call'[Head(lane)].job = NoJob
      BY <1>1, <1>2
    <3>3. QED
      BY <2>6, <3>1, <3>2 DEF LaneInv
  <2>9. CarryInv'
    <3>1. Matches(policy', d.job.status)
      BY <1>1, <1>3, <1>13, <2>1, OutcomeIsSound, PublisherFacts DEF Sound, PublisherOK
    <3>2. n \in Nat
      BY RankFacts
    <3>3. d.job # NoJob
      BY <2>1, <3>2, NoJobFacts
    <3>4. \A u \in Task \ {t} : call'[u].job.rev < d.job.rev
      <4>1. \A u \in Task \ {t} : call'[u].job.rev \in Nat
        BY <1>1 DEF Call, Job
      <4>2. QED
        BY <2>1, <3>2, <4>1
    <3>5. pending'.rev < d.job.rev /\ parked'.rev < d.job.rev /\ publishing'.rev < d.job.rev /\ public'.rev < d.job.rev
      <4>1. pending'.rev \in Nat /\ parked'.rev \in Nat /\ publishing'.rev \in Nat /\ public'.rev \in Nat
        BY <2>3, <2>4 DEF Job
      <4>2. QED
        BY <2>1, <2>3, <2>4, <3>2, <4>1
    <3>6. InCall(t)'
      BY <3>1, <3>3, <3>4, <3>5 DEF InCall
    <3>7. QED
      BY <3>6 DEF CarryInv
  <2>10. QED
    BY <1>5, <1>6, <1>8, <1>11, <2>7, <2>8, <2>9 DEF IInv, TypeOK
<1>14. QED
  BY <1>12, <1>13

----------------------------------------------------------------------------
(* Time, crashes and the beginning *)

\* In a period without a renewal to come, a status that was renewed is a period
\* old at most: it does not lapse.
LEMMA ElapseKeeps ==
  ASSUME IInv, Elapse
  PROVE  IInv'
<1>1. /\ UNCHANGED <<row, routes, engine, call, pending, parked, lane, publishing, lost, misread>>
      /\ policy' = (IF policy = NoLease THEN NoLease ELSE [policy EXCEPT !.renewed = FALSE])
      /\ public' = (IF public.status = NoStatus \/ public.age + 1 = Ttl THEN Nothing
                    ELSE [public EXCEPT !.age = public.age + 1])
      /\ Calm /\ ~EngineDue
  BY DEF Elapse, session, publisher
<1>2. /\ policy' \in Lease \union {NoLease} /\ (policy' = NoLease <=> policy = NoLease)
      /\ policy # NoLease =>
           /\ policy'.gen = policy.gen /\ policy'.gen \in Gen /\ policy'.renewed = FALSE
           /\ policy'.live = policy.live /\ policy'.channels = policy.channels /\ policy'.state = policy.state
  <2>1. CASE policy = NoLease
    BY <1>1, <2>1
  <2>2. CASE policy # NoLease
    <3>1. policy \in Lease /\ policy.gen \in Gen
      BY <2>2, PublisherFacts DEF PublisherOK
    <3>2. policy' = [policy EXCEPT !.renewed = FALSE]
      BY <1>1, <2>2
    <3>3. policy' \in Lease
      BY <3>1, <3>2 DEF Lease
    <3>4. QED
      BY <2>2, <3>1, <3>2, <3>3, PolicyAssumption DEF Lease
  <2>3. QED
    BY <2>1, <2>2
<1>3. Shows(policy') <=> Shows(policy)
  BY <1>2 DEF Shows
<1>4. policy # NoLease => Shown(policy') = Shown(policy)
  BY <1>2 DEF Shown
<1>5. /\ public' \in [status : Status \union {NoStatus}, rev : Nat, age : Nat]
      /\ public'.status \in {NoStatus, public.status} /\ public'.rev \in {0, public.rev}
      /\ public.status # NoStatus /\ public.age = 0 => public'.status = public.status /\ public'.age = 1
                                                      /\ public'.rev = public.rev
  <2>1. public \in [status : Status \union {NoStatus}, rev : Nat, age : Nat]
    BY PublisherFacts DEF PublisherOK
  <2>2. Nothing \in [status : Status \union {NoStatus}, rev : Nat, age : Nat]
        /\ Nothing.status = NoStatus /\ Nothing.rev = 0
    BY DEF Nothing
  <2>3. public.age = 0 => public.age + 1 # Ttl /\ public.age + 1 = 1
    BY ConstantFacts
  <2>4. QED
    BY <1>1, <2>1, <2>2, <2>3
<1>6. SessionOK' /\ CallsOK'
  BY <1>1 DEF IInv, TypeOK, SessionOK, CallsOK
<1>7. PublisherOK'
  BY <1>1, <1>2, <1>5, PublisherFacts DEF PublisherOK, Turns
<1>8. EngineInv'
  BY <1>1, <1>2 DEF IInv, EngineInv
<1>9. \A g : CloseDue(g)' <=> CloseDue(g)
  BY <1>1 DEF CloseDue
<1>10. policy # NoLease => (Nursed' <=> Nursed)
  BY <1>1, <1>2, <1>9 DEF Nursed
<1>11. NurseInv'
  BY <1>1, <1>3, <1>10 DEF IInv, NurseInv, Shows
<1>12. LaneInv'
  BY <1>1 DEF IInv, LaneInv
<1>13. CarryInv'
  <2> SUFFICES ASSUME ~lost PROVE CarryInv'
    BY <1>1 DEF CarryInv
  <2>1. \A u \in Task : call[u].job = NoJob /\ call[u].pc # "policy"
    BY <1>1 DEF Calm, IInv, TypeOK, CallsOK
  <2>2. pending = NoJob /\ publishing = NoJob
    BY <1>1 DEF Calm
  <2>3. CASE InParked
    <3>1. Matches(policy', parked.status)
      BY <1>3, <1>4, <2>3 DEF InParked, Matches, Shows
    <3>2. public'.rev <= parked.rev
      BY <1>5, <2>3, RevFacts DEF InParked
    <3>3. InParked'
      BY <1>1, <2>3, <3>1, <3>2 DEF InParked, CallsBefore
    <3>4. QED
      BY <3>3 DEF CarryInv
  <2>4. CASE Landed
    <3>1. ~Shows(policy') => ~Live(public'.status)
      BY <1>3, <1>5, <2>4 DEF Landed, Live
    <3>2. ASSUME Shows(policy'), Nursed'
          PROVE  public'.status = Shown(policy') /\ public'.age = 1 /\ ~policy'.renewed
      <4>1. Shows(policy) /\ policy # NoLease /\ Nursed /\ policy.gen \in Gen
        BY <1>2, <1>3, <1>10, <3>2 DEF Shows
      <4>2. policy.renewed
        <5>1. engine[policy.gen] # "cancelled"
          BY <1>1, <4>1 DEF EngineDue
        <5>2. row.gen = policy.gen /\ row.life # "stopped"
          BY <2>1, <4>1, <5>1 DEF Nursed, CloseDue
        <5>3. engine[policy.gen] = "up"
          BY <4>1, <5>2 DEF IInv, EngineInv
        <5>4. QED
          BY <1>1, <4>1, <5>3 DEF EngineDue
      <4>3. public.status = Shown(policy) /\ public.age = 0
        BY <2>4, <4>1, <4>2 DEF Landed
      <4>4. Shown(policy) # NoStatus
        <5>1. policy \in Lease
          BY <4>1, PublisherFacts DEF PublisherOK
        <5>2. Shown(policy) \in Status
          BY <5>1 DEF Shown, Status, Lease
        <5>3. QED
          BY <5>2, StatusAssumption
      <4>5. QED
        BY <1>2, <1>4, <1>5, <4>1, <4>3, <4>4
    <3>3. Landed'
      BY <1>1, <2>1, <2>4, <3>1, <3>2 DEF Landed
    <3>4. QED
      BY <3>3 DEF CarryInv
  <2>5. QED
    BY <2>1, <2>2, <2>3, <2>4 DEF IInv, CarryInv, InCall, InPending, InPublishing
<1>14. QED
  BY <1>6, <1>7, <1>8, <1>11, <1>12, <1>13 DEF IInv, TypeOK

\* No call is under way, or only the one that opens the lease.
LEMMA RestartKeeps ==
  ASSUME IInv, Restart
  PROVE  IInv'
<1>0. PICK gone \in BOOLEAN :
        /\ row' = (IF Running /\ gone
                     THEN [row EXCEPT !.life = "stopped", !.working = FALSE, !.epoch = row.epoch + 1]
                   ELSE row)
        /\ engine' = [g \in Gen |-> IF Running /\ ~gone /\ g = row.gen THEN "up" ELSE "off"]
        /\ call' = [t \in Task |-> IF Running /\ ~gone /\ t = row.gen THEN Begin("open", t, NoScope) ELSE Idle]
  BY DEF Restart
<1> DEFINE revived == Running /\ ~gone
<1>1. /\ row'.gen = row.gen /\ (revived => row' = row)
      /\ row' \in [gen : Gen, life : {"running", "stopping", "stopped"}, working : BOOLEAN, epoch : Nat]
      /\ routes' = routes /\ policy' = NoLease /\ misread' = FALSE
      /\ engine' = [g \in Gen |-> IF revived /\ g = row.gen THEN "up" ELSE "off"]
      /\ call' = [t \in Task |-> IF revived /\ t = row.gen THEN Begin("open", t, NoScope) ELSE Idle]
      /\ public' \in {Nothing, [public EXCEPT !.rev = 0]} /\ (lost' <=> Live(public'.status))
      /\ lost' \in BOOLEAN
      /\ pending' = NoJob /\ parked' = NoJob /\ lane' = <<>> /\ publishing' = NoJob
  BY <1>0, RowFacts DEF Restart, Live
<1> DEFINE c == Begin("open", row.gen, NoScope)
<1>2. c \in Call /\ c.op = "open" /\ c.gen = row.gen /\ c.job = NoJob /\ c.pc = "read"
  BY BeginIsTyped, RowFacts, NoJobFacts
<1>3. \A t \in Task : \/ call'[t] = c /\ t = row.gen /\ revived
                      \/ call'[t] = Idle
  BY <1>1
<1>4. call' \in [Task -> Call] /\ \A t \in Task : call'[t].job = NoJob
  BY <1>1, <1>2, <1>3, IdleIsTyped
<1>5. SessionOK'
  BY <1>1 DEF IInv, TypeOK, SessionOK
<1>6. CallsOK'
  <2>1. ASSUME NEW t \in Task, call'[t] = c, t = row.gen
        PROVE  /\ call'[t].op # "none" => call'[t].gen \in Gen
               /\ call'[t].pc = "read" => Reads(call'[t].op)
               /\ call'[t].op = "now" => t \in Caller
               /\ call'[t].pc \in {"read", "policy"} => call'[t].op # "none"
    BY <1>2, <2>1, RowFacts DEF Reads
  <2>2. ASSUME NEW t \in Task, call'[t] = Idle
        PROVE  /\ call'[t].op # "none" => call'[t].gen \in Gen
               /\ call'[t].pc = "read" => Reads(call'[t].op)
               /\ call'[t].op = "now" => t \in Caller
               /\ call'[t].pc \in {"read", "policy"} => call'[t].op # "none"
    BY <2>2, IdleIsTyped
  <2>3. QED
    BY <1>3, <1>4, <2>1, <2>2, NoJobFacts DEF CallsOK
<1>7. PublisherOK'
  <2>1. public' \in [status : Status \union {NoStatus}, rev : Nat, age : Nat]
    BY <1>1, PublisherFacts DEF PublisherOK, Nothing
  <2>2. lane' \in Seq(Caller \union Holder)
    BY <1>1
  <2>3. QED
    BY <1>1, <2>1, <2>2, NoJobFacts DEF PublisherOK
<1>8. EngineInv'
  <2>1. \A g \in Gen : g > row.gen => g # row.gen /\ g \in Task
    BY RowFacts, ConstantFacts
  <2>2. \A g \in Gen : g > row.gen => engine'[g] = "off" /\ call'[g].pc = "idle"
    BY <1>1, <1>3, <2>1, IdleIsTyped
  <2>3. \A t \in Task : call'[t].gen <= row.gen
    BY <1>2, <1>3, RowFacts, IdleIsTyped
  <2>4. \A g \in Gen : engine'[g] = "up" => row.gen = g /\ row.life # "stopped"
    BY <1>1 DEF Running
  <2>5. \A t \in Task : call'[t].op = "open" => engine'[row.gen] = "up"
    BY <1>1, <1>3, RowFacts, IdleIsTyped
  <2>6. QED
    BY <1>1, <2>2, <2>3, <2>4, <2>5 DEF EngineInv
<1>9. ~Shows(policy')
  BY <1>1 DEF Shows
<1>10. NurseInv' /\ LaneInv'
  BY <1>1, <1>9 DEF NurseInv, LaneInv, Shows
<1>11. CarryInv'
  BY <1>1, <1>4, <1>9 DEF CarryInv, Landed, Shows
<1>12. QED
  BY <1>5, <1>6, <1>7, <1>8, <1>10, <1>11 DEF IInv, TypeOK

\* A session that has been shown for a while, or reads no channel.
LEMMA InitEstablishes == Init => IInv
<1> SUFFICES ASSUME Init PROVE IInv
  OBVIOUS
<1>1. /\ row = [gen |-> 1, life |-> "running", working |-> FALSE, epoch |-> 1]
      /\ routes \subseteq Channel
      /\ engine = [g \in Gen |-> IF g = 1 THEN "up" ELSE "off"]
      /\ call = [t \in Task |-> Idle]
      /\ policy = [gen |-> 1, channels |-> routes, state |-> "idle", live |-> TRUE, renewed |-> TRUE]
      /\ public = (IF routes = {} THEN Nothing ELSE [status |-> Shown(policy), rev |-> 1, age |-> 0])
      /\ pending = NoJob /\ parked = NoJob /\ lane = <<>> /\ publishing = NoJob
      /\ lost = FALSE /\ misread = FALSE
  BY DEF Init
<1>2. 1 \in Gen /\ 1 \in Nat
  BY ConstantFacts
<1>3. SessionOK
  BY <1>1, <1>2 DEF SessionOK
<1>4. CallsOK
  BY <1>1, IdleIsTyped, NoJobFacts DEF CallsOK
<1>5. policy \in Lease /\ policy.gen = 1 /\ policy # NoLease
  <2>1. policy \in Lease
    BY <1>1 DEF Lease
  <2>2. QED
    BY <1>1, <2>1, PolicyAssumption
<1>6. public \in [status : Status \union {NoStatus}, rev : Nat, age : Nat]
  <2>1. Shown(policy) \in Status
    BY <1>5 DEF Shown, Status, Lease
  <2>2. QED
    BY <1>1, <2>1 DEF Nothing
<1>7. PublisherOK
  <2>1. lane \in Seq(Caller \union Holder)
    BY <1>1
  <2>2. QED
    BY <1>1, <1>2, <1>5, <1>6, <2>1, NoJobFacts DEF PublisherOK
<1>8. EngineInv
  <2>1. row.gen = 1 /\ row.life = "running"
    BY <1>1
  <2>2. \A g \in Gen : g > 1 => engine[g] = "off" /\ call[g].pc = "idle"
    BY <1>1, ConstantFacts, IdleIsTyped
  <2>3. \A t \in Task : call[t].gen <= 1 /\ call[t].op # "open"
    BY <1>1, IdleIsTyped
  <2>4. \A g \in Gen : engine[g] = "up" => g = 1
    BY <1>1
  <2>5. engine[1] = "up"
    BY <1>1, <1>2
  <2>6. QED
    BY <1>5, <2>1, <2>2, <2>3, <2>4, <2>5 DEF EngineInv
<1>9. Nursed
  BY <1>1, <1>5 DEF Nursed
<1>10. NurseInv /\ LaneInv
  BY <1>1, <1>9 DEF NurseInv, LaneInv
<1>11. Landed
  <2>1. \A t \in Task : call[t].job = NoJob
    BY <1>1, IdleIsTyped
  <2>2. CASE routes = {}
    <3>1. ~Shows(policy) /\ ~Live(public.status)
      BY <1>1, <2>2 DEF Shows, Live, Nothing
    <3>2. QED
      BY <1>1, <2>1, <3>1 DEF Landed
  <2>3. CASE routes # {}
    <3>1. Shows(policy)
      BY <1>1, <1>5, <2>3 DEF Shows
    <3>2. public.status = Shown(policy) /\ public.age = 0
      BY <1>1, <2>3
    <3>3. QED
      BY <1>1, <2>1, <3>1, <3>2 DEF Landed
  <2>4. QED
    BY <2>2, <2>3
<1>12. QED
  BY <1>3, <1>4, <1>7, <1>8, <1>10, <1>11 DEF IInv, TypeOK, CarryInv

\* Nothing happens.
LEMMA StutterKeeps ==
  ASSUME IInv, UNCHANGED vars
  PROVE  IInv'
BY DEF vars, IInv, TypeOK, SessionOK, CallsOK, PublisherOK, EngineInv, NurseInv, Nursed, CloseDue, LaneInv,
       CarryInv, InCall, InPending, InPublishing, InParked, Landed, CallsBefore, Matches, Shows

\* Every step keeps the invariant.
LEMMA NextKeeps ==
  ASSUME IInv, [Next]_vars
  PROVE  IInv'
<1>1. ASSUME NEW t \in Task, CallStep(t) PROVE IInv'
  BY <1>1, AskKeeps, SubmitKeeps, RemovalsKeep DEF CallStep
<1>2. ASSUME NEW g \in Gen, EngineStep(g) PROVE IInv'
  BY <1>2, RenewKeeps, EngineEndsKeeps DEF EngineStep
<1>3. CASE LaneStep
  BY <1>3, QueueKeeps, WorkerKeeps, OtherDoneKeeps, RequeueKeeps, AwaitedKeeps DEF LaneStep
<1>4. CASE Publication
  BY <1>4, GateKeeps, LandsKeeps, FailsKeeps DEF Publication
<1>5. CASE OtherQueues
  BY <1>5, QueueKeeps
<1>6. ASSUME NEW t \in Caller, Requests(t) PROVE IInv'
  <2>1. CASE TurnEdge(t)
    BY <2>1, RequestsKeep
  <2>2. CASE Stop(t)
    BY <2>2, StopKeeps
  <2>3. CASE Forget(t)
    BY <2>3, RequestsKeep
  <2>4. CASE \E k \in Channel : Admit(t, k) \/ Leave(t, k)
    BY <2>4, RequestsKeep
  <2>5. QED
    BY <1>6, <2>1, <2>2, <2>3, <2>4 DEF Requests
<1>7. CASE (\E k \in Channel : AdmissionFails(k)) \/ Reserve \/ CancelEviction \/ ViewFollows
  BY <1>7, LifeKeeps
<1>8. CASE Launch
  BY <1>8, LaunchKeeps
<1>9. CASE Elapse
  BY <1>9, ElapseKeeps
<1>10. CASE Restart
  BY <1>10, RestartKeeps
<1>11. CASE UNCHANGED vars
  BY <1>11, StutterKeeps
<1>12. QED
  BY <1>1, <1>2, <1>3, <1>4, <1>5, <1>6, <1>7, <1>8, <1>9, <1>10, <1>11 DEF Next

\* In calm no job is on its way: the outcome is lost, or it has landed.
LEMMA CalmIsLanded == IInv => NothingIsDropped
<1> SUFFICES ASSUME IInv, Quiet, ~lost, ~misread
             PROVE  IF policy # NoLease /\ policy.live /\ policy.channels # {}
                      THEN public.status = Shown(policy) ELSE ~Live(public.status)
  BY DEF NothingIsDropped
<1>1. pending = NoJob /\ publishing = NoJob /\ parked = NoJob /\ \A t \in Task : call[t].job = NoJob
  BY DEF Quiet, Calm, IInv, TypeOK, CallsOK
<1>2. Landed
  BY <1>1 DEF IInv, CarryInv, InCall, InPending, InPublishing, InParked
<1>3. Shows(policy) => Nursed
  BY DEF IInv, NurseInv
<1>4. QED
  BY <1>2, <1>3 DEF Landed, Shows

\* Once nothing is under way, the relay shows what the policy last said, unless
\* that was lost or the lease holds an old reading (presence_publisher.rs,
\* deferred.rs: park, settle, requeue_into, discard_superseded).
THEOREM NothingDropped == Spec => []NothingIsDropped
<1>1. Init => IInv
  BY InitEstablishes
<1>2. IInv /\ [Next]_vars => IInv'
  BY NextKeeps
<1>3. IInv => NothingIsDropped
  BY CalmIsLanded
<1>4. QED
  BY <1>1, <1>2, <1>3, PTL DEF Spec
=============================================================================
