----------------------- MODULE ChannelStandingProofs -----------------------
(* Theorems about ChannelStanding, for every set of tasks and every budget.   *)
(*                                                                           *)
(* The argument.  Whoever is between a relay mutation and its record holds    *)
(* the lane (TypeOK), so at most one worker is.  A membership is written, and *)
(* the roster changed, under the lane only; a worker about to mark the        *)
(* session absent has either removed it from the roster or finds no member    *)
(* row (MarkInv); finalization follows revocation and takes the route, and    *)
(* every operation that grants a route checks the revocation (FinalInv); the  *)
(* coordinator removes either under a route or where no leave owns the        *)
(* channel (CoordinatorInv).                                                  *)
EXTENDS ChannelStanding, TLAPS

\* A worker about to record an absence records the truth.
MarkInv == \A w \in Worker : ops[w].pc = "mark" => ~relay \/ ~Member(db)

\* A finalized session is revoked for good and routeless.
FinalInv == db.final => db.revoked /\ ~db.route

Safe == EveryMemberIsRecorded /\ MarkInv

\* The two halves of TypeOK.
DataOK ==
  /\ db \in Rows /\ relay \in BOOLEAN /\ view \in BOOLEAN /\ ready \in BOOLEAN
  /\ strayed \in BOOLEAN /\ budget \in Budget

OpsOK ==
  /\ ops \in [Worker -> Op] /\ lane \in Worker \union {NoTask}
  /\ \A w \in Worker : ops[w].pc \in InLane <=> lane = w

IInv == DataOK /\ OpsOK /\ Safe /\ FinalInv

----------------------------------------------------------------------------
(* The store's operations *)

\* Rows are closed under the writing of a column.
LEMMA Columns ==
  ASSUME NEW d \in Rows
  PROVE  /\ d.gen + 1 \in Nat /\ d.life + 1 \in Nat /\ d.epoch + 1 \in Nat
         /\ \A v \in BOOLEAN : [d EXCEPT !.running = v] \in Rows
         /\ \A v \in BOOLEAN : [d EXCEPT !.final = v] \in Rows
         /\ \A v \in BOOLEAN : [d EXCEPT !.route = v] \in Rows
         /\ \A v \in Nat : [d EXCEPT !.gen = v] \in Rows
         /\ \A v \in Nat : [d EXCEPT !.life = v] \in Rows
BY DEF Rows

LEMMA StandingRow ==
  ASSUME NEW d \in Rows, NEW state \in {"none", "absent", "member"}, NEW owner \in Nat
  PROVE  /\ WithStanding(d, state, owner) \in Rows
         /\ WithStanding(d, state, owner).state = state
         /\ WithStanding(d, state, owner).route = d.route
         /\ WithStanding(d, state, owner).final = d.final
         /\ WithStanding(d, state, owner).revoked = d.revoked
<1>1. d.epoch + 1 \in Nat
  BY DEF Rows
<1>2. WithStanding(d, state, owner) \in Rows
  BY <1>1 DEF Rows, WithStanding
<1>3. WithStanding(d, state, owner).state = state
  BY DEF Rows, WithStanding
<1>4. WithStanding(d, state, owner).route = d.route
  BY DEF Rows, WithStanding
<1>5. WithStanding(d, state, owner).final = d.final
  BY DEF Rows, WithStanding
<1>6. WithStanding(d, state, owner).revoked = d.revoked
  BY DEF Rows, WithStanding
<1>7. QED
  BY <1>2, <1>3, <1>4, <1>5, <1>6

\* The runtime's transitions keep a membership.
LEMMA LaunchedRow ==
  ASSUME NEW d \in Rows, NEW here \in BOOLEAN
  PROVE  /\ Reserved(d, here) \in Rows
         /\ Member(Reserved(d, here)) <=> Member(d)
         /\ Reserved(d, here).final = d.final
<1>1. Reserved(d, here) \in Rows
  <2> DEFINE r == [d EXCEPT !.gen = d.gen + 1, !.life = d.life + 1, !.running = TRUE]
             w == WithStanding(r, "absent", r.life)
  <2>1. r \in Rows /\ r.life \in Nat
    <3>1. [d EXCEPT !.gen = d.gen + 1, !.life = d.life + 1] \in Rows
      BY Columns DEF Rows
    <3>2. r \in Rows
      BY <3>1, Columns DEF Rows
    <3>3. QED
      BY <3>2 DEF Rows
  <2>2. w \in Rows
    <3> HIDE DEF r
    <3> QED  BY <2>1, StandingRow
  <2>3. [r EXCEPT !.route = TRUE] \in Rows
    <3> HIDE DEF r
    <3> QED  BY <2>1, Columns
  <2>4. [w EXCEPT !.route = TRUE] \in Rows
    <3> HIDE DEF w
    <3> QED  BY <2>2, Columns
  <2>5. QED
    BY <2>1, <2>3, <2>4, Zenon DEF Reserved
<1>2. Member(Reserved(d, here)) <=> Member(d)
  BY StandingRow DEF Rows, Reserved, WithStanding, Member
<1>3. Reserved(d, here).final = d.final
  BY StandingRow DEF Rows, Reserved, WithStanding, Member
<1>4. QED
  BY <1>1, <1>2, <1>3

LEMMA StoppedRow ==
  ASSUME NEW d \in Rows
  PROVE  /\ Stopped(d) \in Rows
         /\ Member(Stopped(d)) <=> Member(d)
         /\ Stopped(d).final = d.final
         /\ Stopped(d).revoked = d.revoked
         /\ Stopped(d).route = d.route
<1>1. Stopped(d) \in Rows
  BY Columns DEF Rows, Stopped
<1>2. Member(Stopped(d)) <=> Member(d)
  BY DEF Rows, Stopped, Member
<1>3. Stopped(d).final = d.final
  BY DEF Rows, Stopped, Member
<1>4. Stopped(d).revoked = d.revoked
  BY DEF Rows, Stopped, Member
<1>5. Stopped(d).route = d.route
  BY DEF Rows, Stopped, Member
<1>6. QED
  BY <1>1, <1>2, <1>3, <1>4, <1>5

LEMMA RevokedRow ==
  ASSUME NEW d \in Rows
  PROVE  /\ Revoked(d) \in Rows
         /\ Member(Revoked(d)) <=> Member(d)
         /\ Revoked(d).final = d.final
         /\ Revoked(d).revoked
         /\ Revoked(d).route = d.route
<1>1. Revoked(d) \in Rows
  BY DEF Rows, Revoked, Member
<1>2. Member(Revoked(d)) <=> Member(d)
  BY DEF Rows, Revoked, Member
<1>3. Revoked(d).final = d.final
  BY DEF Rows, Revoked, Member
<1>4. Revoked(d).revoked
  BY DEF Rows, Revoked, Member
<1>5. Revoked(d).route = d.route
  BY DEF Rows, Revoked, Member
<1>6. QED
  BY <1>1, <1>2, <1>3, <1>4, <1>5

LEMMA FinalizedRow ==
  ASSUME NEW d \in Rows
  PROVE  /\ Finalized(d) \in Rows
         /\ Member(Finalized(d)) <=> Member(d)
         /\ Finalized(d).revoked = d.revoked
         /\ ~Finalized(d).route
<1>1. Finalized(d) \in Rows
  <2> DEFINE a == [d EXCEPT !.running = FALSE, !.life = d.life + 1]
             b == [a EXCEPT !.route = FALSE]
             r == [b EXCEPT !.final = TRUE]
  <2>1. a \in Rows
    BY Columns DEF Rows
  <2>2. b \in Rows
    <3> HIDE DEF a
    <3> QED  BY <2>1, Columns
  <2>3. r \in Rows
    <3> HIDE DEF b
    <3> QED  BY <2>2, Columns
  <2>4. [d EXCEPT !.running = FALSE, !.life = d.life + 1, !.route = FALSE, !.final = TRUE] = r
    BY DEF Rows
  <2>5. r.life \in Nat
    <3> HIDE DEF r
    <3> QED  BY <2>3 DEF Rows
  <2>6. WithStanding(r, "member", r.life) \in Rows /\ WithStanding(r, "absent", r.life) \in Rows
    <3> HIDE DEF r
    <3> QED  BY <2>3, <2>5, StandingRow
  <2>7. QED
    <3> HIDE DEF r
    <3> QED  BY <2>3, <2>4, <2>6 DEF Finalized
<1>2. Member(Finalized(d)) <=> Member(d)
  BY DEF Rows, Finalized, WithStanding, Member
<1>3. Finalized(d).revoked = d.revoked
  BY DEF Rows, Finalized, WithStanding, Member
<1>4. ~Finalized(d).route
  BY DEF Rows, Finalized, WithStanding, Member
<1>5. QED
  BY <1>1, <1>2, <1>3, <1>4

\* What an admission writes is a membership.
LEMMA CommittedRow ==
  ASSUME NEW d \in Rows
  PROVE  /\ Committed(d) \in Rows
         /\ Member(Committed(d))
         /\ Committed(d).final = d.final
<1>1. Committed(d) \in Rows
  <2>1. d.life \in Nat
    BY DEF Rows
  <2>2. WithStanding(d, "member", d.life) \in Rows
    BY <2>1, StandingRow
  <2>3. QED
    BY <2>2, Columns DEF Committed
<1>2. Member(Committed(d))
  BY DEF Rows, Committed, WithStanding, Member
<1>3. Committed(d).final = d.final
  BY DEF Rows, Committed, WithStanding, Member
<1>4. QED
  BY <1>1, <1>2, <1>3

LEMMA ScheduledRow ==
  ASSUME NEW d \in Rows, NEW life \in Nat
  PROVE  /\ CleanupScheduled(d, life) \in Rows
         /\ Member(CleanupScheduled(d, life))
         /\ CleanupScheduled(d, life).final = d.final
         /\ CleanupScheduled(d, life).revoked = d.revoked
         /\ CleanupScheduled(d, life).route = d.route
<1>1. CleanupScheduled(d, life) \in Rows
  BY StandingRow DEF Rows, CleanupScheduled, Superseded, WithStanding, Member
<1>2. Member(CleanupScheduled(d, life))
  BY StandingRow DEF Rows, CleanupScheduled, Superseded, WithStanding, Member
<1>3. CleanupScheduled(d, life).final = d.final
  BY StandingRow DEF Rows, CleanupScheduled, Superseded, WithStanding, Member
<1>4. CleanupScheduled(d, life).revoked = d.revoked
  BY StandingRow DEF Rows, CleanupScheduled, Superseded, WithStanding, Member
<1>5. CleanupScheduled(d, life).route = d.route
  BY StandingRow DEF Rows, CleanupScheduled, Superseded, WithStanding, Member
<1>6. QED
  BY <1>1, <1>2, <1>3, <1>4, <1>5

\* A leave takes the route first; only an owner has it restored.
LEMMA RouteLeftRow ==
  ASSUME NEW d \in Rows
  PROVE  /\ RouteLeft(d) \in Rows
         /\ LeftStanding(d) \in Nat
         /\ Member(RouteLeft(d)) <=> Member(d)
         /\ RouteLeft(d).final = d.final
         /\ RouteLeft(d).revoked = d.revoked
         /\ ~RouteLeft(d).route
<1>1. RouteLeft(d) \in Rows
  BY DEF Rows, RouteLeft, Member, LeftStanding
<1>2. LeftStanding(d) \in Nat
  BY DEF Rows, RouteLeft, Member, LeftStanding
<1>3. Member(RouteLeft(d)) <=> Member(d)
  BY DEF Rows, RouteLeft, Member, LeftStanding
<1>4. RouteLeft(d).final = d.final
  BY DEF Rows, RouteLeft, Member, LeftStanding
<1>5. RouteLeft(d).revoked = d.revoked
  BY DEF Rows, RouteLeft, Member, LeftStanding
<1>6. ~RouteLeft(d).route
  BY DEF Rows, RouteLeft, Member, LeftStanding
<1>7. QED
  BY <1>1, <1>2, <1>3, <1>4, <1>5, <1>6

LEMMA RestoredRow ==
  ASSUME NEW d \in Rows, NEW gen \in Nat, NEW epoch \in Nat
  PROVE  /\ RouteRestored(d, gen, epoch) \in Rows
         /\ Member(RouteRestored(d, gen, epoch)) <=> Member(d)
         /\ RouteRestored(d, gen, epoch).final = d.final
         /\ RouteRestored(d, gen, epoch).revoked = d.revoked
         /\ d.revoked => RouteRestored(d, gen, epoch).route = d.route
<1>1. RouteRestored(d, gen, epoch) \in Rows
  BY DEF Rows, RouteRestored, Owns, Member
<1>2. Member(RouteRestored(d, gen, epoch)) <=> Member(d)
  BY DEF Rows, RouteRestored, Owns, Member
<1>3. RouteRestored(d, gen, epoch).final = d.final
  BY DEF Rows, RouteRestored, Owns, Member
<1>4. RouteRestored(d, gen, epoch).revoked = d.revoked
  BY DEF Rows, RouteRestored, Owns, Member
<1>5. d.revoked => RouteRestored(d, gen, epoch).route = d.route
  BY DEF Rows, RouteRestored, Owns, Member
<1>6. QED
  BY <1>1, <1>2, <1>3, <1>4, <1>5

LEMMA LeftRow ==
  ASSUME NEW d \in Rows
  PROVE  /\ Left(d) \in Rows
         /\ ~Member(Left(d))
         /\ Left(d).final = d.final
         /\ Left(d).revoked = d.revoked
         /\ ~Left(d).route
<1>1. Left(d) \in Rows
  <2> DEFINE r == [d EXCEPT !.route = FALSE]
  <2>1. r \in Rows /\ d.life \in Nat /\ d.owner \in Nat
    BY Columns DEF Rows
  <2>2. WithStanding(r, "absent", IF d.state = "none" THEN d.life ELSE d.owner) \in Rows
    <3> HIDE DEF r
    <3> QED  BY <2>1, StandingRow
  <2>3. QED
    BY <2>2, Zenon DEF Left
<1>2. ~Member(Left(d))
  BY DEF Rows, Left, WithStanding, Member
<1>3. Left(d).final = d.final
  BY DEF Rows, Left, WithStanding, Member
<1>4. Left(d).revoked = d.revoked
  BY DEF Rows, Left, WithStanding, Member
<1>5. ~Left(d).route
  BY DEF Rows, Left, WithStanding, Member
<1>6. QED
  BY <1>1, <1>2, <1>3, <1>4, <1>5

LEMMA AbsentRow ==
  ASSUME NEW d \in Rows, NEW epoch, NEW owner
  PROVE  /\ MarkedAbsent(d, epoch, owner) \in Rows
         /\ Member(MarkedAbsent(d, epoch, owner)) => Member(d)
         /\ MarkedAbsent(d, epoch, owner).final = d.final
         /\ MarkedAbsent(d, epoch, owner).revoked = d.revoked
         /\ MarkedAbsent(d, epoch, owner).route = d.route
<1>1. MarkedAbsent(d, epoch, owner) \in Rows
  <2>1. d.owner \in Nat
    BY DEF Rows
  <2>2. QED
    BY <2>1, StandingRow DEF MarkedAbsent
<1>2. Member(MarkedAbsent(d, epoch, owner)) => Member(d)
  BY DEF Rows, MarkedAbsent, SameStanding, WithStanding, Member
<1>3. MarkedAbsent(d, epoch, owner).final = d.final
  BY DEF Rows, MarkedAbsent, SameStanding, WithStanding, Member
<1>4. MarkedAbsent(d, epoch, owner).revoked = d.revoked
  BY DEF Rows, MarkedAbsent, SameStanding, WithStanding, Member
<1>5. MarkedAbsent(d, epoch, owner).route = d.route
  BY DEF Rows, MarkedAbsent, SameStanding, WithStanding, Member
<1>6. QED
  BY <1>1, <1>2, <1>3, <1>4, <1>5

----------------------------------------------------------------------------
(* The workers *)

LEMMA OpTyped ==
  /\ Idle \in Op /\ Idle.pc = "idle"
  /\ \A d \in Rows, kind \in Kinds :
       /\ Reads(kind, d) \in Op /\ Reads(kind, d).pc = "queued"
       /\ ReadsStanding(kind, d) \in Op /\ ReadsStanding(kind, d).pc = "queued"
<1>1. Idle \in Op /\ Idle.pc = "idle"
  BY DEF Idle, Op, Kinds, Admissions
<1>2. ASSUME NEW d \in Rows, NEW kind \in Kinds
      PROVE  Reads(kind, d) \in Op /\ Reads(kind, d).pc = "queued"
  BY <1>2 DEF Reads, Op, Rows
<1>3. ASSUME NEW d \in Rows, NEW kind \in Kinds
      PROVE  ReadsStanding(kind, d) \in Op /\ ReadsStanding(kind, d).pc = "queued"
  BY <1>3 DEF ReadsStanding, Reads, Op, Rows
<1>4. QED
  BY <1>1, <1>2, <1>3

\* An operation in another phase is an operation.
LEMMA OpMoved ==
  ASSUME NEW op \in Op, NEW pc \in {"idle", "queued", "withdraw", "terminate"} \union InLane
  PROVE  [op EXCEPT !.pc = pc] \in Op /\ [op EXCEPT !.pc = pc].pc = pc
BY DEF Op

\* One worker goes on, and the lane is its own or nobody's business.
LEMMA WorkerMoves ==
  ASSUME OpsOK, NEW w \in Worker, NEW op \in Op, Become(w, op),
         lane' \in Worker \union {NoTask},
         op.pc \in InLane <=> lane' = w,
         \A v \in Worker \ {w} : lane' = v <=> lane = v
  PROVE  OpsOK'
<1>1. ops' \in [Worker -> Op]
  BY DEF OpsOK, Become
<1>2. ASSUME NEW v \in Worker PROVE ops'[v].pc \in InLane <=> lane' = v
  <2>1. CASE v = w
    BY <2>1 DEF OpsOK, Become
  <2>2. CASE v # w
    BY <2>2 DEF OpsOK, Become
  <2>3. QED
    BY <2>1, <2>2
<1>3. QED
  BY <1>1, <1>2 DEF OpsOK

\* The four ways a worker and the lane move together.
LEMMA Moves ==
  ASSUME OpsOK, NEW w \in Worker, NEW op \in Op, Become(w, op)
  PROVE  /\ ops[w].pc \notin InLane /\ op.pc \notin InLane /\ lane' = lane => OpsOK'
         /\ lane = NoTask /\ lane' = w /\ op.pc \in InLane => OpsOK'
         /\ lane = w /\ lane' = NoTask /\ op.pc \notin InLane => OpsOK'
         /\ lane = w /\ lane' = lane /\ op.pc \in InLane => OpsOK'
<1>1. NoTask \notin Worker
  BY TaskAssumption DEF Worker
<1>2. lane = w <=> ops[w].pc \in InLane
  BY DEF OpsOK
<1>3. lane \in Worker \union {NoTask}
  BY DEF OpsOK
<1>4. QED
  BY <1>1, <1>2, <1>3, WorkerMoves

LEMMA SpendTyped ==
  ASSUME budget \in Budget,
         NEW counter \in {"launches", "joins", "leaves", "forgets", "faults", "crashes"}, Spend(counter)
  PROVE  budget' \in Budget
<1>1. CASE counter = "launches"
  BY <1>1 DEF Spend, Budget
<1>2. CASE counter = "joins"
  BY <1>2 DEF Spend, Budget
<1>3. CASE counter = "leaves"
  BY <1>3 DEF Spend, Budget
<1>4. CASE counter = "forgets"
  BY <1>4 DEF Spend, Budget
<1>5. CASE counter = "faults"
  BY <1>5 DEF Spend, Budget
<1>6. CASE counter = "crashes"
  BY <1>6 DEF Spend, Budget
<1>7. QED
  BY <1>1, <1>2, <1>3, <1>4, <1>5, <1>6

----------------------------------------------------------------------------
(* The shapes of a step *)

\* No worker moves, and neither roster nor membership changes.
LEMMA Still ==
  ASSUME IInv, UNCHANGED <<ops, lane, relay, strayed, budget>>,
         db' \in Rows, view' \in BOOLEAN, ready' \in BOOLEAN,
         Member(db') <=> Member(db), FinalInv'
  PROVE  IInv'
BY DEF IInv, DataOK, OpsOK, Safe, EveryMemberIsRecorded, MarkInv, InStep

\* A worker moves outside the lane.
LEMMA Aside ==
  ASSUME IInv, NEW w \in Worker, NEW op \in Op, Become(w, op),
         ops[w].pc \notin InLane, op.pc \notin InLane,
         UNCHANGED <<lane, relay, view, ready, strayed>>, budget' \in Budget,
         db' \in Rows, Member(db') <=> Member(db), FinalInv'
  PROVE  IInv'
<1>1. OpsOK'
  BY Moves DEF IInv
<1>2. \A v \in Worker : ops'[v] = IF v = w THEN op ELSE ops[v]
  BY DEF Become, IInv, OpsOK
<1>3. MarkInv'
  BY <1>2 DEF IInv, Safe, MarkInv, InLane
<1>4. ASSUME NEW v \in Worker, InStep(v, "commit") PROVE InStep(v, "commit")'
  BY <1>2, <1>4 DEF InStep, InLane
<1>5. EveryMemberIsRecorded'
  BY <1>4 DEF IInv, Safe, EveryMemberIsRecorded
<1>6. QED
  BY <1>1, <1>3, <1>5 DEF IInv, DataOK, Safe

\* A worker takes the lane.
LEMMA Entered ==
  ASSUME IInv, NEW w \in Worker, NEW op \in Op, Enter(w, op), lane = NoTask,
         op.pc \in InLane, op.pc = "mark" => ~Member(db),
         UNCHANGED <<relay, view, ready, strayed, budget>>
  PROVE  IInv'
<1>1. OpsOK'
  BY Moves DEF IInv, Enter
<1>2. \A v \in Worker : ops'[v] = IF v = w THEN op ELSE ops[v]
  BY DEF Become, IInv, OpsOK, Enter
<1>3. MarkInv'
  BY <1>2 DEF IInv, Safe, MarkInv, Enter, Member
<1>4. \A v \in Worker : ~InStep(v, "commit")
  BY TaskAssumption DEF InStep, Worker
<1>5. EveryMemberIsRecorded'
  BY <1>4 DEF IInv, Safe, EveryMemberIsRecorded, Enter, Member
<1>6. FinalInv'
  BY DEF IInv, Enter, FinalInv
<1>7. QED
  BY <1>1, <1>3, <1>5, <1>6 DEF IInv, DataOK, Safe, Enter

\* The worker that holds the lane works on, or gives it up: what the others do
\* is of no matter, none of them is in the lane.
LEMMA Worked ==
  ASSUME IInv, NEW w \in Worker, NEW op \in Op, Become(w, op), lane = w,
         \/ lane' = lane /\ op.pc \in InLane
         \/ lane' = NoTask /\ op.pc \notin InLane,
         relay' \in BOOLEAN, strayed' \in BOOLEAN, ready' \in BOOLEAN, view' = view,
         budget' \in Budget, db' \in Rows, FinalInv',
         relay' => Member(db') \/ strayed' \/ op.pc = "commit",
         op.pc = "mark" => ~relay' \/ ~Member(db')
  PROVE  IInv'
<1>1. OpsOK'
  BY Moves DEF IInv
<1>2. \A v \in Worker : ops'[v] = IF v = w THEN op ELSE ops[v]
  BY DEF Become, IInv, OpsOK
<1>3. \A v \in Worker \ {w} : ops[v].pc # "mark"
  BY DEF IInv, OpsOK, InLane
<1>4. MarkInv'
  BY <1>2, <1>3 DEF MarkInv
<1>5. EveryMemberIsRecorded'
  <2>1. op.pc = "commit" => InStep(w, "commit")'
    BY <1>2 DEF InStep, InLane
  <2>2. QED
    BY <2>1 DEF EveryMemberIsRecorded
<1>6. QED
  BY <1>1, <1>4, <1>5 DEF IInv, DataOK, Safe

----------------------------------------------------------------------------
(* Outside the lane *)

LEMMA LaunchKeeps ==
  ASSUME IInv, NEW t \in Task, Launch(t)
  PROVE  IInv'
<1>1. t \in Worker /\ ops[t].pc = "idle" /\ ops[t].pc \notin InLane
  BY DEF Worker, Launch, InLane
<1>2. PICK here \in BOOLEAN, asked \in BOOLEAN :
        /\ db' = Reserved(db, here)
        /\ IF here THEN Become(t, Reads("start", db'))
           ELSE IF asked \/ db.route THEN Become(t, Reads("passive", db'))
           ELSE UNCHANGED ops
  BY DEF Launch
<1>3. db' \in Rows /\ (Member(db') <=> Member(db)) /\ db'.final = db.final
  BY <1>2, LaunchedRow DEF IInv, DataOK
<1>4. FinalInv'
  BY <1>3 DEF Launch, CanReserve, FinalInv, IInv
<1>5. budget' \in Budget
  BY SpendTyped DEF Launch, IInv, DataOK
<1>6. ASSUME NEW kind \in {"start", "passive"}, Become(t, Reads(kind, db')) PROVE IInv'
  <2>1. Reads(kind, db') \in Op /\ Reads(kind, db').pc \notin InLane
    BY <1>3, OpTyped DEF Kinds, Admissions, Gated, InLane
  <2>2. QED
    BY <1>1, <1>3, <1>4, <1>5, <1>6, <2>1, Aside DEF Launch
<1>7. CASE UNCHANGED ops
  BY <1>3, <1>4, <1>5, <1>7
     DEF IInv, DataOK, OpsOK, Safe, EveryMemberIsRecorded, MarkInv, InStep, Launch
<1>8. QED
  BY <1>2, <1>6, <1>7

\* The row a task reads and the phase it waits in.
LEMMA ReadingKeeps ==
  ASSUME IInv, NEW w \in Worker, ops[w].pc = "idle", NEW op \in Op, op.pc = "queued", Become(w, op),
         UNCHANGED <<db, relay, view, ready, lane, strayed>>, budget' \in Budget
  PROVE  IInv'
<1>1. ops[w].pc \notin InLane /\ op.pc \notin InLane
  BY DEF InLane
<1>2. db' \in Rows /\ (Member(db') <=> Member(db)) /\ FinalInv'
  BY DEF IInv, DataOK, Member, FinalInv
<1>3. QED
  BY <1>1, <1>2, Aside

LEMMA RequestKeeps ==
  ASSUME IInv, NEW t \in Task, NEW kind \in {"join", "mention", "leave", "forget"},
         NEW counter \in {"joins", "leaves", "forgets"}, Request(t, counter, kind)
  PROVE  IInv'
<1>1. Reads(kind, db) \in Op /\ Reads(kind, db).pc = "queued"
  BY OpTyped DEF Kinds, Admissions, IInv, DataOK
<1>2. budget' \in Budget
  BY SpendTyped DEF Request, IInv, DataOK
<1>3. QED
  BY <1>1, <1>2, ReadingKeeps DEF Request, Worker

LEMMA ScanKeeps ==
  ASSUME IInv, ScanDue \/ ScanRoutes
  PROVE  IInv'
<1>1. Standing \in Worker
  BY DEF Worker
<1>2. CASE ScanDue
  <2>1. ReadsStanding("cleanup", db) \in Op /\ ReadsStanding("cleanup", db).pc = "queued"
    BY OpTyped DEF Kinds, IInv, DataOK
  <2>2. QED
    BY <1>1, <1>2, <2>1, ReadingKeeps DEF ScanDue, IInv, DataOK
<1>3. CASE ScanRoutes
  <2>1. Reads("repair", db) \in Op /\ Reads("repair", db).pc = "queued"
    BY OpTyped DEF Kinds, Admissions, Gated, IInv, DataOK
  <2>2. QED
    BY <1>1, <1>3, <2>1, ReadingKeeps DEF ScanRoutes, IInv, DataOK
<1>4. QED
  BY <1>2, <1>3

LEMMA EnvironmentKeeps ==
  ASSUME IInv, Stop \/ ViewFollows \/ ReadyExpires
  PROVE  IInv'
<1>1. CASE Stop
  <2>1. db' \in Rows /\ (Member(db') <=> Member(db)) /\ db'.final = db.final
        /\ db'.revoked = db.revoked /\ db'.route = db.route
    BY <1>1, StoppedRow DEF Stop, IInv, DataOK
  <2>2. FinalInv'
    BY <2>1 DEF FinalInv, IInv
  <2>3. QED
    BY <1>1, <2>1, <2>2, Still DEF Stop, IInv, DataOK
<1>2. CASE ViewFollows \/ ReadyExpires
  <2>1. db' \in Rows /\ (Member(db') <=> Member(db)) /\ FinalInv'
    BY <1>2 DEF ViewFollows, ReadyExpires, IInv, DataOK, Member, FinalInv
  <2>2. view' \in BOOLEAN /\ ready' \in BOOLEAN
    BY <1>2 DEF ViewFollows, ReadyExpires, IInv, DataOK
  <2>3. QED
    BY <1>2, <2>1, <2>2, Still DEF ViewFollows, ReadyExpires
<1>3. QED
  BY <1>1, <1>2

LEMMA BetweenLanesKeeps ==
  ASSUME IInv, NEW t \in Task, Withdrawn(t) \/ Terminated(t)
  PROVE  IInv'
<1> DEFINE op == [ops[t] EXCEPT !.pc = "queued"]
<1>1. t \in Worker /\ ops[t] \in Op /\ ops[t].pc \notin InLane
  BY DEF Worker, IInv, OpsOK, Withdrawn, Terminated, InLane
<1>2. op \in Op /\ op.pc \notin InLane /\ Idle \in Op /\ Idle.pc \notin InLane
  BY <1>1, OpMoved, OpTyped DEF InLane
<1>3. db' \in Rows /\ (Member(db') <=> Member(db)) /\ FinalInv'
  BY DEF Withdrawn, Terminated, IInv, DataOK, Member, FinalInv
<1>4. budget' \in Budget
  BY SpendTyped DEF Withdrawn, Terminated, IInv, DataOK
<1>5. Become(t, op) \/ Become(t, Idle)
  BY DEF Withdrawn, Terminated
<1>6. UNCHANGED <<lane, relay, view, ready, strayed>>
  BY DEF Withdrawn, Terminated
<1>7. QED
  <2> HIDE DEF op
  <2> QED  BY <1>1, <1>2, <1>3, <1>4, <1>5, <1>6, Aside

\* A crash forgets every task; a membership nobody has recorded is strayed.
LEMMA CrashKeeps ==
  ASSUME IInv, Crash
  PROVE  IInv'
<1>1. PICK t \in Task : ops' = [w \in Worker |-> IF w = t /\ db.running /\ db.route
                                                  THEN Reads("restore", db) ELSE Idle]
  BY DEF Crash
<1>2. /\ Reads("restore", db) \in Op /\ Reads("restore", db).pc = "queued"
      /\ Idle \in Op /\ Idle.pc = "idle"
  BY OpTyped DEF Kinds, Admissions, Gated, IInv, DataOK
<1>3. \A w \in Worker : ops'[w].pc \in {"idle", "queued"}
  BY <1>1, <1>2
<1>4. OpsOK'
  <2>1. ops' \in [Worker -> Op]
    BY <1>1, <1>2
  <2>2. lane' = NoTask /\ NoTask \notin Worker
    BY TaskAssumption DEF Crash, Worker
  <2>3. QED
    BY <1>3, <2>1, <2>2 DEF OpsOK, InLane
<1>5. DataOK'
  <2>1. budget' \in Budget
    BY SpendTyped DEF Crash, IInv, DataOK
  <2>2. QED
    BY <2>1 DEF Crash, IInv, DataOK
<1>6. Safe'
  BY <1>3 DEF Crash, Safe, MarkInv, EveryMemberIsRecorded, Member
<1>7. FinalInv'
  BY DEF Crash, IInv, FinalInv
<1>8. QED
  BY <1>4, <1>5, <1>6, <1>7 DEF IInv

----------------------------------------------------------------------------
(* Taking the lane *)

\* A task that waited gives up, or goes on without the lane.
LEMMA WaitedAside ==
  ASSUME IInv, NEW w \in Worker, ops[w].pc = "queued", NEW op \in Op, op.pc \notin InLane, Become(w, op),
         UNCHANGED <<lane, relay, view, ready, strayed, budget>>,
         db' \in Rows, Member(db') <=> Member(db), FinalInv'
  PROVE  IInv'
<1>1. ops[w].pc \notin InLane
  BY DEF InLane
<1>2. budget' \in Budget
  BY DEF IInv, DataOK
<1>3. QED
  BY <1>1, <1>2, Aside

LEMMA CancelledKeeps ==
  ASSUME IInv, NEW w \in Worker, ops[w].pc = "queued", Cancelled(w),
         UNCHANGED <<relay, view, ready, strayed, budget>>
  PROVE  IInv'
<1>1. Idle \in Op /\ Idle.pc \notin InLane
  BY OpTyped DEF InLane
<1>2. db' \in Rows /\ (Member(db') <=> Member(db)) /\ FinalInv'
  BY DEF Cancelled, IInv, DataOK, Member, FinalInv
<1>3. QED
  BY <1>1, <1>2, WaitedAside DEF Cancelled

LEMMA TakeLaneKeeps ==
  ASSUME IInv, NEW w \in Worker, TakeLane(w)
  PROVE  IInv'
<1>0. /\ lane = NoTask /\ ops[w].pc = "queued" /\ ops[w] \in Op /\ db \in Rows
      /\ UNCHANGED <<relay, view, ready, strayed, budget>>
  BY DEF TakeLane, IInv, OpsOK, DataOK
<1>1. CASE TakeToAdmit(w)
  <2> DEFINE op == IF ops[w].kind = "mention" THEN Reads("mention", db) ELSE ops[w]
             inner == [op EXCEPT !.pc = "grant"]
  <2>1. op \in Op
    BY <1>0, OpTyped DEF Kinds, Admissions
  <2>2. inner \in Op /\ inner.pc \in InLane /\ inner.pc # "mark"
    <3> HIDE DEF op
    <3>1. "grant" \in InLane
      BY DEF InLane
    <3>2. inner \in Op /\ inner.pc = "grant"
      BY <2>1, <3>1, OpMoved
    <3>3. QED
      BY <3>1, <3>2
  <2>3. Enter(w, inner) \/ Cancelled(w)
    BY <1>1, Zenon DEF TakeToAdmit
  <2>4. QED
    <3> HIDE DEF inner
    <3> QED  BY <1>0, <2>2, <2>3, Entered, CancelledKeeps
<1>2. CASE TakeToClean(w)
  <2> DEFINE op == [ops[w] EXCEPT !.pc = "remove"]
  <2>1. op \in Op /\ op.pc \in InLane /\ op.pc # "mark"
    BY <1>0, OpMoved DEF InLane
  <2>2. Enter(w, op) \/ Cancelled(w)
    BY <1>2 DEF TakeToClean
  <2>3. QED
    <3> HIDE DEF op
    <3> QED  BY <1>0, <2>1, <2>2, Entered, CancelledKeeps
<1>3. CASE TakeToLeave(w)
  <2> DEFINE a == [Reads("leaving", db) EXCEPT !.pc = "withdraw"]
             op == [a EXCEPT !.epoch = LeftStanding(db)]
  <2>1. a \in Op /\ a.pc = "withdraw"
    BY <1>0, OpTyped, OpMoved DEF Kinds
  <2>2. op \in Op /\ op.pc \notin InLane
    <3> HIDE DEF a
    <3> QED  BY <1>0, <2>1, RouteLeftRow DEF Op, InLane
  <2>3. CASE db.route
    <3>1. db' = RouteLeft(db) /\ UNCHANGED lane /\ Become(w, op)
      BY <1>3, <2>3 DEF TakeToLeave, Reads
    <3>2. db' \in Rows /\ (Member(db') <=> Member(db)) /\ db'.final = db.final
          /\ db'.revoked = db.revoked /\ ~db'.route
      BY <1>0, <3>1, RouteLeftRow
    <3>3. FinalInv'
      BY <3>2 DEF FinalInv, IInv
    <3>4. QED
      <4> HIDE DEF op
      <4> QED  BY <1>0, <2>2, <3>1, <3>2, <3>3, WaitedAside
  <2>4. CASE ~db.route
    BY <1>0, <1>3, <2>4, CancelledKeeps DEF TakeToLeave
  <2>5. QED
    BY <2>3, <2>4
<1>4. CASE TakeToRemove(w)
  <2> DEFINE pc == IF ops[w].epoch > 0 /\ ~Member(db) THEN "mark" ELSE "remove"
             op == [ops[w] EXCEPT !.pc = pc]
  <2>1. op \in Op /\ op.pc \in InLane /\ (op.pc = "mark" => ~Member(db))
    <3>1. pc \in InLane /\ (pc = "mark" => ~Member(db))
      BY DEF InLane
    <3> HIDE DEF pc
    <3>2. op \in Op /\ op.pc = pc
      BY <1>0, <3>1, OpMoved
    <3>3. QED
      BY <3>1, <3>2
  <2>2. Enter(w, op) \/ Cancelled(w)
    BY <1>4 DEF TakeToRemove
  <2>3. QED
    <3> HIDE DEF op
    <3> QED  BY <1>0, <2>1, <2>2, Entered, CancelledKeeps
<1>5. CASE TakeToRevoke(w)
  <2> DEFINE a == [Reads("finalize", db) EXCEPT !.pc = "terminate"]
             op == [a EXCEPT !.epoch = IF db.route \/ Member(db) THEN 1 ELSE 0]
  <2>1. a \in Op /\ a.pc = "terminate"
    BY <1>0, OpTyped, OpMoved DEF Kinds
  <2>2. op \in Op /\ op.pc \notin InLane
    <3> HIDE DEF a
    <3> QED  BY <2>1 DEF Op, InLane
  <2>3. db' = Revoked(db) /\ UNCHANGED lane /\ Become(w, op)
    BY <1>5 DEF TakeToRevoke, Reads
  <2>4. db' \in Rows /\ (Member(db') <=> Member(db)) /\ db'.final = db.final
        /\ db'.revoked /\ db'.route = db.route
    BY <1>0, <2>3, RevokedRow
  <2>5. FinalInv'
    BY <2>4 DEF FinalInv, IInv
  <2>6. QED
    <3> HIDE DEF op
    <3> QED  BY <1>0, <2>2, <2>3, <2>4, <2>5, WaitedAside
<1>6. CASE TakeToFinalize(w)
  <2>1. CASE db.gen = ops[w].gen /\ db.revoked
    <3>1. db' = Finalized(db) /\ UNCHANGED lane
          /\ Become(w, IF ops[w].epoch > 0 THEN Reads("purge", db') ELSE Idle)
      BY <1>6, <2>1 DEF TakeToFinalize
    <3>2. db' \in Rows /\ (Member(db') <=> Member(db)) /\ db'.revoked = db.revoked /\ ~db'.route
      BY <1>0, <3>1, FinalizedRow
    <3>3. FinalInv'
      BY <2>1, <3>2 DEF FinalInv
    <3>4. /\ Reads("purge", db') \in Op /\ Reads("purge", db').pc \notin InLane
          /\ Idle \in Op /\ Idle.pc \notin InLane
      BY <3>2, OpTyped DEF Kinds, InLane
    <3>5. QED
      BY <1>0, <3>1, <3>2, <3>3, <3>4, WaitedAside
  <2>2. CASE ~(db.gen = ops[w].gen /\ db.revoked)
    BY <1>0, <1>6, <2>2, CancelledKeeps DEF TakeToFinalize, Cancelled
  <2>3. QED
    BY <2>1, <2>2
<1>7. CASE TakeToPurge(w)
  <2> DEFINE a == ReadsStanding("purge", db)
             op == [a EXCEPT !.pc = "remove"]
  <2>1. op \in Op /\ op.pc \in InLane /\ op.pc # "mark"
    <3>1. a \in Op /\ "remove" \in InLane
      BY <1>0, OpTyped DEF Kinds, InLane
    <3> HIDE DEF a
    <3>2. op \in Op /\ op.pc = "remove"
      BY <3>1, OpMoved
    <3>3. QED
      BY <3>1, <3>2
  <2>2. Enter(w, op)
    BY <1>7 DEF TakeToPurge
  <2>3. QED
    <3> HIDE DEF op
    <3> QED  BY <1>0, <2>1, <2>2, Entered
<1>8. QED
  BY <1>1, <1>2, <1>3, <1>4, <1>5, <1>6, <1>7 DEF TakeLane

----------------------------------------------------------------------------
(* Under the lane *)

\* What holds for the worker in the lane, and the idle operation it ends with.
LEMMA Holds ==
  ASSUME IInv, NEW w \in Worker, NEW pc \in InLane, InStep(w, pc)
  PROVE  /\ lane = w /\ ops[w] \in Op /\ ops[w].pc = pc /\ db \in Rows
         /\ relay \in BOOLEAN /\ strayed \in BOOLEAN /\ ready \in BOOLEAN /\ budget \in Budget
         /\ relay /\ pc # "commit" => Member(db) \/ strayed
         /\ relay /\ pc = "mark" => ~Member(db)
         /\ Idle \in Op /\ Idle.pc = "idle" /\ Idle.pc \notin InLane
<1>1. lane = w /\ ops[w].pc = pc /\ ops[w] \in Op
  BY DEF InStep, IInv, OpsOK
<1>2. ASSUME pc # "commit" PROVE \A v \in Worker : ~InStep(v, "commit")
  BY <1>1, <1>2 DEF InStep
<1>3. relay /\ pc # "commit" => Member(db) \/ strayed
  BY <1>2 DEF IInv, Safe, EveryMemberIsRecorded
<1>4. relay /\ pc = "mark" => ~Member(db)
  BY <1>1 DEF IInv, Safe, MarkInv
<1>5. Idle \in Op /\ Idle.pc = "idle" /\ Idle.pc \notin InLane
  BY OpTyped DEF InLane
<1>6. QED
  BY <1>1, <1>3, <1>4, <1>5 DEF IInv, DataOK

\* The next phase under the lane.
LEMMA ContinueTyped ==
  ASSUME NEW op \in Op, NEW pc \in InLane
  PROVE  [op EXCEPT !.pc = pc] \in Op /\ [op EXCEPT !.pc = pc].pc = pc
BY OpMoved

LEMMA GrantedKeeps ==
  ASSUME IInv, NEW w \in Worker, Granted(w)
  PROVE  IInv'
<1> DEFINE op == [ops[w] EXCEPT !.pc = "commit"]
<1>1. "grant" \in InLane /\ "commit" \in InLane
  BY DEF InLane
<1>2. /\ lane = w /\ ops[w] \in Op /\ db \in Rows /\ strayed \in BOOLEAN
      /\ relay \in BOOLEAN /\ ready \in BOOLEAN /\ budget \in Budget
  BY <1>1, Holds DEF Granted
<1>3. op \in Op /\ op.pc = "commit"
  BY <1>1, <1>2, ContinueTyped
<1>4. lane' = lane /\ Become(w, op)
  BY DEF Granted, Continue
<1>5. relay' \in BOOLEAN /\ ready' \in BOOLEAN
  BY <1>2 DEF Granted
<1>6. UNCHANGED <<db, view, strayed, budget>>
  BY DEF Granted
<1>7. FinalInv'
  BY <1>6 DEF FinalInv, IInv
<1>8. QED
  <2> HIDE DEF op
  <2> QED  BY <1>1, <1>2, <1>3, <1>4, <1>5, <1>6, <1>7, Worked

LEMMA GrantFailsKeeps ==
  ASSUME IInv, NEW w \in Worker, GrantFails(w)
  PROVE  IInv'
<1>1. "grant" \in InLane /\ "grant" # "commit"
  BY DEF InLane
<1>2. /\ lane = w /\ db \in Rows /\ relay \in BOOLEAN /\ strayed \in BOOLEAN /\ ready \in BOOLEAN
      /\ relay => Member(db) \/ strayed
      /\ Idle \in Op /\ Idle.pc = "idle" /\ Idle.pc \notin InLane
  BY <1>1, Holds DEF GrantFails
<1>3. lane' = NoTask /\ Become(w, Idle) /\ UNCHANGED <<db, view, ready>>
  BY DEF GrantFails, Release
<1>4. budget' \in Budget
  BY SpendTyped DEF GrantFails, IInv, DataOK
<1>5. relay' \in BOOLEAN /\ strayed' \in BOOLEAN /\ (relay' => Member(db') \/ strayed')
  <2>1. Member(db') <=> Member(db)
    BY <1>3 DEF Member
  <2>2. CASE UNCHANGED <<relay, strayed>>
    BY <1>2, <2>1, <2>2
  <2>3. CASE relay' = TRUE /\ strayed' = TRUE
    BY <2>3
  <2>4. QED
    BY <2>2, <2>3 DEF GrantFails
<1>6. FinalInv'
  BY <1>3 DEF FinalInv, IInv
<1>7. QED
  BY <1>2, <1>3, <1>4, <1>5, <1>6, Worked

\* A compensated admission leaves a member row behind, its own or a newer one.
LEMMA CompensateKeeps ==
  ASSUME IInv, NEW w \in Worker, InStep(w, "commit"), Compensate(w),
         UNCHANGED <<relay, view, ready, strayed>>, budget' \in Budget
  PROVE  IInv'
<1>1. "commit" \in InLane /\ "remove" \in InLane /\ "remove" # "mark"
  BY DEF InLane
<1>2. /\ lane = w /\ ops[w] \in Op /\ db \in Rows
      /\ relay \in BOOLEAN /\ strayed \in BOOLEAN /\ ready \in BOOLEAN
      /\ Idle \in Op /\ Idle.pc = "idle" /\ Idle.pc \notin InLane
  BY <1>1, Holds
<1>3. CASE Superseded(db, ops[w].life)
  <2>1. lane' = NoTask /\ Become(w, Idle) /\ UNCHANGED db /\ Member(db)
    BY <1>3 DEF Compensate, Release, Superseded
  <2>2. Member(db') /\ FinalInv'
    BY <2>1 DEF Member, FinalInv, IInv
  <2>3. QED
    BY <1>2, <2>1, <2>2, Worked
<1>4. CASE ~Superseded(db, ops[w].life)
  <2> DEFINE a == ReadsStanding("cleanup", db')
             op == [a EXCEPT !.pc = "remove"]
  <2>1. db' = CleanupScheduled(db, ops[w].life) /\ lane' = lane /\ Become(w, op)
    BY <1>4 DEF Compensate
  <2>2. ops[w].life \in Nat
    BY <1>2 DEF Op
  <2>3. db' \in Rows /\ Member(db') /\ db'.final = db.final /\ db'.revoked = db.revoked
        /\ db'.route = db.route
    BY <1>2, <2>1, <2>2, ScheduledRow
  <2>4. FinalInv'
    BY <2>3 DEF FinalInv, IInv
  <2>5. a \in Op
    BY <2>3, OpTyped DEF Kinds
  <2>6. op \in Op /\ op.pc = "remove"
    <3> HIDE DEF a
    <3> QED  BY <1>1, <2>5, ContinueTyped
  <2>7. QED
    <3> HIDE DEF op
    <3> QED  BY <1>1, <1>2, <2>1, <2>3, <2>4, <2>6, Worked
<1>5. QED
  BY <1>3, <1>4

LEMMA CommitKeeps ==
  ASSUME IInv, NEW w \in Worker, Commit(w)
  PROVE  IInv'
<1>1. "commit" \in InLane
  BY DEF InLane
<1>2. InStep(w, "commit") /\ UNCHANGED <<relay, view, ready, strayed, budget>> /\ budget' \in Budget
  BY DEF Commit, IInv, DataOK
<1>3. /\ lane = w /\ db \in Rows
      /\ relay \in BOOLEAN /\ strayed \in BOOLEAN /\ ready \in BOOLEAN
      /\ Idle \in Op /\ Idle.pc = "idle" /\ Idle.pc \notin InLane
  BY <1>1, <1>2, Holds
<1>4. CASE Owns(db, ops[w].gen)
  <2>1. db' = Committed(db) /\ lane' = NoTask /\ Become(w, Idle)
    BY <1>4 DEF Commit, Release
  <2>2. db' \in Rows /\ Member(db') /\ db'.final = db.final
    BY <1>3, <2>1, CommittedRow
  <2>3. FinalInv'
    BY <1>4, <2>2 DEF FinalInv, IInv, Owns
  <2>4. QED
    BY <1>2, <1>3, <2>1, <2>2, <2>3, Worked
<1>5. CASE ~Owns(db, ops[w].gen)
  BY <1>2, <1>5, CompensateKeeps DEF Commit
<1>6. QED
  BY <1>4, <1>5

LEMMA CommitFailsKeeps ==
  ASSUME IInv, NEW w \in Worker, CommitFails(w)
  PROVE  IInv'
<1>1. "commit" \in InLane
  BY DEF InLane
<1>2. InStep(w, "commit") /\ UNCHANGED <<relay, view, ready>>
  BY DEF CommitFails
<1>3. budget' \in Budget
  BY SpendTyped DEF CommitFails, IInv, DataOK
<1>4. /\ lane = w /\ db \in Rows
      /\ relay \in BOOLEAN /\ strayed \in BOOLEAN /\ ready \in BOOLEAN
      /\ Idle \in Op /\ Idle.pc = "idle" /\ Idle.pc \notin InLane
  BY <1>1, <1>2, Holds
<1>5. CASE Release(w) /\ UNCHANGED <<db, strayed>> /\ AlreadyCommitted(db, ops[w].gen)
  <2>1. lane' = NoTask /\ Become(w, Idle) /\ UNCHANGED db /\ Member(db)
    BY <1>5 DEF Release, AlreadyCommitted, Projected
  <2>2. Member(db') /\ FinalInv'
    BY <2>1 DEF Member, FinalInv, IInv
  <2>3. QED
    BY <1>2, <1>3, <1>4, <1>5, <2>1, <2>2, Worked
<1>6. CASE Compensate(w) /\ UNCHANGED strayed
  BY <1>2, <1>3, <1>6, CompensateKeeps
<1>7. CASE Release(w) /\ strayed' = (strayed \/ (relay /\ ~Member(db))) /\ UNCHANGED db
  <2>1. lane' = NoTask /\ Become(w, Idle)
    BY <1>7 DEF Release
  <2>2. strayed' \in BOOLEAN /\ (relay' => Member(db') \/ strayed') /\ FinalInv'
    BY <1>2, <1>4, <1>7 DEF Member, FinalInv, IInv
  <2>3. QED
    BY <1>2, <1>3, <1>4, <1>7, <2>1, <2>2, Worked
<1>8. QED
  BY <1>5, <1>6, <1>7 DEF CommitFails

LEMMA RemovedKeeps ==
  ASSUME IInv, NEW w \in Worker, Removed(w)
  PROVE  IInv'
<1> DEFINE op == [ops[w] EXCEPT !.pc = "mark"]
<1>1. "remove" \in InLane /\ "mark" \in InLane
  BY DEF InLane
<1>2. /\ lane = w /\ ops[w] \in Op /\ db \in Rows /\ ready \in BOOLEAN /\ budget \in Budget
  BY <1>1, Holds DEF Removed
<1>3. op \in Op /\ op.pc = "mark"
  BY <1>1, <1>2, ContinueTyped
<1>4. lane' = lane /\ Become(w, op)
  BY DEF Removed, Continue
<1>5. relay' = FALSE /\ strayed' = FALSE /\ UNCHANGED <<db, view, ready, budget>>
  BY DEF Removed
<1>6. FinalInv'
  BY <1>5 DEF FinalInv, IInv
<1>7. QED
  <2> HIDE DEF op
  <2> QED  BY <1>1, <1>2, <1>3, <1>4, <1>5, <1>6, Worked

LEMMA RemoveFailsKeeps ==
  ASSUME IInv, NEW w \in Worker, RemoveFails(w)
  PROVE  IInv'
<1>1. "remove" \in InLane /\ "remove" # "commit"
  BY DEF InLane
<1>2. /\ lane = w /\ ops[w] \in Op /\ db \in Rows
      /\ relay \in BOOLEAN /\ strayed \in BOOLEAN /\ ready \in BOOLEAN
      /\ relay => Member(db) \/ strayed
      /\ Idle \in Op /\ Idle.pc = "idle" /\ Idle.pc \notin InLane
  BY <1>1, Holds DEF RemoveFails
<1>3. lane' = NoTask /\ Become(w, Idle) /\ UNCHANGED <<view, ready>>
  BY DEF RemoveFails, Release
<1>4. budget' \in Budget
  BY SpendTyped DEF RemoveFails, IInv, DataOK
<1>5. /\ db' \in Rows /\ (Member(db') <=> Member(db)) /\ db'.final = db.final
      /\ db'.revoked = db.revoked /\ (db.revoked => db'.route = db.route)
  <2>1. ops[w].gen \in Nat /\ ops[w].epoch \in Nat
    BY <1>2 DEF Op
  <2>2. QED
    BY <1>2, <2>1, RestoredRow DEF RemoveFails
<1>6. FinalInv'
  BY <1>5 DEF FinalInv, IInv
<1>7. relay' \in BOOLEAN /\ strayed' \in BOOLEAN /\ (relay' => Member(db') \/ strayed')
  <2>1. relay' \in {relay, FALSE} /\ strayed' = (strayed /\ relay')
    BY DEF RemoveFails
  <2>2. CASE relay' = FALSE
    BY <1>2, <2>1, <2>2
  <2>3. CASE relay' = relay
    <3>1. strayed' \in BOOLEAN
      BY <2>1
    <3>2. relay' => strayed' \/ Member(db')
      BY <1>2, <1>5, <2>1, <2>3, Zenon
    <3>3. QED
      BY <1>2, <2>3, <3>1, <3>2
  <2>4. QED
    BY <2>1, <2>2, <2>3
<1>8. QED
  BY <1>2, <1>3, <1>4, <1>5, <1>6, <1>7, Worked

\* An absence is recorded of a session the roster does not name, or strayed.
LEMMA MarkKeeps ==
  ASSUME IInv, NEW w \in Worker, Mark(w)
  PROVE  IInv'
<1>1. "mark" \in InLane /\ "mark" # "commit"
  BY DEF InLane
<1>2. /\ lane = w /\ ops[w] \in Op /\ db \in Rows
      /\ relay \in BOOLEAN /\ strayed \in BOOLEAN /\ ready \in BOOLEAN
      /\ relay => strayed
      /\ Idle \in Op /\ Idle.pc = "idle" /\ Idle.pc \notin InLane
  BY <1>1, Holds DEF Mark
<1>3. lane' = NoTask /\ Become(w, Idle) /\ UNCHANGED <<relay, view, ready, strayed, budget>>
  BY DEF Mark, Release
<1>4. budget' \in Budget
  BY <1>3 DEF IInv, DataOK
<1>5. db' \in Rows /\ db'.final = db.final /\ db'.revoked = db.revoked /\ (db'.route => db.route)
  BY <1>2, LeftRow, AbsentRow DEF Mark
<1>6. FinalInv'
  BY <1>5 DEF FinalInv, IInv
<1>7. QED
  BY <1>2, <1>3, <1>4, <1>5, <1>6, Worked

----------------------------------------------------------------------------
(* The inductive invariant *)

LEMMA InitHolds == Init => IInv
<1> SUFFICES ASSUME Init PROVE IInv
  OBVIOUS
<1>1. db \in Rows /\ ~db.final
  BY DEF Init, NoRows, Rows
<1>2. DataOK
  BY <1>1, BudgetAssumption DEF Init, DataOK
<1>3. \A w \in Worker : ops[w] = Idle
  BY DEF Init
<1>4. OpsOK
  <2>1. ops \in [Worker -> Op]
    BY OpTyped DEF Init
  <2>2. NoTask \notin Worker
    BY TaskAssumption DEF Worker
  <2>3. QED
    BY <1>3, <2>1, <2>2, OpTyped DEF OpsOK, Init, InLane
<1>5. Safe
  BY <1>3, OpTyped DEF Init, Safe, EveryMemberIsRecorded, MarkInv
<1>6. QED
  BY <1>1, <1>2, <1>4, <1>5 DEF IInv, FinalInv

LEMMA StepKeeps == IInv /\ [Next]_vars => IInv'
<1> SUFFICES ASSUME IInv, [Next]_vars PROVE IInv'
  OBVIOUS
<1>1. ASSUME NEW w \in Worker, Steps(w) PROVE IInv'
  BY <1>1, TakeLaneKeeps, GrantedKeeps, CommitKeeps, RemovedKeeps, MarkKeeps DEF Steps
<1>2. ASSUME NEW w \in Worker, Fails(w) PROVE IInv'
  BY <1>2, GrantFailsKeeps, CommitFailsKeeps, RemoveFailsKeeps DEF Fails
<1>3. ASSUME NEW t \in Task, Asks(t) PROVE IInv'
  BY <1>3, LaunchKeeps, RequestKeeps DEF Asks, Join, Mention, Leave, Forget
<1>4. ASSUME NEW t \in Task, Withdrawn(t) \/ Terminated(t) PROVE IInv'
  BY <1>4, BetweenLanesKeeps
<1>5. CASE ScanDue \/ ScanRoutes
  BY <1>5, ScanKeeps
<1>6. CASE Stop \/ ViewFollows \/ ReadyExpires
  BY <1>6, EnvironmentKeeps
<1>7. CASE Crash
  BY <1>7, CrashKeeps
<1>8. CASE UNCHANGED vars
  BY <1>8 DEF vars, IInv, DataOK, OpsOK, Safe, EveryMemberIsRecorded, MarkInv, InStep, FinalInv, Member
<1>9. QED
  BY <1>1, <1>2, <1>3, <1>4, <1>5, <1>6, <1>7, <1>8 DEF Next

LEMMA InductiveInvariant == Spec => []IInv
BY InitHolds, StepKeeps, PTL DEF Spec

----------------------------------------------------------------------------
(* Whom a cleanup waits for *)

\* A leave that waits for its presence withdrawal owns the channel.  The
\* coordinator admits a session under a route, which stays while it holds the
\* lane; it comes to a removal from such an admission, or from a cleanup that
\* found no leave, and none begins while it holds the lane.
WithdrawInv == \A t \in Task : ops[t].pc = "withdraw" => ops[t].kind = "leaving"

CoordinatorInv ==
  LET op == ops[Standing] IN
  /\ op.pc # "idle" => op.kind \in {"cleanup", "repair"}
  /\ op.pc \in {"grant", "commit"} => op.kind = "repair" /\ db.route
  /\ op.pc = "remove" => db.route \/ ~Leaving

ScopeInv == WithdrawInv /\ CoordinatorInv

\* A task moves: while the coordinator holds the lane, no leave begins and no
\* route goes.
LEMMA TaskMoves ==
  ASSUME IInv, ScopeInv, NEW t \in Task, NEW op \in Op, Become(t, op),
         op.pc = "withdraw" => op.kind = "leaving",
         lane = Standing => /\ op.kind = "leaving" => ops[t].kind = "leaving"
                            /\ db.route => db'.route
  PROVE  ScopeInv'
<1>1. t \in Worker /\ Standing \in Worker /\ t # Standing
  BY TaskAssumption DEF Worker
<1>2. ops' = [ops EXCEPT ![t] = op] /\ ops \in [Worker -> Op]
  BY DEF Become, IInv, OpsOK
<1>3. /\ ops'[Standing] = ops[Standing] /\ ops'[t] = op
      /\ \A v \in Task : v # t => ops'[v] = ops[v]
  BY <1>1, <1>2 DEF Worker
<1>4. WithdrawInv'
  BY <1>3 DEF ScopeInv, WithdrawInv
<1>5. ops[Standing].pc \in {"grant", "commit", "remove"} => lane = Standing
  BY <1>1 DEF IInv, OpsOK, InLane
<1>6. lane = Standing /\ ~Leaving => ~Leaving'
  BY <1>3 DEF Leaving
<1>7. CoordinatorInv'
  BY <1>3, <1>5, <1>6 DEF ScopeInv, CoordinatorInv
<1>8. QED
  BY <1>4, <1>7 DEF ScopeInv

\* The coordinator moves.
LEMMA CoordinatorMoves ==
  ASSUME IInv, ScopeInv, NEW op \in Op, Become(Standing, op),
         op.pc # "idle" => op.kind \in {"cleanup", "repair"},
         op.pc \in {"grant", "commit"} => op.kind = "repair" /\ db'.route,
         op.pc = "remove" => db'.route \/ ~Leaving
  PROVE  ScopeInv'
<1>1. Standing \in Worker /\ Standing \notin Task
  BY TaskAssumption DEF Worker
<1>2. ops' = [ops EXCEPT ![Standing] = op] /\ ops \in [Worker -> Op]
  BY DEF Become, IInv, OpsOK
<1>3. ops'[Standing] = op /\ \A v \in Task : ops'[v] = ops[v]
  BY <1>1, <1>2 DEF Worker
<1>4. WithdrawInv' /\ (~Leaving => ~Leaving')
  BY <1>3 DEF ScopeInv, WithdrawInv, Leaving
<1>5. QED
  BY <1>3, <1>4 DEF ScopeInv, CoordinatorInv

LEMMA NobodyMoves ==
  ASSUME ScopeInv, UNCHANGED ops, db.route => db'.route
  PROVE  ScopeInv'
BY DEF ScopeInv, WithdrawInv, CoordinatorInv, Leaving

\* A worker moves under the lane, or takes it.
LEMMA LaneMoves ==
  ASSUME IInv, ScopeInv, NEW w \in Worker, NEW op \in Op, Become(w, op),
         lane \in {w, NoTask},
         op.pc = "withdraw" => op.kind = "leaving",
         w = Standing =>
           /\ op.pc # "idle" => op.kind \in {"cleanup", "repair"}
           /\ op.pc \in {"grant", "commit"} => op.kind = "repair" /\ db'.route
           /\ op.pc = "remove" => db'.route \/ ~Leaving
  PROVE  ScopeInv'
<1>1. CASE w = Standing
  BY <1>1, CoordinatorMoves
<1>2. CASE w \in Task
  <2>1. lane # Standing
    BY <1>2, TaskAssumption
  <2>2. QED
    BY <1>2, <2>1, TaskMoves
<1>3. QED
  BY <1>1, <1>2 DEF Worker

LEMMA IdleScope ==
  ASSUME IInv, ScopeInv, NEW w \in Worker, Become(w, Idle), lane \in {w, NoTask}
  PROVE  ScopeInv'
BY OpTyped, LaneMoves

\* An operation in another phase is the same one.
LEMMA OpKept ==
  ASSUME NEW op \in Op, NEW pc \in {"idle", "queued", "withdraw", "terminate"} \union InLane
  PROVE  [op EXCEPT !.pc = pc] \in Op /\ [op EXCEPT !.pc = pc].pc = pc
         /\ [op EXCEPT !.pc = pc].kind = op.kind
BY DEF Op

LEMMA TakeLaneScope ==
  ASSUME IInv, ScopeInv, NEW w \in Worker, TakeLane(w)
  PROVE  ScopeInv'
<1>0. lane = NoTask /\ ops[w].pc = "queued" /\ ops[w] \in Op /\ db \in Rows
  BY DEF TakeLane, IInv, OpsOK, DataOK
<1>k. w = Standing => ops[w].kind \in {"cleanup", "repair"}
  BY <1>0 DEF ScopeInv, CoordinatorInv
<1>1. CASE TakeToAdmit(w)
  <2> DEFINE op == IF ops[w].kind = "mention" THEN Reads("mention", db) ELSE ops[w]
             inner == [op EXCEPT !.pc = "grant"]
  <2>1. op \in Op /\ (w = Standing => op = ops[w])
    BY <1>0, <1>k, OpTyped DEF Kinds, Admissions
  <2>2. inner \in Op /\ inner.pc = "grant" /\ inner.kind = op.kind
    <3> HIDE DEF op
    <3> QED  BY <2>1, OpKept DEF InLane
  <2>3. CASE MayAdmit(op)
    <3>1. Become(w, inner) /\ db' = db
      BY <1>1, <2>3, Zenon DEF TakeToAdmit, Enter
    <3>2. w = Standing => op.kind = "repair"
      BY <1>1, <1>k, <2>1 DEF TakeToAdmit, Admissions, Gated
    <3>3. w = Standing => db.route
      <4> HIDE DEF op
      <4> QED  BY <2>3, <3>2 DEF MayAdmit, Current
    <3>4. QED
      <4> HIDE DEF op, inner
      <4> QED  BY <1>0, <2>2, <3>1, <3>2, <3>3, LaneMoves
  <2>4. CASE ~MayAdmit(op)
    <3>1. Cancelled(w)
      BY <1>1, <2>4, Zenon DEF TakeToAdmit
    <3>2. QED
      BY <1>0, <3>1, IdleScope DEF Cancelled
  <2>5. QED
    BY <2>3, <2>4
<1>2. CASE TakeToClean(w)
  <2> DEFINE op == [ops[w] EXCEPT !.pc = "remove"]
  <2>1. op \in Op /\ op.pc = "remove" /\ op.kind = "cleanup"
    BY <1>0, <1>2, OpKept DEF InLane, TakeToClean
  <2>2. CASE StillDue(ops[w])
    <3>1. Become(w, op) /\ ~Leaving
      BY <1>2, <2>2 DEF TakeToClean, Enter, StillDue
    <3>2. QED
      <4> HIDE DEF op
      <4> QED  BY <1>0, <2>1, <3>1, LaneMoves
  <2>3. CASE ~StillDue(ops[w])
    BY <1>0, <1>2, <2>3, IdleScope DEF TakeToClean, Cancelled
  <2>4. QED
    BY <2>2, <2>3
<1>3. CASE w \in Task /\ TakeToLeave(w)
  <2> DEFINE a == [Reads("leaving", db) EXCEPT !.pc = "withdraw"]
             op == [a EXCEPT !.epoch = LeftStanding(db)]
  <2>1. a \in Op /\ a.pc = "withdraw" /\ a.kind = "leaving"
    <3>1. Reads("leaving", db) \in Op /\ Reads("leaving", db).kind = "leaving"
      BY <1>0, OpTyped DEF Kinds, Reads
    <3>2. QED
      BY <3>1, OpKept
  <2>2. op \in Op /\ op.pc = "withdraw" /\ op.kind = "leaving"
    <3> HIDE DEF a
    <3> QED  BY <1>0, <2>1, RouteLeftRow DEF Op
  <2>3. CASE db.route
    <3>1. Become(w, op)
      BY <1>3, <2>3 DEF TakeToLeave, Reads
    <3>2. w # Standing
      BY <1>3, TaskAssumption
    <3>3. QED
      <4> HIDE DEF op
      <4> QED  BY <1>0, <2>2, <3>1, <3>2, LaneMoves
  <2>4. CASE ~db.route
    BY <1>0, <1>3, <2>4, IdleScope DEF TakeToLeave, Cancelled
  <2>5. QED
    BY <2>3, <2>4
<1>4. CASE w \in Task /\ TakeToRemove(w)
  <2> DEFINE pc == IF ops[w].epoch > 0 /\ ~Member(db) THEN "mark" ELSE "remove"
             op == [ops[w] EXCEPT !.pc = pc]
  <2>1. op \in Op /\ op.pc # "withdraw"
    <3>1. pc \in InLane /\ pc # "withdraw"
      BY DEF InLane
    <3> HIDE DEF pc
    <3>2. QED
      BY <1>0, <3>1, OpKept
  <2>2. Become(w, op) \/ Become(w, Idle)
    BY <1>4 DEF TakeToRemove, Enter, Cancelled
  <2>3. w # Standing
    BY <1>4, TaskAssumption
  <2>4. QED
    <3> HIDE DEF op
    <3> QED  BY <1>0, <2>1, <2>2, <2>3, LaneMoves, IdleScope
<1>5. CASE w \in Task /\ TakeToRevoke(w)
  <2> DEFINE a == [Reads("finalize", db) EXCEPT !.pc = "terminate"]
             op == [a EXCEPT !.epoch = IF db.route \/ Member(db) THEN 1 ELSE 0]
  <2>1. a \in Op /\ a.pc = "terminate"
    BY <1>0, OpTyped, OpMoved DEF Kinds
  <2>2. op \in Op /\ op.pc # "withdraw"
    <3> HIDE DEF a
    <3> QED  BY <2>1 DEF Op
  <2>3. Become(w, op)
    BY <1>5 DEF TakeToRevoke, Reads
  <2>4. w # Standing
    BY <1>5, TaskAssumption
  <2>5. QED
    <3> HIDE DEF op
    <3> QED  BY <1>0, <2>2, <2>3, <2>4, LaneMoves
<1>6. CASE w \in Task /\ TakeToFinalize(w)
  <2>1. w # Standing
    BY <1>6, TaskAssumption
  <2>2. CASE db.gen = ops[w].gen /\ db.revoked
    <3>1. db' = Finalized(db) /\ Become(w, IF ops[w].epoch > 0 THEN Reads("purge", db') ELSE Idle)
      BY <1>6, <2>2 DEF TakeToFinalize
    <3>2. db' \in Rows
      BY <1>0, <3>1, FinalizedRow
    <3>3. Reads("purge", db') \in Op /\ Reads("purge", db').pc = "queued"
      BY <3>2, OpTyped DEF Kinds
    <3>4. CASE ops[w].epoch > 0
      BY <1>0, <2>1, <3>1, <3>3, <3>4, LaneMoves
    <3>5. CASE ~(ops[w].epoch > 0)
      BY <1>0, <3>1, <3>5, IdleScope
    <3>6. QED
      BY <3>4, <3>5
  <2>3. CASE ~(db.gen = ops[w].gen /\ db.revoked)
    BY <1>0, <1>6, <2>3, IdleScope DEF TakeToFinalize
  <2>4. QED
    BY <2>2, <2>3
<1>7. CASE w \in Task /\ TakeToPurge(w)
  <2> DEFINE a == ReadsStanding("purge", db)
             op == [a EXCEPT !.pc = "remove"]
  <2>1. op \in Op /\ op.pc = "remove"
    <3>1. a \in Op /\ "remove" \in InLane
      BY <1>0, OpTyped DEF Kinds, InLane
    <3> HIDE DEF a
    <3>2. QED
      BY <3>1, OpMoved
  <2>2. Become(w, op) /\ w # Standing
    BY <1>7, TaskAssumption DEF TakeToPurge, Enter
  <2>3. QED
    <3> HIDE DEF op
    <3> QED  BY <1>0, <2>1, <2>2, LaneMoves
<1>8. w = Standing => TakeToAdmit(w) \/ TakeToClean(w)
  BY <1>k DEF TakeLane, TakeToLeave, TakeToRemove, TakeToRevoke, TakeToFinalize, TakeToPurge
<1>9. QED
  BY <1>1, <1>2, <1>3, <1>4, <1>5, <1>6, <1>7, <1>8 DEF TakeLane, Worker

\* Under the lane: the route of an admission that is compensated is still there.
LEMMA LaneScope ==
  ASSUME IInv, ScopeInv, NEW w \in Worker,
         Granted(w) \/ Commit(w) \/ Removed(w) \/ Mark(w) \/ Fails(w)
  PROVE  ScopeInv'
<1>0. lane = w /\ ops[w] \in Op /\ db \in Rows
  BY DEF Granted, Commit, Removed, Mark, Fails, GrantFails, CommitFails, RemoveFails, InStep, IInv, OpsOK, DataOK
<1>k. ops[w].pc \in InLane
  BY <1>0 DEF IInv, OpsOK
<1>1. CASE Become(w, Idle)
  BY <1>0, <1>1, IdleScope
<1>2. CASE Granted(w)
  <2> DEFINE op == [ops[w] EXCEPT !.pc = "commit"]
  <2>1. op \in Op /\ op.pc = "commit" /\ op.kind = ops[w].kind
    BY <1>0, OpKept DEF InLane
  <2>2. Become(w, op) /\ db' = db /\ ops[w].pc = "grant"
    BY <1>2 DEF Granted, Continue, InStep
  <2>3. QED
    <3> HIDE DEF op
    <3> QED  BY <1>0, <2>1, <2>2, LaneMoves DEF ScopeInv, CoordinatorInv
<1>3. CASE Removed(w)
  <2> DEFINE op == [ops[w] EXCEPT !.pc = "mark"]
  <2>1. op \in Op /\ op.pc = "mark" /\ op.kind = ops[w].kind
    BY <1>0, OpKept DEF InLane
  <2>2. Become(w, op) /\ ops[w].pc = "remove"
    BY <1>3 DEF Removed, Continue, InStep
  <2>3. QED
    <3> HIDE DEF op
    <3> QED  BY <1>0, <2>1, <2>2, LaneMoves DEF ScopeInv, CoordinatorInv
<1>4. CASE ops[w].pc = "commit" /\ Compensate(w) /\ ~Become(w, Idle)
  <2> DEFINE a == ReadsStanding("cleanup", db')
             op == [a EXCEPT !.pc = "remove"]
  <2>1. db' = CleanupScheduled(db, ops[w].life) /\ Become(w, op)
    BY <1>4 DEF Compensate, Release
  <2>2. db' \in Rows /\ db'.route = db.route
    <3>1. ops[w].life \in Nat
      BY <1>0 DEF Op
    <3>2. QED
      BY <1>0, <2>1, <3>1, ScheduledRow
  <2>3. a \in Op /\ a.kind = "cleanup"
    BY <2>2, OpTyped DEF Kinds, ReadsStanding, Reads
  <2>4. op \in Op /\ op.pc = "remove" /\ op.kind = "cleanup"
    <3> HIDE DEF a
    <3> QED  BY <2>3, OpKept DEF InLane
  <2>5. w = Standing => db'.route
    BY <1>4, <2>2 DEF ScopeInv, CoordinatorInv
  <2>6. QED
    <3> HIDE DEF op
    <3> QED  BY <1>0, <2>1, <2>4, <2>5, LaneMoves
<1>5. \/ Become(w, Idle) \/ Granted(w) \/ Removed(w)
      \/ ops[w].pc = "commit" /\ Compensate(w)
  BY DEF Granted, Commit, Mark, Fails, GrantFails, CommitFails, RemoveFails, Release, InStep
<1>6. QED
  BY <1>1, <1>2, <1>3, <1>4, <1>5

\* Requests begin no leave's first phase, and a launch takes no route.
LEMMA AskScope ==
  ASSUME IInv, ScopeInv, NEW t \in Task, Asks(t)
  PROVE  ScopeInv'
<1>0. db \in Rows /\ ops[t].pc = "idle"
  BY DEF IInv, DataOK, Asks, Launch, Join, Mention, Leave, Forget, Request
<1>1. CASE Launch(t)
  <2>1. PICK here \in BOOLEAN, asked \in BOOLEAN :
          /\ db' = Reserved(db, here)
          /\ IF here THEN Become(t, Reads("start", db'))
             ELSE IF asked \/ db.route THEN Become(t, Reads("passive", db'))
             ELSE UNCHANGED ops
    BY <1>1 DEF Launch
  <2>2. db' \in Rows /\ (db.route => db'.route)
    <3>1. db' \in Rows
      BY <1>0, <2>1, LaunchedRow
    <3>2. db.route => db'.route
      BY <1>0, <2>1 DEF Reserved, WithStanding, Rows
    <3>3. QED
      BY <3>1, <3>2
  <2>3. ASSUME NEW kind \in {"start", "passive"}, Become(t, Reads(kind, db')) PROVE ScopeInv'
    <3>1. Reads(kind, db') \in Op /\ Reads(kind, db').pc = "queued" /\ Reads(kind, db').kind = kind
      BY <2>2, OpTyped DEF Reads, Kinds, Admissions, Gated
    <3>2. QED
      BY <2>2, <2>3, <3>1, TaskMoves
  <2>4. QED
    BY <2>1, <2>2, <2>3, NobodyMoves
<1>2. ASSUME NEW counter, NEW kind \in {"join", "mention", "leave", "forget"}, Request(t, counter, kind)
      PROVE  ScopeInv'
  <2>1. Reads(kind, db) \in Op /\ Reads(kind, db).pc = "queued" /\ Reads(kind, db).kind = kind
    BY <1>0, OpTyped DEF Reads, Kinds, Admissions
  <2>2. Become(t, Reads(kind, db)) /\ db' = db
    BY <1>2 DEF Request
  <2>3. QED
    BY <2>1, <2>2, TaskMoves
<1>3. QED
  BY <1>1, <1>2 DEF Asks, Join, Mention, Leave, Forget

LEMMA BetweenLanesScope ==
  ASSUME IInv, ScopeInv, NEW t \in Task, Withdrawn(t) \/ Terminated(t)
  PROVE  ScopeInv'
<1>1. ops[t] \in Op
  BY DEF IInv, OpsOK, Worker
<1>2. [ops[t] EXCEPT !.pc = "queued"] \in Op /\ [ops[t] EXCEPT !.pc = "queued"].pc = "queued"
      /\ [ops[t] EXCEPT !.pc = "queued"].kind = ops[t].kind
  BY <1>1, OpKept
<1>3. Idle \in Op /\ Idle.pc = "idle" /\ Idle.kind = "join"
  BY OpTyped DEF Idle
<1>4. db' = db /\ (Become(t, [ops[t] EXCEPT !.pc = "queued"]) \/ Become(t, Idle))
  BY DEF Withdrawn, Terminated
<1>5. QED
  BY <1>2, <1>3, <1>4, TaskMoves

LEMMA ScanScope ==
  ASSUME IInv, ScopeInv, ScanDue \/ ScanRoutes
  PROVE  ScopeInv'
<1>1. db \in Rows
  BY DEF IInv, DataOK
<1>2. ReadsStanding("cleanup", db) \in Op /\ ReadsStanding("cleanup", db).pc = "queued"
      /\ ReadsStanding("cleanup", db).kind = "cleanup"
  BY <1>1, OpTyped DEF Kinds, ReadsStanding, Reads
<1>3. Reads("repair", db) \in Op /\ Reads("repair", db).pc = "queued" /\ Reads("repair", db).kind = "repair"
  BY <1>1, OpTyped DEF Kinds, Admissions, Gated, Reads
<1>4. QED
  BY <1>2, <1>3, CoordinatorMoves DEF ScanDue, ScanRoutes

LEMMA CrashScope ==
  ASSUME IInv, ScopeInv, Crash
  PROVE  ScopeInv'
<1>1. PICK t \in Task : ops' = [w \in Worker |-> IF w = t /\ db.running /\ db.route
                                                   THEN Reads("restore", db) ELSE Idle]
  BY DEF Crash
<1>2. Reads("restore", db).pc = "queued" /\ Idle.pc = "idle"
  BY DEF Reads, Idle
<1>3. ops'[Standing] = Idle /\ \A v \in Task : ops'[v].pc # "withdraw"
  BY <1>1, <1>2, TaskAssumption DEF Worker
<1>4. QED
  BY <1>2, <1>3 DEF ScopeInv, WithdrawInv, CoordinatorInv

LEMMA ScopeStep == IInv /\ ScopeInv /\ [Next]_vars => ScopeInv'
<1> SUFFICES ASSUME IInv, ScopeInv, [Next]_vars PROVE ScopeInv'
  OBVIOUS
<1>1. ASSUME NEW w \in Worker, Steps(w) \/ Fails(w) PROVE ScopeInv'
  BY <1>1, TakeLaneScope, LaneScope DEF Steps
<1>2. ASSUME NEW t \in Task, Asks(t) \/ Withdrawn(t) \/ Terminated(t) PROVE ScopeInv'
  BY <1>2, AskScope, BetweenLanesScope
<1>3. CASE ScanDue \/ ScanRoutes
  BY <1>3, ScanScope
<1>4. CASE Stop \/ ViewFollows \/ ReadyExpires \/ UNCHANGED vars
  <2>1. UNCHANGED ops /\ (db.route => db'.route)
    BY <1>4, StoppedRow DEF Stop, ViewFollows, ReadyExpires, vars, IInv, DataOK
  <2>2. QED
    BY <2>1, NobodyMoves
<1>5. CASE Crash
  BY <1>5, CrashScope
<1>6. QED
  BY <1>1, <1>2, <1>3, <1>4, <1>5 DEF Next

LEMMA ScopeInit == Init => ScopeInv
<1> SUFFICES ASSUME Init PROVE ScopeInv
  OBVIOUS
<1>1. \A w \in Worker : ops[w].pc = "idle"
  BY DEF Init, Idle
<1>2. QED
  BY <1>1 DEF ScopeInv, WithdrawInv, CoordinatorInv, Worker

----------------------------------------------------------------------------
(* The theorems *)

\* Every value keeps its type, and whoever is between a relay mutation and its
\* record holds standing_sync (the guard every caller of the group mutations in
\* standing.rs, leaving.rs and channel_membership_rpc.rs takes first).
THEOREM TypeCorrect == Spec => []TypeOK
<1>1. IInv => TypeOK
  BY DEF IInv, DataOK, OpsOK, TypeOK
<1>2. QED
  BY <1>1, InductiveInvariant, PTL

\* A membership on the relay's roster has its member row as soon as the lane is
\* free, however launches, stops, joins, leaves, forgets, cleanups, crashes and
\* failures interleave, unless an answer or a write was lost while it was made
\* (commit_confirmed_admission, schedule_confirmed_admission_cleanup).
THEOREM MembersRecorded == Spec => []EveryMemberIsRecorded
<1>1. IInv => EveryMemberIsRecorded
  BY DEF IInv, Safe
<1>2. QED
  BY <1>1, InductiveInvariant, PTL

\* A session whose recovery was finally revoked keeps no route and gets none
\* again: every write of a route checks the revocation in its own transaction
\* (finalize_session_recovery_revocation, restore_route_after_failed_leave).
THEOREM ForgottenRouteless == Spec => []ForgottenHasNoRoute
<1>1. IInv => ForgottenHasNoRoute
  BY DEF IInv, FinalInv, ForgottenHasNoRoute
<1>2. QED
  BY <1>1, InductiveInvariant, PTL

\* The coordinator removes no membership that is due while the leave that owns
\* the channel still waits for its presence withdrawal, however repairs, joins,
\* launches and stops come between (leaving.rs, cleanup_still_due).
THEOREM CleanupsWaitForLeaves == Spec => CleanupWaitsForLeave
<1> DEFINE Early == Removed(Standing) /\ ops[Standing].kind = "cleanup" /\ CleanupDue(db)
                      => \A t \in Task : ops[t].pc # "withdraw"
<1>1. IInv /\ ScopeInv => Early
  BY DEF ScopeInv, WithdrawInv, CoordinatorInv, Removed, InStep, CleanupDue, Leaving
<1>2. IInv /\ ScopeInv /\ [Next]_vars => [Early]_vars
  BY <1>1
<1>3. Spec => []ScopeInv
  BY InductiveInvariant, ScopeInit, ScopeStep, PTL DEF Spec
<1> HIDE DEF Early
<1>4. Spec => [][Early]_vars
  BY <1>2, <1>3, InductiveInvariant, PTL DEF Spec
<1>5. QED
  BY <1>4 DEF Early, CleanupWaitsForLeave
=============================================================================
