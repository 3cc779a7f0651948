----------------------- MODULE SubscriptionSyncProofs -----------------------
(* Theorems about SubscriptionSync, for every set of channels and every       *)
(* budget.                                                                    *)
(*                                                                           *)
(* The argument.  A REQ goes out under an id that no demand and no frame      *)
(* has, so the frames of one id are of one subscription (Ids), and no CLOSE   *)
(* of it is sent before its demand is gone (Wire).  A belief is written when  *)
(* its demand is open, or its product is the one being synced (Trust),        *)
(* and whoever leaves a sync in between counts the product as astray.         *)
EXTENDS SubscriptionSync, FiniteSetTheorems, TLAPS

Id == 0..4

Syncs == [pc : {"idle", "plan", "opening", "closing"}, product : Product, cover : Cover,
          id : Id, prior : Id, stale : BOOLEAN]
Demands == [Product -> [id : Id, cover : Cover]]
Beliefs == [Product -> Cover \union {NoCover}]
Frames == [type : {"REQ", "CLOSE"}, id : Id]

Typed ==
  /\ wanted \in Cover /\ waiting \in Nat /\ desired \in Cover /\ sync \in Syncs
  /\ believed \in Beliefs /\ demand \in Demands
  /\ frames \subseteq Frames /\ live \subseteq Id
  /\ ~MidDemand => sync.id = 0

\* An id is that of one demand, or of the sync that opens it, and of nothing
\* else; a demand that was replaced has given it back.
Ids ==
  /\ \A p, q \in Product : p # q => demand[p].id # demand[q].id \/ demand[p].id = 0
  /\ At("opening") => sync.id # 0 /\ \A p \in Product : demand[p].id # sync.id
  /\ At("closing") /\ sync.prior # 0 => \A p \in Product : demand[p].id # sync.prior
  /\ \A f \in frames : InUse(f.id)

\* The subscriptions that demands stand for, or will.
Needed(id) ==
  /\ id # 0
  /\ (\E p \in Product : demand[p].id = id) \/ (At("opening") /\ ~sync.stale /\ sync.id = id)
Subscribed(id) == (id \in live \/ Req(id) \in frames) /\ Close(id) \notin frames
Wire == \A id \in Id : Needed(id) => Subscribed(id)

\* What is believed of a product is open.
Matches(p) ==
  p \notin astray /\ Trusted(p, believed[p]) => demand[p].id # 0 /\ demand[p].cover = believed[p]

\* Between the steps of a sync: the records are believed covered early, the
\* others keep their belief until the prior subscription is closed.
Between ==
  LET p == sync.product
  IN  /\ At("opening") => IF p = "records" THEN believed[p] \in {NoCover, sync.cover} ELSE Matches(p)
      /\ At("closing") /\ ~sync.stale =>
           CASE p = "records"  -> \/ believed[p] = NoCover
                                  \/ believed[p] = sync.cover /\ demand[p] = [id |-> sync.id, cover |-> sync.cover]
             [] p = "profiles" -> demand[p] = [id |-> sync.id, cover |-> sync.cover]
             [] OTHER          -> sync.cover # {} => demand[p] = [id |-> sync.id, cover |-> sync.cover]
      /\ At("closing") => sync.id # 0 \/ (p = "broad" /\ sync.cover = {})
      /\ MidDemand /\ p = "broad" => desired \in {{}, sync.cover}

Trust == Between /\ \A p \in Product : (MidDemand /\ sync.product = p) \/ Matches(p)

IInv == Typed /\ Ids /\ Wire /\ Trust

----------------------------------------------------------------------------
(* Ids *)

LEMMA ProductSize == Cardinality(Product) = 3
<1>1. IsFiniteSet({"profiles"}) /\ Cardinality({"profiles"}) = 1
  BY FS_Singleton
<1>2. IsFiniteSet({"profiles"} \union {"records"}) /\ Cardinality({"profiles"} \union {"records"}) = 2
  BY <1>1, FS_AddElement
<1>3. Cardinality(({"profiles"} \union {"records"}) \union {"broad"}) = 3
  BY <1>2, FS_AddElement
<1>4. Product = ({"profiles"} \union {"records"}) \union {"broad"}
  BY DEF Product
<1>5. QED
  BY <1>3, <1>4

\* Three demands leave one of four ids free.
LEMMA FreshIdIsFree ==
  ASSUME Typed, ~MidDemand, NEW p
  PROVE  FreshId(p) \in Id \ {0} /\ ~InUse(FreshId(p))
<1>1. \E id \in 1..4 : ~InUse(id)
  <2>1. \A id : InUse(id) <=> id \in {0, demand["profiles"].id, demand["records"].id, demand["broad"].id}
    BY DEF Typed, InUse, Product
  <2>2. /\ demand["profiles"].id \in Int /\ demand["records"].id \in Int /\ demand["broad"].id \in Int
    BY DEF Typed, Demands, Product, Id
  <2>3. \E id \in {1, 2, 3, 4} : id \notin {0, demand["profiles"].id, demand["records"].id, demand["broad"].id}
    BY <2>2
  <2>4. QED
    BY <2>1, <2>3
<1>2. 1..Cardinality(Product) + 1 = 1..4
  BY ProductSize
<1>3. FreshId(p) \in 1..4 /\ ~InUse(FreshId(p))
  BY <1>1, <1>2 DEF FreshId
<1>4. QED
  BY <1>3 DEF Id

----------------------------------------------------------------------------
(* Types *)

LEMMA SyncFields ==
  ASSUME Typed
  PROVE  /\ sync.pc \in {"idle", "plan", "opening", "closing"} /\ sync.product \in Product
         /\ sync.cover \in Cover /\ sync.id \in Id /\ sync.prior \in Id /\ sync.stale \in BOOLEAN
         /\ \A p \in Product : demand[p] \in [id : Id, cover : Cover]
         /\ \A p \in Product : demand[p].id \in Id /\ demand[p].cover \in Cover
<1>1. sync \in Syncs /\ demand \in Demands
  BY DEF Typed
<1>2. \A p \in Product : demand[p] \in [id : Id, cover : Cover]
  BY <1>1 DEF Demands
<1>3. QED
  BY <1>1, <1>2 DEF Syncs

\* A sync at its start.
Plans(s, product, cover) ==
  /\ s \in Syncs /\ s.pc = "plan" /\ s.product = product /\ s.cover = cover
  /\ s.id = 0 /\ s.prior = 0 /\ s.stale = FALSE

LEMMA Idles ==
  /\ IdleSync \in Syncs /\ IdleSync.pc = "idle" /\ IdleSync.product = "profiles"
  /\ IdleSync.id = 0 /\ IdleSync.prior = 0 /\ IdleSync.stale = FALSE
BY DEF IdleSync, Syncs, Product, Cover, Id

LEMMA Starts ==
  ASSUME NEW s \in Syncs, s.id = 0, s.prior = 0, s.stale = FALSE,
         NEW product \in Product, NEW cover \in Cover
  PROVE  /\ Plans([s EXCEPT !.pc = "plan", !.cover = cover], s.product, cover)
         /\ Plans([s EXCEPT !.pc = "plan", !.cover = cover, !.product = product], product, cover)
BY DEF Plans, Syncs

LEMMA SendsTyped ==
  ASSUME NEW fs \in SUBSET Frames, live \subseteq Id, Sends(fs)
  PROVE  frames' \subseteq Frames /\ live' \subseteq Id
BY DEF Sends

LEMMA FrameTypes == \A id \in Id : Req(id) \in Frames /\ Close(id) \in Frames
BY DEF Req, Close, Frames

\* After a demand comes the next one, or the lock is free.
LEMMA ProceedPlans ==
  ASSUME Typed, Proceed
  PROVE  sync' \in Syncs /\ sync'.id = 0 /\ sync'.pc \in {"idle", "plan"}
<1>1. CASE sync.product = "broad"
  BY <1>1, Idles DEF Proceed
<1>2. CASE sync.product # "broad"
  <2>1. Following[sync.product] \in Product
    BY <1>2, SyncFields DEF Following, Product
  <2>2. Plans(sync', Following[sync.product], sync.cover)
    <3> DEFINE next == [IdleSync EXCEPT !.pc = "plan", !.cover = sync.cover,
                                        !.product = Following[sync.product]]
    <3>1. sync' = next
      BY <1>2 DEF Proceed
    <3>2. Plans(next, Following[sync.product], sync.cover)
      BY <2>1, SyncFields, Idles, Starts
    <3> HIDE DEF next
    <3>3. QED
      BY <3>1, <3>2
  <2>3. QED
    BY <2>2 DEF Plans
<1>3. QED
  BY <1>1, <1>2

\* Writing one field of the sync, or one product's demand or belief.
LEMMA Writes ==
  ASSUME Typed
  PROVE  /\ \A pc \in {"idle", "plan", "opening", "closing"} : \A id \in Id :
              LET next == [sync EXCEPT !.pc = pc, !.id = id]
              IN  next \in Syncs /\ next.pc = pc /\ next.id = id /\ next.prior = sync.prior
                  /\ next.product = sync.product /\ next.cover = sync.cover /\ next.stale = sync.stale
         /\ \A pc \in {"idle", "plan", "opening", "closing"} : \A id \in Id :
              LET next == [sync EXCEPT !.pc = pc, !.prior = id]
              IN  next \in Syncs /\ next.pc = pc /\ next.id = sync.id /\ next.prior = id
                  /\ next.product = sync.product /\ next.cover = sync.cover /\ next.stale = sync.stale
         /\ \A stale \in BOOLEAN :
              LET next == [sync EXCEPT !.stale = stale]
              IN  next \in Syncs /\ next.pc = sync.pc /\ next.id = sync.id /\ next.prior = sync.prior
                  /\ next.product = sync.product /\ next.cover = sync.cover /\ next.stale = stale
<1>1. sync \in Syncs
  BY DEF Typed
<1>2. QED
  BY <1>1 DEF Syncs

LEMMA WritesRows ==
  ASSUME Typed, NEW p \in Product
  PROVE  /\ \A id \in Id, cover \in Cover :
              [demand EXCEPT ![p] = [id |-> id, cover |-> cover]] \in Demands
         /\ [demand EXCEPT ![p] = NoDemand] \in Demands
         /\ \A cover \in Cover \union {NoCover} : [believed EXCEPT ![p] = cover] \in Beliefs
         /\ NoDemand \in [id : Id, cover : Cover]
BY DEF Typed, Demands, Beliefs, NoDemand, Id, Cover

LEMMA OpenTyped ==
  ASSUME Typed, Open
  PROVE  /\ Typed'
         /\ sync'.pc = "opening" /\ sync'.id # 0 /\ sync'.product = sync.product
         /\ sync'.cover = sync.cover /\ sync'.stale = sync.stale /\ sync'.prior = sync.prior
         /\ ~InUse(sync'.id) /\ Sends(frames \union {Req(sync'.id)})
<1> DEFINE id == FreshId(sync.product)
<1>1. id \in Id \ {0} /\ ~InUse(id)
  BY FreshIdIsFree DEF Open, MidDemand, At
<1>2. sync' = [sync EXCEPT !.pc = "opening", !.id = id] /\ Sends(frames \union {Req(id)})
  BY DEF Open
<1> HIDE DEF id
<1>3. /\ sync' \in Syncs /\ sync'.pc = "opening" /\ sync'.id = id /\ sync'.product = sync.product
      /\ sync'.cover = sync.cover /\ sync'.stale = sync.stale /\ sync'.prior = sync.prior
  <2> DEFINE next == [sync EXCEPT !.pc = "opening", !.id = id]
  <2>1. /\ next \in Syncs /\ next.pc = "opening" /\ next.id = id /\ next.product = sync.product
        /\ next.cover = sync.cover /\ next.stale = sync.stale /\ next.prior = sync.prior
    <3>1. sync \in Syncs /\ id \in Id
      BY <1>1 DEF Typed
    <3>2. QED
      BY <3>1 DEF Syncs
  <2> HIDE DEF next
  <2>2. sync' = next
    BY <1>2 DEF next
  <2>3. QED
    BY <2>1, <2>2
<1>4. frames' \subseteq Frames /\ live' \subseteq Id
  BY <1>1, <1>2, SendsTyped, FrameTypes DEF Typed
<1>5. believed' \in Beliefs
  <2>1. [believed EXCEPT ![sync.product] = sync.cover] \in Beliefs
    BY SyncFields, WritesRows
  <2>2. QED
    BY <2>1 DEF Open, Typed
<1>8. desired' \in Cover
  BY SyncFields DEF Open, Desires, Typed
<1>6. Typed'
  BY <1>1, <1>3, <1>4, <1>5, <1>8 DEF Open, Typed, MidDemand, At, calls
<1>7. QED
  BY <1>1, <1>2, <1>3, <1>6

LEMMA InstallTyped ==
  ASSUME Typed, Install
  PROVE  /\ Typed'
         /\ sync'.pc = "closing" /\ sync'.id = sync.id /\ sync'.product = sync.product
         /\ sync'.cover = sync.cover /\ sync'.stale = sync.stale
         /\ sync'.prior = IF sync.stale THEN 0 ELSE demand[sync.product].id
         /\ demand' = IF sync.stale THEN demand
                      ELSE [demand EXCEPT ![sync.product] = [id |-> sync.id, cover |-> sync.cover]]
<1> DEFINE prior == IF sync.stale THEN 0 ELSE demand[sync.product].id
<1>1. prior \in Id
  BY SyncFields DEF Id
<1>2. sync' = [sync EXCEPT !.pc = "closing", !.prior = prior] /\ Sends(frames)
  BY DEF Install
<1>3. prior = IF sync.stale THEN 0 ELSE demand[sync.product].id
  OBVIOUS
<1> HIDE DEF prior
<1>4. /\ sync' \in Syncs /\ sync'.pc = "closing" /\ sync'.id = sync.id /\ sync'.prior = prior
      /\ sync'.product = sync.product /\ sync'.cover = sync.cover /\ sync'.stale = sync.stale
  BY <1>1, <1>2, Writes
<1>5. frames' \subseteq Frames /\ live' \subseteq Id
  BY <1>2, SendsTyped DEF Typed
<1>6. demand' = IF sync.stale THEN demand
                ELSE [demand EXCEPT ![sync.product] = [id |-> sync.id, cover |-> sync.cover]]
  BY DEF Install
<1>7. demand' \in Demands
  BY <1>6, SyncFields, WritesRows DEF Typed
<1>8. Typed'
  BY <1>4, <1>5, <1>7 DEF Install, Typed, MidDemand, At, calls, beliefs
<1>9. QED
  BY <1>3, <1>4, <1>6, <1>8

LEMMA CloseBroadTyped ==
  ASSUME Typed, CloseBroad
  PROVE  /\ Typed'
         /\ sync'.pc = "closing" /\ sync'.id = 0 /\ sync'.product = "broad" /\ sync'.cover = {}
         /\ sync'.stale = sync.stale /\ sync'.prior = demand["broad"].id
         /\ demand' = [demand EXCEPT !["broad"] = NoDemand]
<1>1. sync.id = 0 /\ "broad" \in Product
  BY DEF CloseBroad, Typed, MidDemand, At, Product
<1>2. sync' = [sync EXCEPT !.pc = "closing", !.prior = demand["broad"].id] /\ Sends(frames)
  BY DEF CloseBroad
<1>3. /\ sync' \in Syncs /\ sync'.pc = "closing" /\ sync'.id = 0 /\ sync'.product = sync.product
      /\ sync'.cover = sync.cover /\ sync'.stale = sync.stale /\ sync'.prior = demand["broad"].id
  BY <1>1, <1>2, SyncFields, Writes
<1>4. frames' \subseteq Frames /\ live' \subseteq Id
  BY <1>2, SendsTyped DEF Typed
<1>5. demand' \in Demands /\ desired' \in Cover
  BY <1>1, SyncFields, WritesRows DEF CloseBroad, Desires, Typed
<1>6. Typed'
  BY <1>3, <1>4, <1>5 DEF CloseBroad, Typed, MidDemand, At, calls
<1>7. QED
  BY <1>3, <1>6 DEF CloseBroad

\* The steps that leave or keep the place of the sync.
LEMMA ConfirmTyped ==
  ASSUME Typed, Confirm
  PROVE  /\ Typed' /\ sync'.id = 0 /\ sync'.pc \in {"idle", "plan"} /\ demand' = demand
         /\ (Sends(frames \union Closing) \/ Sends(frames))
<1>1. sync' \in Syncs /\ sync'.id = 0 /\ sync'.pc \in {"idle", "plan"}
  BY ProceedPlans DEF Confirm
<1>2. Sends(frames \union Closing) \/ Sends(frames)
  BY DEF Confirm
<1>3. frames' \subseteq Frames /\ live' \subseteq Id
  <2>1. Closing \subseteq Frames
    BY SyncFields, FrameTypes DEF Closing
  <2>2. QED
    BY <1>2, <2>1, SendsTyped DEF Typed
<1>4. believed' \in Beliefs
  <2>1. sync.product \in Product /\ believed[sync.product] \in Cover \union {NoCover}
    BY SyncFields DEF Typed, Beliefs
  <2>2. \E cover \in Cover \union {NoCover} : believed' = [believed EXCEPT ![sync.product] = cover]
    BY <2>1, SyncFields DEF Confirm, Typed
  <2>3. QED
    BY <2>1, <2>2, WritesRows
<1>5. waiting' \in Nat
  BY DEF Confirm, Typed
<1>6. QED
  BY <1>1, <1>2, <1>3, <1>4, <1>5 DEF Confirm, Typed

LEMMA AbandonTyped ==
  ASSUME Typed, OpenRefused \/ CloseRefused \/ Cancel
  PROVE  /\ Typed' /\ sync'.id = 0 /\ sync'.pc = "idle" /\ UNCHANGED <<beliefs, demand>>
         /\ \E fs \in SUBSET Frames : Sends(fs)
<1>1. sync' = IdleSync /\ UNCHANGED <<calls, beliefs, demand>>
  BY DEF OpenRefused, CloseRefused, Cancel, Abandon
<1>2. Closing \subseteq Frames /\ Req(sync.id) \in Frames /\ Close(sync.id) \in Frames
  BY SyncFields, FrameTypes DEF Closing
<1>3. \E fs \in SUBSET Frames : Sends(fs)
  <2>1. CASE OpenRefused
    BY <1>2, <2>1 DEF OpenRefused, Typed
  <2>2. CASE CloseRefused
    BY <1>2, <2>2 DEF CloseRefused, Typed
  <2>3. CASE Cancel
    BY <1>2, <2>3 DEF Cancel, Typed
  <2>4. QED
    BY <2>1, <2>2, <2>3
<1>4. frames' \subseteq Frames /\ live' \subseteq Id
  BY <1>3, SendsTyped DEF Typed
<1>5. QED
  BY <1>1, <1>3, <1>4, Idles DEF Typed, calls, beliefs

\* A sync that starts, or that moves on.
LEMMA PlanTyped ==
  ASSUME Typed, TakeSnapshot \/ Skip
  PROVE  /\ Typed' /\ sync.id = 0 /\ sync'.id = 0 /\ sync'.pc \in {"idle", "plan"}
         /\ UNCHANGED <<believed, runtime, astray>> /\ ~MidDemand
<1>1. sync.id = 0 /\ ~MidDemand
  BY DEF TakeSnapshot, Skip, Typed, MidDemand, At
<1>2. sync' \in Syncs /\ sync'.id = 0 /\ sync'.pc \in {"idle", "plan"}
  <2>1. CASE TakeSnapshot
    <3> DEFINE next == [IdleSync EXCEPT !.pc = "plan", !.cover = wanted]
    <3>1. sync' = next
      BY <2>1 DEF TakeSnapshot
    <3>2. Plans(next, "profiles", wanted)
      BY Idles, Starts DEF Typed, Product
    <3> HIDE DEF next
    <3>3. QED
      BY <3>1, <3>2 DEF Plans
  <2>2. CASE Skip
    BY <2>2, ProceedPlans DEF Skip
  <2>3. QED
    BY <2>1, <2>2
<1>3. waiting' \in Nat /\ desired' \in Cover /\ UNCHANGED <<wanted, believed, demand, frames, live, astray>>
  BY SyncFields DEF TakeSnapshot, Skip, Desires, Typed, calls, beliefs, runtime
<1>4. QED
  BY <1>1, <1>2, <1>3 DEF Typed, runtime, MidDemand

LEMMA ReloadTyped ==
  ASSUME Typed, ReloadInstalls
  PROVE  /\ Typed' /\ demand' = [p \in Product |-> NoDemand] /\ frames' = {} /\ live' = {}
         /\ sync'.pc = sync.pc /\ sync'.id = sync.id /\ sync'.product = sync.product
         /\ sync'.cover = sync.cover /\ sync'.prior = sync.prior /\ sync'.stale = MidDemand
<1> DEFINE stale == MidDemand
<1>1. stale \in BOOLEAN /\ sync' = [sync EXCEPT !.stale = stale]
  BY DEF ReloadInstalls, MidDemand
<1>2. stale = MidDemand
  OBVIOUS
<1> HIDE DEF stale
<1>3. /\ sync' \in Syncs /\ sync'.pc = sync.pc /\ sync'.id = sync.id /\ sync'.product = sync.product
      /\ sync'.cover = sync.cover /\ sync'.prior = sync.prior /\ sync'.stale = stale
  BY <1>1, Writes
<1>4. demand' = [p \in Product |-> NoDemand] /\ demand' \in Demands
  BY DEF ReloadInstalls, Demands, NoDemand, Id, Cover
<1>5. Typed'
  BY <1>3, <1>4 DEF ReloadInstalls, Typed, MidDemand, At
<1>6. QED
  BY <1>2, <1>3, <1>4, <1>5 DEF ReloadInstalls

\* The steps that leave the sync alone.
Aside == Change \/ Discover \/ StopWaiting \/ Relay \/ ReloadBegins \/ ReloadResets

LEMMA AsideTyped ==
  ASSUME Typed, Aside
  PROVE  Typed' /\ sync' = sync
<1>1. CASE Change
  BY <1>1 DEF Change, Typed, beliefs, runtime, MidDemand
<1>2. CASE Discover
  BY <1>2 DEF Discover, Typed, beliefs, runtime, MidDemand
<1>3. CASE StopWaiting
  BY <1>3 DEF StopWaiting, Typed, beliefs, runtime, MidDemand
<1>4. CASE Relay
  <2>1. PICK f \in frames : Deliver(f)
    BY <1>4 DEF Relay
  <2>2. f.id \in Id
    BY DEF Typed, Frames
  <2>3. frames' \subseteq Frames /\ live' \subseteq Id
    BY <2>1, <2>2 DEF Deliver, Typed
  <2>4. QED
    BY <2>1, <2>3 DEF Deliver, Typed, calls, beliefs, MidDemand
<1>5. CASE ReloadBegins
  <2>1. "records" \in Product /\ NoCover \in Cover \union {NoCover}
    BY DEF Product
  <2>2. believed' \in Beliefs /\ demand' \in Demands
    BY <1>5, <2>1, WritesRows DEF ReloadBegins
  <2>3. frames' \subseteq Frames /\ live' \subseteq Id
    BY <1>5, <2>1, SyncFields, SendsTyped, FrameTypes DEF ReloadBegins, Typed
  <2>4. QED
    BY <1>5, <2>2, <2>3 DEF ReloadBegins, Typed, calls, MidDemand
<1>6. CASE ReloadResets
  <2>1. believed' \in Beliefs
    BY <1>6 DEF ReloadResets, Typed, Beliefs
  <2>2. QED
    BY <1>6, <2>1 DEF ReloadResets, Typed, calls, runtime, MidDemand, Cover
<1>7. QED
  BY <1>1, <1>2, <1>3, <1>4, <1>5, <1>6 DEF Aside

\* The same steps, as the rest of the proof takes them.
Leaves == OpenRefused \/ CloseRefused \/ Cancel
Plan == TakeSnapshot \/ Skip

LEMMA StepCases ==
  ASSUME Next
  PROVE  Plan \/ Open \/ Install \/ CloseBroad \/ Confirm \/ Leaves \/ Aside \/ ReloadInstalls
BY DEF Next, SyncStep, Reload, Plan, Leaves, Aside

LEMMA StepTyped ==
  ASSUME Typed, Next
  PROVE  Typed'
<1>1. CASE Plan
  BY <1>1, PlanTyped DEF Plan
<1>2. CASE Open \/ Install \/ CloseBroad
  BY <1>2, OpenTyped, InstallTyped, CloseBroadTyped
<1>3. CASE Confirm
  BY <1>3, ConfirmTyped
<1>4. CASE Leaves
  BY <1>4, AbandonTyped DEF Leaves
<1>5. CASE Aside
  BY <1>5, AsideTyped
<1>6. CASE ReloadInstalls
  BY <1>6, ReloadTyped
<1>7. QED
  BY <1>1, <1>2, <1>3, <1>4, <1>5, <1>6, StepCases

----------------------------------------------------------------------------
(* Ids and frames *)

LEMMA SendsUsed ==
  ASSUME NEW fs, Sends(fs)
  PROVE  \A f \in frames' : InUse(f.id)'
BY DEF Sends

LEMMA StepIds ==
  ASSUME Typed, Ids, Next
  PROVE  Ids'
<1>1. CASE Plan
  <2>1. sync.id = 0 /\ sync'.id = 0 /\ sync'.pc \in {"idle", "plan"} /\ demand' = demand /\ frames' = frames
    BY <1>1, PlanTyped DEF Plan, runtime
  <2>2. QED
    BY <2>1 DEF Ids, InUse, At
<1>2. CASE Open
  <2>1. /\ sync'.pc = "opening" /\ sync'.id # 0 /\ ~InUse(sync'.id) /\ demand' = demand
        /\ Sends(frames \union {Req(sync'.id)})
    BY <1>2, OpenTyped DEF Open
  <2>2. \A f \in frames' : InUse(f.id)'
    BY <2>1, SendsUsed
  <2>3. QED
    BY <2>1, <2>2 DEF Ids, InUse, At
<1>3. CASE Install
  <2>1. /\ sync'.pc = "closing" /\ sync'.prior = IF sync.stale THEN 0 ELSE demand[sync.product].id
        /\ demand' = IF sync.stale THEN demand
                     ELSE [demand EXCEPT ![sync.product] = [id |-> sync.id, cover |-> sync.cover]]
        /\ Sends(frames) /\ At("opening")
    BY <1>3, InstallTyped DEF Install
  <2>2. \A f \in frames' : InUse(f.id)'
    BY <2>1, SendsUsed
  <2>3. sync.id # 0 /\ (\A p \in Product : demand[p].id # sync.id) /\ sync.product \in Product
    BY <2>1, SyncFields DEF Ids
  <2>4. CASE sync.stale
    BY <2>1, <2>2, <2>4 DEF Ids, At
  <2>5. CASE ~sync.stale
    <3>1. \A p \in Product : demand'[p].id = IF p = sync.product THEN sync.id ELSE demand[p].id
      BY <2>1, <2>5 DEF Typed, Demands
    <3>2. \A p, q \in Product : p # q => demand'[p].id # demand'[q].id \/ demand'[p].id = 0
      BY <2>3, <3>1 DEF Ids
    <3>3. sync'.prior # 0 => \A p \in Product : demand'[p].id # sync'.prior
      BY <2>1, <2>3, <2>5, <3>1 DEF Ids
    <3>4. QED
      BY <2>1, <2>2, <3>2, <3>3 DEF Ids, At
  <2>6. QED
    BY <2>4, <2>5
<1>4. CASE CloseBroad
  <2>1. /\ sync'.pc = "closing" /\ sync'.prior = demand["broad"].id
        /\ demand' = [demand EXCEPT !["broad"] = NoDemand] /\ Sends(frames)
    BY <1>4, CloseBroadTyped DEF CloseBroad
  <2>2. \A f \in frames' : InUse(f.id)'
    BY <2>1, SendsUsed
  <2>3. "broad" \in Product /\ \A p \in Product : demand'[p].id = IF p = "broad" THEN 0 ELSE demand[p].id
    BY <2>1 DEF Typed, Demands, NoDemand, Product
  <2>4. QED
    BY <2>1, <2>2, <2>3 DEF Ids, At
<1>5. CASE Confirm \/ Leaves
  <2>1. sync'.id = 0 /\ sync'.pc \in {"idle", "plan"} /\ demand' = demand /\ \E fs : Sends(fs)
    BY <1>5, ConfirmTyped, AbandonTyped DEF Leaves, beliefs
  <2>2. \A f \in frames' : InUse(f.id)'
    BY <2>1, SendsUsed
  <2>3. QED
    BY <2>1, <2>2 DEF Ids, At
<1>6. CASE Aside
  <2>1. sync' = sync
    BY <1>6, AsideTyped
  <2>2. CASE ReloadBegins
    <3>1. \A p \in Product : demand'[p].id = IF p = "records" THEN 0 ELSE demand[p].id
      BY <2>2 DEF ReloadBegins, Typed, Demands, NoDemand
    <3>2. \A f \in frames' : InUse(f.id)'
      BY <2>2, SendsUsed DEF ReloadBegins
    <3>3. sync'.pc = sync.pc /\ sync'.id = sync.id /\ sync'.prior = sync.prior
      BY <2>1
    <3>4. QED
      BY <3>1, <3>2, <3>3 DEF Ids, At
  <2>3. CASE ~ReloadBegins
    <3>1. demand' = demand /\ frames' \subseteq frames
      BY <1>6, <2>3 DEF Aside, Change, Discover, StopWaiting, Relay, Deliver, ReloadResets, runtime
    <3>2. QED
      BY <2>1, <3>1 DEF Ids, InUse, At
  <2>4. QED
    BY <2>2, <2>3
<1>7. CASE ReloadInstalls
  <2>1. demand' = [p \in Product |-> NoDemand] /\ frames' = {} /\ sync'.pc = sync.pc /\ sync'.id = sync.id
    BY <1>7, ReloadTyped
  <2>2. \A p \in Product : demand'[p].id = 0
    BY <2>1 DEF NoDemand
  <2>3. QED
    BY <2>1, <2>2 DEF Ids, At
<1>8. QED
  BY <1>1, <1>2, <1>3, <1>4, <1>5, <1>6, <1>7, StepCases

\* A subscription outlives a step that neither withdraws its REQ nor closes it.
LEMMA SendsServes ==
  ASSUME NEW id, NEW fs, Sends(fs), InUse(id)', Subscribed(id),
         Req(id) \in frames => Req(id) \in fs, Close(id) \in fs => Close(id) \in frames
  PROVE  Subscribed(id)'
BY DEF Sends, Subscribed, Req, Close

LEMMA StepWire ==
  ASSUME Typed, Ids, Wire, Next
  PROVE  Wire'
<1> SUFFICES ASSUME NEW id \in Id, Needed(id)'
             PROVE  Subscribed(id)'
  BY DEF Wire
<1>1. id # 0 /\ InUse(id)' /\ (Needed(id) => Subscribed(id))
  BY DEF Needed, InUse, Wire
<1>2. CASE Plan
  <2>1. /\ sync'.pc \in {"idle", "plan"} /\ demand' = demand /\ frames' = frames /\ live' = live
    BY <1>2, PlanTyped DEF Plan, runtime
  <2>2. QED
    BY <1>1, <2>1 DEF Needed, Subscribed, At
<1>3. CASE Open
  <2>1. /\ ~InUse(sync'.id) /\ demand' = demand /\ Sends(frames \union {Req(sync'.id)})
    BY <1>3, OpenTyped DEF Open
  <2>2. CASE id = sync'.id
    <3>1. Req(id) \in frames'
      BY <1>1, <2>1, <2>2 DEF Sends, Req
    <3>2. Close(id) \notin frames
      BY <2>1, <2>2 DEF Ids, Close
    <3>3. QED
      BY <2>1, <2>2, <3>1, <3>2 DEF Sends, Subscribed, Req, Close
  <2>3. CASE id # sync'.id
    <3>1. Subscribed(id)
      BY <1>1, <2>1, <2>3 DEF Needed
    <3>2. Close(id) \in frames \union {Req(sync'.id)} => Close(id) \in frames
      BY DEF Close, Req
    <3>3. QED
      BY <1>1, <2>1, <3>1, <3>2, SendsServes
  <2>4. QED
    BY <2>2, <2>3
<1>4. CASE Install
  <2>1. /\ sync'.pc = "closing" /\ Sends(frames) /\ At("opening")
        /\ demand' = IF sync.stale THEN demand
                     ELSE [demand EXCEPT ![sync.product] = [id |-> sync.id, cover |-> sync.cover]]
    BY <1>4, InstallTyped DEF Install
  <2>2. PICK p \in Product : demand'[p].id = id
    BY <2>1 DEF Needed, At
  <2>3. demand[p].id = id \/ (~sync.stale /\ sync.id = id)
    BY <2>1, <2>2 DEF Typed, Demands
  <2>4. Needed(id)
    BY <1>1, <2>1, <2>3 DEF Needed
  <2>5. QED
    BY <1>1, <2>1, <2>4, SendsServes
<1>5. CASE CloseBroad
  <2>1. sync'.pc = "closing" /\ demand' = [demand EXCEPT !["broad"] = NoDemand] /\ Sends(frames)
    BY <1>5, CloseBroadTyped DEF CloseBroad
  <2>2. PICK p \in Product : demand'[p].id = id
    BY <2>1 DEF Needed, At
  <2>3. demand[p].id = id
    BY <1>1, <2>1, <2>2 DEF Typed, Demands, NoDemand
  <2>4. Needed(id)
    BY <1>1, <2>3 DEF Needed
  <2>5. QED
    BY <1>1, <2>1, <2>4, SendsServes
<1>6. CASE Confirm \/ Leaves
  <2>1. sync'.pc \in {"idle", "plan"} /\ demand' = demand
    BY <1>6, ConfirmTyped, AbandonTyped DEF Leaves, beliefs
  <2>2. PICK p \in Product : demand[p].id = id
    BY <2>1 DEF Needed, At
  <2>3. Subscribed(id)
    BY <1>1, <2>2 DEF Needed
  <2>4. At("closing") => Close(id) \notin Closing
    BY <1>1, <2>2 DEF Closing, Close, Ids
  <2>5. At("opening") => id # sync.id
    BY <2>2 DEF Ids
  <2>6. \E fs : /\ Sends(fs)
                /\ Req(id) \in frames => Req(id) \in fs
                /\ Close(id) \in fs => Close(id) \in frames
    <3>1. CASE Confirm
      BY <2>4, <3>1 DEF Confirm
    <3>2. CASE OpenRefused
      <4>1. Req(id) # Req(sync.id) /\ Close(id) # Close(sync.id) /\ Close(id) # Req(sync.id)
        BY <2>5, <3>2 DEF OpenRefused, Req, Close
      <4>2. \/ Sends(frames \ {Req(sync.id)})
            \/ Sends(IF sync.stale THEN frames ELSE frames \union {Close(sync.id)})
        BY <3>2 DEF OpenRefused
      <4>3. QED
        BY <4>1, <4>2
    <3>3. CASE CloseRefused
      BY <2>4, <3>3 DEF CloseRefused
    <3>4. CASE Cancel
      BY <2>4, <3>4 DEF Cancel
    <3>5. QED
      BY <1>6, <3>1, <3>2, <3>3, <3>4 DEF Leaves
  <2>7. QED
    BY <1>1, <2>3, <2>6, SendsServes
<1>7. CASE Aside
  <2>1. sync' = sync
    BY <1>7, AsideTyped
  <2>2. CASE ReloadBegins
    <3>1. demand' = [demand EXCEPT !["records"] = NoDemand] /\ "records" \in Product
      BY <2>2 DEF ReloadBegins, Product
    <3>2. /\ Needed(id) /\ id # demand["records"].id
      BY <1>1, <2>1, <3>1 DEF Needed, Typed, Demands, NoDemand, Ids, At
    <3>3. Sends(IF demand["records"].id = 0 THEN frames ELSE frames \union {Close(demand["records"].id)})
      BY <2>2 DEF ReloadBegins
    <3>4. Close(id) # Close(demand["records"].id)
      BY <3>2 DEF Close
    <3>5. QED
      BY <1>1, <3>2, <3>3, <3>4, SendsServes
  <2>3. CASE Relay
    <3>1. PICK f \in frames : Deliver(f)
      BY <2>3 DEF Relay
    <3>2. Subscribed(id)
      BY <1>1, <2>1, <3>1 DEF Needed, Deliver, At
    <3>3. f.type \in {"REQ", "CLOSE"} /\ f = [type |-> f.type, id |-> f.id]
      BY DEF Typed, Frames
    <3>4. CASE f = Req(id)
      BY <3>1, <3>2, <3>4 DEF Deliver, Subscribed, Req, Close
    <3>5. CASE f # Req(id)
      <4>1. f.type = "CLOSE" => f.id # id
        BY <3>2, <3>3 DEF Subscribed, Close
      <4>2. frames' = frames \ {f}
            /\ live' = IF f.type = "REQ" THEN live \union {f.id} ELSE live \ {f.id}
        BY <3>1 DEF Deliver
      <4>3. id \in live => id \in live'
        BY <3>3, <4>1, <4>2
      <4>4. Req(id) \in frames => Req(id) \in frames'
        BY <3>5, <4>2
      <4>5. Close(id) \notin frames'
        BY <3>2, <4>2 DEF Subscribed
      <4>6. QED
        BY <3>2, <4>3, <4>4, <4>5 DEF Subscribed, Req, Close
    <3>6. QED
      BY <3>4, <3>5
  <2>4. CASE ~ReloadBegins /\ ~Relay
    <3>1. demand' = demand /\ frames' = frames /\ live' = live
      BY <1>7, <2>4 DEF Aside, Change, Discover, StopWaiting, ReloadResets, runtime
    <3>2. QED
      BY <1>1, <2>1, <3>1 DEF Needed, Subscribed, At
  <2>5. QED
    BY <2>2, <2>3, <2>4
<1>8. CASE ReloadInstalls
  <2>1. demand' = [p \in Product |-> NoDemand] /\ sync'.pc = sync.pc /\ sync'.stale = MidDemand
    BY <1>8, ReloadTyped
  <2>2. ~Needed(id)'
    BY <1>1, <2>1 DEF Needed, NoDemand, At, MidDemand
  <2>3. QED
    BY <2>2
<1>9. QED
  BY <1>2, <1>3, <1>4, <1>5, <1>6, <1>7, <1>8, StepCases

----------------------------------------------------------------------------
(* Beliefs *)

\* Nothing is believed of a product that is under way or whose demand is as before.
LEMMA MatchesKept ==
  ASSUME NEW p \in Product, Matches(p), believed'[p] = believed[p], demand'[p] = demand[p],
         p \in astray => p \in astray'
  PROVE  Matches(p)'
BY DEF Matches, Trusted

\* Outside a demand operation every belief that is not astray is open.
LEMMA Settles ==
  ASSUME sync'.pc \in {"idle", "plan"}, \A p \in Product : Matches(p)'
  PROVE  Trust'
BY DEF Trust, Between, MidDemand, At

LEMMA PlanTrust ==
  ASSUME Typed, Trust, Plan
  PROVE  Trust'
<1>1. sync'.pc \in {"idle", "plan"} /\ UNCHANGED <<believed, demand, astray>> /\ ~MidDemand
  BY PlanTyped DEF Plan, runtime
<1>2. \A p \in Product : Matches(p)'
  BY <1>1, MatchesKept DEF Trust
<1>3. QED
  BY <1>1, <1>2, Settles

LEMMA OpenTrust ==
  ASSUME Typed, Trust, Open
  PROVE  Trust'
<1> DEFINE p == sync.product
<1>1. /\ sync'.pc = "opening" /\ sync'.product = p /\ sync'.cover = sync.cover
      /\ demand' = demand /\ astray' = astray /\ ~MidDemand /\ p \in Product
  BY OpenTyped, SyncFields DEF Open, MidDemand, At
<1>2. /\ \A q \in Product : q # "records" \/ p # "records" => believed'[q] = believed[q]
      /\ p = "records" => believed'[p] = sync.cover
      /\ p = "broad" => desired' = sync.cover
  BY <1>1 DEF Open, RecordedFirst, Desires, Typed, Beliefs
<1>3. \A q \in Product : q # "records" \/ p # "records" => Matches(q)'
  BY <1>1, <1>2, MatchesKept DEF Trust
<1>4. Between'
  BY <1>1, <1>2, <1>3 DEF Between, At, MidDemand
<1>5. QED
  BY <1>1, <1>3, <1>4 DEF Trust, MidDemand, At

LEMMA InstallTrust ==
  ASSUME Typed, Ids, Trust, Install
  PROVE  Trust'
<1> DEFINE p == sync.product
<1>1. /\ sync'.pc = "closing" /\ sync'.id = sync.id /\ sync'.product = p
      /\ sync'.cover = sync.cover /\ sync'.stale = sync.stale
      /\ believed' = believed /\ desired' = desired /\ astray' = astray
      /\ At("opening") /\ p \in Product
      /\ demand' = IF sync.stale THEN demand ELSE [demand EXCEPT ![p] = [id |-> sync.id, cover |-> sync.cover]]
  BY InstallTyped, SyncFields DEF Install, beliefs
<1>2. sync.id # 0
  BY <1>1 DEF Ids
<1>3. ~sync.stale => demand'[p] = [id |-> sync.id, cover |-> sync.cover]
  BY <1>1 DEF Typed, Demands
<1>4. \A q \in Product \ {p} : demand'[q] = demand[q]
  BY <1>1 DEF Typed, Demands
<1>5. \A q \in Product \ {p} : Matches(q)'
  BY <1>1, <1>4, MatchesKept DEF Trust
<1>6. Between'
  <2>1. p = "records" => believed[p] \in {NoCover, sync.cover}
    BY <1>1 DEF Trust, Between
  <2>2. p = "broad" => desired \in {{}, sync.cover}
    BY <1>1 DEF Trust, Between, MidDemand, At
  <2>3. p \in {"profiles", "records", "broad"}
    BY <1>1 DEF Product
  <2> HIDE DEF p
  <2>4. QED
    BY <1>1, <1>2, <1>3, <2>1, <2>2, <2>3 DEF Between, At, MidDemand
<1>7. QED
  BY <1>1, <1>5, <1>6 DEF Trust, MidDemand, At

LEMMA CloseBroadTrust ==
  ASSUME Typed, Trust, CloseBroad
  PROVE  Trust'
<1>1. /\ sync'.pc = "closing" /\ sync'.product = "broad" /\ sync'.cover = {} /\ desired' = {}
      /\ believed' = believed /\ astray' = astray /\ ~MidDemand
      /\ demand' = [demand EXCEPT !["broad"] = NoDemand]
  BY CloseBroadTyped DEF CloseBroad, Desires, MidDemand, At
<1>2. \A q \in Product \ {"broad"} : demand'[q] = demand[q]
  BY <1>1 DEF Typed, Demands
<1>3. \A q \in Product \ {"broad"} : Matches(q)'
  BY <1>1, <1>2, MatchesKept DEF Trust
<1>4. Between'
  BY <1>1 DEF Between, At, MidDemand
<1>5. QED
  BY <1>1, <1>3, <1>4 DEF Trust, MidDemand, At

LEMMA ConfirmTrust ==
  ASSUME Typed, Trust, Confirm
  PROVE  Trust'
<1>p. PICK p \in Product : p = sync.product
  BY SyncFields
<1> DEFINE cover == CASE p = "profiles" -> sync.cover
                      [] p = "records"  -> believed[p]
                      [] OTHER          -> IF sync.cover = {} THEN NoCover ELSE desired
<1>1. /\ sync'.pc \in {"idle", "plan"} /\ demand' = demand /\ At("closing") /\ MidDemand /\ p \in Product
      /\ believed' = [believed EXCEPT ![p] = cover]
      /\ astray' = IF sync.stale /\ Trusted(p, cover) THEN astray \union {p}
                   ELSE IF sync.stale THEN astray ELSE astray \ {p}
  BY <1>p, ConfirmTyped DEF Confirm, MidDemand, At
<1>2. \A q \in Product : believed'[q] = IF q = p THEN cover ELSE believed[q]
  BY <1>1 DEF Typed, Beliefs
<1>3. ASSUME ~sync.stale, Trusted(p, cover)
      PROVE  demand[p].id # 0 /\ demand[p].cover = cover
  <2>1. sync.id # 0 \/ (p = "broad" /\ sync.cover = {})
    BY <1>p, <1>1 DEF Trust, Between
  <2>2. CASE p = "profiles"
    <3>1. demand[p] = [id |-> sync.id, cover |-> sync.cover]
      BY <1>p, <1>1, <1>3, <2>2 DEF Trust, Between
    <3>2. QED
      BY <2>1, <2>2, <3>1
  <2>3. CASE p = "records"
    <3>1. \/ believed[p] = NoCover
          \/ believed[p] = sync.cover /\ demand[p] = [id |-> sync.id, cover |-> sync.cover]
      BY <1>p, <1>1, <1>3, <2>3 DEF Trust, Between
    <3>2. cover = believed[p]
      BY <2>3
    <3>3. QED
      BY <1>3, <2>1, <2>3, <3>1, <3>2 DEF Trusted
  <2>4. CASE p = "broad"
    <3>1. cover = IF sync.cover = {} THEN NoCover ELSE desired
      BY <2>4
    <3>2. sync.cover # {} /\ cover = desired /\ cover # {}
      BY <1>3, <2>4, <3>1 DEF Trusted
    <3>3. desired = sync.cover
      BY <1>p, <1>1, <2>4, <3>2 DEF Trust, Between
    <3>4. demand[p] = [id |-> sync.id, cover |-> sync.cover]
      BY <1>p, <1>1, <1>3, <2>4, <3>2 DEF Trust, Between
    <3>5. QED
      BY <2>1, <3>2, <3>3, <3>4
  <2>5. QED
    BY <1>1, <2>2, <2>3, <2>4 DEF Product
<1> HIDE DEF cover
<1>4. Matches(p)'
  BY <1>1, <1>2, <1>3 DEF Matches, Trusted
<1>5. \A q \in Product \ {p} : Matches(q)'
  BY <1>p, <1>1, <1>2, MatchesKept DEF Trust
<1>6. QED
  BY <1>1, <1>4, <1>5, Settles

LEMMA LeavesTrust ==
  ASSUME Typed, Trust, Leaves
  PROVE  Trust'
<1>p. PICK p \in Product : p = sync.product
  BY SyncFields
<1>1. sync'.pc = "idle" /\ believed' = believed /\ demand' = demand /\ MidDemand
  BY AbandonTyped DEF Leaves, beliefs, MidDemand, OpenRefused, CloseRefused, Cancel, At
<1>2. CASE Strays(p)
  <2>1. Matches(p)'
    BY <1>1, <1>2 DEF Strays, Matches, Trusted
  <2>2. \A q \in Product \ {p} : Matches(q)'
    BY <1>p, <1>1, <1>2, MatchesKept DEF Strays, Trust
  <2>3. QED
    BY <1>1, <2>1, <2>2, Settles
<1>3. CASE astray' = astray /\ At("opening") /\ p # "records"
  <2>1. \A q \in Product : Matches(q)
    BY <1>p, <1>3 DEF Trust, Between
  <2>2. \A q \in Product : Matches(q)'
    BY <1>1, <1>3, <2>1, MatchesKept
  <2>3. QED
    BY <1>1, <2>2, Settles
<1>4. Strays(p) \/ (astray' = astray /\ At("opening") /\ p # "records")
  <2>1. CASE OpenRefused
    BY <1>p, <2>1 DEF OpenRefused
  <2>2. CASE CloseRefused
    <3>1. p = "broad"
      BY <1>p, <2>2 DEF CloseRefused, Trust, Between
    <3>2. QED
      BY <2>2, <3>1 DEF CloseRefused
  <2>3. CASE Cancel
    BY <1>p, <2>3 DEF Cancel, MidDemand, At
  <2>4. QED
    BY <2>1, <2>2, <2>3 DEF Leaves
<1>5. QED
  BY <1>2, <1>3, <1>4

\* A reload takes beliefs back, and never makes one.
LEMMA AsideTrust ==
  ASSUME Typed, Trust, Aside
  PROVE  Trust'
<1>1. sync' = sync /\ MidDemand' = MidDemand
  BY AsideTyped DEF MidDemand
<1>2. /\ \A q \in Product : /\ believed'[q] \in {believed[q], NoCover}
                            /\ believed'[q] = NoCover \/ (demand'[q] = demand[q] /\ (q \in astray => q \in astray'))
                            /\ demand'[q] = demand[q] \/ q = "records"
      /\ believed'["records"] = NoCover \/ demand' = demand
      /\ desired' \in {{}, desired}
  <2>1. CASE ReloadBegins
    BY <2>1 DEF ReloadBegins, Typed, Beliefs, Demands, Product
  <2>2. CASE ReloadResets
    BY <2>2 DEF ReloadResets, Typed, Beliefs, Product, runtime
  <2>3. CASE ~ReloadBegins /\ ~ReloadResets
    <3>1. UNCHANGED <<believed, desired, demand, astray>>
      BY <2>3 DEF Aside, Change, Discover, StopWaiting, Relay, Deliver, beliefs, runtime
    <3>2. QED
      BY <3>1
  <2>4. QED
    BY <2>1, <2>2, <2>3
<1>3. \A q \in Product : Matches(q) => Matches(q)'
  <2> SUFFICES ASSUME NEW q \in Product, Matches(q)
               PROVE  Matches(q)'
    OBVIOUS
  <2>1. CASE believed'[q] = NoCover
    BY <2>1 DEF Matches, Trusted
  <2>2. CASE believed'[q] # NoCover
    BY <1>2, <2>2, MatchesKept
  <2>3. QED
    BY <2>1, <2>2
<1>p. PICK p \in Product : p = sync.product
  BY SyncFields
<1>4. Between'
  <2>1. At("opening") => IF p = "records" THEN believed'[p] \in {NoCover, sync.cover} ELSE Matches(p)'
    BY <1>p, <1>2, <1>3 DEF Trust, Between
  <2>2. ASSUME At("closing"), ~sync.stale
        PROVE  CASE p = "records"  -> \/ believed'[p] = NoCover
                                      \/ /\ believed'[p] = sync.cover
                                         /\ demand'[p] = [id |-> sync.id, cover |-> sync.cover]
                 [] p = "profiles" -> demand'[p] = [id |-> sync.id, cover |-> sync.cover]
                 [] OTHER          -> sync.cover # {} => demand'[p] = [id |-> sync.id, cover |-> sync.cover]
    <3>1. CASE p = "records"
      BY <1>p, <1>2, <2>2, <3>1 DEF Trust, Between
    <3>2. CASE p = "profiles"
      BY <1>p, <1>2, <2>2, <3>2 DEF Trust, Between
    <3>3. CASE p = "broad"
      BY <1>p, <1>2, <2>2, <3>3 DEF Trust, Between
    <3>4. QED
      BY <3>1, <3>2, <3>3 DEF Product
  <2>3. /\ At("closing") => sync.id # 0 \/ (p = "broad" /\ sync.cover = {})
        /\ MidDemand /\ p = "broad" => desired' \in {{}, sync.cover}
    BY <1>p, <1>2 DEF Trust, Between
  <2>4. sync'.product = p /\ At("opening")' = At("opening") /\ At("closing")' = At("closing")
    BY <1>p, <1>1 DEF At
  <2>5. QED
    BY <1>1, <2>1, <2>2, <2>3, <2>4 DEF Between
<1>5. QED
  BY <1>1, <1>3, <1>4 DEF Trust

\* What was recorded before the new runtime is in place counts as astray.
LEMMA ReloadTrust ==
  ASSUME Typed, Trust, ReloadInstalls
  PROVE  Trust'
<1>p. PICK p \in Product : p = sync.product
  BY SyncFields
<1>1. /\ sync'.pc = sync.pc /\ sync'.id = sync.id /\ sync'.product = p
      /\ sync'.cover = sync.cover /\ sync'.stale = MidDemand
      /\ believed' = believed /\ desired' = desired
      /\ astray' = {q \in Product : Trusted(q, believed[q])}
  BY <1>p, ReloadTyped DEF ReloadInstalls
<1>2. \A q \in Product : Matches(q)'
  BY <1>1 DEF Matches, Trusted
<1>3. /\ At("opening") /\ p = "records" => believed[p] \in {NoCover, sync.cover}
      /\ At("closing") => sync.id # 0 \/ (p = "broad" /\ sync.cover = {})
      /\ MidDemand /\ p = "broad" => desired \in {{}, sync.cover}
  BY <1>p DEF Trust, Between
<1>4. Between'
  BY <1>1, <1>2, <1>3 DEF Between, At, MidDemand
<1>5. QED
  BY <1>2, <1>4 DEF Trust

----------------------------------------------------------------------------
(* The theorems *)

LEMMA InitHolds == Init => IInv
<1> SUFFICES ASSUME Init
             PROVE  IInv
  OBVIOUS
<1>1. /\ sync = IdleSync /\ demand = [p \in Product |-> NoDemand] /\ frames = {} /\ live = {}
      /\ believed = [p \in Product |-> NoCover] /\ desired = {} /\ wanted \in Cover /\ waiting = 1
  BY DEF Init
<1>2. Typed
  BY <1>1, Idles DEF Typed, Demands, Beliefs, NoDemand, Id, Cover, MidDemand
<1>3. Ids
  BY <1>1, Idles DEF Ids, NoDemand, At
<1>4. Wire
  BY <1>1, Idles DEF Wire, Needed, NoDemand, At
<1>5. Trust
  BY <1>1, Idles DEF Trust, Between, Matches, Trusted, At, MidDemand
<1>6. QED
  BY <1>2, <1>3, <1>4, <1>5 DEF IInv

LEMMA StepKeeps == IInv /\ [Next]_vars => IInv'
<1> SUFFICES ASSUME IInv, [Next]_vars
             PROVE  IInv'
  OBVIOUS
<1>1. Typed /\ Ids /\ Wire /\ Trust
  BY DEF IInv
<1>2. CASE Next
  <2>1. Typed' /\ Ids' /\ Wire'
    BY <1>1, <1>2, StepTyped, StepIds, StepWire
  <2>2. Trust'
    BY <1>1, <1>2, StepCases, PlanTrust, OpenTrust, InstallTrust, CloseBroadTrust, ConfirmTrust,
       LeavesTrust, AsideTrust, ReloadTrust
  <2>3. QED
    BY <2>1, <2>2 DEF IInv
<1>3. CASE UNCHANGED vars
  <2>1. Typed' /\ Ids'
    BY <1>1, <1>3 DEF vars, Typed, Ids, InUse, At, MidDemand
  <2>2. Wire'
    BY <1>1, <1>3 DEF vars, Wire, Needed, Subscribed, At
  <2>3. Trust'
    BY <1>1, <1>3 DEF vars, Trust, Between, Matches, At, MidDemand
  <2>4. QED
    BY <2>1, <2>2, <2>3 DEF IInv
<1>4. QED
  BY <1>2, <1>3

\* What the demands, the frames and the beliefs are in every state of the daemon.
THEOREM InductiveInvariant == FairSpec => []IInv
BY InitHolds, StepKeeps, PTL DEF FairSpec

\* While a product demand is open, its subscription is at the relay or its REQ is
\* on the way, and no CLOSE is on the way to it, for every set of channels and
\* whatever was refused, cancelled or reloaded (nostr_runtime/demands.rs,
\* replace_demand and close_demand; daemon-design.md:81-87).
THEOREM DemandsAreServed == FairSpec => []DemandIsServed
<1>1. IInv => DemandIsServed
  <2> SUFFICES ASSUME IInv, NEW p \in Product, demand[p].id # 0
               PROVE  Subscribed(demand[p].id)
    BY DEF DemandIsServed, Subscribed
  <2>1. demand[p].id \in Id /\ Wire
    BY SyncFields DEF IInv
  <2>2. QED
    BY <2>1 DEF Wire, Needed
<1>2. QED
  BY <1>1, InductiveInvariant, PTL

\* What the daemon believes covered is open at the current runtime, except for
\* the products in astray, for every set of channels and every history of
\* failures (SubscriptionReconciler::confirm, replace_profile_demand,
\* group_records::sync).
THEOREM BeliefsAreOpen == FairSpec => []BelievedIsOpen
<1>1. IInv => BelievedIsOpen
  BY DEF IInv, Trust, Matches, BelievedIsOpen
<1>2. QED
  BY <1>1, InductiveInvariant, PTL
=============================================================================
