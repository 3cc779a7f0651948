-------------------------- MODULE SubscriptionSync --------------------------
(***************************************************************************)
(* The daemon's relay subscriptions: what it wants to hear (the coverage    *)
(* snapshot), what it believes it has asked for (profile_authors, the       *)
(* group-records coverage, the reconciler's applied set), the demands of    *)
(* the Nostr runtime and the subscriptions the relay holds for them.        *)
(*                                                                         *)
(* One sync runs at a time (subscriptions.sync).  It takes the three        *)
(* product demands in a fixed order and awaits the relay client inside      *)
(* each; a sync that fails is logged and not repeated.  A caller with a     *)
(* deadline (channel wait) drops its sync at any await.  A configuration    *)
(* reload replaces the runtime and resets the beliefs without that lock.    *)
(*                                                                         *)
(* A cover is a set of channels: it stands for the member authors of the    *)
(* profile demand, the group scope of the records and the #h of the broad   *)
(* demand, which are all functions of the snapshot.                         *)
(***************************************************************************)
EXTENDS Naturals, FiniteSets

CONSTANTS
  Channel,
  NoCover,   \* no coverage is on record for a product
  Budgets    \* bounds: what may happen in a behaviour, one of these

Budget == [changes : Nat, discoveries : Nat, refusals : Nat, cancels : Nat, reloads : Nat]

ASSUME CoverAssumption == \A cover \in SUBSET Channel : cover # NoCover
ASSUME BudgetAssumption == Budgets \subseteq Budget

Cover == SUBSET Channel
Product == {"profiles", "records", "broad"}
Following == [profiles |-> "records", records |-> "broad"]

VARIABLES
  wanted,    \* what a coverage snapshot would yield now
  waiting,   \* calls of sync_subscriptions that wait for the lock
  sync,      \* the one that holds it
  believed,  \* [Product -> Cover or NoCover]: authors, coverage, applied_h_groups
  desired,   \* the reconciler's desired_h_groups
  drain,     \* the group-records task follows the current view
  demand,    \* [Product -> Demand]: the current runtime's demands
  frames,    \* REQ and CLOSE frames on their way to its relay
  live,      \* ids of the subscriptions its relay holds
  reload,    \* phase of the configuration reload
  failed,    \* no sync has completed with what is wanted since one failed (history)
  astray,    \* products whose belief is wrong in a known way (history)
  budget     \* what may still happen

vars == <<wanted, waiting, sync, believed, desired, drain, demand, frames, live,
          reload, failed, astray, budget>>
calls == <<wanted, waiting>>
runtime == <<demand, frames, live>>
beliefs == <<believed, desired, drain>>

\* id 0: the product has no demand.
NoDemand == [id |-> 0, cover |-> {}]

\* stale: the demand operation under way works on a runtime that was replaced.
IdleSync == [pc |-> "idle", product |-> "profiles", cover |-> {}, id |-> 0, prior |-> 0, stale |-> FALSE]

Req(id) == [type |-> "REQ", id |-> id]
Close(id) == [type |-> "CLOSE", id |-> id]

Spend(counter) == budget[counter] > 0 /\ budget' = [budget EXCEPT ![counter] = budget[counter] - 1]

At(pc) == sync.pc = pc
MidDemand == sync.pc \in {"opening", "closing"}

\* Frames and subscriptions of an id no demand uses any more change nothing and
\* are not kept.
InUse(id) == id = sync.id \/ \E p \in Product : demand[p].id = id
Sends(fs) == frames' = {f \in fs : InUse(f.id)'} /\ live' = {id \in live : InUse(id)'}

\* The daemon starts with nothing open and one sync on its way.
Init ==
  /\ wanted \in Cover /\ waiting = 1 /\ sync = IdleSync
  /\ believed = [p \in Product |-> NoCover] /\ desired = {} /\ drain = FALSE
  /\ demand = [p \in Product |-> NoDemand] /\ frames = {} /\ live = {}
  /\ reload = "idle" /\ failed = FALSE /\ astray = {} /\ budget \in Budgets

----------------------------------------------------------------------------
(* What is wanted *)

\* A join, leave, session start or end, or a wait on a channel: the store or the
\* explicit roots change, and the caller syncs.
Change ==
  /\ Spend("changes") /\ wanted' \in Cover /\ waiting' = waiting + 1
  /\ UNCHANGED <<sync, beliefs, runtime, reload, failed, astray>>

\* Group records from the relay change the view; the drain task syncs, if there
\* is one.
Discover ==
  /\ demand["records"].id \in live /\ Spend("discoveries")
  /\ wanted' \in Cover \ {wanted}
  /\ IF drain THEN waiting' = waiting + 1 /\ UNCHANGED failed
     ELSE UNCHANGED waiting /\ failed' = TRUE
  /\ UNCHANGED <<sync, beliefs, runtime, reload, astray>>

\* A caller gives up before it has the lock.
StopWaiting ==
  /\ waiting > 0 /\ waiting' = waiting - 1 /\ Spend("cancels") /\ failed' = TRUE
  /\ UNCHANGED <<wanted, sync, beliefs, runtime, reload, astray>>

----------------------------------------------------------------------------
(* One sync *)

TakeSnapshot ==
  /\ At("idle") /\ waiting > 0 /\ waiting' = waiting - 1
  /\ sync' = [IdleSync EXCEPT !.pc = "plan", !.cover = wanted]
  /\ UNCHANGED <<wanted, beliefs, runtime, reload, failed, astray, budget>>

\* Mutant: what the reconciler last desired is taken for applied.
NeedsUndesired(p, cover) ==
  IF p = "broad" THEN desired # cover ELSE believed[p] # cover

\* The broad demand is closed when nothing is left to cover; the others always
\* name the backend itself.
Needs(p, cover) ==
  believed[p] # cover /\ ~(p = "broad" /\ cover = {} /\ believed[p] = NoCover)

\* On to the next product; after the last one the lock is free.
Proceed ==
  IF sync.product = "broad"
    THEN sync' = IdleSync /\ failed' = (failed /\ sync.cover # wanted)
    ELSE /\ sync' = [IdleSync EXCEPT !.pc = "plan", !.cover = sync.cover,
                                     !.product = Following[sync.product]]
         /\ UNCHANGED failed

Desires == desired' = IF sync.product = "broad" THEN sync.cover ELSE desired

Skip ==
  /\ At("plan") /\ ~Needs(sync.product, sync.cover) /\ Desires /\ Proceed
  /\ UNCHANGED <<calls, believed, drain, runtime, reload, astray, budget>>

\* Mutant: every product is recorded as covered before its demand is open.
RecordedEarly(p) == TRUE

\* group_records::sync records its coverage, and stops its task, first.
RecordedFirst(p) == p = "records"

\* Mutant: every REQ of a product reuses one id.
ReusedId(p) == CASE p = "profiles" -> 1 [] p = "records" -> 2 [] OTHER -> 3

\* A sequence number in the code; here the number of a subscription forgotten.
FreshId(p) == CHOOSE id \in 1..Cardinality(Product) + 1 : ~InUse(id)

\* replace_demand sends the REQ under a fresh id.
Open ==
  LET p == sync.product
      id == FreshId(p)
  IN /\ At("plan") /\ Needs(p, sync.cover) /\ ~(p = "broad" /\ sync.cover = {})
     /\ believed' = IF RecordedFirst(p) THEN [believed EXCEPT ![p] = sync.cover] ELSE believed
     /\ drain' = (drain /\ p # "records") /\ Desires
     /\ sync' = [sync EXCEPT !.pc = "opening", !.id = id]
     /\ UNCHANGED <<calls, demand, reload, failed, astray, budget>>
     /\ Sends(frames \union {Req(id)})

\* The relay client took the REQ: the demand is the new one, and the
\* subscription it replaces is to be closed.
Install ==
  LET p == sync.product
  IN /\ At("opening")
     /\ demand' = IF sync.stale THEN demand
                  ELSE [demand EXCEPT ![p] = [id |-> sync.id, cover |-> sync.cover]]
     /\ sync' = [sync EXCEPT !.pc = "closing", !.prior = IF sync.stale THEN 0 ELSE demand[p].id]
     /\ UNCHANGED <<calls, beliefs, reload, failed, astray, budget>>
     /\ Sends(frames)

\* Nothing left to cover: the demand goes before the relay is told.
CloseBroad ==
  /\ At("plan") /\ sync.product = "broad" /\ sync.cover = {} /\ Needs("broad", {}) /\ Desires
  /\ demand' = [demand EXCEPT !["broad"] = NoDemand]
  /\ sync' = [sync EXCEPT !.pc = "closing", !.prior = demand["broad"].id]
  /\ UNCHANGED <<calls, believed, drain, reload, failed, astray, budget>>
  /\ Sends(frames)

Closing == IF sync.prior = 0 \/ sync.stale THEN {} ELSE {Close(sync.prior)}

Trusted(p, cover) == cover # NoCover /\ ~(p = "broad" /\ cover = {})

\* The prior subscription is closed (when a replaced one is not, that is only
\* logged) and the belief recorded; the records' task starts, and syncs at once.
Confirm ==
  LET p == sync.product
      cover == CASE p = "profiles" -> sync.cover
                 [] p = "records"  -> believed[p]
                 [] OTHER          -> IF sync.cover = {} THEN NoCover ELSE desired
  IN /\ At("closing")
     /\ believed' = [believed EXCEPT ![p] = cover]
     /\ IF p = "records" THEN drain' = TRUE /\ waiting' = waiting + 1 ELSE UNCHANGED <<drain, waiting>>
     /\ astray' = IF sync.stale /\ Trusted(p, cover) THEN astray \union {p}
                  ELSE IF sync.stale THEN astray ELSE astray \ {p}
     /\ Proceed
     /\ UNCHANGED <<wanted, desired, demand, reload>>
     /\ \/ Sends(frames \union Closing) /\ UNCHANGED budget
        \/ sync.id # 0 /\ Closing # {} /\ Spend("refusals") /\ Sends(frames)

----------------------------------------------------------------------------
(* A sync that does not complete *)

Abandon == sync' = IdleSync /\ failed' = TRUE
Strays(p) == astray' = IF believed[p] = NoCover THEN astray ELSE astray \union {p}

\* The REQ was not sent, or not taken and is withdrawn: the prior demand stays.
OpenRefused ==
  /\ At("opening") /\ Spend("refusals") /\ Abandon
  /\ IF sync.product = "records" THEN Strays("records") ELSE UNCHANGED astray
  /\ UNCHANGED <<calls, beliefs, demand, reload>>
  /\ \/ Sends(frames \ {Req(sync.id)})
     \/ Sends(IF sync.stale THEN frames ELSE frames \union {Close(sync.id)})

\* The demand is gone whether or not the relay heard of it.
CloseRefused ==
  /\ At("closing") /\ sync.id = 0 /\ Spend("refusals") /\ Abandon /\ Strays("broad")
  /\ UNCHANGED <<calls, beliefs, demand, reload>>
  /\ \E heard \in BOOLEAN : Sends(IF heard THEN frames \union Closing ELSE frames)

\* The deadline of the caller passes while it awaits the relay client.
Cancel ==
  /\ MidDemand /\ Spend("cancels") /\ Abandon
  /\ IF At("closing") \/ sync.product = "records" THEN Strays(sync.product) ELSE UNCHANGED astray
  /\ UNCHANGED <<calls, beliefs, demand, reload>>
  /\ \E heard \in BOOLEAN : Sends(IF heard /\ At("closing") THEN frames \union Closing ELSE frames)

----------------------------------------------------------------------------
(* The relay and the reload *)

\* The relay may apply the frames of one connection in any order.
Deliver(f) ==
  /\ f \in frames /\ frames' = frames \ {f}
  /\ live' = IF f.type = "REQ" THEN live \union {f.id} ELSE live \ {f.id}
  /\ UNCHANGED <<calls, sync, beliefs, demand, reload, failed, astray, budget>>

\* group_records::shutdown, up to its await.
ReloadBegins ==
  LET d == demand["records"]
  IN /\ reload = "idle" /\ Spend("reloads") /\ reload' = "withdrawing"
     /\ believed' = [believed EXCEPT !["records"] = NoCover] /\ drain' = FALSE
     /\ demand' = [demand EXCEPT !["records"] = NoDemand]
     /\ astray' = astray \ {"records"}
     /\ UNCHANGED <<calls, sync, desired, failed>>
     /\ Sends(IF d.id = 0 THEN frames ELSE frames \union {Close(d.id)})

ReloadResets ==
  /\ reload = "withdrawing" /\ reload' = "reset"
  /\ believed' = [believed EXCEPT !["broad"] = NoCover, !["profiles"] = NoCover] /\ desired' = {}
  /\ astray' = astray \ {"broad", "profiles"}
  /\ UNCHANGED <<calls, sync, drain, runtime, failed, budget>>

\* The new runtime has no demands; what a sync recorded since the resets was
\* opened on the old one, which is shut down.  The reload then syncs.
ReloadInstalls ==
  /\ reload = "reset" /\ reload' = "idle" /\ waiting' = waiting + 1
  /\ demand' = [p \in Product |-> NoDemand] /\ frames' = {} /\ live' = {} /\ drain' = FALSE
  /\ sync' = [sync EXCEPT !.stale = MidDemand]
  /\ astray' = {p \in Product : Trusted(p, believed[p])}
  /\ UNCHANGED <<wanted, believed, desired, failed, budget>>

SyncStep == TakeSnapshot \/ Skip \/ Open \/ Install \/ CloseBroad \/ Confirm
Relay == \E f \in frames : Deliver(f)
Reload == ReloadResets \/ ReloadInstalls

Next ==
  \/ SyncStep \/ Relay \/ Reload \/ ReloadBegins
  \/ Change \/ Discover \/ StopWaiting
  \/ OpenRefused \/ CloseRefused \/ Cancel

\* The daemon's tasks run on, the client and the relay answer.
Fairness == WF_vars(SyncStep) /\ WF_vars(Relay) /\ WF_vars(Reload)

FairSpec == Init /\ [][Next]_vars /\ Fairness

----------------------------------------------------------------------------
(* Properties *)

\* What the daemon believes covered is what the current runtime has open, so
\* that a sync that finds nothing changed may do nothing: a refused REQ leaves
\* both as they were, and a confirmation is never ahead of its demand
\* (SubscriptionReconciler::confirm, replace_profile_demand).  The ways out are
\* in astray: group records recorded before they are opened, a refused CLOSE of
\* the broad demand, a sync dropped by its deadline, a sync across a reload.
BelievedIsOpen ==
  \A p \in Product \ astray :
    Trusted(p, believed[p]) /\ ~(MidDemand /\ sync.product = p)
      => demand[p].id # 0 /\ demand[p].cover = believed[p]

\* A demand's subscription is at the relay or on its way there, and no CLOSE can
\* reach it, in whatever order the relay applies the frames of a replacement, a
\* refusal and a reload (daemon-design.md:81-87, replace_demand).
DemandIsServed ==
  \A p \in Product :
    LET id == demand[p].id
    IN id # 0 => (id \in live \/ Req(id) \in frames) /\ Close(id) \notin frames

\* A wanted channel is subscribed at the current relay sooner or later, across
\* changes and reloads; after a failed or cancelled sync, as soon as a later one
\* completes with it (sync_subscriptions).
Served(c) == demand["broad"].id \in live /\ c \in demand["broad"].cover
WantedIsServed ==
  \A c \in Channel : c \in wanted ~> (Served(c) \/ c \notin wanted \/ failed \/ "broad" \in astray)
=============================================================================
