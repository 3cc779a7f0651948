---------------------------- MODULE StatusPolicy ----------------------------
(* What one call of the StatusReconciler does to a session's lease of the    *)
(* public presence, and what it asks to have published.  It projects the     *)
(* lifecycle of a runtime generation and owns no truth itself: a call of     *)
(* another generation than the lease's does nothing.                         *)
EXTENDS Naturals

CONSTANTS
  Channel,
  NoLease,   \* the policy has no lease for the session
  NoEffect   \* nothing to publish

\* What a reading of the store yields, and what is published of it.
Projection == [channels : SUBSET Channel, state : {"idle", "working"}]
Status == [channels : SUBSET Channel, state : {"idle", "working", "offline"}]

\* renewed: a renewal of this period was made.
Lease == [gen : Nat, channels : SUBSET Channel, state : {"idle", "working"},
          live : BOOLEAN, renewed : BOOLEAN]

\* member: only a member may publish it.
Effect == [status : Status, member : BOOLEAN]

ASSUME PolicyAssumption == NoLease \notin Lease /\ NoEffect \notin Effect

Shown(lease) == [channels |-> lease.channels, state |-> IF lease.live THEN lease.state ELSE "offline"]

Silent(lease) == [lease |-> lease, effect |-> NoEffect]
Says(lease) ==
  IF lease.channels = {} THEN Silent(lease)
  ELSE [lease |-> lease, effect |-> [status |-> Shown(lease), member |-> TRUE]]
Withdraws(lease, prior) ==
  IF prior.channels = {} THEN Silent(lease)
  ELSE [lease  |-> lease,
        effect |-> [status |-> [channels |-> prior.channels, state |-> "offline"], member |-> FALSE]]

Owned(lease, gen) == lease # NoLease /\ lease.gen = gen

Projects(lease, projection) ==
  [lease EXCEPT !.channels = projection.channels, !.state = projection.state, !.live = TRUE]

\* A newer generation replaces the lease of an older one.
Opened(lease, gen, projection) ==
  IF lease # NoLease /\ lease.gen >= gen THEN Silent(lease)
  ELSE Says([gen |-> gen, channels |-> projection.channels, state |-> projection.state,
             live |-> TRUE, renewed |-> TRUE])

\* A new projection.  Without channels the former status is withdrawn;
\* otherwise a change is published, and after an admission (always) also what
\* did not change.
Projected(lease, gen, projection, always) ==
  LET new == Projects(lease, projection)
  IN IF ~Owned(lease, gen) THEN Silent(lease)
     ELSE IF new.channels = {} THEN Withdraws(new, lease)
     ELSE IF always \/ Shown(new) # Shown(lease) THEN Says(new)
     ELSE Silent(new)

Reconciled(lease, gen, projection) == Projected(lease, gen, projection, FALSE)
Reasserted(lease, gen, projection) == Projected(lease, gen, projection, TRUE)

\* Mutant: the period of the last renewal is never left.
RenewedOnce(lease, gen) == Silent(lease)

\* Once per period, and never other content.
Renewed(lease, gen) ==
  IF ~Owned(lease, gen) \/ lease.renewed THEN Silent(lease)
  ELSE Says([lease EXCEPT !.renewed = TRUE])

Closed(lease, gen) ==
  IF ~Owned(lease, gen) \/ ~lease.live THEN Silent(lease)
  ELSE Says([lease EXCEPT !.live = FALSE])

Revoked(lease, gen) ==
  IF ~Owned(lease, gen) THEN Silent(lease) ELSE Withdraws(NoLease, lease)
=============================================================================
