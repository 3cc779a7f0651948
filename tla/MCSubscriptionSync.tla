------------------------- MODULE MCSubscriptionSync -------------------------
(* Small instances of SubscriptionSync for TLC.  A behaviour draws one budget. *)
EXTENDS SubscriptionSync

Quiet == [changes |-> 1, discoveries |-> 0, refusals |-> 0, cancels |-> 0, reloads |-> 0]

\* A refusal or a deadline between changes; a discovery the records' task is there
\* for or not; a reload across the syncs of a change.
SyncSlices ==
  { [Quiet EXCEPT !.changes = 2, !.refusals = 1],
    [Quiet EXCEPT !.changes = 2, !.cancels = 1],
    [Quiet EXCEPT !.discoveries = 1, !.cancels = 1],
    [Quiet EXCEPT !.reloads = 1, !.refusals = 1],
    [Quiet EXCEPT !.reloads = 1, !.cancels = 1] }
=============================================================================
