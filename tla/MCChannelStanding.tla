------------------------- MODULE MCChannelStanding -------------------------
(* Small instances of ChannelStanding for TLC.  A behaviour draws one budget. *)
EXTENDS ChannelStanding

Quiet == [launches |-> 1, joins |-> 0, leaves |-> 0, forgets |-> 0, faults |-> 0, crashes |-> 0]

\* Which requests race: a runtime replaced while it is admitted, a join or a
\* relaunch against a leave, a forget against what is already on its way; each
\* with a fault or a crash where that opens a new branch.
RaceSlices ==
  { [Quiet EXCEPT !.launches = 2, !.joins = 1, !.faults = 1],
    [Quiet EXCEPT !.launches = 2, !.leaves = 1, !.faults = 1],
    [Quiet EXCEPT !.launches = 2, !.joins = 1, !.leaves = 1],
    [Quiet EXCEPT !.joins = 1, !.leaves = 1, !.crashes = 1],
    [Quiet EXCEPT !.leaves = 1, !.forgets = 1, !.faults = 1],
    [Quiet EXCEPT !.joins = 1, !.forgets = 1, !.crashes = 1] }

RejoinSlice == {[Quiet EXCEPT !.joins = 1, !.leaves = 1]}
=============================================================================
