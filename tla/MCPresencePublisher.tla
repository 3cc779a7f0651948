------------------------ MODULE MCPresencePublisher ------------------------
(* Small instances of PresencePublisher for TLC.  A behaviour draws one budget. *)
EXTENDS PresencePublisher

Calmest == [turns |-> 0, joins |-> 0, leaves |-> 0, stops |-> 0, launches |-> 0,
            evictions |-> 0, forgets |-> 0, faults |-> 0, crashes |-> 0, others |-> 0]

PresenceSlices ==
  { [Calmest EXCEPT !.turns = 2, !.others = 1],
    [Calmest EXCEPT !.turns = 1, !.faults = 2],
    [Calmest EXCEPT !.turns = 1, !.leaves = 1],
    [Calmest EXCEPT !.leaves = 1, !.joins = 1],
    [Calmest EXCEPT !.leaves = 1, !.faults = 1],
    [Calmest EXCEPT !.turns = 1, !.stops = 1],
    [Calmest EXCEPT !.stops = 1, !.launches = 1],
    [Calmest EXCEPT !.stops = 1, !.forgets = 1],
    [Calmest EXCEPT !.turns = 1, !.crashes = 1],
    [Calmest EXCEPT !.crashes = 1, !.faults = 1],
    [Calmest EXCEPT !.stops = 1, !.crashes = 1],
    [Calmest EXCEPT !.evictions = 1, !.joins = 1] }

EvictionSlice == {[Calmest EXCEPT !.evictions = 1, !.turns = 1]}
=============================================================================
