------------------------ MODULE MCClaimRetryDriver ------------------------
(* Small instances of ClaimRetryDriver for TLC. *)
EXTENDS ClaimRetryDriver, TLC

CONSTANTS ask, mention, command

\* An orchestration, an offline mention and a management command.
Kinds3 == ask :> "orchestration" @@ mention :> "offline-mention" @@ command :> "management"
OneTarget == [e \in Event |-> 1]

Slice(events, views, late, faults, crashes, reloads) ==
  [events |-> events, views |-> views, late |-> late, faults |-> faults,
   crashes |-> crashes, reloads |-> reloads]

Slices == {Slice({ask}, 2, 0, 0, 0, 1),
           Slice({ask}, 1, 1, 0, 0, 0),
           Slice({ask}, 1, 0, 2, 1, 0),
           Slice({mention}, 1, 0, 2, 1, 0),
           Slice({ask, mention}, 1, 0, 0, 0, 0),
           Slice({command, mention}, 1, 0, 0, 1, 0)}
=============================================================================
