--------------------------- MODULE MCEventClaims ---------------------------
(* Small instances of EventClaims for TLC. *)
EXTENDS EventClaims, TLC

CONSTANT e1

\* One orchestration with two targets.
OneOrchestration == [e \in {e1} |-> "orchestration"]
TwoTargets == [e \in {e1} |-> 2]

RunSymmetry == Permutations(Run)
=============================================================================
