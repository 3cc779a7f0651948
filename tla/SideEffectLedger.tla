-------------------------- MODULE SideEffectLedger --------------------------
(* What the replay guards promise for each side effect a relay event asks   *)
(* for, whatever the relay replays, the daemon forgets and the store        *)
(* refuses: it is begun while it is open, at most Limit times, each time    *)
(* under a number of its own; it is done only after it was begun; a done    *)
(* one stays done, and one that was given up may only still turn out done,  *)
(* until the guard is pruned.                                               *)
EXTENDS Naturals

CONSTANTS
  Effect,  \* side effects: an event and a target
  Limit    \* how often one may be begun

VARIABLES
  status,  \* [Effect -> {"open", "done", "dead"}]
  begun    \* [Effect -> [number -> Nat]]: how often it was begun under a number

vars == <<status, begun>>

Never == [n \in 0..Limit |-> 0]

Init ==
  /\ status = [e \in Effect |-> "open"]
  /\ begun = [e \in Effect |-> Never]

Begin(e, n) ==
  /\ status[e] = "open" /\ begun[e][n] = 0
  /\ begun' = [begun EXCEPT ![e][n] = 1]
  /\ UNCHANGED status

Done(e) ==
  /\ status[e] # "done"
  /\ \E n \in 0..Limit : begun[e][n] > 0
  /\ status' = [status EXCEPT ![e] = "done"]
  /\ UNCHANGED begun

\* One sweep may give up several.
GiveUp(S) ==
  /\ \A e \in S : status[e] = "open"
  /\ status' = [e \in Effect |-> IF e \in S THEN "dead" ELSE status[e]]
  /\ UNCHANGED begun

Forget(e) ==
  /\ status[e] # "open"
  /\ status' = [status EXCEPT ![e] = "open"]
  /\ begun' = [begun EXCEPT ![e] = Never]

Next ==
  \/ \E e \in Effect : Done(e) \/ Forget(e) \/ \E n \in 0..Limit - 1 : Begin(e, n)
  \/ \E S \in SUBSET Effect : GiveUp(S)

Spec == Init /\ [][Next]_vars
=============================================================================
