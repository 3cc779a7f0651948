------------------------- MODULE MCSessionLifecycle -------------------------
(* Small instances of SessionLifecycle for TLC.  A behaviour draws one budget;  *)
(* the budgets of an instance are the slices of the environment it explores.    *)
EXTENDS SessionLifecycle

\* Nothing may fail, crash or be called: the budgets below say what may.
Quiet == [features |-> {}, gens |-> MaxGen, life |-> 0, ops |-> 0, faults |-> 0, crashes |-> 0]

\* One PTY, its viewers, turns, messages and evictions.
Presenting == [Quiet EXCEPT !.features = {"attach", "evict", "turn", "message", "doorbell"},
                            !.gens = 1, !.life = 4, !.faults = 1]
\* Operator calls and session-start hooks, two at a time, over two generations.
Ending == [Quiet EXCEPT !.features = {"end", "hook"}, !.ops = 2]
ForgettingOrEnding == [Quiet EXCEPT !.features = {"forget", "end"}, !.ops = 2]
OneOfEach == [Quiet EXCEPT !.features = {"forget", "end", "hook"}, !.ops = 1]
ForgettingRacesHook == [Quiet EXCEPT !.features = {"forget", "hook"}, !.gens = 1, !.ops = 2]
\* A kill against evictions, exits and one failure.
Killing == [Quiet EXCEPT !.features = {"evict", "kill"}, !.life = 1, !.ops = 1, !.faults = 1]

SafetyBudgets == {Presenting, Ending, ForgettingOrEnding, OneOfEach, ForgettingRacesHook, Killing}

\* Evictions against a restart and a failure, with messages against one of them.
Restarting == [Quiet EXCEPT !.features = {"evict"}, !.life = 3, !.faults = 1, !.crashes = 1]
RestartingBusy == [Quiet EXCEPT !.features = {"evict", "message"}, !.life = 2, !.crashes = 1]
Failing == [Quiet EXCEPT !.features = {"evict", "message"}, !.life = 3, !.faults = 2]
\* Viewers that come and go under two failures, or under one restart.
Watching == [Quiet EXCEPT !.features = {"attach"}, !.faults = 2]
WatchingRestart == [Quiet EXCEPT !.features = {"attach"}, !.crashes = 1]

RestartBudgets == {Restarting, RestartingBusy, Failing, Watching, WatchingRestart}

\* Evictions alone.
EvictBudgets == {[Quiet EXCEPT !.features = {"evict"}, !.life = 2]}
=============================================================================
