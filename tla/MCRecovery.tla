----------------------------- MODULE MCRecovery -----------------------------
(* Instances of Recovery for TLC: how often each rare event may happen, by run. *)
EXTENDS Recovery

Calm == [c \in Chances |-> 0]
Losing == [Calm EXCEPT !["lose"] = 1]
Worn == [Calm EXCEPT !["damage"] = 1, !["rot"] = 1, !["forget"] = 1]
Asked == [Worn EXCEPT !["hand"] = 1]
Killed == [Calm EXCEPT !["kill"] = 1, !["damage"] = 1, !["rot"] = 1, !["hand"] = 1]
Rough == [c \in Chances |-> IF c = "forget" THEN 0 ELSE 1]

\* A forget may come, or a kill between any two files an export or a restore writes.
K == INSTANCE Recovery WITH Budget <- Killed
EitherSpec == (Init \/ K!Init) /\ [][Next]_vars
=============================================================================
