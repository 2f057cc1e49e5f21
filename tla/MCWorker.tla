------------------------------ MODULE MCWorker ------------------------------
(* Instances of Worker for TLC: how often each rare event may happen, by run. *)
EXTENDS Worker, TLC

Calm   == [c \in Chances |-> 0]
Busy   == [Calm EXCEPT !["putoff"] = 1]
Swapped == [Calm EXCEPT !["exec"] = 1]
Killed == [Calm EXCEPT !["crash"] = 1]
Faulty == [Calm EXCEPT !["damage"] = 1, !["fail"] = 1]
Rough  == [Calm EXCEPT !["crash"] = 1, !["call"] = 1, !["exec"] = 1, !["config"] = 1]

OnlyCalm  == {Calm}
OnlyRough == {Rough}
EachOfThem == {Busy, Swapped, Killed, Faulty}

Symmetry == Permutations(Hooks) \cup Permutations(Workers) \cup Permutations(Draining)
=============================================================================
