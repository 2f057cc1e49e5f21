------------------------------- MODULE MCForget -------------------------------
(* An instance of Forget for TLC: a purge killed, a restore, and a reader that  *)
(* keeps raw.db-wal from truncating.                                            *)
EXTENDS Forget

Leftover == {[c \in Chances |-> IF c \in {"kill", "restore", "busy"} THEN 1 ELSE 0]}
=============================================================================
