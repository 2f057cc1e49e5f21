------------------------------ MODULE Watchdog ------------------------------
(***************************************************************************)
(* The watchdog of a worker's loop (src/watchdog.rs): a thread that looks  *)
(* at regular times at how often the loop marked its progress, and has the *)
(* worker leave when too many looks in a row saw no new mark.  A call to a *)
(* provider allows the loop the longer stillness of its own timeout, and   *)
(* marks and allows under one lock.  Times are counted in looks.           *)
(***************************************************************************)
EXTENDS Naturals

CONSTANTS Calls,     \* the calls to a provider that may be out at once
          Still,     \* STILL: looks with no new mark before the loop is stuck
          Timeouts,  \* what calls may allow: looks of their timeout and the margin
          MaxMarks   \* bound: how often the loop marks its progress

VARIABLES marks,     \* Watched: the marks so far,
          allowance, \* the longest stillness a call out allows
          call,      \* what each call allows while it is out, 0 while it is not
          last,      \* the watch: the marks at the latest new one,
          unchanged, \* the looks since,
          seen,      \* and the marks and the allowance it read last
          at,        \* "looks", "judges", or "stuck" once it had the worker leave
          fresh,     \* whether the loop marked since the latest look
          truth      \* of that look: the looks in a row that saw no mark, what each call out allows
vars == <<marks, allowance, call, last, unchanged, seen, at, fresh, truth>>

Longer(a, b) == IF a > b THEN a ELSE b
Out          == {c \in Calls : call[c] > 0}

Init ==
  /\ marks = 0 /\ allowance = 0
  /\ call = [c \in Calls |-> 0]
  /\ last = 0 /\ unchanged = 0 /\ seen = [marks |-> 0, allowed |-> Still]
  /\ at = "looks"
  /\ fresh = FALSE /\ truth = [quiet |-> 0, owed |-> {}]
-----------------------------------------------------------------------------
Mark == marks < MaxMarks /\ marks' = marks + 1 /\ fresh' = TRUE

progressed ==
  /\ Mark
  /\ UNCHANGED <<allowance, call, last, unchanged, seen, at, truth>>

calling(c) ==
  /\ call[c] = 0
  /\ Mark
  /\ \E timeout \in Timeouts : /\ call' = [call EXCEPT ![c] = timeout]
                               /\ allowance' = Longer(allowance, timeout)
  /\ UNCHANGED <<last, unchanged, seen, at, truth>>

returnedAlone(c) ==                                                     \* variation
  /\ c \in Out
  /\ Mark
  /\ call' = [call EXCEPT ![c] = 0]
  /\ UNCHANGED <<allowance, last, unchanged, seen, at, truth>>

\* Two calls out at once keep the longer allowance until both are back.
returned(c) ==
  /\ c \in Out
  /\ Mark
  /\ call' = [call EXCEPT ![c] = 0]
  /\ allowance' = IF Out = {c} THEN 0 ELSE allowance
  /\ UNCHANGED <<last, unchanged, seen, at, truth>>

Saw == /\ truth' = [quiet |-> IF fresh \/ marks = 0 THEN 0 ELSE truth.quiet + 1,
                     owed |-> {call[c] : c \in Out}]
       /\ fresh' = FALSE

LookApart ==                                                            \* variation
  \/ /\ at = "looks" /\ at' = "half"
     /\ seen' = [seen EXCEPT !.marks = marks]
     /\ Saw
     /\ UNCHANGED <<marks, allowance, call, last, unchanged>>
  \/ /\ at = "half" /\ at' = "judges"
     /\ seen' = [seen EXCEPT !.allowed = Longer(Still, allowance)]
     /\ UNCHANGED <<marks, allowance, call, last, unchanged, fresh, truth>>

\* The marks and the allowance are read together, under the calls' lock.
Look ==
  /\ at = "looks" /\ at' = "judges"
  /\ seen' = [marks |-> marks, allowed |-> Longer(Still, allowance)]
  /\ Saw
  /\ UNCHANGED <<marks, allowance, call, last, unchanged>>

\* Nothing counts before the loop's first mark.
Judge ==
  /\ at = "judges"
  /\ IF seen.marks = 0
     THEN UNCHANGED <<last, unchanged>>
     ELSE /\ last' = seen.marks
          /\ unchanged' = IF seen.marks = last THEN unchanged + 1 ELSE 0
  /\ at' = IF seen.marks > 0 /\ unchanged' > seen.allowed THEN "stuck" ELSE "looks"
  /\ UNCHANGED <<marks, allowance, call, seen, fresh, truth>>

Next ==
  \/ progressed \/ Look \/ Judge
  \/ \E c \in Calls : calling(c) \/ returned(c)

Spec == Init /\ [][Next]_vars
-----------------------------------------------------------------------------
TypeOK ==
  /\ marks \in 0 .. MaxMarks /\ last \in 0 .. MaxMarks
  /\ allowance \in Timeouts \cup {0} /\ call \in [Calls -> Timeouts \cup {0}]
  /\ unchanged \in Nat /\ fresh \in BOOLEAN
  /\ seen \in [marks : 0 .. MaxMarks, allowed : Nat]
  /\ at \in {"looks", "judges", "stuck"}
  /\ truth \in [quiet : Nat, owed : SUBSET Timeouts]

\* A worker is made to leave only when, as of one look, its loop had made no progress
\* for longer than any loop may be still and than each call out then allows: no call
\* that starts or ends around the look is taken for stillness.
AlarmIsTrue == at = "stuck" => \A t \in truth.owed \cup {Still} : truth.quiet > t

\* And a loop that is stuck is found: with no call out as of a look, one that has been
\* still for longer than it may be has its worker leave, whichever calls it had before.
StuckIsFound == at = "looks" /\ truth.owed = {} => truth.quiet <= Still
=============================================================================
