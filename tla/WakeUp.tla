------------------------------- MODULE WakeUp -------------------------------
(***************************************************************************)
(* What the worker's life cycle promises to whoever appends: work that     *)
(* arrives is processed without anybody asking again.  The work is the     *)
(* records of raw.db (their number is top) and a restore request; how many *)
(* processes share the processing, and how they hand it over, is not seen  *)
(* from here.  Module Worker implements this.                              *)
(***************************************************************************)
EXTENDS Naturals

VARIABLES top,      \* records appended to raw.db
          read,     \* records every consumer has read
          restore,  \* a restore was asked for and nobody has taken the request
          harmed    \* a process crashed or failed: nothing is promised until somebody asks again
vars == <<top, read, restore, harmed>>

Init == top = 0 /\ read = 0 /\ restore = FALSE /\ harmed = FALSE

Append == top' = top + 1 /\ UNCHANGED <<read, restore, harmed>>

AskRestore == restore' = TRUE /\ UNCHANGED <<top, read, harmed>>

Index == /\ read < top
         /\ read' \in read + 1 .. top
         /\ UNCHANGED <<top, restore, harmed>>

TakeRestore == restore /\ restore' = FALSE /\ UNCHANGED <<top, read, harmed>>

\* A failure puts the request back that a restore could not keep.
Harm == harmed' = TRUE /\ restore' \in {restore, TRUE} /\ UNCHANGED <<top, read>>

AskAgain == harmed' = FALSE /\ UNCHANGED <<top, read, restore>>

Next == Append \/ AskRestore \/ Index \/ TakeRestore \/ Harm \/ AskAgain

Spec == Init /\ [][Next]_vars /\ WF_vars(~harmed /\ Index) /\ WF_vars(~harmed /\ TakeRestore)
=============================================================================
