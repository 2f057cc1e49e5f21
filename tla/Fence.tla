------------------------------- MODULE Fence -------------------------------
(***************************************************************************)
(* What dispatch.lock promises (src/dispatch.rs, its first lines): a text  *)
(* leaves the machine, or a reader's answer is built, only from what       *)
(* nothing took, and nothing is taken while one is on its way.             *)
(***************************************************************************)
CONSTANTS Procs,    \* who sends text or answers with it
          Pieces    \* the pieces of recorded text

VARIABLES taken,    \* what a forget denies or a rescan masked
          out       \* for each process, the text on its way

vars == <<taken, out>>

Init == taken = {} /\ out = [p \in Procs |-> {}]

\* A text starts on its way.
Leave(p) ==
  /\ out[p] = {}
  /\ \E text \in SUBSET Pieces : /\ text \cap taken = {}
                                 /\ out' = [out EXCEPT ![p] = text]
  /\ UNCHANGED taken

\* It has arrived, or never will.
Arrive(p) == out' = [out EXCEPT ![p] = {}] /\ UNCHANGED taken

\* What is taken changes only while nothing is on its way.
Take ==
  /\ \A p \in Procs : out[p] = {}
  /\ taken' \in SUBSET Pieces
  /\ UNCHANGED out

Next == Take \/ \E p \in Procs : Leave(p) \/ Arrive(p)

Spec == Init /\ [][Next]_vars
=============================================================================
