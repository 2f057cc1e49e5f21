---------------------------- MODULE WorkerProofs ----------------------------
(***************************************************************************)
(* Proofs about Worker, for any number of hooks, workers, commands and     *)
(* readers, and any number of crashes and failures where a theorem does    *)
(* not say otherwise.                                                      *)
(***************************************************************************)
EXTENDS Worker, TLAPS

Odds == [of : [Chances -> Nat], left : [Chances -> Nat], harmed : BOOLEAN]     \* the type of chance

LEMMA TypeInit == Init => TypeOK
<1> SUFFICES ASSUME Init PROVE TypeOK
  OBVIOUS
<1>1. PlacesOK
  BY ProcsAssumption DEF Init, PlacesOK, Procs, Commands, Runners, HookPlaces, CommandPlaces
<1>2. run \in [Runners -> Run]
  BY DEF Init, NewRun, Run
<1>3. chance \in Odds
  BY ProcsAssumption DEF Init, Odds
<1>4. read \in 0 .. top /\ top \in Nat /\ gen \in Nat
  BY DEF Init
<1>5. outcome \in [gen : Nat, why : {"none", "stopped", "ok", "failed"}]
  BY DEF Init
<1>6. QED
  BY <1>1, <1>2, <1>3, <1>4, <1>5 DEF Init, TypeOK, Odds

(* One process moves, the others stay in their places. *)
LEMMA LoopMoves ==
  ASSUME PlacesOK, NEW p \in Runners, NEW at \in LoopPlaces, Goto(p, at)
  PROVE  PlacesOK'
  BY ProcsAssumption DEF PlacesOK, Goto, Procs, Runners, Commands

LEMMA HookMoves ==
  ASSUME PlacesOK, NEW h \in Hooks, NEW at \in HookPlaces, Goto(h, at)
  PROVE  PlacesOK'
  BY ProcsAssumption DEF PlacesOK, Goto, Procs, Runners, Commands

LEMMA CommandMoves ==
  ASSUME PlacesOK, NEW c \in Commands, NEW at \in CommandPlaces, Goto(c, at)
  PROVE  PlacesOK'
  BY ProcsAssumption DEF PlacesOK, Goto, Procs, Runners, Commands

\* A process that ends: a worker's slot is free again, the others are done.
LEMMA Ends ==
  ASSUME PlacesOK, NEW p \in Procs, Goto(p, IF p \in Workers THEN "off" ELSE "done")
  PROVE  PlacesOK'
  BY ProcsAssumption DEF PlacesOK, Goto, Procs, Runners, Commands, HookPlaces, CommandPlaces

LEMMA SpendType ==
  ASSUME chance \in Odds, NEW c \in Chances, Spend(c)
  PROVE  chance' \in Odds
<1> DEFINE harm == chance.harmed \/ c \in {"crash", "fail"}
<1>1. harm \in BOOLEAN
  BY DEF Odds
<1>2. [chance.left EXCEPT ![c] = @ - 1] \in [Chances -> Nat]
  BY DEF Spend, Odds
<1>3. \A left \in [Chances -> Nat], b \in BOOLEAN :
        [chance EXCEPT !.left = left, !.harmed = b] \in Odds
  BY DEF Odds
<1>4. chance' = [chance EXCEPT !.left = [chance.left EXCEPT ![c] = @ - 1], !.harmed = harm]
  BY DEF Spend, Odds
<1>5. QED
  BY <1>1, <1>2, <1>3, <1>4

LEMMA CalmType ==
  ASSUME chance \in Odds, NEW b \in BOOLEAN
  PROVE  [chance EXCEPT !.harmed = @ /\ b] \in Odds
<1>1. (chance.harmed /\ b) \in BOOLEAN
  BY DEF Odds
<1>2. \A h \in BOOLEAN : [chance EXCEPT !.harmed = h] \in Odds
  BY DEF Odds
<1>3. QED
  BY <1>1, <1>2

LEMMA NewRunType ==
  ASSUME NEW number \in Nat, NEW stays \in BOOLEAN
  PROVE  NewRun(number, stays) \in Run
  BY DEF NewRun, Run

\* One runner's variables are another record of their type.
LEMMA RunSet ==
  ASSUME run \in [Runners -> Run], NEW p \in Runners, NEW r \in Run
  PROVE  [run EXCEPT ![p] = r] \in [Runners -> Run]
  OBVIOUS

LEMMA NoteType ==
  ASSUME outcome \in [gen : Nat, why : {"none", "stopped", "ok", "failed"}],
         NEW n \in Nat, NEW why \in {"stopped", "ok", "failed"}, Note(n, why)
  PROVE  outcome' \in [gen : Nat, why : {"none", "stopped", "ok", "failed"}]
  BY DEF Note

LEMMA TypeNext == TypeOK /\ [Next]_vars => TypeOK'
<1> SUFFICES ASSUME TypeOK, [Next]_vars PROVE TypeOK'
  OBVIOUS
<1> USE DEF TypeOK, Odds
<1>1. ASSUME NEW h \in Hooks, HookAppend(h) PROVE TypeOK'
  BY <1>1, HookMoves DEF HookAppend, Step, HookPlaces
<1>2. ASSUME NEW h \in Hooks, HookFindsDamage(h) PROVE TypeOK'
  BY <1>2, HookMoves, SpendType DEF HookFindsDamage, Step, HookPlaces, Chances
<1>3. ASSUME NEW h \in Hooks, HookProbe(h) PROVE TypeOK'
  <2>1. chance' \in Odds
    BY <1>3, CalmType DEF HookProbe, Asked
  <2>2. QED
    BY <1>3, <2>1, HookMoves DEF HookProbe, HookPlaces, files, Procs
<1>4. ASSUME NEW h \in Hooks, HookRelease(h) PROVE TypeOK'
  BY <1>4, HookMoves DEF HookRelease, Step, HookPlaces, files
<1>5. ASSUME NEW h \in Hooks, HookSpawn(h) PROVE TypeOK'
  <2>1. PlacesOK'
    BY <1>5, ProcsAssumption DEF HookSpawn, PlacesOK, HookPlaces, LoopPlaces, Procs, Commands
  <2>2. QED
    BY <1>5, <2>1 DEF HookSpawn, files
<1>6. ASSUME NEW p \in Runners, Start(p) PROVE TypeOK'
  <2>1. PlacesOK'
    BY <1>6, LoopMoves, Ends DEF Start, LoopPlaces, Procs, Runners, Commands
  <2>2. run' \in [Runners -> Run]
    <3>1. NewRun(gen + 1, IF p \in Workers THEN resident ELSE FALSE) \in Run
      <4>1. (IF p \in Workers THEN resident ELSE FALSE) \in BOOLEAN
        OBVIOUS
      <4>2. gen + 1 \in Nat
        OBVIOUS
      <4>3. QED
        BY <4>1, <4>2, NewRunType, Zenon
    <3>2. run' = run \/ run' = [run EXCEPT ![p] = NewRun(gen + 1, IF p \in Workers THEN resident ELSE FALSE)]
      BY <1>6 DEF Start
    <3>3. QED
      BY <3>1, <3>2, RunSet
  <2>3. (gen' = gen \/ gen' = gen + 1) /\ (lock' = p \/ lock' = lock)
    BY <1>6, Zenon DEF Start
  <2>4. lock' \in Procs \cup {NoOne}
    BY <2>3 DEF Procs, Runners, Commands
  <2>5. QED
    BY <1>6, <2>1, <2>2, <2>3, <2>4 DEF Start, files
<1>7. ASSUME NEW p \in Runners, NoteTaking(p) PROVE TypeOK'
  <2>1. PlacesOK'
    BY <1>7, LoopMoves DEF NoteTaking, LoopPlaces
  <2>2. QED
    BY <1>7, <2>1, NoteType DEF NoteTaking, Run
<1>8. ASSUME NEW p \in Runners, Reopen(p) PROVE TypeOK'
  <2>1. PlacesOK' /\ run' \in [Runners -> Run]
    BY <1>8, LoopMoves DEF Reopen, Step, LoopPlaces, Run
  <2>2. QED
    BY <1>8, <2>1, NoteType DEF Reopen, Run
<1>9. ASSUME NEW p \in Runners, TakeRestoreRequest(p) PROVE TypeOK'
  <2>1. PlacesOK' /\ run' \in [Runners -> Run]
    BY <1>9, LoopMoves DEF TakeRestoreRequest, Step, LoopPlaces, Run
  <2>2. QED
    BY <1>9, <2>1 DEF TakeRestoreRequest
<1>10. ASSUME NEW p \in Runners, StoresOpen(p) PROVE TypeOK'
  BY <1>10, LoopMoves DEF StoresOpen, Step, LoopPlaces, files
<1>11. ASSUME NEW p \in Runners, OpenFails(p) PROVE TypeOK'
  <2>1. PlacesOK' /\ run' \in [Runners -> Run] /\ restore' \in BOOLEAN
    BY <1>11, LoopMoves DEF OpenFails, Step, LoopPlaces, Run
  <2>2. QED
    BY <1>11, <2>1, SpendType DEF OpenFails, Chances
<1>12. ASSUME NEW p \in Runners, Round(p) PROVE TypeOK'
  <2>1. PlacesOK'
    BY <1>12, LoopMoves DEF Round, LoopPlaces
  <2>2. run' \in [Runners -> Run]
    <3>1. (p \in Workers /\ Asked) \in BOOLEAN
      OBVIOUS
    <3>2. [run[p] EXCEPT !.asked = (p \in Workers /\ Asked)] \in Run
      BY <3>1 DEF Run
    <3>3. QED
      BY <1>12, <3>2 DEF Round
  <2>3. QED
    BY <1>12, <2>1, <2>2 DEF Round, files
<1>13. ASSUME NEW p \in Runners, StepAside(p) PROVE TypeOK'
  BY <1>13, LoopMoves DEF StepAside, LoopPlaces, files
<1>14. ASSUME NEW p \in Runners, Look(p) PROVE TypeOK'
  <2>1. PlacesOK'
    BY <1>14, LoopMoves DEF Look, Step, LoopPlaces
  <2>2. run' \in [Runners -> Run]
    <3>1. [run[p] EXCEPT !.waited = FALSE, !.seen = top] \in Run
      BY DEF Run
    <3>2. QED
      BY <1>14, <3>1, RunSet DEF Look
  <2>3. outcome' \in [gen : Nat, why : {"none", "stopped", "ok", "failed"}]
    BY <1>14, NoteType DEF Look, Run
  <2>4. QED
    BY <1>14, <2>1, <2>2, <2>3 DEF Look
<1>15. ASSUME NEW p \in Runners, Drain(p) PROVE TypeOK'
  <2>1. PlacesOK'
    BY <1>15, LoopMoves DEF Drain, LoopPlaces, PlacesOK
  <2>2. read' \in 0 .. top' /\ top' \in Nat /\ chance' \in Odds
    BY <1>15, SpendType DEF Drain, Behind, Chances
  <2>3. QED
    BY <1>15, <2>1, <2>2 DEF Drain
<1>16. ASSUME NEW p \in Runners, Phases(p) PROVE TypeOK'
  <2>1. PlacesOK'
    BY <1>16, LoopMoves DEF Phases, Rest, LoopPlaces
  <2>2. run' \in [Runners -> Run]
    BY <1>16 DEF Phases, Rest, Run
  <2>3. outcome' \in [gen : Nat, why : {"none", "stopped", "ok", "failed"}]
    BY <1>16, NoteType DEF Phases, Rest, Run
  <2>4. chance' \in Odds
    BY <1>16, SpendType DEF Phases, Chances
  <2>5. QED
    BY <1>16, <2>1, <2>2, <2>3, <2>4 DEF Phases
<1>17. ASSUME NEW p \in Runners, Leave(p) \/ Close(p) PROVE TypeOK'
  BY <1>17, LoopMoves DEF Leave, Close, Step, LoopPlaces, files
<1>18. ASSUME NEW p \in Runners, LastCheck(p) PROVE TypeOK'
  <2>1. PlacesOK' /\ run' \in [Runners -> Run]
    BY <1>18, LoopMoves DEF LastCheck, LoopPlaces, Run
  <2>2. QED
    BY <1>18, <2>1 DEF LastCheck, files
<1>19. ASSUME NEW p \in Runners, Relock(p) PROVE TypeOK'
  <2>1. PlacesOK' /\ run' \in [Runners -> Run]
    BY <1>19, LoopMoves DEF Relock, LoopPlaces, Run
  <2>2. QED
    BY <1>19, <2>1 DEF Relock, files, Procs, Runners, Commands
<1>20. ASSUME NEW p \in Runners, Record(p) PROVE TypeOK'
  <2>1. PlacesOK'
    BY <1>20, Ends DEF Record, Procs, Runners, Commands
  <2>2. run' \in [Runners -> Run]
    BY <1>20 DEF Record, NewRun, Run
  <2>3. outcome' \in [gen : Nat, why : {"none", "stopped", "ok", "failed"}]
    BY <1>20, NoteType DEF Record, Run
  <2>4. QED
    BY <1>20, <2>1, <2>2, <2>3 DEF Record
<1>21. ASSUME NEW p \in Runners, Fails(p) PROVE TypeOK'
  <2>1. PlacesOK' /\ run' \in [Runners -> Run]
    BY <1>21, LoopMoves DEF Fails, LoopPlaces, Run
  <2>2. QED
    BY <1>21, <2>1, SpendType DEF Fails, files, Chances
<1>22. ASSUME NEW w \in Workers, CallReturns(w) PROVE TypeOK'
  <2>1. run' \in [Runners -> Run]
    BY <1>22 DEF CallReturns, Runners, Run
  <2>2. QED
    BY <1>22, <2>1 DEF CallReturns, files, PlacesOK
<1>23. ASSUME NEW w \in Workers, Wake(w) PROVE TypeOK'
  BY <1>23, LoopMoves DEF Wake, LoopPlaces, files, Runners
<1>24. ASSUME NEW w \in Workers, TimeOut(w) PROVE TypeOK'
  <2>1. PlacesOK'
    BY <1>24, LoopMoves DEF TimeOut, LoopPlaces, Runners, PlacesOK
  <2>2. run' \in [Runners -> Run]
    <3>1. w \in Runners /\ [run[w] EXCEPT !.departing = TRUE] \in Run
      BY DEF Run, Runners
    <3>2. QED
      BY <1>24, <3>1, RunSet DEF TimeOut
  <2>3. QED
    BY <1>24, <2>1, <2>2 DEF TimeOut, files
<1>25. ASSUME NEW w \in Workers, Exec(w) PROVE TypeOK'
  <2>1. PlacesOK' /\ run' \in [Runners -> Run]
    BY <1>25, LoopMoves DEF Exec, LoopPlaces, Runners, Run, NewRun
  <2>2. QED
    BY <1>25, <2>1, SpendType DEF Exec, files, Chances
<1>26. ASSUME NEW c \in Commands, CommandTry(c) \/ CommandGets(c) \/ CommandGivesUp(c) PROVE TypeOK'
  <2>1. PlacesOK'
    BY <1>26, CommandMoves DEF CommandTry, CommandGets, CommandGivesUp, Step, CommandPlaces
  <2>2. QED
    BY <1>26, <2>1 DEF CommandTry, CommandGets, CommandGivesUp, Procs
<1>27. ASSUME NEW c \in Commands, CommandDrains(c) \/ CommandReleasesToDrain(c) PROVE TypeOK'
  <2>1. c \in Runners
    BY <1>27 DEF CommandDrains, CommandReleasesToDrain, Runners
  <2>2. PlacesOK'
    BY <1>27, <2>1, LoopMoves DEF CommandDrains, CommandReleasesToDrain, Step, LoopPlaces
  <2>3. run' \in [Runners -> Run]
    BY <1>27, <2>1, NewRunType, RunSet DEF CommandDrains, CommandReleasesToDrain
  <2>4. QED
    BY <1>27, <2>2, <2>3 DEF CommandDrains, CommandReleasesToDrain, files
<1>28. ASSUME NEW c \in Commands, CommandDrops(c) PROVE TypeOK'
  BY <1>28, CommandMoves, SpendType DEF CommandDrops, Step, CommandPlaces, files, Chances
<1>29. ASSUME NEW c \in Commands, RequestGrowsStale(c) PROVE TypeOK'
  BY <1>29 DEF RequestGrowsStale, PlacesOK
<1>30. ASSUME NEW r \in Readers, ReaderShares(r) \/ ReaderLetsGo(r) PROVE TypeOK'
  BY <1>30 DEF ReaderShares, ReaderLetsGo, files, PlacesOK
<1>31. ASSUME NEW p \in Procs, Crash(p) PROVE TypeOK'
  <2>1. PlacesOK' /\ run' \in [Runners -> Run]
    BY <1>31, Ends DEF Crash, Run, NewRun
  <2>2. QED
    BY <1>31, <2>1, SpendType DEF Crash, files, Chances
<1>32. CASE OwnerEditsConfig
  BY <1>32, SpendType DEF OwnerEditsConfig, Chances, PlacesOK
<1>33. CASE UNCHANGED vars
  BY <1>33 DEF vars, PlacesOK
<1>34. QED
  BY <1>1, <1>2, <1>3, <1>4, <1>5, <1>6, <1>7, <1>8, <1>9, <1>10, <1>11, <1>12, <1>13, <1>14,
     <1>15, <1>16, <1>17, <1>18, <1>19, <1>20, <1>21, <1>22, <1>23, <1>24, <1>25, <1>26, <1>27,
     <1>28, <1>29, <1>30, <1>31, <1>32, <1>33
     DEF Next, HookNext, RunnerNext, WorkerWait, CommandNext

\* Every variable keeps its type, and no checkpoint passes the records there are.
THEOREM TypeCorrect == Spec => []TypeOK
  BY TypeInit, TypeNext, PTL DEF Spec
-----------------------------------------------------------------------------
(* One at a time.  A process moves in one of four ways: it takes the lock, *)
(* lets it go, or moves with or without it.                                *)

InsideIs == Inside = {"open", "opening", "round", "aside", "look", "drain", "phases", "leave",
                      "reopen", "wait", "asideWaiting", "took", "retook", "close", "probing",
                      "working"}

LEMMA InsideKnown == InsideIs
  BY DEF InsideIs, Inside, AtWork, Waiting

LEMMA TakesLock ==
  ASSUME TypeOK, OneAtATime, NEW p \in Procs, NEW at \in Inside, Free, Goto(p, at),
         lock' = p, shared' = shared
  PROVE  OneAtATime'
  BY ProcsAssumption DEF TypeOK, PlacesOK, OneAtATime, Goto, Free

LEMMA LetsLockGo ==
  ASSUME TypeOK, OneAtATime, NEW p \in Procs, NEW at, at \notin Inside, pc[p] \in Inside,
         Goto(p, at), lock' = NoOne, shared' = shared
  PROVE  OneAtATime'
  BY ProcsAssumption DEF TypeOK, PlacesOK, OneAtATime, Goto

LEMMA MovesWithLock ==
  ASSUME TypeOK, OneAtATime, NEW p \in Procs, NEW at, pc[p] \in Inside <=> at \in Inside,
         Goto(p, at), lock' = lock, shared' = shared
  PROVE  OneAtATime'
  BY DEF TypeOK, PlacesOK, OneAtATime, Goto

LEMMA OneAtATimeInit == Init => OneAtATime
  BY ProcsAssumption, InsideKnown DEF Init, OneAtATime, InsideIs

LEMMA OneAtATimeNext == TypeOK /\ OneAtATime /\ [Next]_vars => OneAtATime'
<1> SUFFICES ASSUME TypeOK, OneAtATime, [Next]_vars PROVE OneAtATime'
  OBVIOUS
<1> USE InsideKnown DEF InsideIs, Step
<1>p. Hooks \subseteq Procs /\ Runners \subseteq Procs /\ Workers \subseteq Runners /\ Commands \subseteq Procs
  BY DEF Procs, Runners, Commands
<1>1. ASSUME NEW h \in Hooks, HookAppend(h) \/ HookFindsDamage(h) PROVE OneAtATime'
  BY <1>1, <1>p, MovesWithLock DEF HookAppend, HookFindsDamage
<1>2. ASSUME NEW h \in Hooks, HookProbe(h) PROVE OneAtATime'
  BY <1>2, <1>p, TakesLock, MovesWithLock DEF HookProbe
<1>3. ASSUME NEW h \in Hooks, HookRelease(h) PROVE OneAtATime'
  BY <1>3, <1>p, LetsLockGo DEF HookRelease
<1>4. ASSUME NEW h \in Hooks, HookSpawn(h) PROVE OneAtATime'
  BY <1>4, <1>p DEF HookSpawn, OneAtATime, TypeOK, PlacesOK
<1>5. ASSUME NEW p \in Runners, Start(p) PROVE OneAtATime'
  BY <1>5, <1>p, TakesLock, MovesWithLock DEF Start
<1>6. ASSUME NEW p \in Runners, NoteTaking(p) \/ Reopen(p) \/ TakeRestoreRequest(p) \/ StoresOpen(p)
      PROVE OneAtATime'
  BY <1>6, <1>p, MovesWithLock DEF NoteTaking, Reopen, TakeRestoreRequest, StoresOpen
<1>7. ASSUME NEW p \in Runners, OpenFails(p) \/ Round(p) \/ StepAside(p) \/ Look(p) PROVE OneAtATime'
  BY <1>7, <1>p, MovesWithLock DEF OpenFails, Round, StepAside, Look
<1>8. ASSUME NEW p \in Runners, Drain(p) PROVE OneAtATime'
  BY <1>8, <1>p, MovesWithLock DEF Drain, OneAtATime
<1>9. ASSUME NEW p \in Runners, Phases(p) PROVE OneAtATime'
  BY <1>9, <1>p, MovesWithLock DEF Phases, Rest
<1>10. ASSUME NEW p \in Runners, Leave(p) \/ Close(p) PROVE OneAtATime'
  BY <1>10, <1>p, LetsLockGo DEF Leave, Close
<1>11. ASSUME NEW p \in Runners, LastCheck(p) \/ Record(p) PROVE OneAtATime'
  BY <1>11, <1>p, MovesWithLock DEF LastCheck, Record
<1>12. ASSUME NEW p \in Runners, Relock(p) PROVE OneAtATime'
  BY <1>12, <1>p, TakesLock, MovesWithLock DEF Relock
<1>13. ASSUME NEW p \in Runners, Fails(p) PROVE OneAtATime'
  BY <1>13, <1>p, MovesWithLock DEF Fails
<1>14. ASSUME NEW w \in Workers, CallReturns(w) PROVE OneAtATime'
  BY <1>14 DEF CallReturns, OneAtATime
<1>15. ASSUME NEW w \in Workers, Wake(w) PROVE OneAtATime'
  BY <1>15, <1>p, MovesWithLock DEF Wake
<1>16. ASSUME NEW w \in Workers, TimeOut(w) PROVE OneAtATime'
  BY <1>16, <1>p, MovesWithLock DEF TimeOut, OneAtATime
<1>17. ASSUME NEW w \in Workers, Exec(w) PROVE OneAtATime'
  BY <1>17, <1>p, LetsLockGo DEF Exec
<1>18. ASSUME NEW c \in Commands, CommandTry(c) \/ CommandGets(c) \/ CommandGivesUp(c)
       PROVE OneAtATime'
  BY <1>18, <1>p, TakesLock, MovesWithLock DEF CommandTry, CommandGets, CommandGivesUp
<1>19. ASSUME NEW c \in Commands,
              CommandDrains(c) \/ CommandReleasesToDrain(c) \/ CommandDrops(c) PROVE OneAtATime'
  <2>1. CASE CommandDrains(c)
    BY <2>1, <1>p, MovesWithLock DEF CommandDrains
  <2>2. CASE CommandReleasesToDrain(c)
    BY <2>2, <1>p, LetsLockGo DEF CommandReleasesToDrain
  <2>3. CASE CommandDrops(c)
    BY <2>3, <1>p, LetsLockGo DEF CommandDrops
  <2>4. QED
    BY <1>19, <2>1, <2>2, <2>3
<1>20. ASSUME NEW c \in Commands, RequestGrowsStale(c) PROVE OneAtATime'
  BY <1>20 DEF RequestGrowsStale, OneAtATime
<1>21. ASSUME NEW r \in Readers, ReaderShares(r) \/ ReaderLetsGo(r) PROVE OneAtATime'
  BY <1>21 DEF ReaderShares, ReaderLetsGo, OneAtATime
<1>22. ASSUME NEW p \in Procs, Crash(p) PROVE OneAtATime'
  <2>1. CASE lock = p
    BY <1>22, <2>1, LetsLockGo DEF Crash, OneAtATime
  <2>2. CASE lock # p
    BY <1>22, <2>2, MovesWithLock DEF Crash, OneAtATime
  <2>3. QED
    BY <2>1, <2>2
<1>23. CASE OwnerEditsConfig \/ UNCHANGED vars
  BY <1>23 DEF OwnerEditsConfig, vars, OneAtATime
<1>24. QED
  BY <1>1, <1>2, <1>3, <1>4, <1>5, <1>6, <1>7, <1>8, <1>9, <1>10, <1>11, <1>12, <1>13, <1>14,
     <1>15, <1>16, <1>17, <1>18, <1>19, <1>20, <1>21, <1>22, <1>23
     DEF Next, HookNext, RunnerNext, WorkerWait, CommandNext

\* One process at a time touches the stores, whatever crashes, fails or is stepped aside for.
THEOREM OneHolder == Spec => []OneAtATime
<1>1. Init => TypeOK /\ OneAtATime
  BY TypeInit, OneAtATimeInit
<1>2. TypeOK /\ OneAtATime /\ [Next]_vars => (TypeOK /\ OneAtATime)'
  BY TypeNext, OneAtATimeNext
<1>3. QED
  BY <1>1, <1>2, PTL DEF Spec
-----------------------------------------------------------------------------
(* What the outcome file says.  A taking's number is its holder's alone,   *)
(* so a note that comes late, with an older number, hides nothing.         *)

\* Where a run of the loop holds the lock.
LoopHeld == AtWork \cup Waiting \cup {"took", "retook", "close"}

NumbersOK ==
  /\ outcome.gen <= gen
  /\ \A p \in Runners : run[p].last <= gen
  /\ lock # NoOne => \A p \in Runners : p # lock => run[p].last < gen
  /\ \A p \in Runners : pc[p] \in LoopHeld => run[p].last = gen

\* What KilledIsReported and WaitIsNoFailure ask of one runner, and when its wait's note stands.
NoteOK(p) ==
  /\ pc[p] \in AtWork /\ ~run[p].waited /\ pc[p] # "reopen" =>
       outcome = [gen |-> run[p].last, why |-> "stopped"]
  /\ pc[p] \in {"drain", "phases"} => ~run[p].waited
  /\ pc[p] \in Waiting =>
       LET well == run[p].stays /\ run[p].call = "none"
       IN  /\ outcome = [gen |-> run[p].last, why |-> IF well THEN "ok" ELSE "stopped"]
           /\ run[p].waited = well

ReportInv == TypeOK /\ OneAtATime /\ NumbersOK /\ \A p \in Runners : NoteOK(p)

(* A runner keeps its number where it holds the lock, or forgets it elsewhere. *)
KeepsNumber(q) ==
  \/ run'[q].last = run[q].last /\ (pc'[q] \in LoopHeld => pc[q] \in LoopHeld)
  \/ run'[q].last = 0 /\ pc'[q] \notin LoopHeld

LEMMA NumbersKept ==
  ASSUME TypeOK, NumbersOK, gen' = gen, outcome'.gen <= gen, lock' \in {lock, NoOne},
         \A q \in Runners : KeepsNumber(q)
  PROVE  NumbersOK'
<1>1. gen \in Nat /\ \A q \in Runners : run[q].last \in Nat
  BY DEF TypeOK, Run
<1>2. \A q \in Runners : run'[q].last <= gen
  BY <1>1 DEF NumbersOK, KeepsNumber
<1>3. ASSUME lock' # NoOne, NEW q \in Runners, q # lock' PROVE run'[q].last < gen
  <2>1. run[q].last < gen
    BY <1>3 DEF NumbersOK
  <2>2. QED
    BY <1>1, <2>1 DEF KeepsNumber
<1>4. ASSUME NEW q \in Runners, pc'[q] \in LoopHeld PROVE run'[q].last = gen
  BY <1>4 DEF NumbersOK, KeepsNumber
<1>5. QED
  BY <1>2, <1>3, <1>4 DEF NumbersOK

(* The lock is taken: the number is a new one, and nobody else holds it. *)
LEMMA NumbersTaken ==
  ASSUME TypeOK, OneAtATime, NumbersOK, NEW p \in Procs, lock = NoOne, lock' = p, gen' = gen + 1,
         outcome' = outcome, \A q \in Runners \ {p} : run'[q] = run[q] /\ pc'[q] = pc[q],
         p \in Runners => run'[p].last = gen + 1 \/ (run'[p] = run[p] /\ pc'[p] \notin LoopHeld)
  PROVE  NumbersOK'
<1>1. gen \in Nat /\ outcome.gen \in Nat /\ \A q \in Runners : run[q].last \in Nat
  BY DEF TypeOK, Run
<1>2. \A q \in Runners : pc[q] \notin LoopHeld
  BY ProcsAssumption DEF OneAtATime, LoopHeld, Inside, Runners, Procs, Commands
<1>3. QED
  BY <1>1, <1>2 DEF NumbersOK

(* A runner that holds the lock has the last number, so its note is written. *)
LEMMA Noted ==
  ASSUME TypeOK, NumbersOK, NEW p \in Runners, pc[p] \in LoopHeld, NEW why, Note(run[p].last, why)
  PROVE  outcome' = [gen |-> run[p].last, why |-> why] /\ outcome'.gen <= gen
<1>1. outcome.gen \in Nat /\ gen \in Nat
  BY DEF TypeOK
<1>2. run[p].last = gen /\ ~(outcome.gen > gen)
  BY <1>1 DEF NumbersOK
<1>3. QED
  BY <1>1, <1>2 DEF Note

LEMMA NumbersNext == TypeOK /\ OneAtATime /\ NumbersOK /\ [Next]_vars => NumbersOK'
<1> SUFFICES ASSUME TypeOK, OneAtATime, NumbersOK, [Next]_vars PROVE NumbersOK'
  OBVIOUS
<1> USE DEF Step, files
<1>p. /\ Hooks \cap Runners = {} /\ Workers \subseteq Runners /\ Runners \subseteq Procs
      /\ Hooks \subseteq Procs /\ Commands \subseteq Procs
  BY ProcsAssumption DEF Procs, Runners, Commands
<1>t. /\ run \in [Runners -> Run] /\ outcome.gen <= gen
      /\ pc \in [Procs -> HookPlaces \cup CommandPlaces \cup LoopPlaces \cup {"off"}]
  BY DEF TypeOK, PlacesOK, NumbersOK
<1>h. /\ LoopHeld = {"open", "opening", "round", "aside", "look", "drain", "phases", "leave",
                     "reopen", "wait", "asideWaiting", "took", "retook", "close"}
  BY DEF LoopHeld, AtWork, Waiting
<1>1. ASSUME NEW h \in Hooks,
             HookAppend(h) \/ HookFindsDamage(h) \/ HookRelease(h) \/ HookSpawn(h) PROVE NumbersOK'
  <2>1. \A q \in Runners : KeepsNumber(q)
    BY <1>1, <1>p, <1>t, <1>h
       DEF HookAppend, HookFindsDamage, HookRelease, HookSpawn, Goto, KeepsNumber
  <2>2. QED
    BY <1>1, <1>t, <2>1, NumbersKept DEF HookAppend, HookFindsDamage, HookRelease, HookSpawn
<1>2. ASSUME NEW h \in Hooks, HookProbe(h) PROVE NumbersOK'
  <2>1. CASE Free
    BY <1>2, <1>p, <1>t, <2>1, NumbersTaken DEF HookProbe, Goto, Free
  <2>2. CASE ~Free
    <3>1. \A q \in Runners : KeepsNumber(q)
      BY <1>2, <1>p, <1>t, <2>2 DEF HookProbe, Goto, KeepsNumber
    <3>2. QED
      BY <1>2, <1>t, <2>2, <3>1, NumbersKept DEF HookProbe
  <2>3. QED
    BY <2>1, <2>2
<1>3. ASSUME NEW p \in Runners, Start(p) PROVE NumbersOK'
  <2>1. CASE Free
    BY <1>3, <1>p, <1>t, <2>1, NumbersTaken DEF Start, Goto, Free, NewRun
  <2>2. CASE ~Free
    <3>1. \A q \in Runners : KeepsNumber(q)
      BY <1>3, <1>p, <1>t, <1>h, <2>2 DEF Start, Goto, KeepsNumber
    <3>2. QED
      BY <1>3, <1>t, <2>2, <3>1, NumbersKept DEF Start
  <2>3. QED
    BY <2>1, <2>2
<1>4. ASSUME NEW p \in Runners, Relock(p) PROVE NumbersOK'
  <2>1. CASE Free
    BY <1>4, <1>p, <1>t, <2>1, NumbersTaken DEF Relock, Goto, Free, Run
  <2>2. CASE ~Free
    <3>1. \A q \in Runners : KeepsNumber(q)
      BY <1>4, <1>p, <1>t, <1>h, <2>2 DEF Relock, Goto, KeepsNumber
    <3>2. QED
      BY <1>4, <1>t, <2>2, <3>1, NumbersKept DEF Relock
  <2>3. QED
    BY <2>1, <2>2
<1>5. ASSUME NEW p \in Runners, NoteTaking(p) \/ Reopen(p) \/ Look(p) PROVE NumbersOK'
  <2>1. outcome'.gen <= gen
    BY <1>5, <1>t, <1>h, Noted DEF NoteTaking, Reopen, Look
  <2>2. \A q \in Runners : KeepsNumber(q)
    BY <1>5, <1>p, <1>t, <1>h DEF NoteTaking, Reopen, Look, Goto, KeepsNumber, Run
  <2>3. QED
    BY <1>5, <2>1, <2>2, NumbersKept DEF NoteTaking, Reopen, Look
<1>6. ASSUME NEW p \in Runners,
             TakeRestoreRequest(p) \/ StoresOpen(p) \/ OpenFails(p) \/ Round(p) \/ StepAside(p)
      PROVE NumbersOK'
  <2>1. \A q \in Runners : KeepsNumber(q)
    BY <1>6, <1>p, <1>t, <1>h
       DEF TakeRestoreRequest, StoresOpen, OpenFails, Round, StepAside, Goto, KeepsNumber, Run
  <2>2. QED
    BY <1>6, <1>t, <2>1, NumbersKept DEF TakeRestoreRequest, StoresOpen, OpenFails, Round, StepAside
<1>7. ASSUME NEW p \in Runners, Drain(p) PROVE NumbersOK'
  <2>1. \A q \in Runners : KeepsNumber(q)
    BY <1>7, <1>p, <1>t, <1>h DEF Drain, Goto, KeepsNumber
  <2>2. QED
    BY <1>7, <1>t, <2>1, NumbersKept DEF Drain
<1>8. ASSUME NEW p \in Runners, Phases(p) PROVE NumbersOK'
  <2>1. outcome'.gen <= gen
    BY <1>8, <1>t, <1>h, Noted DEF Phases, Rest
  <2>2. \A q \in Runners : KeepsNumber(q)
    BY <1>8, <1>p, <1>t, <1>h DEF Phases, Rest, Goto, KeepsNumber, Run
  <2>3. QED
    BY <1>8, <2>1, <2>2, NumbersKept DEF Phases
<1>9. ASSUME NEW p \in Runners, Leave(p) \/ LastCheck(p) \/ Close(p) \/ Fails(p) PROVE NumbersOK'
  <2>1. \A q \in Runners : KeepsNumber(q)
    BY <1>9, <1>p, <1>t, <1>h DEF Leave, LastCheck, Close, Fails, Goto, KeepsNumber, Run
  <2>2. QED
    BY <1>9, <1>t, <2>1, NumbersKept DEF Leave, LastCheck, Close, Fails
<1>10. ASSUME NEW p \in Runners, Record(p) PROVE NumbersOK'
  <2>1. outcome'.gen <= gen
    BY <1>10, <1>t DEF Record, Note, NumbersOK
  <2>2. \A q \in Runners : KeepsNumber(q)
    BY <1>10, <1>p, <1>t, <1>h DEF Record, Goto, KeepsNumber, NewRun
  <2>3. QED
    BY <1>10, <2>1, <2>2, NumbersKept DEF Record
<1>11. ASSUME NEW w \in Workers, CallReturns(w) \/ Wake(w) \/ TimeOut(w) \/ Exec(w) PROVE NumbersOK'
  <2>1. \A q \in Runners : KeepsNumber(q)
    BY <1>11, <1>p, <1>t, <1>h DEF CallReturns, Wake, TimeOut, Exec, Goto, KeepsNumber, Run, NewRun
  <2>2. QED
    BY <1>11, <1>t, <2>1, NumbersKept DEF CallReturns, Wake, TimeOut, Exec
<1>12. ASSUME NEW c \in Commands, CommandTry(c) \/ CommandGets(c) PROVE NumbersOK'
  <2>1. CASE lock' = c /\ gen' = gen + 1
    BY <1>12, <1>p, <1>t, <1>h, <2>1, NumbersTaken DEF CommandTry, CommandGets, Goto, Free
  <2>2. CASE UNCHANGED <<lock, gen>>
    <3>1. \A q \in Runners : KeepsNumber(q)
      BY <1>12, <1>p, <1>t, <1>h DEF CommandTry, CommandGets, Goto, KeepsNumber
    <3>2. QED
      BY <1>12, <1>t, <2>2, <3>1, NumbersKept DEF CommandTry, CommandGets
  <2>3. QED
    BY <1>12, <2>1, <2>2 DEF CommandTry, CommandGets
<1>13. ASSUME NEW c \in Commands,
              CommandGivesUp(c) \/ CommandReleasesToDrain(c) \/ CommandDrops(c) \/ RequestGrowsStale(c)
       PROVE NumbersOK'
  <2>1. \A q \in Runners : KeepsNumber(q)
    BY <1>13, <1>p, <1>t, <1>h
       DEF CommandGivesUp, CommandReleasesToDrain, CommandDrops, RequestGrowsStale, Goto, KeepsNumber
  <2>2. QED
    BY <1>13, <1>t, <2>1, NumbersKept
       DEF CommandGivesUp, CommandReleasesToDrain, CommandDrops, RequestGrowsStale
<1>14. ASSUME NEW c \in Commands, CommandDrains(c) PROVE NumbersOK'
  <2>1. c \in Runners /\ lock = c
    BY <1>14, <1>p DEF CommandDrains, OneAtATime, Inside, Runners
  <2>2. run' = [run EXCEPT ![c] = NewRun(gen, FALSE)] /\ pc' = [pc EXCEPT ![c] = "took"]
        /\ UNCHANGED <<lock, gen, outcome>>
    BY <1>14 DEF CommandDrains, Goto
  <2>3. run'[c].last = gen /\ \A q \in Runners \ {c} : run'[q] = run[q] /\ pc'[q] = pc[q]
    BY <2>1, <2>2, <1>p, <1>t DEF NewRun
  <2>4. gen \in Nat /\ gen' = gen /\ lock' = lock /\ outcome' = outcome
    BY <2>2 DEF TypeOK
  <2>5. \A q \in Runners : run'[q].last <= gen
    BY <2>3, <2>4 DEF NumbersOK
  <2>6. \A q \in Runners : q # lock => run'[q].last < gen
    BY <2>1, <2>3, <1>p, ProcsAssumption DEF NumbersOK
  <2>7. \A q \in Runners : pc'[q] \in LoopHeld => run'[q].last = gen
    BY <2>3 DEF NumbersOK
  <2>8. QED
    BY <2>4, <2>5, <2>6, <2>7, <1>t DEF NumbersOK
<1>15. ASSUME NEW r \in Readers, ReaderShares(r) \/ ReaderLetsGo(r) PROVE NumbersOK'
  BY <1>15 DEF ReaderShares, ReaderLetsGo, NumbersOK
<1>16. ASSUME NEW p \in Procs, Crash(p) PROVE NumbersOK'
  <2>1. \A q \in Runners : KeepsNumber(q)
    BY <1>16, <1>p, <1>t, <1>h DEF Crash, Goto, KeepsNumber, NewRun
  <2>2. QED
    BY <1>16, <1>t, <2>1, NumbersKept DEF Crash
<1>17. CASE OwnerEditsConfig \/ UNCHANGED vars
  BY <1>17 DEF OwnerEditsConfig, vars, NumbersOK
<1>18. QED
  BY <1>1, <1>2, <1>3, <1>4, <1>5, <1>6, <1>7, <1>8, <1>9, <1>10, <1>11, <1>12, <1>13, <1>14,
     <1>15, <1>16, <1>17
     DEF Next, HookNext, RunnerNext, WorkerWait, CommandNext

(* Nothing is noted, and a runner that moved is not at work, or all of it stays. *)
LEMMA NotesStand ==
  ASSUME \A q \in Runners : NoteOK(q), outcome' = outcome,
         \A q \in Runners : (pc'[q] = pc[q] /\ run'[q] = run[q]) \/ pc'[q] \notin AtWork \cup Waiting
  PROVE  \A q \in Runners : NoteOK(q)'
<1> SUFFICES ASSUME NEW q \in Runners PROVE NoteOK(q)'
  OBVIOUS
<1>1. CASE pc'[q] = pc[q] /\ run'[q] = run[q]
  BY <1>1 DEF NoteOK
<1>2. CASE pc'[q] \notin AtWork \cup Waiting
  BY <1>2 DEF NoteOK, AtWork
<1>3. QED
  BY <1>1, <1>2

(* The runner with the lock moves: no other is at work. *)
LEMMA HolderNotes ==
  ASSUME OneAtATime, NEW p \in Runners, pc[p] \in Inside, NoteOK(p)',
         \A q \in Runners \ {p} : pc'[q] = pc[q]
  PROVE  \A q \in Runners : NoteOK(q)'
<1> SUFFICES ASSUME NEW q \in Runners, q # p PROVE NoteOK(q)'
  OBVIOUS
<1>1. pc[q] \notin Inside
  BY DEF OneAtATime, Procs, Runners, Commands
<1>2. pc'[q] \notin AtWork \cup Waiting
  BY <1>1 DEF Inside
<1>3. QED
  BY <1>2 DEF NoteOK, AtWork

LEMMA NotesNext == ReportInv /\ [Next]_vars => \A p \in Runners : NoteOK(p)'
<1> SUFFICES ASSUME ReportInv, [Next]_vars PROVE \A p \in Runners : NoteOK(p)'
  OBVIOUS
<1> DEFINE Goal == \A q \in Runners : NoteOK(q)'
           Stays(q) == (pc'[q] = pc[q] /\ run'[q] = run[q]) \/ pc'[q] \notin AtWork \cup Waiting
<1> USE DEF ReportInv, Step, files
<1>p. /\ Hooks \cap Runners = {} /\ Workers \subseteq Runners /\ Runners \subseteq Procs
      /\ Hooks \subseteq Procs /\ Commands \subseteq Procs
  BY ProcsAssumption DEF Procs, Runners, Commands
<1>t. /\ run \in [Runners -> Run]
      /\ pc \in [Procs -> HookPlaces \cup CommandPlaces \cup LoopPlaces \cup {"off"}]
  BY DEF TypeOK, PlacesOK
<1>h. /\ AtWork = {"open", "opening", "round", "aside", "look", "drain", "phases", "leave", "reopen"}
      /\ Waiting = {"wait", "asideWaiting"}
      /\ LoopHeld = AtWork \cup Waiting \cup {"took", "retook", "close"}
      /\ LoopHeld \subseteq Inside
  BY DEF LoopHeld, AtWork, Waiting, Inside
<1>1. ASSUME NEW h \in Hooks,
             HookAppend(h) \/ HookFindsDamage(h) \/ HookProbe(h) \/ HookRelease(h) \/ HookSpawn(h)
      PROVE Goal
  <2>1. \A q \in Runners : Stays(q)
    BY <1>1, <1>p, <1>t, <1>h
       DEF HookAppend, HookFindsDamage, HookProbe, HookRelease, HookSpawn, Goto
  <2>2. QED
    BY <1>1, <2>1, NotesStand DEF HookAppend, HookFindsDamage, HookProbe, HookRelease, HookSpawn
<1>2. ASSUME NEW p \in Runners, Start(p) \/ Relock(p) \/ Leave(p) \/ LastCheck(p) \/ Close(p)
      PROVE Goal
  <2>1. \A q \in Runners : Stays(q)
    BY <1>2, <1>p, <1>t, <1>h DEF Start, Relock, Leave, LastCheck, Close, Goto
  <2>2. QED
    BY <1>2, <2>1, NotesStand DEF Start, Relock, Leave, LastCheck, Close
<1>3. ASSUME NEW p \in Runners, NoteTaking(p) \/ Reopen(p) \/ Look(p) PROVE Goal
  <2>1. pc[p] \in LoopHeld /\ \A q \in Runners \ {p} : pc'[q] = pc[q]
    BY <1>3, <1>p, <1>t, <1>h DEF NoteTaking, Reopen, Look, Goto
  <2>2. run'[p].last = run[p].last
    BY <1>3, <1>t DEF NoteTaking, Reopen, Look, Run
  <2>3. pc'[p] \in {"open", "round", "drain"}
    BY <1>3, <1>p, <1>t DEF NoteTaking, Reopen, Look, Goto
  <2>4. outcome' = [gen |-> run[p].last, why |-> "stopped"]
    <3>1. CASE Note(run[p].last, "stopped")
      BY <3>1, <2>1, Noted
    <3>2. CASE UNCHANGED outcome /\ Look(p) /\ ~run[p].waited
      BY <3>2, <1>h DEF Look, NoteOK
    <3>3. QED
      BY <1>3, <3>1, <3>2 DEF NoteTaking, Reopen, Look
  <2>5. pc'[p] = "drain" => ~run'[p].waited
    BY <1>3, <1>p, <1>t DEF NoteTaking, Reopen, Look, Goto, Run
  <2>6. NoteOK(p)'
    BY <2>2, <2>3, <2>4, <2>5, <1>h DEF NoteOK
  <2>7. QED
    BY <2>1, <2>6, <1>h, HolderNotes
<1>4. ASSUME NEW p \in Runners,
             TakeRestoreRequest(p) \/ StoresOpen(p) \/ OpenFails(p) \/ Round(p) \/ StepAside(p)
      PROVE Goal
  <2>1. pc[p] \in LoopHeld /\ outcome' = outcome /\ \A q \in Runners \ {p} : pc'[q] = pc[q]
    BY <1>4, <1>p, <1>t, <1>h
       DEF TakeRestoreRequest, StoresOpen, OpenFails, Round, StepAside, Goto
  <2>2. NoteOK(p)'
    BY <1>4, <1>p, <1>t, <1>h, <2>1
       DEF TakeRestoreRequest, StoresOpen, OpenFails, Round, StepAside, Goto, NoteOK, Run
  <2>3. QED
    BY <2>1, <2>2, <1>h, HolderNotes
<1>5. ASSUME NEW p \in Runners, Drain(p) \/ Fails(p) PROVE Goal
  <2>1. outcome' = outcome /\ \A q \in Runners \ {p} : pc'[q] = pc[q] /\ run'[q] = run[q]
    BY <1>5, <1>p, <1>t, <1>h DEF Drain, Fails, Goto
  <2>2. NoteOK(p)'
    BY <1>5, <1>p, <1>t, <1>h, <2>1 DEF Drain, Fails, Goto, NoteOK, Run
  <2>3. QED
    BY <2>1, <2>2 DEF NoteOK
<1>6. ASSUME NEW p \in Runners, Phases(p) PROVE Goal
  <2>1. pc[p] \in LoopHeld /\ \A q \in Runners \ {p} : pc'[q] = pc[q]
    BY <1>6, <1>p, <1>t, <1>h DEF Phases, Rest, Goto
  <2>2. outcome = [gen |-> run[p].last, why |-> "stopped"] /\ ~run[p].waited
    BY <1>6, <1>h DEF Phases, NoteOK
  <2>3. NoteOK(p)'
    <3>1. CASE run[p].call = "back" /\ run' = [run EXCEPT ![p].call = "none"]
               /\ Goto(p, IF restore THEN "reopen" ELSE "round") /\ UNCHANGED outcome
      BY <3>1, <1>p, <1>t, <1>h, <2>2 DEF Goto, NoteOK, Run
    <3>2. ASSUME NEW c \in {"none", "out", "back"}, Rest(p, c) PROVE NoteOK(p)'
      <4>1. CASE restore
        BY <3>2, <4>1, <1>p, <1>t, <1>h, <2>2 DEF Rest, Goto, NoteOK, Run
      <4>2. CASE ~restore
        <5> DEFINE well == run[p].stays /\ c = "none"
        <5>1. run'[p].waited = well /\ run'[p].call = c /\ run'[p].last = run[p].last
              /\ run'[p].stays = run[p].stays
          BY <3>2, <4>2, <1>t DEF Rest, Run
        <5>2. outcome' = [gen |-> run[p].last, why |-> IF well THEN "ok" ELSE "stopped"]
          BY <3>2, <4>2, <2>1, <2>2, Noted DEF Rest
        <5>3. pc'[p] \in {"leave", "wait"}
          BY <3>2, <4>2, <1>p, <1>t DEF Rest, Goto
        <5>4. QED
          BY <5>1, <5>2, <5>3, <1>h DEF NoteOK
      <4>3. QED
        BY <4>1, <4>2
    <3>3. QED
      BY <1>6, <1>t, <3>1, <3>2 DEF Phases, Run
  <2>4. QED
    BY <2>1, <2>3, <1>h, HolderNotes
<1>7. ASSUME NEW p \in Runners, Record(p) PROVE Goal
  <2>1. ASSUME NEW q \in Runners, pc'[q] \in AtWork \cup Waiting PROVE NoteOK(q)'
    <3>1. q # p /\ pc'[q] = pc[q] /\ run'[q] = run[q]
      BY <1>7, <2>1, <1>p, <1>t, <1>h DEF Record, Goto
    <3>2. lock = q /\ run[q].last = gen /\ lock # NoOne
      BY <2>1, <3>1, <1>p, <1>h, ProcsAssumption DEF OneAtATime, NumbersOK, Inside
    <3>3. run[p].last < gen /\ run[p].last \in Nat /\ gen \in Nat
      BY <3>1, <3>2, <1>t DEF NumbersOK, TypeOK, Run
    <3>4. outcome.gen = gen => outcome' = outcome
      BY <1>7, <3>3 DEF Record, Note
    <3>5. QED
      BY <3>1, <3>2, <3>4 DEF NoteOK
  <2>2. QED
    BY <2>1 DEF NoteOK, AtWork
<1>8. ASSUME NEW w \in Workers, CallReturns(w) PROVE Goal
  BY <1>8, <1>p, <1>t DEF CallReturns, NoteOK, Run
<1>9. ASSUME NEW w \in Workers, Wake(w) \/ TimeOut(w) \/ Exec(w) PROVE Goal
  <2>1. w \in Runners /\ pc[w] \in LoopHeld /\ outcome' = outcome
        /\ \A q \in Runners \ {w} : pc'[q] = pc[q]
    BY <1>9, <1>p, <1>t, <1>h DEF Wake, TimeOut, Exec, Goto
  <2>2. CASE Wake(w)
    <3>1. NoteOK(w)'
      BY <2>2, <1>p, <1>t, <1>h, <2>1 DEF Wake, Goto, NoteOK
    <3>2. QED
      BY <2>1, <3>1, <1>h, HolderNotes
  <2>3. CASE TimeOut(w)
    <3>1. pc[w] = "wait" /\ pc'[w] \in {"wait", "leave", "round"}
      BY <2>3, <1>p, <1>t DEF TimeOut, Goto
    <3>2. run'[w].last = run[w].last /\ run'[w].stays = run[w].stays /\ run'[w].call = run[w].call
          /\ run'[w].waited = run[w].waited
      BY <2>3, <2>1, <1>t DEF TimeOut, Run
    <3>3. NoteOK(w)'
      BY <2>1, <3>1, <3>2, <1>h DEF NoteOK
    <3>4. QED
      BY <2>1, <3>3, <1>h, HolderNotes
  <2>4. CASE Exec(w)
    <3>1. pc'[w] = "starting"
      BY <2>4, <1>p, <1>t DEF Exec, Goto
    <3>2. NoteOK(w)'
      BY <3>1, <1>h DEF NoteOK
    <3>3. QED
      BY <2>1, <3>2, <1>h, HolderNotes
  <2>5. QED
    BY <1>9, <2>2, <2>3, <2>4
<1>10. ASSUME NEW c \in Commands,
              CommandTry(c) \/ CommandGets(c) \/ CommandGivesUp(c) \/ CommandDrains(c)
              \/ CommandReleasesToDrain(c) \/ CommandDrops(c) \/ RequestGrowsStale(c)
       PROVE Goal
  <2>1. \A q \in Runners : Stays(q)
    BY <1>10, <1>p, <1>t, <1>h
       DEF CommandTry, CommandGets, CommandGivesUp, CommandDrains, CommandReleasesToDrain,
           CommandDrops, RequestGrowsStale, Goto
  <2>2. QED
    BY <1>10, <2>1, NotesStand
       DEF CommandTry, CommandGets, CommandGivesUp, CommandDrains, CommandReleasesToDrain,
           CommandDrops, RequestGrowsStale
<1>11. ASSUME NEW r \in Readers, ReaderShares(r) \/ ReaderLetsGo(r) PROVE Goal
  BY <1>11, NotesStand DEF ReaderShares, ReaderLetsGo
<1>12. ASSUME NEW p \in Procs, Crash(p) PROVE Goal
  <2>1. \A q \in Runners : Stays(q)
    BY <1>12, <1>p, <1>t, <1>h DEF Crash, Goto
  <2>2. QED
    BY <1>12, <2>1, NotesStand DEF Crash
<1>13. CASE OwnerEditsConfig \/ UNCHANGED vars
  BY <1>13, NotesStand DEF OwnerEditsConfig, vars
<1>14. QED
  BY <1>1, <1>2, <1>3, <1>4, <1>5, <1>6, <1>7, <1>8, <1>9, <1>10, <1>11, <1>12, <1>13
     DEF Next, HookNext, RunnerNext, WorkerWait, CommandNext

LEMMA ReportInit == Init => ReportInv
<1> SUFFICES ASSUME Init PROVE ReportInv
  OBVIOUS
<1>1. \A p \in Runners : pc[p] \in {"off", "ready"} /\ run[p].last = 0
  BY DEF Init, Runners, Procs, Commands, NewRun
<1>2. \A p \in Runners : pc[p] \notin LoopHeld
  BY <1>1 DEF LoopHeld, AtWork, Waiting
<1>3. NumbersOK
  <2>1. lock = NoOne /\ gen = 0 /\ outcome.gen = 0
    BY DEF Init
  <2>2. QED
    BY <1>1, <1>2, <2>1 DEF NumbersOK
<1>4. \A p \in Runners : NoteOK(p)
  BY <1>1 DEF NoteOK, AtWork, Waiting
<1>5. QED
  BY <1>3, <1>4, TypeInit, OneAtATimeInit DEF ReportInv

LEMMA ReportNext == ReportInv /\ [Next]_vars => ReportInv'
  BY TypeNext, OneAtATimeNext, NumbersNext, NotesNext DEF ReportInv

\* A worker killed at work is reported, whichever runs were killed, failed or recorded their own
\* outcome late before (worker.rs, take, note and record).
THEOREM KillsAreReported == Spec => []KilledIsReported
<1>1. ReportInv => KilledIsReported
  BY DEF ReportInv, NoteOK, KilledIsReported
<1>2. QED
  BY <1>1, ReportInit, ReportNext, PTL DEF Spec

\* While a worker waits its note says all is well exactly when no embedding call is out, whatever
\* restores, requests and kills came before (worker.rs, serve).
THEOREM WaitsAreNoFailures == Spec => []WaitIsNoFailure
<1>1. ReportInv => WaitIsNoFailure
  BY DEF ReportInv, NoteOK, WaitIsNoFailure
<1>2. QED
  BY <1>1, ReportInit, ReportNext, PTL DEF Spec
-----------------------------------------------------------------------------
(* A paid call is settled by the worker that made it.                      *)

\* Where a worker has a call out: it leaves, steps aside and replaces itself only without one.
CallPlaces == {"reopen", "open", "opening", "round", "look", "drain", "phases", "wait"}

CallInv ==
  /\ TypeOK /\ OneAtATime
  /\ \A c \in Chances : chance.left[c] <= chance.of[c]
  /\ Unharmed => \A w \in Workers : run[w].call # "none" => pc[w] \in CallPlaces

LEMMA Spent ==
  ASSUME chance \in Odds, \A k \in Chances : chance.left[k] <= chance.of[k], NEW c \in Chances, Spend(c)
  PROVE  /\ \A k \in Chances : chance'.left[k] <= chance'.of[k]
         /\ Unharmed' => Unharmed /\ c \notin {"crash", "fail"}
<1>1. /\ chance'.of = chance.of
      /\ chance'.left = [chance.left EXCEPT ![c] = @ - 1]
  BY DEF Spend, Odds
<1>2. \A k \in Chances : chance.left[k] \in Nat /\ chance.of[k] \in Nat
  BY DEF Odds
<1>3. \A k \in Chances : chance'.left[k] = IF k = c THEN chance.left[k] - 1 ELSE chance.left[k]
  BY <1>1 DEF Odds
<1>4. "crash" \in Chances /\ "fail" \in Chances
  BY DEF Chances
<1>5. \A k \in Chances : chance'.left[k] <= chance'.of[k]
  BY <1>1, <1>2, <1>3
<1>6. ASSUME Unharmed', NEW k \in {"crash", "fail"} PROVE chance.left[k] = chance.of[k] /\ k # c
  BY <1>1, <1>2, <1>3, <1>4, <1>6 DEF Unharmed
<1>7. QED
  BY <1>5, <1>6 DEF Unharmed

(* Nothing is spent, and only what HookProbe clears of the rest changes. *)
LEMMA NotSpent ==
  ASSUME chance'.left = chance.left, chance'.of = chance.of,
         \A k \in Chances : chance.left[k] <= chance.of[k]
  PROVE  /\ \A k \in Chances : chance'.left[k] <= chance'.of[k]
         /\ Unharmed' => Unharmed
  BY DEF Unharmed

LEMMA CallNext == CallInv /\ [Next]_vars => CallInv'
<1> SUFFICES ASSUME CallInv, [Next]_vars PROVE CallInv'
  OBVIOUS
<1> DEFINE Odd == /\ \A k \in Chances : chance'.left[k] <= chance'.of[k]
                  /\ Unharmed' => Unharmed
           Called == Unharmed' => \A w \in Workers : run'[w].call # "none" => pc'[w] \in CallPlaces
           Goal == Odd /\ Called
<1> USE DEF Step, files
<1>p. /\ Hooks \cap Workers = {} /\ Workers \subseteq Runners /\ Runners \subseteq Procs
      /\ Hooks \subseteq Procs /\ Commands \subseteq Procs /\ Workers \cap Commands = {}
      /\ Runners = Workers \cup Draining /\ Draining \subseteq Commands
  BY ProcsAssumption DEF Procs, Runners, Commands
<1>t. /\ run \in [Runners -> Run] /\ chance \in Odds
      /\ pc \in [Procs -> HookPlaces \cup CommandPlaces \cup LoopPlaces \cup {"off"}]
  BY DEF CallInv, TypeOK, PlacesOK, Odds
<1>c. /\ \A k \in Chances : chance.left[k] <= chance.of[k]
      /\ Unharmed => \A w \in Workers : run[w].call # "none" => pc[w] \in CallPlaces
  BY DEF CallInv
<1>u. UNCHANGED chance => Odd
  BY <1>c, NotSpent
<1>s. ASSUME Odd, UNCHANGED <<run, pc>> PROVE Goal
  <2> SUFFICES ASSUME Unharmed', NEW w \in Workers, run'[w].call # "none" PROVE pc'[w] \in CallPlaces
    BY <1>s
  <2>1. Unharmed
    BY <1>s
  <2>2. run' = run /\ pc' = pc
    BY <1>s
  <2>3. QED
    BY <2>1, <2>2, <1>c
<1>1. ASSUME NEW h \in Hooks, HookAppend(h) \/ HookRelease(h) \/ HookSpawn(h) PROVE Goal
  BY <1>1, <1>p, <1>t, <1>c, <1>u DEF HookAppend, HookRelease, HookSpawn, Goto, CallPlaces
<1>2. ASSUME NEW h \in Hooks, HookFindsDamage(h) PROVE Goal
  BY <1>2, <1>p, <1>t, <1>c, Spent DEF HookFindsDamage, Goto, Chances
<1>3. ASSUME NEW h \in Hooks, HookProbe(h) PROVE Goal
  <2>1. chance'.left = chance.left /\ chance'.of = chance.of
    BY <1>3, <1>t DEF HookProbe, Odds
  <2>2. Odd
    BY <2>1, <1>c, NotSpent
  <2>3. QED
    BY <1>3, <2>2, <1>p, <1>t, <1>c DEF HookProbe, Goto
<1>4. ASSUME NEW p \in Runners, Start(p) \/ Relock(p) \/ Leave(p) \/ LastCheck(p) \/ Close(p) PROVE Goal
  <2>1. p \in Workers => run'[p].call = "none" \/ (run'[p].call = run[p].call /\ pc[p] \notin CallPlaces)
    BY <1>4, <1>p, <1>t DEF Start, Relock, Leave, LastCheck, Close, NewRun, CallPlaces, Run
  <2>2. \A w \in Runners \ {p} : run'[w] = run[w] /\ pc'[w] = pc[w]
    BY <1>4, <1>p, <1>t DEF Start, Relock, Leave, LastCheck, Close, Goto
  <2>3. Odd
    BY <1>4, <1>u DEF Start, Relock, Leave, LastCheck, Close
  <2>4. QED
    BY <2>1, <2>2, <2>3, <1>p, <1>c
<1>5. ASSUME NEW p \in Runners, NoteTaking(p) \/ Reopen(p) \/ Look(p) PROVE Goal
  BY <1>5, <1>p, <1>t, <1>c, <1>u DEF NoteTaking, Reopen, Look, Goto, CallPlaces, Run
<1>6. ASSUME NEW p \in Runners, TakeRestoreRequest(p) \/ StoresOpen(p) \/ Round(p) \/ StepAside(p)
      PROVE Goal
  BY <1>6, <1>p, <1>t, <1>c, <1>u
     DEF TakeRestoreRequest, StoresOpen, Round, StepAside, Goto, CallPlaces, Run
<1>7. ASSUME NEW p \in Runners, OpenFails(p) \/ Fails(p) PROVE Goal
  <2>1. Odd /\ ~Unharmed'
    BY <1>7, <1>t, <1>c, Spent DEF OpenFails, Fails, Chances
  <2>2. QED
    BY <2>1
<1>8. ASSUME NEW p \in Runners, Drain(p) PROVE Goal
  <2>1. Odd
    BY <1>8, <1>t, <1>c, <1>u, Spent DEF Drain, Chances
  <2>2. QED
    BY <1>8, <2>1, <1>p, <1>t, <1>c DEF Drain, Goto, CallPlaces
<1>9. ASSUME NEW p \in Runners, Phases(p) PROVE Goal
  <2>1. Odd
    BY <1>9, <1>t, <1>c, <1>u, Spent DEF Phases, Chances
  <2>2. ASSUME p \in Workers PROVE run'[p].call # "none" => pc'[p] \in CallPlaces
    BY <1>9, <2>2, <1>p, <1>t, ProcsAssumption DEF Phases, Rest, Goto, CallPlaces, Run, Commands
  <2>3. \A w \in Runners \ {p} : run'[w] = run[w] /\ pc'[w] = pc[w]
    BY <1>9, <1>p, <1>t DEF Phases, Rest, Goto
  <2>4. QED
    BY <2>1, <2>2, <2>3, <1>p, <1>c
<1>10. ASSUME NEW p \in Runners, Record(p) PROVE Goal
  BY <1>10, <1>p, <1>t, <1>c, <1>u DEF Record, Goto, NewRun
<1>11. ASSUME NEW w \in Workers, CallReturns(w) \/ Wake(w) \/ TimeOut(w) PROVE Goal
  BY <1>11, <1>p, <1>t, <1>c, <1>u DEF CallReturns, Wake, TimeOut, Goto, CallPlaces, Run
<1>12. ASSUME NEW w \in Workers, Exec(w) PROVE Goal
  BY <1>12, <1>p, <1>t, <1>c, Spent DEF Exec, Goto, NewRun, Chances
<1>13. ASSUME NEW c \in Commands,
              CommandTry(c) \/ CommandGets(c) \/ CommandGivesUp(c) \/ CommandDrains(c)
              \/ CommandReleasesToDrain(c) \/ RequestGrowsStale(c)
       PROVE Goal
  BY <1>13, <1>p, <1>t, <1>c, <1>u
     DEF CommandTry, CommandGets, CommandGivesUp, CommandDrains, CommandReleasesToDrain,
         RequestGrowsStale, Goto
<1>14. ASSUME NEW c \in Commands, CommandDrops(c) PROVE Goal
  <2>1. Odd
    BY <1>14, <1>t, <1>c, <1>u, Spent DEF CommandDrops, Chances
  <2>2. QED
    BY <1>14, <2>1, <1>p, <1>t, <1>c DEF CommandDrops, Goto
<1>15. ASSUME NEW r \in Readers, ReaderShares(r) \/ ReaderLetsGo(r) PROVE Goal
  BY <1>15, <1>u, <1>s DEF ReaderShares, ReaderLetsGo
<1>16. ASSUME NEW p \in Procs, Crash(p) PROVE Goal
  BY <1>16, <1>t, <1>c, Spent DEF Crash, Chances
<1>17. ASSUME OwnerEditsConfig PROVE Goal
  <2>1. Odd /\ UNCHANGED <<run, pc>>
    BY <1>17, <1>t, <1>c, Spent DEF OwnerEditsConfig, Chances
  <2>2. QED
    BY <2>1, <1>s
<1>18. ASSUME UNCHANGED vars PROVE Goal
  BY <1>18, <1>u, <1>s DEF vars
<1>19. Goal
  BY <1>1, <1>2, <1>3, <1>4, <1>5, <1>6, <1>7, <1>8, <1>9, <1>10, <1>11, <1>12, <1>13, <1>14,
     <1>15, <1>16, <1>17, <1>18
     DEF Next, HookNext, RunnerNext, WorkerWait, CommandNext
<1>20. QED
  BY <1>19, TypeNext, OneAtATimeNext DEF CallInv

LEMMA CallInit == Init => CallInv
<1> SUFFICES ASSUME Init PROVE CallInv
  OBVIOUS
<1>1. \A w \in Workers : run[w].call = "none"
  BY DEF Init, Runners, NewRun
<1>2. \A c \in Chances : chance.left[c] <= chance.of[c]
  BY ProcsAssumption DEF Init
<1>3. QED
  BY <1>1, <1>2, TypeInit, OneAtATimeInit DEF CallInv

\* A call that is out, or back and not settled, has its worker holding the lock until a crash or a
\* failure: no request, restore, edit of config.toml or replaced binary makes it leave before
\* (worker.rs, serve's conditions on the call).
THEOREM PaidCallsAreSettled == Spec => []PaidCallIsSettled
<1>1. CallInv => PaidCallIsSettled
  BY DEF CallInv, PaidCallIsSettled, CallPlaces, OneAtATime, Inside, AtWork, Waiting, Procs
<1>2. QED
  BY <1>1, CallInit, CallNext, PTL DEF Spec
-----------------------------------------------------------------------------
(* No wake-up is lost.  Stated where it holds: every command runs the      *)
(* consumers before it ends, no reader of the status is taken for a holder *)
(* of the lock, and no command gives up between a worker's second look at  *)
(* the requests and its release; the findings show what is lost elsewhere. *)

\* Without harm a request is of a command that still asks, and who steps aside does it for one.
AsksOK ==
  ~chance.harmed =>
    /\ \A c \in asks : pc[c] = "asking"
    /\ \A p \in Runners : pc[p] = "close" => \E c \in Commands : pc[c] = "asking"

\* A process that will see to the work there is.
Minds(p) == Owes(p) \/ (p \in Commands /\ pc[p] = "asking")

WakeInv == TypeOK /\ OneAtATime /\ AsksOK /\ NoLostWakeUp

LEMMA AsksNext ==
  ASSUME PromptGiveUp
  PROVE  TypeOK /\ OneAtATime /\ AsksOK /\ [Next]_vars => AsksOK'
<1> SUFFICES ASSUME TypeOK, OneAtATime, AsksOK, [Next]_vars, ~chance'.harmed
             PROVE  /\ \A c \in asks' : pc'[c] = "asking"
                    /\ \A p \in Runners : pc'[p] = "close" => \E c \in Commands : pc'[c] = "asking"
  BY DEF AsksOK
<1> DEFINE Goal == /\ \A c \in asks' : pc'[c] = "asking"
                   /\ \A p \in Runners : pc'[p] = "close" => \E c \in Commands : pc'[c] = "asking"
<1> USE DEF Step, files
<1>p. /\ Hooks \cap Commands = {} /\ Hooks \cap Runners = {} /\ Workers \subseteq Runners
      /\ Hooks \subseteq Procs /\ Commands \subseteq Procs /\ Runners \subseteq Procs
      /\ Draining \subseteq Commands /\ Runners = Workers \cup Draining
  BY ProcsAssumption DEF Procs, Runners, Commands
<1>t. /\ run \in [Runners -> Run] /\ chance \in Odds /\ asks \subseteq Commands
      /\ pc \in [Procs -> HookPlaces \cup CommandPlaces \cup LoopPlaces \cup {"off"}]
  BY DEF TypeOK, PlacesOK, Odds
<1>a. ASSUME ~chance.harmed
      PROVE  /\ \A c \in asks : pc[c] = "asking"
             /\ \A p \in Runners : pc[p] = "close" => \E c \in Commands : pc[c] = "asking"
  BY <1>a DEF AsksOK
<1>h. ASSUME NEW k \in Chances, Spend(k) PROVE k \notin {"crash", "fail"} /\ ~chance.harmed
  BY <1>h, <1>t DEF Spend, Odds
<1>k. ASSUME ~chance.harmed, asks' = asks, NEW p \in Procs, pc[p] # "asking",
             \A q \in Procs \ {p} : pc'[q] = pc[q], pc'[p] # "close" PROVE Goal
  BY <1>k, <1>a, <1>p, <1>t
<1>1. ASSUME NEW h \in Hooks, HookAppend(h) \/ HookFindsDamage(h) \/ HookRelease(h) PROVE Goal
  BY <1>1, <1>k, <1>h, <1>p, <1>t DEF HookAppend, HookFindsDamage, HookRelease, Goto, Chances
<1>2. ASSUME NEW h \in Hooks, HookProbe(h) PROVE Goal
  <2>1. CASE ~chance.harmed
    BY <1>2, <1>k, <1>p, <1>t, <2>1 DEF HookProbe, Goto
  <2>2. CASE chance.harmed
    <3>1. asks = {} /\ Free /\ asks' = asks /\ pc' = [pc EXCEPT ![h] = "probing"]
      BY <1>2, <1>t, <2>2 DEF HookProbe, Goto, Asked, Odds
    <3>2. \A p \in Runners : pc[p] # "close"
      BY <3>1, <1>p, ProcsAssumption DEF Free, OneAtATime, Inside
    <3>3. QED
      BY <3>1, <3>2, <1>p, <1>t
  <2>3. QED
    BY <2>1, <2>2
<1>3. ASSUME NEW h \in Hooks, HookSpawn(h) PROVE Goal
  BY <1>3, <1>a, <1>p, <1>t, ProcsAssumption DEF HookSpawn
<1>4. ASSUME NEW p \in Runners,
             Start(p) \/ NoteTaking(p) \/ Reopen(p) \/ TakeRestoreRequest(p) \/ StoresOpen(p)
      PROVE Goal
  BY <1>4, <1>k, <1>p, <1>t DEF Start, NoteTaking, Reopen, TakeRestoreRequest, StoresOpen, Goto
<1>5. ASSUME NEW p \in Runners, OpenFails(p) \/ Fails(p) PROVE Goal
  BY <1>5, <1>h DEF OpenFails, Fails, Chances
<1>6. ASSUME NEW p \in Runners, Round(p) \/ Look(p) \/ Drain(p) PROVE Goal
  <2>1. ~chance.harmed
    BY <1>6, <1>h DEF Round, Look, Drain, Chances
  <2>2. asks' = asks /\ pc[p] # "asking" /\ \A q \in Procs \ {p} : pc'[q] = pc[q]
    BY <1>6, <1>p, <1>t DEF Round, Look, Drain, Goto
  <2>3. pc'[p] # "close"
    BY <1>6, <1>p, <1>t DEF Round, Look, Drain, Goto
  <2>4. QED
    BY <2>1, <2>2, <2>3, <1>k, <1>p
<1>7. ASSUME NEW p \in Runners, StepAside(p) PROVE Goal
  <2>1. ~chance.harmed /\ asks' = asks /\ \A q \in Procs \ {p} : pc'[q] = pc[q]
    BY <1>7, <1>p, <1>t DEF StepAside, Goto
  <2>2. pc[p] # "asking" /\ (pc'[p] = "close" => Asked)
    BY <1>7, <1>p, <1>t DEF StepAside, Goto
  <2>3. Asked => \E c \in Commands : pc[c] = "asking" /\ c # p
    BY <2>1, <2>2, <1>a, <1>t DEF Asked
  <2>4. \A q \in Runners : pc'[q] = "close" => \E c \in Commands : pc'[c] = "asking"
    BY <2>1, <2>2, <2>3, <1>a, <1>p
  <2>5. QED
    BY <2>1, <2>2, <2>4, <1>a, <1>p, <1>t
<1>8. ASSUME NEW p \in Runners, Phases(p) PROVE Goal
  <2>1. ~chance.harmed
    BY <1>8, <1>h DEF Phases, Chances
  <2>2. asks' = asks /\ pc[p] # "asking" /\ \A q \in Procs \ {p} : pc'[q] = pc[q]
    BY <1>8, <1>p, <1>t DEF Phases, Rest, Goto
  <2>3. pc'[p] # "close"
    BY <1>8, <1>p, <1>t DEF Phases, Rest, Goto
  <2>4. QED
    BY <2>1, <2>2, <2>3, <1>k, <1>p
<1>9. ASSUME NEW p \in Runners, Leave(p) \/ LastCheck(p) \/ Relock(p) \/ Close(p) \/ Record(p)
      PROVE Goal
  <2>1. ~chance.harmed /\ asks' = asks /\ pc[p] # "asking" /\ \A q \in Procs \ {p} : pc'[q] = pc[q]
    BY <1>9, <1>p, <1>t DEF Leave, LastCheck, Relock, Close, Record, Goto
  <2>2. pc'[p] # "close"
    BY <1>9, <1>p, <1>t DEF Leave, LastCheck, Relock, Close, Record, Goto
  <2>3. QED
    BY <2>1, <2>2, <1>k, <1>p
<1>10. ASSUME NEW w \in Workers, CallReturns(w) PROVE Goal
  BY <1>10, <1>a DEF CallReturns
<1>11. ASSUME NEW w \in Workers, Wake(w) \/ TimeOut(w) \/ Exec(w) PROVE Goal
  <2>1. ~chance.harmed /\ asks' = asks
    BY <1>11, <1>h DEF Wake, TimeOut, Exec, Chances
  <2>2. pc[w] # "asking" /\ (\A q \in Procs \ {w} : pc'[q] = pc[q]) /\ pc'[w] # "close"
    BY <1>11, <1>p, <1>t DEF Wake, TimeOut, Exec, Goto
  <2>3. QED
    BY <2>1, <2>2, <1>k, <1>p
<1>12. ASSUME NEW c \in Commands, CommandTry(c) PROVE Goal
  BY <1>12, <1>a, <1>p, <1>t DEF CommandTry, Goto
<1>13. ASSUME NEW c \in Commands, CommandGets(c) PROVE Goal
  <2>1. \A p \in Runners : pc[p] # "close"
    BY <1>13, <1>p, ProcsAssumption DEF CommandGets, Free, OneAtATime, Inside
  <2>2. QED
    BY <1>13, <2>1, <1>a, <1>p, <1>t DEF CommandGets, Goto
<1>14. ASSUME NEW c \in Commands, CommandGivesUp(c) PROVE Goal
  BY <1>14, <1>a, <1>p, <1>t DEF CommandGivesUp, Goto
<1>15. ASSUME NEW c \in Commands, CommandDrains(c) \/ CommandReleasesToDrain(c) \/ CommandDrops(c)
       PROVE Goal
  <2>1. ~chance.harmed
    BY <1>15, <1>h DEF CommandDrains, CommandReleasesToDrain, CommandDrops, Chances
  <2>2. QED
    BY <1>15, <2>1, <1>k, <1>p, <1>t DEF CommandDrains, CommandReleasesToDrain, CommandDrops, Goto
<1>16. ASSUME NEW c \in Commands, RequestGrowsStale(c) PROVE Goal
  BY <1>16, <1>a DEF RequestGrowsStale
<1>17. ASSUME NEW r \in Readers, ReaderShares(r) \/ ReaderLetsGo(r) PROVE Goal
  BY <1>17, <1>a DEF ReaderShares, ReaderLetsGo
<1>18. ASSUME NEW p \in Procs, Crash(p) PROVE Goal
  BY <1>18, <1>h DEF Crash, Chances
<1>19. ASSUME OwnerEditsConfig PROVE Goal
  BY <1>19, <1>a, <1>h DEF OwnerEditsConfig, Chances
<1>20. ASSUME UNCHANGED vars PROVE Goal
  BY <1>20, <1>a DEF vars
<1>21. QED
  BY <1>1, <1>2, <1>3, <1>4, <1>5, <1>6, <1>7, <1>8, <1>9, <1>10, <1>11, <1>12, <1>13, <1>14,
     <1>15, <1>16, <1>17, <1>18, <1>19, <1>20
     DEF Next, HookNext, RunnerNext, WorkerWait, CommandNext

(* Whoever holds the lock minds the work, or steps aside for a command that will. *)
LEMMA HolderMinds ==
  ASSUME Dropping = {}, Readers = {}, TypeOK, OneAtATime, AsksOK, ~chance.harmed, ~Free,
         NEW x \in Procs, pc[x] \notin Inside,
         pc[x] = "asking" => \A p \in Runners : pc[p] # "close"
  PROVE  \E p \in Procs \ {x} : Minds(p)
<1>1. lock \in Procs /\ pc[lock] \in Inside /\ lock # x
  BY DEF TypeOK, Free, OneAtATime
<1>2. CASE pc[lock] = "close"
  <2>1. lock \in Runners
    BY <1>1, <1>2 DEF TypeOK, PlacesOK, Procs, Runners, Commands, HookPlaces, CommandPlaces
  <2>2. PICK c \in Commands : pc[c] = "asking"
    BY <1>2, <2>1 DEF AsksOK
  <2>3. QED
    BY <1>2, <2>1, <2>2 DEF Minds, Procs
<1>3. CASE pc[lock] # "close"
  <2>1. CASE lock \in Hooks
    <3>1. pc[lock] = "probing"
      BY <1>1, <2>1 DEF TypeOK, PlacesOK, HookPlaces, Inside, AtWork, Waiting
    <3>2. QED
      BY <1>1, <2>1, <3>1 DEF Minds, Owes
  <2>2. CASE lock \in Runners
    <3>1. pc[lock] \notin {"off", "ready", "asking", "done", "close", "ending"}
      BY <1>1, <1>3 DEF Inside, AtWork, Waiting
    <3>2. QED
      BY <1>1, <2>2, <3>1 DEF Minds, Owes
  <2>3. QED
    BY <1>1, <2>1, <2>2 DEF Procs, Runners, Commands
<1>4. QED
  BY <1>2, <1>3

LEMMA WakeNext ==
  ASSUME Dropping = {}, Readers = {}, PromptGiveUp
  PROVE  WakeInv /\ [Next]_vars => NoLostWakeUp'
<1> SUFFICES ASSUME WakeInv, [Next]_vars, ~chance'.harmed, Behind' \/ restore'
             PROVE  \E p \in Procs : Minds(p)'
  BY DEF NoLostWakeUp, Minds
<1> DEFINE Goal == \E p \in Procs : Minds(p)'
<1> USE DEF Step, files
<1>p. /\ Hooks \cap Commands = {} /\ Hooks \cap Runners = {} /\ Workers \subseteq Runners
      /\ Hooks \subseteq Procs /\ Commands \subseteq Procs /\ Runners \subseteq Procs
      /\ Commands \subseteq Runners /\ Runners = Workers \cup Draining
  BY ProcsAssumption DEF Procs, Runners, Commands
<1>t. /\ run \in [Runners -> Run] /\ chance \in Odds /\ asks \subseteq Commands
      /\ pc \in [Procs -> HookPlaces \cup CommandPlaces \cup LoopPlaces \cup {"off"}]
      /\ TypeOK /\ OneAtATime /\ AsksOK /\ NoLostWakeUp
  BY DEF WakeInv, TypeOK, PlacesOK, Odds
<1>h. ASSUME NEW k \in Chances, Spend(k) PROVE k \notin {"crash", "fail"} /\ ~chance.harmed
  BY <1>h, <1>t DEF Spend, Odds
<1>o. ASSUME NEW p \in Runners, pc'[p] \notin {"off", "ready", "asking", "done", "close", "ending"}
      PROVE Goal
  BY <1>o, <1>p DEF Minds, Owes
\* Who minds and is not the one that moves still does.
<1>m. ASSUME NEW x \in Procs, \E q \in Procs \ {x} : Minds(q), \A q \in Procs \ {x} : pc'[q] = pc[q]
      PROVE Goal
  BY <1>m DEF Minds, Owes
<1>n. ASSUME ~chance.harmed, UNCHANGED <<pc, top, read, restore>> PROVE Goal
  <2>1. \E q \in Procs : Minds(q)
    BY <1>n, <1>t, <1>p DEF NoLostWakeUp, Minds, Behind
  <2>2. QED
    BY <1>n, <2>1 DEF Minds, Owes
<1>1. ASSUME NEW h \in Hooks, HookAppend(h) \/ HookFindsDamage(h) \/ HookRelease(h) PROVE Goal
  <2>1. pc'[h] \in {"wrote", "spawning"}
    BY <1>1, <1>p, <1>t DEF HookAppend, HookFindsDamage, HookRelease, Goto
  <2>2. QED
    BY <2>1, <1>p DEF Minds, Owes
<1>2. ASSUME NEW h \in Hooks, HookProbe(h) PROVE Goal
  <2>1. CASE Free
    <3>1. pc'[h] = "probing"
      BY <1>2, <1>p, <1>t, <2>1 DEF HookProbe, Goto
    <3>2. QED
      BY <3>1, <1>p DEF Minds, Owes
  <2>2. CASE ~Free
    <3>1. pc[h] = "wrote" /\ ~chance.harmed /\ \A q \in Procs \ {h} : pc'[q] = pc[q]
      BY <1>2, <1>p, <1>t, <2>2 DEF HookProbe, Goto
    <3>2. QED
      BY <2>2, <3>1, <1>p, <1>t, <1>m, HolderMinds, InsideKnown DEF InsideIs
  <2>3. QED
    BY <2>1, <2>2
<1>3. ASSUME NEW h \in Hooks, HookSpawn(h) PROVE Goal
  <2>1. PICK w \in Workers : pc' = [pc EXCEPT ![h] = "done", ![w] = "starting"]
    BY <1>3 DEF HookSpawn
  <2>2. pc'[w] = "starting"
    BY <2>1, <1>p, <1>t
  <2>3. QED
    BY <2>2, <1>o, <1>p
<1>4. ASSUME NEW p \in Runners, Start(p) \/ Relock(p) PROVE Goal
  <2>1. CASE Free
    <3>1. pc'[p] \in {"took", "retook"}
      BY <1>4, <1>p, <1>t, <2>1 DEF Start, Relock, Goto
    <3>2. QED
      BY <3>1, <1>o
  <2>2. CASE ~Free
    <3>1. pc[p] \in {"starting", "relock"} /\ ~chance.harmed /\ \A q \in Procs \ {p} : pc'[q] = pc[q]
      BY <1>4, <1>p, <1>t, <2>2 DEF Start, Relock, Goto
    <3>2. QED
      BY <2>2, <3>1, <1>p, <1>t, <1>m, HolderMinds, InsideKnown DEF InsideIs
  <2>3. QED
    BY <2>1, <2>2
<1>5. ASSUME NEW p \in Runners,
             NoteTaking(p) \/ Reopen(p) \/ TakeRestoreRequest(p) \/ StoresOpen(p) \/ Round(p) \/ Look(p)
      PROVE Goal
  <2>1. pc'[p] \in {"open", "opening", "round", "reopen", "aside", "look", "drain"}
    BY <1>5, <1>p, <1>t DEF NoteTaking, Reopen, TakeRestoreRequest, StoresOpen, Round, Look, Goto
  <2>2. QED
    BY <2>1, <1>o
<1>6. ASSUME NEW p \in Runners, OpenFails(p) \/ Fails(p) PROVE Goal
  BY <1>6, <1>h DEF OpenFails, Fails, Chances
<1>7. ASSUME NEW p \in Runners, StepAside(p) PROVE Goal
  <2>1. pc'[p] \in {"close", "look", "wait"}
    BY <1>7, <1>p, <1>t DEF StepAside, Goto
  <2>2. CASE pc'[p] = "close"
    <3>1. \E c \in Commands : pc'[c] = "asking"
      BY <2>2, <1>t, AsksNext DEF AsksOK
    <3>2. QED
      BY <3>1, <1>p DEF Minds
  <2>3. QED
    BY <2>1, <2>2, <1>o
<1>8. ASSUME NEW p \in Runners, Drain(p) PROVE Goal
  <2>1. pc'[p] \in {"drain", "phases"}
    BY <1>8, <1>p, <1>t DEF Drain, Goto
  <2>2. QED
    BY <2>1, <1>o
<1>9. ASSUME NEW p \in Runners, Phases(p) PROVE Goal
  <2>1. pc'[p] \in {"reopen", "round", "leave", "wait"}
    BY <1>9, <1>p, <1>t DEF Phases, Rest, Goto
  <2>2. QED
    BY <2>1, <1>o
<1>10. ASSUME NEW p \in Runners, Leave(p) PROVE Goal
  <2>1. pc'[p] = "last"
    BY <1>10, <1>p, <1>t DEF Leave, Goto
  <2>2. QED
    BY <2>1, <1>o
<1>11. ASSUME NEW p \in Runners, LastCheck(p) PROVE Goal
  <2>1. pc'[p] = "relock"
    BY <1>11, <1>p, <1>t DEF LastCheck, Goto, Behind
  <2>2. QED
    BY <2>1, <1>o
<1>12. ASSUME NEW p \in Runners, Close(p) PROVE Goal
  <2>1. pc[p] = "close" /\ ~chance.harmed /\ \A q \in Procs \ {p} : pc'[q] = pc[q]
    BY <1>12, <1>p, <1>t DEF Close, Goto
  <2>2. PICK c \in Commands : pc[c] = "asking"
    BY <2>1, <1>t DEF AsksOK
  <2>3. Minds(c) /\ c # p
    BY <2>1, <2>2 DEF Minds
  <2>4. QED
    BY <2>1, <2>3, <1>p, <1>m
<1>13. ASSUME NEW p \in Runners, Record(p) PROVE Goal
  <2>1. pc[p] = "ending" /\ ~chance.harmed /\ UNCHANGED <<top, read, restore>>
        /\ \A q \in Procs \ {p} : pc'[q] = pc[q]
    BY <1>13, <1>p, <1>t DEF Record, Goto
  <2>2. PICK q \in Procs : Minds(q)
    BY <2>1, <1>t, <1>p DEF NoLostWakeUp, Minds, Behind
  <2>3. q # p
    BY <2>1, <2>2, <1>p DEF Minds, Owes
  <2>4. QED
    BY <2>1, <2>2, <2>3, <1>p, <1>m
<1>14. ASSUME NEW w \in Workers, CallReturns(w) PROVE Goal
  BY <1>14, <1>n DEF CallReturns
<1>15. ASSUME NEW w \in Workers, Wake(w) \/ TimeOut(w) \/ Exec(w) PROVE Goal
  <2>1. pc'[w] \in {"reopen", "asideWaiting", "round", "leave", "wait", "starting"}
    BY <1>15, <1>p, <1>t DEF Wake, TimeOut, Exec, Goto
  <2>2. QED
    BY <2>1, <1>o, <1>p
<1>16. ASSUME NEW c \in Commands, CommandTry(c) PROVE Goal
  <2>1. pc'[c] \in {"working", "asking"}
    BY <1>16, <1>p, <1>t DEF CommandTry, Goto
  <2>2. QED
    BY <2>1, <1>p, <1>o DEF Minds
<1>17. ASSUME NEW c \in Commands, CommandGivesUp(c) PROVE Goal
  <2>1. /\ pc[c] = "asking" /\ ~Free /\ ~chance.harmed
        /\ \A p \in Runners : pc[p] # "close"
        /\ \A q \in Procs \ {c} : pc'[q] = pc[q]
    BY <1>17, <1>p, <1>t DEF CommandGivesUp, Goto
  <2>2. QED
    BY <2>1, <1>p, <1>t, <1>m, HolderMinds, InsideKnown DEF InsideIs
<1>18. ASSUME NEW c \in Commands, CommandGets(c) \/ CommandDrains(c) \/ CommandReleasesToDrain(c)
       PROVE Goal
  <2>1. pc'[c] \in {"working", "took", "starting"}
    BY <1>18, <1>p, <1>t DEF CommandGets, CommandDrains, CommandReleasesToDrain, Goto
  <2>2. QED
    BY <2>1, <1>p, <1>o
<1>19. ASSUME NEW c \in Commands, CommandDrops(c) PROVE Goal
  BY <1>19, <1>h DEF CommandDrops, Chances
<1>20. ASSUME NEW c \in Commands, RequestGrowsStale(c) PROVE Goal
  BY <1>20, <1>n DEF RequestGrowsStale
<1>21. ASSUME NEW p \in Procs, Crash(p) PROVE Goal
  BY <1>21, <1>h DEF Crash, Chances
<1>22. ASSUME OwnerEditsConfig PROVE Goal
  BY <1>22, <1>h, <1>n DEF OwnerEditsConfig, Chances
<1>23. ASSUME UNCHANGED vars PROVE Goal
  BY <1>23, <1>n DEF vars
<1>24. QED
  BY <1>1, <1>2, <1>3, <1>4, <1>5, <1>6, <1>7, <1>8, <1>9, <1>10, <1>11, <1>12, <1>13, <1>14,
     <1>15, <1>16, <1>17, <1>18, <1>19, <1>20, <1>21, <1>22, <1>23
     DEF Next, HookNext, RunnerNext, WorkerWait, CommandNext

LEMMA WakeInit == Init => WakeInv
<1> SUFFICES ASSUME Init PROVE WakeInv
  OBVIOUS
<1>1. AsksOK
  BY DEF Init, AsksOK, Runners, Procs, Commands
<1>2. NoLostWakeUp
  BY DEF Init, NoLostWakeUp, Behind
<1>3. QED
  BY <1>1, <1>2, TypeInit, OneAtATimeInit DEF WakeInv

\* While nothing crashed or failed since a hook last found the lock free, work that is not done is
\* somebody's: a hook's, a run's before its last check, or a command's that will drain.
THEOREM WakeUpsAreKept ==
  ASSUME Dropping = {}, Readers = {}, PromptGiveUp
  PROVE  Spec => []NoLostWakeUp
<1>1. WakeInv /\ [Next]_vars => WakeInv'
  BY TypeNext, OneAtATimeNext, AsksNext, WakeNext DEF WakeInv
<1>2. WakeInv => NoLostWakeUp
  BY DEF WakeInv
<1>3. QED
  BY <1>1, <1>2, WakeInit, PTL DEF Spec
-----------------------------------------------------------------------------
(* Every step is a step of WakeUp or none: the safety half of what         *)
(* WakeUpIsNeverLost states, with every crash and every failure counted.   *)

(* A step that leaves the work alone at most harms, or is another's look.  *)
LEMMA PromiseQuiet ==
  ASSUME TypeOK', UNCHANGED <<top, read, restore>>
  PROVE  [Promise!Next]_Promise!vars
<1>1. chance'.harmed \in BOOLEAN
  BY DEF TypeOK
<1>2. CASE chance'.harmed = TRUE
  BY <1>2 DEF Promise!Next, Promise!Harm
<1>3. CASE chance'.harmed = FALSE
  BY <1>3 DEF Promise!Next, Promise!AskAgain
<1>4. QED
  BY <1>1, <1>2, <1>3

LEMMA PromiseNext == TypeOK /\ [Next]_vars => [Promise!Next]_Promise!vars
<1> SUFFICES ASSUME TypeOK, [Next]_vars PROVE [Promise!Next]_Promise!vars
  OBVIOUS
<1> DEFINE Goal == [Promise!Next]_Promise!vars
<1> USE DEF Step, files
<1>t. chance \in Odds /\ TypeOK'
  BY TypeNext DEF TypeOK, Odds
<1>1. ASSUME NEW h \in Hooks, HookAppend(h) PROVE Goal
  BY <1>1 DEF HookAppend, Promise!Next, Promise!Append
<1>2. ASSUME NEW h \in Hooks, HookFindsDamage(h) PROVE Goal
  <2>1. chance'.harmed = chance.harmed
    BY <1>2, <1>t DEF HookFindsDamage, Spend, Odds
  <2>2. Promise!AskRestore
    BY <1>2, <2>1 DEF HookFindsDamage, Promise!AskRestore
  <2>3. QED
    BY <2>2 DEF Promise!Next
<1>3. ASSUME NEW h \in Hooks, HookNext(h) PROVE Goal
  BY <1>3, <1>t, PromiseQuiet DEF HookNext, HookProbe, HookRelease, HookSpawn
<1>4. ASSUME NEW p \in Runners,
             Start(p) \/ NoteTaking(p) \/ Reopen(p) \/ StoresOpen(p) \/ Round(p) \/ StepAside(p)
             \/ Look(p) \/ Phases(p)
      PROVE Goal
  BY <1>4, <1>t, PromiseQuiet DEF Start, NoteTaking, Reopen, StoresOpen, Round, StepAside, Look, Phases
<1>5. ASSUME NEW p \in Runners, TakeRestoreRequest(p) PROVE Goal
  <2>1. CASE restore
    <3>1. Promise!TakeRestore
      BY <1>5, <2>1 DEF TakeRestoreRequest, Promise!TakeRestore
    <3>2. QED
      BY <3>1 DEF Promise!Next
  <2>2. CASE ~restore
    <3>1. restore' = restore
      BY <1>5, <2>2 DEF TakeRestoreRequest, TypeOK
    <3>2. QED
      BY <1>5, <3>1, <1>t, PromiseQuiet DEF TakeRestoreRequest
  <2>3. QED
    BY <2>1, <2>2
<1>6. ASSUME NEW p \in Runners, OpenFails(p) PROVE Goal
  <2>1. chance'.harmed = TRUE
    BY <1>6, <1>t DEF OpenFails, Spend, Odds
  <2>2. restore' \in {restore, TRUE}
    BY <1>6, <1>t DEF OpenFails, TypeOK
  <2>3. Promise!Harm
    BY <1>6, <2>1, <2>2 DEF OpenFails, Promise!Harm
  <2>4. QED
    BY <2>3 DEF Promise!Next
<1>7. ASSUME NEW p \in Runners, Drain(p) PROVE Goal
  <2>1. CASE UNCHANGED read
    BY <1>7, <2>1, <1>t, PromiseQuiet DEF Drain
  <2>2. CASE Behind /\ read' \in read + 1 .. top /\ UNCHANGED chance
    <3>1. Promise!Index
      BY <1>7, <2>2 DEF Drain, Behind, Promise!Index
    <3>2. QED
      BY <3>1 DEF Promise!Next
  <2>3. QED
    BY <1>7, <2>1, <2>2 DEF Drain
<1>8. ASSUME NEW p \in Runners,
             Leave(p) \/ LastCheck(p) \/ Relock(p) \/ Close(p) \/ Record(p) \/ Fails(p)
      PROVE Goal
  BY <1>8, <1>t, PromiseQuiet DEF Leave, LastCheck, Relock, Close, Record, Fails
<1>9. ASSUME NEW w \in Workers, WorkerWait(w) \/ Exec(w) PROVE Goal
  BY <1>9, <1>t, PromiseQuiet DEF WorkerWait, CallReturns, Wake, TimeOut, Exec
<1>10. ASSUME NEW c \in Commands, CommandTry(c) \/ CommandNext(c) \/ RequestGrowsStale(c) PROVE Goal
  BY <1>10, <1>t, PromiseQuiet
     DEF CommandTry, CommandNext, CommandGets, CommandGivesUp, CommandDrains, CommandReleasesToDrain,
         CommandDrops, RequestGrowsStale
<1>11. ASSUME NEW r \in Readers, ReaderShares(r) \/ ReaderLetsGo(r) PROVE Goal
  BY <1>11, <1>t, PromiseQuiet DEF ReaderShares, ReaderLetsGo
<1>12. ASSUME NEW p \in Procs, Crash(p) PROVE Goal
  BY <1>12, <1>t, PromiseQuiet DEF Crash
<1>13. ASSUME OwnerEditsConfig PROVE Goal
  BY <1>13, <1>t, PromiseQuiet DEF OwnerEditsConfig
<1>14. ASSUME UNCHANGED vars PROVE Goal
  BY <1>14, <1>t, PromiseQuiet DEF vars
<1>15. QED
  BY <1>1, <1>2, <1>3, <1>4, <1>5, <1>6, <1>7, <1>8, <1>9, <1>10, <1>11, <1>12, <1>13, <1>14
     DEF Next, HookNext, RunnerNext

\* Whatever crashes or fails, the work changes as WakeUp says: what is read only grows, never past
\* what was appended, and a restore request goes only by being taken and comes only by damage found
\* or a restore that failed (worker.rs, serve_until_done and serve; hook.rs, run_io).
THEOREM ImplementsWakeUp == Spec => Promise!Init /\ [][Promise!Next]_Promise!vars
<1>1. Init => Promise!Init
  BY DEF Init, Promise!Init
<1>2. QED
  BY <1>1, TypeInit, TypeNext, PromiseNext, PTL DEF Spec
=============================================================================
