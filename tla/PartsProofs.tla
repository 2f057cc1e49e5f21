---------------------------- MODULE PartsProofs ----------------------------
(***************************************************************************)
(* What TLAPS proves of Forget.tla, for every set of jobs and every        *)
(* budget: the types, and that `forget --status` tells the truth of every  *)
(* job unless a reader keeps raw.db-wal from truncating while more than    *)
(* one record is forgotten (the case ForgetLeftover.cfg shows).  And, from *)
(* the proofs of each part, what MCParts says of the parts side by side:   *)
(* its instances meet the parts' hypotheses, a part's step is a step of    *)
(* its own specification, and the others rest.                             *)
(***************************************************************************)
EXTENDS MCParts, Integers, TLAPS

\* A purge is steady when no reader keeps raw.db-wal from truncating, or when there
\* is one record to forget: the case ForgetLeftover.cfg shows is left out.
Steady == (\A b \in Budgets : b["busy"] = 0) \/ (\A r, s \in Records : r = s)
NoBusy == (\A b \in Budgets : b["busy"] = 0) => chance["busy"] = 0

Locked == {"uids", "rows", "truncate", "step2", "rebuilt", "aside", "step3", "look", "ops",
           "segments", "copies", "step4", "shown", "paid", "step5"}
Later  == {"ops", "segments", "copies", "step4", "shown", "paid", "step5"}
LockOK == locked <=> at \in Locked

\* What the purge took in hand is in the logs, which no restore takes away.
LoggedOK ==
  /\ me.first \cup me.rebuild \cup me.past \subseteq logged
  /\ \A j \in Jobs : job[j] >= 2 => j \in logged

\* What each step promises of a job past it.
StepsOK ==
  \A j \in Jobs :
    /\ job[j] >= 2 => j \notin held["raw"] /\ j \notin held["wal"]
    /\ job[j] >= 3 => j \notin held["knowledge"] /\ j \notin held["aside"]
    /\ job[j] >= 4 => j \notin held["ops"] /\ j \notin held["segments"] /\ j \notin held["copies"]
    /\ job[j] >= 5 => j \notin held["shown"]

\* A text the rebuild is for is in raw.db-wal only while raw.db holds it too.
Clean == \A j \in me.rebuild : j \in held["wal"] => j \in held["raw"]

Step2OK ==
  /\ me.todo \subseteq me.first
  /\ at \in {"ask", "uids", "rows", "truncate", "step2"} => me.first \cap me.rebuild = {}
  /\ at = "rows" => me.first \cap Records # {}
  /\ me.truncated => at \notin {"ask", "uids", "rows", "truncate"}
  /\ at = "step2" /\ me.truncated => held["wal"] = {}
  /\ Steady => Clean \/ (at = "truncate" /\ chance["busy"] = 0) \/ (at = "step2" /\ me.truncated)

Step3OK ==
  /\ at \in {"rebuilt", "sweep", "last", "aside"} => me.rebuild \cap held["knowledge"] = {}
  /\ at = "step3" => me.rebuild \cap (held["knowledge"] \cup held["aside"]) = {}

Step4OK ==
  /\ held["segments"] \subseteq Records
  /\ at \in Later => /\ \A j \in me.past : job[j] >= 3
                     /\ ~me.owed => \A r \in me.past \cap Records : job[r] = 5
  /\ at \in Later \ {"ops"} => me.past \cap held["ops"] = {}
  /\ at \in Later \ {"ops", "segments"} => me.past \cap held["segments"] = {}
  /\ at \in Later \ {"ops", "segments", "copies"} => me.past \cap held["copies"] = {}
  /\ at \in {"paid", "step5"} => me.past \cap held["shown"] = {}

\* The inductive invariant; StepsOK is the part StatusIsTrue follows from.
IInv == TypeOK /\ NoBusy /\ LockOK /\ LoggedOK /\ StepsOK /\ Step2OK /\ Step3OK /\ Step4OK
-----------------------------------------------------------------------------
Mine == [first : SUBSET Jobs, todo : SUBSET Uids, rebuild : SUBSET Jobs, own : SUBSET Jobs,
         truncated : BOOLEAN, past : SUBSET Jobs, owed : BOOLEAN]     \* the type of me

LEMMA SpendType ==
  ASSUME chance \in [Chances -> Nat], NEW c \in Chances, Spend(c)
  PROVE  chance' \in [Chances -> Nat]
  BY DEF Spend

LEMMA IdleType == Idle \in Mine
  BY DEF Idle, Mine

\* The steps of the jobs stay steps.
LEMMA FinishType ==
  ASSUME job \in [Jobs -> 0 .. 5], NEW jobs, NEW step \in 1 .. 5, Finish(jobs, step) \/ Restart(jobs, step)
  PROVE  job' \in [Jobs -> 0 .. 5]
  BY DEF Finish, Restart

LEMMA FinishCases ==
  ASSUME NEW jobs, NEW step, Finish(jobs, step)
  PROVE  \A j \in Jobs : job'[j] = job[j] \/ (j \in jobs /\ job'[j] = step)
  BY DEF Finish

LEMMA ReconcileType ==
  ASSUME job \in [Jobs -> 0 .. 5], logged \subseteq Jobs, Reconcile
  PROVE  job' \in [Jobs -> 0 .. 5] /\ logged' \subseteq Jobs
  BY DEF Reconcile, Registered

\* The types, action by action.
LEMMA TypeNext == TypeOK /\ [Next]_vars => TypeOK'
<1> SUFFICES ASSUME TypeOK, [Next]_vars PROVE TypeOK'
  OBVIOUS
<1> USE ForgetAssumption DEF TypeOK, Stores, Chances
<1>0. Uids \subseteq Jobs /\ Records \subseteq Jobs
  BY DEF Jobs
<1> USE <1>0
<1>1. ASSUME Continue PROVE TypeOK'
  <2>1. job' \in [Jobs -> 0 .. 5] /\ logged' \subseteq Jobs
    BY <1>1, ReconcileType DEF Continue
  <2>2. me' \in Mine
    <3>1. PICK first \in SUBSET Jobs, again \in SUBSET Jobs :
            me' = [Idle EXCEPT !.first = first, !.todo = first \cap Uids, !.rebuild = again]
      BY <1>1 DEF Continue
    <3>2. first \cap Uids \in SUBSET Uids
      OBVIOUS
    <3>3. QED
      BY <3>1, <3>2, IdleType DEF Mine
  <2>3. QED
    BY <1>1, <2>1, <2>2 DEF Continue, Mine
<1>2. ASSUME LockForStep2 PROVE TypeOK'
  BY <1>2 DEF LockForStep2
<1>3. ASSUME NEW u \in Uids, PurgeUid(u) PROVE TypeOK'
  BY <1>3 DEF PurgeUid, Rewritten, Raw
<1>4. ASSUME OweBackups PROVE TypeOK'
  BY <1>4 DEF OweBackups
<1>5. ASSUME PurgeRecords PROVE TypeOK'
  BY <1>5 DEF PurgeRecords, Rewritten, Raw, Denied, Registered
<1>6. ASSUME Truncate PROVE TypeOK'
  <2>1. chance' \in [Chances -> Nat]
    BY <1>6, SpendType DEF Truncate
  <2>2. QED
    BY <1>6, <2>1 DEF Truncate
<1>7. ASSUME RecordStep2 PROVE TypeOK'
  <2> DEFINE done == IF me.truncated THEN me.first \ Raw ELSE {}
  <2>1. job' \in [Jobs -> 0 .. 5]
    BY <1>7, FinishType DEF RecordStep2
  <2>2. me' \in Mine
    <3>1. me.rebuild \cup done \in SUBSET Jobs
      OBVIOUS
    <3>2. me' = [me EXCEPT !.rebuild = me.rebuild \cup done]
      BY <1>7 DEF RecordStep2
    <3>3. QED
      BY <3>1, <3>2 DEF Mine
  <2>3. QED
    BY <1>7, <2>1, <2>2 DEF RecordStep2, Mine
<1>8. ASSUME Rebuild PROVE TypeOK'
  <2>1. job' \in [Jobs -> 0 .. 5] /\ logged' \subseteq Jobs
    BY <1>8, ReconcileType DEF Rebuild
  <2>2. held' \in [Stores -> SUBSET Jobs]
    BY <1>8 DEF Rebuild, Carried, Raw
  <2>3. me' \in Mine
    BY <1>8 DEF Rebuild, Mine
  <2>4. QED
    BY <1>8, <2>1, <2>2, <2>3 DEF Rebuild, Mine
<1>9. ASSUME RebuildEnds PROVE TypeOK'
  BY <1>9 DEF RebuildEnds, Without
<1>10. ASSUME Sweep PROVE TypeOK'
  BY <1>10 DEF Sweep, Without, Denied, Registered
<1>11. ASSUME LockForStep3 PROVE TypeOK'
  BY <1>11 DEF LockForStep3
<1>12. ASSUME RemoveAside PROVE TypeOK'
  BY <1>12 DEF RemoveAside, Carried
<1>13. ASSUME RecordStep3 PROVE TypeOK'
  <2>1. job' \in [Jobs -> 0 .. 5]
    BY <1>13, FinishType DEF RecordStep3, Step3Of
  <2>2. QED
    BY <1>13, <2>1 DEF RecordStep3, Step3Of
<1>14. ASSUME LookAtBackups PROVE TypeOK'
  <2>1. CASE me' = Idle
    BY <1>14, <2>1, IdleType DEF LookAtBackups, Mine
  <2>2. CASE me' # Idle
    <3>1. Past \in SUBSET Jobs
      BY DEF Past
    <3>2. PICK owed \in BOOLEAN : me' = [me EXCEPT !.past = Past, !.owed = owed]
      BY <1>14, <2>2 DEF LookAtBackups
    <3>3. me' \in Mine
      BY <3>1, <3>2 DEF Mine
    <3>4. QED
      BY <1>14, <2>2, <3>3 DEF LookAtBackups, Mine
  <2>3. QED
    BY <2>1, <2>2
<1>15. ASSUME PurgeOps PROVE TypeOK'
  BY <1>15 DEF PurgeOps, Without, Swept, Denied, Registered
<1>16. ASSUME PurgeRecordSegments PROVE TypeOK'
  BY <1>16 DEF PurgeRecordSegments, Without, Denied, Registered
<1>17. ASSUME PurgeCopies PROVE TypeOK'
  BY <1>17 DEF PurgeCopies, Without, Swept, Denied, Registered
<1>18. ASSUME RecordStep4 PROVE TypeOK'
  <2>1. job' \in [Jobs -> 0 .. 5]
    BY <1>18, FinishType DEF RecordStep4
  <2>2. QED
    BY <1>18, <2>1 DEF RecordStep4
<1>19. ASSUME SweepAgain PROVE TypeOK'
  BY <1>19 DEF SweepAgain, Without, Swept, Denied, Registered
<1>20. ASSUME BackupsPaid PROVE TypeOK'
  BY <1>20 DEF BackupsPaid
<1>21. ASSUME RecordStep5 PROVE TypeOK'
  <2>1. job' \in [Jobs -> 0 .. 5]
    BY <1>21, FinishType DEF RecordStep5
  <2>2. QED
    BY <1>21, <2>1, IdleType DEF RecordStep5, Mine
<1>22. ASSUME Stops PROVE TypeOK'
  <2>1. chance' \in [Chances -> Nat]
    BY <1>22, SpendType DEF Stops
  <2>2. QED
    BY <1>22, <2>1, IdleType DEF Stops, Mine
<1>23. ASSUME NEW j \in Jobs, Register(j) PROVE TypeOK'
  BY <1>23 DEF Register
<1>24. ASSUME WorkerRound PROVE TypeOK'
  <2>1. job' \in [Jobs -> 0 .. 5] /\ logged' \subseteq Jobs
    BY <1>24, ReconcileType DEF WorkerRound
  <2>2. QED
    BY <1>24, <2>1 DEF WorkerRound, Raw
<1>25. ASSUME Export PROVE TypeOK'
  BY <1>25 DEF Export, Raw, Denied, Registered
<1>26. ASSUME HookShows PROVE TypeOK'
  BY <1>26 DEF HookShows, Registered
<1>27. ASSUME SetAside PROVE TypeOK'
  <2>1. chance' \in [Chances -> Nat]
    BY <1>27, SpendType DEF SetAside
  <2>2. QED
    BY <1>27, <2>1 DEF SetAside
<1>28. ASSUME NEW reads \in BOOLEAN, Restore(reads) PROVE TypeOK'
  <2>1. chance' \in [Chances -> Nat]
    BY <1>28, SpendType DEF Restore
  <2>2. logged' \subseteq Jobs /\ job' \in [Jobs -> 0 .. 5]
    BY <1>28 DEF Restore, Registered
  <2>3. held' \in [Stores -> SUBSET Jobs]
    BY <1>28 DEF Restore, Raw
  <2>4. QED
    BY <1>28, <2>1, <2>2, <2>3 DEF Restore
<1>29. ASSUME PutBack PROVE TypeOK'
  <2>1. chance' \in [Chances -> Nat]
    BY <1>29, SpendType DEF PutBack
  <2>2. held' \in [Stores -> SUBSET Jobs]
    BY <1>29 DEF PutBack
  <2>3. job' \in [Jobs -> 0 .. 5]
    BY <1>29 DEF PutBack
  <2>4. owes' = FALSE /\ UNCHANGED <<logged, locked, at, me>>
    BY <1>29 DEF PutBack
  <2>5. QED
    BY <2>1, <2>2, <2>3, <2>4
<1>30. ASSUME UNCHANGED vars PROVE TypeOK'
  BY <1>30 DEF vars
<1>31. QED
  BY <1>1, <1>2, <1>3, <1>4, <1>5, <1>6, <1>7, <1>8, <1>9, <1>10, <1>11, <1>12, <1>13,
     <1>14, <1>15, <1>16, <1>17, <1>18, <1>19, <1>20, <1>21, <1>22, <1>23, <1>24, <1>25,
     <1>26, <1>27, <1>28, <1>29, <1>30 DEF Next, Purge

LEMMA TypeInit == Init => TypeOK
<1> SUFFICES ASSUME Init PROVE TypeOK
  OBVIOUS
<1>1. held \in [Stores -> SUBSET Jobs]
  BY DEF Init
<1>2. job \in [Jobs -> 0 .. 5]
  BY DEF Init
<1>3. chance \in [Chances -> Nat]
  BY ForgetAssumption DEF Init
<1>4. me \in Mine
  BY IdleType DEF Init
<1>5. QED
  BY <1>1, <1>2, <1>3, <1>4 DEF Init, TypeOK, Mine

\* Every variable keeps its type, for every set of jobs and every budget.
THEOREM TypeCorrect == Spec => []TypeOK
  BY TypeInit, TypeNext, PTL DEF Spec

\* The worker lock is held exactly where the purge works under it.
LEMMA LockNext == LockOK /\ [Next]_vars => LockOK'
<1> SUFFICES ASSUME LockOK, [Next]_vars PROVE LockOK'
  OBVIOUS
<1>1. ASSUME Continue PROVE LockOK'
  BY <1>1 DEF Continue, Reconcile, Due, Idle, Registered, LockOK, Locked
<1>2. ASSUME LockForStep2 PROVE LockOK'
  BY <1>2 DEF LockForStep2, LockOK, Locked
<1>3. ASSUME NEW u \in Uids, PurgeUid(u) PROVE LockOK'
  BY <1>3 DEF PurgeUid, Rewritten, Raw, LockOK, Locked
<1>4. ASSUME OweBackups PROVE LockOK'
  BY <1>4 DEF OweBackups, LockOK, Locked
<1>5. ASSUME PurgeRecords PROVE LockOK'
  BY <1>5 DEF PurgeRecords, Rewritten, Raw, Denied, Registered, LockOK, Locked
<1>6. ASSUME Truncate PROVE LockOK'
  BY <1>6 DEF Truncate, Spend, LockOK, Locked
<1>7. ASSUME RecordStep2 PROVE LockOK'
  BY <1>7 DEF RecordStep2, Restart, Raw, LockOK, Locked
<1>8. ASSUME Rebuild PROVE LockOK'
  BY <1>8 DEF Rebuild, Reconcile, Carried, Raw, Registered, LockOK, Locked
<1>9. ASSUME RebuildEnds PROVE LockOK'
  BY <1>9 DEF RebuildEnds, Without, LockOK, Locked
<1>10. ASSUME Sweep PROVE LockOK'
  BY <1>10 DEF Sweep, Without, Denied, Registered, LockOK, Locked
<1>11. ASSUME LockForStep3 PROVE LockOK'
  BY <1>11 DEF LockForStep3, LockOK, Locked
<1>12. ASSUME RemoveAside PROVE LockOK'
  BY <1>12 DEF RemoveAside, Carried, LockOK, Locked
<1>13. ASSUME RecordStep3 PROVE LockOK'
  BY <1>13 DEF RecordStep3, Step3Of, Finish, Raw, LockOK, Locked
<1>14. ASSUME LookAtBackups PROVE LockOK'
  BY <1>14 DEF LookAtBackups, Past, Idle, Raw, LockOK, Locked
<1>15. ASSUME PurgeOps PROVE LockOK'
  BY <1>15 DEF PurgeOps, Without, Swept, Denied, Registered, LockOK, Locked
<1>16. ASSUME PurgeRecordSegments PROVE LockOK'
  BY <1>16 DEF PurgeRecordSegments, Without, Denied, Registered, LockOK, Locked
<1>17. ASSUME PurgeCopies PROVE LockOK'
  BY <1>17 DEF PurgeCopies, Without, Swept, Denied, Registered, LockOK, Locked
<1>18. ASSUME RecordStep4 PROVE LockOK'
  BY <1>18 DEF RecordStep4, Finish, LockOK, Locked
<1>19. ASSUME SweepAgain PROVE LockOK'
  BY <1>19 DEF SweepAgain, Without, Swept, Denied, Registered, LockOK, Locked
<1>20. ASSUME BackupsPaid PROVE LockOK'
  BY <1>20 DEF BackupsPaid, LockOK, Locked
<1>21. ASSUME RecordStep5 PROVE LockOK'
  BY <1>21 DEF RecordStep5, Finish, Idle, LockOK, Locked
<1>22. ASSUME Stops PROVE LockOK'
  BY <1>22 DEF Stops, Idle, Spend, LockOK, Locked
<1>23. ASSUME NEW j \in Jobs, Register(j) PROVE LockOK'
  BY <1>23 DEF Register, LockOK, Locked
<1>24. ASSUME WorkerRound PROVE LockOK'
  BY <1>24 DEF WorkerRound, Reconcile, Raw, Registered, LockOK, Locked
<1>25. ASSUME Export PROVE LockOK'
  BY <1>25 DEF Export, Raw, Denied, Registered, LockOK, Locked
<1>26. ASSUME HookShows PROVE LockOK'
  BY <1>26 DEF HookShows, Registered, LockOK, Locked
<1>27. ASSUME SetAside PROVE LockOK'
  BY <1>27 DEF SetAside, Spend, LockOK, Locked
<1>28. ASSUME NEW reads \in BOOLEAN, Restore(reads) PROVE LockOK'
  BY <1>28 DEF Restore, Spend, Raw, Registered, LockOK, Locked
<1>29. ASSUME PutBack PROVE LockOK'
  BY <1>29 DEF PutBack, Spend, LockOK, Locked
<1>30. ASSUME UNCHANGED vars PROVE LockOK'
  BY <1>30 DEF vars, LockOK, Locked
<1>31. QED
  BY <1>1, <1>2, <1>3, <1>4, <1>5, <1>6, <1>7, <1>8, <1>9, <1>10, <1>11, <1>12, <1>13,
     <1>14, <1>15, <1>16, <1>17, <1>18, <1>19, <1>20, <1>21, <1>22, <1>23, <1>24, <1>25,
     <1>26, <1>27, <1>28, <1>29, <1>30 DEF Next, Purge

\* Only a purge that no reader keeps waiting, when the budget says so.
LEMMA NoBusyNext == TypeOK /\ NoBusy /\ [Next]_vars => NoBusy'
<1> SUFFICES ASSUME TypeOK /\ NoBusy, [Next]_vars PROVE NoBusy'
  OBVIOUS
<1>1. ASSUME Continue PROVE NoBusy'
  BY <1>1 DEF Continue, Reconcile, Due, Idle, Registered, NoBusy, Chances
<1>2. ASSUME LockForStep2 PROVE NoBusy'
  BY <1>2 DEF LockForStep2, NoBusy, Chances
<1>3. ASSUME NEW u \in Uids, PurgeUid(u) PROVE NoBusy'
  BY <1>3 DEF PurgeUid, Rewritten, Raw, NoBusy, Chances
<1>4. ASSUME OweBackups PROVE NoBusy'
  BY <1>4 DEF OweBackups, NoBusy, Chances
<1>5. ASSUME PurgeRecords PROVE NoBusy'
  BY <1>5 DEF PurgeRecords, Rewritten, Raw, Denied, Registered, NoBusy, Chances
<1>6. ASSUME Truncate PROVE NoBusy'
  BY <1>6 DEF Truncate, Spend, NoBusy, Chances
<1>7. ASSUME RecordStep2 PROVE NoBusy'
  BY <1>7 DEF RecordStep2, Restart, Raw, NoBusy, Chances
<1>8. ASSUME Rebuild PROVE NoBusy'
  BY <1>8 DEF Rebuild, Reconcile, Carried, Raw, Registered, NoBusy, Chances
<1>9. ASSUME RebuildEnds PROVE NoBusy'
  BY <1>9 DEF RebuildEnds, Without, NoBusy, Chances
<1>10. ASSUME Sweep PROVE NoBusy'
  BY <1>10 DEF Sweep, Without, Denied, Registered, NoBusy, Chances
<1>11. ASSUME LockForStep3 PROVE NoBusy'
  BY <1>11 DEF LockForStep3, NoBusy, Chances
<1>12. ASSUME RemoveAside PROVE NoBusy'
  BY <1>12 DEF RemoveAside, Carried, NoBusy, Chances
<1>13. ASSUME RecordStep3 PROVE NoBusy'
  BY <1>13 DEF RecordStep3, Step3Of, Finish, Raw, NoBusy, Chances
<1>14. ASSUME LookAtBackups PROVE NoBusy'
  BY <1>14 DEF LookAtBackups, Past, Idle, Raw, NoBusy, Chances
<1>15. ASSUME PurgeOps PROVE NoBusy'
  BY <1>15 DEF PurgeOps, Without, Swept, Denied, Registered, NoBusy, Chances
<1>16. ASSUME PurgeRecordSegments PROVE NoBusy'
  BY <1>16 DEF PurgeRecordSegments, Without, Denied, Registered, NoBusy, Chances
<1>17. ASSUME PurgeCopies PROVE NoBusy'
  BY <1>17 DEF PurgeCopies, Without, Swept, Denied, Registered, NoBusy, Chances
<1>18. ASSUME RecordStep4 PROVE NoBusy'
  BY <1>18 DEF RecordStep4, Finish, NoBusy, Chances
<1>19. ASSUME SweepAgain PROVE NoBusy'
  BY <1>19 DEF SweepAgain, Without, Swept, Denied, Registered, NoBusy, Chances
<1>20. ASSUME BackupsPaid PROVE NoBusy'
  BY <1>20 DEF BackupsPaid, NoBusy, Chances
<1>21. ASSUME RecordStep5 PROVE NoBusy'
  BY <1>21 DEF RecordStep5, Finish, Idle, NoBusy, Chances
<1>22. ASSUME Stops PROVE NoBusy'
  BY <1>22 DEF Stops, Idle, Spend, NoBusy, Chances
<1>23. ASSUME NEW j \in Jobs, Register(j) PROVE NoBusy'
  BY <1>23 DEF Register, NoBusy, Chances
<1>24. ASSUME WorkerRound PROVE NoBusy'
  BY <1>24 DEF WorkerRound, Reconcile, Raw, Registered, NoBusy, Chances
<1>25. ASSUME Export PROVE NoBusy'
  BY <1>25 DEF Export, Raw, Denied, Registered, NoBusy, Chances
<1>26. ASSUME HookShows PROVE NoBusy'
  BY <1>26 DEF HookShows, Registered, NoBusy, Chances
<1>27. ASSUME SetAside PROVE NoBusy'
  BY <1>27 DEF SetAside, Spend, NoBusy, Chances
<1>28. ASSUME NEW reads \in BOOLEAN, Restore(reads) PROVE NoBusy'
  BY <1>28 DEF Restore, Spend, Raw, Registered, NoBusy, Chances
<1>29. ASSUME PutBack PROVE NoBusy'
  BY <1>29 DEF PutBack, Spend, NoBusy, Chances
<1>30. ASSUME UNCHANGED vars PROVE NoBusy'
  BY <1>30 DEF vars, NoBusy, Chances
<1>31. QED
  BY <1>1, <1>2, <1>3, <1>4, <1>5, <1>6, <1>7, <1>8, <1>9, <1>10, <1>11, <1>12, <1>13,
     <1>14, <1>15, <1>16, <1>17, <1>18, <1>19, <1>20, <1>21, <1>22, <1>23, <1>24, <1>25,
     <1>26, <1>27, <1>28, <1>29, <1>30 DEF Next, Purge

\* A job past its first step stays in the log, and so does one in hand.
LEMMA LoggedNext == TypeOK /\ LoggedOK /\ [Next]_vars => LoggedOK'
<1> SUFFICES ASSUME TypeOK /\ LoggedOK, [Next]_vars PROVE LoggedOK'
  OBVIOUS
<1>1. ASSUME Continue PROVE LoggedOK'
  BY <1>1 DEF Continue, Reconcile, Due, Idle, Registered, LoggedOK, TypeOK
<1>2. ASSUME LockForStep2 PROVE LoggedOK'
  BY <1>2 DEF LockForStep2, LoggedOK, TypeOK
<1>3. ASSUME NEW u \in Uids, PurgeUid(u) PROVE LoggedOK'
  BY <1>3 DEF PurgeUid, Rewritten, Raw, LoggedOK, TypeOK
<1>4. ASSUME OweBackups PROVE LoggedOK'
  BY <1>4 DEF OweBackups, LoggedOK, TypeOK
<1>5. ASSUME PurgeRecords PROVE LoggedOK'
  BY <1>5 DEF PurgeRecords, Rewritten, Raw, Denied, Registered, LoggedOK, TypeOK
<1>6. ASSUME Truncate PROVE LoggedOK'
  BY <1>6 DEF Truncate, Spend, LoggedOK, TypeOK
<1>7. ASSUME RecordStep2 PROVE LoggedOK'
  BY <1>7 DEF RecordStep2, Restart, Raw, LoggedOK, TypeOK
<1>8. ASSUME Rebuild PROVE LoggedOK'
  BY <1>8 DEF Rebuild, Reconcile, Carried, Raw, Registered, LoggedOK, TypeOK
<1>9. ASSUME RebuildEnds PROVE LoggedOK'
  BY <1>9 DEF RebuildEnds, Without, LoggedOK, TypeOK
<1>10. ASSUME Sweep PROVE LoggedOK'
  BY <1>10 DEF Sweep, Without, Denied, Registered, LoggedOK, TypeOK
<1>11. ASSUME LockForStep3 PROVE LoggedOK'
  BY <1>11 DEF LockForStep3, LoggedOK, TypeOK
<1>12. ASSUME RemoveAside PROVE LoggedOK'
  BY <1>12 DEF RemoveAside, Carried, LoggedOK, TypeOK
<1>13. ASSUME RecordStep3 PROVE LoggedOK'
  BY <1>13 DEF RecordStep3, Step3Of, Finish, Raw, LoggedOK, TypeOK
<1>14. ASSUME LookAtBackups PROVE LoggedOK'
  <2>1. CASE me' = Idle
    BY <1>14, <2>1 DEF LookAtBackups, LoggedOK, Idle
  <2>2. CASE me' # Idle
    <3>1. me'.first = me.first /\ me'.rebuild = me.rebuild /\ me'.past = Past
      <4>1. PICK owed \in BOOLEAN : me' = [me EXCEPT !.past = Past, !.owed = owed]
        BY <1>14, <2>2 DEF LookAtBackups, TypeOK
      <4>2. QED
        BY <4>1 DEF TypeOK
    <3>2. Past \subseteq logged
      BY DEF Past, LoggedOK, TypeOK
    <3>3. QED
      BY <1>14, <3>1, <3>2 DEF LookAtBackups, LoggedOK
  <2>3. QED
    BY <2>1, <2>2
<1>15. ASSUME PurgeOps PROVE LoggedOK'
  BY <1>15 DEF PurgeOps, Without, Swept, Denied, Registered, LoggedOK, TypeOK
<1>16. ASSUME PurgeRecordSegments PROVE LoggedOK'
  BY <1>16 DEF PurgeRecordSegments, Without, Denied, Registered, LoggedOK, TypeOK
<1>17. ASSUME PurgeCopies PROVE LoggedOK'
  BY <1>17 DEF PurgeCopies, Without, Swept, Denied, Registered, LoggedOK, TypeOK
<1>18. ASSUME RecordStep4 PROVE LoggedOK'
  BY <1>18 DEF RecordStep4, Finish, LoggedOK, TypeOK
<1>19. ASSUME SweepAgain PROVE LoggedOK'
  BY <1>19 DEF SweepAgain, Without, Swept, Denied, Registered, LoggedOK, TypeOK
<1>20. ASSUME BackupsPaid PROVE LoggedOK'
  BY <1>20 DEF BackupsPaid, LoggedOK, TypeOK
<1>21. ASSUME RecordStep5 PROVE LoggedOK'
  BY <1>21 DEF RecordStep5, Finish, Idle, LoggedOK, TypeOK
<1>22. ASSUME Stops PROVE LoggedOK'
  BY <1>22 DEF Stops, Idle, Spend, LoggedOK, TypeOK
<1>23. ASSUME NEW j \in Jobs, Register(j) PROVE LoggedOK'
  BY <1>23 DEF Register, LoggedOK, TypeOK
<1>24. ASSUME WorkerRound PROVE LoggedOK'
  BY <1>24 DEF WorkerRound, Reconcile, Raw, Registered, LoggedOK, TypeOK
<1>25. ASSUME Export PROVE LoggedOK'
  BY <1>25 DEF Export, Raw, Denied, Registered, LoggedOK, TypeOK
<1>26. ASSUME HookShows PROVE LoggedOK'
  BY <1>26 DEF HookShows, Registered, LoggedOK, TypeOK
<1>27. ASSUME SetAside PROVE LoggedOK'
  BY <1>27 DEF SetAside, Spend, LoggedOK, TypeOK
<1>28. ASSUME NEW reads \in BOOLEAN, Restore(reads) PROVE LoggedOK'
  BY <1>28 DEF Restore, Spend, Raw, Registered, LoggedOK, TypeOK
<1>29. ASSUME PutBack PROVE LoggedOK'
  BY <1>29 DEF PutBack, Spend, LoggedOK, TypeOK
<1>30. ASSUME UNCHANGED vars PROVE LoggedOK'
  BY <1>30 DEF vars, LoggedOK, TypeOK
<1>31. QED
  BY <1>1, <1>2, <1>3, <1>4, <1>5, <1>6, <1>7, <1>8, <1>9, <1>10, <1>11, <1>12, <1>13,
     <1>14, <1>15, <1>16, <1>17, <1>18, <1>19, <1>20, <1>21, <1>22, <1>23, <1>24, <1>25,
     <1>26, <1>27, <1>28, <1>29, <1>30 DEF Next, Purge

\* What a sweep of the backups takes away is all it has in hand but the records
\* whose jobs are done already.
LEMMA PastSwept ==
  ASSUME IInv, at \in Later
  PROVE  \A j \in me.past : j \in Swept \/ job[j] = 5
<1>1. ASSUME NEW j \in me.past PROVE j \in Swept \/ job[j] = 5
  <2>1. j \in Jobs /\ job[j] >= 3
    BY <1>1 DEF IInv, TypeOK, Step4OK
  <2>2. CASE j \in Uids
    BY <1>1, <2>2 DEF Swept
  <2>3. CASE j \in Records
    BY <1>1, <2>1, <2>3 DEF Swept, Denied, Registered, IInv, TypeOK, Step4OK
  <2>4. QED
    BY <2>1, <2>2, <2>3 DEF Jobs
<1>2. QED
  BY <1>1

\* What each step promises of a job past it is not undone.
LEMMA StepsNext == Steady /\ IInv /\ [Next]_vars => StepsOK'
<1> SUFFICES ASSUME Steady /\ IInv, [Next]_vars PROVE StepsOK'
  OBVIOUS
<1> USE ForgetAssumption DEF IInv, TypeOK, LockOK, Locked, Later, LoggedOK, StepsOK, Step2OK, Step3OK, Step4OK
<1>1. ASSUME Continue PROVE StepsOK'
  BY <1>1 DEF Continue, Reconcile, Due, Idle, Registered, Jobs, Stores
<1>2. ASSUME LockForStep2 PROVE StepsOK'
  BY <1>2 DEF LockForStep2, Jobs, Stores
<1>3. ASSUME NEW u \in Uids, PurgeUid(u) PROVE StepsOK'
  BY <1>3 DEF PurgeUid, Rewritten, Raw, Jobs, Stores
<1>4. ASSUME OweBackups PROVE StepsOK'
  BY <1>4 DEF OweBackups, Jobs, Stores
<1>5. ASSUME PurgeRecords PROVE StepsOK'
  BY <1>5 DEF PurgeRecords, Rewritten, Raw, Denied, Registered, Jobs, Stores
<1>6. ASSUME Truncate PROVE StepsOK'
  BY <1>6 DEF Truncate, Spend, Jobs, Stores
<1>7. ASSUME RecordStep2 PROVE StepsOK'
  BY <1>7 DEF RecordStep2, Restart, Raw, Jobs, Stores
<1>8. ASSUME Rebuild PROVE StepsOK'
  <2>1. \A j \in Jobs : job'[j] >= 2 => job'[j] = job[j]
    BY <1>8 DEF Rebuild, Reconcile
  <2>2. held' = [held EXCEPT !["knowledge"] = {j \in Raw : job'[j] = 0} \cup Carried("knowledge"),
                            !["aside"] = @ \cup held["knowledge"]]
    BY <1>8 DEF Rebuild
  <2>3. \A j \in Carried("knowledge") : job[j] = 0
    BY DEF Carried
  <2>4. /\ held'["knowledge"] = {j \in Raw : job'[j] = 0} \cup Carried("knowledge")
        /\ held'["aside"] = held["aside"] \cup held["knowledge"]
        /\ held'["raw"] = held["raw"] /\ held'["wal"] = held["wal"]
        /\ held'["ops"] = held["ops"] /\ held'["segments"] = held["segments"]
        /\ held'["copies"] = held["copies"] /\ held'["shown"] = held["shown"]
    BY <2>2 DEF Stores
  <2>5. \A j \in Jobs : job'[j] >= 3 => j \notin held'["knowledge"] /\ j \notin held'["aside"]
    <3>1. job' \in [Jobs -> 0 .. 5]
      BY TypeNext
    <3>2. QED
      BY <2>1, <2>3, <2>4, <3>1
  <2>6. QED
    <3>1. job' \in [Jobs -> 0 .. 5]
      BY TypeNext
    <3>2. QED
      BY <2>1, <2>4, <2>5, <3>1
<1>9. ASSUME RebuildEnds PROVE StepsOK'
  BY <1>9 DEF RebuildEnds, Without, Jobs, Stores
<1>10. ASSUME Sweep PROVE StepsOK'
  BY <1>10 DEF Sweep, Without, Denied, Registered, Jobs, Stores
<1>11. ASSUME LockForStep3 PROVE StepsOK'
  BY <1>11 DEF LockForStep3, Jobs, Stores
<1>12. ASSUME RemoveAside PROVE StepsOK'
  BY <1>12 DEF RemoveAside, Carried, Jobs, Stores
<1>13. ASSUME RecordStep3 PROVE StepsOK'
  <2>1. Clean
    BY <1>13 DEF RecordStep3, Step3Of, Step2OK
  <2>2. held' = held /\ at = "step3"
    BY <1>13 DEF RecordStep3, Step3Of
  <2>3. ASSUME NEW j \in me.rebuild \ Raw
       PROVE  j \notin held["wal"] /\ j \notin held["knowledge"] /\ j \notin held["aside"]
    BY <2>1, <2>2, <2>3 DEF Clean, Raw
  <2>4. \A j \in Jobs : job'[j] = job[j] \/ (j \in me.rebuild \ Raw /\ job'[j] = 3)
    <3>1. ASSUME NEW j \in Jobs
         PROVE  job'[j] = IF j \in me.rebuild \ Raw /\ job[j] \in 1 .. 3 THEN 3 ELSE job[j]
      BY <1>13 DEF RecordStep3, Step3Of, Finish
    <3>2. QED
      BY <3>1
  <2>5. QED
    BY <2>2, <2>3, <2>4 DEF Raw
<1>14. ASSUME LookAtBackups PROVE StepsOK'
  BY <1>14 DEF LookAtBackups, Past, Idle, Raw, Jobs, Stores
<1>15. ASSUME PurgeOps PROVE StepsOK'
  BY <1>15 DEF PurgeOps, Without, Swept, Denied, Registered, Jobs, Stores
<1>16. ASSUME PurgeRecordSegments PROVE StepsOK'
  BY <1>16 DEF PurgeRecordSegments, Without, Denied, Registered, Jobs, Stores
<1>17. ASSUME PurgeCopies PROVE StepsOK'
  BY <1>17 DEF PurgeCopies, Without, Swept, Denied, Registered, Jobs, Stores
<1>18. ASSUME RecordStep4 PROVE StepsOK'
  BY <1>18 DEF RecordStep4, Finish, Jobs, Stores
<1>19. ASSUME SweepAgain PROVE StepsOK'
  BY <1>19 DEF SweepAgain, Without, Swept, Denied, Registered, Jobs, Stores
<1>20. ASSUME BackupsPaid PROVE StepsOK'
  BY <1>20 DEF BackupsPaid, Jobs, Stores
<1>21. ASSUME RecordStep5 PROVE StepsOK'
  BY <1>21 DEF RecordStep5, Finish, Idle, Jobs, Stores
<1>22. ASSUME Stops PROVE StepsOK'
  BY <1>22 DEF Stops, Idle, Spend, Jobs, Stores
<1>23. ASSUME NEW j \in Jobs, Register(j) PROVE StepsOK'
  BY <1>23 DEF Register, Jobs, Stores
<1>24. ASSUME WorkerRound PROVE StepsOK'
  BY <1>24 DEF WorkerRound, Reconcile, Raw, Registered, Jobs, Stores
<1>25. ASSUME Export PROVE StepsOK'
  BY <1>25 DEF Export, Raw, Denied, Registered, Jobs, Stores
<1>26. ASSUME HookShows PROVE StepsOK'
  BY <1>26 DEF HookShows, Registered, Jobs, Stores
<1>27. ASSUME SetAside PROVE StepsOK'
  BY <1>27 DEF SetAside, Spend, Jobs, Stores
<1>28. ASSUME NEW reads \in BOOLEAN, Restore(reads) PROVE StepsOK'
  BY <1>28 DEF Restore, Spend, Raw, Registered, Jobs, Stores
<1>29. ASSUME PutBack PROVE StepsOK'
  BY <1>29 DEF PutBack, Spend, Jobs, Stores
<1>30. ASSUME UNCHANGED vars PROVE StepsOK'
  BY <1>30 DEF vars, Jobs, Stores
<1>31. QED
  BY <1>1, <1>2, <1>3, <1>4, <1>5, <1>6, <1>7, <1>8, <1>9, <1>10, <1>11, <1>12, <1>13,
     <1>14, <1>15, <1>16, <1>17, <1>18, <1>19, <1>20, <1>21, <1>22, <1>23, <1>24, <1>25,
     <1>26, <1>27, <1>28, <1>29, <1>30 DEF Next, Purge

\* What step 2 has in hand.
LEMMA Step2Next == IInv /\ [Next]_vars => Step2OK'
<1> SUFFICES ASSUME IInv, [Next]_vars PROVE Step2OK'
  OBVIOUS
<1> USE ForgetAssumption DEF IInv, TypeOK, LockOK, Locked, LoggedOK, StepsOK, Step2OK, Clean, NoBusy
<1>1. ASSUME Continue PROVE Step2OK'
  BY <1>1 DEF Continue, Reconcile, Due, Idle, Registered, Stores, Chances
<1>2. ASSUME LockForStep2 PROVE Step2OK'
  BY <1>2 DEF LockForStep2, Stores, Chances
<1>3. ASSUME NEW u \in Uids, PurgeUid(u) PROVE Step2OK'
  BY <1>3 DEF PurgeUid, Rewritten, Raw, Stores, Chances
<1>4. ASSUME OweBackups PROVE Step2OK'
  BY <1>4 DEF OweBackups, Stores, Chances
<1>5. ASSUME PurgeRecords PROVE Step2OK'
  <2>1. me' = me /\ job' = job /\ chance' = chance /\ at' = "truncate"
    BY <1>5 DEF PurgeRecords
  <2>2. ASSUME Steady PROVE Clean' \/ chance["busy"] = 0
    <3>1. CASE \A b \in Budgets : b["busy"] = 0
      BY <3>1 DEF NoBusy
    <3>2. CASE \A r, s \in Records : r = s
      <4>1. Clean
        BY <1>5, <2>2 DEF PurgeRecords
      <4>2. me.rebuild \cap Records = {}
        BY <1>5, <3>2 DEF PurgeRecords
      <4>3. held'["wal"] = held["wal"] \cup (Raw \ Denied) /\ held'["raw"] = Raw \ Denied
        BY <1>5 DEF PurgeRecords, Rewritten, Raw, Stores
      <4>4. Denied \subseteq Records
        BY DEF Denied
      <4>5. QED
        BY <2>1, <4>1, <4>2, <4>3, <4>4 DEF Raw
    <3>3. QED
      BY <2>2, <3>1, <3>2 DEF Steady
  <2>3. QED
    BY <1>5, <2>1, <2>2 DEF PurgeRecords
<1>6. ASSUME Truncate PROVE Step2OK'
  BY <1>6 DEF Truncate, Spend, Stores, Chances
<1>7. ASSUME RecordStep2 PROVE Step2OK'
  BY <1>7 DEF RecordStep2, Restart, Raw, Stores, Chances
<1>8. ASSUME Rebuild PROVE Step2OK'
  BY <1>8 DEF Rebuild, Reconcile, Carried, Raw, Registered, Stores, Chances
<1>9. ASSUME RebuildEnds PROVE Step2OK'
  BY <1>9 DEF RebuildEnds, Without, Stores, Chances
<1>10. ASSUME Sweep PROVE Step2OK'
  BY <1>10 DEF Sweep, Without, Denied, Registered, Stores, Chances
<1>11. ASSUME LockForStep3 PROVE Step2OK'
  BY <1>11 DEF LockForStep3, Stores, Chances
<1>12. ASSUME RemoveAside PROVE Step2OK'
  BY <1>12 DEF RemoveAside, Carried, Stores, Chances
<1>13. ASSUME RecordStep3 PROVE Step2OK'
  BY <1>13 DEF RecordStep3, Step3Of, Finish, Raw, Stores, Chances
<1>14. ASSUME LookAtBackups PROVE Step2OK'
  <2>1. CASE me' = Idle
    BY <1>14, <2>1 DEF LookAtBackups, Idle
  <2>2. CASE me' # Idle
    <3>1. me'.todo = me.todo /\ me'.first = me.first /\ me'.rebuild = me.rebuild /\ me'.truncated = me.truncated
      <4>1. PICK owed \in BOOLEAN : me' = [me EXCEPT !.past = Past, !.owed = owed]
        BY <1>14, <2>2 DEF LookAtBackups
      <4>2. QED
        BY <4>1
    <3>2. at' = "ops" /\ UNCHANGED <<held, job, logged, chance>>
      BY <1>14, <2>2 DEF LookAtBackups
    <3>3. QED
      BY <1>14, <3>1, <3>2 DEF LookAtBackups
  <2>3. QED
    BY <2>1, <2>2
<1>15. ASSUME PurgeOps PROVE Step2OK'
  BY <1>15 DEF PurgeOps, Without, Swept, Denied, Registered, Stores, Chances
<1>16. ASSUME PurgeRecordSegments PROVE Step2OK'
  BY <1>16 DEF PurgeRecordSegments, Without, Denied, Registered, Stores, Chances
<1>17. ASSUME PurgeCopies PROVE Step2OK'
  BY <1>17 DEF PurgeCopies, Without, Swept, Denied, Registered, Stores, Chances
<1>18. ASSUME RecordStep4 PROVE Step2OK'
  BY <1>18 DEF RecordStep4, Finish, Stores, Chances
<1>19. ASSUME SweepAgain PROVE Step2OK'
  BY <1>19 DEF SweepAgain, Without, Swept, Denied, Registered, Stores, Chances
<1>20. ASSUME BackupsPaid PROVE Step2OK'
  BY <1>20 DEF BackupsPaid, Stores, Chances
<1>21. ASSUME RecordStep5 PROVE Step2OK'
  BY <1>21 DEF RecordStep5, Finish, Idle, Stores, Chances
<1>22. ASSUME Stops PROVE Step2OK'
  BY <1>22 DEF Stops, Idle, Spend, Stores, Chances
<1>23. ASSUME NEW j \in Jobs, Register(j) PROVE Step2OK'
  BY <1>23 DEF Register, Stores, Chances
<1>24. ASSUME WorkerRound PROVE Step2OK'
  BY <1>24 DEF WorkerRound, Reconcile, Raw, Registered, Stores, Chances
<1>25. ASSUME Export PROVE Step2OK'
  BY <1>25 DEF Export, Raw, Denied, Registered, Stores, Chances
<1>26. ASSUME HookShows PROVE Step2OK'
  BY <1>26 DEF HookShows, Registered, Stores, Chances
<1>27. ASSUME SetAside PROVE Step2OK'
  BY <1>27 DEF SetAside, Spend, Stores, Chances
<1>28. ASSUME NEW reads \in BOOLEAN, Restore(reads) PROVE Step2OK'
  BY <1>28 DEF Restore, Spend, Raw, Registered, Stores, Chances
<1>29. ASSUME PutBack PROVE Step2OK'
  BY <1>29 DEF PutBack, Spend, Stores, Chances
<1>30. ASSUME UNCHANGED vars PROVE Step2OK'
  BY <1>30 DEF vars, Stores, Chances
<1>31. QED
  BY <1>1, <1>2, <1>3, <1>4, <1>5, <1>6, <1>7, <1>8, <1>9, <1>10, <1>11, <1>12, <1>13,
     <1>14, <1>15, <1>16, <1>17, <1>18, <1>19, <1>20, <1>21, <1>22, <1>23, <1>24, <1>25,
     <1>26, <1>27, <1>28, <1>29, <1>30 DEF Next, Purge

\* What step 3 has built stays free of the texts it is for.
LEMMA Step3Next == IInv /\ [Next]_vars => Step3OK'
<1> SUFFICES ASSUME IInv, [Next]_vars PROVE Step3OK'
  OBVIOUS
<1> USE ForgetAssumption DEF IInv, TypeOK, LockOK, Locked, LoggedOK, StepsOK, Step3OK
<1>1. ASSUME Continue PROVE Step3OK'
  BY <1>1 DEF Continue, Reconcile, Due, Idle, Registered, Stores
<1>2. ASSUME LockForStep2 PROVE Step3OK'
  BY <1>2 DEF LockForStep2, Stores
<1>3. ASSUME NEW u \in Uids, PurgeUid(u) PROVE Step3OK'
  BY <1>3 DEF PurgeUid, Rewritten, Raw, Stores
<1>4. ASSUME OweBackups PROVE Step3OK'
  BY <1>4 DEF OweBackups, Stores
<1>5. ASSUME PurgeRecords PROVE Step3OK'
  BY <1>5 DEF PurgeRecords, Rewritten, Raw, Denied, Registered, Stores
<1>6. ASSUME Truncate PROVE Step3OK'
  BY <1>6 DEF Truncate, Spend, Stores
<1>7. ASSUME RecordStep2 PROVE Step3OK'
  BY <1>7 DEF RecordStep2, Restart, Raw, Stores
<1>8. ASSUME Rebuild PROVE Step3OK'
  BY <1>8 DEF Rebuild, Reconcile, Carried, Raw, Registered, Stores
<1>9. ASSUME RebuildEnds PROVE Step3OK'
  BY <1>9 DEF RebuildEnds, Without, Stores
<1>10. ASSUME Sweep PROVE Step3OK'
  BY <1>10 DEF Sweep, Without, Denied, Registered, Stores
<1>11. ASSUME LockForStep3 PROVE Step3OK'
  BY <1>11 DEF LockForStep3, Stores
<1>12. ASSUME RemoveAside PROVE Step3OK'
  BY <1>12 DEF RemoveAside, Carried, Stores
<1>13. ASSUME RecordStep3 PROVE Step3OK'
  BY <1>13 DEF RecordStep3, Step3Of, Finish, Raw, Stores
<1>14. ASSUME LookAtBackups PROVE Step3OK'
  BY <1>14 DEF LookAtBackups, Past, Idle, Raw, Stores
<1>15. ASSUME PurgeOps PROVE Step3OK'
  BY <1>15 DEF PurgeOps, Without, Swept, Denied, Registered, Stores
<1>16. ASSUME PurgeRecordSegments PROVE Step3OK'
  BY <1>16 DEF PurgeRecordSegments, Without, Denied, Registered, Stores
<1>17. ASSUME PurgeCopies PROVE Step3OK'
  BY <1>17 DEF PurgeCopies, Without, Swept, Denied, Registered, Stores
<1>18. ASSUME RecordStep4 PROVE Step3OK'
  BY <1>18 DEF RecordStep4, Finish, Stores
<1>19. ASSUME SweepAgain PROVE Step3OK'
  BY <1>19 DEF SweepAgain, Without, Swept, Denied, Registered, Stores
<1>20. ASSUME BackupsPaid PROVE Step3OK'
  BY <1>20 DEF BackupsPaid, Stores
<1>21. ASSUME RecordStep5 PROVE Step3OK'
  BY <1>21 DEF RecordStep5, Finish, Idle, Stores
<1>22. ASSUME Stops PROVE Step3OK'
  BY <1>22 DEF Stops, Idle, Spend, Stores
<1>23. ASSUME NEW j \in Jobs, Register(j) PROVE Step3OK'
  BY <1>23 DEF Register, Stores
<1>24. ASSUME WorkerRound PROVE Step3OK'
  BY <1>24 DEF WorkerRound, Reconcile, Raw, Registered, Stores
<1>25. ASSUME Export PROVE Step3OK'
  BY <1>25 DEF Export, Raw, Denied, Registered, Stores
<1>26. ASSUME HookShows PROVE Step3OK'
  BY <1>26 DEF HookShows, Registered, Stores
<1>27. ASSUME SetAside PROVE Step3OK'
  BY <1>27 DEF SetAside, Spend, Stores
<1>28. ASSUME NEW reads \in BOOLEAN, Restore(reads) PROVE Step3OK'
  BY <1>28 DEF Restore, Spend, Raw, Registered, Stores
<1>29. ASSUME PutBack PROVE Step3OK'
  BY <1>29 DEF PutBack, Spend, Stores
<1>30. ASSUME UNCHANGED vars PROVE Step3OK'
  BY <1>30 DEF vars, Stores
<1>31. QED
  BY <1>1, <1>2, <1>3, <1>4, <1>5, <1>6, <1>7, <1>8, <1>9, <1>10, <1>11, <1>12, <1>13,
     <1>14, <1>15, <1>16, <1>17, <1>18, <1>19, <1>20, <1>21, <1>22, <1>23, <1>24, <1>25,
     <1>26, <1>27, <1>28, <1>29, <1>30 DEF Next, Purge

\* What steps 4 and 5 have swept stays swept while the lock is held.
LEMMA Step4Next == IInv /\ [Next]_vars => Step4OK'
<1> SUFFICES ASSUME IInv, [Next]_vars PROVE Step4OK'
  OBVIOUS
<1> USE ForgetAssumption DEF IInv, TypeOK, LockOK, Locked, Later, LoggedOK, StepsOK, Step4OK
<1>1. ASSUME Continue PROVE Step4OK'
  BY <1>1 DEF Continue, Reconcile, Due, Idle, Registered, Stores
<1>2. ASSUME LockForStep2 PROVE Step4OK'
  BY <1>2 DEF LockForStep2, Stores
<1>3. ASSUME NEW u \in Uids, PurgeUid(u) PROVE Step4OK'
  BY <1>3 DEF PurgeUid, Rewritten, Raw, Stores
<1>4. ASSUME OweBackups PROVE Step4OK'
  BY <1>4 DEF OweBackups, Stores
<1>5. ASSUME PurgeRecords PROVE Step4OK'
  BY <1>5 DEF PurgeRecords, Rewritten, Raw, Denied, Registered, Stores
<1>6. ASSUME Truncate PROVE Step4OK'
  BY <1>6 DEF Truncate, Spend, Stores
<1>7. ASSUME RecordStep2 PROVE Step4OK'
  BY <1>7 DEF RecordStep2, Restart, Raw, Stores
<1>8. ASSUME Rebuild PROVE Step4OK'
  BY <1>8 DEF Rebuild, Reconcile, Carried, Raw, Registered, Stores
<1>9. ASSUME RebuildEnds PROVE Step4OK'
  BY <1>9 DEF RebuildEnds, Without, Stores
<1>10. ASSUME Sweep PROVE Step4OK'
  BY <1>10 DEF Sweep, Without, Denied, Registered, Stores
<1>11. ASSUME LockForStep3 PROVE Step4OK'
  BY <1>11 DEF LockForStep3, Stores
<1>12. ASSUME RemoveAside PROVE Step4OK'
  BY <1>12 DEF RemoveAside, Carried, Stores
<1>13. ASSUME RecordStep3 PROVE Step4OK'
  BY <1>13 DEF RecordStep3, Step3Of, Finish, Raw, Stores
<1>14. ASSUME LookAtBackups PROVE Step4OK'
  <2>1. CASE me' = Idle
    BY <1>14, <2>1 DEF LookAtBackups, Idle
  <2>2. CASE me' # Idle
    <3>1. PICK owed \in BOOLEAN :
            /\ me' = [me EXCEPT !.past = Past, !.owed = owed]
            /\ ~owed => \A r \in Past \cap Records : ~(job[r] < 5)
      <4> DEFINE owed == owes \/ \E r \in Past \cap Records : job[r] < 5
      <4>1. me' = [me EXCEPT !.past = Past, !.owed = owed]
        BY <1>14, <2>2 DEF LookAtBackups
      <4>2. owed \in BOOLEAN
        OBVIOUS
      <4>3. ~owed => \A r \in Past \cap Records : ~(job[r] < 5)
        OBVIOUS
      <4> HIDE DEF owed
      <4>4. QED
        BY <4>1, <4>2, <4>3
    <3>2. me'.past = Past /\ (~me'.owed => ~owed)
      <4>1. CASE owed = TRUE
        <5>1. me' = [me EXCEPT !.past = Past, !.owed = TRUE]
          BY <3>1, <4>1, Zenon
        <5>2. me'.past = Past /\ me'.owed
          BY <5>1
        <5>3. QED
          BY <5>2
      <4>2. CASE owed = FALSE
        <5>1. me' = [me EXCEPT !.past = Past, !.owed = FALSE]
          BY <3>1, <4>2, Zenon
        <5>2. me'.past = Past
          BY <5>1
        <5>3. QED
          BY <5>2, <4>2
      <4>3. QED
        BY <4>1, <4>2
    <3>3. Past \subseteq Jobs /\ \A j \in Past : job[j] >= 3
      BY DEF Past
    <3>4. ~owed => \A r \in Past \cap Records : job[r] = 5
      <4>1. \A r \in Past \cap Records : ~(job[r] < 5) => job[r] = 5
        BY <3>3
      <4>2. CASE owed
        BY <4>2
      <4>3. CASE ~owed
        BY <3>1, <4>1, <4>3
      <4>4. QED
        BY <4>2, <4>3
    <3>5. at' = "ops" /\ UNCHANGED <<held, job>>
      BY <1>14, <2>2 DEF LookAtBackups
    <3>6. QED
      BY <3>2, <3>3, <3>4, <3>5
  <2>3. QED
    BY <2>1, <2>2
<1>15. ASSUME PurgeOps PROVE Step4OK'
  <2>1. \A j \in me.past : j \in Swept \/ job[j] = 5
    BY <1>15, PastSwept DEF PurgeOps
  <2>2. me' = me /\ job' = job /\ at' \in Later
    BY <1>15 DEF PurgeOps
  <2>3. held'["ops"] = held["ops"] \ Swept
    BY <1>15 DEF PurgeOps, Without, Stores
  <2>4. \A s \in Stores \ {"ops"} : held'[s] = held[s]
    BY <1>15 DEF PurgeOps, Without
  <2>5. \A j \in me.past : j \notin held'["ops"]
    BY <2>1, <2>3 DEF StepsOK
  <2>6. QED
    BY <1>15, <2>2, <2>4, <2>5 DEF PurgeOps, Stores
<1>16. ASSUME PurgeRecordSegments PROVE Step4OK'
  BY <1>16 DEF PurgeRecordSegments, Without, Denied, Registered, Stores
<1>17. ASSUME PurgeCopies PROVE Step4OK'
  <2>1. \A j \in me.past : j \in Swept \/ job[j] = 5
    BY <1>17, PastSwept DEF PurgeCopies
  <2>2. me' = me /\ job' = job /\ at' \in Later
    BY <1>17 DEF PurgeCopies
  <2>3. held'["copies"] = held["copies"] \ Swept
    BY <1>17 DEF PurgeCopies, Without, Stores
  <2>4. \A s \in Stores \ {"copies"} : held'[s] = held[s]
    BY <1>17 DEF PurgeCopies, Without
  <2>5. \A j \in me.past : j \notin held'["copies"]
    BY <2>1, <2>3 DEF StepsOK
  <2>6. QED
    BY <1>17, <2>2, <2>4, <2>5 DEF PurgeCopies, Stores
<1>18. ASSUME RecordStep4 PROVE Step4OK'
  BY <1>18 DEF RecordStep4, Finish, Stores
<1>19. ASSUME SweepAgain PROVE Step4OK'
  <2>1. \A j \in me.past : j \in Swept \/ job[j] = 5
    BY <1>19, PastSwept DEF SweepAgain
  <2>2. me' = me /\ job' = job /\ at' \in Later
    BY <1>19 DEF SweepAgain
  <2>3. held'["shown"] = held["shown"] \ Swept
    BY <1>19 DEF SweepAgain, Without, Stores
  <2>4. \A s \in Stores \ {"shown"} : held'[s] = held[s]
    BY <1>19 DEF SweepAgain, Without
  <2>5. \A j \in me.past : j \notin held'["shown"]
    BY <2>1, <2>3 DEF StepsOK
  <2>6. QED
    BY <1>19, <2>2, <2>4, <2>5 DEF SweepAgain, Stores
<1>20. ASSUME BackupsPaid PROVE Step4OK'
  BY <1>20 DEF BackupsPaid, Stores
<1>21. ASSUME RecordStep5 PROVE Step4OK'
  BY <1>21 DEF RecordStep5, Finish, Idle, Stores
<1>22. ASSUME Stops PROVE Step4OK'
  BY <1>22 DEF Stops, Idle, Spend, Stores
<1>23. ASSUME NEW j \in Jobs, Register(j) PROVE Step4OK'
  BY <1>23 DEF Register, Stores
<1>24. ASSUME WorkerRound PROVE Step4OK'
  BY <1>24 DEF WorkerRound, Reconcile, Raw, Registered, Stores
<1>25. ASSUME Export PROVE Step4OK'
  BY <1>25 DEF Export, Raw, Denied, Registered, Stores
<1>26. ASSUME HookShows PROVE Step4OK'
  BY <1>26 DEF HookShows, Registered, Stores
<1>27. ASSUME SetAside PROVE Step4OK'
  BY <1>27 DEF SetAside, Spend, Stores
<1>28. ASSUME NEW reads \in BOOLEAN, Restore(reads) PROVE Step4OK'
  BY <1>28 DEF Restore, Spend, Raw, Registered, Stores
<1>29. ASSUME PutBack PROVE Step4OK'
  BY <1>29 DEF PutBack, Spend, Stores
<1>30. ASSUME UNCHANGED vars PROVE Step4OK'
  BY <1>30 DEF vars, Stores
<1>31. QED
  BY <1>1, <1>2, <1>3, <1>4, <1>5, <1>6, <1>7, <1>8, <1>9, <1>10, <1>11, <1>12, <1>13,
     <1>14, <1>15, <1>16, <1>17, <1>18, <1>19, <1>20, <1>21, <1>22, <1>23, <1>24, <1>25,
     <1>26, <1>27, <1>28, <1>29, <1>30 DEF Next, Purge

LEMMA IInvInit == Init => IInv
<1> SUFFICES ASSUME Init PROVE IInv
  OBVIOUS
<1>1. TypeOK
  BY TypeInit
<1>2. NoBusy
  BY ForgetAssumption DEF Init, NoBusy, Chances
<1>3. LockOK /\ LoggedOK /\ StepsOK
  BY DEF Init, LockOK, Locked, LoggedOK, StepsOK, Idle
<1>4. Step2OK
  BY DEF Init, Step2OK, Clean, Idle
<1>5. Step3OK /\ Step4OK
  BY DEF Init, Step3OK, Step4OK, Idle, Later, Stores
<1>6. QED
  BY <1>1, <1>2, <1>3, <1>4, <1>5 DEF IInv

LEMMA IInvNext == Steady /\ IInv /\ [Next]_vars => IInv'
  BY TypeNext, NoBusyNext, LockNext, LoggedNext, StepsNext, Step2Next, Step3Next, Step4Next
     DEF IInv

LEMMA IInvTells == IInv => StatusIsTrue
<1> SUFFICES ASSUME IInv, NEW j \in Jobs \ Raw
    PROVE  /\ job[j] >= 3 => ~Holds({"wal", "knowledge", "aside"}, j)
           /\ job[j] >= 4 => ~Holds({"ops", "segments", "copies"}, j)
           /\ job[j] >= 5 => ~Holds({"shown"}, j)
  BY DEF StatusIsTrue
<1>1. job[j] \in 0 .. 5
  BY DEF IInv, TypeOK
<1>2. QED
  BY <1>1 DEF IInv, StepsOK, Holds

\* `forget --status` tells the truth of every job, when no reader keeps raw.db-wal
\* from truncating or there is one record to forget.
THEOREM StatusHolds == Steady => (Spec => []StatusIsTrue)
<1> SUFFICES ASSUME Steady PROVE Spec => []StatusIsTrue
  OBVIOUS
<1>1. IInv /\ [Next]_vars => IInv'
  BY IInvNext
<1>2. QED
  BY <1>1, IInvInit, IInvTells, PTL DEF Spec
-----------------------------------------------------------------------------
(* The instances TLC checks.                                               *)

\* Their bounds are those the theorems ask for.
LEMMA RetentionBounded == R!Bounded
<1>1. \A h \in Captured : Len(h) \in Nat /\ DOMAIN h = 1 .. Len(h)
  BY DEF Captured, OfSessions
<1>2. RetentionBudgets \subseteq [R!Chances -> Nat]
  BY DEF RetentionBudgets, Once, R!Chances
<1>3. QED
  BY <1>1, <1>2 DEF R!Bounded

LEMMA CurationBounded == C!Bounded
  BY DEF C!Bounded

LEMMA CurationCounted == C!Counted
<1>1. CurationBudgets \subseteq [C!Chances -> Nat]
  BY DEF CurationBudgets, Once, C!Chances
<1>2. QED
  BY <1>1 DEF C!Counted

LEMMA HealthBounded == W!Bounded /\ W!ClockBounded
  BY DEF W!Bounded, W!ClockBounded

LEMMA ClaimsBounded == K!Bounded
<1>1. \A w \in K!Sent : w \in {OldClaim, NewClaim, Pair, SentAgain}
  BY DEF K!Sent, ClaimPlans, Plan
<1>2. \A u, q, s, p, b : Claim(u, q, s, p, b).tier \in 1 .. 1
  BY DEF Claim
<1>3. ASSUME NEW w \in {OldClaim, NewClaim, Pair, SentAgain}
      PROVE  Len(w) \in Nat /\ DOMAIN w = 1 .. Len(w) /\ \A j \in DOMAIN w : w[j].tier \in 1 .. 1
  <2>1. CASE w = Pair
    BY <1>2, <2>1 DEF Pair
  <2>2. CASE w # Pair
    BY <1>2, <1>3, <2>2 DEF OldClaim, NewClaim, SentAgain
  <2>3. QED
    BY <2>1, <2>2
<1>4. 1 \in Int
  OBVIOUS
<1>5. QED
  BY <1>1, <1>3, <1>4 DEF K!Bounded

\* A step of one part is none of another's.
LEMMA StepsApart ==
  ASSUME [AnyNext]_every
  PROVE  /\ part' = part
         /\ part = "forget" => [Next]_vars
         /\ part = "retention" => [R!Next]_R!vars
         /\ part = "curation" => [C!Next]_C!vars
         /\ part = "marker" => [M!Next]_M!vars
         /\ part = "watchdog" => [W!Next]_W!vars
         /\ part = "claims" => [K!Next]_K!vars
<1>1. CASE AnyNext
  BY <1>1 DEF AnyNext, RestOfForget, RestOfRetention, RestOfCuration
<1>2. CASE UNCHANGED every
  <2>1. UNCHANGED <<part, forget, retention, curation, failure, watchdog, claims, shared>>
    BY <1>2 DEF every
  <2>2. QED
    BY <2>1 DEF forget, retention, curation, failure, watchdog, claims, shared, vars, R!vars, R!world,
       C!vars, C!ledger, M!vars, W!vars, K!vars
<1>3. QED
  BY <1>1, <1>2

LEMMA CurationRestsOn ==
  ASSUME [AnyNext]_every, part # "curation"
  PROVE  down' = down /\ skipped' = skipped
  BY DEF AnyNext, every, curation, RestOfForget, RestOfRetention

LEMMA MarkerInstance ==
  /\ M!Init <=> W!M!Init
  /\ [M!Next]_M!vars <=> [W!M!Next]_W!M!vars
  /\ M!MarkerIsLatest <=> W!M!MarkerIsLatest
  /\ M!TypeOK <=> W!M!TypeOK
<1>1. M!Next <=> W!M!Next
  BY DEF M!Next, M!Prepare, M!Ticks, M!Ends, M!Updates, M!clear, M!mark, M!later, M!Ok, M!Failed,
     M!Missing, M!Running, M!Ended, W!M!Next, W!M!Prepare, W!M!Ticks, W!M!Ends, W!M!Updates,
     W!M!clear, W!M!mark, W!M!later, W!M!Ok, W!M!Failed, W!M!Missing, W!M!Running, W!M!Ended
<1>2. QED
  BY <1>1 DEF M!Init, M!Missing, M!Running, M!vars, M!MarkerIsLatest, M!LastFailed, M!TypeOK,
     M!Times, M!States, M!Writes, W!M!Init, W!M!Missing, W!M!Running, W!M!vars, W!M!MarkerIsLatest,
     W!M!LastFailed, W!M!TypeOK, W!M!Times, W!M!States, W!M!Writes

LEMMA InitsApart ==
  ASSUME AnyInit
  PROVE  /\ part = "forget" => Init
         /\ part = "retention" => R!Init
         /\ part = "curation" => C!Init
         /\ part = "marker" => M!Init
         /\ part = "watchdog" => W!Init
         /\ part = "claims" => K!Init
  BY DEF AnyInit

\* A retention instance's expired records are in no store once their batch is over, what was made
\* from them stays, and a session's first records expire first (src/retention.rs).
THEOREM PartsRetention == AnySpec => [](ExpiredIsGone /\ ClaimsStay /\ OldestFirst)
<1> DEFINE I == part = "retention" => R!Inv
<1>1. AnyInit => I
  BY InitsApart, RetentionBounded, R!InvInit
<1>2. I /\ [AnyNext]_every => I'
  BY StepsApart, RetentionBounded, R!InvNext
<1>3. I => ExpiredIsGone /\ ClaimsStay /\ OldestFirst
  BY RetentionBounded, R!InvHolds DEF ExpiredIsGone, ClaimsStay, OldestFirst
<1>4. QED
  BY <1>1, <1>2, <1>3, PTL DEF AnySpec

\* And its batches take whole windows, of sessions that wait for no curation.
THEOREM PartsBatches == AnySpec => BatchIsWhole
<1> DEFINE I == (part = "retention" => R!Inv) /\ (part # "retention" => table = {})
           Whole1 == table = {} /\ table' # {} /\ at' = "file" =>
             /\ \A w \in windows : R!Expiring(w) \subseteq table' \/ R!Expiring(w) \cap table' = {}
             /\ \A r \in table' : R!Newest(R!Session(r)) <= R!Checkpoint
<1>1. AnyInit => I
  BY InitsApart, RetentionBounded, R!InvInit DEF AnyInit, RetentionRests
<1>2. [AnyNext]_every /\ part # "retention" => table' = table
  BY DEF AnyNext, every, retention, RestOfForget, RestOfCuration
<1>3. I /\ [AnyNext]_every => I'
  BY <1>2, StepsApart, RetentionBounded, R!InvNext
<1>4. I /\ [AnyNext]_every => [Whole1]_R!vars
  <2> SUFFICES ASSUME I, [AnyNext]_every PROVE Whole1
    OBVIOUS
  <2>1. CASE part = "retention"
    BY <2>1, StepsApart, RetentionBounded, R!BatchNext
  <2>2. CASE part # "retention"
    BY <1>2, <2>2
  <2>3. QED
    BY <2>1, <2>2
<1>5. QED
  BY <1>1, <1>3, <1>4, PTL DEF AnySpec, BatchIsWhole, R!BatchIsWhole

\* A curation instance's bill is within its cap (src/budget.rs).
THEOREM PartsCap == AnySpec => []PaidWithinCap
<1> DEFINE I == part = "curation" => C!Inv
<1>1. AnyInit => I
  BY InitsApart, CurationBounded, C!InvInit
<1>2. I /\ [AnyNext]_every => I'
  BY StepsApart, CurationBounded, C!InvNext
<1>3. I => PaidWithinCap
  BY CurationBounded, C!InvPays DEF PaidWithinCap
<1>4. QED
  BY <1>1, <1>2, <1>3, PTL DEF AnySpec

\* Its holds that wait for the owner are ended by the owner alone (budget.rs, settle).
THEOREM PartsHolds == AnySpec => HoldIsTheOwners
<1> DEFINE I == part = "curation" => C!Inv
           Owners == \A e \in C!Entries :
                        down[e] = C!OwnerHold /\ down'[e] # C!OwnerHold => C!Resume(e)
<1>1. AnyInit => I
  BY InitsApart, CurationBounded, C!InvInit
<1>2. I /\ [AnyNext]_every => I'
  BY StepsApart, CurationBounded, C!InvNext
<1>3. I /\ [AnyNext]_every => [Owners]_C!vars
  <2> SUFFICES ASSUME I, [AnyNext]_every, ~UNCHANGED C!vars PROVE Owners
    OBVIOUS
  <2>1. CASE part = "curation"
    BY <2>1, StepsApart, CurationBounded, C!HoldNext
  <2>2. CASE part # "curation"
    BY <2>2, CurationRestsOn
  <2>3. QED
    BY <2>1, <2>2
<1>4. QED
  BY <1>1, <1>2, <1>3, PTL DEF AnySpec, HoldIsTheOwners, C!HoldIsTheOwners

\* Its windows are skipped after three failures of one request (curate.rs, run_phase).
THEOREM PartsSkips == AnySpec => SkippedAfterThree
<1> DEFINE I == part = "curation" => C!Inv /\ C!TriesOK
           Three == skipped' # skipped /\ me["worker"].of = {asked} => tried = C!Attempts
<1>1. AnyInit => I
  BY InitsApart, CurationBounded, C!InvInit, C!TriesInit
<1>2. I /\ [AnyNext]_every => I'
  BY StepsApart, CurationBounded, C!InvNext, C!TriesNext
<1>3. I /\ [AnyNext]_every => [Three]_C!vars
  <2> SUFFICES ASSUME I, [AnyNext]_every, ~UNCHANGED C!vars PROVE Three
    OBVIOUS
  <2>1. CASE part = "curation"
    BY <2>1, StepsApart, C!SkipNext
  <2>2. CASE part # "curation"
    BY <2>2, CurationRestsOn
  <2>3. QED
    BY <2>1, <2>2
<1>4. QED
  BY <1>1, <1>2, <1>3, PTL DEF AnySpec, SkippedAfterThree, C!SkippedAfterThree

\* The marker says what the write that ended last says (src/failure.rs).
THEOREM PartsMarker == AnySpec => []MarkerIsLatest
<1> DEFINE I == part = "marker" => W!MarkerInv
<1>1. AnyInit => I
  BY InitsApart, MarkerInstance, HealthBounded, W!MarkerInit
<1>2. I /\ [AnyNext]_every => I'
  BY StepsApart, MarkerInstance, HealthBounded, W!MarkerNext
<1>3. I => MarkerIsLatest
  BY MarkerInstance, HealthBounded, W!MarkerSays DEF MarkerIsLatest
<1>4. QED
  BY <1>1, <1>2, <1>3, PTL DEF AnySpec

\* Only a loop that is stuck has its worker leave, and one that is has (src/watchdog.rs).
THEOREM PartsWatch == AnySpec => [](AlarmIsTrue /\ StuckIsFound)
<1> DEFINE I == part = "watchdog" => W!Inv
<1>1. AnyInit => I
  BY InitsApart, HealthBounded, W!InvInit
<1>2. I /\ [AnyNext]_every => I'
  BY StepsApart, HealthBounded, W!InvNext
<1>3. I => AlarmIsTrue /\ StuckIsFound
  BY HealthBounded, W!InvWatches DEF AlarmIsTrue, StuckIsFound
<1>4. QED
  BY <1>1, <1>2, <1>3, PTL DEF AnySpec

\* What a reader shows of the claims stands in the raw.db it began with; and once the consumers have
\* caught up, a rebuild finds every current claim there is and, besides, exactly those that only an
\* edge to a dropped sibling supersedes (src/claims.rs, src/consumer/claims.rs).
THEOREM PartsClaims == AnySpec => [](ShownStands /\ CurrentAsRebuilt)
<1> DEFINE I == part = "claims" => K!Inv
<1>1. AnyInit => I
  BY InitsApart, ClaimsBounded, K!InitOK
<1>2. I /\ [AnyNext]_every => I'
  BY StepsApart, ClaimsBounded, K!NextOK
<1>3. I => ShownStands /\ CurrentAsRebuilt
  BY ClaimsBounded, K!InvShows, K!InvCurrent DEF ShownStands, CurrentAsRebuilt
<1>4. QED
  BY <1>1, <1>2, <1>3, PTL DEF AnySpec

\* `forget --status` tells the truth of every job, beside the other parts (src/forget.rs).
THEOREM PartsStatus == Steady => (AnySpec => []StatusIsTrue)
<1> SUFFICES ASSUME Steady PROVE AnySpec => []StatusIsTrue
  OBVIOUS
<1> DEFINE I == IF part = "forget" THEN IInv ELSE \A j \in Jobs : job[j] = 0
<1>1. AnyInit => I
  BY InitsApart, IInvInit DEF AnyInit, ForgetRests
<1>2. [AnyNext]_every /\ part # "forget" => job' = job
  BY DEF AnyNext, every, forget, RestOfRetention, RestOfCuration
<1>3. I /\ [AnyNext]_every => I'
  BY <1>2, StepsApart, IInvNext
<1>4. I => StatusIsTrue
  BY IInvTells DEF StatusIsTrue
<1>5. QED
  BY <1>1, <1>3, <1>4, PTL DEF AnySpec
\* Every part's variables keep their types (Typed): no checkpoint, step, count, budget or time leaves
\* its range, in whichever part the behaviour is.
THEOREM PartsTyped == AnySpec => []Typed
<1> DEFINE Parts == {"forget", "retention", "curation", "marker", "watchdog", "claims"}
           InRetention == part = "retention" => R!Inv /\ R!TypesOK
           InCuration == part = "curation" => C!Inv /\ C!TriesOK /\ C!DayOK /\ C!WindowOK
           I == /\ part \in Parts /\ (part = "forget" => TypeOK) /\ InRetention /\ InCuration
                /\ part = "marker" => W!MarkerInv
                /\ part = "watchdog" => W!Inv
                /\ part = "claims" => K!Inv
<1>1. ASSUME AnyInit PROVE I
  <2>1. part \in Parts
    BY <1>1 DEF AnyInit
  <2>2. (part = "forget" => TypeOK) /\ InRetention
    BY <1>1, InitsApart, TypeInit, RetentionBounded, R!InvInit, R!TypesInit
  <2>3. InCuration
    BY <1>1, InitsApart, CurationBounded, CurationCounted, C!WholeInit
  <2>4. (part = "marker" => W!MarkerInv) /\ (part = "watchdog" => W!Inv)
    BY <1>1, InitsApart, MarkerInstance, HealthBounded, W!MarkerInit, W!InvInit
  <2>5. part = "claims" => K!Inv
    BY <1>1, InitsApart, ClaimsBounded, K!InitOK
  <2>6. QED
    BY <2>1, <2>2, <2>3, <2>4, <2>5
<1>2. ASSUME I, [AnyNext]_every PROVE I'
  <2>0. part' = part
    BY <1>2, StepsApart
  <2>1. (part = "forget" => TypeOK)'
    BY <1>2, <2>0, StepsApart, TypeNext
  <2>2. InRetention'
    BY <1>2, <2>0, StepsApart, RetentionBounded, R!InvNext, R!TypesNext DEF R!Inv
  <2>3. InCuration'
    BY <1>2, <2>0, StepsApart, CurationBounded, CurationCounted, C!WholeNext
  <2>4. (part = "marker" => W!MarkerInv)'
    BY <1>2, <2>0, StepsApart, MarkerInstance, HealthBounded, W!MarkerNext
  <2>5. (part = "watchdog" => W!Inv)'
    BY <1>2, <2>0, StepsApart, HealthBounded, W!InvNext
  <2>6. (part = "claims" => K!Inv)'
    BY <1>2, <2>0, StepsApart, ClaimsBounded, K!NextOK
  <2>7. QED
    BY <1>2, <2>0, <2>1, <2>2, <2>3, <2>4, <2>5, <2>6
<1>3. ASSUME I PROVE Typed
  <2>1. part = "retention" => R!TypeOK
    BY <1>3, RetentionBounded, R!TypesHold
  <2>2. part = "curation" => C!TypeOK
    BY <1>3, CurationBounded, CurationCounted, C!WholeTypes
  <2>3. part = "marker" => M!TypeOK
    BY <1>3, MarkerInstance, HealthBounded, W!MarkerSays
  <2>4. part = "watchdog" => W!TypeOK
    BY <1>3, HealthBounded, W!InvWatches
  <2>5. part = "claims" => K!TypeOK
    BY <1>3, K!InvTypes
  <2>6. QED
    BY <1>3, <2>1, <2>2, <2>3, <2>4, <2>5 DEF Typed
<1>4. QED
  BY <1>1, <1>2, <1>3, PTL DEF AnySpec
=============================================================================
