------------------------------- MODULE Forget -------------------------------
(***************************************************************************)
(* What `oboete forget` promises of a text once its request is registered: *)
(* a purge (src/forget.rs, purge) takes it out of raw.db and its -wal, out *)
(* of knowledge.db and the copies set aside, out of the backups and out of *)
(* what the sessions were shown, step by step, and records each step.  It  *)
(* may be killed anywhere, and a restore or the owner's own older raw.db   *)
(* may bring the text back meanwhile; `forget --continue` goes on.         *)
(* A job forgets one text: a claim by its uid, or a record with all that   *)
(* was made from it.                                                       *)
(***************************************************************************)
EXTENDS Naturals

CONSTANTS Uids,     \* the jobs that forget a claim, document or preference
          Records,  \* the jobs that forget a record
          Budgets   \* bound: how often each rare event may happen in one behaviour

Jobs    == Uids \cup Records
Stores  == {"raw", "wal",                   \* raw.db and raw.db-wal
            "knowledge", "aside",           \* knowledge.db, its copies set aside
            "ops", "segments", "copies",    \* the backup's ops and record segments, copies of raw.db
            "shown"}                        \* the sessions' shown values
Chances == {"kill", "busy", "restore", "hand", "aside"}

ASSUME ForgetAssumption ==
  /\ Uids \cap Records = {}
  /\ Budgets \subseteq [Chances -> Nat]

VARIABLES held,    \* the texts each store holds
          job,     \* each job's step in raw.db, 0 when raw.db has no row of it
          logged,  \* the jobs the request log holds
          owes,    \* record_backups_owed, in raw.db
          locked,  \* whether the purge holds the worker lock
          at,      \* where the purge is
          me,      \* the purge's own variables
          chance   \* what is left of the budget
vars == <<held, job, logged, owes, locked, at, me, chance>>

Idle   == [first |-> {},         \* the jobs that take step 2
           todo |-> {},          \* the claims among them still to purge
           rebuild |-> {},       \* the jobs that take step 3
           own |-> {},           \* what only the rebuild's own copy set aside holds
           truncated |-> FALSE,  \* whether raw.db-wal was truncated
           past |-> {},          \* the jobs that take steps 4 and 5
           owed |-> FALSE]       \* whether the record segments and all that was made are read too

Raw        == held["raw"]
Registered == {j \in Jobs : job[j] > 0}
Denied     == Registered \cap Records
Spend(c)   == chance[c] > 0 /\ chance' = [chance EXCEPT ![c] = @ - 1]
Without(store, texts) == [held EXCEPT ![store] = @ \ texts]

\* Written again without texts; a page written leaves its other texts in the -wal.
Rewritten(texts) == [held EXCEPT !["raw"] = @ \ texts, !["wal"] = @ \cup (Raw \ texts)]

\* finish_forget_step: a step a job passed stays; with no row nothing is recorded.
Finish(jobs, step) ==
  job' = [j \in Jobs |-> IF j \in jobs /\ job[j] \in 1 .. step THEN step ELSE job[j]]

\* restart_forget_step: exactly this step, down too.
Restart(jobs, step) ==
  job' = [j \in Jobs |-> IF j \in jobs /\ job[j] > 0 THEN step ELSE job[j]]

ReconcileOut ==                                                         \* variation
  /\ UNCHANGED job
  /\ logged' = logged \cup Registered

\* reconcile: the log's requests that raw.db lacks, and raw.db's that the log lacks.
Reconcile ==
  /\ job' = [j \in Jobs |-> IF job[j] = 0 /\ j \in logged THEN 1 ELSE job[j]]
  /\ logged' = logged \cup Registered

Init ==
  /\ held = [s \in Stores |-> IF s \in {"raw", "wal"} THEN Jobs ELSE {}]
  /\ job = [j \in Jobs |-> 0]
  /\ logged = {} /\ owes = FALSE /\ locked = FALSE
  /\ at = "idle" /\ me = Idle
  /\ chance \in Budgets
-----------------------------------------------------------------------------
(* Step 2, under the worker lock: raw.db and its -wal.                     *)

Due(j) == job'[j] > 0 /\ (j \in Raw \/ job'[j] < 5)

\* `forget --continue` (and `forget` itself): the logs first, then what is due.
Continue ==
  /\ at = "idle"
  /\ Reconcile
  /\ owes \/ \E j \in Jobs : Due(j)
  /\ LET first == {j \in Jobs : Due(j) /\ (job'[j] < 2 \/ j \in Raw)}
         again == {j \in Jobs : Due(j) /\ job'[j] = 2 /\ j \notin Raw}
     IN  /\ me' = [Idle EXCEPT !.first = first, !.todo = first \cap Uids, !.rebuild = again]
         /\ at' = IF first # {} THEN "ask" ELSE IF again # {} THEN "rebuild" ELSE "last"
  /\ UNCHANGED <<held, owes, locked, chance>>

LockForStep2 ==
  /\ at = "ask"
  /\ locked' = TRUE /\ at' = "uids"
  /\ UNCHANGED <<held, job, logged, owes, me, chance>>

PurgeUid(u) ==
  /\ at = "uids" /\ u \in me.todo
  /\ held' = Rewritten({u})
  /\ me' = [me EXCEPT !.todo = @ \ {u}]
  /\ UNCHANGED <<job, logged, owes, locked, at, chance>>

\* The backups are owed before the first row loses its text.
OweBackups ==
  /\ at = "uids" /\ me.todo = {}
  /\ IF me.first \cap Records = {}
     THEN at' = "truncate" /\ UNCHANGED owes
     ELSE at' = "rows" /\ owes' = TRUE
  /\ UNCHANGED <<held, job, logged, locked, me, chance>>

\* Every forgotten record, and what was made from it, whichever job it is of.
PurgeRecords ==
  /\ at = "rows"
  /\ held' = Rewritten(Denied)
  /\ at' = "truncate"
  /\ UNCHANGED <<job, logged, owes, locked, me, chance>>

\* truncate_wal, which a reader may keep from truncating.
Truncate ==
  /\ at = "truncate"
  /\ \/ held' = [held EXCEPT !["wal"] = {}]
        /\ me' = [me EXCEPT !.truncated = TRUE]
        /\ UNCHANGED chance
     \/ Spend("busy") /\ UNCHANGED <<held, me>>
  /\ at' = "step2"
  /\ UNCHANGED <<job, logged, owes, locked>>

RecordStep2 ==
  /\ at = "step2"
  /\ LET done == IF me.truncated THEN me.first \ Raw ELSE {}
     IN  /\ Restart(done, 2)
         /\ me' = [me EXCEPT !.rebuild = @ \cup done]
         /\ at' = IF me.rebuild \cup done = {} THEN "last" ELSE "rebuild"
  /\ locked' = FALSE
  /\ UNCHANGED <<held, logged, owes, chance>>
-----------------------------------------------------------------------------
(* Step 3: knowledge.db built again, and the copies set aside removed.     *)

\* No vector of a forgotten text is carried, nor of one only the log knows.
Carried(from) == {j \in held[from] : job[j] = 0 /\ j \notin logged}

\* worker::rebuild takes the worker lock itself; its drain reconciles first.
Rebuild ==
  /\ at = "rebuild"
  /\ Reconcile
  /\ held' = [held EXCEPT !["knowledge"] = {j \in Raw : job'[j] = 0} \cup Carried("knowledge"),
                          !["aside"] = @ \cup held["knowledge"]]
  /\ me' = [me EXCEPT !.own = held["knowledge"] \ held["aside"]]
  /\ locked' = TRUE /\ at' = "rebuilt"
  /\ UNCHANGED <<owes, chance>>

RebuildEnds ==
  /\ at = "rebuilt"
  /\ held' = Without("aside", me.own)
  /\ locked' = FALSE /\ at' = "sweep"
  /\ UNCHANGED <<job, logged, owes, me, chance>>

Sweep ==
  /\ at = "sweep"
  /\ held' = Without("shown", (me.rebuild \cap Uids)
                                \cup (IF me.rebuild \cap Records = {} THEN {} ELSE Denied \ Raw))
  /\ at' = "last"
  /\ UNCHANGED <<job, logged, owes, locked, me, chance>>

LockForStep3 ==
  /\ at = "last"
  /\ locked' = TRUE
  /\ at' = IF me.rebuild = {} THEN "look" ELSE "aside"
  /\ UNCHANGED <<held, job, logged, owes, me, chance>>

RemoveAside ==
  /\ at = "aside"
  /\ held' = [held EXCEPT !["knowledge"] = @ \cup Carried("aside"), !["aside"] = {}]
  /\ at' = "step3"
  /\ UNCHANGED <<job, logged, owes, locked, me, chance>>

Step3Of(jobs) ==
  /\ at = "step3"
  /\ Finish(jobs, 3)
  /\ at' = "look"
  /\ UNCHANGED <<held, logged, owes, locked, me, chance>>

RecordStep3Blindly == Step3Of(me.rebuild)                               \* variation

\* A text that came back since step 2 leaves its job to the next continuation.
RecordStep3 == Step3Of(me.rebuild \ Raw)
-----------------------------------------------------------------------------
(* Steps 4 and 5, under the same hold: the backups and the shown values.   *)

Past == {j \in Jobs : job[j] >= 3 /\ j \notin Raw}
Swept == (me.past \cap Uids) \cup (IF me.owed THEN Denied ELSE {})

LookAtBackups ==
  /\ at = "look"
  /\ LET owed == owes \/ \E r \in Past \cap Records : job[r] < 5
     IN  IF Past \cap Uids = {} /\ ~owed
         THEN at' = "idle" /\ locked' = FALSE /\ me' = Idle
         ELSE at' = "ops" /\ me' = [me EXCEPT !.past = Past, !.owed = owed] /\ UNCHANGED locked
  /\ UNCHANGED <<held, job, logged, owes, chance>>

PurgeOps ==
  /\ at = "ops"
  /\ held' = Without("ops", Swept)
  /\ at' = "segments"
  /\ UNCHANGED <<job, logged, owes, locked, me, chance>>

PurgeRecordSegments ==
  /\ at = "segments"
  /\ held' = IF me.owed THEN Without("segments", Denied) ELSE held
  /\ at' = "copies"
  /\ UNCHANGED <<job, logged, owes, locked, me, chance>>

PurgeCopies ==
  /\ at = "copies"
  /\ held' = Without("copies", Swept)
  /\ at' = "step4"
  /\ UNCHANGED <<job, logged, owes, locked, me, chance>>

RecordStep4 ==
  /\ at = "step4"
  /\ Finish(me.past, 4)
  /\ at' = "shown"
  /\ UNCHANGED <<held, logged, owes, locked, me, chance>>

SweepAgain ==
  /\ at = "shown"
  /\ held' = Without("shown", Swept)
  /\ at' = "paid"
  /\ UNCHANGED <<job, logged, owes, locked, me, chance>>

BackupsPaid ==
  /\ at = "paid"
  /\ owes' = (owes /\ ~me.owed)
  /\ at' = "step5"
  /\ UNCHANGED <<held, job, logged, locked, me, chance>>

RecordStep5 ==
  /\ at = "step5"
  /\ Finish(me.past, 5)
  /\ at' = "idle" /\ locked' = FALSE /\ me' = Idle
  /\ UNCHANGED <<held, logged, owes, chance>>

\* The purge is killed, or a step of it fails: the system lets its locks go.
Stops ==
  /\ at # "idle"
  /\ Spend("kill")
  /\ at' = "idle" /\ locked' = FALSE /\ me' = Idle
  /\ UNCHANGED <<held, job, logged, owes>>
-----------------------------------------------------------------------------
(* What goes on beside a purge: a registration and the hooks at any time,  *)
(* what takes the worker lock only while the purge does not hold it.       *)

\* forget_start: denied, hidden from every reader, and not logged yet.
Register(j) ==
  /\ job[j] = 0 /\ j \in Raw
  /\ job' = [job EXCEPT ![j] = 1]
  /\ UNCHANGED <<held, logged, owes, locked, at, me, chance>>

\* A worker's round: the logs are read, then raw.db's texts that are not denied indexed.
WorkerRound ==
  /\ ~locked
  /\ Reconcile
  /\ held' = [held EXCEPT !["knowledge"] = @ \cup {j \in Raw : job'[j] = 0}]
  /\ UNCHANGED <<owes, locked, at, me, chance>>

\* An op keeps its body until its purge; a denied record's line is a removed one.
Export ==
  /\ ~locked
  /\ held' = [held EXCEPT !["ops"] = @ \cup Raw, !["segments"] = @ \cup ((Raw \cap Records) \ Denied)]
  /\ UNCHANGED <<job, logged, owes, locked, at, me, chance>>

HookShows ==
  /\ held' = [held EXCEPT !["shown"] = @ \cup (held["knowledge"] \ Registered)]
  /\ UNCHANGED <<job, logged, owes, locked, at, me, chance>>

\* A damaged knowledge.db is quarantined, or the owner's own rebuild stops.
SetAside ==
  /\ ~locked /\ Spend("aside")
  /\ held' = [held EXCEPT !["aside"] = @ \cup held["knowledge"], !["knowledge"] = {}]
  /\ UNCHANGED <<job, logged, owes, locked, at, me>>

\* raw.db made again from the segments, with the requests the log holds and,
\* when it still reads, the ones the old raw.db holds.  (Not modelled: no copy
\* of the log has a request and raw.db does not read.)
Restore(reads) ==
  /\ ~locked /\ Spend("restore")
  /\ reads \/ Registered \subseteq logged
  /\ LET requests == logged \cup (IF reads THEN Registered ELSE {})
     IN  job' = [j \in Jobs |-> IF j \in requests THEN 1 ELSE 0]
  /\ logged' = logged \cup Registered
  /\ held' = [held EXCEPT !["raw"] = held["ops"] \cup held["segments"], !["wal"] = {},
                          !["copies"] = @ \cup Raw \cup held["wal"],
                          !["aside"] = @ \cup held["knowledge"], !["knowledge"] = {}]
  /\ owes' = FALSE
  /\ UNCHANGED <<locked, at, me>>

\* The owner puts an older copy of raw.db back, from before every request.
PutBack ==
  /\ ~locked /\ Spend("hand")
  /\ held' = [held EXCEPT !["raw"] = Jobs, !["wal"] = {}]
  /\ job' = [j \in Jobs |-> 0] /\ owes' = FALSE
  /\ UNCHANGED <<logged, locked, at, me>>

Purge ==
  \/ ~locked /\ (LockForStep2 \/ Rebuild \/ LockForStep3)
  \/ Continue \/ (\E u \in Uids : PurgeUid(u)) \/ OweBackups \/ PurgeRecords
  \/ Truncate \/ RecordStep2 \/ RebuildEnds \/ Sweep \/ RemoveAside \/ RecordStep3
  \/ LookAtBackups \/ PurgeOps \/ PurgeRecordSegments \/ PurgeCopies \/ RecordStep4
  \/ SweepAgain \/ BackupsPaid \/ RecordStep5

Next ==
  \/ Purge \/ Stops
  \/ (\E j \in Jobs : Register(j))
  \/ WorkerRound \/ Export \/ HookShows \/ SetAside
  \/ (\E reads \in BOOLEAN : Restore(reads))
  \/ PutBack

Spec     == Init /\ [][Next]_vars
FairSpec == Spec /\ WF_vars(Purge)
-----------------------------------------------------------------------------
TypeOK ==
  /\ held \in [Stores -> SUBSET Jobs]
  /\ job \in [Jobs -> 0 .. 5]
  /\ logged \subseteq Jobs
  /\ owes \in BOOLEAN /\ locked \in BOOLEAN
  /\ at \in {"idle", "ask", "uids", "rows", "truncate", "step2", "rebuild", "rebuilt", "sweep",
             "last", "aside", "step3", "look", "ops", "segments", "copies", "step4", "shown",
             "paid", "step5"}
  /\ me \in [first : SUBSET Jobs, todo : SUBSET Uids, rebuild : SUBSET Jobs, own : SUBSET Jobs,
             truncated : BOOLEAN, past : SUBSET Jobs, owed : BOOLEAN]
  /\ chance \in [Chances -> Nat]

Holds(stores, j) == \E s \in stores : j \in held[s]

\* `forget --status` says no more of a job than is true: from step 3, while raw.db
\* does not hold the text, nor do its -wal, knowledge.db and the copies set aside;
\* from step 4 no backup and no copy of raw.db does; done, no session was shown it.
StatusIsTrue ==
  \A j \in Jobs \ Raw :
    /\ job[j] >= 3 => ~Holds({"wal", "knowledge", "aside"}, j)
    /\ job[j] >= 4 => ~Holds({"ops", "segments", "copies"}, j)
    /\ job[j] >= 5 => ~Holds({"shown"}, j)

\* A request that reached the log is carried out, whatever is killed, restored or
\* put back on the way: in the end no store holds its text.
ForgottenIsGone == \A j \in Jobs : (j \in logged) ~> ~Holds(Stores, j)
=============================================================================
