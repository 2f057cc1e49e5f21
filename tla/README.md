# oboete in TLA+

oboete is a local memory for coding agents. Hooks of the agents append redacted events to
`raw.db`; one worker per home reads them in order and builds `knowledge.db` (indexes, claims,
packets); phases of the worker ask providers about windows of records and append what comes back as
ops; commands of the owner forget, restore, rebuild and curate again. This directory holds models
of its concurrent core, the TLC runs that check them on small instances, and proofs for every
instance. Paths are of the repository's root; `worker.rs` means `src/worker.rs`.

## Inventory

| part | state | operations | who it meets |
|---|---|---|---|
| hooks (`hook.rs`) | rows of raw.db, the failure marker, `state/hook-*` | append, mark a failure, ask for a restore, look at the worker lock, spawn | the lock, raw.db |
| worker (`worker.rs`) | `state/worker.lock`, `worker-gen`, `worker-outcome`, `worker-yield/*`, `restore-wanted` | take, open, rounds, wait, step aside, release, last check, record | hooks, commands, status readers |
| commands that need the lock (`worker.rs`, `curate.rs`, `forget.rs`, `retention.rs`) | their own work on the stores | ask, wait, work, drain or drop | the worker |
| raw store (`raw.rs`) | records by (device, seq), ops by (device, op seq), forget jobs, masks | append, read after, register a forget, mask | everyone |
| consumers (`worker.rs`, `knowledge.rs`, `consumer/*`) | a checkpoint each and its output in knowledge.db | step, rewind, rebuild | raw store |
| backups (`backup.rs`) | sealed segments, quarantined files, `raw.db.restored` | export, check, restore, quarantine | worker, every open of raw.db |
| dispatch hold (`dispatch.rs`) | `dispatch.lock`, shared or exclusive | send a provider's body, build an answer, register a forget | curation, embedding, judge, page |
| forget (`forget.rs`) | jobs with a step each, request logs | register, reconcile, purge, continue | dispatch, worker lock, backups |
| retention (`retention.rs`) | the batch owed | a weekly pass | worker lock, backups |
| curation (`curate.rs`, `claims.rs`, `gates.rs`) | windows, ops of claims, failures counted | cut, send, gate, append | providers, raw store |
| providers (`provider.rs`, `budget.rs`) | cooldowns, the month's cap | try the chain, reserve, count | curation, embedding |
| embedding (`embed_phase.rs`, `shortlist.rs`) | a call in flight, generations | poll, settle | worker loop |
| watchdog (`watchdog.rs`) | a progress count, the calls' allowance | look every 30 s, leave after 15 min | worker loop |
| failure marker (`failure.rs`, `unwritten.rs`) | a marker file, kept rows | mark, clear, write back | hooks, doctor |
| viewer, settings, MCP, search | read snapshots, confirmation tokens, config.toml | answer, save | readers of both stores |

What is hard here: the processes never talk to each other, they leave files. A hook that finds the
lock held relies on somebody else's later look; a worker that leaves, steps aside or execs must not
be relied on afterwards; a kill can fall between any two files written; a power loss takes commits
away that others have already read; a restore replaces the stores under processes that want to open
them; a forget must not be overtaken by a body that is already on its way to a provider.

What makes each part correct:

| part | properties |
|---|---|
| worker, hooks, commands | one process at a time inside the stores; what is appended gets processed without another hook; a kill at work is reported and a shutdown while waiting is not; a call that was paid for is settled |
| dispatch hold, gate | no body leaves, and no answer is built, with text that is taken; a forget never waits for an answer, only for a last byte; locks taken in one order |
| backups, restore | a home never gets a second raw.db; segments hold what raw.db holds; a forget survives a restore; derived data is of the raw.db that is there; a damaged raw.db comes back |
| consumers | a checkpoint and its output move together; no seq is skipped or read twice |
| forget | a purge stopped at any step is finished by the next, each copy of the text goes, and the status says no more than is true |
| retention | an expired text is in no copy; what was made from it stays; a batch takes whole windows, oldest first, and ends |
| curation | a window is tried a bounded number of times and holds no later one up |
| providers, budget | the month's cap is never passed, also by a call whose answer never came; the owner's hold is the owner's |
| watchdog | only a worker that is stuck is left, and one that is stuck is found |
| failure marker | the marker says what the last write's end says |

`PROJECT.json` lists every component with its status, the hazards at their lines with the
properties that cover them, and for each definition the lines it translates.

## Modules

| module | what |
|---|---|
| `WakeUp` | the promise of the worker's life cycle |
| `Worker`, `MCWorker` | the life cycle; its instances |
| `WorkerProofs` | types, mutual exclusion, the outcome note, the paid call, no lost wake-up; `Worker` implements `WakeUp`'s steps |
| `Fence` | the promise of `dispatch.lock` |
| `Dispatch`, `MCDispatch` | senders, readers, writers and a restore at the two locks; its symmetry |
| `DispatchProofs` | the gate's safety, the saves of the rules, and that `Dispatch` implements `Fence` |
| `Recovery`, `MCRecovery` | backups, restore and a worker's start; its instances |
| `RecoveryProofs` | types, one store per home, what a forget asks, what knowledge.db holds, that segments and raw.db agree, what windows were shown |
| `Forget`, `MCForget` | a purge's steps, beside restores, exports and older copies of raw.db; one record beside a reader |
| `Retention` | the weekly pass that lets old text expire |
| `Curation` | a window through the provider chain and its budget |
| `Marker` | the recording-failed marker |
| `Watchdog` | the thread that watches the worker's loop |
| `Claims` | the claims' consumers, and what a reader shows between them |
| `RetentionProofs`, `CurationProofs`, `ClaimsProofs` | the safety of these three |
| `HealthProofs` | the safety of `Marker` and `Watchdog` |
| `MCParts` | the instances of `Forget` and, with their proofs, of `Retention`, `Curation`, `Marker`, `Watchdog` and `Claims` |
| `PartsProofs` | types of `Forget` and what `forget --status` says; the parts' theorems for `MCParts` |

The first three components meet at two points. `Worker` and `Recovery`: `Recovery`'s `pc` is the process
that holds the worker lock, which `OneAtATime` says is one, and its `FairSpec` assumes what
`WakeUpIsNeverLost` shows, that a hook brings a worker. `Recovery` and
`Dispatch`: `Recovery`'s `Locked` is `Dispatch`'s `swap # "none"`; `Dispatch`'s `Swap` says only what
the rebuilt raw.db may lack, which `Recovery` works out. `... variation` definitions in a module are
plausible mistakes in the code; no specification uses them.

## Worker: the life cycle

One process is one hook call, one worker slot or one command. The variables are the files: `lock`
(who holds `state/worker.lock`), `shared` (status readers), `gen` (`worker-gen`), `outcome`
(`worker-outcome`), `asks` (the fresh files in `worker-yield`), `restore` (`restore-wanted`),
`resident` (what config.toml says), and two counts, `top` of raw.db and `read` of the consumers.
`run[p]` is what a run of the loop remembers (`Holding` and the locals of `serve`), `pc[p]` where it
is. An action is what the code does between two points at which another process can act:

| action | code |
|---|---|
| `HookAppend`, `HookFindsDamage`, `HookProbe`, `HookRelease`, `HookSpawn` | the end of `run_io`, `start_worker` |
| `Start`, `NoteTaking`, `Reopen`, `TakeRestoreRequest`, `StoresOpen`, `OpenFails` | `run_as`, `take`, the opening of `serve` |
| `Round`, `StepAside`, `Exec`, `Look`, `Drain`, `Phases` | one round of `serve` |
| `CallReturns`, `Wake`, `TimeOut` | the embedding thread; the wait of `serve` |
| `Leave`, `LastCheck`, `Relock`, `Close`, `Record` | the way out of `serve` and `run_holding_report` |
| `CommandTry` ... `CommandDrops` | `lock_asking_for` and what its callers do with the lock |
| `ReaderShares`, `ReaderLetsGo` | `lock_held` |
| `Fails`, `Crash`, `OwnerEditsConfig` | errors, kills, the owner's editor |

`read` is the least any consumer has read; `Drain` raises it in steps up to what raw.db holds. Rare
events are counted down in `chance.left` from a member of the constant `Budgets`, which bounds a run;
`chance.of` is where it began (`PaidCallIsSettled` asks it whether anything crashed or failed), and
`chance.harmed` says that a process crashed or failed since a hook last found the lock free.
`PromptGiveUp` says that no command's 30 seconds end while the worker is closing its stores for it.

`WakeUp` is the promise: an appended record and a restore request are processed without anybody
asking again (docs/spec.md 1.1, docs/milestone-2-plan.md D6). A crash or a failure ends it (`Harm`),
and the next hook that finds the lock free renews it for all that waits (`AskAgain`). `Worker` implements it (`Promise ==
INSTANCE WakeUp`, checked as the property `WakeUpIsNeverLost`).

| run | shows | bounds |
|---|---|---|
| worker_safety | `OneAtATime`, `KilledIsReported`, `WaitIsNoFailure`, `PaidCallIsSettled` | 2 hooks, 2 workers, a command, a status reader; one kill, call, exec and edit; commands may give up at any moment |
| worker_wake_up | `NoLostWakeUp`, `WakeUpIsNeverLost` (refinement, with fairness) | 2 hooks, 2 workers, a command; a put-off batch, or an exec, or a crash, or damage and a failure |
| worker_purge_holds | `WakeUpIsNeverLost` fails beside a command that only drops the lock | 2 hooks, 2 workers, a purge |

Two hooks are enough for a record at each side of a look; two workers for a run that records its
outcome late beside a later one; one command for every hand-over. Deadlock is not checked in these
runs: hooks and commands are one-shot and a worker that is not resident ends.

Fairness: a process that can take its next step takes it (the operating system schedules it); a
call returns (it has a timeout); a wait that has something to find, or whose time is over, ends (it
polls); a status reader lets go. Nothing is assumed about when hooks, commands, edits or failures
come.

What the code does against docs/spec.md 1.1, "A wake-up is never lost": `worker_purge_holds` shows a
record that waits for another hook because forget's purge (retention and `worker stop` do the same)
held the lock when its hook looked, and dropped it without a drain. Two more ways are left out of
worker_wake_up and have no run: a status reader's shared lock (`Readers`), which a hook takes for a
running worker, and a command that gives up between the worker's second look and its release
(`PromptGiveUp = FALSE`). After all three the record waits for the next hook.

## Dispatch: what may leave the machine

Recorded text is a set of `Pieces`. `rows` holds the tombstones: a forget's denial or a rescan's
mask of a piece; the code's fence (`FENCE_COUNT`, the number of tombstones) is their number.
`excluded` is the exclusion list, `rules` the version of the redaction rules in config.toml,
`derived` what ops and knowledge.db hold of the text, `applied` the tombstones the consumers have
reached. `shared` and `exclusive` are `dispatch.lock`, `open` is `raw.lock` shared, `swap` a restore.
A process's `run` is what it read and the text it composed.

| action | code |
|---|---|
| `Start`, `ReadList`, `CheckLag`, `Compose`, `Ask` | `run_phase`, `Reading::now`, `lagging`, the window; `turns::phase`, `my_work_run`, the embedding batch |
| `Reopen`, `Admit`, `NotAdmitted`, `Check` | the egress gate: `embed_phase::still`, `Raw::dispatch`, `Reading::still` |
| `BodySent`, `Fail`, `Retry`, `GiveUp`, `Answered`, `Settle` | `Observed::transmit_output`, `CliInput`, `call_chain`, `append_ops_fenced` |
| `CatchUp` | the consumers that drop what a tombstone took |
| `OpenReader`, `Hold`, `NoHold`, `Read`, `Answer`, `Release` | `dispatch::reading` in hooks, searches and the viewer |
| `Preview`, `Register`; `Scan`, `CheckRules`, `Mask`, `Masked`; `WantExclusion`, `Excluding`; `WantSave`, `Save` | `forget_preview` and `forget_start`; the rescan; `exclude`; the settings page |
| `TakeHold`, `Busy` | `dispatch::exclusive` and its end of patience |
| `Rebuild`, `BeginSwap`, `Swap`, `StopRestore` | `lock_for_swap` and the end of `restore_locked` |
| `HandEdit`, `Crash` | an editor on config.toml; a kill |

`LagFirst` are the senders that look for a lag before they read the fence (`my_work_run.rs`; the
others read the fence first). A tombstone between the two looks is in the fence My Work reads, so its
gate lets the body go while knowledge.db lags; its readers look at raw.db's tombstones too
(`my_work_ops::hidden`), which is why `NothingTakenLeaves` holds for them as well. `SendsCaughtUp` is
about the other senders, and not about a detached one, whose gate may come after a restore that left
knowledge.db to be built again.
`Detached` senders (the embedding thread) close raw.db while they wait and open it again for the gate.
`LosesMasks` says that a restore's segments may lack the newest masks: a forget is in the request logs,
a mask is only in raw.db and its segments. `ByHand` are the rule versions an editor writes, without a
lock: `SentUnderTheRules` and `MasksUnderTheRules` are about the versions a save writes.

| run | shows | bounds |
|---|---|---|
| dispatch_safety | `NothingTakenLeaves`, `SentUnderTheRules`, `MasksUnderTheRules`, `DroppedStaysDropped`, `SendsCaughtUp` | a phase's sender, My Work's, 2 writers of any kind, one piece, a version saved and one by hand, a lossy restore |
| dispatch_fence | `AnswersWithoutTaken`, `KeepsTheFence` (refinement), `HoldsEnd`, `RestoreComes` | a sender, a detached one, a reader, a writer, one piece |
| dispatch_reopened | `NothingTakenLeaves` fails for a detached sender after a lossy restore | a detached sender, a writer, two pieces |

One piece is enough where only one text and one tombstone matter; the counts the fence compares go
wrong only with two, as dispatch_reopened shows. Two writers let one take the hold between another's
look and its write. The set of states is finite without a bound: rule versions may come back.

Fairness (dispatch_fence): every process goes on with what it began, and a restore's wait, polled
every millisecond between holders that come and go, gets the hold when it is free again and again.

`dispatch_reopened`: a batch is composed, a restore brings a raw.db that lacks a mask, a forget adds
one denial, both counts are what they were, and the batch leaves with the text the forget denies. The
theorems and dispatch_fence therefore assume `LosesMasks => Detached = {}`.

## Recovery: backups and restore

Rows of `raw`, `whole` (`raw.db.restored`) and of the segments are known by the number of their
commit; `rows` maps a seq to its row, so a seq that is reused is the same seq with another row. A
window's op has the highest seq it read and the records it was shown; a tombstone or forget op has
what it forgets. `know` is knowledge.db: a checkpoint for each kind and the pairs (seq, row) its
output was made of. `log` are the forget requests in the logs. `pc` and `run` are the process that
holds the worker lock; hooks, readers and `forget` act beside it and meet it at `raw.lock` (`Locked`).

| action | code |
|---|---|
| `HookAppend`, `ReaderOpens`, `OpenStore` | `open_within_report`, `finish_stopped_restore`, `open_raw` |
| `Register`, `LogRequest`, `ReconcileLogs`, `ReconcileAgain` | `forget_start`, `forget::reconcile` |
| `ReadLogs`, `TakeSwap`, `Clear`, `Build`, `Stage`, `MoveKnowledgeAside`, `MoveSegmentsAside`, `Quarantine`, `Swap` | `restore_report_holding`, `restore_locked`, one action between two of its renames |
| `OpenKnowledge`, `Rewind`, `CheckBackup` | the opening of `serve`: `open_knowledge`, `checkpoint::rewind`, `backup::check` |
| `Consume`, `Curate` | `pass_report`; a window's ops |
| `StartExport`, `WriteChecksum`, `WriteSegment`, `NextKind`, `GoOn` | `export_from_report`, `cursor_report`, `seal_report` |
| `FindsDamage`, `Leave`, `TakeLock`, `HandRestore` | `damaged`, `serve_until_done`; the worker lock; `oboete restore` |
| `Damage`, `Rot`, `Removed`, `Lose`, `Kill`, `Fail` | a store or segment that no longer reads, a segment removed, a power loss, a kill, an error |

`GoodRecords`, `GoodOps`, `Untrusted`, `Cut` and `Rebuilt` are `select`, `cursor_report`,
`Rebuild::cut` and `Rebuild::finish` as operators on sets of segments and functions of rows.

| run | shows | bounds |
|---|---|---|
| recovery_safety | `TypeOK`, `SegmentsAgree`, `NothingUnbacked`, `ForgetsHold`, `CuratedIsShown` | 3 commits of hooks and windows; one damage, one bad segment, one `oboete restore`, and one forget of a record or one kill (`EitherSpec`): with both TLC does not end in five minutes |
| recovery_heals | `OneStore`, `OutputIsImage`, `HealsItself` (with fairness) | 2 commits; one each of kill, error, damage, bad segment, power loss, `oboete restore` |
| recovery_ghosts | `OutputIsImage` fails when a hook appends between a power loss and the next check | 2 commits, one loss |
| recovery_reused | `SegmentsAgree` fails when a restore appends a forget op again at a cut op's seq | 3 commits; damage, bad segment, forget of a claim |

Three commits are a record that is lost, a window that read it and a record that takes its seq, or a
record, its window and the forget beside them; a restore's own commits come on top (`MaxCommit` bounds
hooks and windows only). Two are enough for the checkpoint and the renames.

Fairness (recovery_heals): a worker's steps are taken, and `TakeLock` as hooks keep coming, which ask
for a restore and start a worker. A power loss, a kill and an error come as often as `Budget` says.

`AppendsFirst = FALSE` in recovery_heals is an assumption: nobody appends between a power loss and the
next worker's check. recovery_ghosts lifts it, and shows that docs/milestone-2-plan.md's promise that
"no later event is skipped or collides with a ghost row" then fails: a hook appends before it starts
the worker, so the lost seq may be taken again before `rewind` and `check` look. The code's comments
admit it (`backup.rs`, `cursor_report`: "#83"). recovery_reused needs no power loss: the op segment
that holds the cut op verified, keeps its name, and claims the seq that the forget op now has.

Abstractions: a rename is durable in the order it is made, and what a restore renamed in is durable
(`synced`), so a power loss takes only later commits; a file with its `-wal` is one; setting several
segments aside is one step (one that stops half way is done again, since raw.db is still damaged or the
check runs again); a segment does not go bad while it is read under the lock or written; a failing check
is a failing raw.db; the home is on one device and every forget names one record or one claim. Left
out: migration ops, retention's owed batches, several devices and copies of a home, formats and newer
versions, the consent and its previews, a raw.db removed by hand, knowledge.db's own lost tail, the
waits' ends at `raw.lock`, and the limit of two reopenings after damage. What a list of requests adds
(`Applied`) is numbered in one order; no property depends on which.

## The parts on their own: Forget, Retention, Curation, Marker, Watchdog, Claims

These six share no variable with one another. One run checks them all: a behaviour of `MCParts` is a
behaviour of one of them (`part` says of which) while the others' variables rest, so each is checked
against its own budgets and none multiplies another's states.

`Forget` is `forget --continue` (`purge_locked_report`) for jobs that forget a claim (`Uids`) or a
record with all that was made from it (`Records`). `held` says which of eight places hold a text:
raw.db, its `-wal`, knowledge.db, the copies set aside, the backup's op and record segments, the copies
of raw.db and the sessions' shown values. `job` is the step in raw.db's `forget_jobs`, `logged` the
request logs, `owes` `record_backups_owed`; `at` and `me` are the purge, which a kill (`Stops`) ends
anywhere.

| action | code |
|---|---|
| `Continue`, `LockForStep2`, `PurgeUid`, `OweBackups`, `PurgeRecords`, `Truncate`, `RecordStep2` | step 2: raw.db and its `-wal`, under the worker lock |
| `Rebuild`, `RebuildEnds`, `Sweep`, `LockForStep3`, `RemoveAside`, `RecordStep3` | step 3: knowledge.db anew, the copies set aside, under the lock again |
| `LookAtBackups`, `PurgeOps`, `PurgeRecordSegments`, `PurgeCopies`, `RecordStep4`, `SweepAgain`, `BackupsPaid`, `RecordStep5` | steps 4 and 5 under the same hold |
| `Register`, `WorkerRound`, `Export`, `HookShows`, `SetAside`, `Restore`, `PutBack` | what goes on beside it |

`Retention` is the weekly pass: `windows` are the curator's, `Units` joins those a recuration
overlaps, `Fit`, `Earlier` and `Eligible` are the rules of docs/retention.md. A batch is in raw.db's table (`table`)
and in a file (`file`), so that a restore applies it to a raw.db made anew.

| action | code |
|---|---|
| `Plan`, `Seal`, `Begin` | `plan`, `export_timed`, `begin_expiry` |
| `WriteFile`, `ExpireSegments`, `ExpireCopies`, `ExpireRows`, `Truncate`, `Rebuild`, `RebuildEnds`, `RemoveAside`, `ClearTable`, `RemoveFile`; `Resume` | the batch owed, and its continuation |
| `Capture`, `Ages`, `WeekPasses`, `Curate`, `Keeps`, `Index`, `Export`, `Restore` | hooks, time, the curator, rules 3, 4, 5 and 8 (`kept`), the worker, `oboete restore` |

`Curation` is `run_phase` with the chain and the ledger. Two callers, the worker and the settings
page's connection test, ask the entries; money is counted in calls of the highest price, `calls` and
`usd` are what the ledger's rows add up to, `billed` what the providers really bill. `asked` is the
request the next window would make now, which rules (`Changes`) and records (`Grows`) alter under a held
window; `tried` and `billed` are history the code does not keep.

| action | code |
|---|---|
| `Try`, `Gate`, `Answered`, `Again`, `Killed` | `budget::reserve`, the gate, `settle`, the one request more, a kill with a call out |
| `Cut`, `Failed`, `Cover`, `ClearPending` | `run_phase`, `hold` and the count of tries, `cover` |
| `Probe`, `Resume`, `Changes`, `Grows`, `Forgets`, `RestEnds`, `WaitEnds`, `DayPasses`, `MonthTurns` | the page, the owner, hooks, forgets, the clock |

`Marker` is `mark` and `clear` of the recording-failed marker for hooks that overlap, each ending its
write at a time of the clock and updating the marker up to `Overlap` later, or never. `Watchdog` is the
progress marks, the calls' allowance and the look, with `truth` a history of what the loop really did.

`Claims` is what knowledge.db holds of the claims. `ops` is the op log, a window's batch of claims or one
of the owner's corrections each; `tombs` are the tombstones of whole records and of parts of one; `read`
and `reached` are the checkpoints of the consumers `claims` and `anchors`, `derived` the derivations with
their edges. `reader` is `Pending`: what neither consumer had reached when a reader began. From then on the
reader sees knowledge.db in any later state, as the worker goes on beside it.

| action | code |
|---|---|
| `StepClaims`, `StepAnchors` | `Claims::step` (`derive`, `correction`, the edges), `Anchors::step` |
| `Ask` | `Pending::read` |
| `Curates`, `correct`, `append_tombstone` | `cover`, `oboete correct` and the page, the rescan and a forget |

| run | shows | bounds |
|---|---|---|
| parts | `Typed` | every part's type invariant |
| | `StatusIsTrue`, `ForgottenIsGone` (liveness) | a claim and a record; kill with restore, an older raw.db put back or a copy set aside with a reader that keeps the `-wal` |
| | `ExpiredIsGone`, `ClaimsStay`, `OldestFirst`, `BatchIsWhole`, `BatchEnds` (liveness) | two records of one session (one exempt or none) or of two, three of two sessions with no mishap; kill, busy reader, restore, a record kept, a window curated again, in pairs (a restore with one session) |
| | `PaidWithinCap`, `HoldIsTheOwners`, `SkippedAfterThree`, `WindowEnds` (liveness) | a free and a paid entry, a cap of one call, a daily budget of two, two windows; kill, probe, rest, change, growth, forget, end of a day or month, in pairs and a triple |
| | `MarkerIsLatest` | three hooks, five times, an overlap of one |
| | `ShownStands`, `CurrentAsRebuilt` | two windows of one or two claims, which supersede one another, stand on other records or share a uid; up to two corrections and two tombstones of three |
| | `AlarmIsTrue`, `StuckIsFound` | two calls, five marks, a stillness of one look and timeouts of two and four |
| forget_leftover | `StatusIsTrue` fails for two records beside a reader of the `-wal` and a restore | a claim and two records; a kill, a restore, a busy reader |

Two records make a session with a first and a later one, the third record a session around another; a
cap of one call is the smallest at which two callers can pass it together; three tries fail within a
budget of two calls a day only across an end of day, which is one of the budgets. Three hooks can end in
all orders of a failure between two successes and a success between two failures.

Two windows are a claim and a later one that supersedes it, or the same claim made twice; two tombstones take
both records a status stands on, or a quote and one of them.

Fairness (`Works`): a purge or a pass that is due is run and goes on, and so is the curation phase, as
the worker and `forget --continue` run whenever hooks come; the time of a held window's next try comes
(`WaitEnds`). Nothing is assumed about answers, rests, the owner or the clock's days and months.

`forget_leftover`: one record's job is at step 2 and another takes step 2; while the purge waits for the
lock, a restore brings the first one's text back. Step 2 takes every forgotten record out of raw.db, a
reader keeps the `-wal` from truncating, and no step is recorded; but the purge takes the first job to
the rebuild all the same, as it read it at step 2, and records step 3 while the `-wal` holds its text.
docs/milestone-5-plan.md:290 says that a step does not advance when the `-wal` cannot be truncated. The
next purge with a free `-wal` makes up for it. `parts` and the theorem `StatusHolds` leave the case
out: `parts` has one record, the theorem no reader in the way or one record.

`CurrentAsRebuilt` compares knowledge.db with a rebuild in every state in which both consumers have caught
up, and a rebuild does not always yield what is there. `Claims::step` resolves a sibling's id once, to its
uid; when `Anchors` later drops that sibling, the edge stays (`Outliving`), and another derivation of the same
uid (of another window, or of a recuration of this one) is superseded. A rebuild does not derive the sibling,
its id names nothing, and that other derivation is current: `oboete rebuild`, or the rebuild of the purge that
follows a mask, brings back a claim that was superseded, against docs/spec.md 1.7's "yields identical claims".
The property says that this is all: the current claims are those of the rebuild less the `Outlived`, with the
same derivations and statuses. With `Pair` of `MCParts` TLC reaches states where the two differ.

What the modelling showed, beyond what the properties state. With daily budgets of two entries out of
phase, each pass may have one entry failing while the other waits for its budget; then no try counts and
the window may wait for ever, as `hold` documents; `WindowEnds` therefore ends in "or an entry makes it
wait". After the clock went back, `clear` keeps a later time that a success stored and `mark` the later
of its two, so the comment at `OVERLAP_NS` ("the new state wins") does not hold between states of one
kind; the model has no clock that goes back.

Left out. Forget: masks (their purge is the same steps), My Work's checks, deliverables, a denial
whose job is not there (its purge killed after step 2 leaves the rebuild to the next one), a raw.db that
does not read while the log lacks a request. The purge reads the logs and what is due in one step.
Retention: masks (rule 7), the setting switched off, a seq taken by another record after a power loss
(the batch's times tell them apart). Curation: the providers' rate headers and token limits, credits,
ceilings of what is too big for an entry, the recuration queue. Claims: several devices, ops of one millisecond
and a clock that goes back (the order of `ops` and `tombs` is their time), bodies and mutes, which are
corrections like a status, the recuration queue, expired records (their quotes stay), the rewind after a
power loss (`Recovery`), ops of an older format read again (`retry`), and the purge that follows a tombstone
(`Forget`), which rewrites ops and rebuilds. `Pending` is read in one step.

## Proofs

| theorem | says |
|---|---|
| `WorkerProofs!TypeCorrect`, `OneHolder` | `Spec => []TypeOK`, `Spec => []OneAtATime` |
| `WorkerProofs!KillsAreReported`, `WaitsAreNoFailures`, `PaidCallsAreSettled` | `Spec => []KilledIsReported`, and the same of `WaitIsNoFailure` and `PaidCallIsSettled` |
| `WorkerProofs!WakeUpsAreKept` | `Spec => []NoLostWakeUp`, with `Dropping = {}`, `Readers = {}` and `PromptGiveUp` |
| `WorkerProofs!ImplementsWakeUp` | `Spec => Promise!Init /\ [][Promise!Next]_Promise!vars`: the safety of `WakeUpIsNeverLost` |
| `DispatchProofs!TypeCorrect`, `BodiesUnderTheRules`, `RescansUnderTheRules` | `Spec => []TypeOK`, `Spec => []SentUnderTheRules`, `Spec => []MasksUnderTheRules` |
| `DispatchProofs!NothingLeaves`, `NothingComesBack`, `PhasesCaughtUp` | `Spec => []NothingTakenLeaves`, and the same of `DroppedStaysDropped` and `SendsCaughtUp` |
| `DispatchProofs!ImplementsFence`, `AnswersAreClean` | `Spec => KeepsTheFence`, `Spec => []AnswersWithoutTaken` |
| `RecoveryProofs!TypeCorrect`, `StoreMadeOnce`, `ForgetsAreHeld` | `Spec => []TypeOK`, `Spec => []OneStore`, `Spec => []ForgetsHold` |
| `RecoveryProofs!OutputsAreImages` | `Spec => []OutputIsImage`, with `Watched` |
| `RecoveryProofs!SegmentsHold`, `EverythingBacked`, `WindowsWereShown` | `Spec => []SegmentsAgree`, `Spec => []NothingUnbacked`, `Spec => []CuratedIsShown`, with `Settled` |
| `PartsProofs!TypeCorrect`, `StatusHolds` | of `Forget`: `Spec => []TypeOK`, `Steady => (Spec => []StatusIsTrue)` |
| `RetentionProofs!TypeCorrect`, `RetentionHolds`, `BatchesAreWhole` | `Bounded => (Spec => []TypeOK)`, and the same of `[](ExpiredIsGone /\ ClaimsStay /\ OldestFirst)` and of `BatchIsWhole` |
| `ClaimsProofs!TypeCorrect`, `ReadersAreRight`, `RebuildsAgree` | `Bounded => (Spec => []TypeOK)`, and the same of `[]ShownStands` and `[]CurrentAsRebuilt` |
| `CurationProofs!CapHolds`, `HoldsStay`, `SkipsHold` | `Bounded => (Spec => []PaidWithinCap)`, and the same of `HoldIsTheOwners` and `SkippedAfterThree` |
| `CurationProofs!TypeCorrect` | `Bounded /\ Counted => (Spec => []TypeOK)` |
| `HealthProofs!MarkerHolds`, `WatchHolds` | `ClockBounded => (M!Spec => [](M!TypeOK /\ M!MarkerIsLatest))`, `Bounded => (Spec => [](TypeOK /\ AlarmIsTrue /\ StuckIsFound))` |
| `PartsProofs!PartsTyped`, `PartsRetention`, `PartsBatches`, `PartsCap`, `PartsHolds`, `PartsSkips`, `PartsMarker`, `PartsWatch`, `PartsClaims`, `PartsStatus` | the same of `AnySpec`, the parts side by side that the run `parts` checks |

They hold for any number of processes, pieces, commits and rare events, from the modules' `ASSUME`s
(the sets of processes are disjoint, `Pieces` is finite, ...) and what the table names.

*Worker.* `OneAtATime` says who is inside exactly when it holds the lock; it is inductive together
with `TypeOK`. Each action takes the lock when it is free, lets it go, or moves with or without it
(`TakesLock`, `LetsLockGo`, `MovesWithLock`). The outcome note tells a kill from a wait because the number in
`worker-gen` is at least each run's, only the holder's equals it and the note never has a later one
(`NumbersOK`), and because each place of the loop has its note (`NoteOK`); a run that records late cannot
pass for another. A call that is out has its worker at one of the places of the loop that keep the lock
(`CallPlaces`), unless something crashed or failed. `NoLostWakeUp` is inductive with what the files say while
nothing crashed or failed: a request in `worker-yield` is of a command that still asks, and a worker closes for
one that does (`AsksOK`). The theorem's hypotheses leave out what `worker_purge_holds` shows (a command that
drops the lock), status readers, whose shared hold makes a hook's probe fail, and commands whose 30 seconds end
while a worker closes for them.
The refinement maps each step to one of `WakeUp` or a stutter; the fairness part stays with TLC.

*Dispatch.* `NothingTakenLeaves` alone is not inductive: the gate compares counts. `Inv` adds what each
sender knows (`SenderOK`): its text is clear of what it read as taken or excluded, and what it read is
still a part of `rows`, as rows are only added while raw.db is open or, with `LosesMasks` FALSE,
always. Then equal counts mean equal sets (`SameRows`), so at the gate the text is clear of everything
taken, and the hold keeps it so until the last byte (`SendingOK`). The senders of the `LagFirst` kind
need no lag check for this, the others need that what they read of knowledge.db had been caught up with
what they knew, and `DroppedStaysDropped`. With equal sets at the gate that same knowledge makes
`SendsCaughtUp` inductive: rows and `applied` change while a phase has raw.db open only to grow, and
rows not at all while its body leaves. The refinement adds the same for readers and maps each step
to a step of `Fence` or to a stutter. These hold where `LosesMasks => Detached = {}`; the types and the two
about saves of the rules hold without it: a body leaves and a rescan masks only where the rules were compared
under the hold, which a save of the page waits for (`RulesStand`).

*Recovery.* Once a store was made there is one under one of the two names; a restore that clears
`.restored` has raw.db in place, and one that moves raw.db aside has `.restored` (`StoresOK`). `ForgetsHold`
follows from `AskedOK`: what a log asks is in raw.db's jobs from the reconciliation on, and a job's request is
denied. Both are inductive with the types (`BaseOK`), for every value of the constants. `OutputIsImage`
is not: between a power loss and the next check knowledge.db is ahead of raw.db, a restore sets it aside
while raw.db is still the old one, and a loss takes rows by their commits and not by their seqs. `LossOK` says
that commits only grow with seqs above what is synced (`Ordered`), so that a loss cuts each kind at a seq, and
`KnowOK` that what knowledge.db has up to raw.db's end is what was made of its rows (`Tells`), with
nothing beyond once a check has looked. `Watched` leaves out what `recovery_ghosts` shows: rows added between a
loss and the check.

The segments' three theorems rest on one another. `AgreeOK` says that every segment's rows are raw.db's where
it claims them all (`Holds`), at every place of a restore and of whichever of raw.db and `.restored` comes
after it; that records never end below a segment, and ops not once a run works; and that ops leave
no gap, so that the ops a restore takes, up to the first damage or hole, are all there were up to there.
`ExportOK` says of an export under way that what lies before it is in segments (`Sealed`) and that the
checksum it wrote is of the rows it seals. `CuratedIsShown` is not about restores in what it says, but the op of a
window and the records it was shown come back from different segments: `ShownOK` says that a window's op
has a record at or past its last seq which is older or safe, and that every record up to it was shown,
of both stores (`Reads`) and of the segments together (`SealedReadAll`).
`Settled` adds to `Watched` that no claim is forgotten, which leaves out `recovery_reused`: the op of a forget
takes the number of an op the restore cut, while its segment still claims it. There TLC finds `NothingUnbacked`
violated too, and `CuratedIsShown` in both cases, by behaviours of some sixty steps that no run reaches: a later
restore brings the window's op back from its segment beside a record that came after it and was
never shown; and, where rows are added between a loss and the check, the record that was lost beside the
op of a window shown its successor.

*Forget.* What each step promises of a job past it (`StepsOK`) is not inductive alone: the purge records
a step for what it took in hand earlier. The invariant adds where the worker lock is held (`LockOK`),
that all in hand and every job past step 1 is in the logs, which no restore takes away and no rebuild
carries a text of (`LoggedOK`), and what is in hand and swept so far at each place of the purge
(`Step2OK`, `Step3OK`, `Step4OK`). `Steady` is what the finding needs to be ruled out: no reader in the
way of `truncate_wal`, or one record to forget.

*Retention.* `ExpiredIsGone` is inductive with what is still owed: an expired record is in no store, or in
`state/expiry-owed`, which a restore reads, or in raw.db's table while the segments still have its text (`GoneOK`);
and with how far the batch has come (`StagesOK`). `OldestFirst` needs the same of every raw.db a restore could
make of the segments with either list (`OrderOK`), and that the windows leave no gap and the segments have the
windows of all that expired (`CoverOK`): then a plan that takes whole windows takes the first records of each
session (`PlanOK`), and hooks, the curator and a recuration only add behind it. Where a set of records has a
least is an instance of the library's theorem on well-founded orders.

*Claims.* The invariant says of each derivation that it is as its claim says, as far as the consumers have
reached, or has fallen for good (`Row`), that every claim whose quotes all read is derived (`DerivedOK`), and that
what a reader found pending is at least what the consumers had not reached then and have not since
(`ReaderOK`). An edge to a sibling that was dropped may still be there, by the order the consumers came in;
`TrimIs` shows that a rebuild's row is the derivation there is without such edges, and no other difference. No
claim is derived twice, so the active derivations are the same (`ActiveRebuilt`), and a claim is current in
the rebuild alone just when such an edge supersedes it.
`Bounded` says that windows are sequences and
their tiers between two integers.

*Curation.* A bill within the cap is not inductive: a call that is out will be billed when nobody can stop
it any more. `MoneyOK` adds what each call out may still cost (`Held`), which is reserved in full, and that
what is billed and held is settled or reserved, which together fit the cap. `TriesOK` adds that the
tries a pass has in hand are those of the request it asks, however often the window was held and
changed in between. Its types say that no day's calls pass the day's budget, for which `DayOK` has each
call out among the reserved ones of its entry until its day or month is over, and that no window past the last is
tried or skipped (`WindowOK`).

*Marker, Watchdog.* The marker's time is that of the latest write applied to it, and no hook lags by
more than `Overlap` (`MarkerOK`, `InTime`): so a mark that is set later still is in the order of the ends.
The watch's count is the number of looks that saw the loop quiet, and its allowance is at least that
of every call out (`WatchOK`, `AllowanceOK`).

*The parts side by side.* `MCParts` instantiates the proof modules themselves, so that what they prove is
a fact about its instances: `PartsProofs` shows that the instances' constants are `Bounded`, that one
part at a time moves and the others' variables rest, and takes over each part's inductive invariant. `Bounded`
says in each part what its constants are (naturals; sequences; timeouts that are not 0). It is a hypothesis and
no `ASSUME`, as TLC does not evaluate the assumptions of an instance.

The type invariants of `Worker` and `Dispatch` are proved and not among the runs' properties.

Only model-checked: everything with fairness (`WakeUpIsNeverLost`'s fairness, `ForgottenIsGone`, `BatchEnds`,
`WindowEnds`, `HoldsEnd`, `RestoreComes`, `HealsItself`; liveness and ENABLED are out of the prover's reach);
the safety properties of the passing runs are all theorems, some under the hypotheses named above.

## Not modelled

Of the parts above: the worker's checks that its home was moved or replaced (`gone`), a removed
executable, autostart switched off, the limit on reopenings, the resident viewer it starts and its
maintenance in idle time; the vectors' write (`send_local`) and the generations of embeddings; a
purge in batches of rows; confirmation tokens; HTTP and HTML; the text of redaction, search and packets, which
are functions of what they read; setup and doctor, which edit and read files of one process; the key file, one
file replaced whole, whose `write` says which race it accepts; work state, turns and cards folded from ops.

## Plan

In this order, each with its runs and, where the state is small, its invariant as a theorem:

1. Recuration beside the live queue; refines "each record is read by one window, in order".
2. Rows written back after a failure (`unwritten.rs`).
3. My Work's jobs, the settings page's tokens, migrate and import.
4. Proofs: recuration's invariant, and that its reads are in order.
