------------------------------ MODULE Recovery ------------------------------
(***************************************************************************)
(* What keeps raw.db when its file is damaged, cut short or moved aside:   *)
(* the sealed segments of src/backup.rs, the restore that rebuilds raw.db  *)
(* from them, the two names it moves the rebuilt file through, and what a  *)
(* worker does at its start before anything reads the stores (`serve`).    *)
(*                                                                         *)
(* raw.db numbers its records and its ops by themselves; a row is known by *)
(* the number of its commit (`id`).  A window op also holds the highest    *)
(* seq it read (`to`) and the records it was shown; a record's tombstone   *)
(* and a claim's forget op hold what they forget (`of`).                   *)
(* One process at a time holds the worker lock (module Worker): `pc` is    *)
(* where it is. Hooks, readers and forget meet it at raw.lock only.        *)
(***************************************************************************)
EXTENDS Integers, FiniteSets, FiniteSetsExt, Functions

CONSTANTS
  MaxCommit,     \* bound: the last commit of a hook or a window
  Budget,        \* bound: how often each rare event happens
  Forgettable,   \* what a forget may name: a record, a claim (by the op that made it)
  AppendsFirst   \* whether a row may be added between a power loss and the next check

Kinds == {"records", "ops"}
Chances == {"kill", "fail", "damage", "rot", "lose", "forget", "hand"}

ASSUME RecoveryAssumption ==
  /\ MaxCommit \in Nat
  /\ Budget \in [Chances -> Nat]
  /\ Forgettable \subseteq Kinds
  /\ AppendsFirst \in BOOLEAN

VARIABLES
  raw,         \* raw.db: whether it is there and whole, its rows by seq, its forget jobs
  whole,       \* raw.db.restored
  staging,     \* whether raw.db.restoring is there
  made,        \* how many stores an open made from nothing
  segs,        \* the segments under their own names
  sums,        \* the names that have a checksum
  know,        \* knowledge.db: each kind's checkpoint, and what was made of which row
  log,         \* the forget requests the logs hold
  forgetting,  \* whether a forget registered in raw.db and has yet to log it
  clock,       \* commits made
  unseen,      \* whether raw.db lost commits and no check has looked since
  pc, run,     \* the process that holds the worker lock: where it is, what it remembers
  chance       \* what is left of Budget

store == <<raw, whole, staging, made>>
backup == <<segs, sums>>
vars == <<store, backup, know, log, forgetting, clock, unseen, pc, run, chance>>

-----------------------------------------------------------------------------
(* Stores: their rows by seq, the commit that registered each job, and the *)
(* commit up to which no power loss takes anything away.                   *)

NoRows == [k \in Kinds |-> <<>>]
NoStore == [st |-> "none", rows |-> NoRows, jobs |-> <<>>, synced |-> 0]
Fresh == [NoStore EXCEPT !.st = "ok"]
NoKnowledge == [st |-> "none", cp |-> [k \in Kinds |-> 0], out |-> [k \in Kinds |-> {}]]
NoRun == [hand |-> FALSE, kind |-> "records", logged |-> {}, held |-> {}, first |-> 0, last |-> 0]

Row(id) == [id |-> id, of |-> 0, to |-> 0, saw |-> {}]
Top(rows) == Max(DOMAIN rows \cup {0})
Append(db, kind, row) ==
  [db EXCEPT !.rows[kind] = [q \in DOMAIN @ \cup {Top(@) + 1} |-> IF q > Top(@) THEN row ELSE @[q]]]
Ids(rows) == {rows[q].id : q \in DOMAIN rows}

\* The seq curation has read up to, and the records its windows were shown.
Curated(rows) == Max({rows["ops"][o].to : o \in DOMAIN rows["ops"]} \cup {0})
Shown(rows) == UNION {rows["ops"][o].saw : o \in DOMAIN rows["ops"]}

\* What a store refuses: the requests of its jobs, and what its tombstones and forget ops name.
Named(rows, kind) == {rows[kind][q].of : q \in DOMAIN rows[kind]} \ {0}
Denied(db) == DOMAIN db.jobs \cup UNION {{k} \X Named(db.rows, k) : k \in Kinds}

\* apply_request, of each request in turn: a tombstone for a record that is there and has
\* none, one forget op for a claim; they come after what is there, in some order.
Added(rows, requests, kind) ==
  {target \in {r[2] : r \in requests} :
     /\ <<kind, target>> \in requests /\ target \notin Named(rows, kind)
     /\ kind = "records" => target \in Ids(rows["records"])}
Numbered(S) == CHOOSE f \in Bijection(1 .. Cardinality(S), S) : TRUE
Applied(rows, requests, id) ==
  [k \in Kinds |->
     LET top == Top(rows[k]) added == Added(rows, requests, k)
     IN  [q \in DOMAIN rows[k] \cup (top + 1 .. top + Cardinality(added)) |->
            IF q <= top THEN rows[k][q] ELSE [Row(id) EXCEPT !.of = Numbered(added)[q - top]]]]
ApplyAll(db, requests, id) ==
  [db EXCEPT !.rows = Applied(@, requests, id),
             !.jobs = [r \in DOMAIN @ \cup requests |-> IF r \in DOMAIN @ THEN @[r] ELSE id]]

\* Variation: the logs are only written to.
ReconcileOut ==
  /\ UNCHANGED <<raw, clock>>
  /\ log' = log \cup DOMAIN raw.jobs

\* reconcile: what the logs hold comes into raw.db, what raw.db holds goes to the logs.
Reconcile ==
  /\ raw' = ApplyAll(raw, log \ DOMAIN raw.jobs, clock + 1)
  /\ log' = log \cup DOMAIN raw.jobs
  /\ clock' = IF log \subseteq DOMAIN raw.jobs THEN clock ELSE clock + 1

-----------------------------------------------------------------------------
(* raw.lock: every open holds it shared, a restore alone from its look at  *)
(* the segments to the swap.                                               *)

Locked == pc \in {"clear", "build", "stage", "knowledge", "aside", "quarantine", "swap"}
Ready == pc \in {"ready", "export", "seal", "backed"}
Spend(c) == chance[c] > 0 /\ chance' = [chance EXCEPT ![c] = @ - 1]

\* Variation: an open that knows no stopped restore.
NeverWaiting == FALSE

\* An open: a stopped restore's file is renamed in, else a store that is not there is made.
Waiting == raw.st = "none" /\ whole.st # "none"
Missing == raw.st = "none" /\ ~Waiting
Live == IF Waiting THEN whole ELSE IF Missing THEN Fresh ELSE raw
Finish == whole' = IF Waiting THEN NoStore ELSE whole

Init ==
  /\ raw = NoStore /\ whole = NoStore /\ staging = FALSE /\ made = 0
  /\ segs = {} /\ sums = {}
  /\ know = NoKnowledge
  /\ log = {} /\ forgetting = FALSE
  /\ clock = 0 /\ unseen = FALSE
  /\ pc = "idle" /\ run = NoRun
  /\ chance = Budget

-----------------------------------------------------------------------------
(* Hooks, readers and forget, beside whoever holds the worker lock.        *)

MayAdd == clock < MaxCommit /\ (AppendsFirst \/ ~unseen)

HookAppend ==
  /\ ~Locked /\ MayAdd /\ Live.st = "ok"
  /\ raw' = Append(Live, "records", Row(clock + 1))
  /\ made' = IF Missing THEN made + 1 ELSE made
  /\ Finish
  /\ clock' = clock + 1
  /\ UNCHANGED <<staging, backup, know, log, forgetting, unseen, pc, run, chance>>

\* A reader looks whether there is a store before it opens one.
ReaderOpens ==
  /\ ~Locked /\ Waiting
  /\ raw' = whole /\ Finish
  /\ UNCHANGED <<staging, made, backup, know, log, forgetting, clock, unseen, pc, run, chance>>

\* forget_start: the request and its rows in one commit; the logs come after it.
Register ==
  /\ ~Locked /\ (AppendsFirst \/ ~unseen) /\ raw.st = "ok" /\ ~forgetting
  /\ Spend("forget")
  /\ \E k \in Forgettable : \E q \in DOMAIN raw.rows[k] :
       /\ raw.rows[k][q].of = 0 /\ <<k, raw.rows[k][q].id>> \notin Denied(raw)
       /\ raw' = ApplyAll(raw, {<<k, raw.rows[k][q].id>>}, clock + 1)
  /\ forgetting' = TRUE
  /\ clock' = clock + 1
  /\ UNCHANGED <<whole, staging, made, backup, know, log, unseen, pc, run>>

LogRequest ==
  /\ forgetting /\ forgetting' = FALSE
  /\ \/ raw.st = "ok" /\ Reconcile
     \/ raw.st = "bad" /\ UNCHANGED <<raw, log, clock>>
  /\ UNCHANGED <<whole, staging, made, backup, know, unseen, pc, run, chance>>

-----------------------------------------------------------------------------
(* The worker lock's holder opens the stores: `oboete worker` or a drain   *)
(* opens raw.db and restores it when it is damaged, `oboete restore`       *)
(* restores it whatever it is and drains after.                            *)

Goto(at) == pc' = at

TakeLock ==
  /\ pc = "idle" /\ Goto("open") /\ run' = NoRun
  /\ UNCHANGED <<store, backup, know, log, forgetting, clock, unseen, chance>>

HandRestore ==
  /\ pc = "idle" /\ Spend("hand") /\ Goto("logs") /\ run' = [NoRun EXCEPT !.hand = TRUE]
  /\ UNCHANGED <<store, backup, know, log, forgetting, clock, unseen>>

OpenStore ==
  /\ pc = "open"
  /\ raw' = Live /\ Finish
  /\ made' = IF Missing THEN made + 1 ELSE made
  /\ Goto(IF Live.st = "bad" THEN "logs" ELSE "know")
  /\ UNCHANGED <<staging, backup, know, log, forgetting, clock, unseen, run, chance>>

ReadLogs ==
  /\ pc = "logs" /\ Goto("take") /\ run' = [run EXCEPT !.logged = log]
  /\ UNCHANGED <<store, backup, know, log, forgetting, clock, unseen, chance>>
-----------------------------------------------------------------------------
(* Segments.                                                               *)

Name(s) == <<s.kind, s.first, s.last>>
Of(kind) == {s \in segs : s.kind = kind}
Undamaged(s) == Name(s) \in sums /\ ~s.rotten
Claims(s, q) == s.first <= q /\ q <= s.last
Last(found) == Max({s.last : s \in found} \cup {0})

\* select: every record segment that verifies; the op log up to its first damage or hole.
GoodRecords == {s \in Of("records") : Undamaged(s)}
GoodOps == {s \in Of("ops") :
  \A n \in 1..s.last : \E t \in Of("ops") : Claims(t, n) /\ Undamaged(t)}
Good(kind) == IF kind = "records" THEN GoodRecords ELSE GoodOps
Skipped == segs \ (GoodRecords \cup GoodOps)

\* cursor_report: what is past raw.db's end, and all from a range on that raw.db holds and none claims.
PastTheEnd(kind) == {s \in Of(kind) : s.last > Top(raw.rows[kind])}
AfterAHole(kind) ==
  LET rest == Of(kind) \ PastTheEnd(kind)
      end(s) == Last({t \in rest : t.first < s.first})
  IN  {s \in rest : \E t \in rest : /\ t.first <= s.first
                                    /\ \E q \in DOMAIN raw.rows[kind] : end(t) < q /\ q < t.first}

UntrustedPast(kind) == PastTheEnd(kind)                                \* variation
UntrustedHoles(kind) == AfterAHole(kind)                               \* variation

Untrusted(kind) == PastTheEnd(kind) \cup AfterAHole(kind)
Cursor(kind) == Last(Of(kind) \ Untrusted(kind))

SetAside(found) ==
  /\ segs' = segs \ found
  /\ sums' = sums \ {Name(s) : s \in found}

-----------------------------------------------------------------------------
(* The restore (restore_locked), under raw.lock to the swap.               *)

\* Rebuild::cut: from the first op that read past the restored records; its forget ops come again.
Cut(rows) ==
  LET ops == rows["ops"]
      from == Min({o \in DOMAIN ops : ops[o].to > Top(rows["records"])} \cup {Top(ops) + 1})
  IN  [rows EXCEPT !["ops"] = Restrict(ops, {o \in DOMAIN ops : o < from})]

Merged == [k \in Kinds |->
  [q \in UNION {DOMAIN s.rows : s \in Good(k)} |-> (CHOOSE s \in Good(k) : q \in DOMAIN s.rows).rows[q]]]

\* Variation: the forgets come before the cut.
RebuiltForgetting ==
  LET denied == ApplyAll([Fresh EXCEPT !.rows = Merged], run.held \cup run.logged, clock + 1)
  IN  [denied EXCEPT !.rows = Cut(@), !.synced = clock + 1]

Rebuilt ==
  LET again == {<<"ops", uid>> : uid \in Named(Merged, "ops")}
      carried == [Fresh EXCEPT !.rows = Applied(Cut(Merged), again, clock + 1)]
  IN  [ApplyAll(carried, run.held \cup run.logged, clock + 1) EXCEPT !.synced = clock + 1]

\* It ends with an error: `oboete restore` still drains, a worker's run ends.
Stopped(hand) == IF hand THEN Goto("open") /\ run' = NoRun ELSE Goto("idle") /\ run' = NoRun

\* A raw.db that does not read holds no request; one that does is asked before it is moved.
TakeSwap ==
  /\ pc = "take" /\ ~forgetting
  /\ \/ GoodRecords = {} /\ Stopped(run.hand) /\ UNCHANGED store
     \/ /\ GoodRecords # {} /\ Goto("clear")
        /\ \E held \in {DOMAIN Live.jobs} \cup IF Live.st = "bad" THEN {{}} ELSE {} :
             run' = [run EXCEPT !.held = held]
        /\ raw' = IF Missing THEN raw ELSE Live
        /\ Finish /\ UNCHANGED <<staging, made>>
  /\ UNCHANGED <<backup, know, log, forgetting, clock, unseen, chance>>

\* Variation: only a .restored is cleared.
ClearWhole ==
  /\ pc = "clear" /\ Goto("build")
  /\ whole' = NoStore
  /\ UNCHANGED <<raw, staging, made, backup, know, log, forgetting, clock, unseen, run, chance>>

\* A .restored beside a raw.db is moved aside, a .restoring is removed if it can be.
Clear ==
  /\ pc = "clear" /\ Goto("build")
  /\ whole' = NoStore
  /\ \/ staging' = FALSE /\ UNCHANGED chance
     \/ staging /\ Spend("fail") /\ UNCHANGED staging
  /\ UNCHANGED <<raw, made, backup, know, log, forgetting, clock, unseen, run>>

Build ==
  /\ pc = "build"
  /\ \/ ~staging /\ staging' = TRUE /\ Goto("stage") /\ UNCHANGED run
     \/ staging /\ Stopped(run.hand) /\ UNCHANGED staging
  /\ UNCHANGED <<raw, whole, made, backup, know, log, forgetting, clock, unseen, chance>>

Stage ==
  /\ pc = "stage" /\ Goto("knowledge")
  /\ whole' = Rebuilt /\ staging' = FALSE
  /\ clock' = clock + 1
  /\ UNCHANGED <<raw, made, backup, know, log, forgetting, unseen, run, chance>>

MoveKnowledgeAside ==
  /\ pc = "knowledge" /\ Goto("aside") /\ know' = NoKnowledge
  /\ UNCHANGED <<store, backup, log, forgetting, clock, unseen, run, chance>>

MoveSegmentsAside ==
  /\ pc = "aside" /\ Goto("quarantine") /\ SetAside(Skipped)
  /\ UNCHANGED <<store, know, log, forgetting, clock, unseen, run, chance>>

Quarantine ==
  /\ pc = "quarantine" /\ Goto("swap") /\ raw' = NoStore
  /\ UNCHANGED <<whole, staging, made, backup, know, log, forgetting, clock, unseen, run, chance>>

Swap ==
  /\ pc = "swap" /\ Goto("again")
  /\ raw' = whole /\ whole' = NoStore
  /\ unseen' = FALSE
  /\ UNCHANGED <<staging, made, backup, know, log, forgetting, clock, run, chance>>

\* raw.db is opened again and reconciled; what fails there is a warning.
ReconcileAgain ==
  /\ pc = "again"
  /\ Goto(IF run.hand THEN "open" ELSE "know") /\ run' = NoRun
  /\ \/ raw.st = "ok" /\ Reconcile
     \/ raw.st = "bad" /\ UNCHANGED <<raw, log, clock>>
  /\ UNCHANGED <<whole, staging, made, backup, know, forgetting, unseen, chance>>

-----------------------------------------------------------------------------
(* serve's opening: knowledge.db, the rewind, the segments, the forgets.   *)

OpenKnowledge ==
  /\ pc = "know" /\ Goto("rewind")
  /\ know' = IF know.st = "ok" THEN know ELSE [NoKnowledge EXCEPT !.st = "ok"]
  /\ UNCHANGED <<store, backup, log, forgetting, clock, unseen, run, chance>>

\* Variations: the checkpoint moves without what was made above it; one too far.
RewindAlone ==
  /\ pc = "rewind" /\ raw.st = "ok" /\ Goto("check")
  /\ know' = [know EXCEPT !.cp = [k \in Kinds |-> Min({@[k], Top(raw.rows[k])})]]
  /\ UNCHANGED <<store, backup, log, forgetting, clock, unseen, run, chance>>
RewindFurther ==
  /\ pc = "rewind" /\ raw.st = "ok" /\ Goto("check")
  /\ know' = [know EXCEPT !.cp = [k \in Kinds |-> Min({@[k], Top(raw.rows[k]) - 1})]]
  /\ UNCHANGED <<store, backup, log, forgetting, clock, unseen, run, chance>>

\* A checkpoint past raw.db's end moves back to it, with what was made above it.
Rewind ==
  /\ pc = "rewind" /\ raw.st = "ok" /\ Goto("check")
  /\ LET top == [k \in Kinds |-> Top(raw.rows[k])] IN
     know' = [know EXCEPT
       !.cp = [k \in Kinds |-> Min({@[k], top[k]})],
       !.out = [k \in Kinds |-> {o \in @[k] : know.cp[k] > top[k] => o[1] <= top[k]}]]
  /\ UNCHANGED <<store, backup, log, forgetting, clock, unseen, run, chance>>

\* What fails there is a warning.
CheckBackup ==
  /\ pc = "check" /\ Goto("reconcile")
  /\ \/ /\ raw.st = "ok"
        /\ SetAside(Untrusted("records") \cup Untrusted("ops"))
        /\ unseen' = FALSE
     \/ raw.st = "bad" /\ UNCHANGED <<backup, unseen>>
  /\ UNCHANGED <<store, know, log, forgetting, clock, run, chance>>

ReconcileLogs ==
  /\ pc = "reconcile" /\ raw.st = "ok"
  /\ Goto("ready") /\ Reconcile
  /\ UNCHANGED <<whole, staging, made, backup, know, forgetting, unseen, run, chance>>

-----------------------------------------------------------------------------
(* The run's rounds: consumers, windows, the export, the end.              *)

Working == pc = "ready" /\ raw.st = "ok" /\ know.st = "ok"

\* A consumer's batch and its checkpoint move in one transaction.
Consume ==
  /\ Working
  /\ \E k \in Kinds :
       /\ know.cp[k] < Top(raw.rows[k])
       /\ know' = [know EXCEPT
            !.cp[k] = Top(raw.rows[k]),
            !.out[k] = @ \cup {<<q, raw.rows[k][q].id>> : q \in {x \in DOMAIN raw.rows[k] : x > know.cp[k]}}]
  /\ UNCHANGED <<store, backup, log, forgetting, clock, unseen, pc, run, chance>>

\* A window's op: what it read from the curation checkpoint on.
Curate ==
  /\ Working /\ MayAdd
  /\ LET records == raw.rows["records"] IN
     \E to \in {q \in DOMAIN records : q > Curated(raw.rows)} :
       raw' = Append(raw, "ops", [Row(clock + 1) EXCEPT
                !.to = to,
                !.saw = {records[q].id : q \in {x \in DOMAIN records : x > Curated(raw.rows) /\ x <= to}}])
  /\ clock' = clock + 1
  /\ UNCHANGED <<whole, staging, made, backup, know, log, forgetting, unseen, pc, run, chance>>

Unsealed(kind) == {q \in DOMAIN raw.rows[kind] : q > Cursor(kind)}

StartExport ==
  /\ Working /\ Goto("export")
  /\ run' = [NoRun EXCEPT !.kind = "records"]
  /\ SetAside(Untrusted("records"))
  /\ UNCHANGED <<store, know, log, forgetting, clock, unseen, chance>>

\* seal_report: the checksum under its name, then the segment.
WriteChecksum ==
  /\ pc = "export" /\ raw.st = "ok"
  /\ \E last \in Unsealed(run.kind) :
       /\ run' = [run EXCEPT !.first = Min(Unsealed(run.kind)), !.last = last]
       /\ sums' = sums \cup {<<run.kind, Min(Unsealed(run.kind)), last>>}
  /\ Goto("seal")
  /\ UNCHANGED <<store, segs, know, log, forgetting, clock, unseen, chance>>

WriteSegment ==
  /\ pc = "seal" /\ Goto("export")
  /\ LET rows == raw.rows[run.kind] IN
     segs' = segs \cup {[kind |-> run.kind, first |-> run.first, last |-> run.last, rotten |-> FALSE,
                         rows |-> Restrict(rows, {q \in DOMAIN rows : run.first <= q /\ q <= run.last})]}
  /\ UNCHANGED <<store, sums, know, log, forgetting, clock, unseen, run, chance>>

NextKind ==
  /\ pc = "export" /\ raw.st = "ok"
  /\ Unsealed(run.kind) = {}
  /\ \/ run.kind = "records" /\ run' = [run EXCEPT !.kind = "ops"]
        /\ SetAside(Untrusted("ops")) /\ UNCHANGED pc
     \/ run.kind = "ops" /\ Goto("backed") /\ UNCHANGED <<backup, run>>
  /\ UNCHANGED <<store, know, log, forgetting, clock, unseen, chance>>

GoOn ==
  /\ pc = "backed" /\ Goto("ready") /\ run' = NoRun
  /\ UNCHANGED <<store, backup, know, log, forgetting, clock, unseen, chance>>

Leave ==
  /\ pc = "ready" /\ Goto("idle") /\ run' = NoRun
  /\ UNCHANGED <<store, backup, know, log, forgetting, clock, unseen, chance>>

\* A read says a store is damaged: the stores are opened again; an export's is a warning.
FindsDamage ==
  /\ \/ pc = "ready" /\ (raw.st = "bad" \/ know.st = "bad") /\ Goto("open")
     \/ pc \in {"rewind", "reconcile"} /\ raw.st = "bad" /\ Goto("open")
     \/ pc = "export" /\ raw.st = "bad" /\ Goto("ready")
  /\ run' = NoRun
  /\ UNCHANGED <<store, backup, know, log, forgetting, clock, unseen, chance>>

-----------------------------------------------------------------------------
(* What happens to them.                                                   *)

\* raw.db or knowledge.db no longer reads.
Damage ==
  /\ Spend("damage")
  /\ \/ raw.st = "ok" /\ raw' = [raw EXCEPT !.st = "bad"] /\ UNCHANGED know
     \/ know.st = "ok" /\ know' = [know EXCEPT !.st = "bad"] /\ UNCHANGED raw
  /\ UNCHANGED <<whole, staging, made, backup, log, forgetting, clock, unseen, pc, run>>

\* A segment is damaged, or its file is removed; never while it is read or written.
Rot ==
  /\ ~Locked /\ pc \notin {"export", "seal", "backed"}
  /\ Spend("rot")
  /\ \E s \in segs : segs' = (segs \ {s}) \cup {[s EXCEPT !.rotten = TRUE]}
  /\ UNCHANGED <<store, sums, know, log, forgetting, clock, unseen, pc, run>>

Removed ==
  /\ ~Locked /\ pc \notin {"export", "seal", "backed"}
  /\ Spend("rot")
  /\ \E s \in segs : segs' = segs \ {s}
  /\ UNCHANGED <<store, sums, know, log, forgetting, clock, unseen, pc, run>>

\* The power goes and raw.db's last commits with it.
Lose ==
  /\ raw.st = "ok" /\ Spend("lose")
  /\ \E c \in raw.synced..(clock - 1) :
       raw' = [raw EXCEPT
         !.rows = [k \in Kinds |-> Restrict(@[k], {q \in DOMAIN @[k] : @[k][q].id <= c})],
         !.jobs = Restrict(@, {r \in DOMAIN @ : @[r] <= c})]
  /\ unseen' = TRUE /\ forgetting' = FALSE
  /\ Goto("idle") /\ run' = NoRun
  /\ UNCHANGED <<whole, staging, made, backup, know, log, clock>>

Kill ==
  /\ Spend("kill")
  /\ \/ pc # "idle" /\ Goto("idle") /\ run' = NoRun /\ UNCHANGED forgetting
     \/ forgetting /\ forgetting' = FALSE /\ UNCHANGED <<pc, run>>
  /\ UNCHANGED <<store, backup, know, log, clock, unseen>>

\* A step of the restore returns an error.
Fail ==
  /\ Locked \/ pc = "take"
  /\ Spend("fail") /\ Stopped(run.hand)
  /\ UNCHANGED <<store, backup, know, log, forgetting, clock, unseen>>

Restoring ==
  \/ OpenStore \/ ReadLogs \/ TakeSwap \/ Clear \/ Build \/ Stage \/ MoveKnowledgeAside
  \/ MoveSegmentsAside \/ Quarantine \/ Swap \/ ReconcileAgain
Opening == OpenKnowledge \/ Rewind \/ CheckBackup \/ ReconcileLogs
Exporting == StartExport \/ WriteChecksum \/ WriteSegment \/ NextKind \/ GoOn
Beside == HookAppend \/ ReaderOpens \/ Register \/ LogRequest
Mishap == Damage \/ Rot \/ Removed \/ Lose \/ Kill \/ Fail

Next ==
  \/ TakeLock \/ HandRestore \/ Restoring \/ Opening \/ Consume \/ Curate \/ Exporting \/ Leave \/ FindsDamage
  \/ Beside \/ Mishap

Spec == Init /\ [][Next]_vars

\* A run's steps are taken; hooks come, which start a worker when there is none.
FairSpec ==
  /\ Spec
  /\ WF_vars(TakeLock) /\ WF_vars(Restoring) /\ WF_vars(Opening) /\ WF_vars(FindsDamage)
  /\ WF_vars(LogRequest) /\ WF_vars(WriteChecksum \/ WriteSegment \/ NextKind \/ GoOn)

-----------------------------------------------------------------------------
(* Properties.                                                             *)

RowsOK(rows) ==
  \A k \in Kinds : \A q \in DOMAIN rows[k] :
    q \in Nat \ {0} /\ rows[k][q].id \in 1..clock /\ rows[k][q].to \in Nat

\* Types: every store, segment and checkpoint holds rows the program made.
TypeOK ==
  /\ \A db \in {raw, whole} : db.st \in {"none", "ok", "bad"} /\ RowsOK(db.rows)
  /\ \A s \in segs : s.kind \in Kinds /\ s.first <= s.last /\ RowsOK([NoRows EXCEPT ![s.kind] = s.rows])
  /\ know.cp \in [Kinds -> Nat]
  /\ log \subseteq Kinds \X (1..clock)
  /\ clock \in Nat /\ made \in Nat
  /\ staging \in BOOLEAN /\ unseen \in BOOLEAN /\ forgetting \in BOOLEAN
  /\ pc \in {"idle", "open", "logs", "take", "clear", "build", "stage", "knowledge", "aside",
             "quarantine", "swap", "again", "know", "rewind", "check", "reconcile",
             "ready", "export", "seal", "backed"}
  /\ chance \in [Chances -> Nat]

\* No open of a hook, a reader or a worker makes an empty store over one that a restore
\* has on its way (open_within_report, finish_stopped_restore): a home has one raw.db made
\* from nothing in its life.
OneStore == made <= 1

\* While a run works, knowledge.db holds what was made of exactly the rows raw.db holds up to
\* each checkpoint: no row of a lost commit, none skipped (rewind_report, restore_locked).
OutputIsImage ==
  Ready /\ raw.st = "ok" /\ know.st = "ok" =>
    \A k \in Kinds :
      know.out[k] = {<<q, raw.rows[k][q].id>> : q \in {x \in DOMAIN raw.rows[k] : x <= know.cp[k]}}

\* A segment can be restored unless its file was damaged, no two claim a seq, and while a run
\* works none holds another row than raw.db does at that seq (seal_report, check_report).
SegmentsAgree ==
  /\ \A s \in segs : ~s.rotten => Undamaged(s)
  /\ \A s, t \in segs : s.kind = t.kind /\ s # t => s.last < t.first \/ t.last < s.first
  /\ Ready /\ raw.st = "ok" =>
       \A s \in segs : \A q \in DOMAIN s.rows :
         q \in DOMAIN raw.rows[s.kind] /\ raw.rows[s.kind][q] = s.rows[q]

\* After an export every row of raw.db up to the last segment's end, and every op, is in a
\* segment that claims it (export_from_report, cursor_report).
NothingUnbacked ==
  pc = "backed" =>
    /\ \A k \in Kinds : \A q \in DOMAIN raw.rows[k] :
         q <= Last(Of(k)) => \E s \in Of(k) : q \in DOMAIN s.rows
    /\ \A o \in DOMAIN raw.rows["ops"] : o <= Last(Of("ops"))

\* While a run works, raw.db denies every forget a log holds, whatever was restored under it
\* (forget::reconcile, Rebuild::finish): none comes back with a segment.
ForgetsHold == Ready /\ raw.st = "ok" => log \subseteq Denied(raw)

\* Every record up to the curation checkpoint was shown to a window that raw.db holds: a restore
\* never leaves a window whose seqs later records take (Rebuild::cut).
CuratedIsShown ==
  raw.st = "ok" =>
    \A q \in DOMAIN raw.rows["records"] :
      q <= Curated(raw.rows) => raw.rows["records"][q].id \in Shown(raw.rows)

\* A damaged raw.db is always replaced while a record segment verifies (open_raw, restore).
HealsItself == []<>(raw.st = "ok" \/ GoodRecords = {})
=============================================================================
