------------------------------- MODULE Worker -------------------------------
(***************************************************************************)
(* The life cycle of the one worker a home has (src/worker.rs), the hooks  *)
(* that start it (src/hook.rs), the commands that ask it to step aside and *)
(* the readers of its status.  Processes share files under <home>/state:   *)
(* the lock, its number, the outcome note, the step-aside requests and the *)
(* restore request; raw.db is its number of records and knowledge.db the   *)
(* number the consumers have read (Recovery says how they read).           *)
(***************************************************************************)
EXTENDS Naturals

CONSTANTS Hooks,        \* hook processes: each appends once, then looks at the lock
          Workers,      \* slots for `oboete worker` processes
          Draining,     \* commands that run the consumers before they end (restore, rebuild, recurate)
          Dropping,     \* commands that only drop the lock (forget's purge, retention, worker stop)
          Readers,      \* readers of the worker's status, which share the lock file
          NoOne,        \* the holder of a lock nobody holds
          Budgets,      \* bound: how often each rare event may happen in one behaviour
          PromptGiveUp  \* no command's 30 s end between a worker's second look and its release

Commands == Draining \cup Dropping
Runners  == Workers \cup Draining        \* who runs the worker's loop (run_holding)
Procs    == Hooks \cup Workers \cup Commands
Chances  == {"crash", "fail", "damage", "putoff", "call", "exec", "config"}

ASSUME ProcsAssumption ==
  /\ NoOne \notin Procs
  /\ Hooks \cap (Workers \cup Commands) = {}
  /\ Workers \cap Commands = {}
  /\ Draining \cap Dropping = {}
  /\ Budgets \subseteq [Chances -> Nat]
  /\ PromptGiveUp \in BOOLEAN

VARIABLES lock,      \* who holds state/worker.lock exclusively
          shared,    \* the status readers that hold it shared
          gen,       \* state/worker-gen: the number of the last taking
          outcome,   \* state/worker-outcome: a taking and how it went
          asks,      \* the requests in state/worker-yield that are not stale
          restore,   \* whether a restore was asked for (state/restore-wanted)
          resident,  \* what config.toml says of [worker] resident
          top, read, \* records in raw.db; records the consumers have read
          pc,        \* where each process is
          run,       \* each runner's own variables
          chance     \* the behaviour's budget, what is left of it, and whether a crash or a
                     \* failure came since a hook last found the lock free
vars == <<lock, shared, gen, outcome, asks, restore, resident, top, read, pc, run, chance>>

\* What a run of the loop remembers (Holding, and serve's local variables).
NewRun(number, stays) ==
  [last |-> number,      \* the number of its last taking
   stays |-> stays,      \* Phases::resident, read when it started
   seen |-> 0,           \* the top its last round read up to
   asked |-> FALSE,      \* whether a command asked when the round began
   call |-> "none",      \* the embedding call: none, out, or back and not settled
   waited |-> FALSE,     \* whether its note says all is well
   departing |-> FALSE,  \* told to leave while a call was out
   wanted |-> FALSE,     \* a restore request it took, or saw after its release
   result |-> "ok"]      \* how it ends

Spend(c) == /\ chance.left[c] > 0
            /\ chance' = [chance EXCEPT !.left[c] = @ - 1,
                                        !.harmed = @ \/ c \in {"crash", "fail"}]
Free     == lock = NoOne /\ shared = {}
Goto(p, at) == pc' = [pc EXCEPT ![p] = at]
Step(p, from, to) == pc[p] = from /\ Goto(p, to)
Behind   == read < top
Asked    == asks # {}

\* note: an outcome is recorded unless a later taking's already is.
NoteAlways(number, why) == outcome' = [gen |-> number, why |-> why]     \* variation

Note(number, why) ==
  outcome' = IF outcome.gen > number THEN outcome ELSE [gen |-> number, why |-> why]

Init ==
  /\ lock = NoOne /\ shared = {} /\ gen = 0
  /\ outcome = [gen |-> 0, why |-> "none"]
  /\ asks = {} /\ restore = FALSE /\ resident \in BOOLEAN
  /\ top = 0 /\ read = 0
  /\ pc = [p \in Procs |-> IF p \in Workers THEN "off" ELSE "ready"]
  /\ run = [p \in Runners |-> NewRun(0, FALSE)]
  /\ \E b \in Budgets : chance = [of |-> b, left |-> b, harmed |-> FALSE]

files == <<outcome, asks, restore, resident, top, read>>   \* all but the lock's two
-----------------------------------------------------------------------------
(* Hooks: append, then look at the lock (run_io, start_worker).            *)

HookAppend(h) ==
  /\ Step(h, "ready", "wrote")
  /\ top' = top + 1
  /\ UNCHANGED <<lock, shared, gen, outcome, asks, restore, resident, read, run, chance>>

\* raw.db is damaged: nothing is written, and the worker is asked to restore it.
HookFindsDamage(h) ==
  /\ Step(h, "ready", "wrote")
  /\ Spend("damage")
  /\ restore' = TRUE
  /\ UNCHANGED <<lock, shared, gen, outcome, asks, resident, top, read, run>>

HookProbe(h) ==
  /\ pc[h] = "wrote"
  /\ \/ /\ Free
        /\ lock' = h /\ gen' = gen + 1 /\ Goto(h, "probing")
        /\ chance' = [chance EXCEPT !.harmed = @ /\ Asked]
     \/ /\ ~Free
        /\ Goto(h, "done") /\ UNCHANGED <<lock, gen, chance>>
  /\ UNCHANGED <<shared, files, run>>

HookRelease(h) ==
  /\ Step(h, "probing", "spawning")
  /\ lock' = NoOne
  /\ UNCHANGED <<shared, gen, files, run, chance>>

HookSpawn(h) ==
  /\ pc[h] = "spawning"
  /\ \E w \in Workers :
       /\ pc[w] = "off"
       /\ pc' = [pc EXCEPT ![h] = "done", ![w] = "starting"]
  /\ UNCHANGED <<lock, shared, gen, files, run, chance>>
-----------------------------------------------------------------------------
(* A run takes the lock: `oboete worker` (run_as), or a command's last     *)
(* drain (run_once).                                                       *)

Start(p) ==
  /\ pc[p] = "starting"
  /\ \/ /\ Free
        /\ lock' = p /\ gen' = gen + 1 /\ Goto(p, "took")
        /\ run' = [run EXCEPT ![p] = NewRun(gen + 1, IF p \in Workers THEN resident ELSE FALSE)]
     \/ /\ ~Free      \* another process holds it: its run says how the work went
        /\ Goto(p, IF p \in Workers THEN "off" ELSE "done")
        /\ UNCHANGED <<lock, gen, run>>
  /\ UNCHANGED <<shared, files, chance>>

\* take: the taking is noted as one that has not ended; after a release that
\* left work, a loop that was to reopen its stores goes there.
NoteTaking(p) ==
  /\ pc[p] \in {"took", "retook"}
  /\ Note(run[p].last, "stopped")
  /\ Goto(p, IF pc[p] = "took" \/ run[p].wanted THEN "open" ELSE "round")
  /\ UNCHANGED <<lock, shared, gen, asks, restore, resident, top, read, run, chance>>

\* serve, entered again with the lock held: work, whatever its wait noted.
Reopen(p) ==
  /\ Step(p, "reopen", "open")
  /\ Note(run[p].last, "stopped")
  /\ run' = [run EXCEPT ![p].waited = FALSE]
  /\ UNCHANGED <<lock, shared, gen, asks, restore, resident, top, read, chance>>

TakeRestoreRequest(p) ==
  /\ Step(p, "open", "opening")
  /\ run' = [run EXCEPT ![p].wanted = restore]
  /\ restore' = FALSE
  /\ UNCHANGED <<lock, shared, gen, outcome, asks, resident, top, read, chance>>

StoresOpen(p) ==
  /\ Step(p, "opening", "round")
  /\ UNCHANGED <<lock, shared, gen, files, run, chance>>

\* A request whose restore failed is put back for the next worker.
OpenFails(p) ==
  /\ Step(p, "opening", "close")
  /\ Spend("fail")
  /\ restore' = (restore \/ run[p].wanted)
  /\ run' = [run EXCEPT ![p].result = "failed"]
  /\ UNCHANGED <<lock, shared, gen, outcome, asks, resident, top, read>>
-----------------------------------------------------------------------------
(* One round of serve's loop.                                              *)

Round(p) ==
  /\ pc[p] = "round"
  /\ \/ /\ restore
        /\ Goto(p, "reopen") /\ UNCHANGED run
     \/ /\ ~restore
        /\ LET asked == p \in Workers /\ Asked   \* only `oboete worker` yields
           IN  /\ run' = [run EXCEPT ![p].asked = asked]
               /\ Goto(p, IF asked /\ run[p].call = "none" THEN "aside" ELSE "look")
  /\ UNCHANGED <<lock, shared, gen, files, chance>>

StepAsideAtOnce(p) ==                                                  \* variation
  /\ pc[p] \in {"aside", "asideWaiting"}
  /\ Goto(p, "close")
  /\ UNCHANGED <<lock, shared, gen, files, run, chance>>

\* steps_aside: after its backup the worker asks again, since a command may have given up.
StepAside(p) ==
  /\ pc[p] \in {"aside", "asideWaiting"}
  /\ Goto(p, CASE Asked               -> "close"
               [] pc[p] = "aside"     -> "look"
               [] OTHER               -> "wait")
  /\ UNCHANGED <<lock, shared, gen, files, run, chance>>

\* The installed binary was replaced: exec keeps the process and lets its lock go.
Exec(w) ==
  /\ pc[w] \in {"round", "wait"} /\ run[w].call = "none"
  /\ pc[w] = "round" => ~restore
  /\ Spend("exec")
  /\ Goto(w, "starting")
  /\ lock' = NoOne
  /\ run' = [run EXCEPT ![w] = NewRun(0, FALSE)]
  /\ UNCHANGED <<shared, gen, files>>

Look(p) ==
  /\ Step(p, "look", "drain")
  /\ IF run[p].waited THEN Note(run[p].last, "stopped") ELSE UNCHANGED outcome
  /\ run' = [run EXCEPT ![p].waited = FALSE, ![p].seen = top]
  /\ UNCHANGED <<lock, shared, gen, asks, restore, resident, top, read, chance>>

Drain(p) ==
  /\ pc[p] = "drain"
  /\ \/ /\ Behind
        /\ read' \in read + 1 .. top
        /\ UNCHANGED <<pc, chance>>
     \/ /\ ~Behind
        /\ Goto(p, "phases") /\ UNCHANGED <<read, chance>>
     \/ /\ Behind                      \* a batch put off: the dispatch hold is busy
        /\ Spend("putoff")
        /\ Goto(p, "phases") /\ UNCHANGED read
  /\ UNCHANGED <<lock, shared, gen, outcome, asks, restore, resident, top, run>>

RestWell(p, c) ==                                                      \* variation
  /\ Goto(p, IF restore THEN "reopen" ELSE IF p \in Draining THEN "leave" ELSE "wait")
  /\ run' = [run EXCEPT ![p].call = c, ![p].waited = ~restore /\ run[p].stays]
  /\ IF ~restore /\ run[p].stays THEN Note(run[p].last, "ok") ELSE UNCHANGED outcome

\* Where the round goes once its phases ran with the call in state c: reopened,
\* or the wait, whose note says all is well unless a call is out.
Rest(p, c) ==
  IF restore
  THEN /\ Goto(p, "reopen") /\ run' = [run EXCEPT ![p].call = c] /\ UNCHANGED outcome
  ELSE /\ Goto(p, IF p \in Draining \/ (run[p].departing /\ c = "none") THEN "leave" ELSE "wait")
       /\ LET well == run[p].stays /\ c = "none"
          IN  /\ run' = [run EXCEPT ![p].call = c, ![p].waited = well]
              /\ IF well THEN Note(run[p].last, "ok") ELSE UNCHANGED outcome

Phases(p) ==
  /\ pc[p] = "phases"
  /\ \/ /\ run[p].call = "back"        \* settled: progress, so another round
        /\ run' = [run EXCEPT ![p].call = "none"]
        /\ Goto(p, IF restore THEN "reopen" ELSE "round")
        /\ UNCHANGED <<outcome, chance>>
     \/ /\ run[p].call # "back"
        /\ Rest(p, run[p].call) /\ UNCHANGED chance
     \/ /\ p \in Workers /\ run[p].call = "none"
        /\ ~run[p].asked /\ ~run[p].departing        \* the phase is not held
        /\ Spend("call")
        /\ Rest(p, "out")
  /\ UNCHANGED <<lock, shared, gen, asks, restore, resident, top, read>>

CallReturns(w) ==
  /\ run[w].call = "out"
  /\ run' = [run EXCEPT ![w].call = "back"]
  /\ UNCHANGED <<lock, shared, gen, files, pc, chance>>
-----------------------------------------------------------------------------
(* The wait between rounds, and the way out.                               *)

WakeCalling(w) ==                                                      \* variation
  /\ pc[w] = "wait"
  /\ \/ restore /\ Goto(w, "reopen")
     \/ ~restore /\ Asked /\ Goto(w, "asideWaiting")
     \/ ~restore /\ ~Asked /\ top # run[w].seen /\ Goto(w, "round")
  /\ UNCHANGED <<lock, shared, gen, files, run, chance>>

\* One poll of the wait: what ends it, in the order the code looks.
Wake(w) ==
  /\ pc[w] = "wait"
  /\ \/ restore /\ Goto(w, "reopen")
     \/ ~restore /\ Asked /\ run[w].call = "none" /\ Goto(w, "asideWaiting")
     \/ /\ ~restore /\ (Asked => run[w].call # "none")
        /\ \/ top # run[w].seen
           \/ run[w].call = "back"
           \/ run[w].asked /\ ~Asked
        /\ Goto(w, "round")
  /\ UNCHANGED <<lock, shared, gen, files, run, chance>>

\* The idle time passed (it can pass between two polls, whatever changed since).
TimeOut(w) ==
  /\ pc[w] = "wait"
  /\ IF ~run[w].stays
     THEN Goto(w, IF run[w].call = "none" THEN "leave" ELSE "round") /\ UNCHANGED run
     ELSE \/ /\ ~resident              \* config.toml no longer says resident
             /\ IF run[w].call = "none"
                THEN Goto(w, "leave") /\ UNCHANGED run
                ELSE run' = [run EXCEPT ![w].departing = TRUE] /\ UNCHANGED pc
          \/ /\ resident /\ ~run[w].departing /\ Behind
             /\ Goto(w, "round") /\ UNCHANGED run
          \/ /\ run[w].call # "none"      \* the phase's own time came first
             /\ Goto(w, "round") /\ UNCHANGED run
  /\ UNCHANGED <<lock, shared, gen, files, chance>>

LeaveChecked(p) ==                                                     \* variation
  /\ pc[p] = "leave"
  /\ Goto(p, IF Behind \/ restore THEN "round" ELSE "close")
  /\ UNCHANGED <<lock, shared, gen, files, run, chance>>

\* Everything is backed up under the lock, which goes before the last check.
Leave(p) ==
  /\ Step(p, "leave", "last")
  /\ lock' = NoOne
  /\ UNCHANGED <<shared, gen, files, run, chance>>

LastCheck(p) ==
  /\ pc[p] = "last"
  /\ Goto(p, IF restore \/ Behind THEN "relock" ELSE "ending")
  /\ run' = [run EXCEPT ![p].wanted = restore]
  /\ UNCHANGED <<lock, shared, gen, files, chance>>

RelockAnyway(p) ==                                                     \* variation
  /\ Step(p, "relock", "retook")
  /\ lock' = p /\ gen' = gen + 1 /\ run' = [run EXCEPT ![p].last = gen + 1]
  /\ UNCHANGED <<shared, files, chance>>

Relock(p) ==
  /\ pc[p] = "relock"
  /\ \/ /\ Free
        /\ lock' = p /\ gen' = gen + 1 /\ Goto(p, "retook")
        /\ run' = [run EXCEPT ![p].last = gen + 1]
     \/ /\ ~Free                       \* another run took it: the work is its now
        /\ Goto(p, "ending") /\ UNCHANGED <<lock, gen, run>>
  /\ UNCHANGED <<shared, files, chance>>

\* serve returned with the lock held: it goes once the loop's stores are closed.
Close(p) ==
  /\ Step(p, "close", "ending")
  /\ lock' = NoOne
  /\ UNCHANGED <<shared, gen, files, run, chance>>

\* record: the run's outcome, under no lock but the note's own.
Record(p) ==
  /\ pc[p] = "ending"
  /\ Note(run[p].last, run[p].result)
  /\ Goto(p, IF p \in Workers THEN "off" ELSE "done")
  /\ run' = [run EXCEPT ![p] = NewRun(0, FALSE)]
  /\ UNCHANGED <<lock, shared, gen, asks, restore, resident, top, read, chance>>
-----------------------------------------------------------------------------
(* Commands that cannot run beside a worker (lock_asking_for).             *)

CommandTry(c) ==
  /\ pc[c] = "ready"
  /\ \/ Free /\ lock' = c /\ gen' = gen + 1 /\ Goto(c, "working") /\ UNCHANGED asks
     \/ ~Free /\ asks' = asks \cup {c} /\ Goto(c, "asking") /\ UNCHANGED <<lock, gen>>
  /\ UNCHANGED <<shared, outcome, restore, resident, top, read, run, chance>>

CommandGets(c) ==
  /\ Step(c, "asking", "working")
  /\ Free
  /\ lock' = c /\ gen' = gen + 1 /\ asks' = asks \ {c}
  /\ UNCHANGED <<shared, outcome, restore, resident, top, read, run, chance>>

CommandGivesUp(c) ==
  /\ Step(c, "asking", "done")
  /\ ~Free
  /\ PromptGiveUp => \A p \in Runners : pc[p] # "close"
  /\ asks' = asks \ {c}
  /\ UNCHANGED <<lock, shared, gen, outcome, restore, resident, top, read, run, chance>>

\* The command's own work is done; what was appended meanwhile started no worker.
\* A rebuild, a restore or a page's action goes on as a run that holds the lock.
CommandDrains(c) ==
  /\ c \in Draining
  /\ Step(c, "working", "took")
  /\ run' = [run EXCEPT ![c] = NewRun(gen, FALSE)]
  /\ UNCHANGED <<lock, shared, gen, files, chance>>

\* recurate drops the lock and takes it again.
CommandReleasesToDrain(c) ==
  /\ c \in Draining
  /\ Step(c, "working", "starting")
  /\ lock' = NoOne
  /\ UNCHANGED <<shared, gen, files, run, chance>>

\* A purge, a retention pass or `worker stop` only drops it; so does a command
\* that fails before its drain.
CommandDrops(c) ==
  /\ Step(c, "working", "done")
  /\ IF c \in Dropping THEN UNCHANGED chance ELSE Spend("fail")
  /\ lock' = NoOne
  /\ UNCHANGED <<shared, gen, files, run>>

\* A request its dead command left is not obeyed once it is a minute old.
RequestGrowsStale(c) ==
  /\ c \in asks /\ pc[c] = "done"
  /\ asks' = asks \ {c}
  /\ UNCHANGED <<lock, shared, gen, outcome, restore, resident, top, read, pc, run, chance>>
-----------------------------------------------------------------------------
(* Status readers, the owner's editor, failures and kills.                 *)

\* lock_held: a reader shares the lock file for a moment to see whether it is held.
ReaderShares(r) ==
  /\ lock = NoOne /\ r \notin shared
  /\ shared' = shared \cup {r}
  /\ UNCHANGED <<lock, gen, files, pc, run, chance>>

ReaderLetsGo(r) ==
  /\ r \in shared
  /\ shared' = shared \ {r}
  /\ UNCHANGED <<lock, gen, files, pc, run, chance>>

OwnerEditsConfig ==
  /\ Spend("config")
  /\ resident' = ~resident
  /\ UNCHANGED <<lock, shared, gen, outcome, asks, restore, top, read, pc, run>>

\* A read or a write that fails ends the loop; one that finds damage opens the stores again.
Fails(p) ==
  /\ pc[p] \in {"look", "drain", "phases", "wait", "last"}
  /\ Spend("fail")
  /\ \/ /\ Goto(p, IF pc[p] = "last" THEN "ending" ELSE "close")
        /\ run' = [run EXCEPT ![p].result = "failed"]
     \/ pc[p] # "last" /\ Goto(p, "reopen") /\ UNCHANGED run
  /\ UNCHANGED <<lock, shared, gen, files>>

\* Killed at any point: the system lets its lock go, the files stay as they are.
Crash(p) ==
  /\ pc[p] \notin {"off", "done", "ready"}
  /\ Spend("crash")
  /\ Goto(p, IF p \in Workers THEN "off" ELSE "done")
  /\ lock' = IF lock = p THEN NoOne ELSE lock
  /\ run' = IF p \in Runners THEN [run EXCEPT ![p] = NewRun(0, FALSE)] ELSE run
  /\ UNCHANGED <<shared, gen, files>>
-----------------------------------------------------------------------------
HookNext(h) == HookProbe(h) \/ HookRelease(h) \/ HookSpawn(h)

\* What a runner does by itself, whatever the others do.
RunnerNext(p) ==
  \/ Start(p) \/ NoteTaking(p) \/ Reopen(p) \/ TakeRestoreRequest(p) \/ StoresOpen(p)
  \/ Round(p) \/ StepAside(p) \/ Look(p) \/ Drain(p) \/ Phases(p)
  \/ Leave(p) \/ LastCheck(p) \/ Relock(p) \/ Close(p) \/ Record(p)

WorkerWait(w) == CallReturns(w) \/ Wake(w) \/ TimeOut(w)

CommandNext(c) ==
  \/ CommandGets(c) \/ CommandGivesUp(c)
  \/ CommandDrains(c) \/ CommandReleasesToDrain(c) \/ CommandDrops(c)

Next ==
  \/ \E h \in Hooks : HookAppend(h) \/ HookFindsDamage(h) \/ HookNext(h)
  \/ \E p \in Runners : RunnerNext(p) \/ OpenFails(p) \/ Fails(p)
  \/ \E w \in Workers : WorkerWait(w) \/ Exec(w)
  \/ \E c \in Commands : CommandTry(c) \/ CommandNext(c) \/ RequestGrowsStale(c)
  \/ \E r \in Readers : ReaderShares(r) \/ ReaderLetsGo(r)
  \/ \E p \in Procs : Crash(p)
  \/ OwnerEditsConfig

\* A process that can go on goes on; nothing is assumed of when a hook or a
\* command comes, when the owner edits, or of failures.
Fairness ==
  /\ \A h \in Hooks : WF_vars(HookNext(h))
  /\ \A p \in Runners : WF_vars(RunnerNext(p))
  /\ \A w \in Workers : WF_vars(CallReturns(w)) /\ WF_vars(Wake(w) \/ TimeOut(w))
  /\ \A c \in Commands : WF_vars(CommandNext(c))
  /\ \A r \in Readers : WF_vars(ReaderLetsGo(r))

Spec == Init /\ [][Next]_vars
FairSpec == Spec /\ Fairness
-----------------------------------------------------------------------------
(* What should hold.                                                       *)

HookPlaces    == {"ready", "wrote", "probing", "spawning", "done"}
CommandPlaces == {"ready", "asking", "working", "done"}
LoopPlaces    == {"starting", "took", "retook", "reopen", "open", "opening", "round", "aside",
                  "asideWaiting", "look", "drain", "phases", "wait", "leave", "last", "relock",
                  "close", "ending"}

PlacesOK ==
  /\ pc \in [Procs -> HookPlaces \cup CommandPlaces \cup LoopPlaces \cup {"off"}]
  /\ \A h \in Hooks : pc[h] \in HookPlaces
  /\ \A w \in Workers : pc[w] \in LoopPlaces \cup {"off"}
  /\ \A c \in Dropping : pc[c] \in CommandPlaces
  /\ \A c \in Draining : pc[c] \in CommandPlaces \cup LoopPlaces

Run == [last : Nat, stays : BOOLEAN, seen : Nat, asked : BOOLEAN,
        call : {"none", "out", "back"}, waited : BOOLEAN, departing : BOOLEAN,
        wanted : BOOLEAN, result : {"ok", "failed"}]

TypeOK ==
  /\ lock \in Procs \cup {NoOne}
  /\ shared \subseteq Readers
  /\ gen \in Nat
  /\ outcome \in [gen : Nat, why : {"none", "stopped", "ok", "failed"}]
  /\ asks \subseteq Commands
  /\ restore \in BOOLEAN /\ resident \in BOOLEAN
  /\ top \in Nat /\ read \in 0 .. top
  /\ PlacesOK
  /\ run \in [Runners -> Run]
  /\ chance \in [of : [Chances -> Nat], left : [Chances -> Nat], harmed : BOOLEAN]

\* Where a process holds the lock, and of those where its loop is at work.
Waiting == {"wait", "asideWaiting"}
AtWork  == {"open", "opening", "round", "aside", "look", "drain", "phases", "leave", "reopen"}
Inside  == AtWork \cup Waiting \cup {"took", "retook", "close", "probing", "working"}

\* The stores are touched by one process at a time: whoever is inside the loop, or
\* in a command's own work, is the one holder of state/worker.lock (lock_for), also
\* while hooks probe the lock and status readers share it.
OneAtATime ==
  /\ \A p \in Procs : pc[p] \in Inside <=> lock = p
  /\ lock # NoOne => shared = {}

\* A worker killed at work is reported (take, serve, run_holding): while a loop is at
\* work the outcome file says that this very taking of the lock has not ended, and no
\* earlier run's outcome, recorded late, hides it.
KilledIsReported ==
  \A p \in Runners :
    (pc[p] \in AtWork /\ ~run[p].waited /\ pc[p] # "reopen") =>
        outcome = [gen |-> run[p].last, why |-> "stopped"]

\* A resident worker is killed at every shutdown of the PC: the outcome file calls its wait
\* well ended (serve's note of "") exactly while no embedding call is out, so a kill is
\* reported during a call and not during a wait, also around restores and step-aside requests.
WaitIsNoFailure ==
  \A p \in Runners : pc[p] \in Waiting =>
     LET well == run[p].stays /\ run[p].call = "none"
     IN  outcome = [gen |-> run[p].last, why |-> IF well THEN "ok" ELSE "stopped"]

\* No crash and no failure has happened yet.
Unharmed == \A c \in {"crash", "fail"} : chance.left[c] = chance.of[c]

\* A call that is out is paid for: without a failure its worker keeps the lock, through
\* step-aside requests, restores and the owner's edits, until the answer is settled.
PaidCallIsSettled == Unharmed => \A w \in Workers : run[w].call # "none" => lock = w

\* Work not done is somebody's: a hook that has not looked at the lock yet or is to start
\* a worker, a run before its last check, or a command the worker steps aside for.
Owes(p) ==
  \/ p \in Hooks /\ pc[p] \in {"wrote", "probing", "spawning"}
  \/ p \in Runners /\ pc[p] \notin {"off", "ready", "asking", "done", "close", "ending"}
NoLostWakeUp ==
  ~chance.harmed /\ (Behind \/ restore) =>
     (\E p \in Procs : Owes(p)) \/ (\E c \in Commands : pc[c] = "asking")

\* The worker's promise (docs/spec.md 1.1): what is appended, and a restore that is asked
\* for, is processed without another hook, by the worker or by a run it hands over to.
\* A crash or a failure on the way may lose the wake-up; the next hook that finds the lock
\* free (start_worker) makes up for it, when no request of a dead command is fresh.
Promise == INSTANCE WakeUp WITH harmed <- chance.harmed
WakeUpIsNeverLost == Promise!Spec
=============================================================================
