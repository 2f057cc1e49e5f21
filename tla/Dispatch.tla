------------------------------ MODULE Dispatch ------------------------------
(***************************************************************************)
(* The order between what leaves the machine and what the owner takes back.*)
(*                                                                         *)
(* Senders compose a prompt or a batch of texts, ask the egress gate and   *)
(* send it (src/curate.rs, src/turns.rs, src/my_work_run.rs,               *)
(* src/embed_phase.rs, src/provider.rs).  Readers build an answer from the *)
(* stores (src/hook.rs, src/search/b.rs, src/view.rs ...).  Writers change *)
(* what may be read: a forget, a rescan's masks, an exclusion, a save of   *)
(* the redaction rules.  They meet at dispatch.lock (src/dispatch.rs),     *)
(* taken after raw.lock, which an open raw.db holds shared and a restore   *)
(* exclusively (src/raw.rs, src/backup.rs).                                *)
(*                                                                         *)
(* Recorded text is a set of pieces.  A tombstone row takes a piece away:  *)
(* a forget's denial or a mask; the fence the code keeps is their number.  *)
(***************************************************************************)
EXTENDS Naturals, FiniteSets

CONSTANTS Senders,    \* phases of the worker and commands that ask a provider
          LagFirst,   \* those that look for a lag before they read the fence
          Detached,   \* those that open raw.db again for the gate and close it before the body is sent
          Readers,    \* processes that answer from the stores
          Writers,    \* processes that take the hold exclusively
          Restorer,   \* the process that restores raw.db
          NoOne,      \* the holder of a lock nobody holds
          Pieces,     \* pieces of recorded text
          Rulesets,   \* versions of the redaction rules (hashes: one may come back)
          ByHand,     \* those of them that come by an edit of config.toml itself
          LosesMasks  \* whether a restore's segments may lack the newest masks

Procs == Senders \cup Readers \cup Writers

ASSUME DispatchAssumption ==
  /\ IsFiniteSet(Pieces)
  /\ Senders \cap Readers = {} /\ Senders \cap Writers = {} /\ Readers \cap Writers = {}
  /\ LagFirst \subseteq Senders /\ Detached \subseteq Senders
  /\ Restorer \notin Procs /\ NoOne \notin Procs /\ Restorer # NoOne
  /\ ByHand \subseteq Rulesets /\ LosesMasks \in BOOLEAN

Rows == {"denied", "masked"} \X Pieces      \* tombstones: how, and which piece

VARIABLES rows,      \* the tombstones raw.db holds
          excluded,  \* pieces of the sessions no provider may get
          rules,     \* the version of the rules in config.toml
          derived,   \* pieces whose text derived ops and knowledge.db hold
          applied,   \* the tombstones the consumers have reached
          shared,    \* who holds dispatch.lock shared
          exclusive, \* who holds it exclusively
          open,      \* who has raw.db open (raw.lock shared)
          swap,      \* the restore: "none", "rebuild" (raw.lock taken), "swap" (both)
          pc, run
vars == <<rows, excluded, rules, derived, applied, shared, exclusive, open, swap, pc, run>>
stores == <<rows, excluded, rules, derived, applied>>

\* What a process remembers: what it read of the stores, and the text it composed or wants taken.
Nothing == [rows |-> {}, excluded |-> {}, rules |-> CHOOSE v \in Rulesets : TRUE, text |-> {}]

SenderPlaces == {"idle", "list", "lag", "compose", "gate", "admitted", "sending",
                 "waiting", "failed", "settle"}
ReaderPlaces == {"idle", "opened", "reading", "answering"}
\* What a writer wants, and where it is once it holds the lock for that.
Held == [forget |-> "forgetting", mask |-> "checking", exclude |-> "excluding", save |-> "saving"]
Holding == {Held[w] : w \in DOMAIN Held} \cup {"masking"}
WriterPlaces == {"idle"} \cup DOMAIN Held \cup Holding

TakenBy(some) == {row[2] : row \in some}
Taken == TakenBy(rows)
Denials(some) == {row \in some : row[1] = "denied"}
Readable == Pieces \ Taken

Init ==
  /\ rows = {} /\ excluded = {} /\ derived = {} /\ applied = {}
  /\ rules \in Rulesets
  /\ shared = {} /\ exclusive = NoOne /\ open = {} /\ swap = "none"
  /\ pc = [p \in Procs |-> "idle"]
  /\ run = [p \in Procs |-> Nothing]

At(p, place) == pc[p] = place
Go(p, place) == pc' = [pc EXCEPT ![p] = place]
Note(p, field, value) == run' = [run EXCEPT ![p][field] = value]

\* A process drops what it holds and is done with what it read.
Done(p) ==
  /\ Go(p, "idle")
  /\ run' = [run EXCEPT ![p] = Nothing]
  /\ shared' = shared \ {p}
  /\ exclusive' = IF exclusive = p THEN NoOne ELSE exclusive
  /\ open' = open \ {p}
  /\ UNCHANGED swap

\* Variation: an open that does not look at raw.lock.
OpenAnyway(p) == open' = open \cup {p}
\* raw.lock shared: a restore at work refuses the open.
OpenRaw(p) == swap = "none" /\ open' = open \cup {p}

Share(p) == exclusive = NoOne /\ shared' = shared \cup {p}
Unshare(p) == shared' = shared \ {p}
Exclude(p) == exclusive = NoOne /\ shared = {} /\ exclusive' = p

-----------------------------------------------------------------------------
(* Senders *)

\* A pass begins: the rules are loaded, raw.db is open.
Start(p) ==
  /\ At(p, "idle") /\ OpenRaw(p)
  /\ Note(p, "rules", rules)
  /\ Go(p, IF p \in LagFirst THEN "lag" ELSE "list")
  /\ UNCHANGED <<stores, shared, exclusive, swap>>

\* Reading::now: the fence and the exclusion list.
ReadList(p) ==
  /\ At(p, "list")
  /\ run' = [run EXCEPT ![p].rows = rows, ![p].excluded = excluded]
  /\ Go(p, IF p \in LagFirst THEN "compose" ELSE "lag")
  /\ UNCHANGED <<stores, shared, exclusive, open, swap>>

\* lagging: knowledge.db has not reached every tombstone, so the pass waits.
Lagging == ~(rows \subseteq applied)
\* Variation: nobody looks whether the consumers lag.
PassLag(p) ==
  /\ At(p, "lag")
  /\ Go(p, IF p \in LagFirst THEN "list" ELSE "compose")
  /\ UNCHANGED <<stores, run, shared, exclusive, open, swap>>
CheckLag(p) ==
  /\ At(p, "lag")
  /\ IF Lagging
     THEN Done(p)
     ELSE /\ Go(p, IF p \in LagFirst THEN "list" ELSE "compose")
          /\ UNCHANGED <<run, shared, exclusive, open, swap>>
  /\ UNCHANGED stores

\* One piece of the prompt is read, from raw.db without what is taken or from knowledge.db as
\* the consumers left it.  My Work's readers look at raw.db's tombstones too (my_work_ops::hidden).
Shown(p) == IF p \in LagFirst THEN derived \ Taken ELSE derived
Compose(p) ==
  /\ At(p, "compose")
  /\ \E x \in (Readable \cup Shown(p)) \ run[p].excluded :
       Note(p, "text", run[p].text \cup {x})
  /\ UNCHANGED <<stores, shared, exclusive, open, swap, pc>>

\* Something to send is asked for, or there is none.
Ask(p) ==
  /\ At(p, "compose")
  /\ IF run[p].text # {}
     THEN /\ Go(p, "gate")
          /\ open' = IF p \in Detached THEN open \ {p} ELSE open
          /\ UNCHANGED <<run, shared, exclusive, swap>>
     ELSE Done(p)
  /\ UNCHANGED stores

\* An embedding's thread opens raw.db itself (embed_phase.rs, still).
Reopen(p) ==
  /\ At(p, "gate") /\ p \notin open /\ OpenRaw(p)
  /\ UNCHANGED <<stores, shared, exclusive, swap, pc, run>>

\* The egress gate, its first half: the shared hold.
Admit(p) ==
  /\ At(p, "gate") /\ p \in open /\ Share(p)
  /\ Go(p, "admitted")
  /\ UNCHANGED <<stores, exclusive, open, swap, run>>

\* raw.db or the hold did not come within its wait: the call is cancelled.
NotAdmitted(p) ==
  /\ At(p, "gate")
  /\ exclusive # NoOne \/ (p \notin open /\ swap # "none")
  /\ Done(p) /\ UNCHANGED stores

\* Variation: the gate forgets the rules.
StillUnruled(p) ==
  run[p].excluded = excluded /\ Cardinality(run[p].rows) = Cardinality(rows)
\* Reading::still and rules_still.
Still(p) ==
  /\ run[p].excluded = excluded
  /\ Cardinality(run[p].rows) = Cardinality(rows)
  /\ run[p].rules = rules

\* The gate's second half: under the hold what was read still stands, or nothing is sent.
Check(p) ==
  /\ At(p, "admitted")
  /\ IF Still(p)
     THEN /\ Go(p, "sending")
          /\ open' = IF p \in Detached THEN open \ {p} ELSE open
          /\ UNCHANGED <<run, shared, exclusive, swap>>
     ELSE Done(p)
  /\ UNCHANGED stores

\* The last byte is physically out (Observed::maybe_await_input, CliInput): the hold ends.
BodySent(p) ==
  /\ At(p, "sending") /\ Unshare(p)
  /\ Go(p, "waiting")
  /\ UNCHANGED <<stores, exclusive, open, swap, run>>

\* Variation: an error path that returns with the hold.
FailHolding(p) ==
  /\ pc[p] \in {"sending", "waiting"}
  /\ Go(p, "failed")
  /\ UNCHANGED <<stores, shared, exclusive, open, swap, run>>

\* A write failed or the answer was refused; json and call release the hold on every return.
Fail(p) ==
  /\ pc[p] \in {"sending", "waiting"} /\ Unshare(p)
  /\ Go(p, "failed")
  /\ UNCHANGED <<stores, exclusive, open, swap, run>>

\* Variation: the same body sent again without the gate.
RetryAtOnce(p) ==
  /\ At(p, "failed") /\ p \notin Detached
  /\ Go(p, "sending")
  /\ UNCHANGED <<stores, shared, exclusive, open, swap, run>>

\* The next request of the chain, or the same one again, goes through the gate again.
Retry(p) ==
  /\ At(p, "failed") /\ p \notin Detached
  /\ Go(p, "gate")
  /\ UNCHANGED <<stores, shared, exclusive, open, swap, run>>

GiveUp(p) == At(p, "failed") /\ Done(p) /\ UNCHANGED stores

\* An answer; an embedding's holds no text and ends here.
Answered(p) ==
  /\ At(p, "waiting")
  /\ IF p \in Detached THEN Done(p)
                       ELSE Go(p, "settle") /\ UNCHANGED <<run, shared, exclusive, open, swap>>
  /\ UNCHANGED stores

\* Variation: an append that does not compare the fence.
SettleAll(p) ==
  /\ At(p, "settle") /\ Done(p)
  /\ derived' = derived \cup run[p].text
  /\ UNCHANGED <<rows, excluded, rules, applied>>

\* append_ops_fenced: the fence compared inside the write, with no hold.
Settle(p) ==
  /\ At(p, "settle") /\ Done(p)
  /\ derived' = IF Cardinality(run[p].rows) = Cardinality(rows)
                THEN derived \cup run[p].text ELSE derived
  /\ UNCHANGED <<rows, excluded, rules, applied>>

-----------------------------------------------------------------------------
(* The consumers, and the readers *)

\* Anchors and the folds reach the tombstones and drop what they took.
CatchUp ==
  /\ swap = "none" /\ Lagging
  /\ applied' = rows
  /\ derived' = derived \ Taken
  /\ UNCHANGED <<rows, excluded, rules, shared, exclusive, open, swap, pc, run>>

OpenReader(p) ==
  /\ At(p, "idle") /\ OpenRaw(p)
  /\ Go(p, "opened")
  /\ UNCHANGED <<stores, shared, exclusive, swap, run>>

\* Variation: a reader that reads without the hold.
ReadAtOnce(p) ==
  /\ At(p, "opened")
  /\ Go(p, "reading")
  /\ UNCHANGED <<stores, shared, exclusive, open, swap, run>>

\* dispatch::reading, from the first read until the answer is built.
Hold(p) ==
  /\ At(p, "opened") /\ Share(p)
  /\ Go(p, "reading")
  /\ UNCHANGED <<stores, exclusive, open, swap, run>>

NoHold(p) == At(p, "opened") /\ exclusive # NoOne /\ Done(p) /\ UNCHANGED stores

\* What is read: raw.db without what is taken, claims without those a tombstone still touches.
Read(p) ==
  /\ At(p, "reading")
  /\ \E x \in Readable : Note(p, "text", run[p].text \cup {x})
  /\ UNCHANGED <<stores, shared, exclusive, open, swap, pc>>

Answer(p) ==
  /\ At(p, "reading")
  /\ Go(p, "answering")
  /\ UNCHANGED <<stores, shared, exclusive, open, swap, run>>

Release(p) == At(p, "answering") /\ Done(p) /\ UNCHANGED stores

-----------------------------------------------------------------------------
(* Writers *)

Want(p, what, seen) ==
  /\ At(p, "idle")
  /\ Go(p, what)
  /\ run' = [run EXCEPT ![p] = seen]
  /\ UNCHANGED <<stores, shared, exclusive, swap>>

\* forget_preview: what would be registered, and how many denials there are.
Preview(p) ==
  \E target \in SUBSET Readable \ {{}} :
    /\ Want(p, "forget", [Nothing EXCEPT !.rows = rows, !.text = target])
    /\ OpenRaw(p)

\* A rescan found text that the rules it loaded would have redacted.
Scan(p) ==
  \E found \in SUBSET Readable \ {{}} :
    /\ Want(p, "mask", [Nothing EXCEPT !.rules = rules, !.text = found])
    /\ OpenRaw(p)

\* exclude, or its undo: the list as it will be.
WantExclusion(p) ==
  \E list \in SUBSET Pieces \ {excluded} :
    /\ Want(p, "exclude", [Nothing EXCEPT !.text = list])
    /\ OpenRaw(p)

\* The settings page posts a change of the rules it read (settings.rs, stage_held).
WantSave(p) == Want(p, "save", [Nothing EXCEPT !.rules = rules]) /\ UNCHANGED open

TakeHold(p) ==
  /\ pc[p] \in DOMAIN Held /\ Exclude(p)
  /\ Go(p, Held[pc[p]])
  /\ UNCHANGED <<stores, shared, open, swap, run>>

\* "busy": the wait is over, and nothing is written.
Busy(p) ==
  /\ pc[p] \in DOMAIN Held
  /\ exclusive # NoOne \/ shared # {}
  /\ Done(p) /\ UNCHANGED stores

\* forget_start: previewed again inside the write, refused when another forget was first.
Register(p) ==
  /\ At(p, "forgetting") /\ Done(p)
  /\ rows' = IF Cardinality(Denials(run[p].rows)) = Cardinality(Denials(rows))
             THEN rows \cup ({"denied"} \X run[p].text) ELSE rows
  /\ UNCHANGED <<excluded, rules, derived, applied>>

\* Variation: the rules looked at only when the scan began.
MaskAnyway(p) ==
  /\ At(p, "checking") /\ Go(p, "masking")
  /\ UNCHANGED <<stores, run, shared, exclusive, open, swap>>

\* The rescan's rules are still the home's, or no mask is written.
CheckRules(p) ==
  /\ At(p, "checking")
  /\ IF run[p].rules = rules THEN Go(p, "masking") /\ UNCHANGED <<run, shared, exclusive, open, swap>>
                             ELSE Done(p)
  /\ UNCHANGED stores

\* append_tombstone, one range and one write after another.
Mask(p) ==
  /\ At(p, "masking")
  /\ \E x \in run[p].text :
       /\ rows' = rows \cup {<<"masked", x>>}
       /\ Note(p, "text", run[p].text \ {x})
  /\ UNCHANGED <<excluded, rules, derived, applied, shared, exclusive, open, swap, pc>>

Masked(p) == At(p, "masking") /\ run[p].text = {} /\ Done(p) /\ UNCHANGED stores

Excluding(p) ==
  /\ At(p, "excluding") /\ Done(p)
  /\ excluded' = run[p].text
  /\ UNCHANGED <<rows, rules, derived, applied>>

\* config.toml replaced, unless it changed since the page read it.
Save(p) ==
  /\ At(p, "saving") /\ Done(p)
  /\ IF run[p].rules = rules THEN rules' \in Rulesets \ ByHand ELSE UNCHANGED rules
  /\ UNCHANGED <<rows, excluded, derived, applied>>

\* The owner's editor knows no lock.
HandEdit ==
  /\ rules' \in ByHand \ {rules}
  /\ UNCHANGED <<rows, excluded, derived, applied, shared, exclusive, open, swap, pc, run>>

-----------------------------------------------------------------------------
(* A restore, and a process killed *)

\* lock_for_swap: every open raw.db is closed.
Rebuild ==
  /\ swap = "none" /\ open = {}
  /\ swap' = "rebuild"
  /\ UNCHANGED <<stores, shared, exclusive, open, pc, run>>

\* Variation: a swap that does not wait for senders.
BeginSwapAtOnce ==
  /\ swap = "rebuild" /\ exclusive = NoOne
  /\ exclusive' = Restorer
  /\ swap' = "swap"
  /\ UNCHANGED <<stores, shared, open, pc, run>>

\* The rebuilt file is whole; its denials become live at the swap, so that waits for senders.
BeginSwap ==
  /\ swap = "rebuild" /\ Exclude(Restorer)
  /\ swap' = "swap"
  /\ UNCHANGED <<stores, shared, open, pc, run>>

\* The other file in place: every denial raw.db or the logs held, what the segments had of the
\* rest, and a knowledge.db to be built again.
Swap ==
  /\ swap = "swap"
  /\ \E kept \in SUBSET rows, logged \in SUBSET Pieces :
       /\ IF LosesMasks THEN Denials(rows) \subseteq kept ELSE kept = rows
       /\ rows' = kept \cup ({"denied"} \X logged)
  /\ excluded' \in SUBSET excluded
  /\ derived' \in SUBSET derived
  /\ applied' = {}
  /\ swap' = "none" /\ exclusive' = NoOne
  /\ UNCHANGED <<rules, shared, open, pc, run>>

\* It failed, stopped, or found the hold busy: nothing was swapped.
StopRestore ==
  /\ swap # "none"
  /\ swap' = "none"
  /\ exclusive' = IF exclusive = Restorer THEN NoOne ELSE exclusive
  /\ UNCHANGED <<stores, shared, open, pc, run>>

\* The operating system lets a killed process's locks go.
Crash(p) == ~At(p, "idle") /\ Done(p) /\ UNCHANGED stores

-----------------------------------------------------------------------------
Send(p) ==
  \/ Start(p) \/ ReadList(p) \/ CheckLag(p) \/ Compose(p) \/ Ask(p)
  \/ Reopen(p) \/ Admit(p) \/ NotAdmitted(p) \/ Check(p) \/ BodySent(p) \/ Fail(p)
  \/ Retry(p) \/ GiveUp(p) \/ Answered(p) \/ Settle(p)
Serve(p) ==
  OpenReader(p) \/ Hold(p) \/ NoHold(p) \/ Read(p) \/ Answer(p) \/ Release(p)
Write(p) ==
  \/ Preview(p) \/ Scan(p) \/ WantExclusion(p) \/ WantSave(p) \/ TakeHold(p) \/ Busy(p)
  \/ Register(p) \/ CheckRules(p) \/ Mask(p) \/ Masked(p) \/ Excluding(p) \/ Save(p)
Restore == Rebuild \/ BeginSwap \/ Swap \/ StopRestore

Next ==
  \/ \E p \in Senders : Send(p)
  \/ \E p \in Readers : Serve(p)
  \/ \E p \in Writers : Write(p)
  \/ \E p \in Procs : Crash(p)
  \/ CatchUp \/ Restore \/ HandEdit

Spec == Init /\ [][Next]_vars

\* Every process goes on with what it began; a restore's wait, polled every millisecond, comes
\* through between the holders it alternates with.
Fairness ==
  /\ \A p \in Senders : WF_vars(Send(p))
  /\ \A p \in Readers : WF_vars(Serve(p))
  /\ \A p \in Writers : WF_vars(Write(p))
  /\ SF_vars(BeginSwap) /\ WF_vars(Swap)
FairSpec == Spec /\ Fairness

-----------------------------------------------------------------------------
(* Properties *)

Notes == [rows : SUBSET Rows, excluded : SUBSET Pieces, rules : Rulesets, text : SUBSET Pieces]

PlacesOK ==
  /\ pc \in [Procs -> SenderPlaces \cup ReaderPlaces \cup WriterPlaces]
  /\ \A p \in Senders : pc[p] \in SenderPlaces
  /\ \A p \in Readers : pc[p] \in ReaderPlaces
  /\ \A p \in Writers : pc[p] \in WriterPlaces

\* Who holds a lock is at a place that holds it, and an exclusive holder is alone.
LocksOK ==
  /\ shared \subseteq Procs /\ exclusive \in Writers \cup {Restorer, NoOne}
  /\ \A p \in Senders : p \in shared <=> pc[p] \in {"admitted", "sending"}
  /\ \A p \in Readers : p \in shared <=> pc[p] \in {"reading", "answering"}
  /\ \A p \in Writers : p \notin shared /\ (exclusive = p <=> pc[p] \in Holding)
  /\ exclusive = Restorer <=> swap = "swap"
  /\ exclusive # NoOne => shared = {}

\* raw.db is open where the code has it open, and nowhere during a restore.
OpenOK ==
  /\ open \subseteq Procs /\ swap \in {"none", "rebuild", "swap"}
  /\ swap # "none" => open = {}
  /\ \A p \in Senders :
       pc[p] \in {"list", "lag", "compose", "admitted"} \/ (p \notin Detached /\ ~At(p, "idle"))
         => p \in open

\* Types, and who holds what.
TypeOK ==
  /\ rows \subseteq Rows /\ applied \subseteq rows
  /\ excluded \subseteq Pieces /\ derived \subseteq Pieces /\ rules \in Rulesets
  /\ run \in [Procs -> Notes]
  /\ PlacesOK /\ LocksOK /\ OpenOK

\* A body on its way out, a retry's too, holds nothing that a forget denies or a mask covers and
\* nothing of an excluded session, though all of them changed freely until the gate (spec 5.5,
\* dispatch.rs).  With LosesMasks, only while nobody is Detached: see README.
NothingTakenLeaves ==
  \A p \in Senders : At(p, "sending") => run[p].text \cap (Taken \cup excluded) = {}

\* While a body leaves, the rules are those its text was redacted with (owner decision 43): a save
\* waits for it.  An editor does not: its rules hold from the next gate on.
SentUnderTheRules ==
  rules \notin ByHand => \A p \in Senders : At(p, "sending") => run[p].rules = rules

\* A rescan writes no mask under rules that are no longer the home's (consumer/rescan.rs: it would
\* mask for good a record appended under the rules now).
MasksUnderTheRules ==
  rules \notin ByHand => \A p \in Writers : At(p, "masking") => run[p].rules = rules

\* What the consumers dropped for a tombstone never comes back by an answer that was under way
\* when the tombstone was written (append_ops_fenced, D1 rule 12).
DroppedStaysDropped == derived \cap TakenBy(applied) = {}

\* A reader's answer, until it is given, holds nothing a forget or a mask took (dispatch::reading).
AnswersWithoutTaken ==
  \A p \in Readers : At(p, "answering") => run[p].text \cap Taken = {}

\* No phase's body leaves while knowledge.db lags a tombstone (curate.rs, lagging: "a phase sends
\* nothing until the consumers reach them").  Who looks for the lag before the fence may send while
\* one lags, and so may a detached sender after a restore: what they show hides what is taken itself.
SendsCaughtUp == \A p \in Senders \ (LagFirst \cup Detached) : At(p, "sending") => ~Lagging

\* Whoever holds dispatch.lock lets it go: a forget waits for a body's last byte, never for an
\* answer or for the next attempt.
HoldsEnd == \A p \in Procs : (p \in shared \/ exclusive = p) ~> (p \notin shared /\ exclusive # p)

\* A restore that has raw.lock gets the dispatch hold though nobody's wait ends early: who holds
\* the second lock never waits for the first.
RestoreComes == swap = "rebuild" ~> swap = "none"

\* The texts on their way implement Fence.
OnTheWay(p) == IF pc[p] \in {"sending", "answering"} THEN run[p].text ELSE {}
Promise == INSTANCE Fence WITH taken <- Taken, out <- [p \in Procs |-> OnTheWay(p)]
KeepsTheFence == Promise!Spec
=============================================================================
