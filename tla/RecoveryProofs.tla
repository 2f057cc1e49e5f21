--------------------------- MODULE RecoveryProofs ---------------------------
(***************************************************************************)
(* What TLAPS proves of Recovery.tla, for any number of commits, windows,  *)
(* segments and forgets, however often a restore is stopped at any step,   *)
(* a store damaged or the power lost: the types, that a home has one       *)
(* raw.db made from nothing, that raw.db holds what the logs ask, that     *)
(* knowledge.db is what was made of raw.db's rows, that segments agree     *)
(* with raw.db and have what an export went through, and that every        *)
(* record curation has passed was shown to a window.                       *)
(***************************************************************************)
EXTENDS Recovery, FiniteSetTheorems, TLAPS

\* Without these, TLC shows that SegmentsAgree and CuratedIsShown do not hold: a row may be added
\* after commits were lost and before a check looks (as in RecoveryGhosts.cfg), an op of a forget
\* may take the number of an op a restore cut (RecoveryReused.cfg).
Watched == AppendsFirst => Budget["lose"] = 0
Settled == Watched /\ "ops" \notin Forgettable

Fields  == {"st", "rows", "jobs", "synced"}
Opened  == {"know", "rewind", "check", "reconcile", "ready", "export", "seal", "backed"}
Serving == {"ready", "export", "seal", "backed"}
Asks(n) == Forgettable \X (1 .. n)

\* A kind's rows have numbers from 1 on, of which there is a last.
RowOf(k, row, n) ==
  row.id \in 1 .. n /\ row.to \in Nat /\ (row.of = 0 \/ <<k, row.of>> \in Asks(n))
Numbering(k, f, n) ==
  (\E m \in Nat : DOMAIN f \subseteq 1 .. m) /\ \A q \in DOMAIN f : RowOf(k, f[q], n)
Store(db, n) ==
  /\ DOMAIN db = Fields /\ db.st \in {"none", "ok", "bad"}
  /\ DOMAIN db.rows = Kinds /\ \A k \in Kinds : Numbering(k, db.rows[k], n)
  /\ DOMAIN db.jobs \subseteq Asks(n) /\ db.synced \in 0 .. n

Segment(s, n) ==
  /\ DOMAIN s = {"kind", "first", "last", "rotten", "rows"}
  /\ s.kind \in Kinds /\ s.rotten \in BOOLEAN
  /\ s.first \in Nat \ {0} /\ s.last \in Nat /\ s.first <= s.last
  /\ DOMAIN s.rows \subseteq s.first .. s.last
  /\ \A q \in DOMAIN s.rows : RowOf(s.kind, s.rows[q], n)

DataOK ==
  /\ Store(raw, clock) /\ Store(whole, clock)
  /\ \A s \in segs : Segment(s, clock)
  /\ \E m \in Nat : \A s \in segs : s.last <= m
  /\ log \subseteq Asks(clock) /\ clock \in Nat
RunOK ==
  /\ DOMAIN know = {"st", "cp", "out"} /\ know.cp \in [Kinds -> Nat] /\ DOMAIN know.out = Kinds
  /\ staging \in BOOLEAN /\ unseen \in BOOLEAN /\ forgetting \in BOOLEAN
  /\ DOMAIN run = {"hand", "kind", "logged", "held", "first", "last"}
  /\ run.kind \in Kinds
  /\ run.logged \subseteq Asks(clock) /\ run.held \subseteq Asks(clock)
  /\ run.first \in Nat /\ run.last \in Nat
  /\ pc = "seal" => run.first > 0 /\ run.first <= run.last
  /\ chance \in [Chances -> Nat]
  /\ pc \in {"idle", "open", "logs", "take", "clear", "build", "stage", "knowledge", "aside",
             "quarantine", "swap", "again"} \cup Opened
TypesOK == DataOK /\ RunOK

\* Once a store was made there is one, under one of its two names; a restore that clears the
\* second name has the first, and one that moves the first aside has the second.
StoresOK ==
  /\ made \in {0, 1}
  /\ made = 1 => raw.st # "none" \/ whole.st # "none"
  /\ made = 0 => raw.st = "none" /\ whole.st = "none" /\ segs = {}
  /\ pc \in {"clear", "build", "stage", "knowledge", "aside", "quarantine", "again"} \cup Opened => raw.st # "none"
  /\ pc \in {"knowledge", "aside", "quarantine", "swap"} => whole.st # "none"
  /\ forgetting => raw.st # "none" /\ ~Locked

\* What a log asks is done before a run's work begins.
AskedOK == pc \in Serving /\ raw.st = "ok" => log \subseteq DOMAIN raw.jobs

\* Commits were lost unseen only between the power loss and the next check, and what a row
\* above another may be lost with is below it.
Ordered(db) ==
  \A k \in Kinds : \A p, q \in DOMAIN db.rows[k] :
    p < q => db.rows[k][p].id <= db.rows[k][q].id \/ db.rows[k][p].id <= db.synced
LossOK ==
  /\ AppendsFirst => ~unseen /\ chance["lose"] = 0
  /\ unseen => ~forgetting /\ pc # "again"
  /\ pc \in {"reconcile"} \cup Serving /\ raw.st = "ok" => ~unseen
  /\ Ordered(raw) /\ Ordered(whole)

\* knowledge.db is what was made of raw.db's rows, but for those lost and unseen.
Blank == \A k \in Kinds : know.cp[k] = 0 /\ know.out[k] = {}
Made(k, top) == {<<q, raw.rows[k][q].id>> : q \in {x \in DOMAIN raw.rows[k] : x <= top}}
Tells(k) ==
  /\ \A o \in know.out[k] : o[1] \in Nat /\ o[1] <= know.cp[k]
  /\ {o \in know.out[k] : o[1] <= Top(raw.rows[k])} = Made(k, know.cp[k])
  /\ ~unseen \/ (pc = "check" /\ raw.st = "ok") => know.cp[k] <= Top(raw.rows[k])
KnowOK ==
  /\ raw.st = "none" \/ pc \in {"aside", "quarantine", "swap"} => Blank
  /\ raw.st # "none" => \A k \in Kinds : Tells(k)

\* The segments: each whole, with its checksum, apart from each other.
SegsOK ==
  /\ \A s \in segs : /\ s.last \in DOMAIN s.rows /\ Name(s) \in sums
                     /\ s.kind = "ops" => DOMAIN s.rows = s.first .. s.last
  /\ \A s, t \in segs : s.kind = t.kind /\ s # t => s.last < t.first \/ t.last < s.first
Gapless(db) == \A q \in DOMAIN db.rows["ops"] : 1 .. q \subseteq DOMAIN db.rows["ops"]

\* A segment has the rows a store has where it claims them all, unless it ends past the store.
Holds(db, s) ==
  \/ s.last > Top(db.rows[s.kind])
  \/ \A q \in s.first .. s.last :
       /\ q \in DOMAIN db.rows[s.kind] <=> q \in DOMAIN s.rows
       /\ q \in DOMAIN s.rows => db.rows[s.kind][q] = s.rows[q]
Reaches(db, kind) == \A s \in Of(kind) : s.last <= Top(db.rows[kind])
GoodSegs == GoodRecords \cup GoodOps
AgreeOK ==
  /\ Gapless(raw) /\ Gapless(whole)
  /\ raw.st # "none" => (\A s \in segs : Holds(raw, s)) /\ (~unseen => Reaches(raw, "records"))
  /\ pc \in {"reconcile"} \cup Serving /\ raw.st = "ok" => Reaches(raw, "ops")
  /\ raw.st = "none" \/ pc \in {"quarantine", "swap"}
       => (\A s \in segs : Holds(whole, s)) /\ Reaches(whole, "records")
  /\ pc \in {"knowledge", "aside"} => \A s \in GoodSegs : Holds(whole, s)
  /\ pc \in {"knowledge", "aside"} => \A s \in GoodRecords : s.last <= Top(whole.rows["records"])

\* What an export has gone through is in segments.
SealedBy(S, rows) ==
  /\ \A s \in S : s.last <= Top(rows)
  /\ \A q \in DOMAIN rows : q <= Last(S) => \E s \in S : Claims(s, q)
Sealed(kind) == SealedBy(Of(kind), raw.rows[kind])
ExportOK ==
  /\ pc \in {"export", "seal"} => Sealed(run.kind) /\ (run.kind = "ops" => Sealed("records"))
  /\ pc = "seal" =>
       /\ run.first \in DOMAIN raw.rows[run.kind] /\ run.last \in DOMAIN raw.rows[run.kind]
       /\ \A s \in Of(run.kind) : s.last < run.first
       /\ \A q \in DOMAIN raw.rows[run.kind] : q < run.first => q <= Last(Of(run.kind))
       /\ <<run.kind, run.first, run.last>> \in sums
  /\ pc = "backed" => /\ Sealed("records") /\ Sealed("ops")
                      /\ \A o \in DOMAIN raw.rows["ops"] : o <= Last(Of("ops"))

\* A window's op was shown every record it read: of a store, of the segments together.
Reads(records, ops, synced) ==
  \A o \in DOMAIN ops :
    /\ ops[o].to > 0 => \E q \in DOMAIN records :
         q >= ops[o].to /\ (records[q].id < ops[o].id \/ records[q].id <= synced)
    /\ \A q \in DOMAIN records : q <= ops[o].to => \E p \in DOMAIN ops : p <= o /\ records[q].id \in ops[p].saw
ReadAll(db) == Reads(db.rows["records"], db.rows["ops"], db.synced)
SealedReadAll ==
  \A s \in Of("ops"), r \in Of("records") : \A o \in DOMAIN s.rows, q \in DOMAIN r.rows :
    q <= s.rows[o].to =>
      \E p \in 1 .. o : \A t \in Of("ops") :
        Claims(t, p) => p \in DOMAIN t.rows /\ r.rows[q].id \in t.rows[p].saw
ShownOK ==
  /\ ReadAll(raw) /\ ReadAll(whole) /\ SealedReadAll
  /\ pc \in {"export", "seal"} => Reaches(raw, "ops")
-----------------------------------------------------------------------------
(* Rows: a kind's last number, and what is added after it.                 *)

\* A set of naturals has a least,
LEMMA Least ==
  ASSUME NEW S \in SUBSET Nat, S # {}
  PROVE  Min(S) \in S /\ \A y \in S : Min(S) <= y
<1>1. PICK x \in S : \A y \in S : ~(<<y, x>> \in OpToRel(<, Nat))
  BY NatLessThanWellFounded, WFMin
<1>2. \A y \in S : ~(y < x)
  BY <1>1 DEF OpToRel
<1>3. \A y \in S : x <= y
  BY <1>2
<1>4. QED
  BY <1>3 DEF Min

\* and one that is bounded has a greatest.
LEMMA Greatest ==
  ASSUME NEW S \in SUBSET Nat, S # {}, NEW b \in Nat, \A x \in S : x <= b
  PROVE  Max(S) \in S /\ \A y \in S : y <= Max(S)
<1> DEFINE T == {b - x : x \in S}
<1>1. T \in SUBSET Nat /\ T # {}
  <2>1. \A x \in S : b - x \in Nat
    OBVIOUS
  <2>2. PICK x \in S : TRUE
    OBVIOUS
  <2>3. b - x \in T
    OBVIOUS
  <2>4. QED
    BY <2>1, <2>3
<1>2. PICK t \in T : \A y \in T : t <= y
  BY <1>1, Least
<1>3. PICK x \in S : t = b - x
  BY <1>2
<1>4. \A y \in S : x >= y
  <2>1. \A y \in S : b - x <= b - y
    BY <1>2, <1>3
  <2>2. QED
    BY <2>1
<1>5. QED
  BY <1>4 DEF Max

LEMMA TopIs ==
  ASSUME NEW f, \E m \in Nat : DOMAIN f \subseteq 1 .. m
  PROVE  /\ Top(f) \in Nat
         /\ \A q \in DOMAIN f : q \in Nat \ {0} /\ q <= Top(f)
         /\ Top(f) = 0 \/ Top(f) \in DOMAIN f
         /\ DOMAIN f \subseteq 1 .. Top(f)
<1>1. PICK m \in Nat : DOMAIN f \subseteq 1 .. m
  OBVIOUS
<1> DEFINE S == DOMAIN f \cup {0}
<1>2. S \in SUBSET Nat /\ S # {} /\ \A x \in S : x <= m
  BY <1>1
<1>3. Max(S) \in S /\ \A y \in S : y <= Max(S)
  <2> HIDE DEF S
  <2>1. QED
    BY <1>2, Greatest
<1>4. QED
  BY <1>1, <1>3 DEF Top

\* What is added after a kind's last row.
LEMMA AddsTo ==
  ASSUME NEW f, \E m \in Nat : DOMAIN f \subseteq 1 .. m, NEW g, NEW n \in Nat,
         DOMAIN g = DOMAIN f \cup (Top(f) + 1 .. Top(f) + n)
  PROVE  /\ \E m \in Nat : DOMAIN g \subseteq 1 .. m
         /\ Top(g) = Top(f) + n
<1>1. /\ Top(f) \in Nat /\ DOMAIN f \subseteq 1 .. Top(f)
      /\ Top(f) = 0 \/ Top(f) \in DOMAIN f
  BY TopIs
<1>2. DOMAIN g \subseteq 1 .. Top(f) + n
  BY <1>1
<1>3. \E m \in Nat : DOMAIN g \subseteq 1 .. m
  BY <1>1, <1>2
<1>4. /\ Top(g) \in Nat
      /\ Top(g) = 0 \/ Top(g) \in DOMAIN g
      /\ \A q \in DOMAIN g : q <= Top(g)
  BY <1>3, TopIs
<1>5. Top(f) + n = 0 \/ Top(f) + n \in DOMAIN g
  BY <1>1
<1>6. QED
  BY <1>1, <1>2, <1>3, <1>4, <1>5

LEMMA KindsAre == Kinds = {"records", "ops"} /\ "records" \in Kinds /\ "ops" \in Kinds
BY DEF Kinds

LEMMA RowIs ==
  ASSUME NEW n \in Nat, NEW k, NEW row, RowOf(k, row, n)
  PROVE  row.id \in Nat /\ row.id > 0 /\ row.id <= n /\ row.to \in Nat
BY DEF RowOf

\* What the requests add are rows of their own commit, each after the last.
LEMMA AppliedAdds ==
  ASSUME NEW rows, NEW id \in Nat, NEW requests, requests \subseteq Asks(id),
         NEW k \in Kinds, \E m \in Nat : DOMAIN rows[k] \subseteq 1 .. m
  PROVE  LET f == rows[k]
             g == Applied(rows, requests, id)[k]
             a == Cardinality(Added(rows, requests, k))
         IN  /\ a \in Nat
             /\ DOMAIN g = DOMAIN f \cup (Top(f) + 1 .. Top(f) + a)
             /\ \E m \in Nat : DOMAIN g \subseteq 1 .. m
             /\ Top(g) = Top(f) + a
             /\ \A q \in DOMAIN f : g[q] = f[q]
             /\ \A q \in DOMAIN g \ DOMAIN f : q > Top(f) /\ g[q].id = id /\ g[q].to = 0 /\ <<k, g[q].of>> \in Asks(id)
<1> DEFINE f == rows[k]
           g == Applied(rows, requests, id)[k]
           added == Added(rows, requests, k)
           a == Cardinality(added)
           row(q) == [Row(id) EXCEPT !.of = Numbered(added)[q - Top(f)]]
<1>1. a \in Nat
  <2>1. added \subseteq 1 .. id
    BY DEF Added, Asks
  <2>2. IsFiniteSet(1 .. id)
    BY FS_Interval
  <2>3. IsFiniteSet(added)
    <3> HIDE DEF added
    <3>1. QED
      BY <2>1, <2>2, FS_Subset
  <2>4. QED
    <3> HIDE DEF added
    <3>1. QED
      BY <2>3, FS_CardinalityType
<1>10. \A i \in 1 .. a : Numbered(added)[i] \in added
  <2>1. added \subseteq 1 .. id
    BY DEF Added, Asks
  <2>2. IsFiniteSet(added)
    <3> HIDE DEF added
    <3>1. IsFiniteSet(1 .. id)
      BY FS_Interval
    <3>2. QED
      BY <2>1, <3>1, FS_Subset
  <2>3. Bijection(1 .. a, added) # {}
    <3> HIDE DEF added
    <3>1. QED
      BY <2>2, FS_CardinalityType DEF ExistsBijection
  <2> HIDE DEF added, a
  <2>4. Numbered(added) \in Bijection(1 .. a, added)
    BY <2>3 DEF Numbered, a
  <2>5. Numbered(added) \in [1 .. a -> added]
    BY <2>4 DEF Bijection, Injection
  <2>6. QED
    BY <2>5
<1>11. \A t \in added : <<k, t>> \in Asks(id)
  BY DEF Added
<1>2. g = [q \in DOMAIN f \cup (Top(f) + 1 .. Top(f) + a) |-> IF q <= Top(f) THEN f[q] ELSE row(q)]
  BY Zenon DEF Applied
<1>3. \A q : row(q).id = id /\ row(q).to = 0 /\ row(q).of = Numbered(added)[q - Top(f)]
  BY DEF Row
<1> HIDE DEF f, g, added, a, row
<1>4. /\ Top(f) \in Nat /\ \A q \in DOMAIN f : q \in Nat /\ q <= Top(f)
  BY TopIs DEF f
<1>5. DOMAIN g = DOMAIN f \cup (Top(f) + 1 .. Top(f) + a)
  BY <1>2
<1>6. /\ \E m \in Nat : DOMAIN g \subseteq 1 .. m
      /\ Top(g) = Top(f) + a
  <2>1. \E m \in Nat : DOMAIN f \subseteq 1 .. m
    BY DEF f
  <2>2. QED
    BY <1>1, <1>5, <2>1, AddsTo
<1>7. \A q \in DOMAIN f : g[q] = f[q]
  BY <1>2, <1>4, <1>5
<1>8. \A q \in DOMAIN g \ DOMAIN f : q > Top(f) /\ q - Top(f) \in 1 .. a /\ g[q] = row(q)
  BY <1>1, <1>2, <1>4, <1>5
<1>12. \A q \in DOMAIN g \ DOMAIN f : <<k, g[q].of>> \in Asks(id)
  BY <1>3, <1>8, <1>10, <1>11
<1>9. QED
  BY <1>1, <1>3, <1>5, <1>6, <1>7, <1>8, <1>12 DEF f, g, added, a
-----------------------------------------------------------------------------
(* Which steps move what.                                                  *)

LEMMA RawSteps ==
  ASSUME Next
  PROVE  \/ raw' = raw \/ HookAppend \/ ReaderOpens \/ Register \/ LogRequest \/ OpenStore
         \/ TakeSwap \/ Quarantine \/ Swap \/ ReconcileAgain \/ ReconcileLogs \/ Curate
         \/ Damage \/ Lose
BY DEF Next, Restoring, Opening, Exporting, Beside, Mishap, store, TakeLock, HandRestore, ReadLogs,
  Clear, Build, Stage, MoveKnowledgeAside, MoveSegmentsAside, OpenKnowledge, Rewind, CheckBackup,
  Consume, StartExport, WriteChecksum, WriteSegment, NextKind, GoOn, Leave, FindsDamage,
  Rot, Removed, Kill, Fail

LEMMA WholeSteps ==
  ASSUME Next
  PROVE  whole' = whole \/ Finish \/ whole' = NoStore \/ Stage
BY DEF Next, Restoring, Opening, Exporting, Beside, Mishap, store, TakeLock, HandRestore, ReadLogs,
  Clear, Build, Stage, MoveKnowledgeAside, MoveSegmentsAside, OpenKnowledge, Rewind, CheckBackup,
  Consume, StartExport, WriteChecksum, WriteSegment, NextKind, GoOn, Leave, FindsDamage,
  Rot, Removed, Kill, Fail, HookAppend, ReaderOpens, Register, LogRequest, OpenStore, TakeSwap,
  Quarantine, Swap, ReconcileAgain, ReconcileLogs, Curate, Damage, Lose

LEMMA SegsSteps ==
  ASSUME Next
  PROVE  segs' = segs \/ (\E found : SetAside(found)) \/ WriteSegment \/ Rot \/ Removed
BY DEF Next, Restoring, Opening, Exporting, Beside, Mishap, backup, TakeLock, HandRestore, ReadLogs,
  Clear, Build, Stage, MoveKnowledgeAside, MoveSegmentsAside, OpenKnowledge, Rewind, CheckBackup,
  Consume, StartExport, WriteChecksum, WriteSegment, NextKind, GoOn, Leave, FindsDamage,
  Kill, Fail, HookAppend, ReaderOpens, Register, LogRequest, OpenStore, TakeSwap,
  Quarantine, Swap, ReconcileAgain, ReconcileLogs, Curate, Damage, Lose

LEMMA ClockSteps ==
  ASSUME Next
  PROVE  /\ clock' = clock \/ clock' = clock + 1
         /\ UNCHANGED <<clock, log>> \/ HookAppend \/ Register \/ Reconcile \/ Curate \/ Stage
BY DEF Next, Restoring, Opening, Exporting, Beside, Mishap, backup, TakeLock, HandRestore, ReadLogs,
  Clear, Build, Stage, MoveKnowledgeAside, MoveSegmentsAside, OpenKnowledge, Rewind, CheckBackup,
  Consume, StartExport, WriteChecksum, WriteSegment, NextKind, GoOn, Leave, FindsDamage,
  Kill, Fail, HookAppend, ReaderOpens, Register, LogRequest, OpenStore, TakeSwap,
  Quarantine, Swap, ReconcileAgain, ReconcileLogs, Curate, Damage, Lose, Rot, Removed, Reconcile
-----------------------------------------------------------------------------
(* Stores.                                                                 *)

LEMMA StoreLater ==
  ASSUME NEW n \in Nat, NEW m \in Nat, n <= m
  PROVE  /\ \A k, f : Numbering(k, f, n) => Numbering(k, f, m)
         /\ \A db : Store(db, n) => Store(db, m)
         /\ \A s : Segment(s, n) => Segment(s, m)
         /\ \A k, row : RowOf(k, row, n) => RowOf(k, row, m)
         /\ Asks(n) \subseteq Asks(m)
<1>1. Asks(n) \subseteq Asks(m)
  BY DEF Asks
<1>4. \A k, row : RowOf(k, row, n) => RowOf(k, row, m)
  BY <1>1 DEF RowOf
<1>2. \A k, f : Numbering(k, f, n) => Numbering(k, f, m)
  BY <1>4 DEF Numbering
<1>3. \A s : Segment(s, n) => Segment(s, m)
  BY <1>4 DEF Segment
<1>5. QED
  BY <1>1, <1>2, <1>3, <1>4 DEF Store

LEMMA Emptied ==
  ASSUME NEW n \in Nat
  PROVE  /\ Store(NoStore, n) /\ NoStore.st = "none" /\ DOMAIN NoStore.jobs = {}
         /\ Store(Fresh, n) /\ Fresh.st = "ok" /\ DOMAIN Fresh.jobs = {}
         /\ NoStore.synced = 0 /\ Fresh.synced = 0
         /\ \A k \in Kinds : /\ DOMAIN NoStore.rows[k] = {} /\ DOMAIN Fresh.rows[k] = {}
                             /\ Top(NoStore.rows[k]) = 0 /\ Top(Fresh.rows[k]) = 0
<1>1. DOMAIN NoRows = Kinds /\ \A k \in Kinds : DOMAIN NoRows[k] = {}
  BY DEF NoRows
<1>2. \A k \in Kinds : Numbering(k, NoRows[k], n) /\ Top(NoRows[k]) = 0
  <2>1. ASSUME NEW k \in Kinds PROVE \E m \in Nat : DOMAIN NoRows[k] \subseteq 1 .. m
    BY <1>1
  <2>2. ASSUME NEW k \in Kinds PROVE Top(NoRows[k]) = 0
    BY <1>1, <2>1, TopIs
  <2>3. QED
    BY <1>1, <2>1, <2>2 DEF Numbering
<1>3. /\ DOMAIN NoStore = Fields /\ NoStore.st = "none" /\ NoStore.rows = NoRows
      /\ DOMAIN NoStore.jobs = {} /\ NoStore.synced = 0
  BY DEF NoStore, Fields
<1>4. /\ DOMAIN Fresh = Fields /\ Fresh.st = "ok" /\ Fresh.rows = NoRows
      /\ DOMAIN Fresh.jobs = {} /\ Fresh.synced = 0
  BY <1>3 DEF Fresh, Fields
<1>5. QED
  BY <1>1, <1>2, <1>3, <1>4 DEF Store

\* A kind's rows that grew, and a store's: rows of one commit came after the last, and no
\* row moved.
Longer(f, g, id) == \E a \in Nat :
  /\ DOMAIN g = DOMAIN f \cup (Top(f) + 1 .. Top(f) + a)
  /\ \A q \in DOMAIN f : g[q] = f[q]
  /\ \A q \in DOMAIN g \ DOMAIN f : g[q].id = id
Grew(db, ds, id) ==
  ds.st = db.st /\ ds.synced = db.synced /\ \A k \in Kinds : Longer(db.rows[k], ds.rows[k], id)

LEMMA LongerIs ==
  ASSUME NEW f, NEW g, NEW id, \E m \in Nat : DOMAIN f \subseteq 1 .. m, Longer(f, g, id)
  PROVE  /\ Top(f) \in Nat /\ Top(g) \in Nat /\ Top(f) <= Top(g)
         /\ \E m \in Nat : DOMAIN g \subseteq 1 .. m
         /\ \A q \in DOMAIN f : q \in DOMAIN g /\ g[q] = f[q]
         /\ \A q \in DOMAIN g : q \in Nat /\ q > 0 /\ q <= Top(g)
         /\ \A q \in DOMAIN g \ DOMAIN f : q > Top(f) /\ g[q].id = id
         /\ \A q \in Top(f) + 1 .. Top(g) : q \in DOMAIN g
         /\ \A q \in DOMAIN g : q <= Top(f) => q \in DOMAIN f
<1>2. PICK a \in Nat : /\ DOMAIN g = DOMAIN f \cup (Top(f) + 1 .. Top(f) + a)
                       /\ \A q \in DOMAIN f : g[q] = f[q]
                       /\ \A q \in DOMAIN g \ DOMAIN f : g[q].id = id
  BY DEF Longer
<1>3. /\ \E m \in Nat : DOMAIN g \subseteq 1 .. m
      /\ Top(g) = Top(f) + a
  BY <1>2, AddsTo
<1>4. Top(f) \in Nat /\ \A q \in DOMAIN f : q \in Nat /\ q <= Top(f)
  BY TopIs
<1>5. \A q \in DOMAIN g : q \in Nat /\ q > 0 /\ q <= Top(g)
  BY <1>3, TopIs
<1>6. QED
  BY <1>2, <1>3, <1>4, <1>5

\* Rows that grew twice in one commit grew once.
LEMMA LongerTwice ==
  ASSUME NEW f, NEW g, NEW h, NEW id, \E m \in Nat : DOMAIN f \subseteq 1 .. m,
         Longer(f, g, id), Longer(g, h, id)
  PROVE  Longer(f, h, id)
<1>1. PICK a \in Nat : /\ DOMAIN g = DOMAIN f \cup (Top(f) + 1 .. Top(f) + a)
                       /\ \A q \in DOMAIN f : g[q] = f[q]
                       /\ \A q \in DOMAIN g \ DOMAIN f : g[q].id = id
  BY DEF Longer
<1>2. PICK b \in Nat : /\ DOMAIN h = DOMAIN g \cup (Top(g) + 1 .. Top(g) + b)
                       /\ \A q \in DOMAIN g : h[q] = g[q]
                       /\ \A q \in DOMAIN h \ DOMAIN g : h[q].id = id
  BY DEF Longer
<1>3. Top(f) \in Nat /\ Top(g) = Top(f) + a
  BY <1>1, AddsTo, TopIs
<1>4. /\ a + b \in Nat
      /\ DOMAIN h = DOMAIN f \cup (Top(f) + 1 .. Top(f) + (a + b))
  BY <1>1, <1>2, <1>3
<1>5. \A q \in DOMAIN f : h[q] = f[q]
  BY <1>1, <1>2
<1>6. \A q \in DOMAIN h \ DOMAIN f : h[q].id = id
  BY <1>1, <1>2
<1>7. QED
  BY <1>4, <1>5, <1>6 DEF Longer

\* One row appended.
LEMMA AppendGrows ==
  ASSUME NEW n \in Nat, NEW db, Store(db, n), NEW kind \in Kinds, NEW row, RowOf(kind, row, n + 1), row.id = n + 1
  PROVE  /\ Store(Append(db, kind, row), n + 1) /\ Grew(db, Append(db, kind, row), n + 1)
         /\ Append(db, kind, row).jobs = db.jobs
         /\ \A k \in Kinds \ {kind} : Append(db, kind, row).rows[k] = db.rows[k]
         /\ Top(Append(db, kind, row).rows[kind]) = Top(db.rows[kind]) + 1
         /\ Append(db, kind, row).rows[kind][Top(db.rows[kind]) + 1] = row
<1> DEFINE f == db.rows[kind]
           g == [q \in DOMAIN f \cup {Top(f) + 1} |-> IF q > Top(f) THEN row ELSE f[q]]
           ds == Append(db, kind, row)
<1>1. ds = [db EXCEPT !.rows = [db.rows EXCEPT ![kind] = g]]
  BY DEF Append
<1>2. /\ DOMAIN ds = Fields /\ ds.st = db.st /\ ds.jobs = db.jobs /\ ds.synced = db.synced
      /\ ds.rows = [db.rows EXCEPT ![kind] = g]
  <2> HIDE DEF g
  <2>1. QED
    BY <1>1 DEF Store, Fields
<1>3. DOMAIN ds.rows = Kinds /\ ds.rows[kind] = g /\ \A k \in Kinds \ {kind} : ds.rows[k] = db.rows[k]
  <2> HIDE DEF g
  <2>1. QED
    BY <1>2 DEF Store
<1>4. Numbering(kind, f, n) /\ \E m \in Nat : DOMAIN f \subseteq 1 .. m
  BY DEF Store, Numbering
<1>5. Top(f) \in Nat /\ \A q \in DOMAIN f : q \in Nat /\ q <= Top(f)
  BY <1>4, TopIs
<1>6. DOMAIN g = DOMAIN f \cup (Top(f) + 1 .. Top(f) + 1)
  BY <1>5
<1>7. /\ g[Top(f) + 1] = row /\ \A q \in DOMAIN f : g[q] = f[q]
      /\ \A q \in DOMAIN g \ DOMAIN f : q = Top(f) + 1
  BY <1>5
<1> HIDE DEF g, f, ds
<1>8. (\E m \in Nat : DOMAIN g \subseteq 1 .. m) /\ Top(g) = Top(f) + 1
  BY <1>4, <1>6, AddsTo
<1>9. Numbering(kind, g, n + 1)
  BY <1>4, <1>7, <1>8, StoreLater DEF Numbering
<1>10. Store(ds, n + 1)
  <2>1. \A k \in Kinds : Numbering(k, ds.rows[k], n + 1)
    BY <1>3, <1>9, StoreLater DEF Store
  <2>2. Store(db, n + 1)
    BY StoreLater
  <2>3. QED
    BY <1>2, <1>3, <2>1, <2>2 DEF Store
<1>11. Grew(db, ds, n + 1)
  <2>1. Longer(f, g, n + 1)
    BY <1>6, <1>7 DEF Longer
  <2>2. ASSUME NEW k \in Kinds, k # kind PROVE Longer(db.rows[k], ds.rows[k], n + 1)
    <3>1. Top(db.rows[k]) \in Nat
      BY TopIs DEF Store, Numbering
    <3>2. DOMAIN db.rows[k] = DOMAIN db.rows[k] \cup (Top(db.rows[k]) + 1 .. Top(db.rows[k]) + 0)
      BY <3>1
    <3>3. QED
      BY <1>3, <2>2, <3>2 DEF Longer
  <2>3. QED
    BY <1>2, <1>3, <2>1, <2>2 DEF Grew, f
<1>12. QED
  BY <1>2, <1>3, <1>7, <1>8, <1>10, <1>11 DEF ds, f

\* What is added at once for requests.
LEMMA AppliedGrows ==
  ASSUME NEW id \in Nat, id > 0, NEW rows, NEW requests, requests \subseteq Asks(id),
         NEW k \in Kinds, Numbering(k, rows[k], id)
  PROVE  LET g == Applied(rows, requests, id)[k]
         IN  /\ Longer(rows[k], g, id) /\ Numbering(k, g, id)
             /\ \A q \in DOMAIN g \ DOMAIN rows[k] : g[q].to = 0
             /\ (\A r \in requests : r[1] # k) => DOMAIN g = DOMAIN rows[k]
<1> DEFINE f == rows[k]
           g == Applied(rows, requests, id)[k]
           a == Cardinality(Added(rows, requests, k))
<1>1. \E m \in Nat : DOMAIN f \subseteq 1 .. m
  BY DEF Numbering
<1>2. /\ a \in Nat
      /\ DOMAIN g = DOMAIN f \cup (Top(f) + 1 .. Top(f) + a)
      /\ \E m \in Nat : DOMAIN g \subseteq 1 .. m
      /\ \A q \in DOMAIN f : g[q] = f[q]
      /\ \A q \in DOMAIN g \ DOMAIN f : g[q].id = id /\ g[q].to = 0 /\ <<k, g[q].of>> \in Asks(id)
  <2>1. /\ a \in Nat
        /\ DOMAIN g = DOMAIN f \cup (Top(f) + 1 .. Top(f) + a)
        /\ \E m \in Nat : DOMAIN g \subseteq 1 .. m
        /\ Top(g) = Top(f) + a
        /\ \A q \in DOMAIN f : g[q] = f[q]
        /\ \A q \in DOMAIN g \ DOMAIN f : q > Top(f) /\ g[q].id = id /\ g[q].to = 0 /\ <<k, g[q].of>> \in Asks(id)
    BY <1>1, AppliedAdds, Zenon
  <2> HIDE DEF f, g, a
  <2>2. QED
    BY <2>1
<1>3. ASSUME \A r \in requests : r[1] # k
      PROVE  DOMAIN g = DOMAIN f
  <2>1. Added(rows, requests, k) = {}
    BY <1>3 DEF Added
  <2>2. a = 0
    BY <2>1, FS_EmptySet
  <2>3. Top(f) \in Nat
    BY <1>1, TopIs
  <2> HIDE DEF g, f, a
  <2>4. QED
    BY <1>2, <2>2, <2>3
<1> HIDE DEF f, g, a
<1>4. Longer(f, g, id)
  BY <1>2 DEF Longer
<1>5. Numbering(k, g, id)
  BY <1>2 DEF Numbering, RowOf, f
<1>6. QED
  BY <1>2, <1>3, <1>4, <1>5 DEF f, g

\* Requests applied.
LEMMA ApplyGrows ==
  ASSUME NEW id \in Nat, id > 0, NEW db, Store(db, id), NEW requests, requests \subseteq Asks(id)
  PROVE  LET ds == ApplyAll(db, requests, id)
         IN  /\ Store(ds, id) /\ Grew(db, ds, id)
             /\ DOMAIN ds.jobs = DOMAIN db.jobs \cup requests
             /\ ds.rows = Applied(db.rows, requests, id)
             /\ \A k \in Kinds : \A q \in DOMAIN ds.rows[k] \ DOMAIN db.rows[k] : ds.rows[k][q].to = 0
             /\ "ops" \notin Forgettable => DOMAIN ds.rows["ops"] = DOMAIN db.rows["ops"]
<1> DEFINE rows == Applied(db.rows, requests, id)
           ds == ApplyAll(db, requests, id)
           jobs == [r \in DOMAIN db.jobs \cup requests |-> IF r \in DOMAIN db.jobs THEN db.jobs[r] ELSE id]
<1>1. ds = [db EXCEPT !.rows = rows, !.jobs = jobs]
  BY DEF ApplyAll
<1>2. DOMAIN rows = Kinds
  BY DEF Applied
<1>3. /\ DOMAIN ds = Fields /\ ds.st = db.st /\ ds.synced = db.synced /\ ds.rows = rows
      /\ DOMAIN ds.jobs = DOMAIN db.jobs \cup requests
  <2> HIDE DEF rows, ds
  <2>1. QED
    BY <1>1 DEF Store, Fields
<1>4. requests \subseteq Asks(id)
  BY RecoveryAssumption DEF Asks
<1>5. ASSUME NEW k \in Kinds
      PROVE  /\ Longer(db.rows[k], rows[k], id) /\ Numbering(k, rows[k], id)
             /\ \A q \in DOMAIN rows[k] \ DOMAIN db.rows[k] : rows[k][q].to = 0
             /\ (\A r \in requests : r[1] # k) => DOMAIN rows[k] = DOMAIN db.rows[k]
  <2>1. Numbering(k, db.rows[k], id)
    BY DEF Store
  <2> DEFINE old == db.rows
  <2> HIDE DEF old
  <2>2. /\ Longer(old[k], Applied(old, requests, id)[k], id)
        /\ Numbering(k, Applied(old, requests, id)[k], id)
        /\ \A q \in DOMAIN Applied(old, requests, id)[k] \ DOMAIN old[k] : Applied(old, requests, id)[k][q].to = 0
        /\ (\A r \in requests : r[1] # k) => DOMAIN Applied(old, requests, id)[k] = DOMAIN old[k]
    <3>1. Numbering(k, old[k], id)
      BY <2>1 DEF old
    <3>2. QED
      BY <1>4, <3>1, AppliedGrows
  <2>3. QED
    BY <2>2 DEF old
<1> HIDE DEF rows, ds
<1>6. Store(ds, id)
  BY <1>2, <1>3, <1>5, StoreLater DEF Store
<1>7. Grew(db, ds, id)
  BY <1>3, <1>5 DEF Grew
<1>8. "ops" \notin Forgettable => \A r \in requests : r[1] # "ops"
  BY DEF Asks
<1>9. QED
  BY <1>3, <1>5, <1>6, <1>7, <1>8, KindsAre DEF ds, rows
-----------------------------------------------------------------------------
(* What a restore builds.                                                  *)

LEMMA MergedIs ==
  ASSUME DataOK, NEW k \in Kinds
  PROVE  /\ DOMAIN Merged = Kinds /\ Numbering(k, Merged[k], clock)
         /\ DOMAIN Merged[k] = UNION {DOMAIN s.rows : s \in Good(k)}
         /\ \A q \in DOMAIN Merged[k] : \E s \in Good(k) : q \in DOMAIN s.rows /\ Merged[k][q] = s.rows[q]
         /\ Good(k) \subseteq Of(k)
<1> DEFINE f == [q \in UNION {DOMAIN s.rows : s \in Good(k)} |->
                   (CHOOSE s \in Good(k) : q \in DOMAIN s.rows).rows[q]]
<1>1. DOMAIN Merged = Kinds /\ Merged[k] = f
  BY DEF Merged
<1>2. Good(k) \subseteq Of(k) /\ Good(k) \subseteq segs
  BY KindsAre DEF Good, GoodRecords, GoodOps, Of
<1>3. DOMAIN f = UNION {DOMAIN s.rows : s \in Good(k)}
  OBVIOUS
<1>4. \A q \in DOMAIN f : \E s \in Good(k) : q \in DOMAIN s.rows /\ f[q] = s.rows[q]
  <2>1. ASSUME NEW q \in DOMAIN f
        PROVE  \E s \in Good(k) : q \in DOMAIN s.rows /\ f[q] = s.rows[q]
    <3>1. \E s \in Good(k) : q \in DOMAIN s.rows
      OBVIOUS
    <3> DEFINE t == CHOOSE s \in Good(k) : q \in DOMAIN s.rows
    <3>2. t \in Good(k) /\ q \in DOMAIN t.rows
      BY <3>1
    <3>3. f[q] = t.rows[q]
      OBVIOUS
    <3>4. QED
      BY <3>2, <3>3
  <2>2. QED
    BY <2>1
<1> HIDE DEF f
<1>5. Numbering(k, f, clock)
  <2>1. PICK m \in Nat : \A s \in segs : s.last <= m
    BY DEF DataOK
  <2>2. DOMAIN f \subseteq 1 .. m
    BY <1>2, <1>3, <2>1 DEF DataOK, Segment
  <2>3. \A q \in DOMAIN f : RowOf(k, f[q], clock)
    BY <1>2, <1>4 DEF DataOK, Segment, Of
  <2>4. QED
    BY <2>1, <2>2, <2>3 DEF Numbering
<1>6. QED
  BY <1>1, <1>2, <1>3, <1>4, <1>5

\* The cut keeps the ops before the first that read past the records.
LEMMA CutIs ==
  ASSUME NEW rows, DOMAIN rows = Kinds, NEW n \in Nat, \A k \in Kinds : Numbering(k, rows[k], n)
  PROVE  LET cut == Cut(rows) IN
         /\ DOMAIN cut = Kinds /\ cut["records"] = rows["records"]
         /\ \A k \in Kinds : Numbering(k, cut[k], n)
         /\ DOMAIN cut["ops"] \subseteq DOMAIN rows["ops"]
         /\ \A o \in DOMAIN cut["ops"] : /\ cut["ops"][o] = rows["ops"][o]
                                         /\ cut["ops"][o].to <= Top(rows["records"])
                                         /\ \A p \in DOMAIN rows["ops"] : p <= o => p \in DOMAIN cut["ops"]
<1> DEFINE ops == rows["ops"]
           past == {o \in DOMAIN ops : ops[o].to > Top(rows["records"])} \cup {Top(ops) + 1}
           from == Min(past)
           g == [o \in {o \in DOMAIN ops : o < from} |-> ops[o]]
           cut == [rows EXCEPT !["ops"] = g]
<1>1. Cut(rows) = cut
  BY DEF Cut, Restrict
<1>2. DOMAIN cut = Kinds /\ cut["ops"] = g /\ cut["records"] = rows["records"]
  BY KindsAre
<1>3. /\ Top(ops) \in Nat /\ Top(rows["records"]) \in Nat
      /\ \A o \in DOMAIN ops : o \in Nat /\ o <= Top(ops)
  BY KindsAre, TopIs DEF Numbering
<1>4. past \in SUBSET Nat /\ past # {}
  BY <1>3
<1>5. from \in Nat /\ \A o \in past : from <= o
  <2> HIDE DEF past
  <2>1. QED
    BY <1>4, Least
<1>6. \A o \in DOMAIN ops : ops[o].to \in Nat
  BY KindsAre DEF Numbering, RowOf
<1>7. \A o \in DOMAIN ops : o < from => ops[o].to <= Top(rows["records"])
  <2>1. ASSUME NEW o \in DOMAIN ops, o < from, ~(ops[o].to <= Top(rows["records"]))
        PROVE  FALSE
    <3>1. ops[o].to > Top(rows["records"])
      BY <1>3, <1>6, <2>1
    <3>2. o \in past
      BY <3>1
    <3> HIDE DEF ops, past, from
    <3>3. from <= o /\ o \in Nat
      BY <1>3, <1>5, <2>1, <3>2
    <3>4. QED
      BY <1>5, <2>1, <3>3
  <2> HIDE DEF ops, past, from
  <2>2. QED
    BY <2>1
<1> HIDE DEF from, past
<1>8. DOMAIN g = {o \in DOMAIN ops : o < from} /\ \A o \in DOMAIN g : g[o] = ops[o]
  OBVIOUS
<1> HIDE DEF g
<1>9. Numbering("ops", g, n)
  BY <1>8, KindsAre DEF Numbering
<1> HIDE DEF cut
<1>10. \A k \in Kinds : Numbering(k, cut[k], n)
  BY <1>2, <1>9, KindsAre
<1>11. \A o \in DOMAIN g : \A p \in DOMAIN ops : p <= o => p \in DOMAIN g
  BY <1>3, <1>5, <1>8
<1>12. QED
  BY <1>1, <1>2, <1>7, <1>8, <1>10, <1>11

LEMMA RebuiltIs ==
  ASSUME TypesOK
  PROVE  /\ Store(Rebuilt, clock + 1) /\ Rebuilt.st = "ok" /\ Rebuilt.synced = clock + 1
         /\ DOMAIN Rebuilt.jobs = run.held \cup run.logged
         /\ \A k \in Kinds : Longer(Cut(Merged)[k], Rebuilt.rows[k], clock + 1)
         /\ \A k \in Kinds : \A q \in DOMAIN Rebuilt.rows[k] \ DOMAIN Cut(Merged)[k] : Rebuilt.rows[k][q].to = 0
         /\ "ops" \notin Forgettable => DOMAIN Rebuilt.rows["ops"] = DOMAIN Cut(Merged)["ops"]
<1> DEFINE again == {<<"ops", uid>> : uid \in Named(Merged, "ops")}
           cut == Cut(Merged)
           rows == Applied(cut, again, clock + 1)
           carried == [Fresh EXCEPT !.rows = rows]
           asked == run.held \cup run.logged
           denying == ApplyAll(carried, asked, clock + 1)
<1>1. Rebuilt = [denying EXCEPT !.synced = clock + 1]
  BY DEF Rebuilt
<1>2. DOMAIN Merged = Kinds /\ \A k \in Kinds : Numbering(k, Merged[k], clock)
  BY MergedIs, KindsAre DEF TypesOK
<1>3. clock \in Nat /\ clock + 1 \in Nat /\ asked \subseteq Asks(clock + 1)
  BY StoreLater DEF TypesOK, DataOK, RunOK
<1>4. \A k \in Kinds : Numbering(k, cut[k], clock + 1)
  <2>1. \A k \in Kinds : Numbering(k, Merged[k], clock + 1)
    BY <1>2, <1>3, StoreLater
  <2> DEFINE merged == Merged
  <2> HIDE DEF merged
  <2>2. DOMAIN merged = Kinds /\ \A k \in Kinds : Numbering(k, merged[k], clock + 1)
    BY <1>2, <2>1 DEF merged
  <2>3. \A k \in Kinds : Numbering(k, Cut(merged)[k], clock + 1)
    BY <1>3, <2>2, CutIs, Zenon
  <2>4. QED
    BY <2>3 DEF merged
<1>5. again \subseteq Asks(clock + 1)
  <2>1. Numbering("ops", Merged["ops"], clock + 1)
    BY <1>2, <1>3, KindsAre, StoreLater
  <2>2. QED
    BY <2>1 DEF Numbering, RowOf, Named
<1> HIDE DEF again, cut
<1>6. \A k \in Kinds : /\ Longer(cut[k], rows[k], clock + 1) /\ Numbering(k, rows[k], clock + 1)
                       /\ \A q \in DOMAIN rows[k] \ DOMAIN cut[k] : rows[k][q].to = 0
  <2>1. ASSUME NEW k \in Kinds
        PROVE  /\ Longer(cut[k], Applied(cut, again, clock + 1)[k], clock + 1)
               /\ Numbering(k, Applied(cut, again, clock + 1)[k], clock + 1)
               /\ \A q \in DOMAIN Applied(cut, again, clock + 1)[k] \ DOMAIN cut[k] :
                    Applied(cut, again, clock + 1)[k][q].to = 0
    <3>1. Numbering(k, cut[k], clock + 1)
      BY <1>4
    <3>2. clock + 1 > 0
      BY <1>3
    <3> DEFINE id == clock + 1
    <3> HIDE DEF id
    <3>3. /\ Longer(cut[k], Applied(cut, again, id)[k], id)
          /\ Numbering(k, Applied(cut, again, id)[k], id)
          /\ \A q \in DOMAIN Applied(cut, again, id)[k] \ DOMAIN cut[k] : Applied(cut, again, id)[k][q].to = 0
      <4>1. id \in Nat
        BY <1>3 DEF id
      <4>2. id > 0
        BY <3>2 DEF id
      <4>3. again \subseteq Asks(id)
        BY <1>5 DEF id
      <4>4. Numbering(k, cut[k], id)
        BY <3>1 DEF id
      <4>5. QED
        BY <4>1, <4>2, <4>3, <4>4, AppliedGrows
    <3>4. QED
      BY <3>3 DEF id
  <2>2. QED
    BY <2>1
<1>15. "ops" \notin Forgettable => DOMAIN rows["ops"] = DOMAIN cut["ops"]
  <2>1. ASSUME "ops" \notin Forgettable
        PROVE  DOMAIN Applied(cut, again, clock + 1)["ops"] = DOMAIN cut["ops"]
    <3>1. \A r \in again : r[1] # "ops"
      BY <1>5, <2>1 DEF Asks
    <3> DEFINE id == clock + 1
    <3> HIDE DEF id
    <3>2. id \in Nat /\ id > 0 /\ again \subseteq Asks(id) /\ Numbering("ops", cut["ops"], id)
      BY <1>3, <1>4, <1>5, KindsAre DEF id
    <3>3. DOMAIN Applied(cut, again, id)["ops"] = DOMAIN cut["ops"]
      BY <3>1, <3>2, AppliedGrows, KindsAre
    <3>4. QED
      BY <3>3 DEF id
  <2>2. QED
    BY <2>1
<1>7. DOMAIN rows = Kinds
  BY DEF Applied
<1> HIDE DEF rows
<1>8. /\ Store(carried, clock + 1) /\ carried.st = "ok" /\ carried.rows = rows
  <2>1. /\ DOMAIN carried = Fields /\ carried.st = "ok" /\ carried.rows = rows /\ carried.synced = 0
        /\ DOMAIN carried.jobs = {}
    BY <1>3, Emptied DEF Store, Fields
  <2>2. QED
    BY <1>3, <1>6, <1>7, <2>1 DEF Store
<1>9. carried.jobs = Fresh.jobs
  BY <1>3, Emptied DEF Store, Fields
<1> HIDE DEF carried, asked
<1>10. /\ Store(denying, clock + 1) /\ Grew(carried, denying, clock + 1)
       /\ DOMAIN denying.jobs = asked
       /\ \A k \in Kinds : \A q \in DOMAIN denying.rows[k] \ DOMAIN carried.rows[k] : denying.rows[k][q].to = 0
       /\ "ops" \notin Forgettable => DOMAIN denying.rows["ops"] = DOMAIN carried.rows["ops"]
  <2> DEFINE id == clock + 1
  <2> HIDE DEF id, denying
  <2>1. id \in Nat /\ id > 0 /\ Store(carried, id) /\ asked \subseteq Asks(id) /\ denying = ApplyAll(carried, asked, id)
    BY <1>3, <1>8 DEF id, denying
  <2>2. /\ Store(ApplyAll(carried, asked, id), id) /\ Grew(carried, ApplyAll(carried, asked, id), id)
        /\ DOMAIN ApplyAll(carried, asked, id).jobs = DOMAIN carried.jobs \cup asked
        /\ ApplyAll(carried, asked, id).rows = Applied(carried.rows, asked, id)
        /\ \A k \in Kinds : \A q \in DOMAIN ApplyAll(carried, asked, id).rows[k] \ DOMAIN carried.rows[k] :
             ApplyAll(carried, asked, id).rows[k][q].to = 0
        /\ "ops" \notin Forgettable => DOMAIN ApplyAll(carried, asked, id).rows["ops"] = DOMAIN carried.rows["ops"]
    BY <2>1, ApplyGrows
  <2>3. DOMAIN carried.jobs = {}
    BY <1>3, <1>9, Emptied
  <2>4. QED
    BY <2>1, <2>2, <2>3 DEF id
<1> HIDE DEF denying
<1>11. /\ DOMAIN Rebuilt = Fields /\ Rebuilt.rows = denying.rows /\ Rebuilt.jobs = denying.jobs
       /\ Rebuilt.st = denying.st /\ Rebuilt.synced = clock + 1
  BY <1>1, <1>10 DEF Store, Fields
<1>12. Store(Rebuilt, clock + 1) /\ Rebuilt.st = "ok"
  BY <1>3, <1>8, <1>10, <1>11 DEF Store, Grew
<1>13. ASSUME NEW k \in Kinds
       PROVE  /\ Longer(cut[k], Rebuilt.rows[k], clock + 1)
              /\ \A q \in DOMAIN Rebuilt.rows[k] \ DOMAIN cut[k] : Rebuilt.rows[k][q].to = 0
  <2>1. Longer(cut[k], rows[k], clock + 1) /\ Longer(rows[k], Rebuilt.rows[k], clock + 1)
    BY <1>6, <1>8, <1>10, <1>11 DEF Grew
  <2>2. \E m \in Nat : DOMAIN cut[k] \subseteq 1 .. m
    BY <1>4 DEF Numbering
  <2>3. \E m \in Nat : DOMAIN rows[k] \subseteq 1 .. m
    BY <1>6 DEF Numbering
  <2>4. Longer(cut[k], Rebuilt.rows[k], clock + 1)
    BY <2>1, <2>2, LongerTwice
  <2>5. \A q \in DOMAIN rows[k] : Rebuilt.rows[k][q] = rows[k][q]
    BY <2>1, <2>3, LongerIs
  <2>6. \A q \in DOMAIN Rebuilt.rows[k] \ DOMAIN rows[k] : Rebuilt.rows[k][q].to = 0
    BY <1>8, <1>10, <1>11
  <2>7. QED
    BY <1>6, <2>4, <2>5, <2>6
<1>16. "ops" \notin Forgettable => DOMAIN Rebuilt.rows["ops"] = DOMAIN cut["ops"]
  BY <1>8, <1>10, <1>11, <1>15
<1>14. QED
  BY <1>10, <1>11, <1>12, <1>13, <1>16 DEF cut, asked
-----------------------------------------------------------------------------
(* The types.                                                              *)

LEMMA LiveIs ==
  ASSUME DataOK
  PROVE  /\ Store(Live, clock)
         /\ \/ Waiting /\ Live = whole /\ Live.st # "none"
            \/ Missing /\ Live = Fresh /\ Live.st # "none"
            \/ raw.st # "none" /\ ~Waiting /\ ~Missing /\ Live = raw
<1>1. clock \in Nat
  BY DEF DataOK
<1>2. Store(Fresh, clock) /\ Fresh.st = "ok"
  BY <1>1, Emptied
<1>3. QED
  BY <1>2 DEF DataOK, Live, Waiting, Missing

LEMMA ReconcileIs ==
  ASSUME DataOK, Reconcile
  PROVE  /\ Store(raw', clock') /\ Grew(raw, raw', clock')
         /\ clock' \in {clock, clock + 1}
         /\ DOMAIN raw'.jobs = DOMAIN raw.jobs \cup log
         /\ log' = log \cup DOMAIN raw.jobs /\ log' \subseteq Asks(clock')
         /\ \A k \in Kinds : \A q \in DOMAIN raw'.rows[k] \ DOMAIN raw.rows[k] : raw'.rows[k][q].to = 0
         /\ "ops" \notin Forgettable => DOMAIN raw'.rows["ops"] = DOMAIN raw.rows["ops"]
<1> DEFINE requests == log \ DOMAIN raw.jobs
           id == clock + 1
           ds == ApplyAll(raw, requests, id)
<1>1. clock \in Nat /\ id \in Nat /\ id > 0 /\ Asks(clock) \subseteq Asks(id)
  BY StoreLater DEF DataOK
<1>2. /\ raw' = ds /\ log' = log \cup DOMAIN raw.jobs
      /\ clock' = IF log \subseteq DOMAIN raw.jobs THEN clock ELSE id
  BY DEF Reconcile
<1>3. Store(raw, id) /\ requests \subseteq Asks(id)
  BY <1>1, StoreLater DEF DataOK
<1> HIDE DEF id, requests
<1>4. /\ Store(ds, id) /\ Grew(raw, ds, id)
      /\ DOMAIN ds.jobs = DOMAIN raw.jobs \cup requests
      /\ ds.rows = Applied(raw.rows, requests, id)
      /\ \A k \in Kinds : \A q \in DOMAIN ds.rows[k] \ DOMAIN raw.rows[k] : ds.rows[k][q].to = 0
      /\ "ops" \notin Forgettable => DOMAIN ds.rows["ops"] = DOMAIN raw.rows["ops"]
  BY <1>1, <1>3, ApplyGrows
<1>5. CASE clock' = id
  <2>1. log' \subseteq Asks(id)
    BY <1>1, <1>2 DEF DataOK, Store
  <2> HIDE DEF ds
  <2>2. QED
    BY <1>2, <1>4, <1>5, <2>1 DEF id, requests
<1>6. CASE clock' = clock /\ log \subseteq DOMAIN raw.jobs
  <2>1. requests = {}
    BY <1>6 DEF requests
  <2>2. \A k \in Kinds : DOMAIN ds.rows[k] = DOMAIN raw.rows[k]
    <3>1. ASSUME NEW k \in Kinds PROVE DOMAIN Applied(raw.rows, requests, id)[k] = DOMAIN raw.rows[k]
      <4> DEFINE old == raw.rows
      <4>1. Numbering(k, old[k], id)
        BY <1>3 DEF Store
      <4> HIDE DEF old
      <4>2. QED
        <5>1. DOMAIN Applied(old, requests, id)[k] = DOMAIN old[k]
          BY <1>1, <1>3, <2>1, <4>1, AppliedGrows
        <5>2. QED
          BY <5>1 DEF old
    <3> HIDE DEF ds
    <3>2. QED
      BY <1>4, <3>1
  <2> HIDE DEF ds
  <2>3. ASSUME NEW k \in Kinds
        PROVE  Longer(raw.rows[k], ds.rows[k], clock) /\ Numbering(k, ds.rows[k], clock)
    <3>1. Numbering(k, raw.rows[k], clock)
      BY DEF DataOK, Store
    <3>2. Top(raw.rows[k]) \in Nat /\ \E m \in Nat : DOMAIN raw.rows[k] \subseteq 1 .. m
      BY <3>1, TopIs DEF Numbering
    <3>3. \A q \in DOMAIN raw.rows[k] : ds.rows[k][q] = raw.rows[k][q]
      BY <1>4, <3>2, LongerIs DEF Grew
    <3>4. DOMAIN ds.rows[k] = DOMAIN raw.rows[k] \cup (Top(raw.rows[k]) + 1 .. Top(raw.rows[k]) + 0)
      BY <2>2, <3>2
    <3>5. QED
      BY <2>2, <3>1, <3>3, <3>4 DEF Longer, Numbering
  <2>4. Store(ds, clock)
    <3>1. DOMAIN ds.jobs \subseteq Asks(clock)
      BY <1>4, <2>1 DEF DataOK, Store
    <3>2. ds.synced = raw.synced
      BY <1>4 DEF Grew
    <3>3. QED
      BY <1>4, <2>3, <3>1, <3>2 DEF Store, DataOK
  <2>5. Grew(raw, ds, clock)
    BY <1>4, <2>3 DEF Grew
  <2>6. log' \subseteq Asks(clock)
    BY <1>2 DEF DataOK, Store
  <2>7. QED
    BY <1>2, <1>4, <1>6, <2>1, <2>4, <2>5, <2>6
<1>7. QED
  BY <1>2, <1>5, <1>6

\* The appends, a forget's and a reconcile's rows: what each adds, and to which store.
LEMMA HookAppendIs ==
  ASSUME DataOK, HookAppend
  PROVE  /\ Store(raw', clock') /\ Grew(Live, raw', clock') /\ Live.st = "ok" /\ raw'.st = "ok"
         /\ clock' = clock + 1 /\ log' = log /\ raw'.jobs = Live.jobs
         /\ raw'.rows["ops"] = Live.rows["ops"]
         /\ Top(raw'.rows["records"]) = Top(Live.rows["records"]) + 1
<1> DEFINE row == Row(clock + 1)
<1>1. clock \in Nat /\ Store(Live, clock)
  BY LiveIs DEF DataOK
<1>2. RowOf("records", row, clock + 1) /\ row.id = clock + 1
  BY <1>1 DEF RowOf, Row
<1>3. raw' = Append(Live, "records", row) /\ clock' = clock + 1 /\ log' = log /\ Live.st = "ok"
  BY DEF HookAppend
<1> HIDE DEF row
<1>4. /\ Store(Append(Live, "records", row), clock + 1) /\ Grew(Live, Append(Live, "records", row), clock + 1)
      /\ Append(Live, "records", row).jobs = Live.jobs
      /\ \A k \in Kinds \ {"records"} : Append(Live, "records", row).rows[k] = Live.rows[k]
      /\ Top(Append(Live, "records", row).rows["records"]) = Top(Live.rows["records"]) + 1
  <2> DEFINE live == Live
  <2> HIDE DEF live
  <2>1. /\ Store(Append(live, "records", row), clock + 1) /\ Grew(live, Append(live, "records", row), clock + 1)
        /\ Append(live, "records", row).jobs = live.jobs
        /\ \A k \in Kinds \ {"records"} : Append(live, "records", row).rows[k] = live.rows[k]
        /\ Top(Append(live, "records", row).rows["records"]) = Top(live.rows["records"]) + 1
    <3>1. Store(live, clock)
      BY <1>1 DEF live
    <3>2. QED
      BY <1>1, <1>2, <3>1, KindsAre, AppendGrows
  <2>2. QED
    BY <2>1 DEF live
<1>5. raw'.st = "ok"
  BY <1>3, <1>4 DEF Grew
<1>6. QED
  BY <1>3, <1>4, <1>5, KindsAre

LEMMA CurateIs ==
  ASSUME DataOK, Curate
  PROVE  /\ Store(raw', clock') /\ Grew(raw, raw', clock') /\ raw.st = "ok" /\ raw'.st = "ok"
         /\ clock' = clock + 1 /\ log' = log /\ raw'.jobs = raw.jobs
         /\ raw'.rows["records"] = raw.rows["records"]
         /\ \E to \in {q \in DOMAIN raw.rows["records"] : q > Curated(raw.rows)} :
              LET o == Top(raw.rows["ops"]) + 1 records == raw.rows["records"] IN
              /\ DOMAIN raw'.rows["ops"] = DOMAIN raw.rows["ops"] \cup {o}
              /\ raw'.rows["ops"][o].to = to
              /\ raw'.rows["ops"][o].saw = {records[q].id : q \in {x \in DOMAIN records : x > Curated(raw.rows) /\ x <= to}}
<1> DEFINE records == raw.rows["records"]
           row(to) == [Row(clock + 1) EXCEPT
                !.to = to,
                !.saw = {records[q].id : q \in {x \in DOMAIN records : x > Curated(raw.rows) /\ x <= to}}]
<1>1. PICK to \in {q \in DOMAIN records : q > Curated(raw.rows)} : raw' = Append(raw, "ops", row(to))
  BY DEF Curate
<1>2. clock' = clock + 1 /\ log' = log /\ raw.st = "ok" /\ clock \in Nat /\ Store(raw, clock)
  BY DEF Curate, Working, DataOK
<1>3. to \in Nat
  BY <1>2, TopIs, KindsAre DEF Store, Numbering
<1>4. /\ row(to).id = clock + 1 /\ row(to).of = 0 /\ row(to).to = to
      /\ row(to).saw = {records[q].id : q \in {x \in DOMAIN records : x > Curated(raw.rows) /\ x <= to}}
  BY DEF Row
<1>5. RowOf("ops", row(to), clock + 1) /\ row(to).id = clock + 1
  BY <1>2, <1>3, <1>4 DEF RowOf
<1> HIDE DEF row
<1>6. /\ Store(raw', clock + 1) /\ Grew(raw, raw', clock + 1) /\ raw'.jobs = raw.jobs
      /\ \A k \in Kinds \ {"ops"} : raw'.rows[k] = raw.rows[k]
      /\ raw'.rows["ops"][Top(raw.rows["ops"]) + 1] = row(to)
  BY <1>1, <1>2, <1>5, KindsAre, AppendGrows
<1>7. DOMAIN raw'.rows["ops"] = DOMAIN raw.rows["ops"] \cup {Top(raw.rows["ops"]) + 1}
  BY <1>1, <1>2, KindsAre DEF Append, Store, Fields
<1>8. raw'.st = "ok"
  BY <1>2, <1>6 DEF Grew
<1>9. QED
  BY <1>1, <1>2, <1>4, <1>6, <1>7, <1>8, KindsAre

LEMMA RegisterIs ==
  ASSUME DataOK, Register
  PROVE  /\ Store(raw', clock') /\ Grew(raw, raw', clock') /\ raw.st = "ok" /\ raw'.st = "ok"
         /\ clock' = clock + 1 /\ log' = log /\ DOMAIN raw.jobs \subseteq DOMAIN raw'.jobs
         /\ \A k \in Kinds : \A q \in DOMAIN raw'.rows[k] \ DOMAIN raw.rows[k] : raw'.rows[k][q].to = 0
         /\ "ops" \notin Forgettable => DOMAIN raw'.rows["ops"] = DOMAIN raw.rows["ops"]
<1>1. PICK k \in Forgettable : \E q \in DOMAIN raw.rows[k] :
             raw' = ApplyAll(raw, {<<k, raw.rows[k][q].id>>}, clock + 1)
  BY DEF Register
<1>2. PICK q \in DOMAIN raw.rows[k] : raw' = ApplyAll(raw, {<<k, raw.rows[k][q].id>>}, clock + 1)
  BY <1>1
<1>3. clock' = clock + 1 /\ log' = log /\ raw.st = "ok" /\ clock \in Nat /\ Store(raw, clock)
  BY DEF Register, DataOK
<1> DEFINE requests == {<<k, raw.rows[k][q].id>>} id == clock + 1
<1>4. requests \subseteq Asks(id)
  <2>1. raw.rows[k][q].id \in 1 .. clock
    BY <1>3, RecoveryAssumption DEF Store, Numbering, RowOf
  <2>2. QED
    BY <1>3, <2>1 DEF Asks
<1>5. id \in Nat /\ id > 0 /\ Store(raw, id) /\ raw' = ApplyAll(raw, requests, id)
  BY <1>2, <1>3, StoreLater
<1> HIDE DEF requests, id
<1>6. /\ Store(raw', id) /\ Grew(raw, raw', id)
      /\ DOMAIN raw'.jobs = DOMAIN raw.jobs \cup requests
      /\ \A j \in Kinds : \A p \in DOMAIN raw'.rows[j] \ DOMAIN raw.rows[j] : raw'.rows[j][p].to = 0
      /\ "ops" \notin Forgettable => DOMAIN raw'.rows["ops"] = DOMAIN raw.rows["ops"]
  BY <1>4, <1>5, ApplyGrows
<1>7. QED
  BY <1>3, <1>6 DEF Grew, id

LEMMA LoseIs ==
  ASSUME DataOK, Lose
  PROVE  \E c \in raw.synced .. (clock - 1) :
           /\ DOMAIN raw' = Fields /\ raw'.st = "ok" /\ raw'.synced = raw.synced /\ DOMAIN raw'.rows = Kinds
           /\ \A k \in Kinds : /\ DOMAIN raw'.rows[k] = {q \in DOMAIN raw.rows[k] : raw.rows[k][q].id <= c}
                               /\ \A q \in DOMAIN raw'.rows[k] : raw'.rows[k][q] = raw.rows[k][q]
           /\ DOMAIN raw'.jobs \subseteq DOMAIN raw.jobs
           /\ Store(raw', clock)
<1>1. PICK c \in raw.synced .. (clock - 1) :
       raw' = [raw EXCEPT
         !.rows = [k \in Kinds |-> Restrict(@[k], {q \in DOMAIN @[k] : @[k][q].id <= c})],
         !.jobs = Restrict(@, {r \in DOMAIN @ : @[r] <= c})]
  BY DEF Lose
<1> DEFINE rows == [k \in Kinds |-> Restrict(raw.rows[k], {q \in DOMAIN raw.rows[k] : raw.rows[k][q].id <= c})]
           jobs == Restrict(raw.jobs, {r \in DOMAIN raw.jobs : raw.jobs[r] <= c})
<1>2. Store(raw, clock) /\ raw.st = "ok" /\ clock \in Nat
  BY DEF DataOK, Lose
<1>3. raw' = [raw EXCEPT !.rows = rows, !.jobs = jobs]
  BY <1>1
<1>4. DOMAIN jobs \subseteq DOMAIN raw.jobs
  BY DEF Restrict
<1>5. /\ DOMAIN rows = Kinds
      /\ \A k \in Kinds : /\ DOMAIN rows[k] = {q \in DOMAIN raw.rows[k] : raw.rows[k][q].id <= c}
                          /\ \A q \in DOMAIN rows[k] : rows[k][q] = raw.rows[k][q]
  BY DEF Restrict
<1> HIDE DEF rows, jobs
<1>6. DOMAIN raw' = Fields /\ raw'.st = "ok" /\ raw'.synced = raw.synced /\ raw'.rows = rows /\ raw'.jobs = jobs
  BY <1>2, <1>3 DEF Store, Fields
<1>7. \A k \in Kinds : Numbering(k, rows[k], clock)
  BY <1>2, <1>5 DEF Store, Numbering
<1>8. Store(raw', clock)
  BY <1>2, <1>4, <1>5, <1>6, <1>7 DEF Store
<1>9. QED
  BY <1>4, <1>5, <1>6, <1>8

LEMMA DamageIs ==
  ASSUME DataOK, Damage
  PROVE  /\ clock' = clock /\ Store(raw', clock)
         /\ raw'.rows = raw.rows /\ raw'.jobs = raw.jobs /\ raw'.synced = raw.synced
         /\ raw' = raw \/ (raw.st = "ok" /\ raw'.st = "bad")
<1>1. clock' = clock /\ Store(raw, clock)
  BY DEF Damage, DataOK
<1>2. CASE raw' = raw
  BY <1>1, <1>2
<1>3. CASE raw.st = "ok" /\ raw' = [raw EXCEPT !.st = "bad"]
  <2>1. /\ DOMAIN raw' = Fields /\ raw'.st = "bad" /\ raw'.rows = raw.rows
        /\ raw'.jobs = raw.jobs /\ raw'.synced = raw.synced
    BY <1>1, <1>3 DEF Store, Fields
  <2>2. QED
    BY <1>1, <1>3, <2>1 DEF Store
<1>4. QED
  BY <1>2, <1>3 DEF Damage

LEMMA ClockIs ==
  ASSUME DataOK, Next
  PROVE  clock' \in Nat /\ clock <= clock'
BY ClockSteps DEF DataOK

LEMMA RawTyped ==
  ASSUME DataOK, Next
  PROVE  Store(raw', clock')
<1>1. clock \in Nat /\ clock' \in Nat /\ clock <= clock'
  BY ClockIs DEF DataOK
<1>2. CASE raw' = raw
  BY <1>1, <1>2, StoreLater DEF DataOK
<1>3. CASE HookAppend \/ Curate \/ Register
  BY <1>3, HookAppendIs, CurateIs, RegisterIs
<1>4. CASE raw' = Live /\ clock' = clock
  BY <1>4, LiveIs
<1>5. CASE Swap \/ Quarantine
  BY <1>1, <1>5, Emptied DEF Swap, Quarantine, DataOK
<1>6. CASE raw.st = "ok" /\ Reconcile
  BY <1>6, ReconcileIs
<1>7. CASE Damage \/ Lose
  <2>1. clock' = clock
    BY <1>7 DEF Damage, Lose
  <2>2. QED
    BY <1>7, <2>1, DamageIs, LoseIs
<1>8. ReaderOpens \/ OpenStore => raw' = Live /\ clock' = clock
  BY DEF ReaderOpens, OpenStore, Live
<1>9. TakeSwap => raw' = raw \/ (raw' = Live /\ clock' = clock)
  BY DEF TakeSwap, store
<1>10. LogRequest \/ ReconcileAgain \/ ReconcileLogs => raw' = raw \/ (raw.st = "ok" /\ Reconcile)
  BY DEF LogRequest, ReconcileAgain, ReconcileLogs
<1>11. QED
  BY <1>2, <1>3, <1>4, <1>5, <1>6, <1>7, <1>8, <1>9, <1>10, RawSteps

LEMMA WholeTyped ==
  ASSUME TypesOK, Next
  PROVE  Store(whole', clock')
<1>1. clock \in Nat /\ clock' \in Nat /\ clock <= clock' /\ Store(whole, clock)
  BY ClockIs DEF TypesOK, DataOK
<1>2. Store(whole, clock') /\ Store(NoStore, clock')
  BY <1>1, StoreLater, Emptied
<1>3. CASE Stage
  BY <1>3, RebuiltIs DEF Stage
<1>4. QED
  BY <1>2, <1>3, WholeSteps DEF Finish

LEMMA SegsTyped ==
  ASSUME TypesOK, Next
  PROVE  (\A s \in segs' : Segment(s, clock')) /\ \E m \in Nat : \A s \in segs' : s.last <= m
<1>1. clock \in Nat /\ clock' \in Nat /\ clock <= clock'
  BY ClockIs DEF TypesOK, DataOK
<1>2. PICK m \in Nat : \A s \in segs : s.last <= m
  BY DEF TypesOK, DataOK
<1>3. \A s \in segs : Segment(s, clock')
  BY <1>1, StoreLater DEF TypesOK, DataOK
<1>4. CASE segs' = segs \/ (\E found : SetAside(found)) \/ Removed
  BY <1>2, <1>3, <1>4 DEF SetAside, Removed
<1>5. CASE Rot
  <2>1. PICK s \in segs : segs' = (segs \ {s}) \cup {[s EXCEPT !.rotten = TRUE]}
    BY <1>5 DEF Rot
  <2> DEFINE t == [s EXCEPT !.rotten = TRUE]
  <2>2. Segment(t, clock') /\ t.last = s.last
    BY <1>3 DEF Segment
  <2> HIDE DEF t
  <2>3. QED
    BY <1>2, <1>3, <2>1, <2>2 DEF t
<1>6. CASE WriteSegment
  <2> DEFINE rows == raw.rows[run.kind]
             t == [kind |-> run.kind, first |-> run.first, last |-> run.last, rotten |-> FALSE,
                   rows |-> Restrict(rows, {q \in DOMAIN rows : run.first <= q /\ q <= run.last})]
  <2>1. segs' = segs \cup {t} /\ clock' = clock
    BY <1>6 DEF WriteSegment
  <2>2. run.kind \in Kinds /\ run.first \in Nat /\ run.last \in Nat /\ run.first > 0 /\ run.first <= run.last
    BY <1>6 DEF WriteSegment, TypesOK, RunOK
  <2>3. \A q \in DOMAIN rows : q \in Nat /\ RowOf(run.kind, rows[q], clock)
    BY <2>2, TopIs DEF TypesOK, DataOK, Store, Numbering
  <2>4. /\ DOMAIN t = {"kind", "first", "last", "rotten", "rows"}
        /\ t.kind = run.kind /\ t.first = run.first /\ t.last = run.last /\ t.rotten = FALSE
        /\ DOMAIN t.rows = {q \in DOMAIN rows : run.first <= q /\ q <= run.last}
        /\ \A q \in DOMAIN t.rows : t.rows[q] = rows[q]
    BY DEF Restrict
  <2> HIDE DEF t, rows
  <2>8. t.rotten \in BOOLEAN
    BY <2>4, Zenon
  <2>9. \A q \in DOMAIN t.rows : RowOf(t.kind, t.rows[q], clock)
    BY <2>3, <2>4
  <2>10. DOMAIN t.rows \subseteq t.first .. t.last
    BY <2>2, <2>3, <2>4
  <2>5. Segment(t, clock)
    BY <2>2, <2>4, <2>8, <2>9, <2>10 DEF Segment
  <2>6. m + run.last \in Nat /\ \A s \in segs' : s.last <= m + run.last
    BY <1>2, <2>1, <2>2, <2>4 DEF TypesOK, DataOK, Segment
  <2>7. QED
    BY <1>3, <2>1, <2>5, <2>6
<1>7. QED
  BY <1>4, <1>5, <1>6, SegsSteps

LEMMA DataNext ==
  ASSUME TypesOK, Next
  PROVE  DataOK'
<1>1. DataOK /\ clock' \in Nat /\ clock <= clock' /\ clock \in Nat
  BY ClockIs DEF TypesOK, DataOK
<1>2. log' \subseteq Asks(clock')
  <2>1. CASE log' = log
    BY <1>1, <2>1, StoreLater DEF DataOK
  <2>2. CASE Reconcile
    BY <1>1, <2>2, ReconcileIs
  <2>3. QED
    BY <1>1, <2>1, <2>2, ClockSteps DEF HookAppend, Register, Curate, Stage
<1>3. Store(raw', clock') /\ Store(whole', clock')
  BY <1>1, RawTyped, WholeTyped
<1>4. (\A s \in segs' : Segment(s, clock')) /\ \E m \in Nat : \A s \in segs' : s.last <= m
  BY SegsTyped
<1>5. QED
  BY <1>1, <1>2, <1>3, <1>4 DEF DataOK

LEMMA KnowSteps ==
  ASSUME Next
  PROVE  know' = know \/ MoveKnowledgeAside \/ OpenKnowledge \/ Rewind \/ Consume \/ Damage
BY DEF Next, Restoring, Opening, Exporting, Beside, Mishap, TakeLock, HandRestore, ReadLogs,
  Clear, Build, Stage, MoveSegmentsAside, CheckBackup, StartExport, WriteChecksum, WriteSegment,
  NextKind, GoOn, Leave, FindsDamage, Kill, Fail, HookAppend, ReaderOpens, Register, LogRequest, OpenStore,
  TakeSwap, Quarantine, Swap, ReconcileAgain, ReconcileLogs, Curate, Lose, Rot, Removed

LEMMA RunSteps ==
  ASSUME Next
  PROVE  /\ \/ UNCHANGED <<pc, run>> \/ run' = NoRun \/ HandRestore \/ ReadLogs \/ TakeSwap \/ Clear \/ Build
            \/ WriteChecksum \/ NextKind \/ StartExport
            \/ run' = run /\ pc' \in {"logs", "know", "knowledge", "aside", "quarantine", "swap", "again",
                                      "rewind", "check", "reconcile", "ready", "export"}
         /\ pc' = "seal" => WriteChecksum \/ UNCHANGED <<pc, run>>
BY DEF Next, Restoring, Opening, Exporting, Beside, Mishap, TakeLock, HandRestore, ReadLogs, Goto, Stopped,
  Clear, Build, Stage, MoveKnowledgeAside, MoveSegmentsAside, OpenKnowledge, Rewind, CheckBackup,
  Consume, StartExport, WriteChecksum, WriteSegment, NextKind, GoOn, Leave, FindsDamage,
  Kill, Fail, HookAppend, ReaderOpens, Register, LogRequest, OpenStore, TakeSwap,
  Quarantine, Swap, ReconcileAgain, ReconcileLogs, Curate, Damage, Lose, Rot, Removed

LEMMA ChanceSteps ==
  ASSUME Next
  PROVE  chance' = chance \/ \E c \in Chances : Spend(c)
BY DEF Next, Restoring, Opening, Exporting, Beside, Mishap, TakeLock, HandRestore, ReadLogs, Chances,
  Clear, Build, Stage, MoveKnowledgeAside, MoveSegmentsAside, OpenKnowledge, Rewind, CheckBackup,
  Consume, StartExport, WriteChecksum, WriteSegment, NextKind, GoOn, Leave, FindsDamage,
  Kill, Fail, HookAppend, ReaderOpens, Register, LogRequest, OpenStore, TakeSwap,
  Quarantine, Swap, ReconcileAgain, ReconcileLogs, Curate, Damage, Lose, Rot, Removed

LEMMA FlagSteps ==
  ASSUME TypesOK, Next
  PROVE  /\ staging' \in BOOLEAN /\ unseen' \in BOOLEAN /\ forgetting' \in BOOLEAN
         /\ pc' = pc \/ pc' \in {"idle", "open", "logs", "take", "clear", "build", "stage", "knowledge", "aside",
                                 "quarantine", "swap", "again"} \cup Opened
BY DEF TypesOK, RunOK, Opened, store, Next, Restoring, Opening, Exporting, Beside, Mishap, TakeLock, HandRestore,
  ReadLogs, Goto, Stopped, Clear, Build, Stage, MoveKnowledgeAside, MoveSegmentsAside, OpenKnowledge, Rewind, CheckBackup,
  Consume, StartExport, WriteChecksum, WriteSegment, NextKind, GoOn, Leave, FindsDamage,
  Kill, Fail, HookAppend, ReaderOpens, Register, LogRequest, OpenStore, TakeSwap,
  Quarantine, Swap, ReconcileAgain, ReconcileLogs, Curate, Damage, Lose, Rot, Removed

LEMMA Smaller ==
  ASSUME NEW x \in Nat, NEW y \in Nat
  PROVE  Min({x, y}) \in Nat /\ Min({x, y}) = IF x <= y THEN x ELSE y
<1> DEFINE S == {x, y}
<1>1. S \in SUBSET Nat /\ S # {}
  OBVIOUS
<1>2. Min(S) \in S /\ \A z \in S : Min(S) <= z
  <2> HIDE DEF S
  <2>1. QED
    BY <1>1, Least
<1>3. QED
  BY <1>2

\* What a store's numbers are.
LEMMA TopOf ==
  ASSUME NEW n, NEW db, Store(db, n), NEW k \in Kinds
  PROVE  /\ Top(db.rows[k]) \in Nat
         /\ \A q \in DOMAIN db.rows[k] : q \in Nat /\ q > 0 /\ q <= Top(db.rows[k])
         /\ Top(db.rows[k]) = 0 \/ Top(db.rows[k]) \in DOMAIN db.rows[k]
         /\ \E m \in Nat : DOMAIN db.rows[k] \subseteq 1 .. m
         /\ \A q \in DOMAIN db.rows[k] : RowOf(k, db.rows[k][q], n)
<1>1. (\E m \in Nat : DOMAIN db.rows[k] \subseteq 1 .. m) /\ \A q \in DOMAIN db.rows[k] : RowOf(k, db.rows[k][q], n)
  BY DEF Store, Numbering
<1>2. QED
  BY <1>1, TopIs

LEMMA KnowTyped ==
  ASSUME TypesOK, Next
  PROVE  DOMAIN know' = {"st", "cp", "out"} /\ know'.cp \in [Kinds -> Nat] /\ DOMAIN know'.out = Kinds
<1>1. DOMAIN know = {"st", "cp", "out"} /\ know.cp \in [Kinds -> Nat] /\ DOMAIN know.out = Kinds
  BY DEF TypesOK, RunOK
<1>2. \A k \in Kinds : Top(raw.rows[k]) \in Nat
  BY TopOf DEF TypesOK, DataOK
<1>3. CASE know' = know \/ MoveKnowledgeAside \/ OpenKnowledge \/ Damage
  BY <1>1, <1>3 DEF MoveKnowledgeAside, OpenKnowledge, Damage, NoKnowledge
<1>4. CASE Rewind
  <2> DEFINE top == [k \in Kinds |-> Top(raw.rows[k])]
             cp == [k \in Kinds |-> Min({know.cp[k], top[k]})]
             out == [k \in Kinds |-> {o \in know.out[k] : know.cp[k] > top[k] => o[1] <= top[k]}]
  <2>1. know' = [know EXCEPT !.cp = cp, !.out = out]
    BY <1>4 DEF Rewind
  <2>2. \A k \in Kinds : Min({know.cp[k], top[k]}) \in Nat
    BY <1>1, <1>2, Smaller
  <2>3. cp \in [Kinds -> Nat] /\ DOMAIN out = Kinds
    BY <2>2
  <2> HIDE DEF cp, out
  <2>4. QED
    BY <1>1, <2>1, <2>3
<1>5. CASE Consume
  <2>1. PICK k \in Kinds : know' = [know EXCEPT
            !.cp[k] = Top(raw.rows[k]),
            !.out[k] = @ \cup {<<q, raw.rows[k][q].id>> : q \in {x \in DOMAIN raw.rows[k] : x > know.cp[k]}}]
    BY <1>5 DEF Consume
  <2> DEFINE more == know.out[k] \cup {<<q, raw.rows[k][q].id>> : q \in {x \in DOMAIN raw.rows[k] : x > know.cp[k]}}
  <2>2. know' = [know EXCEPT !.cp = [know.cp EXCEPT ![k] = Top(raw.rows[k])], !.out = [know.out EXCEPT ![k] = more]]
    BY <1>1, <2>1
  <2> HIDE DEF more
  <2>3. QED
    BY <1>1, <1>2, <2>2
<1>6. QED
  BY <1>3, <1>4, <1>5, KnowSteps

LEMMA UnsealedLeast ==
  ASSUME TypesOK, NEW k \in Kinds, Unsealed(k) # {}
  PROVE  /\ Min(Unsealed(k)) \in Unsealed(k) /\ \A q \in Unsealed(k) : Min(Unsealed(k)) <= q
         /\ \A q \in Unsealed(k) : q \in Nat /\ q > 0 /\ q \in DOMAIN raw.rows[k]
<1>1. \A q \in DOMAIN raw.rows[k] : q \in Nat /\ q > 0
  BY TopOf DEF TypesOK, DataOK
<1>2. Unsealed(k) \in SUBSET Nat
  BY <1>1 DEF Unsealed
<1>3. QED
  BY <1>1, <1>2, Least DEF Unsealed

LEMMA RunNext ==
  ASSUME TypesOK, Next
  PROVE  RunOK'
<1> DEFINE Run == {"hand", "kind", "logged", "held", "first", "last"}
           Typed(r) == /\ DOMAIN r = Run /\ r.kind \in Kinds
                       /\ r.logged \subseteq Asks(clock') /\ r.held \subseteq Asks(clock')
                       /\ r.first \in Nat /\ r.last \in Nat
<1>1. clock \in Nat /\ clock' \in Nat /\ Asks(clock) \subseteq Asks(clock')
  BY ClockIs, StoreLater DEF TypesOK, DataOK
<1>2. Typed(run) /\ (pc = "seal" => run.first > 0 /\ run.first <= run.last)
  BY <1>1 DEF TypesOK, RunOK
<1>3. Typed(NoRun)
  BY KindsAre DEF NoRun
<1>5. log \subseteq Asks(clock') /\ DOMAIN Live.jobs \subseteq Asks(clock')
  BY <1>1, LiveIs DEF TypesOK, DataOK, Store
<1>4. chance' \in [Chances -> Nat]
  BY ChanceSteps DEF TypesOK, RunOK, Spend
<1>6. ASSUME HandRestore PROVE Typed(run')
  <2>1. run' = [NoRun EXCEPT !.hand = TRUE]
    BY <1>6 DEF HandRestore
  <2>2. QED
    BY <1>3, <2>1
<1>7. ASSUME StartExport PROVE Typed(run')
  <2>1. run' = [NoRun EXCEPT !.kind = "records"]
    BY <1>7 DEF StartExport
  <2>2. QED
    BY <1>3, <2>1, KindsAre DEF NoRun
<1>8. ASSUME NextKind PROVE Typed(run')
  <2>1. run' = [run EXCEPT !.kind = "ops"] \/ run' = run
    BY <1>8 DEF NextKind
  <2>2. QED
    BY <1>2, <2>1, KindsAre
<1>9. ASSUME ReadLogs PROVE Typed(run')
  <2>1. run' = [run EXCEPT !.logged = log]
    BY <1>9 DEF ReadLogs
  <2>2. QED
    BY <1>2, <1>5, <2>1
<1>10. ASSUME TakeSwap PROVE Typed(run')
  <2>1. run' = NoRun \/ \E held \in {DOMAIN Live.jobs} \cup IF Live.st = "bad" THEN {{}} ELSE {} :
             run' = [run EXCEPT !.held = held]
    BY <1>10 DEF TakeSwap, Stopped
  <2>2. run' = NoRun \/ run' = [run EXCEPT !.held = DOMAIN Live.jobs] \/ run' = [run EXCEPT !.held = {}]
    BY <2>1
  <2>3. QED
    BY <1>2, <1>3, <1>5, <2>2
<1>11. ASSUME WriteChecksum
       PROVE  Typed(run') /\ run'.first > 0 /\ run'.first <= run'.last
  <2>1. PICK last \in Unsealed(run.kind) : run' = [run EXCEPT !.first = Min(Unsealed(run.kind)), !.last = last]
    BY <1>11 DEF WriteChecksum
  <2>2. /\ Min(Unsealed(run.kind)) \in Nat /\ Min(Unsealed(run.kind)) > 0
        /\ last \in Nat /\ Min(Unsealed(run.kind)) <= last
    BY <1>2, UnsealedLeast
  <2>3. QED
    BY <1>2, <2>1, <2>2
<1> HIDE DEF Typed
<1>12. Typed(run')
  <2>1. Clear \/ Build => run' = run \/ run' = NoRun
    BY DEF Clear, Build, Stopped
  <2>2. QED
    BY <1>2, <1>3, <1>6, <1>7, <1>8, <1>9, <1>10, <1>11, <2>1, RunSteps
<1>13. pc' = "seal" => run'.first > 0 /\ run'.first <= run'.last
  BY <1>2, <1>11, RunSteps
<1>14. QED
  BY <1>4, <1>12, <1>13, KnowTyped, FlagSteps DEF RunOK, TypesOK, Typed

LEMMA TypesNext ==
  ASSUME TypesOK, [Next]_vars
  PROVE  TypesOK'
<1>1. CASE Next
  BY <1>1, DataNext, RunNext DEF TypesOK
<1>2. CASE UNCHANGED vars
  BY <1>2 DEF TypesOK, DataOK, RunOK, Store, Numbering, Segment, RowOf, vars, store, backup
<1>3. QED
  BY <1>1, <1>2

LEMMA TypesInit ==
  ASSUME Init
  PROVE  TypesOK
<1>1. DataOK
  BY Emptied DEF Init, DataOK
<1>2. RunOK
  <2>1. DOMAIN know = {"st", "cp", "out"} /\ know.cp \in [Kinds -> Nat] /\ DOMAIN know.out = Kinds
    BY DEF Init, NoKnowledge
  <2>2. /\ DOMAIN run = {"hand", "kind", "logged", "held", "first", "last"} /\ run.kind \in Kinds
        /\ run.logged = {} /\ run.held = {} /\ run.first = 0 /\ run.last = 0
    BY KindsAre DEF Init, NoRun
  <2>3. staging \in BOOLEAN /\ unseen \in BOOLEAN /\ forgetting \in BOOLEAN
    BY DEF Init
  <2>4. pc = "idle" /\ chance \in [Chances -> Nat]
    BY RecoveryAssumption DEF Init
  <2>5. QED
    BY <2>1, <2>2, <2>3, <2>4 DEF RunOK
<1>3. QED
  BY <1>1, <1>2 DEF TypesOK
-----------------------------------------------------------------------------
(* The stores, and what the logs ask of them.                              *)

\* What a step keeps that leaves the stores alone.
LEMMA Frame ==
  ASSUME StoresOK, UNCHANGED <<raw, whole, made>>, segs' \subseteq segs, forgetting' => forgetting,
         pc' = pc \/ \/ pc' \in {"idle", "open", "logs", "take"}
                     \/ pc' \in {"ready", "backed", "export", "seal", "check", "rewind", "stage", "build"} /\ raw.st # "none"
                     \/ pc' \in {"quarantine", "aside"} /\ raw.st # "none" /\ whole.st # "none",
         Locked' => Locked
  PROVE  StoresOK'
BY DEF StoresOK, Locked, Opened

LEMMA OpenedIs ==
  ASSUME DataOK, StoresOK, raw'.st = Live.st, Finish, made' = IF Missing THEN made + 1 ELSE made
  PROVE  raw'.st # "none" /\ made' = 1
<1>1. Live.st # "none" /\ NoStore.st = "none"
  BY LiveIs, Emptied DEF DataOK
<1>2. made' = 1
  BY DEF StoresOK, Waiting, Missing
<1>3. QED
  BY <1>1, <1>2

LEMMA StoresNext ==
  ASSUME TypesOK, StoresOK, Next
  PROVE  StoresOK'
<1>1. DataOK /\ clock \in Nat /\ NoStore.st = "none" /\ Fresh.st = "ok"
  BY Emptied DEF TypesOK, DataOK
<1>2. CASE HookAppend
  <2>1. raw'.st = "ok" /\ Live.st = "ok" /\ ~Locked /\ Finish /\ UNCHANGED <<segs, pc, forgetting>>
        /\ made' = IF Missing THEN made + 1 ELSE made
    BY <1>1, <1>2, HookAppendIs DEF HookAppend, backup
  <2>2. made' = 1
    BY <1>1, <2>1, OpenedIs
  <2>3. QED
    BY <2>1, <2>2 DEF StoresOK, Locked
<1>3. CASE ReaderOpens
  <2>1. raw' = whole /\ whole.st # "none" /\ raw.st = "none" /\ ~Locked /\ whole' = NoStore
        /\ UNCHANGED <<made, segs, pc, forgetting>>
    BY <1>3 DEF ReaderOpens, Waiting, Finish, backup
  <2>2. QED
    BY <1>1, <2>1 DEF StoresOK, Locked
<1>4. CASE Register \/ Curate
  <2>1. raw'.st = "ok" /\ raw.st = "ok" /\ UNCHANGED <<whole, made, segs, pc>> /\ (forgetting' => forgetting \/ ~Locked')
    <3>1. raw'.st = "ok" /\ raw.st = "ok"
      BY <1>1, <1>4, RegisterIs, CurateIs
    <3>2. Curate => UNCHANGED <<whole, made, segs, pc, forgetting>>
      BY DEF Curate, backup
    <3>3. Register => UNCHANGED <<whole, made, segs, pc>> /\ ~Locked
      BY DEF Register, backup
    <3>4. UNCHANGED pc => (Locked' <=> Locked)
      BY DEF Locked
    <3>5. QED
      BY <1>4, <3>1, <3>2, <3>3, <3>4
  <2>2. QED
    BY <2>1 DEF StoresOK, Locked
<1>5. CASE LogRequest \/ ReconcileAgain \/ ReconcileLogs
  <2>1. (raw.st = "ok" /\ Reconcile) \/ raw' = raw
    BY <1>5 DEF LogRequest, ReconcileAgain, ReconcileLogs
  <2>2. raw'.st = raw.st
    BY <1>1, <2>1, ReconcileIs DEF Grew
  <2>3. /\ UNCHANGED <<whole, made, segs>> /\ (forgetting' => forgetting)
        /\ pc' = pc \/ pc' = "open" \/ (pc' \in {"know", "ready"} /\ raw.st # "none")
    BY <1>5 DEF LogRequest, ReconcileAgain, ReconcileLogs, Goto, backup, StoresOK
  <2>4. QED
    BY <2>2, <2>3 DEF StoresOK, Locked, Opened
<1>6. CASE OpenStore
  <2>1. raw' = Live /\ Finish /\ UNCHANGED <<segs, forgetting>> /\ pc' \in {"logs", "know"}
        /\ made' = IF Missing THEN made + 1 ELSE made
    BY <1>6 DEF OpenStore, backup, Goto
  <2>2. raw'.st # "none" /\ made' = 1
    BY <1>1, <2>1, OpenedIs
  <2>3. QED
    BY <2>1, <2>2 DEF StoresOK, Locked
<1>7. CASE TakeSwap
  <2>1. CASE UNCHANGED store /\ Stopped(run.hand)
    BY <1>7, <2>1, Frame DEF TakeSwap, Stopped, Goto, store, backup, Locked
  <2>2. CASE GoodRecords # {} /\ pc' = "clear" /\ raw' = (IF Missing THEN raw ELSE Live) /\ Finish /\ made' = made
    <3>1. segs # {} /\ UNCHANGED <<segs, forgetting>> /\ ~forgetting
      BY <1>7, <2>2 DEF TakeSwap, GoodRecords, Of, backup
    <3>2. made = 1 /\ ~Missing
      BY <3>1 DEF StoresOK, Missing, Waiting
    <3>3. raw'.st # "none"
      BY <1>1, <2>2, <3>2, LiveIs
    <3>4. QED
      BY <2>2, <3>1, <3>2, <3>3 DEF StoresOK, Locked
  <2>3. QED
    BY <1>7, <2>1, <2>2 DEF TakeSwap, Goto, store
<1>8. CASE Clear
  BY <1>1, <1>8 DEF Clear, StoresOK, Goto, backup, Locked
<1>9. CASE Stage
  <2>1. whole'.st = "ok"
    BY <1>9, RebuiltIs DEF Stage
  <2>2. QED
    BY <1>9, <2>1 DEF Stage, StoresOK, Goto, backup, Locked
<1>10. CASE Quarantine \/ Swap
  BY <1>1, <1>10 DEF Quarantine, Swap, StoresOK, Goto, backup, Locked, Opened
<1>11. CASE WriteSegment
  BY <1>11 DEF WriteSegment, StoresOK, Goto, store, Locked, Opened
<1>12. CASE Rot
  BY <1>12 DEF Rot, StoresOK, store, Locked
<1>13. CASE Damage
  <2>1. raw' = raw \/ (raw.st = "ok" /\ raw'.st = "bad")
    BY <1>1, <1>13, DamageIs
  <2>2. QED
    BY <1>13, <2>1 DEF Damage, StoresOK, backup, Locked
<1>14. CASE Lose
  <2>1. raw'.st = "ok" /\ raw.st = "ok"
    BY <1>1, <1>14, LoseIs DEF Lose
  <2>2. QED
    BY <1>14, <2>1 DEF Lose, StoresOK, backup, Goto, Locked
<1>15. CASE TakeLock \/ HandRestore \/ ReadLogs \/ Build \/ MoveKnowledgeAside \/ MoveSegmentsAside
  BY <1>15, Frame DEF TakeLock, HandRestore, ReadLogs, Build, MoveKnowledgeAside, MoveSegmentsAside, SetAside,
     Goto, store, backup, Locked, Stopped, StoresOK
<1>16. CASE OpenKnowledge \/ Rewind \/ CheckBackup \/ Consume \/ StartExport
  BY <1>16, Frame DEF OpenKnowledge, Rewind, CheckBackup, Consume, StartExport, SetAside, Goto, store, backup,
     Locked, StoresOK, Opened, Working
<1>17. CASE WriteChecksum \/ NextKind \/ GoOn \/ Leave \/ FindsDamage
  BY <1>17, Frame DEF WriteChecksum, NextKind, GoOn, Leave, FindsDamage, SetAside, Goto, store, backup,
     Locked, StoresOK, Opened
<1>18. CASE Removed \/ Kill \/ Fail
  BY <1>18, Frame DEF Removed, Kill, Fail, Goto, Stopped, store, backup, Locked
<1>19. QED
  BY <1>2, <1>3, <1>4, <1>5, <1>6, <1>7, <1>8, <1>9, <1>10, <1>11, <1>12, <1>13, <1>14, <1>15, <1>16,
     <1>17, <1>18 DEF Next, Restoring, Opening, Exporting, Beside, Mishap

LEMMA AskedNext ==
  ASSUME TypesOK, StoresOK, AskedOK, Next
  PROVE  AskedOK'
<1>1. DataOK
  BY DEF TypesOK
<1>2. CASE HookAppend
  <2>1. pc' = pc /\ log' = log /\ raw'.jobs = Live.jobs /\ Live.st = "ok"
    BY <1>1, <1>2, HookAppendIs DEF HookAppend
  <2>2. pc \in Serving => Live = raw
    BY <1>1, LiveIs DEF StoresOK, Opened, Serving, Waiting, Missing
  <2>3. QED
    BY <2>1, <2>2 DEF AskedOK
<1>3. CASE Register \/ Curate
  BY <1>1, <1>3, RegisterIs, CurateIs DEF AskedOK, Register, Curate
<1>4. CASE raw.st = "ok" /\ Reconcile
  BY <1>1, <1>4, ReconcileIs DEF AskedOK
<1>5. CASE Damage \/ Lose
  BY <1>1, <1>5, DamageIs DEF AskedOK, Damage, Lose, Goto, Serving
<1>6. CASE UNCHANGED <<raw, log>> /\ (pc' \in Serving => pc \in Serving)
  BY <1>6 DEF AskedOK
<1>7. CASE pc' \notin Serving
  BY <1>7 DEF AskedOK
<1>8. ReaderOpens => pc' \notin Serving
  BY DEF ReaderOpens, StoresOK, Opened, Serving, Waiting
<1>9. TakeLock \/ HandRestore \/ OpenStore \/ ReadLogs \/ TakeSwap \/ Clear \/ Build \/ Stage
      \/ MoveKnowledgeAside \/ MoveSegmentsAside \/ Quarantine \/ Swap => pc' \notin Serving
  BY DEF TakeLock, HandRestore, OpenStore, ReadLogs, TakeSwap, Clear, Build, Stage, MoveKnowledgeAside,
     MoveSegmentsAside, Quarantine, Swap, Goto, Stopped, Serving
<1>10. LogRequest \/ ReconcileAgain \/ ReconcileLogs =>
         (raw.st = "ok" /\ Reconcile) \/ (UNCHANGED <<raw, log>> /\ (pc' \in Serving => pc \in Serving))
  BY DEF LogRequest, ReconcileAgain, ReconcileLogs, Goto, Serving
<1>11. OpenKnowledge \/ Rewind \/ CheckBackup \/ Consume \/ StartExport \/ WriteChecksum \/ WriteSegment
       \/ NextKind \/ GoOn \/ Leave \/ FindsDamage \/ Rot \/ Removed \/ Kill \/ Fail =>
         pc' \notin Serving \/ (UNCHANGED <<raw, log>> /\ (pc' \in Serving => pc \in Serving))
  BY DEF OpenKnowledge, Rewind, CheckBackup, Consume, StartExport, WriteChecksum, WriteSegment, NextKind, GoOn,
     Leave, FindsDamage, Rot, Removed, Kill, Fail, Goto, Stopped, store, Serving, Working
<1>12. QED
  BY <1>2, <1>3, <1>4, <1>5, <1>6, <1>7, <1>8, <1>9, <1>10, <1>11 DEF Next, Restoring, Opening, Exporting, Beside, Mishap

\* The base the other invariants stand on.
BaseOK == TypesOK /\ StoresOK /\ AskedOK

LEMMA BaseInit ==
  ASSUME Init
  PROVE  BaseOK
<1>1. StoresOK /\ AskedOK
  BY DEF Init, StoresOK, AskedOK, Serving, Opened, NoStore
<1>2. QED
  BY <1>1, TypesInit DEF BaseOK

LEMMA BaseNext ==
  ASSUME BaseOK, [Next]_vars
  PROVE  BaseOK'
<1>1. TypesOK'
  BY TypesNext DEF BaseOK
<1>2. CASE UNCHANGED vars
  BY <1>1, <1>2 DEF BaseOK, StoresOK, AskedOK, Locked, vars, store, backup
<1>3. QED
  BY <1>1, <1>2, StoresNext, AskedNext DEF BaseOK

LEMMA TypesAre ==
  ASSUME BaseOK
  PROVE  TypeOK
<1>1. ASSUME NEW db, Store(db, clock)
      PROVE  db.st \in {"none", "ok", "bad"} /\ RowsOK(db.rows)
  <2>1. ASSUME NEW k \in Kinds, NEW q \in DOMAIN db.rows[k]
        PROVE  q \in Nat \ {0} /\ RowOf(k, db.rows[k][q], clock)
    BY <1>1, TopOf
  <2>2. QED
    BY <1>1, <2>1 DEF RowsOK, Store, RowOf
<1>2. ASSUME NEW s \in segs
      PROVE  s.kind \in Kinds /\ s.first <= s.last /\ RowsOK([NoRows EXCEPT ![s.kind] = s.rows])
  <2>1. Segment(s, clock)
    BY DEF BaseOK, TypesOK, DataOK
  <2> DEFINE rows == [NoRows EXCEPT ![s.kind] = s.rows]
  <2>2. \A q \in DOMAIN s.rows : q \in Nat \ {0} /\ s.rows[q].id \in 1 .. clock /\ s.rows[q].to \in Nat
    <3>1. ASSUME NEW q \in DOMAIN s.rows PROVE q \in Nat \ {0}
      BY <2>1 DEF Segment
    <3>2. QED
      BY <2>1, <3>1 DEF Segment, RowOf
  <2>3. \A k \in Kinds : rows[k] = IF k = s.kind THEN s.rows ELSE <<>>
    BY DEF NoRows
  <2>4. DOMAIN <<>> = {}
    OBVIOUS
  <2> HIDE DEF rows
  <2>5. RowsOK(rows)
    BY <2>2, <2>3, <2>4 DEF RowsOK
  <2>6. QED
    BY <2>1, <2>5 DEF Segment, rows
<1>3. log \subseteq Kinds \X (1 .. clock)
  BY RecoveryAssumption DEF BaseOK, TypesOK, DataOK, Asks
<1>4. made \in Nat /\ clock \in Nat
  BY DEF BaseOK, StoresOK, TypesOK, DataOK
<1>5. know.cp \in [Kinds -> Nat] /\ chance \in [Chances -> Nat]
      /\ staging \in BOOLEAN /\ unseen \in BOOLEAN /\ forgetting \in BOOLEAN
  BY DEF BaseOK, TypesOK, RunOK
<1>6. pc \in {"idle", "open", "logs", "take", "clear", "build", "stage", "knowledge", "aside",
             "quarantine", "swap", "again", "know", "rewind", "check", "reconcile",
             "ready", "export", "seal", "backed"}
  BY DEF BaseOK, TypesOK, RunOK, Opened
<1>7. \A db \in {raw, whole} : db.st \in {"none", "ok", "bad"} /\ RowsOK(db.rows)
  BY <1>1 DEF BaseOK, TypesOK, DataOK
<1>8. QED
  BY <1>2, <1>3, <1>4, <1>5, <1>6, <1>7 DEF TypeOK

\* Every store, segment and checkpoint holds rows the program made (TypeOK).
THEOREM TypeCorrect == Spec => []TypeOK
BY BaseInit, BaseNext, TypesAre, PTL DEF Spec

\* No open makes a second store (OneStore), for any number of commits, windows and forgets and
\* however often a restore is stopped, a store damaged or the power lost.
THEOREM StoreMadeOnce == Spec => []OneStore
<1>1. BaseOK => OneStore
  BY DEF BaseOK, StoresOK, OneStore
<1>2. QED
  BY <1>1, BaseInit, BaseNext, PTL DEF Spec

\* While a run works raw.db denies what every log asks (ForgetsHold), whatever was restored
\* under it, also where commits were lost.
THEOREM ForgetsAreHeld == Spec => []ForgetsHold
<1>1. BaseOK => ForgetsHold
  <2>1. Ready <=> pc \in Serving
    BY DEF Ready, Serving
  <2>2. DOMAIN raw.jobs \subseteq Denied(raw)
    BY DEF Denied
  <2>3. QED
    BY <2>1, <2>2 DEF BaseOK, AskedOK, ForgetsHold
<1>2. QED
  BY <1>1, BaseInit, BaseNext, PTL DEF Spec
-----------------------------------------------------------------------------
(* Where every power loss is followed by a check before a row is added:    *)
(* what a step does to raw.db.                                             *)

LossInv == BaseOK /\ LossOK

\* The same rows; the store an open finds, or makes, where there was none; the two moves of a
\* restore; rows of one commit after the last; a power loss.
Same == /\ raw'.rows = raw.rows /\ raw'.synced = raw.synced /\ raw'.jobs = raw.jobs
        /\ raw'.st = "none" <=> raw.st = "none"
        /\ raw'.st = "ok" => raw.st = "ok"
Found == /\ raw.st = "none" /\ Live.st # "none" /\ ~Locked
         /\ raw' = Live \/ (Grew(Live, raw', clock') /\ raw'.rows["ops"] = Live.rows["ops"])
         /\ UNCHANGED <<know, segs, sums, unseen>>
         /\ pc' = pc \/ pc' \in {"logs", "know", "clear"}
More == /\ raw.st = "ok" /\ raw'.st = "ok" /\ Grew(raw, raw', clock') /\ ~unseen
        /\ UNCHANGED <<whole, know, segs, sums, unseen>> /\ ~Locked
        /\ pc' = pc \/ (pc' \in {"open", "know", "ready"} /\ pc \in {"again", "reconcile"})
        /\ "ops" \notin Forgettable => Curate \/ DOMAIN raw'.rows["ops"] = DOMAIN raw.rows["ops"]

LEMMA RawShapes ==
  ASSUME LossInv, Next
  PROVE  Same \/ Found \/ Quarantine \/ Swap \/ More \/ Lose
<1>1. DataOK
  BY DEF LossInv, BaseOK, TypesOK
<1>2. CASE raw' = raw
  BY <1>2 DEF Same
<1>3. CASE Damage
  BY <1>1, <1>3, DamageIs DEF Same
<1>4. Live = raw \/ (raw.st = "none" /\ Live.st # "none")
  BY <1>1, LiveIs DEF Waiting, Missing
<1>5. CASE OpenStore \/ ReaderOpens \/ TakeSwap
  <2>1. raw' = raw \/ (/\ raw' = Live /\ UNCHANGED <<know, segs, sums, unseen>> /\ ~Locked
                       /\ pc' = pc \/ pc' \in {"logs", "know", "clear"})
    BY <1>5 DEF OpenStore, ReaderOpens, TakeSwap, Live, store, backup, Locked, Goto
  <2>2. QED
    BY <1>2, <1>4, <2>1 DEF Found
<1>6. unseen => ~AppendsFirst
  BY DEF LossInv, LossOK
<1>7. CASE HookAppend
  <2>1. Grew(Live, raw', clock') /\ Live.st = "ok" /\ raw'.st = "ok" /\ raw'.rows["ops"] = Live.rows["ops"]
    BY <1>1, <1>7, HookAppendIs
  <2>2. ~unseen /\ ~Locked /\ UNCHANGED <<know, segs, sums, unseen, pc>> /\ Finish
    BY <1>6, <1>7 DEF HookAppend, MayAdd, backup
  <2>3. Live = raw => whole' = whole
    BY <2>1, <2>2 DEF Finish, Waiting
  <2>4. QED
    BY <1>4, <2>1, <2>2, <2>3 DEF Found, More
<1>8. CASE Register
  <2>1. /\ Grew(raw, raw', clock') /\ raw.st = "ok" /\ raw'.st = "ok"
        /\ "ops" \notin Forgettable => DOMAIN raw'.rows["ops"] = DOMAIN raw.rows["ops"]
    BY <1>1, <1>8, RegisterIs
  <2>2. ~unseen /\ UNCHANGED <<whole, know, segs, sums, unseen, pc>> /\ ~Locked
    BY <1>6, <1>8 DEF Register, backup
  <2>3. QED
    BY <2>1, <2>2 DEF More
<1>9. CASE Curate
  <2>1. Grew(raw, raw', clock') /\ raw.st = "ok" /\ raw'.st = "ok"
    BY <1>1, <1>9, CurateIs
  <2>2. MayAdd /\ UNCHANGED <<whole, know, segs, sums, unseen, pc>>
    BY <1>9 DEF Curate, backup
  <2>3. ~Locked
    BY <1>9 DEF Curate, Working, Locked
  <2>4. QED
    BY <1>6, <1>9, <2>1, <2>2, <2>3 DEF More, MayAdd
<1>10. CASE (LogRequest \/ ReconcileAgain \/ ReconcileLogs) /\ raw.st = "ok" /\ Reconcile
  <2>1. /\ Grew(raw, raw', clock') /\ raw'.st = "ok"
        /\ "ops" \notin Forgettable => DOMAIN raw'.rows["ops"] = DOMAIN raw.rows["ops"]
    BY <1>1, <1>10, ReconcileIs DEF Grew
  <2>2. /\ UNCHANGED <<whole, know, segs, sums, unseen>>
        /\ pc' = pc \/ (pc' \in {"open", "know", "ready"} /\ pc \in {"again", "reconcile"})
    BY <1>10 DEF LogRequest, ReconcileAgain, ReconcileLogs, backup, Goto
  <2>3. ~unseen
    BY <1>10 DEF LogRequest, ReconcileAgain, ReconcileLogs, LossInv, LossOK
  <2>4. ~Locked
    BY <1>10 DEF LogRequest, ReconcileAgain, ReconcileLogs, LossInv, BaseOK, StoresOK, Locked
  <2>5. QED
    BY <1>10, <2>1, <2>2, <2>3, <2>4 DEF More
<1>11. LogRequest \/ ReconcileAgain \/ ReconcileLogs => raw' = raw \/ (raw.st = "ok" /\ Reconcile)
  BY DEF LogRequest, ReconcileAgain, ReconcileLogs
<1>12. QED
  BY <1>2, <1>3, <1>5, <1>7, <1>8, <1>9, <1>10, <1>11, RawSteps

LEMMA UnseenSteps ==
  ASSUME Next
  PROVE  /\ unseen' = unseen \/ unseen' = FALSE \/ Lose
         /\ forgetting' => forgetting \/ (Register /\ unseen' = unseen)
         /\ pc' = "again" => pc = "again" \/ unseen' = FALSE
         /\ pc' \in {"reconcile"} \cup Serving => pc \in {"reconcile"} \cup Serving \/ CheckBackup
<1>1. unseen' = unseen \/ unseen' = FALSE \/ Lose
  BY DEF Next, Restoring, Opening, Exporting, Beside, Mishap, TakeLock, HandRestore, ReadLogs, Serving,
  Clear, Build, Stage, MoveKnowledgeAside, MoveSegmentsAside, OpenKnowledge, Rewind, CheckBackup,
  Consume, StartExport, WriteChecksum, WriteSegment, NextKind, GoOn, Leave, FindsDamage, Goto, Stopped, Working,
  Kill, Fail, HookAppend, ReaderOpens, Register, LogRequest, OpenStore, TakeSwap,
  Quarantine, Swap, ReconcileAgain, ReconcileLogs, Curate, Damage, Lose, Rot, Removed
<1>2. forgetting' = forgetting \/ forgetting' = FALSE \/ (Register /\ unseen' = unseen)
  BY DEF Next, Restoring, Opening, Exporting, Beside, Mishap, TakeLock, HandRestore, ReadLogs, Serving,
  Clear, Build, Stage, MoveKnowledgeAside, MoveSegmentsAside, OpenKnowledge, Rewind, CheckBackup,
  Consume, StartExport, WriteChecksum, WriteSegment, NextKind, GoOn, Leave, FindsDamage, Goto, Stopped, Working,
  Kill, Fail, HookAppend, ReaderOpens, Register, LogRequest, OpenStore, TakeSwap,
  Quarantine, Swap, ReconcileAgain, ReconcileLogs, Curate, Damage, Lose, Rot, Removed
<1>3. pc' = "again" => pc = "again" \/ Swap
  BY DEF Next, Restoring, Opening, Exporting, Beside, Mishap, TakeLock, HandRestore, ReadLogs, Serving,
  Clear, Build, Stage, MoveKnowledgeAside, MoveSegmentsAside, OpenKnowledge, Rewind, CheckBackup,
  Consume, StartExport, WriteChecksum, WriteSegment, NextKind, GoOn, Leave, FindsDamage, Goto, Stopped, Working,
  Kill, Fail, HookAppend, ReaderOpens, Register, LogRequest, OpenStore, TakeSwap,
  Quarantine, Swap, ReconcileAgain, ReconcileLogs, Curate, Damage, Lose, Rot, Removed
<1>4. pc' \in {"reconcile"} \cup Serving => pc \in {"reconcile"} \cup Serving \/ CheckBackup
  BY DEF Next, Restoring, Opening, Exporting, Beside, Mishap, TakeLock, HandRestore, ReadLogs, Serving,
  Clear, Build, Stage, MoveKnowledgeAside, MoveSegmentsAside, OpenKnowledge, Rewind, CheckBackup,
  Consume, StartExport, WriteChecksum, WriteSegment, NextKind, GoOn, Leave, FindsDamage, Goto, Stopped, Working,
  Kill, Fail, HookAppend, ReaderOpens, Register, LogRequest, OpenStore, TakeSwap,
  Quarantine, Swap, ReconcileAgain, ReconcileLogs, Curate, Damage, Lose, Rot, Removed
<1>5. QED
  BY <1>1, <1>2, <1>3, <1>4 DEF Swap

LEMMA GrewOrdered ==
  ASSUME NEW n \in Nat, NEW m \in Nat, n <= m, NEW db, NEW ds, Store(db, n), Grew(db, ds, m), Ordered(db)
  PROVE  Ordered(ds)
<1>1. SUFFICES ASSUME NEW k \in Kinds, NEW p \in DOMAIN ds.rows[k], NEW q \in DOMAIN ds.rows[k], p < q
               PROVE  ds.rows[k][p].id <= ds.rows[k][q].id \/ ds.rows[k][p].id <= ds.synced
  BY DEF Ordered
<1> DEFINE f == db.rows[k] g == ds.rows[k]
<1>2. /\ \E b \in Nat : DOMAIN f \subseteq 1 .. b
      /\ \A x \in DOMAIN f : f[x].id \in 1 .. n
  BY TopOf DEF RowOf
<1>3. Longer(f, g, m) /\ db.synced = ds.synced
  BY DEF Grew
<1>4. \A x, y \in DOMAIN f : x < y => f[x].id <= f[y].id \/ f[x].id <= db.synced
  BY DEF Ordered
<1> HIDE DEF f, g
<1>5. /\ Top(f) \in Nat
      /\ \A x \in DOMAIN f : x \in DOMAIN g /\ g[x] = f[x]
      /\ \A x \in DOMAIN g : x \in Nat
      /\ \A x \in DOMAIN g \ DOMAIN f : x > Top(f) /\ g[x].id = m
      /\ \A x \in DOMAIN g : x <= Top(f) => x \in DOMAIN f
  BY <1>2, <1>3, LongerIs
<1>6. \A x \in DOMAIN g : g[x].id \in Nat /\ g[x].id <= m
  BY <1>2, <1>5
<1>7. p \in DOMAIN g /\ q \in DOMAIN g
  BY DEF g
<1>8. CASE q \in DOMAIN f
  <2>1. q <= Top(f)
    BY <1>2, <1>8, TopIs
  <2>2. p \in DOMAIN f
    BY <1>5, <1>7, <2>1, <1>1
  <2>3. QED
    BY <1>1, <1>3, <1>4, <1>5, <1>8, <2>2 DEF g
<1>9. CASE q \notin DOMAIN f
  <2>1. g[q].id = m /\ g[p].id <= m
    BY <1>5, <1>6, <1>7, <1>9
  <2>2. QED
    BY <2>1 DEF g
<1>10. QED
  BY <1>8, <1>9

LEMMA LossNext ==
  ASSUME LossInv, Next
  PROVE  LossOK'
<1>1. DataOK /\ clock \in Nat /\ clock' \in Nat /\ clock <= clock' /\ chance \in [Chances -> Nat]
  BY ClockIs DEF LossInv, BaseOK, TypesOK, DataOK, RunOK
<1>2. AppendsFirst => ~unseen' /\ chance'["lose"] = 0
  <2>1. AppendsFirst => ~unseen /\ chance["lose"] = 0
    BY DEF LossInv, LossOK
  <2>2. AppendsFirst => chance'["lose"] = 0
    BY <1>1, <2>1, ChanceSteps DEF Spend, Chances
  <2>3. unseen' = unseen \/ unseen' = FALSE \/ (Lose /\ chance["lose"] > 0)
    BY UnseenSteps DEF Lose, Spend
  <2>4. QED
    BY <2>1, <2>2, <2>3
<1>3. unseen' => ~forgetting' /\ pc' # "again"
  <2>1. CASE Lose
    BY <2>1 DEF Lose, Goto
  <2>2. unseen /\ Register => FALSE
    BY DEF LossInv, LossOK, Register
  <2>3. CASE ~Lose
    BY <2>2, <2>3, UnseenSteps DEF LossInv, LossOK
  <2>4. QED
    BY <2>1, <2>3
<1>4. pc' \in {"reconcile"} \cup Serving /\ raw'.st = "ok" => ~unseen'
  <2>1. CASE Lose
    BY <2>1 DEF Lose, Goto, Serving
  <2>2. CASE CheckBackup
    BY <2>2 DEF CheckBackup, store
  <2>3. CASE ~Lose /\ ~CheckBackup /\ pc \in {"reconcile"} \cup Serving
    <3>1. raw'.st = "ok" => raw.st = "ok"
      <4>1. raw.st # "none" /\ ~Quarantine /\ ~Swap
        BY <2>3 DEF Serving, LossInv, BaseOK, StoresOK, Opened, Quarantine, Swap
      <4>2. QED
        BY <2>3, <4>1, RawShapes DEF Same, Found, More
    <3>2. QED
      BY <2>3, <3>1, UnseenSteps DEF LossInv, LossOK
  <2>4. QED
    BY <2>1, <2>2, <2>3, UnseenSteps
<1>5. Ordered(whole')
  <2>1. CASE Stage
    <3> DEFINE id == clock + 1
    <3>1. Store(Rebuilt, id) /\ Rebuilt.synced = id /\ whole' = Rebuilt
      BY <2>1, RebuiltIs DEF Stage, LossInv, BaseOK
    <3>4. id \in Nat
      BY <1>1
    <3> HIDE DEF id
    <3>2. \A k \in Kinds : \A q \in DOMAIN Rebuilt.rows[k] : Rebuilt.rows[k][q].id <= id
      <4>1. \A k \in Kinds : Numbering(k, Rebuilt.rows[k], id)
        BY <3>1 DEF Store
      <4>2. \A k \in Kinds : \A q \in DOMAIN Rebuilt.rows[k] : RowOf(k, Rebuilt.rows[k][q], id)
        BY <4>1 DEF Numbering
      <4>3. QED
        BY <3>4, <4>2, RowIs
    <3>3. QED
      BY <3>1, <3>2 DEF Ordered
  <2>2. Ordered(NoStore)
    BY Emptied DEF Ordered
  <2>3. QED
    BY <2>1, <2>2, WholeSteps DEF Finish, LossInv, LossOK
<1>6. Ordered(raw')
  <2>1. Ordered(NoStore) /\ Ordered(Fresh)
    BY Emptied DEF Ordered
  <2>2. Ordered(Live)
    BY <2>1 DEF LossInv, LossOK, Live
  <2>3. CASE Same
    BY <2>3 DEF Same, LossInv, LossOK, Ordered
  <2>4. CASE Found \/ More
    BY <1>1, <2>2, <2>4, LiveIs, GrewOrdered DEF Found, More, LossInv, LossOK, DataOK
  <2>5. CASE Quarantine \/ Swap
    BY <2>1, <2>5 DEF Quarantine, Swap, LossInv, LossOK
  <2>6. CASE Lose
    BY <1>1, <2>6, LoseIs DEF Ordered, LossInv, LossOK
  <2>7. QED
    BY <2>3, <2>4, <2>5, <2>6, RawShapes
<1>7. QED
  BY <1>2, <1>3, <1>4, <1>5, <1>6 DEF LossOK
-----------------------------------------------------------------------------
(* knowledge.db.                                                           *)

ImageInv == LossInv /\ KnowOK

LEMMA BlankTells == DataOK /\ Blank => KnowOK
<1> SUFFICES ASSUME DataOK, Blank, NEW k \in Kinds PROVE Tells(k)
  BY DEF KnowOK
<1>1. know.cp[k] = 0 /\ know.out[k] = {}
  BY DEF Blank
<1>2. Top(raw.rows[k]) \in Nat /\ \A q \in DOMAIN raw.rows[k] : q \in Nat /\ q > 0
  BY TopOf DEF DataOK
<1>3. Made(k, 0) = {}
  BY <1>2 DEF Made
<1>4. QED
  BY <1>1, <1>2, <1>3 DEF Tells

LEMMA KnowPlaces ==
  ASSUME Next
  PROVE  /\ pc' \in {"aside", "quarantine", "swap"} => pc \in {"aside", "quarantine", "swap"} \/ MoveKnowledgeAside
         /\ pc' = "check" => pc = "check" \/ Rewind
         /\ unseen' = unseen \/ unseen' = TRUE \/ Swap \/ (CheckBackup /\ pc = "check" /\ raw.st = "ok")
<1>1. pc' \in {"aside", "quarantine", "swap"} => pc \in {"aside", "quarantine", "swap"} \/ MoveKnowledgeAside
  BY DEF Next, Restoring, Opening, Exporting, Beside, Mishap, TakeLock, HandRestore, ReadLogs, Serving,
  Clear, Build, Stage, MoveKnowledgeAside, MoveSegmentsAside, OpenKnowledge, Rewind, CheckBackup,
  Consume, StartExport, WriteChecksum, WriteSegment, NextKind, GoOn, Leave, FindsDamage, Goto, Stopped, Working,
  Kill, Fail, HookAppend, ReaderOpens, Register, LogRequest, OpenStore, TakeSwap,
  Quarantine, Swap, ReconcileAgain, ReconcileLogs, Curate, Damage, Lose, Rot, Removed
<1>2. pc' = "check" => pc = "check" \/ Rewind
  BY DEF Next, Restoring, Opening, Exporting, Beside, Mishap, TakeLock, HandRestore, ReadLogs, Serving,
  Clear, Build, Stage, MoveKnowledgeAside, MoveSegmentsAside, OpenKnowledge, CheckBackup,
  Consume, StartExport, WriteChecksum, WriteSegment, NextKind, GoOn, Leave, FindsDamage, Goto, Stopped, Working,
  Kill, Fail, HookAppend, ReaderOpens, Register, LogRequest, OpenStore, TakeSwap,
  Quarantine, Swap, ReconcileAgain, ReconcileLogs, Curate, Damage, Lose, Rot, Removed
<1>3. unseen' = unseen \/ unseen' = TRUE \/ Swap \/ (CheckBackup /\ pc = "check" /\ raw.st = "ok")
  BY DEF Next, Restoring, Opening, Exporting, Beside, Mishap, TakeLock, HandRestore, ReadLogs, Serving,
  Clear, Build, Stage, MoveKnowledgeAside, MoveSegmentsAside, OpenKnowledge, Rewind, CheckBackup,
  Consume, StartExport, WriteChecksum, WriteSegment, NextKind, GoOn, Leave, FindsDamage, Goto, Stopped, Working,
  Kill, Fail, HookAppend, ReaderOpens, Register, LogRequest, OpenStore, TakeSwap,
  Quarantine, Swap, ReconcileAgain, ReconcileLogs, Curate, Damage, Lose, Rot, Removed
<1>4. QED
  BY <1>1, <1>2, <1>3

\* What was made stays what was made of the rows up to the checkpoint: where the rows stay,
LEMMA SameTells ==
  ASSUME ImageInv, Next, raw.st # "none", know'.cp = know.cp, know'.out = know.out, Same, ~Swap, ~Rewind,
         NEW k \in Kinds
  PROVE  Tells(k)'
<1>1. Tells(k) /\ raw'.rows = raw.rows /\ (raw'.st = "ok" => raw.st = "ok")
  BY DEF ImageInv, KnowOK, Same
<1>2. Made(k, know.cp[k])' = Made(k, know.cp[k])
  BY <1>1 DEF Made
<1>3. ~unseen' \/ (pc' = "check" /\ raw'.st = "ok") => ~unseen \/ (pc = "check" /\ raw.st = "ok")
  BY <1>1, KnowPlaces
<1>4. QED
  BY <1>1, <1>2, <1>3 DEF Tells

\* where rows come after them,
LEMMA MoreTells ==
  ASSUME ImageInv, Next, raw.st # "none", know' = know, More, NEW k \in Kinds
  PROVE  Tells(k)'
<1> DEFINE f == raw.rows[k] g == raw'.rows[k]
<1>1. Tells(k) /\ ~unseen /\ Longer(f, g, clock')
  BY DEF ImageInv, KnowOK, More, Grew
<1>2. know.cp[k] \in Nat /\ \E m \in Nat : DOMAIN f \subseteq 1 .. m
  BY TopOf DEF ImageInv, LossInv, BaseOK, TypesOK, DataOK, RunOK
<1>3. know.cp[k] <= Top(f) /\ (\A o \in know.out[k] : o[1] \in Nat /\ o[1] <= know.cp[k])
      /\ {o \in know.out[k] : o[1] <= Top(f)} = Made(k, know.cp[k])
  BY <1>1 DEF Tells
<1> HIDE DEF f, g
<1>4. /\ Top(f) \in Nat /\ Top(g) \in Nat /\ Top(f) <= Top(g)
      /\ \A q \in DOMAIN f : q \in DOMAIN g /\ g[q] = f[q]
      /\ \A q \in DOMAIN g : q \in Nat
      /\ \A q \in DOMAIN g : q <= Top(f) => q \in DOMAIN f
  BY <1>1, <1>2, LongerIs
<1>5. {x \in DOMAIN g : x <= know.cp[k]} = {x \in DOMAIN f : x <= know.cp[k]}
  BY <1>2, <1>3, <1>4
<1>6. Made(k, know.cp[k])' = Made(k, know.cp[k])
  <2>1. \A x \in DOMAIN g : x <= know.cp[k] => g[x] = f[x]
    BY <1>4, <1>5
  <2>2. {<<q, g[q].id>> : q \in {x \in DOMAIN g : x <= know.cp[k]}} = {<<q, f[q].id>> : q \in {x \in DOMAIN f : x <= know.cp[k]}}
    BY <1>5, <2>1
  <2>3. QED
    BY <2>2 DEF Made, f, g
<1>7. {o \in know.out[k] : o[1] <= Top(g)} = {o \in know.out[k] : o[1] <= Top(f)}
  BY <1>2, <1>3, <1>4
<1>8. know.cp[k] <= Top(g)
  BY <1>2, <1>3, <1>4
<1>9. QED
  BY <1>3, <1>6, <1>7, <1>8 DEF Tells, f, g
\* A power loss takes what is above a number of each kind.
LEMMA LosePrefix ==
  ASSUME LossInv, Lose, NEW k \in Kinds
  PROVE  LET f == raw.rows[k] g == raw'.rows[k] IN
         /\ Top(g) \in Nat /\ Top(g) <= Top(f)
         /\ DOMAIN g = {q \in DOMAIN f : q <= Top(g)}
         /\ \A q \in DOMAIN g : g[q] = f[q]
<1> DEFINE f == raw.rows[k] g == raw'.rows[k]
<1>1. DataOK /\ clock \in Nat /\ raw.synced \in Nat
  BY DEF LossInv, BaseOK, TypesOK, DataOK, RunOK, Store, Lose
<1>2. PICK c \in raw.synced .. (clock - 1) :
        /\ DOMAIN g = {q \in DOMAIN f : f[q].id <= c}
        /\ \A q \in DOMAIN g : g[q] = f[q]
        /\ Store(raw', clock)
  BY <1>1, LoseIs
<1>3. \A p, q \in DOMAIN f : p < q => f[p].id <= f[q].id \/ f[p].id <= raw.synced
  BY DEF LossInv, LossOK, Ordered
<1>4. Top(f) \in Nat /\ \A q \in DOMAIN f : q \in Nat /\ q > 0 /\ q <= Top(f) /\ f[q].id \in Nat
  <2>1. \A q \in DOMAIN f : RowOf(k, f[q], clock)
    BY <1>1, TopOf DEF DataOK
  <2>2. \A q \in DOMAIN f : f[q].id \in Nat
    BY <1>1, <2>1, RowIs
  <2>3. QED
    BY <1>1, <2>2, TopOf DEF DataOK
<1>5. Top(g) \in Nat /\ (Top(g) = 0 \/ Top(g) \in DOMAIN g) /\ \A q \in DOMAIN g : q \in Nat /\ q > 0 /\ q <= Top(g)
  BY <1>2, TopOf
<1> HIDE DEF f, g
<1>6. Top(g) <= Top(f)
  BY <1>2, <1>4, <1>5
<1>7. DOMAIN g = {q \in DOMAIN f : q <= Top(g)}
  <2>1. ASSUME NEW p \in DOMAIN f, p <= Top(g), p \notin DOMAIN g PROVE FALSE
    <3>1. Top(g) \in DOMAIN g /\ Top(g) \in DOMAIN f /\ p < Top(g) /\ f[Top(g)].id <= c
      BY <1>2, <1>4, <1>5, <2>1
    <3>2. f[p].id <= c
      BY <1>1, <1>3, <1>4, <3>1
    <3>3. QED
      BY <1>2, <2>1, <3>2
  <2>2. QED
    BY <1>2, <1>5, <2>1
<1>8. QED
  BY <1>2, <1>5, <1>6, <1>7 DEF f, g

\* and where the last commits are lost.
LEMMA LoseTells ==
  ASSUME ImageInv, Next, know' = know, Lose, NEW k \in Kinds
  PROVE  Tells(k)'
<1> DEFINE f == raw.rows[k] g == raw'.rows[k]
<1>1. DataOK /\ Tells(k) /\ know.cp[k] \in Nat /\ LossInv
  BY DEF ImageInv, LossInv, BaseOK, TypesOK, DataOK, RunOK, Store, KnowOK, Lose
<1>2. /\ Top(g) \in Nat /\ Top(g) <= Top(f)
      /\ DOMAIN g = {q \in DOMAIN f : q <= Top(g)}
      /\ \A q \in DOMAIN g : g[q] = f[q]
  BY <1>1, LosePrefix
<1>4. Top(f) \in Nat /\ \A q \in DOMAIN f : q \in Nat
  BY <1>1, TopOf DEF DataOK
<1>6. \A o \in know.out[k] : o[1] \in Nat /\ o[1] <= know.cp[k]
  BY <1>1 DEF Tells
<1>7. {o \in know.out[k] : o[1] <= Top(f)} = {<<q, f[q].id>> : q \in {x \in DOMAIN f : x <= know.cp[k]}}
  BY <1>1 DEF Tells, Made
<1> HIDE DEF f, g
<1>10. {o \in know.out[k] : o[1] <= Top(g)} = {<<q, g[q].id>> : q \in {x \in DOMAIN g : x <= know.cp[k]}}
  <2>1. ASSUME NEW o \in know.out[k], o[1] <= Top(g)
        PROVE  o \in {<<q, g[q].id>> : q \in {x \in DOMAIN g : x <= know.cp[k]}}
    <3>1. o[1] <= Top(f)
      BY <1>2, <1>4, <1>6, <2>1
    <3>2. PICK q \in DOMAIN f : q <= know.cp[k] /\ o = <<q, f[q].id>>
      BY <1>7, <2>1, <3>1
    <3>3. q \in DOMAIN g /\ g[q] = f[q]
      BY <1>2, <1>4, <2>1, <3>2
    <3>4. QED
      BY <3>2, <3>3
  <2>2. ASSUME NEW q \in DOMAIN g, q <= know.cp[k]
        PROVE  <<q, g[q].id>> \in know.out[k] /\ q <= Top(g)
    <3>1. q \in DOMAIN f /\ g[q] = f[q]
      BY <1>2
    <3>2. <<q, f[q].id>> \in know.out[k]
      BY <1>7, <2>2, <3>1
    <3>3. QED
      BY <1>2, <3>1, <3>2
  <2>3. QED
    BY <2>1, <2>2
<1>11. pc' = "idle" /\ unseen' = TRUE
  BY DEF Lose, Goto
<1>12. QED
  BY <1>6, <1>10, <1>11 DEF Tells, Made, f, g

\* A rewind and a consumer keep it.
LEMMA RewindTells ==
  ASSUME ImageInv, Next, Rewind, NEW k \in Kinds
  PROVE  Tells(k)'
<1> DEFINE top == [j \in Kinds |-> Top(raw.rows[j])]
           cp == [j \in Kinds |-> Min({know.cp[j], top[j]})]
           out == [j \in Kinds |-> {o \in know.out[j] : know.cp[j] > top[j] => o[1] <= top[j]}]
           f == raw.rows[k]
<1>1. know' = [know EXCEPT !.cp = cp, !.out = out] /\ raw' = raw /\ raw.st = "ok"
  BY DEF Rewind, store
<1>2. DOMAIN know = {"st", "cp", "out"} /\ know.cp[k] \in Nat
  BY DEF ImageInv, LossInv, BaseOK, TypesOK, RunOK
<1>3. Top(f) \in Nat /\ \A q \in DOMAIN f : q \in Nat /\ q <= Top(f)
  BY TopOf DEF ImageInv, LossInv, BaseOK, TypesOK, DataOK
<1>4. Tells(k)
  BY <1>1 DEF ImageInv, KnowOK
<1>5. cp[k] \in Nat /\ cp[k] = IF know.cp[k] <= Top(f) THEN know.cp[k] ELSE Top(f)
  BY <1>2, <1>3, Smaller
<1>6. out[k] = {o \in know.out[k] : know.cp[k] > Top(f) => o[1] <= Top(f)}
  OBVIOUS
<1> HIDE DEF cp, out, top
<1>7. know'.cp = cp /\ know'.out = out
  BY <1>1, <1>2
<1>8. /\ \A o \in know.out[k] : o[1] \in Nat /\ o[1] <= know.cp[k]
      /\ {o \in know.out[k] : o[1] <= Top(f)} = Made(k, know.cp[k])
  BY <1>4 DEF Tells
<1>9. {o \in out[k] : o[1] <= Top(f)} = {o \in know.out[k] : o[1] <= Top(f)}
  BY <1>6
<1>10. Made(k, know.cp[k]) = Made(k, cp[k])
  <2>1. {x \in DOMAIN f : x <= know.cp[k]} = {x \in DOMAIN f : x <= cp[k]}
    BY <1>2, <1>3, <1>5
  <2>2. QED
    BY <2>1 DEF Made, f
<1>11. \A o \in out[k] : o[1] \in Nat /\ o[1] <= cp[k]
  BY <1>2, <1>3, <1>5, <1>6, <1>8
<1>12. cp[k] <= Top(f)
  BY <1>2, <1>3, <1>5
<1>13. Made(k, cp[k])' = Made(k, cp[k])'
  OBVIOUS
<1>14. Tells(k)' <=>
         /\ \A o \in know'.out[k] : o[1] \in Nat /\ o[1] <= know'.cp[k]
         /\ {o \in know'.out[k] : o[1] <= Top(raw'.rows[k])} =
              {<<q, raw'.rows[k][q].id>> : q \in {x \in DOMAIN raw'.rows[k] : x <= know'.cp[k]}}
         /\ ~unseen' \/ (pc' = "check" /\ raw'.st = "ok") => know'.cp[k] <= Top(raw'.rows[k])
  BY DEF Tells, Made
<1>15. {o \in out[k] : o[1] <= Top(f)} = {<<q, f[q].id>> : q \in {x \in DOMAIN f : x <= cp[k]}}
  BY <1>8, <1>9, <1>10 DEF Made
<1>16. QED
  BY <1>1, <1>7, <1>11, <1>12, <1>14, <1>15

LEMMA ConsumeTells ==
  ASSUME ImageInv, Next, Consume, NEW k \in Kinds
  PROVE  Tells(k)'
<1>1. PICK j \in Kinds :
        /\ know.cp[j] < Top(raw.rows[j])
        /\ know' = [know EXCEPT
             !.cp[j] = Top(raw.rows[j]),
             !.out[j] = @ \cup {<<q, raw.rows[j][q].id>> : q \in {x \in DOMAIN raw.rows[j] : x > know.cp[j]}}]
  BY DEF Consume
<1> DEFINE f == raw.rows[j]
           more == know.out[j] \cup {<<q, f[q].id>> : q \in {x \in DOMAIN f : x > know.cp[j]}}
           cp == [know.cp EXCEPT ![j] = Top(f)]
           out == [know.out EXCEPT ![j] = more]
<1>2. DOMAIN know = {"st", "cp", "out"} /\ know.cp \in [Kinds -> Nat] /\ DOMAIN know.out = Kinds
  BY DEF ImageInv, LossInv, BaseOK, TypesOK, RunOK
<1>3. know' = [know EXCEPT !.cp = cp, !.out = out]
  BY <1>1, <1>2
<1> HIDE DEF cp, out
<1>4. know'.cp = cp /\ know'.out = out
  BY <1>2, <1>3
<1>5. raw' = raw /\ unseen' = unseen /\ pc' = pc /\ raw.st = "ok" /\ pc = "ready"
  BY DEF Consume, store, Working
<1>6. Tells(k)
  BY <1>5 DEF ImageInv, KnowOK
<1>7. CASE k # j
  <2>1. know'.cp[k] = know.cp[k] /\ know'.out[k] = know.out[k]
    BY <1>2, <1>4, <1>7 DEF cp, out
  <2>2. QED
    BY <1>5, <1>6, <2>1 DEF Tells, Made
<1>8. CASE k = j
  <2>1. know'.cp[k] = Top(f) /\ know'.out[k] = more
    BY <1>2, <1>4, <1>8 DEF cp, out
  <2>2. Top(f) \in Nat /\ know.cp[j] \in Nat /\ know.cp[j] < Top(f) /\ \A q \in DOMAIN f : q \in Nat /\ q <= Top(f)
    BY <1>1, <1>2, TopOf DEF ImageInv, LossInv, BaseOK, TypesOK, DataOK
  <2>3. /\ \A o \in know.out[j] : o[1] \in Nat /\ o[1] <= know.cp[j]
        /\ {o \in know.out[j] : o[1] <= Top(f)} = {<<q, f[q].id>> : q \in {x \in DOMAIN f : x <= know.cp[j]}}
    BY <1>6, <1>8 DEF Tells, Made
  <2> HIDE DEF f
  <2>4. \A o \in more : o[1] \in Nat /\ o[1] <= Top(f)
    BY <2>2, <2>3
  <2>5. know.out[j] = {<<q, f[q].id>> : q \in {x \in DOMAIN f : x <= know.cp[j]}}
    <3>1. \A o \in know.out[j] : o[1] <= Top(f)
      BY <2>2, <2>3
    <3>2. QED
      BY <2>3, <3>1
  <2>6. more = {<<q, f[q].id>> : q \in {x \in DOMAIN f : x <= Top(f)}}
    <3>1. {x \in DOMAIN f : x <= Top(f)} = {x \in DOMAIN f : x <= know.cp[j]} \cup {x \in DOMAIN f : x > know.cp[j]}
      BY <2>2
    <3>2. QED
      BY <2>5, <3>1
  <2> HIDE DEF more
  <2>7. {o \in more : o[1] <= Top(f)} = {<<q, f[q].id>> : q \in {x \in DOMAIN f : x <= Top(f)}}
    BY <2>4, <2>6
  <2>8. Top(f) <= Top(f)
    BY <2>2
  <2>9. QED
    BY <1>5, <1>8, <2>1, <2>4, <2>7, <2>8 DEF Tells, Made, f
<1>9. QED
  BY <1>7, <1>8

LEMMA KnowNext ==
  ASSUME ImageInv, Next
  PROVE  KnowOK'
<1>1. DataOK' /\ LossInv
  BY DataNext DEF ImageInv, LossInv, BaseOK, TypesOK
<1>2. (DataOK /\ Blank => KnowOK)'
  BY BlankTells, PTL
<1>3. CASE Blank'
  BY <1>1, <1>2, <1>3
<1>4. know'.cp = know.cp /\ know'.out = know.out => (Blank => Blank')
  BY DEF Blank
<1>5. MoveKnowledgeAside => Blank'
  BY DEF MoveKnowledgeAside, Blank, NoKnowledge
<1>6. OpenKnowledge => Blank' \/ (know'.cp = know.cp /\ know'.out = know.out)
  BY DEF OpenKnowledge, Blank, NoKnowledge
<1>7. Damage => know'.cp = know.cp /\ know'.out = know.out
  <2>1. DOMAIN know = {"st", "cp", "out"}
    BY DEF ImageInv, LossInv, BaseOK, TypesOK, RunOK
  <2>2. QED
    BY <2>1 DEF Damage
<1>8. Quarantine \/ Swap => know' = know /\ Blank
  BY DEF Quarantine, Swap, ImageInv, KnowOK
<1>9. CASE raw.st # "none" /\ know'.cp = know.cp /\ know'.out = know.out /\ ~Swap /\ ~Quarantine
  <2>1. ~Rewind \/ Rewind
    OBVIOUS
  <2>2. CASE Same /\ ~Rewind
    <3>1. \A k \in Kinds : Tells(k)'
      BY <1>9, <2>2, SameTells
    <3>2. raw'.st # "none"
      BY <1>9, <2>2 DEF Same
    <3>3. pc' \in {"aside", "quarantine", "swap"} => Blank'
      BY <1>4, <1>5, <1>9, KnowPlaces DEF ImageInv, KnowOK
    <3>4. QED
      BY <3>1, <3>2, <3>3 DEF KnowOK
  <2>3. CASE More
    <3>1. \A k \in Kinds : Tells(k)'
      BY <1>9, <2>3, MoreTells DEF More
    <3>2. raw'.st = "ok"
      BY <2>3 DEF More
    <3>3. pc' \in {"aside", "quarantine", "swap"} => Blank'
      BY <1>4, <1>5, <1>9, KnowPlaces DEF ImageInv, KnowOK
    <3>4. QED
      BY <3>1, <3>2, <3>3 DEF KnowOK
  <2>4. CASE Lose
    <3>1. know' = know /\ pc' = "idle"
      BY <2>4 DEF Lose, Goto
    <3>2. \A k \in Kinds : Tells(k)'
      BY <2>4, <3>1, LoseTells
    <3>3. raw'.st = "ok"
      BY <2>4, LoseIs DEF ImageInv, LossInv, BaseOK, TypesOK
    <3>4. QED
      BY <3>1, <3>2, <3>3 DEF KnowOK
  <2>5. CASE Rewind
    <3>1. \A k \in Kinds : Tells(k)'
      BY <2>5, RewindTells
    <3>2. raw'.st = "ok" /\ pc' = "check"
      BY <2>5 DEF Rewind, Goto, store
    <3>3. QED
      BY <3>1, <3>2 DEF KnowOK
  <2>6. QED
    BY <1>1, <1>9, <2>2, <2>3, <2>4, <2>5, RawShapes DEF Found
<1>10. CASE Rewind
  <2>1. \A k \in Kinds : Tells(k)'
    BY <1>10, RewindTells
  <2>2. raw'.st = "ok" /\ pc' = "check"
    BY <1>10 DEF Rewind, Goto, store
  <2>3. QED
    BY <2>1, <2>2 DEF KnowOK
<1>11. CASE Consume
  <2>1. \A k \in Kinds : Tells(k)'
    BY <1>11, ConsumeTells
  <2>2. raw'.st = "ok" /\ pc' = "ready"
    BY <1>11 DEF Consume, Working, store
  <2>3. QED
    BY <2>1, <2>2 DEF KnowOK
<1>12. CASE raw.st = "none" /\ know'.cp = know.cp /\ know'.out = know.out
  BY <1>3, <1>4, <1>12 DEF ImageInv, KnowOK
<1>13. QED
  BY <1>3, <1>4, <1>5, <1>6, <1>7, <1>8, <1>9, <1>10, <1>11, <1>12, KnowSteps

LEMMA LossInit ==
  ASSUME Init, Watched
  PROVE  LossInv
<1>1. Ordered(NoStore)
  BY Emptied DEF Ordered
<1>2. LossOK
  BY <1>1 DEF Init, Watched, LossOK, Serving
<1>3. QED
  BY <1>2, BaseInit DEF LossInv

LEMMA LossStep ==
  ASSUME LossInv, [Next]_vars
  PROVE  LossInv'
<1>1. BaseOK'
  BY BaseNext DEF LossInv
<1>2. CASE UNCHANGED vars
  BY <1>1, <1>2 DEF LossInv, LossOK, Ordered, vars, store
<1>3. QED
  BY <1>1, <1>2, LossNext DEF LossInv

LEMMA ImageStep ==
  ASSUME ImageInv, [Next]_vars
  PROVE  ImageInv'
<1>1. LossInv'
  BY LossStep DEF ImageInv
<1>2. CASE UNCHANGED vars
  BY <1>1, <1>2 DEF ImageInv, KnowOK, Tells, Made, Blank, vars, store
<1>3. QED
  BY <1>1, <1>2, KnowNext DEF ImageInv

\* While a run works, knowledge.db is what was made of exactly raw.db's rows up to its
\* checkpoints (OutputIsImage), wherever a power loss is seen by a check before a row is added.
THEOREM OutputsAreImages ==
  ASSUME Watched
  PROVE  Spec => []OutputIsImage
<1>1. Init => ImageInv
  <2>1. Init => LossInv
    BY LossInit
  <2>2. Init => Blank
    BY DEF Init, NoKnowledge, Blank
  <2>3. QED
    BY <2>1, <2>2, BlankTells DEF ImageInv, LossInv, BaseOK, TypesOK
<1>2. ImageInv => OutputIsImage
  <2> SUFFICES ASSUME ImageInv, Ready, raw.st = "ok", NEW k \in Kinds
               PROVE  know.out[k] = {<<q, raw.rows[k][q].id>> : q \in {x \in DOMAIN raw.rows[k] : x <= know.cp[k]}}
    BY DEF OutputIsImage
  <2>1. ~unseen /\ Tells(k)
    BY DEF ImageInv, LossInv, LossOK, KnowOK, Ready, Serving
  <2>2. Top(raw.rows[k]) \in Nat /\ know.cp[k] \in Nat
    BY TopOf DEF ImageInv, LossInv, BaseOK, TypesOK, DataOK, RunOK
  <2>3. \A o \in know.out[k] : o[1] <= Top(raw.rows[k])
    BY <2>1, <2>2 DEF Tells
  <2>4. know.out[k] = {o \in know.out[k] : o[1] <= Top(raw.rows[k])}
    BY <2>3
  <2>5. QED
    BY <2>1, <2>4 DEF Tells, Made
<1>3. QED
  BY <1>1, <1>2, ImageStep, PTL DEF Spec
-----------------------------------------------------------------------------
(* The segments.                                                           *)

LEMMA SegIs ==
  ASSUME DataOK, NEW s \in segs
  PROVE  /\ s.kind \in Kinds /\ s.first \in Nat /\ s.first > 0 /\ s.last \in Nat /\ s.first <= s.last
         /\ \A q \in DOMAIN s.rows : q \in Nat /\ s.first <= q /\ q <= s.last
<1>1. /\ s.kind \in Kinds /\ s.first \in Nat \ {0} /\ s.last \in Nat /\ s.first <= s.last
      /\ DOMAIN s.rows \subseteq s.first .. s.last
  BY DEF DataOK, Segment
<1>2. QED
  BY <1>1

LEMMA LastIs ==
  ASSUME DataOK, NEW found, found \subseteq segs
  PROVE  /\ Last(found) \in Nat /\ \A s \in found : s.last <= Last(found)
         /\ Last(found) = 0 \/ \E s \in found : s.last = Last(found)
<1> DEFINE S == {s.last : s \in found} \cup {0}
<1>1. PICK m \in Nat : \A s \in segs : s.last <= m
  BY DEF DataOK
<1>2. S \in SUBSET Nat /\ S # {} /\ \A x \in S : x <= m
  BY <1>1, SegIs
<1>3. Max(S) \in S /\ \A y \in S : y <= Max(S)
  <2> HIDE DEF S
  <2>1. QED
    BY <1>1, <1>2, Greatest
<1>4. Max(S) \in Nat
  BY <1>2, <1>3
<1>5. QED
  BY <1>3, <1>4 DEF Last

\* Of some segments one begins first.
LEMMA FirstOf ==
  ASSUME DataOK, NEW found, found \subseteq segs, found # {}
  PROVE  \E t \in found : \A s \in found : t.first <= s.first
<1> DEFINE S == {s.first : s \in found}
<1>1. S \in SUBSET Nat /\ S # {}
  BY SegIs
<1>2. Min(S) \in S /\ \A y \in S : Min(S) <= y
  <2> HIDE DEF S
  <2>1. QED
    BY <1>1, Least
<1>3. QED
  BY <1>2

LEMMA SealSteps ==
  ASSUME Next
  PROVE  \/ UNCHANGED <<segs, sums>>
         \/ \E found \in SUBSET segs : SetAside(found)
         \/ WriteChecksum \/ WriteSegment \/ Rot \/ Removed
<1>1. Skipped \in SUBSET segs /\ \A kind : Untrusted(kind) \in SUBSET segs
  BY DEF Skipped, Untrusted, PastTheEnd, AfterAHole, Of
<1>2. MoveSegmentsAside => \E found \in SUBSET segs : SetAside(found)
  BY <1>1 DEF MoveSegmentsAside
<1>3. CheckBackup => UNCHANGED <<segs, sums>> \/ \E found \in SUBSET segs : SetAside(found)
  <2>1. Untrusted("records") \cup Untrusted("ops") \in SUBSET segs
    BY <1>1
  <2>2. QED
    BY <2>1 DEF CheckBackup, backup
<1>4. StartExport => \E found \in SUBSET segs : SetAside(found)
  BY <1>1 DEF StartExport
<1>5. NextKind => UNCHANGED <<segs, sums>> \/ \E found \in SUBSET segs : SetAside(found)
  BY <1>1 DEF NextKind, backup
<1>6. \/ UNCHANGED <<segs, sums>> \/ MoveSegmentsAside \/ CheckBackup \/ StartExport \/ NextKind
      \/ WriteChecksum \/ WriteSegment \/ Rot \/ Removed
  BY DEF Next, Restoring, Opening, Exporting, Beside, Mishap, TakeLock, HandRestore, ReadLogs, backup,
  Clear, Build, Stage, MoveKnowledgeAside, OpenKnowledge, Rewind,
  Consume, GoOn, Leave, FindsDamage, Kill, Fail, HookAppend, ReaderOpens, Register, LogRequest, OpenStore, TakeSwap,
  Quarantine, Swap, ReconcileAgain, ReconcileLogs, Curate, Damage, Lose
<1>7. QED
  BY <1>2, <1>3, <1>4, <1>5, <1>6

\* What rows a segment has of the store it is written from.
Wrote(t) ==
  LET rows == raw.rows[run.kind] IN
  /\ t.kind = run.kind /\ t.first = run.first /\ t.last = run.last
  /\ DOMAIN t.rows = {q \in DOMAIN rows : run.first <= q /\ q <= run.last}
  /\ \A q \in DOMAIN t.rows : t.rows[q] = rows[q]
LEMMA WriteIs ==
  ASSUME WriteSegment
  PROVE  /\ pc = "seal" /\ pc' = "export" /\ UNCHANGED <<raw, whole, made, sums, know, unseen, run, clock>>
         /\ \E t : segs' = segs \cup {t} /\ Wrote(t)
<1> DEFINE rows == raw.rows[run.kind]
           t == [kind |-> run.kind, first |-> run.first, last |-> run.last, rotten |-> FALSE,
                 rows |-> Restrict(rows, {q \in DOMAIN rows : run.first <= q /\ q <= run.last})]
<1>1. segs' = segs \cup {t}
  BY DEF WriteSegment
<1>2. Wrote(t)
  BY DEF Wrote, Restrict
<1> HIDE DEF t
<1>3. \E u : segs' = segs \cup {u} /\ Wrote(u)
  BY <1>1, <1>2
<1>4. QED
  BY <1>3 DEF WriteSegment, Goto, store

\* The file of a segment is damaged.
LEMMA RotIs ==
  ASSUME DataOK, Rot
  PROVE  \E s \in segs : \E t : /\ segs' = (segs \ {s}) \cup {t}
                                 /\ t.kind = s.kind /\ t.first = s.first /\ t.last = s.last /\ t.rows = s.rows
                                 /\ t.rotten = TRUE
<1>1. PICK s \in segs : segs' = (segs \ {s}) \cup {[s EXCEPT !.rotten = TRUE]}
  BY DEF Rot
<1> DEFINE t == [s EXCEPT !.rotten = TRUE]
<1>2. t.kind = s.kind /\ t.first = s.first /\ t.last = s.last /\ t.rows = s.rows /\ t.rotten = TRUE
  BY DEF DataOK, Segment
<1> HIDE DEF t
<1>3. segs' = (segs \ {s}) \cup {t}
  BY <1>1 DEF t
<1>4. QED
  BY <1>2, <1>3

SealInv == LossInv /\ SegsOK /\ AgreeOK /\ ExportOK

\* Two segments of one name are one, so setting some aside leaves the others their checksums.
LEMMA SegsAside ==
  ASSUME DataOK, SegsOK, NEW found \in SUBSET segs, SetAside(found)
  PROVE  SegsOK'
<1>1. segs' = segs \ found /\ sums' = sums \ {Name(s) : s \in found}
  BY DEF SetAside
<1>2. \A s \in segs', t \in found : Name(s) # Name(t)
  <2>1. ASSUME NEW s \in segs', NEW t \in found, Name(s) = Name(t)
        PROVE  FALSE
    <3>1. s \in segs /\ t \in segs /\ s # t
      BY <1>1
    <3>2. s.kind = t.kind /\ s.first = t.first /\ s.last = t.last
      BY <2>1 DEF Name
    <3>3. s.last < t.first \/ t.last < s.first
      BY <3>1, <3>2 DEF SegsOK
    <3>4. QED
      BY <3>1, <3>2, <3>3, SegIs
  <2>2. QED
    BY <2>1
<1>3. \A s \in segs' : /\ s.last \in DOMAIN s.rows /\ Name(s) \in sums
                       /\ s.kind = "ops" => DOMAIN s.rows = s.first .. s.last
  BY <1>1 DEF SegsOK
<1>4. \A s \in segs' : Name(s) \in sums'
  BY <1>1, <1>2, <1>3
<1>5. \A s, t \in segs' : s.kind = t.kind /\ s # t => s.last < t.first \/ t.last < s.first
  BY <1>1 DEF SegsOK
<1>6. QED
  BY <1>3, <1>4, <1>5 DEF SegsOK, Name

\* A segment that is written is whole and after the others of its kind.
LEMMA SegsWrite ==
  ASSUME DataOK, RunOK, SegsOK, AgreeOK, ExportOK, WriteSegment
  PROVE  SegsOK'
<1>1. pc = "seal" /\ sums' = sums
  BY WriteIs
<1>2. PICK t : segs' = segs \cup {t} /\ Wrote(t)
  BY WriteIs
<1> DEFINE rows == raw.rows[run.kind]
<1>3. /\ run.first \in DOMAIN rows /\ run.last \in DOMAIN rows
      /\ \A s \in Of(run.kind) : s.last < run.first
      /\ <<run.kind, run.first, run.last>> \in sums
  BY <1>1 DEF ExportOK
<1>4. run.first \in Nat /\ run.last \in Nat /\ run.first > 0 /\ run.first <= run.last
  BY <1>1 DEF RunOK
<1>5. t.last \in DOMAIN t.rows /\ Name(t) \in sums'
  BY <1>1, <1>2, <1>3, <1>4 DEF Wrote, Name
<1>6. t.kind = "ops" => DOMAIN t.rows = t.first .. t.last
  <2>1. ASSUME t.kind = "ops"
        PROVE  DOMAIN t.rows = t.first .. t.last
    <3>1. run.kind = "ops" /\ Gapless(raw)
      BY <1>2, <2>1 DEF Wrote, AgreeOK
    <3>2. 1 .. run.last \subseteq DOMAIN rows
      BY <1>3, <3>1 DEF Gapless
    <3>3. \A q \in DOMAIN rows : q \in Nat
      BY TopIs DEF DataOK, RunOK, Store, Numbering
    <3>4. DOMAIN t.rows = {q \in DOMAIN rows : run.first <= q /\ q <= run.last} /\ t.first = run.first /\ t.last = run.last
      BY <1>2 DEF Wrote
    <3> HIDE DEF rows
    <3>5. QED
      BY <1>4, <3>2, <3>3, <3>4
  <2>2. QED
    BY <2>1
<1>7. \A s \in segs : s.kind = t.kind => s.last < t.first
  BY <1>2, <1>3 DEF Wrote, Of
<1>8. QED
  BY <1>1, <1>2, <1>5, <1>6, <1>7 DEF SegsOK, Name

LEMMA SegsNext == SealInv /\ Next => SegsOK'
<1> SUFFICES ASSUME SealInv, Next PROVE SegsOK'
  OBVIOUS
<1>1. DataOK /\ RunOK /\ SegsOK /\ AgreeOK /\ ExportOK
  BY DEF SealInv, LossInv, BaseOK, TypesOK
<1>2. CASE UNCHANGED <<segs, sums>>
  BY <1>1, <1>2 DEF SegsOK, Name
<1>3. CASE \E found \in SUBSET segs : SetAside(found)
  BY <1>1, <1>3, SegsAside
<1>4. CASE WriteChecksum
  <2>1. segs' = segs /\ sums \subseteq sums'
    BY <1>4 DEF WriteChecksum
  <2>2. QED
    BY <1>1, <2>1 DEF SegsOK, Name
<1>5. CASE WriteSegment
  BY <1>1, <1>5, SegsWrite
<1>6. CASE Rot
  <2>1. PICK s \in segs : \E t : /\ segs' = (segs \ {s}) \cup {t}
                                 /\ t.kind = s.kind /\ t.first = s.first /\ t.last = s.last /\ t.rows = s.rows
                                 /\ t.rotten = TRUE
    BY <1>1, <1>6, RotIs
  <2>2. PICK t : /\ segs' = (segs \ {s}) \cup {t}
                 /\ t.kind = s.kind /\ t.first = s.first /\ t.last = s.last /\ t.rows = s.rows
    BY <2>1
  <2>3. sums' = sums
    BY <1>6 DEF Rot
  <2>4. QED
    BY <1>1, <2>2, <2>3 DEF SegsOK, Name
<1>7. CASE Removed
  <2>1. segs' \subseteq segs /\ sums' = sums
    BY <1>7 DEF Removed
  <2>2. QED
    BY <1>1, <2>1 DEF SegsOK, Name
<1>8. QED
  BY <1>2, <1>3, <1>4, <1>5, <1>6, <1>7, SealSteps
-----------------------------------------------------------------------------
(* What segments and stores agree on.                                      *)

\* Rows without a gap stay so when rows are added after the last.
LEMMA NoGap ==
  ASSUME NEW f, NEW g, NEW id, \E m \in Nat : DOMAIN f \subseteq 1 .. m, Longer(f, g, id),
         \A q \in DOMAIN f : 1 .. q \subseteq DOMAIN f
  PROVE  \A q \in DOMAIN g : 1 .. q \subseteq DOMAIN g
<1>1. /\ Top(f) \in Nat /\ Top(g) \in Nat /\ Top(f) <= Top(g)
      /\ \A q \in DOMAIN f : q \in DOMAIN g
      /\ \A q \in DOMAIN g : q \in Nat /\ q > 0 /\ q <= Top(g)
      /\ \A q \in Top(f) + 1 .. Top(g) : q \in DOMAIN g
  BY LongerIs
<1>2. 1 .. Top(f) \subseteq DOMAIN f
  BY TopIs
<1>3. 1 .. Top(g) \subseteq DOMAIN g
  BY <1>1, <1>2
<1>4. QED
  BY <1>1, <1>3

\* A segment holds of a store what it holds of one that only grew, where it reached no further.
LEMMA StillHolds ==
  ASSUME NEW f, NEW g, NEW id, \E m \in Nat : DOMAIN f \subseteq 1 .. m, Longer(f, g, id)
  PROVE  \A q \in Nat : q <= Top(f) => /\ q \in DOMAIN g <=> q \in DOMAIN f
                                       /\ q \in DOMAIN f => g[q] = f[q]
BY LongerIs

\* Up to the end of a good segment of ops there are good segments.
LEMMA GoodBelow ==
  ASSUME DataOK, SegsOK, NEW s \in GoodOps, NEW n \in 1 .. s.last
  PROVE  \E t \in GoodOps : n \in DOMAIN t.rows
<1>1. PICK t \in Of("ops") : Claims(t, n) /\ Undamaged(t)
  BY DEF GoodOps
<1>2. s \in segs /\ s.kind = "ops" /\ t \in segs /\ t.kind = "ops"
  BY DEF GoodOps, Of
<1>3. t.first \in Nat /\ t.last \in Nat /\ s.first \in Nat /\ s.last \in Nat /\ s.first <= s.last
  BY <1>2, SegIs
<1>4. n \in Nat /\ t.first <= n /\ n <= t.last /\ n <= s.last
  BY <1>1, <1>3 DEF Claims
<1>5. n \in DOMAIN t.rows
  BY <1>2, <1>3, <1>4 DEF SegsOK
<1>6. t = s \/ t.last < s.first
  BY <1>2, <1>3, <1>4 DEF SegsOK
<1>7. t.last <= s.last
  BY <1>3, <1>6
<1>8. t \in GoodOps
  BY <1>1, <1>3, <1>7 DEF GoodOps
<1>9. QED
  BY <1>5, <1>8

\* What the good segments hold together is what each of them holds.
LEMMA MergedHolds ==
  ASSUME DataOK, SegsOK, NEW k \in Kinds, NEW s \in Good(k), NEW q \in s.first .. s.last
  PROVE  /\ q \in DOMAIN Merged[k] <=> q \in DOMAIN s.rows
         /\ q \in DOMAIN s.rows => Merged[k][q] = s.rows[q]
<1>1. /\ DOMAIN Merged[k] = UNION {DOMAIN t.rows : t \in Good(k)}
      /\ \A p \in DOMAIN Merged[k] : \E t \in Good(k) : p \in DOMAIN t.rows /\ Merged[k][p] = t.rows[p]
      /\ Good(k) \subseteq Of(k)
  BY MergedIs
<1>2. \A t \in Good(k) : q \in DOMAIN t.rows => t = s
  <2>1. ASSUME NEW t \in Good(k), q \in DOMAIN t.rows, t # s
        PROVE  FALSE
    <3>1. t \in segs /\ s \in segs /\ t.kind = s.kind
      BY <1>1 DEF Of
    <3>2. t.last < s.first \/ s.last < t.first
      BY <2>1, <3>1 DEF SegsOK
    <3>3. q \in Nat /\ t.first <= q /\ q <= t.last /\ t.first \in Nat /\ t.last \in Nat /\ s.first \in Nat /\ s.last \in Nat
      BY <2>1, <3>1, SegIs
    <3>4. QED
      BY <3>2, <3>3
  <2>2. QED
    BY <2>1
<1>3. q \in DOMAIN Merged[k] => q \in DOMAIN s.rows
  BY <1>1, <1>2
<1>4. q \in DOMAIN s.rows => q \in DOMAIN Merged[k]
  BY <1>1
<1>5. QED
  BY <1>1, <1>2, <1>3, <1>4

\* What a restore stages agrees with the segments it was made from.
LEMMA StagedHolds ==
  ASSUME TypesOK, SegsOK, "ops" \notin Forgettable
  PROVE  /\ Gapless(Rebuilt) /\ \A s \in GoodSegs : Holds(Rebuilt, s)
         /\ \A s \in GoodRecords : s.last <= Top(Rebuilt.rows["records"])
<1> DEFINE m == Merged
           c == Cut(Merged)
           b == Rebuilt
           id == clock + 1
<1>1. DataOK /\ clock \in Nat
  BY DEF TypesOK, DataOK
<1>2. DOMAIN m = Kinds /\ \A k \in Kinds : Numbering(k, m[k], clock)
  BY <1>1, MergedIs, KindsAre
<1>3. /\ c["records"] = m["records"]
      /\ \A k \in Kinds : Numbering(k, c[k], clock)
      /\ DOMAIN c["ops"] \subseteq DOMAIN m["ops"]
      /\ \A o \in DOMAIN c["ops"] : /\ c["ops"][o] = m["ops"][o]
                                    /\ \A p \in DOMAIN m["ops"] : p <= o => p \in DOMAIN c["ops"]
  <2> HIDE DEF m
  <2>1. /\ Cut(m)["records"] = m["records"]
        /\ \A k \in Kinds : Numbering(k, Cut(m)[k], clock)
        /\ DOMAIN Cut(m)["ops"] \subseteq DOMAIN m["ops"]
        /\ \A o \in DOMAIN Cut(m)["ops"] : /\ Cut(m)["ops"][o] = m["ops"][o]
                                           /\ \A p \in DOMAIN m["ops"] : p <= o => p \in DOMAIN Cut(m)["ops"]
    BY <1>1, <1>2, CutIs
  <2>2. c = Cut(m)
    BY DEF m
  <2>3. QED
    BY <2>1, <2>2
<1>4. /\ \A k \in Kinds : Longer(c[k], b.rows[k], id)
      /\ DOMAIN b.rows["ops"] = DOMAIN c["ops"]
  BY RebuiltIs
<1>5. /\ \A s \in GoodRecords : \A q \in s.first .. s.last :
           /\ q \in DOMAIN m["records"] <=> q \in DOMAIN s.rows
           /\ q \in DOMAIN s.rows => m["records"][q] = s.rows[q]
      /\ \A s \in GoodOps : \A q \in s.first .. s.last :
           /\ q \in DOMAIN m["ops"] <=> q \in DOMAIN s.rows
           /\ q \in DOMAIN s.rows => m["ops"][q] = s.rows[q]
  <2>1. Good("records") = GoodRecords /\ Good("ops") = GoodOps
    BY DEF Good
  <2>2. QED
    BY <1>1, <2>1, MergedHolds, KindsAre
<1>6. /\ \A s \in GoodRecords : s \in segs /\ s.kind = "records"
      /\ \A s \in GoodOps : s \in segs /\ s.kind = "ops"
  BY DEF GoodRecords, GoodOps, Of
<1>7. DOMAIN m["ops"] = UNION {DOMAIN s.rows : s \in GoodOps}
  BY <1>1, MergedIs, KindsAre DEF Good
<1>8. \A q \in DOMAIN m["ops"] : 1 .. q \subseteq DOMAIN m["ops"]
  <2>1. ASSUME NEW q \in DOMAIN m["ops"], NEW n \in 1 .. q
        PROVE  n \in DOMAIN m["ops"]
    <3>1. PICK s \in GoodOps : q \in DOMAIN s.rows
      BY <1>7
    <3>2. q \in Nat /\ q <= s.last /\ s.last \in Nat
      BY <1>1, <1>6, <3>1, SegIs
    <3>3. n \in 1 .. s.last
      BY <3>2
    <3>4. \E t \in GoodOps : n \in DOMAIN t.rows
      BY <1>1, <3>3, GoodBelow
    <3>5. QED
      BY <1>7, <3>4
  <2>2. QED
    BY <2>1
<1> HIDE DEF m, c, b, id
<1>9. \A k \in Kinds : /\ \E n \in Nat : DOMAIN c[k] \subseteq 1 .. n
                       /\ \E n \in Nat : DOMAIN m[k] \subseteq 1 .. n
  BY <1>2, <1>3 DEF Numbering
<1>10. \A q \in DOMAIN c["ops"] : 1 .. q \subseteq DOMAIN c["ops"]
  <2>1. \A q \in DOMAIN c["ops"] : q \in Nat
    BY <1>9, KindsAre, TopIs
  <2>2. QED
    BY <1>3, <1>8, <2>1
<1>11. \A q \in DOMAIN b.rows["ops"] : 1 .. q \subseteq DOMAIN b.rows["ops"]
  BY <1>4, <1>10
<1>12. \A k \in Kinds : \A q \in Nat : q <= Top(c[k]) => /\ q \in DOMAIN b.rows[k] <=> q \in DOMAIN c[k]
                                                         /\ q \in DOMAIN c[k] => b.rows[k][q] = c[k][q]
  BY <1>4, <1>9, StillHolds
<1>13. \A k \in Kinds : Top(c[k]) \in Nat /\ Top(b.rows[k]) \in Nat /\ Top(c[k]) <= Top(b.rows[k])
  BY <1>4, <1>9, LongerIs
<1>14. ASSUME NEW s \in GoodRecords
       PROVE  Holds(b, s) /\ s.last <= Top(b.rows["records"])
  <2>1. s \in segs /\ s.kind = "records" /\ s.last \in DOMAIN s.rows
    BY <1>6 DEF SegsOK
  <2>2. s.first \in Nat /\ s.last \in Nat /\ s.first <= s.last
    BY <1>1, <2>1, SegIs
  <2>3. s.last \in DOMAIN c["records"]
    BY <1>3, <1>5, <2>1, <2>2
  <2>4. s.last <= Top(c["records"])
    BY <1>9, <2>3, KindsAre, TopIs
  <2>5. \A q \in s.first .. s.last : q \in Nat /\ q <= Top(c["records"])
    BY <1>13, <2>2, <2>4, KindsAre
  <2>6. s.last <= Top(b.rows["records"])
    BY <1>13, <2>2, <2>4, KindsAre
  <2>7. \A q \in s.first .. s.last :
          /\ q \in DOMAIN b.rows["records"] <=> q \in DOMAIN s.rows
          /\ q \in DOMAIN s.rows => b.rows["records"][q] = s.rows[q]
    BY <1>3, <1>5, <1>12, <2>5, KindsAre
  <2>8. QED
    BY <2>1, <2>6, <2>7 DEF Holds
<1>15. ASSUME NEW s \in GoodOps
       PROVE  Holds(b, s)
  <2>1. s \in segs /\ s.kind = "ops" /\ DOMAIN s.rows = s.first .. s.last
    BY <1>6 DEF SegsOK
  <2>2. s.first \in Nat /\ s.first > 0 /\ s.last \in Nat /\ s.first <= s.last
    BY <1>1, <2>1, SegIs
  <2>3. Top(b.rows["ops"]) = Top(c["ops"])
    BY <1>4 DEF Top
  <2>4. CASE s.last > Top(c["ops"])
    BY <2>1, <2>3, <2>4 DEF Holds
  <2>5. CASE s.last <= Top(c["ops"])
    <3>1. Top(c["ops"]) \in DOMAIN c["ops"]
      BY <1>9, <2>2, <2>5, KindsAre, TopIs
    <3>2. \A q \in s.first .. s.last : q \in DOMAIN c["ops"] /\ q \in DOMAIN m["ops"]
      BY <1>3, <1>10, <1>13, <2>2, <2>5, <3>1, KindsAre
    <3>3. \A q \in s.first .. s.last : q \in Nat /\ q <= Top(c["ops"])
      BY <1>13, <2>2, <2>5, KindsAre
    <3>4. \A q \in s.first .. s.last : b.rows["ops"][q] = c["ops"][q] /\ q \in DOMAIN b.rows["ops"]
      BY <1>12, <3>2, <3>3, KindsAre
    <3>5. \A q \in s.first .. s.last : c["ops"][q] = m["ops"][q] /\ m["ops"][q] = s.rows[q]
      BY <1>3, <1>5, <2>1, <3>2
    <3>6. QED
      BY <2>1, <3>4, <3>5 DEF Holds
  <2>6. QED
    BY <1>13, <2>2, <2>4, <2>5, KindsAre
<1>16. QED
  BY <1>11, <1>14, <1>15 DEF GoodSegs, Gapless, b

LEMMA AgreePlaces ==
  ASSUME Next
  PROVE  /\ pc' \in {"knowledge", "aside"} =>
              Stage \/ (pc \in {"knowledge", "aside"} /\ UNCHANGED <<segs, sums, whole>>)
         /\ pc' \in {"quarantine", "swap"} =>
              MoveSegmentsAside \/ (pc \in {"quarantine", "swap"} /\ UNCHANGED <<segs, sums, whole>>)
         /\ unseen => unseen' \/ Swap \/ (CheckBackup /\ raw.st = "ok")
<1>1. pc' \in {"knowledge", "aside"} =>
        Stage \/ (pc \in {"knowledge", "aside"} /\ UNCHANGED <<segs, sums, whole>>)
  BY DEF Next, Restoring, Opening, Exporting, Beside, Mishap, TakeLock, HandRestore, ReadLogs, backup, store, Locked,
  Clear, Build, MoveKnowledgeAside, MoveSegmentsAside, OpenKnowledge, Rewind, CheckBackup,
  Consume, StartExport, WriteChecksum, WriteSegment, NextKind, GoOn, Leave, FindsDamage, Goto, Stopped, Working,
  Kill, Fail, HookAppend, ReaderOpens, Register, LogRequest, OpenStore, TakeSwap,
  Quarantine, Swap, ReconcileAgain, ReconcileLogs, Curate, Damage, Lose, Rot, Removed
<1>2. pc' \in {"quarantine", "swap"} =>
        MoveSegmentsAside \/ (pc \in {"quarantine", "swap"} /\ UNCHANGED <<segs, sums, whole>>)
  BY DEF Next, Restoring, Opening, Exporting, Beside, Mishap, TakeLock, HandRestore, ReadLogs, backup, store, Locked,
  Clear, Build, Stage, MoveKnowledgeAside, OpenKnowledge, Rewind, CheckBackup,
  Consume, StartExport, WriteChecksum, WriteSegment, NextKind, GoOn, Leave, FindsDamage, Goto, Stopped, Working,
  Kill, Fail, HookAppend, ReaderOpens, Register, LogRequest, OpenStore, TakeSwap,
  Quarantine, Swap, ReconcileAgain, ReconcileLogs, Curate, Damage, Lose, Rot, Removed
<1>3. unseen => unseen' \/ Swap \/ (CheckBackup /\ raw.st = "ok")
  BY KnowPlaces
<1>4. QED
  BY <1>1, <1>2, <1>3

\* A store under the second name goes only to be the first.
LEMMA WholeStays ==
  ASSUME DataOK, StoresOK, Next, raw.st = "none", raw'.st = "none"
  PROVE  whole' = whole
<1>1. \/ whole' = whole \/ HookAppend \/ ReaderOpens \/ OpenStore \/ TakeSwap \/ Clear \/ Stage \/ Swap
  BY DEF Next, Restoring, Opening, Exporting, Beside, Mishap, store, TakeLock, HandRestore, ReadLogs,
  Build, MoveKnowledgeAside, MoveSegmentsAside, OpenKnowledge, Rewind, CheckBackup,
  Consume, StartExport, WriteChecksum, WriteSegment, NextKind, GoOn, Leave, FindsDamage,
  Rot, Removed, Kill, Fail, Register, LogRequest,
  Quarantine, ReconcileAgain, ReconcileLogs, Curate, Damage, Lose
<1>2. HookAppend => raw'.st = "ok"
  BY HookAppendIs
<1>3. Live.st # "none"
  BY LiveIs
<1>4. TakeSwap => whole' = whole \/ raw' = Live
  BY DEF TakeSwap, Finish, Waiting, Missing, store
<1>5. ~Clear /\ ~Stage
  BY DEF StoresOK, Clear, Stage
<1>6. ~Swap
  BY DEF StoresOK, Swap
<1>7. ReaderOpens => raw' = whole /\ whole.st # "none"
  BY DEF ReaderOpens, Waiting
<1>8. OpenStore => raw' = Live
  BY DEF OpenStore
<1>9. QED
  BY <1>1, <1>2, <1>3, <1>4, <1>5, <1>6, <1>7, <1>8

\* But for a segment that is written, those there are were there, in kind and rows.
Similar == \A t \in segs' : \E s \in segs : t.kind = s.kind /\ t.first = s.first /\ t.last = s.last /\ t.rows = s.rows
LEMMA SegsSimilar ==
  ASSUME DataOK, Next
  PROVE  Similar \/ WriteSegment
<1>1. CASE UNCHANGED <<segs, sums>>
  BY <1>1 DEF Similar
<1>2. CASE \E found \in SUBSET segs : SetAside(found)
  BY <1>2 DEF Similar, SetAside
<1>3. CASE WriteChecksum
  BY <1>3 DEF Similar, WriteChecksum
<1>4. CASE Rot
  <2>1. \E s \in segs : \E t : /\ segs' = (segs \ {s}) \cup {t}
                               /\ t.kind = s.kind /\ t.first = s.first /\ t.last = s.last /\ t.rows = s.rows
                               /\ t.rotten = TRUE
    BY <1>4, RotIs
  <2>2. QED
    BY <2>1 DEF Similar
<1>5. CASE Removed
  BY <1>5 DEF Similar, Removed
<1>6. QED
  BY <1>1, <1>2, <1>3, <1>4, <1>5, SealSteps

\* The first store of a home finds no segments.
LEMMA NothingYet ==
  ASSUME StoresOK, raw.st = "none", ~Waiting
  PROVE  segs = {}
BY DEF StoresOK, Waiting

\* A store that holds a segment's rows holds them when rows are added after its last.
LEMMA GrownHolds ==
  ASSUME DataOK, NEW s \in segs, NEW db, NEW ds, NEW id, NEW n \in Nat, Store(db, n), Grew(db, ds, id), Holds(db, s)
  PROVE  /\ s.last <= Top(db.rows[s.kind]) => Holds(ds, s) /\ s.last <= Top(ds.rows[s.kind])
         /\ DOMAIN ds.rows[s.kind] = DOMAIN db.rows[s.kind] => Holds(ds, s)
<1> DEFINE f == db.rows[s.kind] g == ds.rows[s.kind]
<1>1. /\ s.kind \in Kinds /\ s.first \in Nat /\ s.last \in Nat
  BY SegIs
<1>2. Longer(f, g, id) /\ \E m \in Nat : DOMAIN f \subseteq 1 .. m
  BY <1>1 DEF Grew, Store, Numbering
<1>3. Top(f) \in Nat /\ Top(g) \in Nat /\ Top(f) <= Top(g)
  BY <1>2, LongerIs
<1>4. \A q \in Nat : q <= Top(f) => /\ q \in DOMAIN g <=> q \in DOMAIN f
                                    /\ q \in DOMAIN f => g[q] = f[q]
  BY <1>2, StillHolds
<1>5. \/ s.last > Top(f)
      \/ \A q \in s.first .. s.last : /\ q \in DOMAIN f <=> q \in DOMAIN s.rows
                                      /\ q \in DOMAIN s.rows => f[q] = s.rows[q]
  BY DEF Holds
<1>6. DOMAIN g = DOMAIN f => Top(g) = Top(f)
  BY DEF Top
<1> HIDE DEF f, g
<1>7. ASSUME s.last <= Top(f)
      PROVE  s.last <= Top(g) /\ \A q \in s.first .. s.last : /\ q \in DOMAIN g <=> q \in DOMAIN s.rows
                                                              /\ q \in DOMAIN s.rows => g[q] = s.rows[q]
  BY <1>1, <1>3, <1>4, <1>5, <1>7
<1>8. QED
  BY <1>1, <1>3, <1>5, <1>6, <1>7 DEF Holds, f, g
-----------------------------------------------------------------------------
(* That they go on to agree.                                               *)

\* What a run and the segments it writes are while it works.
LEMMA WriteWhere ==
  ASSUME SealInv, WriteSegment
  PROVE  /\ raw.st # "none" /\ raw' = raw /\ whole' = whole /\ unseen' = unseen /\ pc' = "export"
         /\ \E t : segs' = segs \cup {t} /\ Wrote(t) /\ t.last <= Top(raw.rows[t.kind]) /\ Holds(raw, t)
<1>1. pc = "seal" /\ UNCHANGED <<raw, whole, unseen>> /\ pc' = "export"
  BY WriteIs
<1>2. raw.st # "none"
  BY <1>1 DEF SealInv, LossInv, BaseOK, StoresOK, Opened
<1>3. PICK t : segs' = segs \cup {t} /\ Wrote(t)
  BY WriteIs
<1>4. run.kind \in Kinds /\ Store(raw, clock) /\ run.last \in DOMAIN raw.rows[run.kind]
  BY <1>1 DEF SealInv, LossInv, BaseOK, TypesOK, RunOK, DataOK, ExportOK
<1>5. t.last <= Top(raw.rows[t.kind])
  BY <1>3, <1>4, TopOf DEF Wrote
<1>6. Holds(raw, t)
  BY <1>3 DEF Wrote, Holds
<1>7. QED
  BY <1>1, <1>2, <1>3, <1>5, <1>6

LEMMA GapNext ==
  ASSUME SealInv, Next, "ops" \notin Forgettable
  PROVE  Gapless(raw') /\ Gapless(whole')
<1>1. /\ Gapless(raw) /\ Gapless(whole) /\ TypesOK /\ DataOK /\ SegsOK /\ LossInv
      /\ Store(raw, clock) /\ Store(Live, clock)
  BY LiveIs DEF SealInv, AgreeOK, LossInv, BaseOK, TypesOK, DataOK
<1>2. Gapless(NoStore) /\ Gapless(Fresh)
  BY Emptied, KindsAre DEF Gapless
<1>3. Gapless(Live)
  BY <1>1, <1>2 DEF Live
<1>4. Gapless(whole')
  BY <1>1, <1>2, WholeSteps, StagedHolds DEF Finish, Stage
<1>5. CASE Same \/ Quarantine \/ Swap
  BY <1>1, <1>2, <1>4, <1>5 DEF Same, Quarantine, Swap, Gapless
<1>6. CASE Found
  <2>1. raw' = Live \/ raw'.rows["ops"] = Live.rows["ops"]
    BY <1>6 DEF Found
  <2>2. QED
    BY <1>3, <1>4, <2>1 DEF Gapless
<1>7. CASE More
  <2>1. Longer(raw.rows["ops"], raw'.rows["ops"], clock')
    BY <1>7, KindsAre DEF More, Grew
  <2>2. \E m \in Nat : DOMAIN raw.rows["ops"] \subseteq 1 .. m
    BY <1>1, KindsAre DEF Store, Numbering
  <2>3. \A q \in DOMAIN raw.rows["ops"] : 1 .. q \subseteq DOMAIN raw.rows["ops"]
    BY <1>1 DEF Gapless
  <2> DEFINE f == raw.rows["ops"] g == raw'.rows["ops"] id == clock'
  <2> HIDE DEF f, g, id
  <2>4. \A q \in DOMAIN g : 1 .. q \subseteq DOMAIN g
    <3>1. Longer(f, g, id) /\ (\E m \in Nat : DOMAIN f \subseteq 1 .. m) /\ \A q \in DOMAIN f : 1 .. q \subseteq DOMAIN f
      BY <2>1, <2>2, <2>3 DEF f, g, id
    <3>2. QED
      BY <3>1, NoGap
  <2>5. QED
    BY <1>4, <2>4 DEF Gapless, g
<1>8. CASE Lose
  <2>1. /\ Top(raw'.rows["ops"]) \in Nat
        /\ DOMAIN raw'.rows["ops"] = {q \in DOMAIN raw.rows["ops"] : q <= Top(raw'.rows["ops"])}
    BY <1>1, <1>8, LosePrefix, KindsAre
  <2>2. \A q \in DOMAIN raw.rows["ops"] : q \in Nat
    BY <1>1, TopOf, KindsAre
  <2>3. QED
    BY <1>1, <1>4, <2>1, <2>2 DEF Gapless
<1>9. QED
  BY <1>1, <1>4, <1>5, <1>6, <1>7, <1>8, RawShapes

\* Which segments a step of a store at its place leaves, and what they reach.
LEMMA GrownReaches ==
  ASSUME DataOK, NEW s \in segs, NEW db, NEW ds, NEW id, NEW n \in Nat, Store(db, n), Grew(db, ds, id),
         s.last <= Top(db.rows[s.kind])
  PROVE  s.last <= Top(ds.rows[s.kind])
<1> DEFINE f == db.rows[s.kind] g == ds.rows[s.kind]
<1>1. s.kind \in Kinds /\ s.last \in Nat
  BY SegIs
<1>2. Longer(f, g, id) /\ \E m \in Nat : DOMAIN f \subseteq 1 .. m
  BY <1>1 DEF Grew, Store, Numbering
<1> HIDE DEF f, g
<1>3. Top(f) \in Nat /\ Top(g) \in Nat /\ Top(f) <= Top(g)
  BY <1>2, LongerIs
<1>4. s.last <= Top(f)
  BY DEF f
<1>5. s.last <= Top(g)
  BY <1>1, <1>3, <1>4
<1>6. QED
  BY <1>5 DEF g

\* The store an open finds holds the segments, and goes on to.
LEMMA FoundHolds ==
  ASSUME SealInv, Found, NEW s \in segs
  PROVE  Holds(raw', s) /\ (s.kind = "records" => s.last <= Top(raw'.rows["records"]))
<1>1. DataOK /\ StoresOK /\ clock \in Nat /\ Store(Live, clock)
  BY LiveIs DEF SealInv, LossInv, BaseOK, TypesOK, DataOK
<1>2. raw.st = "none" /\ Waiting
  BY <1>1, NothingYet DEF Found
<1>3. Live = whole
  BY <1>2 DEF Live
<1>4. Holds(Live, s) /\ (s.kind = "records" => s.last <= Top(Live.rows["records"]))
  BY <1>2, <1>3 DEF SealInv, AgreeOK, Reaches, Of
<1>5. CASE raw' = Live
  BY <1>4, <1>5
<1>6. CASE Grew(Live, raw', clock') /\ raw'.rows["ops"] = Live.rows["ops"]
  <2> DEFINE db == Live ds == raw' id == clock'
  <2>1. Store(db, clock) /\ Grew(db, ds, id) /\ Holds(db, s) /\ ds.rows["ops"] = db.rows["ops"]
        /\ (s.kind = "records" => s.last <= Top(db.rows["records"]))
    BY <1>1, <1>4, <1>6
  <2> HIDE DEF db, ds, id
  <2>2. ASSUME s.kind = "records"
        PROVE  Holds(ds, s) /\ s.last <= Top(ds.rows[s.kind])
    BY <1>1, <2>1, <2>2, GrownHolds
  <2>3. ASSUME s.kind = "ops"
        PROVE  Holds(ds, s)
    BY <1>1, <2>1, <2>3, GrownHolds
  <2>4. Holds(ds, s) /\ (s.kind = "records" => s.last <= Top(ds.rows["records"]))
    BY <1>1, <2>2, <2>3, SegIs DEF Kinds
  <2>5. QED
    BY <2>4 DEF ds
<1>7. QED
  BY <1>5, <1>6 DEF Found

LEMMA MoreHolds ==
  ASSUME SealInv, More, "ops" \notin Forgettable, NEW s \in segs
  PROVE  Holds(raw', s) /\ (s.kind = "records" => s.last <= Top(raw'.rows["records"]))
<1>1. DataOK /\ clock \in Nat /\ Store(raw, clock)
  BY DEF SealInv, LossInv, BaseOK, TypesOK, DataOK
<1>2. raw.st = "ok" /\ Grew(raw, raw', clock') /\ ~unseen
  BY DEF More
<1>3. Holds(raw, s) /\ (s.kind = "records" => s.last <= Top(raw.rows[s.kind]))
  BY <1>2 DEF SealInv, AgreeOK, Reaches, Of
<1>4. Curate /\ s.kind = "ops" => s.last <= Top(raw.rows[s.kind])
  BY <1>2 DEF SealInv, AgreeOK, Reaches, Of, Curate, Working, Serving
<1>5. Curate \/ DOMAIN raw'.rows["ops"] = DOMAIN raw.rows["ops"]
  BY DEF More
<1>6. s.kind = "records" \/ s.kind = "ops"
  BY <1>1, SegIs DEF Kinds
<1>7. s.last <= Top(raw.rows[s.kind]) \/ DOMAIN raw'.rows[s.kind] = DOMAIN raw.rows[s.kind]
  BY <1>3, <1>4, <1>5, <1>6
<1> DEFINE ds == raw' id == clock'
<1> HIDE DEF ds, id
<1>8. Grew(raw, ds, id) /\ (s.last <= Top(raw.rows[s.kind]) \/ DOMAIN ds.rows[s.kind] = DOMAIN raw.rows[s.kind])
  BY <1>2, <1>7 DEF ds, id
<1>9. Holds(ds, s) /\ (s.kind = "records" => s.last <= Top(ds.rows[s.kind]))
  BY <1>1, <1>3, <1>8, GrownHolds
<1>10. QED
  BY <1>9 DEF ds

LEMMA LoseHolds ==
  ASSUME SealInv, Lose, NEW s \in segs
  PROVE  Holds(raw', s)
<1>1. DataOK /\ s.kind \in Kinds /\ s.first \in Nat /\ s.last \in Nat /\ LossInv
  BY SegIs DEF SealInv, LossInv, BaseOK, TypesOK
<1>2. Holds(raw, s)
  BY DEF SealInv, AgreeOK, Lose
<1> DEFINE f == raw.rows[s.kind] g == raw'.rows[s.kind]
<1>3. /\ Top(g) \in Nat /\ Top(g) <= Top(f)
      /\ DOMAIN g = {q \in DOMAIN f : q <= Top(g)}
      /\ \A q \in DOMAIN g : g[q] = f[q]
  BY <1>1, LosePrefix
<1>4. Top(f) \in Nat
  BY <1>1, TopOf DEF DataOK
<1>5. \/ s.last > Top(f)
      \/ \A q \in s.first .. s.last : /\ q \in DOMAIN f <=> q \in DOMAIN s.rows
                                      /\ q \in DOMAIN s.rows => f[q] = s.rows[q]
  BY <1>2 DEF Holds
<1> HIDE DEF f, g
<1>6. \/ s.last > Top(g)
      \/ \A q \in s.first .. s.last : /\ q \in DOMAIN g <=> q \in DOMAIN s.rows
                                      /\ q \in DOMAIN s.rows => g[q] = s.rows[q]
  BY <1>1, <1>3, <1>4, <1>5
<1>7. QED
  BY <1>6 DEF Holds, f, g

\* Of raw.db there is, each segment holds what raw.db does where it claims it.
LEMMA HoldsNext ==
  ASSUME SealInv, Next, "ops" \notin Forgettable, raw'.st # "none", NEW t \in segs'
  PROVE  Holds(raw', t)
<1>1. DataOK /\ LossInv
  BY DEF SealInv, LossInv, BaseOK, TypesOK
<1>2. CASE Same
  <2>1. raw.st # "none" /\ raw'.rows = raw.rows
    BY <1>2 DEF Same
  <2>2. \A s \in segs : Holds(raw, s)
    BY <2>1 DEF SealInv, AgreeOK
  <2>3. CASE Similar
    BY <2>1, <2>2, <2>3 DEF Similar, Holds
  <2>4. CASE WriteSegment
    BY <2>1, <2>2, <2>4, WriteWhere DEF Holds
  <2>5. QED
    BY <1>1, <2>3, <2>4, SegsSimilar
<1>3. CASE Found
  BY <1>3, FoundHolds DEF Found
<1>4. CASE Quarantine
  BY <1>4, Emptied DEF Quarantine
<1>5. CASE Swap
  BY <1>5 DEF Swap, backup, SealInv, AgreeOK
<1>6. CASE More
  BY <1>6, MoreHolds DEF More
<1>7. CASE Lose
  BY <1>7, LoseHolds DEF Lose, backup
<1>8. QED
  BY <1>1, <1>2, <1>3, <1>4, <1>5, <1>6, <1>7, RawShapes

LEMMA ReachNext ==
  ASSUME SealInv, Next, "ops" \notin Forgettable, raw'.st # "none", ~unseen', NEW t \in segs', t.kind = "records"
  PROVE  t.last <= Top(raw'.rows["records"])
<1>1. DataOK /\ LossInv /\ ~Lose
  BY DEF SealInv, LossInv, BaseOK, TypesOK, Lose
<1>2. CASE Swap
  BY <1>2 DEF Swap, backup, SealInv, AgreeOK, Reaches, Of
<1>3. CASE CheckBackup /\ raw.st = "ok"
  <2>1. t \in segs /\ t \notin Untrusted("records") /\ raw' = raw
    BY <1>3 DEF CheckBackup, SetAside, store
  <2>2. t \in Of("records") /\ t \notin PastTheEnd("records")
    BY <2>1 DEF Untrusted, Of
  <2>3. t.last \in Nat /\ Top(raw.rows["records"]) \in Nat
    BY <1>1, <2>1, SegIs, TopOf, KindsAre DEF DataOK
  <2>4. QED
    BY <2>1, <2>2, <2>3 DEF PastTheEnd
<1>4. CASE Same /\ ~unseen
  <2>1. raw.st # "none" /\ raw'.rows = raw.rows
    BY <1>4 DEF Same
  <2>2. \A s \in segs : s.kind = "records" => s.last <= Top(raw.rows["records"])
    BY <1>4, <2>1 DEF SealInv, AgreeOK, Reaches, Of
  <2>3. CASE Similar
    BY <2>1, <2>2, <2>3 DEF Similar
  <2>4. CASE WriteSegment
    BY <2>1, <2>2, <2>4, WriteWhere
  <2>5. QED
    BY <1>1, <2>3, <2>4, SegsSimilar
<1>5. CASE Found
  BY <1>5, FoundHolds DEF Found
<1>6. CASE More
  BY <1>6, MoreHolds DEF More
<1>7. ~Quarantine
  BY Emptied DEF Quarantine
<1>8. QED
  BY <1>1, <1>2, <1>3, <1>4, <1>5, <1>6, <1>7, RawShapes, AgreePlaces

LEMMA OpsReachNext ==
  ASSUME SealInv, Next, pc' \in {"reconcile"} \cup Serving, raw'.st = "ok", NEW t \in segs', t.kind = "ops"
  PROVE  t.last <= Top(raw'.rows["ops"])
<1>1. DataOK /\ LossInv /\ ~Lose
  BY DEF SealInv, LossInv, BaseOK, TypesOK, Lose, Serving, Goto
<1>2. CASE CheckBackup
  <2>1. t \in segs /\ t \notin Untrusted("ops") /\ raw' = raw
    BY <1>2 DEF CheckBackup, SetAside, store
  <2>2. t \in Of("ops") /\ t \notin PastTheEnd("ops")
    BY <2>1 DEF Untrusted, Of
  <2>3. t.last \in Nat /\ Top(raw.rows["ops"]) \in Nat
    BY <1>1, <2>1, SegIs, TopOf, KindsAre DEF DataOK
  <2>4. QED
    BY <2>1, <2>2, <2>3 DEF PastTheEnd
<1>3. CASE pc \in {"reconcile"} \cup Serving
  <2>1. raw.st # "none" /\ ~Found /\ ~Quarantine /\ ~Swap
    BY <1>3 DEF Found, Quarantine, Swap, Serving, SealInv, LossInv, BaseOK, StoresOK, Opened
  <2>2. raw.st = "ok" /\ (Same \/ More)
    BY <1>1, <2>1, RawShapes DEF Same, More
  <2>3. \A s \in segs : s.kind = "ops" => s.last <= Top(raw.rows["ops"])
    BY <1>3, <2>2 DEF SealInv, AgreeOK, Reaches, Of
  <2>4. CASE Same /\ Similar
    BY <2>3, <2>4 DEF Same, Similar
  <2>5. CASE Same /\ WriteSegment
    BY <2>3, <2>5, WriteWhere DEF Same
  <2>6. CASE More
    <3> DEFINE ds == raw' id == clock'
    <3>1. t \in segs /\ t.last <= Top(raw.rows[t.kind]) /\ Grew(raw, ds, id)
      BY <2>3, <2>6 DEF More
    <3>2. clock \in Nat /\ Store(raw, clock)
      BY <1>1 DEF DataOK
    <3> HIDE DEF ds, id
    <3>3. t.last <= Top(ds.rows[t.kind])
      BY <1>1, <3>1, <3>2, GrownReaches
    <3>4. QED
      BY <3>3 DEF ds
  <2>7. QED
    BY <1>1, <2>2, <2>4, <2>5, <2>6, SegsSimilar
<1>4. QED
  BY <1>2, <1>3, UnseenSteps

\* Where raw.db is not under its name, what is to be moved there holds the segments.
LEMMA WholeHoldsNext ==
  ASSUME SealInv, Next, raw'.st = "none" \/ pc' \in {"quarantine", "swap"}, NEW t \in segs'
  PROVE  Holds(whole', t) /\ (t.kind = "records" => t.last <= Top(whole'.rows["records"]))
<1>1. DataOK /\ StoresOK /\ LossInv
  BY DEF SealInv, LossInv, BaseOK, TypesOK
<1>2. CASE MoveSegmentsAside
  <2>1. pc = "aside" /\ whole' = whole /\ segs' = segs \ Skipped
    BY <1>2 DEF MoveSegmentsAside, SetAside, store
  <2>2. t \in GoodSegs /\ (t.kind = "records" => t \in GoodRecords)
    BY <2>1 DEF Skipped, GoodSegs, GoodOps, Of
  <2>3. QED
    BY <2>1, <2>2 DEF SealInv, AgreeOK
<1>3. CASE pc \in {"quarantine", "swap"} /\ UNCHANGED <<segs, sums, whole>>
  BY <1>3 DEF SealInv, AgreeOK, Reaches, Of
<1>4. CASE raw.st = "none" /\ raw'.st = "none"
  <2>1. whole' = whole
    BY <1>1, <1>4, WholeStays
  <2>2. \A s \in segs : Holds(whole, s) /\ (s.kind = "records" => s.last <= Top(whole.rows["records"]))
    BY <1>4 DEF SealInv, AgreeOK, Reaches, Of
  <2>3. Similar
    BY <1>1, <1>4, SegsSimilar, WriteWhere
  <2>4. QED
    BY <2>1, <2>2, <2>3 DEF Similar, Holds
<1>5. raw'.st = "none" => Quarantine \/ raw.st = "none"
  <2>1. Same => (raw'.st = "none" <=> raw.st = "none")
    BY DEF Same
  <2>2. Found => raw.st = "none"
    BY DEF Found
  <2>3. Swap => raw'.st # "none"
    BY <1>1 DEF Swap, StoresOK
  <2>4. More => raw'.st # "none"
    BY DEF More
  <2>5. Lose => raw'.st # "none"
    BY <1>1, LoseIs
  <2>6. QED
    BY <1>1, <2>1, <2>2, <2>3, <2>4, <2>5, RawShapes
<1>6. Quarantine => pc' = "swap"
  BY DEF Quarantine, Goto
<1>7. QED
  BY <1>2, <1>3, <1>4, <1>5, <1>6, AgreePlaces

\* What a restore staged holds the segments it was made from till it moves the others aside.
LEMMA StagedNext ==
  ASSUME SealInv, Next, "ops" \notin Forgettable, pc' \in {"knowledge", "aside"}
  PROVE  (/\ \A s \in GoodSegs : Holds(whole, s)
          /\ \A s \in GoodRecords : s.last <= Top(whole.rows["records"]))'
<1>1. TypesOK /\ SegsOK
  BY DEF SealInv, LossInv, BaseOK
<1>2. CASE Stage
  <2>1. UNCHANGED <<segs, sums>> /\ whole' = Rebuilt
    BY <1>2 DEF Stage, backup
  <2>2. GoodSegs' = GoodSegs /\ GoodRecords' = GoodRecords
    BY <2>1 DEF GoodSegs, GoodRecords, GoodOps, Of, Undamaged, Name
  <2>3. QED
    BY <1>1, <2>1, <2>2, StagedHolds
<1>3. CASE pc \in {"knowledge", "aside"} /\ UNCHANGED <<segs, sums, whole>>
  <2>1. GoodSegs' = GoodSegs /\ GoodRecords' = GoodRecords
    BY <1>3 DEF GoodSegs, GoodRecords, GoodOps, Of, Undamaged, Name
  <2>2. QED
    BY <1>3, <2>1 DEF SealInv, AgreeOK
<1>4. QED
  BY <1>2, <1>3, AgreePlaces

LEMMA AgreeNext ==
  ASSUME SealInv, Next, "ops" \notin Forgettable
  PROVE  AgreeOK'
<1>1. Gapless(raw)' /\ Gapless(whole)'
  BY GapNext DEF Gapless
<1>2. raw'.st # "none" => (\A s \in segs : Holds(raw, s))' /\ (~unseen' => Reaches(raw, "records")')
  BY HoldsNext, ReachNext DEF Reaches, Of
<1>3. pc' \in {"reconcile"} \cup Serving /\ raw'.st = "ok" => Reaches(raw, "ops")'
  BY OpsReachNext DEF Reaches, Of
<1>4. raw'.st = "none" \/ pc' \in {"quarantine", "swap"}
         => (\A s \in segs : Holds(whole, s))' /\ Reaches(whole, "records")'
  BY WholeHoldsNext DEF Reaches, Of
<1>5. pc' \in {"knowledge", "aside"} =>
         (/\ \A s \in GoodSegs : Holds(whole, s)
          /\ \A s \in GoodRecords : s.last <= Top(whole.rows["records"]))'
  BY StagedNext
<1>6. QED
  BY <1>1, <1>2, <1>3, <1>4, <1>5 DEF AgreeOK
-----------------------------------------------------------------------------
(* What an export has gone through.                                        *)

LEMMA LastOf ==
  ASSUME NEW found, NEW m \in Nat, \A s \in found : s.last \in Nat /\ s.last <= m
  PROVE  /\ Last(found) \in Nat /\ \A s \in found : s.last <= Last(found)
         /\ Last(found) = 0 \/ \E s \in found : s.last = Last(found)
<1> DEFINE S == {s.last : s \in found} \cup {0}
<1>1. S \in SUBSET Nat /\ S # {} /\ \A x \in S : x <= m
  OBVIOUS
<1>2. Max(S) \in S /\ \A y \in S : y <= Max(S)
  <2> HIDE DEF S
  <2>1. QED
    BY <1>1, Greatest
<1>3. Max(S) \in Nat
  BY <1>1, <1>2
<1>4. QED
  BY <1>2, <1>3 DEF Last

\* What is left when what cannot be trusted is set aside has every row up to its end.
LEMMA TrustedSealed ==
  ASSUME DataOK, NEW k \in Kinds
  PROVE  SealedBy(Of(k) \ Untrusted(k), raw.rows[k])
<1> DEFINE rows == raw.rows[k]
           rest == Of(k) \ PastTheEnd(k)
           end(s) == Last({t \in rest : t.first < s.first})
           good == Of(k) \ Untrusted(k)
<1>1. Top(rows) \in Nat /\ \A q \in DOMAIN rows : q \in Nat /\ q > 0
  BY TopOf DEF DataOK
<1>2. good \subseteq rest /\ rest \subseteq segs /\ rest \subseteq Of(k)
  BY DEF Untrusted, Of
<1>3. AfterAHole(k) = {s \in rest : \E t \in rest : /\ t.first <= s.first
                                                    /\ \E q \in DOMAIN rows : end(t) < q /\ q < t.first}
  BY DEF AfterAHole
<1>4. \A s \in rest : s.first \in Nat /\ s.last \in Nat /\ s.first <= s.last
  BY <1>2, SegIs
<1>5. \A s \in good : s.last <= Top(rows)
  <2>1. \A s \in good : s \in Of(k) /\ s \notin PastTheEnd(k)
    BY DEF Untrusted
  <2>2. QED
    BY <1>1, <1>2, <1>4, <2>1 DEF PastTheEnd
<1>6. ASSUME NEW q \in DOMAIN rows, q <= Last(good), \A s \in good : ~Claims(s, q)
      PROVE  FALSE
  <2> DEFINE X == {t \in good : q <= t.last}
  <2>1. q \in Nat /\ q > 0
    BY <1>1
  <2>2. good \subseteq segs
    BY <1>2
  <2>3. X \subseteq segs /\ X # {}
    <3>1. Last(good) \in Nat /\ (Last(good) = 0 \/ \E s \in good : s.last = Last(good))
      <4> HIDE DEF good
      <4>1. QED
        BY <2>2, LastIs
    <3>2. q <= Last(good)
      BY <1>6
    <3> HIDE DEF good
    <3>3. \E s \in good : q <= s.last
      BY <2>1, <3>1, <3>2
    <3>4. QED
      BY <2>2, <3>3
  <2>4. PICK t \in X : \A s \in X : t.first <= s.first
    <3> HIDE DEF X
    <3>1. QED
      BY <2>3, FirstOf
  <2>5. t \in good /\ t \in rest /\ q < t.first
    <3>1. t \in good /\ q <= t.last
      OBVIOUS
    <3>2. ~(t.first <= q /\ q <= t.last) /\ t \in rest
      BY <1>2, <1>6, <3>1 DEF Claims
    <3>3. QED
      BY <1>4, <2>1, <3>1, <3>2
  <2>6. \A u \in rest : u.first < t.first => u.last < q
    <3>1. ASSUME NEW u \in rest, u.first < t.first, u \notin AfterAHole(k)
          PROVE  u.last < q
      <4>1. u \in good
        BY <1>2, <3>1 DEF Untrusted
      <4>2. u \notin X
        BY <1>2, <1>4, <2>4, <2>5, <3>1
      <4>3. QED
        BY <1>4, <2>1, <4>1, <4>2
    <3>2. ASSUME NEW u \in rest, u.first < t.first, u \in AfterAHole(k)
          PROVE  FALSE
      <4>1. PICK v \in rest : v.first <= u.first /\ \E p \in DOMAIN rows : end(v) < p /\ p < v.first
        BY <1>3, <3>2
      <4>2. v.first <= t.first
        BY <1>4, <2>5, <3>2, <4>1
      <4>3. t \in AfterAHole(k)
        BY <1>3, <2>5, <4>1, <4>2
      <4>4. QED
        BY <2>5, <4>3 DEF Untrusted
    <3>3. QED
      BY <3>1, <3>2
  <2>7. end(t) < q
    <3> DEFINE before == {u \in rest : u.first < t.first}
    <3>1. before \subseteq segs /\ \A u \in before : u.last < q
      BY <1>2, <2>6
    <3>2. Last(before) = 0 \/ \E u \in before : u.last = Last(before)
      <4> HIDE DEF before
      <4>1. QED
        BY <3>1, LastIs
    <3>3. QED
      BY <2>1, <3>1, <3>2
  <2>8. t \in AfterAHole(k)
    <3>1. t \in rest /\ t.first <= t.first /\ end(t) < q /\ q < t.first /\ q \in DOMAIN rows
      BY <1>4, <2>5, <2>7
    <3> HIDE DEF end, rest, rows
    <3>2. QED
      BY <1>3, <3>1
  <2>9. QED
    BY <2>5, <2>8 DEF Untrusted
<1>7. \A q \in DOMAIN rows : q <= Last(good) => \E s \in good : Claims(s, q)
  BY <1>6
<1>8. QED
  BY <1>5, <1>7 DEF SealedBy

\* so that of what an export has gone through there is nothing it cannot trust.
LEMMA SealedTrusted ==
  ASSUME DataOK, NEW k \in Kinds, Sealed(k)
  PROVE  Untrusted(k) = {} /\ Cursor(k) = Last(Of(k)) /\ Last(Of(k)) <= Top(raw.rows[k])
<1> DEFINE rows == raw.rows[k]
           end(s) == Last({t \in Of(k) : t.first < s.first})
<1>1. Top(rows) \in Nat /\ \A q \in DOMAIN rows : q \in Nat /\ q > 0
  BY TopOf DEF DataOK
<1>2. Of(k) \subseteq segs /\ \A s \in Of(k) : s.first \in Nat /\ s.last \in Nat /\ s.first <= s.last
  BY SegIs DEF Of
<1>3. /\ \A s \in Of(k) : s.last <= Top(rows)
      /\ \A q \in DOMAIN rows : q <= Last(Of(k)) => \E s \in Of(k) : Claims(s, q)
  BY DEF Sealed, SealedBy
<1>4. PastTheEnd(k) = {}
  BY <1>1, <1>2, <1>3 DEF PastTheEnd
<1>5. AfterAHole(k) = {s \in Of(k) : \E t \in Of(k) : /\ t.first <= s.first
                                                      /\ \E q \in DOMAIN rows : end(t) < q /\ q < t.first}
  BY <1>4 DEF AfterAHole
<1>6. Last(Of(k)) \in Nat /\ (\A s \in Of(k) : s.last <= Last(Of(k)))
      /\ (Last(Of(k)) = 0 \/ \E s \in Of(k) : s.last = Last(Of(k)))
  BY <1>2, LastIs
<1>7. ASSUME NEW t \in Of(k), NEW q \in DOMAIN rows, end(t) < q, q < t.first
      PROVE  FALSE
  <2>1. q <= Last(Of(k))
    BY <1>1, <1>2, <1>6, <1>7
  <2>2. PICK u \in Of(k) : u.first <= q /\ q <= u.last
    BY <1>3, <2>1 DEF Claims
  <2> DEFINE before == {v \in Of(k) : v.first < t.first}
  <2>3. u \in before /\ before \subseteq segs
    BY <1>1, <1>2, <1>7, <2>2
  <2>4. Last(before) \in Nat /\ u.last <= Last(before)
    <3> HIDE DEF before
    <3>1. QED
      BY <2>3, LastIs
  <2>5. QED
    BY <1>1, <1>2, <1>7, <2>2, <2>4
<1>8. Untrusted(k) = {}
  BY <1>4, <1>5, <1>7 DEF Untrusted
<1>9. Last(Of(k)) <= Top(rows)
  BY <1>1, <1>3, <1>6
<1>10. Cursor(k) = Last(Of(k))
  BY <1>8 DEF Cursor
<1>11. QED
  BY <1>8, <1>9, <1>10

LEMMA ExportPlaces ==
  ASSUME Next, pc' \in {"export", "seal", "backed"}
  PROVE  StartExport \/ WriteChecksum \/ WriteSegment \/ NextKind \/ UNCHANGED <<pc, run, segs, sums>>
BY DEF Next, Restoring, Opening, Exporting, Beside, Mishap, TakeLock, HandRestore, ReadLogs, backup, store, Locked,
  Clear, Build, Stage, MoveKnowledgeAside, MoveSegmentsAside, OpenKnowledge, Rewind, CheckBackup,
  Consume, GoOn, Leave, FindsDamage, Goto, Stopped, Working,
  Kill, Fail, HookAppend, ReaderOpens, Register, LogRequest, OpenStore, TakeSwap,
  Quarantine, Swap, ReconcileAgain, ReconcileLogs, Curate, Damage, Lose, Rot, Removed

\* Rows that come after the last are not yet gone through.
LEMMA SealedGrows ==
  ASSUME DataOK, NEW k \in Kinds, Sealed(k), NEW g, NEW id, Longer(raw.rows[k], g, id)
  PROVE  /\ SealedBy(Of(k), g)
         /\ \A q \in DOMAIN g : q <= Top(raw.rows[k]) => q \in DOMAIN raw.rows[k]
         /\ \A q \in DOMAIN raw.rows[k] : q \in DOMAIN g
<1> DEFINE f == raw.rows[k]
<1>1. /\ \E m \in Nat : DOMAIN f \subseteq 1 .. m
      /\ Longer(f, g, id)
  BY TopOf DEF DataOK
<1>2. Last(Of(k)) <= Top(f) /\ \A s \in Of(k) : s.last <= Top(f)
  BY SealedTrusted DEF Sealed, SealedBy
<1>3. \A q \in DOMAIN f : q <= Last(Of(k)) => \E s \in Of(k) : Claims(s, q)
  BY DEF Sealed, SealedBy
<1>4. Of(k) \subseteq segs /\ Last(Of(k)) \in Nat /\ \A s \in Of(k) : s.last \in Nat
  <2>1. Of(k) \subseteq segs
    BY DEF Of
  <2>2. QED
    BY <2>1, LastIs, SegIs
<1> HIDE DEF f
<1>5. /\ Top(f) \in Nat /\ Top(g) \in Nat /\ Top(f) <= Top(g)
      /\ \A q \in DOMAIN f : q \in DOMAIN g
      /\ \A q \in DOMAIN g : q \in Nat
      /\ \A q \in DOMAIN g : q <= Top(f) => q \in DOMAIN f
  BY <1>1, LongerIs
<1>6. \A q \in DOMAIN g : q <= Last(Of(k)) => q <= Top(f)
  BY <1>2, <1>4, <1>5
<1>7. \A s \in Of(k) : s.last <= Top(g)
  BY <1>2, <1>4, <1>5
<1>8. SealedBy(Of(k), g)
  BY <1>3, <1>5, <1>6, <1>7 DEF SealedBy
<1>9. QED
  BY <1>5, <1>8 DEF f

\* Beside an export raw.db only grows.
LEMMA ExportGrows ==
  ASSUME SealInv, Next, pc \in {"export", "seal", "backed"}, pc' \in {"export", "seal", "backed"}
  PROVE  \/ raw'.rows = raw.rows
         \/ /\ \A k \in Kinds : Longer(raw.rows[k], raw'.rows[k], clock')
            /\ "ops" \notin Forgettable => DOMAIN raw'.rows["ops"] = DOMAIN raw.rows["ops"]
<1>1. raw.st # "none" /\ ~Found /\ ~Quarantine /\ ~Swap /\ ~Lose
  BY DEF Found, Quarantine, Swap, Lose, Goto, SealInv, LossInv, BaseOK, StoresOK, Opened
<1>2. ~Curate
  BY DEF Curate, Working
<1>3. Same \/ More
  BY <1>1, RawShapes DEF SealInv
<1>4. QED
  BY <1>2, <1>3 DEF Same, More, Grew

LEMMA ExportKept ==
  ASSUME SealInv, Next, "ops" \notin Forgettable, UNCHANGED <<pc, run, segs, sums>>
  PROVE  ExportOK'
<1>1. DataOK /\ run.kind \in Kinds /\ ExportOK
  BY DEF SealInv, LossInv, BaseOK, TypesOK, RunOK
<1>2. CASE pc \notin {"export", "seal", "backed"}
  BY <1>2 DEF ExportOK
<1>3. CASE pc \in {"export", "seal", "backed"} /\ raw'.rows = raw.rows
  BY <1>1, <1>3 DEF ExportOK, Sealed, Of
<1>4. CASE /\ pc \in {"export", "seal", "backed"}
           /\ \A k \in Kinds : Longer(raw.rows[k], raw'.rows[k], clock')
           /\ DOMAIN raw'.rows["ops"] = DOMAIN raw.rows["ops"]
  <2>1. ASSUME NEW k \in Kinds, Sealed(k)
        PROVE  /\ SealedBy(Of(k), raw'.rows[k])
               /\ \A q \in DOMAIN raw'.rows[k] : q <= Top(raw.rows[k]) => q \in DOMAIN raw.rows[k]
               /\ \A q \in DOMAIN raw.rows[k] : q \in DOMAIN raw'.rows[k]
    <3> DEFINE g == raw'.rows[k] id == clock'
    <3>1. Longer(raw.rows[k], g, id)
      BY <1>4
    <3> HIDE DEF g, id
    <3>2. /\ SealedBy(Of(k), g)
          /\ \A q \in DOMAIN g : q <= Top(raw.rows[k]) => q \in DOMAIN raw.rows[k]
          /\ \A q \in DOMAIN raw.rows[k] : q \in DOMAIN g
      BY <1>1, <2>1, <3>1, SealedGrows
    <3>3. QED
      BY <3>2 DEF g
  <2>2. CASE pc = "backed"
    <3>1. Sealed("records") /\ Sealed("ops") /\ \A o \in DOMAIN raw.rows["ops"] : o <= Last(Of("ops"))
      BY <1>1, <2>2 DEF ExportOK
    <3>2. Sealed("records")' /\ Sealed("ops")'
      <4>1. SealedBy(Of("records"), raw'.rows["records"]) /\ SealedBy(Of("ops"), raw'.rows["ops"])
        BY <2>1, <3>1, KindsAre
      <4>2. QED
        BY <4>1 DEF Sealed, Of
    <3>3. QED
      BY <1>4, <2>2, <3>1, <3>2 DEF ExportOK, Of
  <2>3. CASE pc \in {"export", "seal"}
    <3>1. Sealed(run.kind) /\ (run.kind = "ops" => Sealed("records"))
      BY <1>1, <2>3 DEF ExportOK
    <3>2. Sealed(run.kind)' /\ (run'.kind = "ops" => Sealed("records")')
      <4>1. SealedBy(Of(run.kind), raw'.rows[run.kind])
        BY <1>1, <2>1, <3>1
      <4>2. run.kind = "ops" => SealedBy(Of("records"), raw'.rows["records"])
        BY <2>1, <3>1, KindsAre
      <4>3. Of(run.kind)' = Of(run.kind) /\ Of("records")' = Of("records") /\ run' = run
        BY DEF Of
      <4>4. QED
        BY <4>1, <4>2, <4>3 DEF Sealed
    <3>3. ASSUME pc = "seal"
          PROVE  /\ run.first \in DOMAIN raw'.rows[run.kind] /\ run.last \in DOMAIN raw'.rows[run.kind]
                 /\ \A q \in DOMAIN raw'.rows[run.kind] : q < run.first => q <= Last(Of(run.kind))
      <4> DEFINE f == raw.rows[run.kind] g == raw'.rows[run.kind]
      <4>1. /\ run.first \in DOMAIN f /\ run.last \in DOMAIN f
            /\ \A q \in DOMAIN f : q < run.first => q <= Last(Of(run.kind))
        BY <1>1, <3>3 DEF ExportOK
      <4>2. /\ \A q \in DOMAIN g : q <= Top(f) => q \in DOMAIN f
            /\ \A q \in DOMAIN f : q \in DOMAIN g
        BY <1>1, <2>1, <3>1
      <4>3. Top(f) \in Nat /\ run.first <= Top(f) /\ run.first \in Nat
        BY <1>1, <4>1, TopOf DEF DataOK
      <4>4. \A q \in DOMAIN g : q \in Nat
        <5>1. \E m \in Nat : DOMAIN f \subseteq 1 .. m
          BY <1>1, TopOf DEF DataOK
        <5>2. Longer(f, g, clock')
          BY <1>1, <1>4
        <5> DEFINE id == clock'
        <5> HIDE DEF f, g, id
        <5>3. Longer(f, g, id)
          BY <5>2 DEF id
        <5>4. QED
          BY <5>1, <5>3, LongerIs
      <4>5. \A q \in DOMAIN g : q < run.first => q <= Top(f)
        BY <4>3, <4>4
      <4> HIDE DEF f, g
      <4>6. /\ run.first \in DOMAIN g /\ run.last \in DOMAIN g
            /\ \A q \in DOMAIN g : q < run.first => q <= Last(Of(run.kind))
        BY <4>1, <4>2, <4>5
      <4>7. QED
        BY <4>6 DEF g
    <3>4. QED
      <4>1. Of(run.kind)' = Of(run.kind)
        BY DEF Of
      <4>2. pc = "seal" => /\ \A s \in Of(run.kind) : s.last < run.first
                           /\ <<run.kind, run.first, run.last>> \in sums
        BY <1>1 DEF ExportOK
      <4>3. pc' # "backed" /\ UNCHANGED <<pc, run, sums>>
        BY <2>3
      <4>4. QED
        BY <3>2, <3>3, <4>1, <4>2, <4>3 DEF ExportOK
  <2>4. QED
    BY <1>4, <2>2, <2>3
<1>5. QED
  BY <1>2, <1>3, <1>4, ExportGrows

\* An export's own steps.
LEMMA ExportSteps ==
  ASSUME SealInv, StartExport \/ WriteChecksum \/ WriteSegment \/ NextKind
  PROVE  ExportOK'
<1>1. DataOK /\ TypesOK /\ run.kind \in Kinds /\ ExportOK /\ DOMAIN run = {"hand", "kind", "logged", "held", "first", "last"}
  BY DEF SealInv, LossInv, BaseOK, TypesOK, RunOK
<1>2. CASE StartExport
  <2>1. run'.kind = "records" /\ pc' = "export" /\ raw' = raw /\ segs' = segs \ Untrusted("records")
    BY <1>2 DEF StartExport, Goto, SetAside, store, NoRun
  <2>2. SealedBy(Of("records") \ Untrusted("records"), raw.rows["records"])
    BY <1>1, TrustedSealed, KindsAre
  <2>3. Of("records")' = Of("records") \ Untrusted("records")
    BY <2>1 DEF Of
  <2>4. Sealed(run.kind)'
    <3>1. Sealed("records")'
      BY <2>1, <2>2, <2>3 DEF Sealed
    <3>2. QED
      BY <2>1, <3>1 DEF Sealed, Of
  <2>5. QED
    BY <2>1, <2>4 DEF ExportOK
<1>3. CASE WriteChecksum
  <2> DEFINE k == run.kind first == Min(Unsealed(run.kind))
  <2>1. PICK last \in Unsealed(k) : /\ run' = [run EXCEPT !.first = first, !.last = last]
                                    /\ sums' = sums \cup {<<k, first, last>>}
    BY <1>3 DEF WriteChecksum
  <2>2. pc = "export" /\ pc' = "seal" /\ raw' = raw /\ segs' = segs
    BY <1>3 DEF WriteChecksum, Goto, store
  <2>3. run'.kind = k /\ run'.first = first /\ run'.last = last
    <3>1. DOMAIN run = {"hand", "kind", "logged", "held", "first", "last"}
      BY <1>1
    <3>2. run' = [run EXCEPT !.first = first, !.last = last]
      BY <2>1
    <3> HIDE DEF first
    <3>3. QED
      BY <3>1, <3>2
  <2>4. Sealed(k) /\ (k = "ops" => Sealed("records"))
    BY <1>1, <2>2 DEF ExportOK
  <2>5. Sealed(run.kind)' /\ (run'.kind = "ops" => Sealed("records")')
    BY <2>2, <2>3, <2>4 DEF Sealed, Of
  <2>6. /\ first \in Unsealed(k) /\ \A q \in Unsealed(k) : first <= q
        /\ \A q \in Unsealed(k) : q \in Nat /\ q \in DOMAIN raw.rows[k]
    BY <1>1, <2>1, UnsealedLeast
  <2>7. Unsealed(k) = {q \in DOMAIN raw.rows[k] : q > Last(Of(k))}
    BY <1>1, <2>4, SealedTrusted DEF Unsealed
  <2>8. Of(k) \subseteq segs
    BY DEF Of
  <2>9. Last(Of(k)) \in Nat /\ \A s \in Of(k) : s.last \in Nat /\ s.last <= Last(Of(k))
    BY <1>1, <2>8, LastIs, SegIs
  <2>10. \A q \in DOMAIN raw.rows[k] : q \in Nat
    BY <1>1, TopOf DEF DataOK
  <2> HIDE DEF first
  <2>11. first > Last(Of(k)) /\ first \in Nat
    BY <2>6, <2>7
  <2>12. /\ first \in DOMAIN raw.rows[k] /\ last \in DOMAIN raw.rows[k]
         /\ \A s \in Of(k) : s.last < first
         /\ \A q \in DOMAIN raw.rows[k] : q < first => q <= Last(Of(k))
    BY <2>1, <2>6, <2>7, <2>9, <2>10, <2>11
  <2>13. Of(run.kind)' = Of(k)
    BY <2>2, <2>3 DEF Of
  <2>14. /\ run'.first \in DOMAIN raw'.rows[run'.kind] /\ run'.last \in DOMAIN raw'.rows[run'.kind]
         /\ \A s \in Of(run.kind)' : s.last < run'.first
         /\ \A q \in DOMAIN raw'.rows[run'.kind] : q < run'.first => q <= Last(Of(run.kind)')
         /\ <<run'.kind, run'.first, run'.last>> \in sums'
    BY <2>1, <2>2, <2>3, <2>12, <2>13
  <2>15. QED
    BY <2>2, <2>5, <2>14 DEF ExportOK
<1>4. CASE WriteSegment
  <2>1. pc = "seal" /\ pc' = "export" /\ raw' = raw /\ run' = run
    BY <1>4, WriteIs
  <2>2. PICK t : segs' = segs \cup {t} /\ Wrote(t)
    BY <1>4, WriteIs
  <2> DEFINE k == run.kind rows == raw.rows[k]
  <2>3. t.kind = k /\ t.first = run.first /\ t.last = run.last
    BY <2>2 DEF Wrote
  <2>4. /\ Sealed(k) /\ (k = "ops" => Sealed("records"))
        /\ run.first \in DOMAIN rows /\ run.last \in DOMAIN rows
        /\ \A s \in Of(k) : s.last < run.first
        /\ \A q \in DOMAIN rows : q < run.first => q <= Last(Of(k))
    BY <1>1, <2>1 DEF ExportOK
  <2> DEFINE S == Of(k) \cup {t}
  <2>5. {s \in segs' : s.kind = k} = S
    BY <2>2, <2>3 DEF Of
  <2>6. SealedBy(S, rows)
    <3>1. Top(rows) \in Nat /\ \A q \in DOMAIN rows : q \in Nat /\ q > 0 /\ q <= Top(rows)
      BY <1>1, TopOf DEF DataOK
    <3>2. PICK m \in Nat : \A s \in segs : s.last <= m
      BY <1>1 DEF DataOK
    <3>3. Of(k) \subseteq segs /\ run.last \in Nat /\ run.first \in Nat
      BY <2>4, <3>1 DEF Of
    <3>4. \A s \in Of(k) : s.last \in Nat /\ s.last <= m
      BY <1>1, <3>2, <3>3, SegIs
    <3>5. m + run.last \in Nat /\ \A s \in S : s.last \in Nat /\ s.last <= m + run.last
      BY <2>3, <3>3, <3>4
    <3>6. Last(S) = 0 \/ \E s \in S : s.last = Last(S)
      <4> DEFINE b == m + run.last
      <4>1. b \in Nat /\ \A s \in S : s.last \in Nat /\ s.last <= b
        BY <3>5
      <4> HIDE DEF S, b
      <4>2. QED
        BY <4>1, LastOf
    <3>7. ASSUME NEW q \in DOMAIN rows, q <= Last(S)
          PROVE  \E s \in S : Claims(s, q)
      <4>1. PICK s \in S : s.last = Last(S)
        <5>1. Last(S) # 0
          <6>1. q \in Nat /\ q > 0
            BY <3>1
          <6> HIDE DEF S
          <6>2. QED
            BY <3>7, <6>1
        <5>2. QED
          BY <3>6, <5>1
      <4>2. CASE q < run.first
        BY <2>4, <4>2 DEF Sealed, SealedBy
      <4>3. CASE run.first <= q
        <5>1. q <= s.last
          BY <3>7, <4>1
        <5>2. s.last \in Nat /\ q \in Nat
          BY <3>1, <3>5
        <5>3. s = t
          BY <2>4, <3>3, <4>3, <5>1, <5>2
        <5>4. QED
          BY <2>3, <4>3, <5>1, <5>3 DEF Claims
      <4>4. QED
        BY <3>1, <3>3, <4>2, <4>3
    <3>8. \A s \in S : s.last <= Top(rows)
      BY <2>3, <2>4, <3>1 DEF Sealed, SealedBy
    <3> HIDE DEF S, rows
    <3>9. QED
      BY <3>7, <3>8 DEF SealedBy
  <2>7. Sealed(run.kind)'
    BY <2>1, <2>5, <2>6 DEF Sealed, Of
  <2>8. k = "ops" => Sealed("records")'
    <3>1. k = "ops" => {s \in segs' : s.kind = "records"} = Of("records")
      BY <2>2, <2>3 DEF Of
    <3>2. QED
      BY <2>1, <2>4, <3>1 DEF Sealed, Of
  <2>9. QED
    BY <2>1, <2>7, <2>8 DEF ExportOK
<1>5. CASE NextKind
  <2>1. pc = "export" /\ raw' = raw /\ Unsealed(run.kind) = {} /\ Sealed(run.kind)
    BY <1>1, <1>5 DEF NextKind, store, ExportOK
  <2>2. CASE run.kind = "records" /\ run' = [run EXCEPT !.kind = "ops"] /\ SetAside(Untrusted("ops")) /\ UNCHANGED pc
    <3>1. pc' = "export" /\ run'.kind = "ops" /\ segs' = segs \ Untrusted("ops") /\ Sealed("records")
      BY <1>1, <2>1, <2>2 DEF SetAside
    <3>2. Untrusted("ops") \subseteq Of("ops")
      BY DEF Untrusted, PastTheEnd, AfterAHole
    <3>3. Of("ops")' = Of("ops") \ Untrusted("ops") /\ Of("records")' = Of("records")
      BY <3>1, <3>2 DEF Of
    <3>4. SealedBy(Of("ops") \ Untrusted("ops"), raw.rows["ops"])
      BY <1>1, TrustedSealed, KindsAre
    <3>5. Sealed("ops")' /\ Sealed("records")'
      BY <2>1, <3>1, <3>3, <3>4 DEF Sealed
    <3>6. Sealed(run.kind)'
      BY <3>1, <3>5 DEF Sealed, Of
    <3>7. QED
      BY <3>1, <3>5, <3>6 DEF ExportOK
  <2>3. CASE run.kind = "ops" /\ pc' = "backed" /\ UNCHANGED <<backup, run>>
    <3>1. Sealed("ops") /\ Sealed("records") /\ UNCHANGED <<segs, sums>>
      BY <1>1, <2>1, <2>3 DEF ExportOK, backup
    <3>2. Cursor("ops") = Last(Of("ops")) /\ Unsealed("ops") = {}
      BY <1>1, <2>1, <2>3, <3>1, SealedTrusted, KindsAre
    <3>3. Last(Of("ops")) \in Nat /\ \A q \in DOMAIN raw.rows["ops"] : q \in Nat
      <4>1. Of("ops") \subseteq segs
        BY DEF Of
      <4>2. QED
        BY <1>1, <4>1, LastIs, TopOf, KindsAre DEF DataOK
    <3>4. \A o \in DOMAIN raw.rows["ops"] : o <= Last(Of("ops"))
      BY <3>2, <3>3 DEF Unsealed
    <3>5. QED
      BY <2>1, <2>3, <3>1, <3>4 DEF ExportOK, Sealed, Of
  <2>4. QED
    BY <1>5, <2>2, <2>3 DEF NextKind, Goto
<1>6. QED
  BY <1>2, <1>3, <1>4, <1>5

LEMMA ExportNext ==
  ASSUME SealInv, Next, "ops" \notin Forgettable
  PROVE  ExportOK'
<1>1. CASE pc' \notin {"export", "seal", "backed"}
  BY <1>1 DEF ExportOK
<1>2. CASE pc' \in {"export", "seal", "backed"}
  BY <1>2, ExportPlaces, ExportSteps, ExportKept
<1>3. QED
  BY <1>1, <1>2

LEMMA SealInit ==
  ASSUME Init, Settled
  PROVE  SealInv
<1>1. LossInv
  BY LossInit DEF Settled
<1>2. SegsOK /\ ExportOK
  BY DEF Init, SegsOK, ExportOK
<1>3. Gapless(NoStore) /\ NoStore.st = "none"
  BY Emptied, KindsAre DEF Gapless
<1>4. AgreeOK
  BY <1>3 DEF Init, AgreeOK, Reaches, Of, Serving
<1>5. QED
  BY <1>1, <1>2, <1>4 DEF SealInv

LEMMA SealStep ==
  ASSUME SealInv, [Next]_vars, Settled
  PROVE  SealInv'
<1>1. LossInv'
  BY LossStep DEF SealInv
<1>2. CASE Next
  BY <1>1, <1>2, SegsNext, AgreeNext, ExportNext DEF SealInv, Settled
<1>3. CASE UNCHANGED vars
  <2>1. UNCHANGED <<raw, whole, segs, sums, run, pc, unseen>>
    BY <1>3 DEF vars, store, backup
  <2>2. SegsOK' /\ ExportOK'
    BY <2>1 DEF SealInv, SegsOK, Name, ExportOK, Sealed, Of
  <2>3. AgreeOK'
    <3>1. GoodSegs' = GoodSegs /\ GoodRecords' = GoodRecords
      BY <2>1 DEF GoodSegs, GoodRecords, GoodOps, Of, Undamaged, Name
    <3>2. QED
      BY <2>1, <3>1 DEF SealInv, AgreeOK, Reaches, Of
  <2>4. QED
    BY <1>1, <2>2, <2>3 DEF SealInv
<1>4. QED
  BY <1>2, <1>3

\* While no op is forgotten and no commit is lost unwatched, a segment can be restored unless its
\* file was damaged, no two claim a seq, and while a run works each holds just raw.db's rows
\* (seal_report, check_report, restore_locked), through any restore, power loss and export.
THEOREM SegmentsHold ==
  ASSUME Settled
  PROVE  Spec => []SegmentsAgree
<1>1. Init => SealInv
  BY SealInit
<1>2. SealInv => SegmentsAgree
  <2> SUFFICES ASSUME SealInv PROVE SegmentsAgree
    OBVIOUS
  <2>1. DataOK /\ SegsOK /\ AgreeOK /\ LossOK
    BY DEF SealInv, LossInv, BaseOK, TypesOK
  <2>2. \A s \in segs : ~s.rotten => Undamaged(s)
    BY <2>1 DEF SegsOK, Undamaged
  <2>3. ASSUME Ready, raw.st = "ok", NEW s \in segs, NEW q \in DOMAIN s.rows
        PROVE  q \in DOMAIN raw.rows[s.kind] /\ raw.rows[s.kind][q] = s.rows[q]
    <3>1. s.kind \in Kinds /\ s.first \in Nat /\ s.last \in Nat /\ q \in s.first .. s.last
      BY <2>1, SegIs
    <3>2. s.last <= Top(raw.rows[s.kind])
      <4>1. pc \in {"reconcile"} \cup Serving
        BY <2>3 DEF Ready, Serving
      <4>2. Reaches(raw, "records") /\ Reaches(raw, "ops")
        BY <2>1, <2>3, <4>1 DEF AgreeOK, LossOK
      <4>3. QED
        BY <3>1, <4>2 DEF Reaches, Of, Kinds
    <3>3. Top(raw.rows[s.kind]) \in Nat
      BY <2>1, <3>1, TopOf DEF DataOK
    <3>4. Holds(raw, s)
      BY <2>1, <2>3 DEF AgreeOK
    <3>5. QED
      BY <3>1, <3>2, <3>3, <3>4 DEF Holds
  <2>4. QED
    BY <2>1, <2>2, <2>3 DEF SegmentsAgree, SegsOK
<1>3. QED
  BY <1>1, <1>2, SealStep, PTL DEF Spec

\* In the same cases, an export that ends leaves every op and every record up to the last
\* segment's end in a segment (export_from_report, cursor_report), whatever damage, loss or
\* stopped restore came before it.
THEOREM EverythingBacked ==
  ASSUME Settled
  PROVE  Spec => []NothingUnbacked
<1>1. Init => SealInv
  BY SealInit
<1>2. SealInv => NothingUnbacked
  <2> SUFFICES ASSUME SealInv, pc = "backed" PROVE
        /\ \A k \in Kinds : \A q \in DOMAIN raw.rows[k] :
             q <= Last(Of(k)) => \E s \in Of(k) : q \in DOMAIN s.rows
        /\ \A o \in DOMAIN raw.rows["ops"] : o <= Last(Of("ops"))
    BY DEF NothingUnbacked
  <2>1. DataOK /\ SegsOK /\ AgreeOK /\ ExportOK /\ raw.st # "none"
    BY DEF SealInv, LossInv, BaseOK, TypesOK, StoresOK, Opened
  <2>2. Sealed("records") /\ Sealed("ops") /\ \A o \in DOMAIN raw.rows["ops"] : o <= Last(Of("ops"))
    BY <2>1 DEF ExportOK
  <2>3. ASSUME NEW k \in Kinds, NEW q \in DOMAIN raw.rows[k], q <= Last(Of(k))
        PROVE  \E s \in Of(k) : q \in DOMAIN s.rows
    <3>1. Sealed(k)
      BY <2>2 DEF Kinds
    <3>2. PICK s \in Of(k) : Claims(s, q)
      BY <2>3, <3>1 DEF Sealed, SealedBy
    <3>3. s \in segs /\ s.kind = k /\ s.last <= Top(raw.rows[k])
      BY <3>1 DEF Of, Sealed, SealedBy
    <3>4. s.first \in Nat /\ s.last \in Nat /\ Top(raw.rows[k]) \in Nat /\ q \in Nat
      BY <2>1, <3>3, SegIs, TopOf DEF DataOK
    <3>5. Holds(raw, s)
      BY <2>1, <3>3 DEF AgreeOK
    <3>6. q \in s.first .. s.last
      BY <3>2, <3>4 DEF Claims
    <3>7. q \in DOMAIN s.rows
      BY <3>3, <3>4, <3>5, <3>6 DEF Holds
    <3>8. QED
      BY <3>7
  <2>4. QED
    BY <2>2, <2>3
<1>3. QED
  BY <1>1, <1>2, SealStep, PTL DEF Spec
-----------------------------------------------------------------------------
(* What windows were shown.                                                *)

ShownInv == SealInv /\ ShownOK

\* Records that come after the last are past what any window read.
LEMMA ReadsGrow ==
  ASSUME NEW f, NEW g, NEW id, \E m \in Nat : DOMAIN f \subseteq 1 .. m, Longer(f, g, id),
         NEW ops, NEW later, DOMAIN later = DOMAIN ops, \A o \in DOMAIN ops : later[o] = ops[o],
         \A o \in DOMAIN ops : ops[o].to \in Nat,
         NEW synced, Reads(f, ops, synced)
  PROVE  Reads(g, later, synced)
<1>1. /\ \A q \in DOMAIN f : q \in DOMAIN g /\ g[q] = f[q]
      /\ \A q \in DOMAIN g : q \in Nat
      /\ \A q \in DOMAIN g : q <= Top(f) => q \in DOMAIN f
  BY LongerIs
<1>2. Top(f) \in Nat /\ \A q \in DOMAIN f : q \in Nat /\ q <= Top(f)
  BY TopIs
<1>3. \A o \in DOMAIN ops : ops[o].to > 0 => \E q \in DOMAIN g :
         q >= ops[o].to /\ (g[q].id < ops[o].id \/ g[q].id <= synced)
  BY <1>1 DEF Reads
<1>4. \A o \in DOMAIN ops : ops[o].to <= Top(f)
  BY <1>2 DEF Reads
<1>5. ASSUME NEW o \in DOMAIN ops, NEW q \in DOMAIN g, q <= ops[o].to
      PROVE  \E p \in DOMAIN ops : p <= o /\ g[q].id \in ops[p].saw
  <2>1. q \in DOMAIN f
    BY <1>1, <1>2, <1>4, <1>5
  <2>2. QED
    BY <1>1, <1>5, <2>1 DEF Reads
<1>6. QED
  BY <1>3, <1>5 DEF Reads

\* A store's windows read up to the last of their ends.
LEMMA CuratedIs ==
  ASSUME NEW n \in Nat, NEW db, Store(db, n), ReadAll(db)
  PROVE  /\ Curated(db.rows) \in Nat
         /\ \A o \in DOMAIN db.rows["ops"] : db.rows["ops"][o].to \in Nat /\ db.rows["ops"][o].to <= Curated(db.rows)
         /\ \/ Curated(db.rows) = 0
            \/ \E o \in DOMAIN db.rows["ops"] : db.rows["ops"][o].to = Curated(db.rows)
<1> DEFINE ops == db.rows["ops"] f == db.rows["records"]
           S == {ops[o].to : o \in DOMAIN ops} \cup {0}
<1>1. \A o \in DOMAIN ops : ops[o].to \in Nat
  <2>1. \A o \in DOMAIN ops : RowOf("ops", ops[o], n)
    BY TopOf, KindsAre
  <2>2. QED
    BY <2>1, RowIs
<1>2. Top(f) \in Nat /\ \A q \in DOMAIN f : q \in Nat /\ q <= Top(f)
  BY TopOf, KindsAre
<1>3. \A o \in DOMAIN ops : ops[o].to <= Top(f)
  <2>1. \A o \in DOMAIN ops : ops[o].to > 0 => \E q \in DOMAIN f : q >= ops[o].to
    BY DEF ReadAll, Reads
  <2>2. QED
    BY <1>1, <1>2, <2>1
<1>4. S \in SUBSET Nat /\ S # {} /\ \A x \in S : x <= Top(f)
  BY <1>1, <1>2, <1>3
<1>5. Max(S) \in S /\ \A y \in S : y <= Max(S)
  <2> HIDE DEF S
  <2>1. QED
    BY <1>2, <1>4, Greatest
<1>6. Max(S) \in Nat
  BY <1>4, <1>5
<1>7. QED
  BY <1>1, <1>5, <1>6 DEF Curated

\* A window is shown what it reads, and what came before it was shown to those before it.
LEMMA CurateReads ==
  ASSUME DataOK, Curate, ReadAll(raw)
  PROVE  ReadAll(raw')
<1> DEFINE f == raw.rows["records"] ops == raw.rows["ops"] later == raw'.rows["ops"]
           o == Top(ops) + 1
<1>1. /\ Grew(raw, raw', clock') /\ clock' = clock + 1 /\ raw'.rows["records"] = f
      /\ clock \in Nat /\ Store(raw, clock)
  BY CurateIs DEF DataOK
<1>2. PICK to \in {q \in DOMAIN f : q > Curated(raw.rows)} :
        /\ DOMAIN later = DOMAIN ops \cup {o}
        /\ later[o].to = to
        /\ later[o].saw = {f[q].id : q \in {x \in DOMAIN f : x > Curated(raw.rows) /\ x <= to}}
  <2>1. \E to \in {q \in DOMAIN raw.rows["records"] : q > Curated(raw.rows)} :
           LET u == Top(raw.rows["ops"]) + 1 records == raw.rows["records"] IN
              /\ DOMAIN raw'.rows["ops"] = DOMAIN raw.rows["ops"] \cup {u}
              /\ raw'.rows["ops"][u].to = to
              /\ raw'.rows["ops"][u].saw = {records[q].id : q \in {x \in DOMAIN records : x > Curated(raw.rows) /\ x <= to}}
    BY CurateIs
  <2>2. QED
    BY <2>1
<1>3. /\ Top(ops) \in Nat /\ \A p \in DOMAIN ops : p \in Nat /\ p <= Top(ops)
  BY <1>1, TopOf, KindsAre
<1>4. \A q \in DOMAIN f : q \in Nat /\ q > 0 /\ f[q].id \in Nat /\ f[q].id <= clock
  <2>1. \A q \in DOMAIN f : RowOf("records", f[q], clock)
    BY <1>1, TopOf, KindsAre
  <2>2. QED
    BY <1>1, <2>1, RowIs, TopOf, KindsAre
<1>5. /\ Curated(raw.rows) \in Nat
      /\ \/ Curated(raw.rows) = 0
         \/ \E p \in DOMAIN ops : ops[p].to = Curated(raw.rows)
  BY <1>1, CuratedIs
<1>6. Longer(ops, later, clock + 1) /\ raw'.synced = raw.synced
  BY <1>1, KindsAre DEF Grew
<1>7. /\ \A p \in DOMAIN ops : later[p] = ops[p]
      /\ later[o].id = clock + 1
  <2>1. \E m \in Nat : DOMAIN ops \subseteq 1 .. m
    BY <1>1, TopOf, KindsAre
  <2>2. o \in DOMAIN later /\ o \notin DOMAIN ops
    BY <1>2, <1>3
  <2> DEFINE id == clock + 1
  <2> HIDE DEF id
  <2>3. Longer(ops, later, id)
    BY <1>6 DEF id
  <2> HIDE DEF ops, later, o
  <2>4. (\A p \in DOMAIN ops : later[p] = ops[p]) /\ \A p \in DOMAIN later \ DOMAIN ops : later[p].id = id
    BY <2>1, <2>3, LongerIs
  <2>5. QED
    BY <2>2, <2>4 DEF id
<1>8. Reads(f, ops, raw.synced)
  BY DEF ReadAll
<1> HIDE DEF f, ops, later
<1>9. ASSUME NEW p \in DOMAIN ops
      PROVE  /\ later[p].to > 0 => \E q \in DOMAIN f :
                  q >= later[p].to /\ (f[q].id < later[p].id \/ f[q].id <= raw.synced)
             /\ \A q \in DOMAIN f : q <= later[p].to => \E u \in DOMAIN later : u <= p /\ f[q].id \in later[u].saw
  BY <1>2, <1>7, <1>8 DEF Reads
<1>10. /\ \E q \in DOMAIN f : q >= later[o].to /\ f[q].id < later[o].id
       /\ \A q \in DOMAIN f : q <= later[o].to => \E u \in DOMAIN later : u <= o /\ f[q].id \in later[u].saw
  <2>1. to \in DOMAIN f /\ to >= later[o].to /\ f[to].id < later[o].id
    BY <1>1, <1>2, <1>4, <1>7
  <2>2. ASSUME NEW q \in DOMAIN f, q <= later[o].to, q > Curated(raw.rows)
        PROVE  \E u \in DOMAIN later : u <= o /\ f[q].id \in later[u].saw
    <3>1. f[q].id \in later[o].saw
      BY <1>2, <2>2
    <3>2. o \in DOMAIN later /\ o <= o
      BY <1>2, <1>3
    <3>3. QED
      BY <3>1, <3>2
  <2>3. ASSUME NEW q \in DOMAIN f, q <= Curated(raw.rows)
        PROVE  \E u \in DOMAIN later : u <= o /\ f[q].id \in later[u].saw
    <3>1. PICK p \in DOMAIN ops : q <= ops[p].to
      BY <1>4, <1>5, <2>3
    <3>2. PICK u \in DOMAIN ops : u <= p /\ f[q].id \in ops[u].saw
      BY <1>8, <3>1 DEF Reads
    <3>3. u \in DOMAIN later /\ u <= o /\ later[u] = ops[u]
      BY <1>2, <1>3, <1>7, <3>1, <3>2
    <3>4. QED
      BY <3>2, <3>3
  <2>4. QED
    BY <1>4, <1>5, <2>1, <2>2, <2>3
<1>11. Reads(f, later, raw.synced)
  BY <1>2, <1>9, <1>10 DEF Reads
<1>12. QED
  BY <1>1, <1>6, <1>11 DEF ReadAll, f, later

\* What a lost record was shown to was lost with it, or was not there.
LEMMA LoseReads ==
  ASSUME LossInv, Lose, ReadAll(raw)
  PROVE  ReadAll(raw')
<1> DEFINE f == raw.rows["records"] ops == raw.rows["ops"]
           g == raw'.rows["records"] later == raw'.rows["ops"]
<1>1. DataOK /\ clock \in Nat /\ raw.synced \in Nat
  BY DEF LossInv, BaseOK, TypesOK, DataOK, Store
<1>2. PICK c \in raw.synced .. (clock - 1) :
        /\ raw'.synced = raw.synced
        /\ DOMAIN g = {q \in DOMAIN f : f[q].id <= c} /\ \A q \in DOMAIN g : g[q] = f[q]
        /\ DOMAIN later = {q \in DOMAIN ops : ops[q].id <= c} /\ \A q \in DOMAIN later : later[q] = ops[q]
  <2>1. PICK c \in raw.synced .. (clock - 1) :
           /\ raw'.synced = raw.synced
           /\ \A k \in Kinds : /\ DOMAIN raw'.rows[k] = {q \in DOMAIN raw.rows[k] : raw.rows[k][q].id <= c}
                               /\ \A q \in DOMAIN raw'.rows[k] : raw'.rows[k][q] = raw.rows[k][q]
    BY <1>1, LoseIs
  <2>2. QED
    BY <2>1, KindsAre
<1>3. /\ Top(later) \in Nat /\ DOMAIN later = {q \in DOMAIN ops : q <= Top(later)}
  BY LosePrefix, KindsAre
<1>4. /\ \A q \in DOMAIN f : f[q].id \in Nat
      /\ \A o \in DOMAIN ops : o \in Nat /\ ops[o].id \in Nat
  <2>1. /\ \A q \in DOMAIN f : RowOf("records", f[q], clock)
        /\ \A o \in DOMAIN ops : RowOf("ops", ops[o], clock) /\ o \in Nat
    BY <1>1, TopOf, KindsAre DEF DataOK
  <2>2. QED
    BY <1>1, <2>1, RowIs
<1>5. Reads(f, ops, raw.synced)
  BY DEF ReadAll
<1> HIDE DEF f, ops, g, later
<1>6. ASSUME NEW o \in DOMAIN later, later[o].to > 0
      PROVE  \E q \in DOMAIN g : q >= later[o].to /\ (g[q].id < later[o].id \/ g[q].id <= raw.synced)
  <2>1. o \in DOMAIN ops /\ later[o] = ops[o] /\ ops[o].id <= c
    BY <1>2
  <2>2. PICK q \in DOMAIN f : q >= ops[o].to /\ (f[q].id < ops[o].id \/ f[q].id <= raw.synced)
    BY <1>5, <1>6, <2>1 DEF Reads
  <2>3. f[q].id <= c
    BY <1>1, <1>2, <1>4, <2>1, <2>2
  <2>4. q \in DOMAIN g /\ g[q] = f[q]
    BY <1>2, <2>3
  <2>5. QED
    BY <2>1, <2>2, <2>4
<1>7. ASSUME NEW o \in DOMAIN later, NEW q \in DOMAIN g, q <= later[o].to
      PROVE  \E p \in DOMAIN later : p <= o /\ g[q].id \in later[p].saw
  <2>1. o \in DOMAIN ops /\ later[o] = ops[o] /\ q \in DOMAIN f /\ g[q] = f[q]
    BY <1>2
  <2>2. PICK p \in DOMAIN ops : p <= o /\ f[q].id \in ops[p].saw
    BY <1>5, <1>7, <2>1 DEF Reads
  <2>3. p \in DOMAIN later /\ later[p] = ops[p]
    BY <1>2, <1>3, <1>4, <2>1, <2>2
  <2>4. QED
    BY <2>1, <2>2, <2>3
<1>8. QED
  BY <1>2, <1>6, <1>7 DEF ReadAll, Reads, f, ops, g, later

\* What a restore puts together, it cuts where the windows read past the records.
LEMMA StagedReads ==
  ASSUME TypesOK, SegsOK, SealedReadAll, "ops" \notin Forgettable
  PROVE  ReadAll(Rebuilt)
<1> DEFINE m == Merged
           c == Cut(Merged)
           b == Rebuilt
           id == clock + 1
<1>1. DataOK /\ clock \in Nat
  BY DEF TypesOK, DataOK
<1>2. DOMAIN m = Kinds /\ \A k \in Kinds : Numbering(k, m[k], clock)
  BY <1>1, MergedIs, KindsAre
<1>3. /\ c["records"] = m["records"]
      /\ \A k \in Kinds : Numbering(k, c[k], clock)
      /\ DOMAIN c["ops"] \subseteq DOMAIN m["ops"]
      /\ \A o \in DOMAIN c["ops"] : /\ c["ops"][o] = m["ops"][o]
                                    /\ c["ops"][o].to <= Top(m["records"])
                                    /\ \A p \in DOMAIN m["ops"] : p <= o => p \in DOMAIN c["ops"]
  <2> HIDE DEF m
  <2>1. /\ Cut(m)["records"] = m["records"]
        /\ \A k \in Kinds : Numbering(k, Cut(m)[k], clock)
        /\ DOMAIN Cut(m)["ops"] \subseteq DOMAIN m["ops"]
        /\ \A o \in DOMAIN Cut(m)["ops"] : /\ Cut(m)["ops"][o] = m["ops"][o]
                                           /\ Cut(m)["ops"][o].to <= Top(m["records"])
                                           /\ \A p \in DOMAIN m["ops"] : p <= o => p \in DOMAIN Cut(m)["ops"]
    BY <1>1, <1>2, CutIs
  <2>2. c = Cut(m)
    BY DEF m
  <2>3. QED
    BY <2>1, <2>2
<1>4. /\ \A k \in Kinds : Longer(c[k], b.rows[k], id)
      /\ DOMAIN b.rows["ops"] = DOMAIN c["ops"] /\ b.synced = id
  BY RebuiltIs
<1>5. /\ \A q \in DOMAIN m["records"] : \E r \in GoodRecords : q \in DOMAIN r.rows /\ m["records"][q] = r.rows[q]
      /\ \A o \in DOMAIN m["ops"] : \E s \in GoodOps : o \in DOMAIN s.rows /\ m["ops"][o] = s.rows[o]
  BY <1>1, MergedIs, KindsAre DEF Good
<1>6. /\ \A s \in GoodRecords : s \in Of("records")
      /\ \A s \in GoodOps : s \in Of("ops") /\ s \in segs
  BY DEF GoodRecords, GoodOps, Of
<1>7. \A s \in GoodOps : \A p \in DOMAIN s.rows :
        p \in s.first .. s.last /\ Claims(s, p) /\ p \in DOMAIN m["ops"] /\ m["ops"][p] = s.rows[p]
  <2>1. ASSUME NEW s \in GoodOps, NEW p \in DOMAIN s.rows
        PROVE  p \in s.first .. s.last /\ Claims(s, p)
    BY <1>1, <1>6, SegIs DEF Claims
  <2>2. Good("ops") = GoodOps
    BY DEF Good
  <2>3. QED
    BY <1>1, <2>1, <2>2, MergedHolds, KindsAre
<1>8. /\ Top(m["records"]) \in Nat /\ \A q \in DOMAIN m["records"] : q \in Nat
      /\ Top(m["records"]) = 0 \/ Top(m["records"]) \in DOMAIN m["records"]
      /\ \A q \in DOMAIN m["records"] : m["records"][q].id \in Nat /\ m["records"][q].id <= clock
      /\ \A o \in DOMAIN c["ops"] : o \in Nat /\ c["ops"][o].to \in Nat
  <2> HIDE DEF m, c
  <2>1. \A k \in Kinds : /\ \E n \in Nat : DOMAIN c[k] \subseteq 1 .. n
                         /\ \E n \in Nat : DOMAIN m[k] \subseteq 1 .. n
                         /\ \A q \in DOMAIN m[k] : RowOf(k, m[k][q], clock)
                         /\ \A q \in DOMAIN c[k] : RowOf(k, c[k][q], clock)
    BY <1>2, <1>3 DEF Numbering
  <2>2. /\ \A q \in DOMAIN m["records"] : m["records"][q].id \in Nat /\ m["records"][q].id <= clock
        /\ \A o \in DOMAIN c["ops"] : c["ops"][o].to \in Nat
    BY <1>1, <2>1, RowIs, KindsAre
  <2>3. QED
    BY <2>1, <2>2, TopIs, KindsAre
<1>9. ASSUME NEW o \in DOMAIN c["ops"], NEW q \in DOMAIN c["records"], q <= c["ops"][o].to
      PROVE  \E p \in DOMAIN c["ops"] : p <= o /\ c["records"][q].id \in c["ops"][p].saw
  <2>1. PICK r \in GoodRecords : q \in DOMAIN r.rows /\ m["records"][q] = r.rows[q]
    BY <1>3, <1>5, <1>9
  <2>2. PICK s \in GoodOps : o \in DOMAIN s.rows /\ m["ops"][o] = s.rows[o]
    BY <1>3, <1>5
  <2>3. r \in Of("records") /\ s \in Of("ops") /\ q <= s.rows[o].to
    BY <1>3, <1>6, <1>9, <2>2
  <2>4. PICK p \in 1 .. o : \A t \in Of("ops") :
            Claims(t, p) => p \in DOMAIN t.rows /\ r.rows[q].id \in t.rows[p].saw
    BY <2>1, <2>2, <2>3 DEF SealedReadAll
  <2>5. p \in 1 .. s.last /\ p <= o
    <3>1. o \in Nat /\ o \in s.first .. s.last /\ s.last \in Nat
      BY <1>1, <1>6, <1>7, <1>8, <2>2, SegIs
    <3>2. QED
      BY <3>1
  <2>6. PICK t \in GoodOps : p \in DOMAIN t.rows
    BY <1>1, <2>5, GoodBelow
  <2>7. r.rows[q].id \in t.rows[p].saw /\ p \in DOMAIN m["ops"] /\ m["ops"][p] = t.rows[p]
    BY <1>6, <1>7, <2>4, <2>6
  <2>8. p \in DOMAIN c["ops"]
    BY <1>3, <2>5, <2>7
  <2>9. c["ops"][p] = m["ops"][p] /\ c["records"] = m["records"]
    BY <1>3, <2>8
  <2> HIDE DEF c, m
  <2>10. QED
    BY <2>1, <2>5, <2>7, <2>8, <2>9
<1> HIDE DEF m, c, b, id
<1>10. ASSUME NEW o \in DOMAIN c["ops"], c["ops"][o].to > 0
       PROVE  \E q \in DOMAIN c["records"] : q >= c["ops"][o].to /\ c["records"][q].id <= id
  <2>1. Top(m["records"]) \in DOMAIN c["records"] /\ Top(m["records"]) >= c["ops"][o].to
    BY <1>3, <1>8, <1>10
  <2>2. c["records"][Top(m["records"])].id <= id
    BY <1>1, <1>3, <1>8, <2>1 DEF id
  <2>3. QED
    BY <2>1, <2>2
<1>11. Reads(c["records"], c["ops"], id)
  BY <1>9, <1>10 DEF Reads
<1>12. \A o \in DOMAIN c["ops"] : b.rows["ops"][o] = c["ops"][o]
  BY <1>3, <1>4, KindsAre, LongerIs DEF Numbering
<1>13. /\ \E n \in Nat : DOMAIN c["records"] \subseteq 1 .. n
       /\ Longer(c["records"], b.rows["records"], id)
  BY <1>3, <1>4, KindsAre DEF Numbering
<1>14. Reads(b.rows["records"], b.rows["ops"], id)
  BY <1>4, <1>8, <1>11, <1>12, <1>13, ReadsGrow
<1>15. QED
  BY <1>4, <1>14 DEF ReadAll, b

\* Beside the export and in it raw.db reaches as far as the segments of ops do.
LEMMA EndsNext ==
  ASSUME SealInv, ShownOK, Next, pc' \in {"export", "seal"}
  PROVE  Reaches(raw, "ops")'
<1>1. DataOK
  BY DEF SealInv, LossInv, BaseOK, TypesOK
<1>2. CASE StartExport
  <2>1. Reaches(raw, "ops") /\ raw' = raw /\ segs' \subseteq segs
    BY <1>2 DEF StartExport, Working, Serving, SealInv, AgreeOK, store, SetAside
  <2>2. QED
    BY <2>1 DEF Reaches, Of
<1>3. CASE WriteChecksum \/ NextKind
  <2>1. pc = "export" /\ raw' = raw /\ segs' \subseteq segs
    BY <1>3 DEF WriteChecksum, NextKind, store, backup, SetAside
  <2>2. QED
    BY <2>1 DEF ShownOK, Reaches, Of
<1>4. CASE WriteSegment
  <2>1. pc = "seal"
    BY <1>4, WriteIs
  <2>2. \A s \in segs : s.kind = "ops" => s.last <= Top(raw.rows["ops"])
    BY <2>1 DEF ShownOK, Reaches, Of
  <2>3. QED
    BY <1>4, <2>2, WriteWhere DEF Reaches, Of
<1>5. CASE UNCHANGED <<pc, run, segs, sums>>
  <2>1. pc \in {"export", "seal"} /\ \A s \in segs : s.kind = "ops" => s.last <= Top(raw.rows["ops"])
    BY <1>5 DEF ShownOK, Reaches, Of
  <2>2. CASE raw'.rows = raw.rows
    BY <1>5, <2>1, <2>2 DEF Reaches, Of
  <2>3. CASE \A k \in Kinds : Longer(raw.rows[k], raw'.rows[k], clock')
    <3> DEFINE f == raw.rows["ops"] g == raw'.rows["ops"] id == clock'
    <3>1. Longer(f, g, id) /\ \E m \in Nat : DOMAIN f \subseteq 1 .. m
      BY <1>1, <2>3, TopOf, KindsAre DEF DataOK
    <3>2. \A s \in segs : s.last \in Nat
      BY <1>1, SegIs
    <3>3. \A s \in segs : s.kind = "ops" => s.last <= Top(f)
      BY <2>1
    <3> HIDE DEF f, g, id
    <3>4. \A s \in segs : s.kind = "ops" => s.last <= Top(g)
      BY <3>1, <3>2, <3>3, LongerIs
    <3>5. QED
      BY <1>5, <3>4 DEF Reaches, Of, g
  <2>4. QED
    BY <1>5, <2>1, <2>2, <2>3, ExportGrows
<1>6. QED
  BY <1>2, <1>3, <1>4, <1>5, ExportPlaces

\* The segments show what raw.db's rows do that are written to them.
LEMMA WrittenReads ==
  ASSUME SealInv, ShownOK, WriteSegment
  PROVE  SealedReadAll'
<1> DEFINE f == raw.rows["records"] ops == raw.rows["ops"]
<1>1. DataOK /\ pc = "seal"
  BY WriteIs DEF SealInv, LossInv, BaseOK, TypesOK
<1>2. PICK t : segs' = segs \cup {t} /\ Wrote(t) /\ t.last <= Top(raw.rows[t.kind]) /\ Holds(raw, t)
  BY WriteWhere
<1>3. /\ run.kind \in Kinds /\ run.first \in Nat /\ run.last \in Nat /\ run.first <= run.last
      /\ Sealed(run.kind) /\ (run.kind = "ops" => Sealed("records"))
  BY <1>1 DEF SealInv, LossInv, BaseOK, TypesOK, RunOK, ExportOK
<1>4. Sealed("records")
  BY <1>3 DEF Kinds
<1>5. \A s \in segs' : /\ s.kind = "records" => s.last <= Top(f)
                       /\ s.kind = "ops" => s.last <= Top(ops)
  <2>1. Reaches(raw, "ops")
    BY <1>1 DEF ShownOK
  <2>2. QED
    BY <1>2, <1>4, <2>1 DEF Sealed, SealedBy, Reaches, Of
<1>6. \A s \in segs' : Holds(raw, s)
  BY <1>2, WriteWhere DEF SealInv, AgreeOK
<1>7. \A q \in DOMAIN f : q \in Nat
  BY <1>1, TopOf, KindsAre DEF DataOK
<1>8. Top(f) \in Nat /\ Top(ops) \in Nat /\ \A o \in DOMAIN ops : o \in Nat /\ o > 0
  BY <1>1, TopOf, KindsAre DEF DataOK
<1>9. \A s \in segs' : s.first \in Nat /\ s.last \in Nat /\ DOMAIN s.rows \subseteq s.first .. s.last
  <2>1. \A s \in segs : s.first \in Nat /\ s.last \in Nat /\ DOMAIN s.rows \subseteq s.first .. s.last
    BY <1>1, SegIs
  <2>2. t.first \in Nat /\ t.last \in Nat /\ DOMAIN t.rows \subseteq t.first .. t.last
    <3>1. /\ t.first = run.first /\ t.last = run.last
          /\ DOMAIN t.rows = {q \in DOMAIN raw.rows[run.kind] : run.first <= q /\ q <= run.last}
      BY <1>2 DEF Wrote
    <3>2. \A q \in DOMAIN raw.rows[run.kind] : q \in Nat
      BY <1>1, <1>3, TopOf DEF DataOK
    <3>3. QED
      BY <1>3, <3>1, <3>2
  <2>3. QED
    BY <1>2, <2>1, <2>2
<1>10. \A s \in segs' : s.kind = "records" =>
         \A q \in s.first .. s.last : /\ q \in DOMAIN f <=> q \in DOMAIN s.rows
                                      /\ q \in DOMAIN s.rows => f[q] = s.rows[q]
  BY <1>5, <1>6, <1>8, <1>9 DEF Holds
<1>11. \A s \in segs' : s.kind = "ops" =>
         \A q \in s.first .. s.last : /\ q \in DOMAIN ops <=> q \in DOMAIN s.rows
                                      /\ q \in DOMAIN s.rows => ops[q] = s.rows[q]
  BY <1>5, <1>6, <1>8, <1>9 DEF Holds
<1>12. Reads(f, ops, raw.synced)
  BY DEF ShownOK, ReadAll
<1> HIDE DEF f, ops
<1>13. ASSUME NEW s \in segs', s.kind = "ops", NEW r \in segs', r.kind = "records",
              NEW o \in DOMAIN s.rows, NEW q \in DOMAIN r.rows, q <= s.rows[o].to
       PROVE  \E p \in 1 .. o : \A u \in segs' : u.kind = "ops" /\ Claims(u, p) =>
                p \in DOMAIN u.rows /\ r.rows[q].id \in u.rows[p].saw
  <2>1. o \in DOMAIN ops /\ ops[o] = s.rows[o] /\ q \in DOMAIN f /\ f[q] = r.rows[q]
    BY <1>9, <1>10, <1>11, <1>13
  <2>2. PICK p \in DOMAIN ops : p <= o /\ f[q].id \in ops[p].saw
    BY <1>12, <1>13, <2>1 DEF Reads
  <2>3. p \in 1 .. o
    BY <1>8, <2>1, <2>2
  <2>4. ASSUME NEW u \in segs', u.kind = "ops", Claims(u, p)
        PROVE  p \in DOMAIN u.rows /\ r.rows[q].id \in u.rows[p].saw
    <3>1. p \in u.first .. u.last
      BY <1>8, <1>9, <2>4 DEF Claims
    <3>2. p \in DOMAIN u.rows /\ u.rows[p] = ops[p]
      BY <1>11, <2>4, <3>1
    <3>3. QED
      BY <2>1, <2>2, <3>2
  <2>5. QED
    BY <2>3, <2>4
<1>14. QED
  BY <1>13 DEF SealedReadAll, Of

LEMMA SealedReadsNext ==
  ASSUME SealInv, ShownOK, Next
  PROVE  SealedReadAll'
<1>1. DataOK /\ SealedReadAll
  BY DEF SealInv, LossInv, BaseOK, TypesOK, ShownOK
<1>2. CASE Similar
  <2>1. \A u \in segs' : \E v \in segs : u.kind = v.kind /\ u.first = v.first /\ u.last = v.last /\ u.rows = v.rows
    BY <1>2 DEF Similar
  <2>2. ASSUME NEW s \in segs', s.kind = "ops", NEW r \in segs', r.kind = "records",
               NEW o \in DOMAIN s.rows, NEW q \in DOMAIN r.rows, q <= s.rows[o].to
        PROVE  \E p \in 1 .. o : \A u \in segs' : u.kind = "ops" /\ Claims(u, p) =>
                 p \in DOMAIN u.rows /\ r.rows[q].id \in u.rows[p].saw
    <3>1. PICK s0 \in segs : s0.kind = "ops" /\ s0.rows = s.rows
      BY <2>1, <2>2
    <3>2. PICK r0 \in segs : r0.kind = "records" /\ r0.rows = r.rows
      BY <2>1, <2>2
    <3>3. PICK p \in 1 .. o : \A u \in Of("ops") :
            Claims(u, p) => p \in DOMAIN u.rows /\ r.rows[q].id \in u.rows[p].saw
      BY <1>1, <2>2, <3>1, <3>2 DEF SealedReadAll, Of
    <3>4. QED
      BY <2>1, <3>3 DEF Claims, Of
  <2>3. QED
    BY <2>2 DEF SealedReadAll, Of
<1>3. QED
  BY <1>1, <1>2, SegsSimilar, WrittenReads

LEMMA ShownNext ==
  ASSUME ShownInv, Next, "ops" \notin Forgettable
  PROVE  ShownOK'
<1>1. /\ SealInv /\ ShownOK /\ TypesOK /\ DataOK /\ SegsOK /\ LossInv
      /\ ReadAll(raw) /\ ReadAll(whole) /\ SealedReadAll
      /\ Store(raw, clock) /\ Store(Live, clock) /\ clock \in Nat
  BY LiveIs DEF ShownInv, ShownOK, SealInv, LossInv, BaseOK, TypesOK, DataOK
<1>2. ReadAll(NoStore) /\ ReadAll(Fresh)
  BY Emptied, KindsAre DEF ReadAll, Reads
<1>3. ReadAll(Live)
  BY <1>1, <1>2 DEF Live
<1>4. ReadAll(whole')
  BY <1>1, <1>2, WholeSteps, StagedReads DEF Finish, Stage
<1>5. ASSUME NEW db, NEW ds, NEW id, Store(db, clock), Grew(db, ds, id), ReadAll(db),
             DOMAIN ds.rows["ops"] = DOMAIN db.rows["ops"]
      PROVE  ReadAll(ds)
  <2> DEFINE f == db.rows["records"] g == ds.rows["records"] ops == db.rows["ops"] later == ds.rows["ops"]
  <2>1. Longer(f, g, id) /\ Longer(ops, later, id) /\ ds.synced = db.synced
    BY <1>5, KindsAre DEF Grew
  <2>2. /\ \E m \in Nat : DOMAIN f \subseteq 1 .. m
        /\ \E m \in Nat : DOMAIN ops \subseteq 1 .. m
        /\ \A o \in DOMAIN ops : RowOf("ops", ops[o], clock)
    BY <1>5, TopOf, KindsAre
  <2>3. \A o \in DOMAIN ops : ops[o].to \in Nat
    BY <1>1, <2>2, RowIs
  <2>4. Reads(f, ops, db.synced) /\ DOMAIN later = DOMAIN ops
    BY <1>5 DEF ReadAll
  <2> HIDE DEF f, g, ops, later
  <2>5. \A o \in DOMAIN ops : later[o] = ops[o]
    BY <2>1, <2>2, LongerIs
  <2>6. Reads(g, later, db.synced)
    BY <2>1, <2>2, <2>3, <2>4, <2>5, ReadsGrow
  <2>7. QED
    BY <2>1, <2>6 DEF ReadAll, g, later
<1>6. ReadAll(raw')
  <2>1. CASE Same
    BY <1>1, <2>1 DEF Same, ReadAll
  <2>2. CASE Found
    <3>1. raw' = Live \/ (Grew(Live, raw', clock') /\ raw'.rows["ops"] = Live.rows["ops"])
      BY <2>2 DEF Found
    <3>2. QED
      BY <1>1, <1>3, <1>5, <3>1
  <2>3. CASE Quarantine \/ Swap
    BY <1>1, <1>2, <2>3 DEF Quarantine, Swap
  <2>4. CASE More
    <3>1. Curate \/ (Grew(raw, raw', clock') /\ DOMAIN raw'.rows["ops"] = DOMAIN raw.rows["ops"])
      BY <2>4 DEF More
    <3>2. QED
      BY <1>1, <1>5, <3>1, CurateReads
  <2>5. CASE Lose
    BY <1>1, <2>5, LoseReads
  <2>6. QED
    BY <1>1, <2>1, <2>2, <2>3, <2>4, <2>5, RawShapes
<1>7. SealedReadAll' /\ (pc' \in {"export", "seal"} => Reaches(raw, "ops")')
  BY <1>1, SealedReadsNext, EndsNext
<1>8. QED
  BY <1>4, <1>6, <1>7 DEF ShownOK, ReadAll, Reads

LEMMA ShownInit ==
  ASSUME Init, Settled
  PROVE  ShownInv
<1>1. ReadAll(NoStore)
  BY Emptied, KindsAre DEF ReadAll, Reads
<1>2. ShownOK
  BY <1>1 DEF Init, ShownOK, SealedReadAll, Of
<1>3. QED
  BY <1>2, SealInit DEF ShownInv

LEMMA ShownStep ==
  ASSUME ShownInv, [Next]_vars, Settled
  PROVE  ShownInv'
<1>1. SealInv'
  BY SealStep DEF ShownInv
<1>2. CASE Next
  BY <1>1, <1>2, ShownNext DEF ShownInv, Settled
<1>3. CASE UNCHANGED vars
  <2>1. UNCHANGED <<raw, whole, segs, pc>>
    BY <1>3 DEF vars, store, backup
  <2>2. ShownOK'
    BY <2>1 DEF ShownInv, ShownOK, ReadAll, Reads, SealedReadAll, Reaches, Of
  <2>3. QED
    BY <1>1, <2>2 DEF ShownInv
<1>4. QED
  BY <1>2, <1>3

\* In the same cases, every record up to the curation checkpoint was shown to a window raw.db
\* holds (Rebuild::cut, curation's window ops): no restore, however often it is stopped, and
\* no power loss leaves a window whose seqs later records take.
THEOREM WindowsWereShown ==
  ASSUME Settled
  PROVE  Spec => []CuratedIsShown
<1>1. Init => ShownInv
  BY ShownInit
<1>2. ShownInv => CuratedIsShown
  <2> DEFINE f == raw.rows["records"] ops == raw.rows["ops"]
  <2> SUFFICES ASSUME ShownInv, NEW q \in DOMAIN f, q <= Curated(raw.rows)
               PROVE  f[q].id \in Shown(raw.rows)
    BY DEF CuratedIsShown
  <2>1. Store(raw, clock) /\ clock \in Nat /\ ReadAll(raw)
    BY DEF ShownInv, ShownOK, SealInv, LossInv, BaseOK, TypesOK, DataOK
  <2>2. q \in Nat /\ q > 0
    BY <2>1, TopOf, KindsAre
  <2>3. PICK o \in DOMAIN ops : q <= ops[o].to
    BY <2>1, <2>2, CuratedIs
  <2>4. PICK p \in DOMAIN ops : f[q].id \in ops[p].saw
    BY <2>1, <2>3 DEF ReadAll, Reads
  <2>5. QED
    BY <2>4 DEF Shown
<1>3. QED
  BY <1>1, <1>2, ShownStep, PTL DEF Spec
=============================================================================
