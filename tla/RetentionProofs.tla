--------------------------- MODULE RetentionProofs ---------------------------
(***************************************************************************)
(* What TLAPS proves of Retention.tla: for any history of captures and any *)
(* number of kills, restores and recurations, an expired record's text is  *)
(* in no store once its batch is over, what was made from it stays, and a  *)
(* session expires oldest first, in batches that take whole windows.       *)
(***************************************************************************)
EXTENDS Retention, WellFoundedInduction, TLAPS

\* A history is a sequence, a budget a number for each rare event.
Bounded == /\ \A h \in Histories : Len(h) \in Nat /\ DOMAIN h = 1 .. Len(h)
           /\ Budgets \subseteq [Chances -> Nat]

Gone(r)   == \A s \in Stores : r \notin text[s]
Sealed(r) == r \in text["segments"]

\* What raw.db, the backups and a batch hold was captured, and the backups hold no
\* more rows and windows than raw.db: a restore loses the latest alone.
RangesOK ==
  /\ history \in Histories /\ top \in 0 .. Last
  /\ rows \subseteq 1 .. top /\ Raw \subseteq rows
  /\ text \in [Stores -> SUBSET (1 .. top)]
  /\ windows \subseteq (1 .. top) \X (1 .. top) /\ \A w \in windows : w[1] <= w[2]
  /\ sealed \in [rows : SUBSET rows, windows : SUBSET windows]
  /\ text["segments"] \subseteq sealed.rows
  /\ table \subseteq 1 .. top /\ file \subseteq 1 .. top

\* An expired record is in no store, or the batch that takes it out is still owed:
\* by state/expiry-owed, which a restore reads, or by raw.db's table while the backups
\* hold its text still.
GoneOK ==
  /\ \A r \in Expired : Gone(r) \/ r \in file \/ (r \in table /\ Sealed(r))
  /\ \A r \in sealed.rows : ~Sealed(r) => Gone(r) \/ r \in file
  /\ \A r \in file \ table : Gone(r)

\* X holds the first of each session's records in S that may expire.
FirstOf(S, X) ==
  \A r, q \in S \ Exempt : Session(r) = Session(q) /\ r < q /\ q \in X => r \in X

\* The records expired are the first ones of their sessions: in raw.db before and after
\* the batch owed, and in what a restore would make of the backups with either list.
OrderOK ==
  /\ FirstOf(rows, Expired)
  /\ FirstOf(rows, Expired \cup table)
  /\ FirstOf(rows, (Expired \ text["segments"]) \cup file)
  /\ FirstOf(sealed.rows, (sealed.rows \ text["segments"]) \cup file)
  /\ FirstOf(sealed.rows, (sealed.rows \ text["segments"]) \cup file \cup table)

\* The windows leave no gap, and the backups have those of all that expired or will.
In(r, ws)     == \E w \in ws : r \in Span(w)
NoGap(ws)     == \A w \in ws : \A n \in 1 .. w[2] : In(n, ws)
CoverOK ==
  /\ NoGap(windows) /\ NoGap(sealed.windows)
  /\ \A r \in Expired \cup (sealed.rows \ text["segments"]) \cup table \cup file :
       In(r, sealed.windows)

Data == RangesOK /\ GoneOK /\ OrderOK /\ CoverOK

\* How far a batch has come: each step leaves its store without the batch's text, and
\* what goes on beside the unlocked steps brings none back.
AfterRebuild  == {"rebuilt", "last", "clear"}
AfterTruncate == {"rebuild"} \cup AfterRebuild
AfterRows     == {"truncate"} \cup AfterTruncate
AfterCopies   == {"rows"} \cup AfterRows
AfterSegments == {"copies"} \cup AfterCopies
AfterFile     == {"segments"} \cup AfterSegments
Without(s)    == text[s] \cap table = {}
StagesOK ==
  /\ at \in AfterFile => file = table
  /\ at \in AfterSegments => Without("segments")
  /\ at \in AfterCopies => Without("copies")
  /\ at \in AfterRows => Without("raw")
  /\ at \in AfterTruncate => Without("wal")
  /\ at \in AfterRebuild => Without("knowledge")
  /\ at = "clear" => Without("aside")
  /\ at \in {"seal", "begin", "remove"} => table = {}
  /\ at \notin {"idle", "rebuild", "last"} => locked

\* A plan not begun: it takes the first records of each session and whole windows, whose
\* ops the backups have once it is sealed.
PlanOK ==
  at \in {"seal", "begin"} =>
    /\ me.records \subseteq 1 .. top
    /\ FirstOf(rows, Expired \cup me.records)
    /\ \A r \in me.records : In(r, IF at = "begin" THEN sealed.windows ELSE windows)
    /\ \A w \in windows : Expiring(w) \subseteq me.records \/ Expiring(w) \cap me.records = {}
    /\ \A r \in me.records : Session(r) \in DOMAIN me.newest /\ me.newest[Session(r)] <= Checkpoint

Inv == Data /\ StagesOK /\ PlanOK
-----------------------------------------------------------------------------
(* Numbers.                                                                *)

\* A set of numbers has a least one,
LEMMA Least ==
  ASSUME NEW S \in SUBSET Nat, S # {}
  PROVE  \E x \in S : \A y \in S : x <= y
<1>1. PICK x \in S : \A y \in S : ~(<<y, x>> \in OpToRel(<, Nat))
  BY NatLessThanWellFounded, WFMin
<1>2. \A y \in S : ~(y < x)
  BY <1>1 DEF OpToRel
<1>3. QED
  BY <1>2

\* and one that is bounded has a greatest.
LEMMA Greatest ==
  ASSUME NEW S \in SUBSET Nat, S # {}, NEW b \in Nat, \A x \in S : x <= b
  PROVE  \E x \in S : \A y \in S : y <= x
<1> DEFINE T == {b - x : x \in S}
<1>1. T \in SUBSET Nat /\ T # {}
  <2>1. \A x \in S : b - x \in Nat
    OBVIOUS
  <2>2. PICK x \in S : TRUE
    OBVIOUS
  <2>3. b - x \in T
    OBVIOUS
  <2>4. QED
    BY <2>1, <2>3
<1>2. PICK t \in T : \A y \in T : t <= y
  BY <1>1, Least
<1>3. PICK x \in S : t = b - x
  BY <1>2
<1>4. \A y \in S : b - x <= b - y
  BY <1>2, <1>3
<1>5. QED
  BY <1>4

\* The history is fixed, and so is what a record's number says.
LEMMA HistoryFixed ==
  ASSUME Next \/ UNCHANGED vars
  PROVE  history' = history
  BY DEF Next, Pass, Plan, Resume, Seal, Begin, WriteFile, ExpireSegments, ExpireCopies,
     ExpireRows, Truncate, Rebuild, RebuildEnds, RemoveAside, ClearTable, RemoveFile, Stops,
     Capture, Ages, WeekPasses, Curate, Index, Export, Keeps, Restore, world, vars

LEMMA Ranges ==
  ASSUME Bounded, RangesOK
  PROVE  /\ Last \in Nat /\ Events = 1 .. Last /\ top \in Nat /\ top <= Last
         /\ \A s \in Stores : text[s] \subseteq 1 .. top
         /\ \A w \in windows : w[1] \in 1 .. top /\ w[2] \in 1 .. top /\ w[1] <= w[2]
         /\ sealed.rows \subseteq rows /\ sealed.windows \subseteq windows
  BY DEF Bounded, RangesOK, Last, Events

\* The checkpoint is the end of a window, and no window ends after it.
LEMMA CheckpointIs ==
  ASSUME Bounded, RangesOK
  PROVE  /\ Checkpoint \in 0 .. top
         /\ Checkpoint = 0 \/ \E w \in windows : w[2] = Checkpoint
         /\ \A w \in windows : w[2] <= Checkpoint
<1> DEFINE Of(n) == /\ n = 0 \/ \E w \in windows : w[2] = n
                    /\ \A w \in windows : w[2] <= n
<1>1. \E n \in 0 .. Last : Of(n)
  <2>1. CASE windows = {}
    BY <2>1, Ranges
  <2>2. CASE windows # {}
    <3> DEFINE S == {w[2] : w \in windows}
    <3>1. S \in SUBSET Nat /\ S # {} /\ \A x \in S : x <= top
      BY <2>2, Ranges
    <3>2. PICK x \in S : \A y \in S : y <= x
      BY <3>1, Ranges, Greatest
    <3>3. Of(x) /\ x \in 0 .. Last
      BY <3>1, <3>2, Ranges
    <3>4. QED
      BY <3>3
  <2>3. QED
    BY <2>1, <2>2
<1>2. Checkpoint = CHOOSE n \in 0 .. Last : Of(n)
  BY DEF Checkpoint, CuratedOf
<1>3. Checkpoint \in 0 .. Last /\ Of(Checkpoint)
  BY <1>1, <1>2
<1>4. QED
  BY <1>3, Ranges
-----------------------------------------------------------------------------
(* The units: the windows joined where they overlap.                       *)

\* Whether a window holds record m and the one before it; a unit is where windows do.
Link(m)   == \E w \in windows : m \in w[1] + 1 .. w[2]
Joined(u) == \A m \in u[1] + 1 .. u[2] : Link(m)
Start(n)  == ~Link(n) /\ \E w \in windows : w[1] = n
End(n)    == ~Link(n + 1) /\ \E w \in windows : w[2] = n

\* A unit goes from a start to the first end after it.
LEMMA UnitIs ==
  ASSUME Bounded, RangesOK
  PROVE  \A u : u \in Units <=> /\ u = <<u[1], u[2]>> /\ u[1] <= u[2]
                                /\ Start(u[1]) /\ End(u[2])
                                /\ \A e : End(e) /\ e >= u[1] => u[2] <= e
<1> DEFINE starts == {w[1] : w \in {w \in windows : \A v \in windows : w[1] \notin v[1] + 1 .. v[2]}}
           ends   == {w[2] : w \in {w \in windows : \A v \in windows : w[2] \notin v[1] .. v[2] - 1}}
<1>1. Units = {u \in starts \X ends : u[1] <= u[2] /\ \A e \in ends : e >= u[1] => u[2] <= e}
  BY DEF Units
<1>2. \A n : n \in starts <=> Start(n)
  BY DEF Start, Link
<1>3. \A n : n \in ends <=> End(n)
  <2>1. \A w \in windows, v \in windows : w[2] \in v[1] .. v[2] - 1 <=> w[2] + 1 \in v[1] + 1 .. v[2]
    BY Ranges
  <2>2. QED
    BY <2>1 DEF End, Link
<1> HIDE DEF starts, ends
<1>4. QED
  BY <1>1, <1>2, <1>3

\* Every window is part of one unit.
LEMMA UnitOf ==
  ASSUME Bounded, RangesOK, NEW w \in windows, NEW r \in Span(w)
  PROVE  \E u \in Units : Span(w) \subseteq Span(u) /\ Joined(u)
<1>1. /\ r \in 1 .. top /\ w[1] \in 1 .. top /\ w[2] \in 1 .. top /\ w[1] <= r /\ r <= w[2]
      /\ top \in Nat
  BY Ranges DEF Span
<1>2. \A m : Link(m) => m \in 2 .. top
  BY Ranges DEF Link
<1> DEFINE A == {n \in 1 .. r : \A m \in n + 1 .. r : Link(m)}
           B == {n \in r .. top : \A m \in r + 1 .. n : Link(m)}
<1>3. \E a \in A : \A n \in A : a <= n
  <2>1. A \in SUBSET Nat /\ r \in A
    BY <1>1
  <2>2. QED
    BY <2>1, Least
<1>4. \E b \in B : \A n \in B : n <= b
  <2>1. B \in SUBSET Nat /\ r \in B /\ \A x \in B : x <= top
    BY <1>1
  <2>2. QED
    BY <1>1, <2>1, Greatest
<1>5. PICK a \in A : \A n \in A : a <= n
  BY <1>3
<1>6. PICK b \in B : \A n \in B : n <= b
  BY <1>4
<1>7. a \in 1 .. r /\ a <= w[1]
  <2>1. w[1] \in A
    BY <1>1 DEF Link
  <2>2. QED
    BY <1>1, <1>5, <2>1
<1>8. b \in r .. top /\ w[2] <= b
  <2>1. w[2] \in B
    BY <1>1 DEF Link
  <2>2. QED
    BY <1>1, <1>6, <2>1
<1>9. \A m \in a + 1 .. b : Link(m)
  BY <1>1, <1>5, <1>6, <1>7, <1>8
<1>10. ~Link(a)
  <2> SUFFICES ASSUME Link(a) PROVE FALSE
    OBVIOUS
  <2>1. a - 1 \in A
    BY <1>1, <1>2, <1>5, <1>7
  <2>2. QED
    BY <1>5, <1>7, <2>1
<1>11. ~Link(b + 1)
  <2> SUFFICES ASSUME Link(b + 1) PROVE FALSE
    OBVIOUS
  <2>1. b + 1 \in B
    BY <1>1, <1>2, <1>6, <1>8
  <2>2. QED
    BY <1>6, <1>8, <2>1
<1>12. Start(a)
  <2>1. CASE a = r
    BY <1>1, <1>10, <2>1 DEF Start, Link
  <2>2. CASE a < r
    <3>1. PICK v \in windows : a + 1 \in v[1] + 1 .. v[2]
      BY <1>1, <1>7, <1>8, <1>9, <2>2 DEF Link
    <3>2. v[1] = a
      BY <1>7, <1>10, <3>1, Ranges DEF Link
    <3>3. QED
      BY <1>10, <3>2 DEF Start
  <2>3. QED
    BY <1>1, <1>7, <2>1, <2>2
<1>13. End(b)
  <2>1. CASE b = r
    BY <1>1, <1>11, <2>1 DEF End, Link
  <2>2. CASE b > r
    <3>1. PICK v \in windows : b \in v[1] + 1 .. v[2]
      BY <1>1, <1>7, <1>8, <1>9, <2>2 DEF Link
    <3>2. v[2] = b
      BY <1>8, <1>11, <3>1, Ranges DEF Link
    <3>3. QED
      BY <1>11, <3>2 DEF End
  <2>3. QED
    BY <1>1, <1>8, <2>1, <2>2
<1>14. \A e : End(e) /\ e >= a => b <= e
  <2> SUFFICES ASSUME NEW e, End(e), e >= a, ~(b <= e) PROVE FALSE
    OBVIOUS
  <2>1. e \in Nat
    BY Ranges DEF End
  <2>2. e + 1 \in a + 1 .. b
    BY <1>1, <1>7, <1>8, <2>1
  <2>3. QED
    BY <1>9, <2>2 DEF End
<1>15. <<a, b>> \in Units
  BY <1>1, <1>7, <1>8, <1>12, <1>13, <1>14, UnitIs
<1>16. Span(w) \subseteq Span(<<a, b>>) /\ Joined(<<a, b>>)
  BY <1>1, <1>7, <1>8, <1>9 DEF Span, Joined
<1>17. QED
  BY <1>15, <1>16

\* No two units have a record in common.
LEMMA UnitsApart ==
  ASSUME Bounded, RangesOK
  PROVE  /\ \A u \in Units : Joined(u) /\ u[1] \in 1 .. top /\ u[2] \in 1 .. top
         /\ \A u, v \in Units : \A x \in Span(u) \cap Span(v) : u = v
<1>1. \A u \in Units : u[1] \in 1 .. top /\ u[2] \in 1 .. top
  BY UnitIs, Ranges DEF Start, End
<1>2. ASSUME NEW u \in Units, NEW v \in Units, NEW x \in Span(u) \cap Span(v)
      PROVE  u[2] = v[2]
  <2>1. u[1] <= x /\ x <= u[2] /\ v[1] <= x /\ x <= v[2] /\ x \in Nat
    BY <1>1, <1>2 DEF Span
  <2>2. u[2] >= v[1] /\ v[2] >= u[1]
    BY <1>1, <2>1
  <2>3. QED
    BY <1>1, <2>2, UnitIs
<1>3. ASSUME NEW u \in Units, NEW v \in Units, NEW x \in Span(u) \cap Span(v), Joined(u)
      PROVE  ~(u[1] < v[1])
  BY <1>1, <1>3, UnitIs DEF Joined, Start, Span
<1>4. ASSUME NEW v \in Units PROVE Joined(v)
  <2>1. PICK w \in windows : w[1] = v[1]
    BY UnitIs DEF Start
  <2>2. w[1] \in Span(w) /\ v[1] \in Span(v)
    BY <1>1, <2>1, UnitIs, Ranges DEF Span
  <2>3. PICK u \in Units : Span(w) \subseteq Span(u) /\ Joined(u)
    BY <2>2, UnitOf
  <2>4. v[1] \in Span(u) \cap Span(v)
    BY <2>1, <2>2, <2>3
  <2>5. u[2] = v[2] /\ ~(u[1] < v[1])
    BY <1>2, <1>3, <2>3, <2>4
  <2>6. u[1] <= v[1]
    BY <1>1, <2>4 DEF Span
  <2>7. QED
    BY <1>1, <2>3, <2>5, <2>6 DEF Joined
<1>5. ASSUME NEW u \in Units, NEW v \in Units, NEW x \in Span(u) \cap Span(v)
      PROVE  u = v
  <2>1. u[2] = v[2]
    BY <1>2, <1>5
  <2>2. ~(u[1] < v[1]) /\ ~(v[1] < u[1])
    BY <1>3, <1>4, <1>5
  <2>3. QED
    BY <1>1, <2>1, <2>2, UnitIs
<1>6. QED
  BY <1>1, <1>4, <1>5
-----------------------------------------------------------------------------
(* The plan of a batch.                                                    *)

\* The units that go are fit, and their earlier ones of the same sessions go with them.
LEMMA EligibleIs ==
  \A u \in Eligible : u \in Units /\ Fit(u) /\ Earlier(u) \subseteq Eligible
  BY DEF Eligible

LEMMA PlannedIs ==
  ASSUME Bounded, RangesOK, FirstOf(rows, Expired), NoGap(windows)
  PROVE  /\ Planned \subseteq Raw \ Exempt
         /\ FirstOf(rows, Expired \cup Planned)
         /\ \A r \in Planned : In(r, windows) /\ Newest(Session(r)) <= Checkpoint
         /\ \A w \in windows : Expiring(w) \subseteq Planned \/ Expiring(w) \cap Planned = {}
<1>1. \A r \in Planned : \E u \in Eligible : r \in Expiring(u)
  BY DEF Planned
<1>2. Planned \subseteq Raw \ Exempt
  BY <1>1 DEF Expiring
<1>3. \A r \in Raw : r \in 1 .. top
  BY DEF RangesOK
<1>4. ASSUME NEW u \in Units, NEW n \in 1 .. u[2] PROVE In(n, windows)
  <2>1. PICK w \in windows : w[2] = u[2]
    BY UnitIs DEF End
  <2>2. QED
    BY <1>4, <2>1 DEF NoGap
<1>5. ASSUME NEW r \in rows \ Exempt, NEW q \in rows \ Exempt,
             Session(r) = Session(q), r < q, q \in Planned
      PROVE  r \in Expired \cup Planned
  <2>1. PICK u \in Eligible : q \in Expiring(u)
    BY <1>1, <1>5
  <2>2. u \in Units /\ Earlier(u) \subseteq Eligible
    BY EligibleIs
  <2>3. CASE r \notin Raw
    BY <1>5, <2>3 DEF Expired
  <2>4. CASE r \in Raw /\ r \in Span(u)
    <3>1. r \in Expiring(u)
      BY <1>5, <2>4 DEF Expiring
    <3>2. QED
      BY <3>1 DEF Planned
  <2>5. CASE r \in Raw /\ r \notin Span(u)
    <3>1. /\ r \in 1 .. top /\ q \in Span(u) /\ u[1] \in 1 .. top /\ u[2] \in 1 .. top
          /\ top \in Nat
      BY <1>3, <2>1, <2>2, <2>5, UnitsApart, Ranges DEF Expiring
    <3>2. r < u[1] /\ r \in 1 .. u[2]
      BY <1>5, <2>5, <3>1 DEF Span
    <3>3. PICK w \in windows : r \in Span(w)
      BY <1>4, <2>2, <3>2 DEF In
    <3>4. PICK v \in Units : Span(w) \subseteq Span(v)
      BY <3>3, UnitOf
    <3>5. r \in Expiring(v)
      BY <1>5, <2>5, <3>3, <3>4 DEF Expiring
    <3>6. v[2] < u[2]
      <4> SUFFICES ASSUME ~(v[2] < u[2]) PROVE FALSE
        OBVIOUS
      <4>1. v[1] \in 1 .. top /\ v[2] \in 1 .. top /\ v[1] <= r
        BY <3>3, <3>4, UnitsApart, Ranges DEF Span
      <4>2. u[1] \in Span(u) \cap Span(v)
        BY <3>1, <3>2, <4>1 DEF Span
      <4>3. QED
        BY <2>2, <2>5, <3>3, <3>4, <4>2, UnitsApart
    <3>7. Session(r) \in SessionsOf(v) \cap SessionsOf(u)
      BY <1>5, <2>1, <3>5 DEF SessionsOf
    <3>8. v \in Eligible
      BY <2>2, <3>6, <3>7 DEF Earlier
    <3>9. QED
      BY <3>5, <3>8 DEF Planned
  <2>6. QED
    BY <2>3, <2>4, <2>5
<1>6. FirstOf(rows, Expired \cup Planned)
  BY <1>5 DEF FirstOf
<1>7. ASSUME NEW r \in Planned
      PROVE  In(r, windows) /\ Newest(Session(r)) <= Checkpoint
  <2>1. PICK u \in Eligible : r \in Expiring(u)
    BY <1>1
  <2>2. u \in Units /\ Fit(u) /\ r \in 1 .. u[2] /\ Session(r) \in SessionsOf(u)
    BY <1>3, <2>1, EligibleIs, UnitsApart, Ranges DEF Expiring, SessionsOf, Span
  <2>3. QED
    BY <1>4, <2>2 DEF Fit
<1>8. ASSUME NEW w \in windows, NEW x \in Expiring(w), x \in Planned
      PROVE  Expiring(w) \subseteq Planned
  <2>1. PICK u \in Eligible : x \in Expiring(u)
    BY <1>1, <1>8
  <2>2. PICK v \in Units : Span(w) \subseteq Span(v)
    BY <1>8, UnitOf DEF Expiring
  <2>3. v = u
    BY <1>8, <2>1, <2>2, EligibleIs, UnitsApart DEF Expiring
  <2>4. Expiring(w) \subseteq Expiring(u)
    BY <2>2, <2>3 DEF Expiring
  <2>5. QED
    BY <2>4 DEF Planned
<1>9. QED
  BY <1>2, <1>6, <1>7, <1>8
-----------------------------------------------------------------------------
(* What each step does to the stores.                                      *)

HistoryIs == history' = history /\ Exempt' = Exempt /\ \A r, q : (Session(r) = Session(q))' <=> Session(r) = Session(q)

LEMMA HistoryKept == ASSUME history' = history PROVE HistoryIs
  BY DEF HistoryIs, Exempt, Events, Session

\* A text that is in no store comes back from none.
LEMMA GoneKept ==
  ASSUME \A s \in Stores : text'[s] \subseteq UNION {text[t] : t \in Stores}
  PROVE  \A r : Gone(r) => Gone(r)'
  BY DEF Gone

\* What Data is about, but the other stores.
held == <<history, top, rows, windows, sealed>>

\* A step that leaves raw.db and the backups' texts as they are.
LEMMA OtherStores ==
  ASSUME Data, UNCHANGED <<held, table, file>>,
         text' \in [Stores -> SUBSET (1 .. top)], text'["raw"] = text["raw"],
         text'["segments"] = text["segments"],
         \A s \in Stores : text'[s] \subseteq UNION {text[t] : t \in Stores}
  PROVE  Data'
<1>1. HistoryIs /\ Raw' = Raw /\ Expired' = Expired
  BY HistoryKept DEF held, Raw, Expired
<1>2. RangesOK'
  BY <1>1 DEF held, Data, RangesOK, Last, HistoryIs
<1>3. GoneOK'
  BY <1>1, GoneKept DEF held, Data, GoneOK, Sealed
<1>4. OrderOK'
  BY <1>1 DEF held, Data, OrderOK, FirstOf, HistoryIs
<1>5. CoverOK'
  BY <1>1 DEF held, Data, CoverOK, NoGap, In, Span
<1>6. QED
  BY <1>2, <1>3, <1>4, <1>5 DEF Data

LEMMA SameKeeps ==
  ASSUME Bounded, Data, UNCHANGED <<held, text, table, file>>
  PROVE  Data'
<1>1. text' \in [Stores -> SUBSET (1 .. top)]
  BY DEF Data, RangesOK
<1>2. QED
  BY <1>1, OtherStores

\* The records of a session that expired or are planned are the first ones; the backups
\* would expire the same.
LEMMA BeginKeeps ==
  ASSUME Bounded, Data, StagesOK, PlanOK, Begin
  PROVE  Data'
<1>1. UNCHANGED <<held, text, file>> /\ at = "begin" /\ table = {} /\ table' \in {table, me.records}
  BY DEF Begin, held, world, StagesOK
<1>2. CASE table' = table
  BY <1>1, <1>2, SameKeeps
<1>3. CASE table' = me.records
  <2>1. HistoryIs /\ Raw' = Raw /\ Expired' = Expired /\ \A r : Gone(r)' <=> Gone(r)
    BY <1>1, HistoryKept DEF held, Raw, Expired, Gone
  <2>2. /\ me.records \subseteq 1 .. top /\ FirstOf(rows, Expired \cup me.records)
        /\ \A r \in me.records : In(r, sealed.windows)
    BY <1>1 DEF PlanOK
  <2>3. \A r \in sealed.rows : r \in (sealed.rows \ text["segments"]) \cup file <=> r \in Expired
    BY <1>1, Ranges DEF Data, GoneOK, Gone, Sealed, Expired, Raw, Stores
  <2>4. sealed.rows \subseteq rows
    BY Ranges DEF Data
  <2>5. RangesOK'
    BY <1>1, <1>3, <2>1, <2>2 DEF held, Data, RangesOK, Last
  <2>6. GoneOK'
    BY <1>1, <1>3, <2>1 DEF held, Data, GoneOK, Sealed
  <2>7. OrderOK'
    <3>1. FirstOf(sealed.rows, (sealed.rows \ text["segments"]) \cup file \cup me.records)
      BY <2>2, <2>3, <2>4 DEF FirstOf
    <3>2. QED
      BY <1>1, <1>3, <2>1, <2>2, <3>1 DEF held, Data, OrderOK, FirstOf, HistoryIs
  <2>8. CoverOK'
    BY <1>1, <1>3, <2>1, <2>2 DEF held, Data, CoverOK, NoGap, In, Span
  <2>9. QED
    BY <2>5, <2>6, <2>7, <2>8 DEF Data
<1>4. QED
  BY <1>1, <1>2, <1>3

\* What the old file lists and the table does not is in no store.
LEMMA WriteFileKeeps ==
  ASSUME Bounded, Data, WriteFile
  PROVE  Data'
<1>1. UNCHANGED <<held, text, table>> /\ file' = table
  BY DEF WriteFile, held, world
<1>2. HistoryIs /\ Raw' = Raw /\ Expired' = Expired /\ \A r : Gone(r)' <=> Gone(r)
  BY <1>1, HistoryKept DEF held, Raw, Expired, Gone
<1>3. RangesOK'
  BY <1>1, <1>2 DEF held, Data, RangesOK, Last
<1>4. GoneOK'
  BY <1>1, <1>2 DEF held, Data, GoneOK, Sealed
<1>5. OrderOK'
  <2>1. \A r \in sealed.rows : r \in file \ table => ~Sealed(r)
    BY DEF Data, GoneOK, Gone, Sealed, Stores
  <2>2. \A r \in rows : r \in (Expired \ text["segments"]) \cup table <=> r \in Expired \cup table
    BY DEF Data, GoneOK, Gone, Sealed, Expired, Stores
  <2>3. /\ FirstOf(rows, (Expired \ text["segments"]) \cup table)
        /\ FirstOf(sealed.rows, (sealed.rows \ text["segments"]) \cup table)
    BY <2>1, <2>2 DEF Data, OrderOK, FirstOf, Sealed
  <2>4. QED
    BY <1>1, <1>2, <2>3 DEF held, Data, OrderOK, FirstOf, HistoryIs
<1>6. CoverOK'
  BY <1>1, <1>2 DEF held, Data, CoverOK, NoGap, In, Span
<1>7. QED
  BY <1>3, <1>4, <1>5, <1>6 DEF Data

\* The batch's texts leave the backups, once state/expiry-owed has the batch.
LEMMA ExpireSegmentsKeeps ==
  ASSUME Bounded, Data, StagesOK, ExpireSegments
  PROVE  Data'
<1>1. /\ UNCHANGED <<held, table, file>> /\ file = table
      /\ text' = [text EXCEPT !["segments"] = @ \ table]
  BY DEF ExpireSegments, held, world, StagesOK, AfterFile
<1>2. /\ text' \in [Stores -> SUBSET (1 .. top)] /\ text'["segments"] = text["segments"] \ table
      /\ \A s \in Stores \ {"segments"} : text'[s] = text[s]
      /\ \A s \in Stores : text'[s] \subseteq UNION {text[t] : t \in Stores}
  BY <1>1 DEF Data, RangesOK, Stores
<1>3. HistoryIs /\ Raw' = Raw /\ Expired' = Expired /\ \A r : Gone(r) => Gone(r)'
  BY <1>1, <1>2, HistoryKept, GoneKept DEF held, Raw, Expired, Stores
<1>4. RangesOK'
  BY <1>1, <1>2, <1>3 DEF held, Data, RangesOK, Last
<1>5. GoneOK'
  BY <1>1, <1>2, <1>3 DEF held, Data, GoneOK, Sealed
<1>6. OrderOK'
  <2>1. /\ (Expired' \ text'["segments"]) \cup file' = (Expired \ text["segments"]) \cup file \cup (Expired \cap table)
        /\ (sealed.rows \ text'["segments"]) \cup file = (sealed.rows \ text["segments"]) \cup file
    BY <1>1, <1>2, <1>3
  <2>2. QED
    BY <1>1, <1>3, <2>1 DEF held, Data, OrderOK, FirstOf, HistoryIs
<1>7. CoverOK'
  BY <1>1, <1>2, <1>3 DEF held, Data, CoverOK, NoGap, In, Span
<1>8. QED
  BY <1>4, <1>5, <1>6, <1>7 DEF Data

\* They leave raw.db.
LEMMA ExpireRowsKeeps ==
  ASSUME Bounded, Data, StagesOK, ExpireRows
  PROVE  Data'
<1>1. /\ UNCHANGED <<held, table, file>> /\ file = table
      /\ text' = [text EXCEPT !["raw"] = @ \ table, !["wal"] = @ \cup (Raw \ table)]
  BY DEF ExpireRows, held, world, StagesOK, AfterFile, AfterSegments, AfterCopies
<1>2. /\ text' \in [Stores -> SUBSET (1 .. top)] /\ text'["raw"] = text["raw"] \ table
      /\ text'["segments"] = text["segments"]
      /\ \A s \in Stores : text'[s] \subseteq UNION {text[t] : t \in Stores}
  BY <1>1 DEF Data, RangesOK, Stores, Raw
<1>3. /\ HistoryIs /\ Raw' = Raw \ table /\ Expired' = Expired \cup (rows \cap table)
      /\ \A r : Gone(r) => Gone(r)'
  BY <1>1, <1>2, HistoryKept, GoneKept DEF held, Raw, Expired
<1>4. RangesOK'
  BY <1>1, <1>2, <1>3 DEF held, Data, RangesOK, Last
<1>5. GoneOK'
  BY <1>1, <1>2, <1>3 DEF held, Data, GoneOK, Sealed
<1>6. OrderOK'
  BY <1>1, <1>2, <1>3 DEF held, Data, OrderOK, FirstOf, HistoryIs
<1>7. CoverOK'
  BY <1>1, <1>2, <1>3 DEF held, Data, CoverOK, NoGap, In, Span
<1>8. QED
  BY <1>4, <1>5, <1>6, <1>7 DEF Data

\* They leave the copies and what else is made from raw.db.
LEMMA CopiesKeep ==
  ASSUME Bounded, Data, ExpireCopies \/ Truncate \/ Rebuild \/ RemoveAside \/ Index
  PROVE  Data'
<1>1. /\ UNCHANGED <<held, table, file>>
      /\ \/ text' = [text EXCEPT !["copies"] = @ \ (table \cup Expired)]
         \/ text' = [text EXCEPT !["wal"] = {}]
         \/ text' = text
         \/ text' = [text EXCEPT !["knowledge"] = Raw, !["aside"] = @ \cup text["knowledge"]]
         \/ text' = [text EXCEPT !["aside"] = {}]
         \/ text' = [text EXCEPT !["knowledge"] = @ \cup Raw]
  BY DEF ExpireCopies, Truncate, Rebuild, RemoveAside, Index, held, world
<1>2. /\ text' \in [Stores -> SUBSET (1 .. top)] /\ text'["raw"] = text["raw"]
      /\ text'["segments"] = text["segments"]
  BY <1>1 DEF Data, RangesOK, Stores, Raw
<1>3. \A s \in Stores : text'[s] \subseteq UNION {text[t] : t \in Stores}
  BY <1>1 DEF Data, RangesOK, Stores, Raw
<1>4. QED
  BY <1>1, <1>2, <1>3, OtherStores

\* The batch is forgotten once no store has its texts.
LEMMA ClearTableKeeps ==
  ASSUME Bounded, Data, StagesOK, ClearTable
  PROVE  Data'
<1>1. UNCHANGED <<held, text, file>> /\ table' = {} /\ file = table
  BY DEF ClearTable, held, world, StagesOK, AfterFile, AfterSegments, AfterCopies, AfterRows,
     AfterTruncate, AfterRebuild
<1>2. \A r \in table : Gone(r)
  BY DEF ClearTable, StagesOK, AfterSegments, AfterCopies, AfterRows, AfterTruncate,
     AfterRebuild, Gone, Without, Stores
<1>3. HistoryIs /\ Raw' = Raw /\ Expired' = Expired /\ \A r : Gone(r)' <=> Gone(r)
  BY <1>1, HistoryKept DEF held, Raw, Expired, Gone
<1>4. RangesOK'
  BY <1>1, <1>3 DEF held, Data, RangesOK, Last
<1>5. GoneOK'
  BY <1>1, <1>2, <1>3 DEF held, Data, GoneOK, Sealed
<1>6. OrderOK'
  BY <1>1, <1>3 DEF held, Data, OrderOK, FirstOf, HistoryIs
<1>7. CoverOK'
  BY <1>1, <1>3 DEF held, Data, CoverOK, NoGap, In, Span
<1>8. QED
  BY <1>4, <1>5, <1>6, <1>7 DEF Data

LEMMA RemoveFileKeeps ==
  ASSUME Bounded, Data, StagesOK, RemoveFile
  PROVE  Data'
<1>1. UNCHANGED <<held, text, table>> /\ file' = {} /\ table = {}
  BY DEF RemoveFile, held, world, StagesOK
<1>2. HistoryIs /\ Raw' = Raw /\ Expired' = Expired /\ \A r : Gone(r)' <=> Gone(r)
  BY <1>1, HistoryKept DEF held, Raw, Expired, Gone
<1>3. \A r \in file : Gone(r) /\ r \notin Raw /\ ~Sealed(r)
  BY <1>1 DEF Data, GoneOK, Gone, Sealed, Raw, Stores
<1>4. RangesOK'
  BY <1>1, <1>2 DEF held, Data, RangesOK, Last
<1>5. GoneOK'
  BY <1>1, <1>2, <1>3 DEF held, Data, GoneOK, Sealed
<1>6. OrderOK'
  <2>1. /\ \A r \in rows : r \in (Expired \ text["segments"]) \cup file <=> r \in Expired \ text["segments"]
        /\ \A r \in sealed.rows : r \in (sealed.rows \ text["segments"]) \cup file
                                    <=> r \in sealed.rows \ text["segments"]
    BY <1>3 DEF Sealed, Expired
  <2>2. /\ FirstOf(rows, Expired \ text["segments"])
        /\ FirstOf(sealed.rows, sealed.rows \ text["segments"])
    BY <2>1 DEF Data, OrderOK, FirstOf
  <2>3. QED
    BY <1>1, <1>2, <2>2 DEF held, Data, OrderOK, FirstOf, HistoryIs
<1>7. CoverOK'
  BY <1>1, <1>2 DEF held, Data, CoverOK, NoGap, In, Span
<1>8. QED
  BY <1>4, <1>5, <1>6, <1>7 DEF Data

\* A new record is its session's latest, and no list names it.
LEMMA CaptureKeeps ==
  ASSUME Bounded, Data, Capture
  PROVE  Data'
<1>1. /\ UNCHANGED <<history, windows, sealed, table, file>> /\ top < Last
      /\ top' = top + 1 /\ rows' = rows \cup {top'}
      /\ text' = [text EXCEPT !["raw"] = @ \cup {top'}, !["wal"] = @ \cup {top'}]
  BY DEF Capture
<1>2. /\ text \in [Stores -> SUBSET (1 .. top)] /\ top \in Nat /\ Last \in Nat
      /\ rows \subseteq 1 .. top /\ sealed.rows \subseteq rows
      /\ table \subseteq 1 .. top /\ file \subseteq 1 .. top
  BY Ranges DEF Data, RangesOK
<1>3. /\ \A s \in Stores : text'[s] \in SUBSET (1 .. top')
      /\ text'["raw"] = text["raw"] \cup {top'} /\ text'["segments"] = text["segments"]
      /\ \A r \in 1 .. top : \A s \in Stores : r \in text'[s] => r \in text[s]
      /\ text' \in [Stores -> SUBSET (1 .. top')]
  BY <1>1, <1>2 DEF Stores
<1>4. /\ HistoryIs /\ Raw' = Raw \cup {top'} /\ Expired' = Expired
      /\ top' \notin rows /\ top' \notin sealed.rows /\ top' \notin table /\ top' \notin file
      /\ \A r \in 1 .. top : Gone(r) => Gone(r)'
  <2>1. top' \notin 1 .. top
    BY <1>1, <1>2
  <2>2. top' \notin rows /\ top' \notin sealed.rows /\ top' \notin table /\ top' \notin file
    BY <1>2, <2>1
  <2>3. HistoryIs /\ Raw' = Raw \cup {top'} /\ Expired' = Expired
    BY <1>1, <1>3, <2>2, HistoryKept DEF Raw, Expired
  <2>4. \A r \in 1 .. top : Gone(r) => Gone(r)'
    BY <1>3 DEF Gone
  <2>5. QED
    BY <2>2, <2>3, <2>4
<1>5. RangesOK'
  <2>1. /\ rows' \subseteq 1 .. top' /\ Raw' \subseteq rows' /\ top' \in 0 .. Last'
        /\ table \subseteq 1 .. top' /\ file \subseteq 1 .. top'
    BY <1>1, <1>2, <1>4 DEF Data, RangesOK, Last
  <2>2. windows \subseteq (1 .. top') \X (1 .. top')
    BY <1>1, <1>2 DEF Data, RangesOK
  <2>3. sealed \in [rows : SUBSET rows', windows : SUBSET windows]
    BY <1>1 DEF Data, RangesOK
  <2>4. QED
    BY <1>1, <1>3, <2>1, <2>2, <2>3 DEF Data, RangesOK
<1>6. GoneOK'
  BY <1>1, <1>2, <1>3, <1>4 DEF Data, GoneOK, Sealed, Expired
<1>7. OrderOK'
  <2>1. \A r \in rows : r \in 1 .. top /\ r < top' /\ ~(top' < r)
    BY <1>1, <1>2
  <2>2. \A X : FirstOf(rows, X) /\ top' \notin X => FirstOf(rows', X)
    BY <1>1, <1>2, <2>1 DEF FirstOf
  <2>3. FirstOf(rows', Expired) /\ FirstOf(rows', Expired \cup table)
        /\ FirstOf(rows', (Expired \ text["segments"]) \cup file)
    BY <1>4, <2>2 DEF Data, OrderOK, Expired
  <2>4. QED
    BY <1>1, <1>3, <1>4, <2>3 DEF Data, OrderOK, FirstOf, HistoryIs
<1>8. CoverOK'
  BY <1>1, <1>3, <1>4 DEF Data, CoverOK, NoGap, In, Span
<1>9. QED
  BY <1>5, <1>6, <1>7, <1>8 DEF Data

\* A new window begins where the windows end, and one curated again is inside them.
LEMMA CurateKeeps ==
  ASSUME Bounded, Data, Curate
  PROVE  Data'
<1>1. /\ UNCHANGED <<history, top, rows, sealed, text, table, file>>
      /\ \E from, to \in 1 .. top : /\ from <= to /\ from <= Checkpoint + 1
                                    /\ windows' = windows \cup {<<from, to>>}
  <2>1. Checkpoint \in 0 .. top /\ top \in Nat
    BY CheckpointIs, Ranges DEF Data
  <2>2. CASE \E to \in Checkpoint + 1 .. top : windows' = windows \cup {<<Checkpoint + 1, to>>}
    BY <2>1, <2>2 DEF Curate
  <2>3. CASE \E from \in 1 .. Checkpoint, to \in 1 .. Checkpoint :
               from <= to /\ windows' = windows \cup {<<from, to>>}
    BY <2>1, <2>3 DEF Curate
  <2>4. QED
    BY <2>2, <2>3 DEF Curate
<1>2. PICK from \in 1 .. top, to \in 1 .. top :
        from <= to /\ from <= Checkpoint + 1 /\ windows' = windows \cup {<<from, to>>}
  BY <1>1
<1>3. HistoryIs /\ Raw' = Raw /\ Expired' = Expired /\ \A r : Gone(r)' <=> Gone(r)
  BY <1>1, HistoryKept DEF Raw, Expired, Gone
<1>4. RangesOK'
  <2>1. windows' \subseteq (1 .. top) \X (1 .. top) /\ \A w \in windows' : w[1] <= w[2]
    BY <1>2 DEF Data, RangesOK
  <2>2. sealed \in [rows : SUBSET rows, windows : SUBSET windows']
    BY <1>2 DEF Data, RangesOK
  <2>3. QED
    BY <1>1, <1>3, <2>1, <2>2 DEF Data, RangesOK, Last
<1>5. GoneOK'
  BY <1>1, <1>3 DEF Data, GoneOK, Sealed
<1>6. OrderOK'
  BY <1>1, <1>3 DEF Data, OrderOK, FirstOf, HistoryIs
<1>7. NoGap(windows')
  <2> SUFFICES ASSUME NEW w \in windows', NEW n \in 1 .. w[2] PROVE In(n, windows')
    BY DEF NoGap
  <2>1. \A r : In(r, windows) => In(r, windows')
    BY <1>2 DEF In
  <2>2. CASE w \in windows
    BY <2>1, <2>2 DEF Data, CoverOK, NoGap
  <2>3. CASE w = <<from, to>> /\ n \in from .. to
    BY <1>2, <2>3 DEF In, Span
  <2>4. CASE w = <<from, to>> /\ n < from
    <3>1. Checkpoint \in Nat /\ n <= Checkpoint /\ n >= 1 /\ top \in Nat /\ n \in Nat
      BY <1>2, <2>4, CheckpointIs, Ranges DEF Data
    <3>2. PICK v \in windows : v[2] = Checkpoint
      BY <3>1, CheckpointIs DEF Data
    <3>3. n \in 1 .. v[2]
      BY <3>1, <3>2
    <3>4. QED
      BY <2>1, <3>3 DEF Data, CoverOK, NoGap
  <2>5. n \in Nat /\ from \in Nat /\ to \in Nat
    BY <1>2, Ranges, <2>2, <2>3 DEF Data
  <2>6. QED
    BY <1>2, <2>2, <2>3, <2>4, <2>5
<1>8. CoverOK'
  BY <1>1, <1>3, <1>7 DEF Data, CoverOK, NoGap, In, Span
<1>9. QED
  BY <1>4, <1>5, <1>6, <1>8 DEF Data

\* The backups get raw.db's rows, texts and windows.
LEMMA ExportKeeps ==
  ASSUME Bounded, Data, Exported, UNCHANGED <<history, top, rows, windows, table, file>>
  PROVE  Data'
<1>1. /\ sealed' = [rows |-> rows, windows |-> windows]
      /\ text' = [text EXCEPT !["segments"] = @ \cup Raw]
  BY Ranges DEF Exported, Data
<1>2. /\ text' \in [Stores -> SUBSET (1 .. top)] /\ text'["segments"] = text["segments"] \cup Raw
      /\ \A s \in Stores \ {"segments"} : text'[s] = text[s]
      /\ \A s \in Stores : text'[s] \subseteq UNION {text[t] : t \in Stores}
  BY <1>1 DEF Data, RangesOK, Stores, Raw
<1>3. HistoryIs /\ Raw' = Raw /\ Expired' = Expired /\ \A r : Gone(r) => Gone(r)'
  BY <1>1, <1>2, HistoryKept, GoneKept DEF Raw, Expired, Stores
<1>4. \A r \in rows : r \in sealed'.rows \ text'["segments"] <=> r \in Expired \ text["segments"]
  BY <1>1, <1>2 DEF Expired
<1>5. \A r \in rows : r \in file \ table => r \in Expired /\ ~Sealed(r)
  BY DEF Data, GoneOK, Gone, Sealed, Expired, Raw, Stores
<1>6. \A r \in rows : r \in Expired \cup table <=> r \in (Expired \ text["segments"]) \cup file \cup table
  BY DEF Data, GoneOK, Gone, Sealed, Expired, Raw, Stores
<1>7. RangesOK'
  BY <1>1, <1>2, <1>3 DEF Data, RangesOK, Last
<1>8. GoneOK'
  BY <1>1, <1>2, <1>3, <1>4 DEF Data, GoneOK, Sealed, Expired
<1>9. OrderOK'
  <2>1. /\ FirstOf(rows, (rows \ text'["segments"]) \cup file)
        /\ FirstOf(rows, (rows \ text'["segments"]) \cup file \cup table)
        /\ FirstOf(rows, (Expired \ text'["segments"]) \cup file)
    BY <1>1, <1>2, <1>4, <1>6 DEF Data, OrderOK, FirstOf, Expired
  <2>2. QED
    BY <1>1, <1>3, <2>1 DEF Data, OrderOK, FirstOf, HistoryIs
<1>10. CoverOK'
  <2>1. \A r : In(r, sealed.windows) => In(r, windows)
    BY Ranges DEF In, Data
  <2>2. \A r \in Expired' \cup (sealed'.rows \ text'["segments"]) \cup table \cup file : In(r, windows)
    BY <1>1, <1>3, <1>4, <2>1 DEF Data, CoverOK
  <2>3. QED
    BY <1>1, <1>3, <2>2 DEF Data, CoverOK, NoGap, In, Span
<1>11. QED
  BY <1>7, <1>8, <1>9, <1>10 DEF Data

\* raw.db is what the backups have, without the batch owed.
LEMMA RestoreKeeps ==
  ASSUME Bounded, Data, NEW reads \in BOOLEAN, Restore(reads)
  PROVE  Data'
<1> DEFINE owed == file \cup (IF reads THEN table ELSE {})
<1>1. /\ UNCHANGED <<history, top, sealed, file>> /\ table' = owed
      /\ text' = [text EXCEPT !["raw"] = text["segments"] \ owed, !["wal"] = {},
                              !["copies"] = @ \cup Raw \cup text["wal"],
                              !["aside"] = @ \cup text["knowledge"], !["knowledge"] = {}]
      /\ rows' = sealed.rows /\ windows' = sealed.windows
  BY DEF Restore
<1>2. owed \in {file, file \cup table}
  OBVIOUS
<1> HIDE DEF owed
<1>3. /\ \A s \in Stores : text'[s] \in SUBSET (1 .. top)
      /\ text' \in [Stores -> SUBSET (1 .. top)]
      /\ text'["raw"] = text["segments"] \ owed /\ text'["segments"] = text["segments"]
      /\ \A s \in Stores : text'[s] \subseteq UNION {text[t] : t \in Stores}
  BY <1>1 DEF Data, RangesOK, Stores, Raw
<1>4. /\ HistoryIs /\ \A r : Gone(r) => Gone(r)'
      /\ Raw' = text["segments"] \ owed /\ Expired' = sealed.rows \ (text["segments"] \ owed)
  BY <1>1, <1>3, HistoryKept, GoneKept DEF Raw, Expired
<1>5. RangesOK'
  <2>1. /\ sealed.rows \subseteq 1 .. top /\ sealed.windows \subseteq windows
        /\ Raw' \subseteq sealed.rows /\ owed \subseteq 1 .. top
    BY <1>2, <1>4 DEF Data, RangesOK
  <2>2. sealed \in [rows : SUBSET sealed.rows, windows : SUBSET sealed.windows]
    BY DEF Data, RangesOK
  <2>3. QED
    BY <1>1, <1>3, <1>4, <2>1, <2>2 DEF Data, RangesOK, Last
<1>6. GoneOK'
  BY <1>1, <1>2, <1>3, <1>4 DEF Data, GoneOK, Sealed
<1>7. OrderOK'
  <2>1. /\ FirstOf(sealed.rows, (sealed.rows \ text["segments"]) \cup file)
        /\ FirstOf(sealed.rows, (sealed.rows \ text["segments"]) \cup owed)
    BY <1>2 DEF Data, OrderOK, FirstOf
  <2>2. \A r \in sealed.rows :
          /\ r \in Expired' <=> r \in (sealed.rows \ text["segments"]) \cup owed
          /\ r \in Expired' \ text["segments"] <=> r \in sealed.rows \ text["segments"]
    BY <1>4
  <2>3. /\ FirstOf(sealed.rows, Expired') /\ FirstOf(sealed.rows, Expired' \cup owed)
        /\ FirstOf(sealed.rows, (Expired' \ text["segments"]) \cup file)
        /\ FirstOf(sealed.rows, (sealed.rows \ text["segments"]) \cup file \cup owed)
    BY <1>2, <2>1, <2>2 DEF FirstOf
  <2>4. QED
    BY <1>1, <1>3, <1>4, <2>1, <2>3 DEF OrderOK, FirstOf, HistoryIs
<1>8. CoverOK'
  BY <1>1, <1>2, <1>3, <1>4 DEF Data, CoverOK, NoGap, In, Span
<1>9. QED
  BY <1>5, <1>6, <1>7, <1>8 DEF Data

LEMMA DataNext ==
  ASSUME Bounded, Data, StagesOK, PlanOK, [Next]_vars
  PROVE  Data'
<1>1. ASSUME UNCHANGED <<held, text, table, file>> PROVE Data'
  BY <1>1, SameKeeps
<1>2. ASSUME Pass PROVE Data'
  <2>1. ASSUME Plan \/ Resume \/ RebuildEnds PROVE Data'
    BY <1>1, <2>1 DEF Plan, Resume, RebuildEnds, held, world
  <2>2. ASSUME Seal PROVE Data'
    BY <2>2, ExportKeeps DEF Seal
  <2>3. QED
    BY <1>2, <2>1, <2>2, BeginKeeps, WriteFileKeeps, ExpireSegmentsKeeps, ExpireRowsKeeps,
       CopiesKeep, ClearTableKeeps, RemoveFileKeeps DEF Pass
<1>3. ASSUME Stops \/ Ages \/ WeekPasses \/ (\E r \in rows : Keeps(r)) PROVE Data'
  BY <1>1, <1>3 DEF Stops, Ages, WeekPasses, Keeps, held, world
<1>4. ASSUME Export PROVE Data'
  BY <1>4, ExportKeeps DEF Export
<1>5. ASSUME UNCHANGED vars PROVE Data'
  BY <1>1, <1>5 DEF vars, held, world
<1>6. QED
  BY <1>2, <1>3, <1>4, <1>5, CaptureKeeps, CurateKeeps, CopiesKeep, RestoreKeeps DEF Next
-----------------------------------------------------------------------------
(* How far a batch has come.                                               *)

\* What goes on beside the pass's own steps.
LEMMA StagesBeside ==
  ASSUME Bounded, RangesOK, StagesOK, UNCHANGED <<at, locked>>,
         Capture \/ Index \/ Export \/ (\E reads \in BOOLEAN : Restore(reads))
  PROVE  StagesOK'
<1>1. text \in [Stores -> SUBSET (1 .. top)] /\ table \subseteq 1 .. top /\ top \in Nat
  BY Ranges DEF RangesOK
<1>2. CASE Capture
  <2>1. /\ table' = table /\ file' = file /\ top' = top + 1 /\ top' \notin table
        /\ \A s \in Stores : text'[s] \subseteq text[s] \cup {top'}
    BY <1>1, <1>2 DEF Capture, Stores
  <2>2. \A s \in Stores : Without(s) => Without(s)'
    BY <2>1 DEF Without
  <2>3. QED
    BY <2>1, <2>2 DEF StagesOK, Stores
<1>3. CASE at \in {"idle", "rebuild", "last"} /\ ~Capture
  <2>1. CASE at = "idle"
    BY <2>1 DEF StagesOK, AfterFile, AfterSegments, AfterCopies, AfterRows, AfterTruncate,
       AfterRebuild
  <2>2. CASE at \in {"rebuild", "last"}
    <3>1. /\ file = table /\ Without("segments") /\ Without("copies") /\ Without("raw")
          /\ Without("wal")
          /\ at \in AfterRebuild => Without("knowledge")
      BY <2>2 DEF StagesOK, AfterFile, AfterSegments, AfterCopies, AfterRows, AfterTruncate,
         AfterRebuild
    <3>2. table' = table /\ file' = file
      BY <1>3, <3>1 DEF Index, Export, Restore
    <3>3. /\ text'["segments"] \subseteq text["segments"] \cup text["raw"]
          /\ text'["copies"] \subseteq text["copies"] \cup text["raw"] \cup text["wal"]
          /\ text'["raw"] \subseteq text["raw"] \cup text["segments"]
          /\ text'["wal"] \subseteq text["wal"]
          /\ text'["knowledge"] \subseteq text["knowledge"] \cup text["raw"]
      <4>1. CASE Index \/ Export
        BY <1>1, <4>1 DEF Index, Export, Exported, Stores, Raw
      <4>2. CASE \E reads \in BOOLEAN : Restore(reads)
        <5>1. PICK reads \in BOOLEAN : Restore(reads)
          BY <4>2
        <5> DEFINE owed == file \cup (IF reads THEN table ELSE {})
        <5>2. text' = [text EXCEPT !["raw"] = text["segments"] \ owed, !["wal"] = {},
                                   !["copies"] = @ \cup Raw \cup text["wal"],
                                   !["aside"] = @ \cup text["knowledge"], !["knowledge"] = {}]
          BY <5>1 DEF Restore
        <5> HIDE DEF owed
        <5>3. QED
          BY <1>1, <5>2 DEF Stores, Raw
      <4>3. QED
        BY <1>3, <4>1, <4>2
    <3>4. /\ Without("segments")' /\ Without("copies")' /\ Without("raw")' /\ Without("wal")'
          /\ at \in AfterRebuild => Without("knowledge")'
      BY <3>1, <3>2, <3>3 DEF Without
    <3>5. QED
      BY <2>2, <3>1, <3>2, <3>4 DEF StagesOK, AfterRebuild
  <2>3. QED
    BY <1>3, <2>1, <2>2
<1>4. CASE at \notin {"idle", "rebuild", "last"} /\ ~Capture
  BY <1>4 DEF StagesOK, Index, Export, Restore
<1>5. QED
  BY <1>2, <1>3, <1>4

\* Each step of a pass leaves one more store without the batch's texts.
LEMMA StagesPass ==
  ASSUME Bounded, RangesOK, StagesOK, Pass
  PROVE  StagesOK'
<1>1. text \in [Stores -> SUBSET (1 .. top)]
  BY DEF RangesOK
<1> USE DEF AfterFile, AfterSegments, AfterCopies, AfterRows, AfterTruncate, AfterRebuild
<1>2. CASE Plan \/ Resume \/ Begin \/ WriteFile \/ RebuildEnds \/ ClearTable \/ RemoveFile
  BY <1>2 DEF Plan, Resume, Begin, WriteFile, RebuildEnds, ClearTable, RemoveFile, StagesOK,
     Without
<1>3. CASE Seal
  BY <1>3 DEF Seal, StagesOK
<1>4. CASE ExpireSegments \/ ExpireCopies \/ ExpireRows
  <2>1. \A s \in Stores : Without(s) => Without(s)'
    BY <1>1, <1>4 DEF ExpireSegments, ExpireCopies, ExpireRows, Without, Stores
  <2>2. /\ ExpireSegments => Without("segments")'
        /\ ExpireCopies => Without("copies")'
        /\ ExpireRows => Without("raw")'
    BY <1>1 DEF ExpireSegments, ExpireCopies, ExpireRows, Without, Stores
  <2>3. QED
    BY <1>4, <2>1, <2>2 DEF ExpireSegments, ExpireCopies, ExpireRows, StagesOK, Stores
<1>5. CASE Truncate \/ Rebuild \/ RemoveAside
  <2>1. /\ Without("segments") => Without("segments")'
        /\ Without("copies") => Without("copies")'
        /\ Without("raw") => Without("raw")'
        /\ Without("wal") => Without("wal")'
        /\ ~Rebuild /\ Without("knowledge") => Without("knowledge")'
    BY <1>1, <1>5 DEF Truncate, Rebuild, RemoveAside, Without, Stores
  <2>2. /\ Truncate /\ at' = "rebuild" => Without("wal")'
        /\ Rebuild /\ Without("raw") => Without("knowledge")'
        /\ RemoveAside => Without("aside")'
    BY <1>1 DEF Truncate, Rebuild, RemoveAside, Without, Stores, Raw
  <2>3. QED
    BY <1>5, <2>1, <2>2 DEF Truncate, Rebuild, RemoveAside, StagesOK
<1>6. QED
  BY <1>2, <1>3, <1>4, <1>5 DEF Pass

LEMMA StagesNext ==
  ASSUME Bounded, RangesOK, StagesOK, [Next]_vars
  PROVE  StagesOK'
<1>1. ASSUME Stops PROVE StagesOK'
  BY <1>1 DEF Stops, StagesOK, AfterFile, AfterSegments, AfterCopies, AfterRows,
     AfterTruncate, AfterRebuild
<1>2. ASSUME UNCHANGED <<text, table, file, locked, at>> PROVE StagesOK'
  BY <1>2 DEF StagesOK, Without
<1>3. ASSUME Ages \/ WeekPasses \/ Curate \/ (\E r \in rows : Keeps(r)) \/ UNCHANGED vars
      PROVE  StagesOK'
  BY <1>2, <1>3 DEF Ages, WeekPasses, Curate, Keeps, world, vars
<1>4. ASSUME Capture \/ Index \/ Export \/ (\E reads \in BOOLEAN : Restore(reads))
      PROVE  StagesOK'
  <2>1. UNCHANGED <<at, locked>>
    BY <1>4 DEF Capture, Index, Export, Restore
  <2>2. QED
    BY <1>4, <2>1, StagesBeside
<1>5. QED
  BY <1>1, <1>3, <1>4, StagesPass DEF Next
-----------------------------------------------------------------------------
(* A plan until it is begun.                                               *)

\* Whatever the owner and the hooks do meanwhile, the plan's records stay the first ones
\* and its windows whole.
LEMMA PlanNext ==
  ASSUME Bounded, Data, StagesOK, PlanOK, [Next]_vars
  PROVE  PlanOK'
<1>1. history' = history
  BY HistoryFixed
<1>2. HistoryIs
  BY <1>1, HistoryKept
<1>3. ASSUME windows' = windows PROVE Checkpoint' = Checkpoint
  BY <1>1, <1>3 DEF Checkpoint, CuratedOf, Last
<1>4. ASSUME UNCHANGED <<top, rows, text["raw"], windows, sealed, at, me>> PROVE PlanOK'
  BY <1>2, <1>3, <1>4, <1>1 DEF PlanOK, FirstOf, Expired, Raw, In, Span, Expiring, HistoryIs, Session
<1>5. ASSUME at' \notin {"seal", "begin"} PROVE PlanOK'
  BY <1>5 DEF PlanOK
<1>6. ASSUME Plan PROVE PlanOK'
  <2>1. CASE Planned = {}
    BY <1>5, <1>6, <2>1 DEF Plan
  <2>2. CASE Planned # {}
    <3>1. /\ at' = "seal" /\ UNCHANGED <<top, rows, text, windows, sealed>>
          /\ me' = [records |-> Planned,
                    newest |-> [s \in {Session(r) : r \in Planned} |-> Newest(s)]]
      BY <1>6, <2>2 DEF Plan, world
    <3>2. /\ Planned \subseteq Raw \ Exempt
          /\ FirstOf(rows, Expired \cup Planned)
          /\ \A r \in Planned : In(r, windows) /\ Newest(Session(r)) <= Checkpoint
          /\ \A w \in windows : Expiring(w) \subseteq Planned \/ Expiring(w) \cap Planned = {}
      BY PlannedIs DEF Data, OrderOK, CoverOK
    <3>3. /\ Planned \subseteq 1 .. top
          /\ \A r \in Planned : /\ Session(r) \in DOMAIN me'.newest
                                /\ me'.newest[Session(r)] = Newest(Session(r))
      BY <3>1, <3>2 DEF Data, RangesOK
    <3>4. /\ Expired' = Expired /\ \A w : Expiring(w)' = Expiring(w)
          /\ \A r : Session(r)' = Session(r)
      BY <1>1, <1>2, <3>1 DEF Expired, Raw, Expiring, Span, HistoryIs, Session
    <3>5. FirstOf(rows, Expired \cup me.records)'
      BY <1>2, <3>1, <3>2, <3>4 DEF FirstOf, HistoryIs
    <3>6. QED
      BY <1>3, <3>1, <3>2, <3>3, <3>4, <3>5 DEF PlanOK, In, Span
  <2>3. QED
    BY <2>1, <2>2
<1>7. ASSUME Seal PROVE PlanOK'
  <2>1. /\ at = "seal" /\ at' = "begin" /\ UNCHANGED <<top, rows, windows, me>>
        /\ sealed'.windows = windows
    BY <1>7, Ranges DEF Seal, Exported, Data
  <2>2. text'["raw"] = text["raw"]
    BY <1>7 DEF Seal, Exported, Data, RangesOK, Stores
  <2>3. /\ Expired' = Expired /\ \A w : Expiring(w)' = Expiring(w)
        /\ \A r : Session(r)' = Session(r)
    BY <1>1, <1>2, <2>1, <2>2 DEF Expired, Raw, Expiring, Span, HistoryIs, Session
  <2>4. QED
    BY <1>2, <1>3, <2>1, <2>3 DEF PlanOK, FirstOf, HistoryIs, In, Span
<1>8. ASSUME Capture PROVE PlanOK'
  <2>1. /\ UNCHANGED <<windows, sealed, at, me>> /\ top' = top + 1 /\ rows' = rows \cup {top'}
        /\ text' = [text EXCEPT !["raw"] = @ \cup {top'}, !["wal"] = @ \cup {top'}]
    BY <1>8 DEF Capture
  <2>2. /\ rows \subseteq 1 .. top /\ top \in Nat /\ text \in [Stores -> SUBSET (1 .. top)]
        /\ \A w \in windows : w[1] \in 1 .. top /\ w[2] \in 1 .. top
    BY Ranges DEF Data, RangesOK
  <2>3. /\ Raw' = Raw \cup {top'} /\ top' \notin rows /\ top' \notin 1 .. top
        /\ \A r \in rows : r < top' /\ ~(top' < r)
    BY <2>1, <2>2 DEF Raw, Stores
  <2>4. Expired' = Expired
    BY <2>1, <2>3 DEF Expired
  <2>5. \A w \in windows : Expiring(w)' = Expiring(w)
    BY <1>2, <2>2, <2>3 DEF Expiring, Span, HistoryIs
  <2>6. ASSUME at \in {"seal", "begin"} PROVE FirstOf(rows, Expired \cup me.records)'
    <3>1. FirstOf(rows, Expired \cup me.records) /\ me.records \subseteq 1 .. top
      BY <2>6 DEF PlanOK
    <3>2. top' \notin Expired \cup me.records
      BY <2>3, <3>1 DEF Expired
    <3>3. FirstOf(rows \cup {top'}, Expired \cup me.records)
      BY <2>3, <3>1, <3>2 DEF FirstOf
    <3>4. QED
      BY <1>2, <2>1, <2>4, <3>3 DEF FirstOf, HistoryIs
  <2>7. \A r : Session(r)' = Session(r)
    BY <1>1 DEF Session
  <2>8. ASSUME at \in {"seal", "begin"} PROVE me.records \subseteq 1 .. top'
    BY <2>1, <2>2, <2>8 DEF PlanOK
  <2>9. QED
    BY <1>3, <2>1, <2>5, <2>6, <2>7, <2>8 DEF PlanOK, In, Span
<1>9. ASSUME Pass PROVE PlanOK'
  BY <1>5, <1>6, <1>7, <1>9 DEF Pass, Resume, Begin, WriteFile, ExpireSegments, ExpireCopies,
     ExpireRows, Truncate, Rebuild, RebuildEnds, RemoveAside, ClearTable, RemoveFile
<1>10. ASSUME Stops PROVE PlanOK'
  BY <1>5, <1>10 DEF Stops
<1>11. ASSUME Curate \/ Index \/ Export \/ (\E r \in rows : Keeps(r))
                \/ (\E reads \in BOOLEAN : Restore(reads))
       PROVE  PlanOK'
  <2>1. at' = at /\ ~locked
    BY <1>11 DEF Curate, Index, Export, Keeps, Restore
  <2>2. at \notin {"seal", "begin"}
    BY <2>1 DEF StagesOK
  <2>3. QED
    BY <1>5, <2>1, <2>2
<1>12. ASSUME Ages \/ WeekPasses \/ UNCHANGED vars PROVE PlanOK'
  BY <1>4, <1>12 DEF Ages, WeekPasses, world, vars
<1>13. QED
  BY <1>8, <1>9, <1>10, <1>11, <1>12 DEF Next
-----------------------------------------------------------------------------
(* The theorems.                                                           *)

LEMMA InvInit == Bounded /\ Init => Inv
<1> SUFFICES ASSUME Bounded, Init PROVE Inv
  OBVIOUS
<1>1. Last \in Nat
  BY DEF Bounded, Init, Last
<1>2. text = [s \in Stores |-> {}] /\ rows = {} /\ Raw = {} /\ Expired = {}
  BY DEF Init, Raw, Expired, Stores
<1>3. RangesOK
  <2>1. text \in [Stores -> SUBSET (1 .. top)] /\ text["segments"] = {}
    BY <1>2 DEF Stores
  <2>2. /\ top \in 0 .. Last /\ windows = {} /\ table = {} /\ file = {}
        /\ sealed = [rows |-> {}, windows |-> {}] /\ history \in Histories
    BY <1>1 DEF Init
  <2>3. sealed \in [rows : SUBSET rows, windows : SUBSET windows]
    BY <2>2
  <2>4. QED
    BY <1>2, <2>1, <2>2, <2>3 DEF RangesOK
<1>4. Data
  BY <1>2, <1>3 DEF Init, Data, GoneOK, OrderOK, CoverOK, FirstOf, NoGap
<1>5. StagesOK /\ PlanOK
  BY DEF Init, StagesOK, PlanOK, AfterFile, AfterSegments, AfterCopies, AfterRows,
     AfterTruncate, AfterRebuild
<1>6. QED
  BY <1>4, <1>5 DEF Inv

LEMMA InvNext == Bounded /\ Inv /\ [Next]_vars => Inv'
  BY DataNext, StagesNext, PlanNext DEF Inv, Data

\* No expired record's text is left once its batch is over; what was made from it is
\* there still; a session's expired records are its first ones.
LEMMA InvHolds == Bounded /\ Inv => ExpiredIsGone /\ ClaimsStay /\ OldestFirst
<1> SUFFICES ASSUME Bounded, Inv PROVE ExpiredIsGone /\ ClaimsStay /\ OldestFirst
  OBVIOUS
<1>1. ExpiredIsGone
  BY DEF Inv, Data, GoneOK, ExpiredIsGone, Gone
<1>2. ClaimsStay
  BY Ranges DEF Inv, Data, CoverOK, ClaimsStay, In
<1>3. OldestFirst
  BY DEF Inv, Data, OrderOK, FirstOf, OldestFirst, Expired
<1>4. QED
  BY <1>1, <1>2, <1>3

\* A batch is begun as it was planned, and each session's newest record is the one read.
LEMMA BatchNext == Bounded /\ Inv /\ [Next]_vars =>
  (table = {} /\ table' # {} /\ at' = "file" =>
     /\ \A w \in windows : Expiring(w) \subseteq table' \/ Expiring(w) \cap table' = {}
     /\ \A r \in table' : Newest(Session(r)) <= Checkpoint)
<1> SUFFICES ASSUME Bounded, Inv, [Next]_vars, table = {}, table' # {}, at' = "file"
             PROVE  /\ \A w \in windows : Expiring(w) \subseteq table' \/ Expiring(w) \cap table' = {}
                    /\ \A r \in table' : Newest(Session(r)) <= Checkpoint
  OBVIOUS
<1>1. ~\E reads \in BOOLEAN : Restore(reads)
  <2>1. \A reads \in BOOLEAN : Restore(reads) => at' = at /\ ~locked
    BY DEF Restore
  <2>2. at = "file" => locked
    BY DEF Inv, StagesOK
  <2>3. QED
    BY <2>1, <2>2
<1>2. Begin
  BY <1>1 DEF Next, Pass, Plan, Resume, Seal, WriteFile, ExpireSegments, ExpireCopies,
     ExpireRows, Truncate, Rebuild, RebuildEnds, RemoveAside, ClearTable, RemoveFile, Stops,
     Capture, Ages, WeekPasses, Curate, Index, Export, Keeps, vars
<1>3. /\ at = "begin" /\ table' = me.records
      /\ \A s \in DOMAIN me.newest : Newest(s) = me.newest[s]
  BY <1>2 DEF Begin
<1>4. QED
  BY <1>3 DEF Inv, PlanOK

TypesOK ==
  /\ past \in 0 .. top /\ kept \subseteq Events
  /\ looked \in BOOLEAN /\ locked \in BOOLEAN
  /\ at \in {"idle", "seal", "begin"} \cup AfterFile \cup {"file", "remove"}
  /\ me.records \subseteq Events /\ chance \in [Chances -> Nat]

LEMMA TypesNext ==
  ASSUME Bounded, Data, TypesOK, [Next]_vars
  PROVE  TypesOK'
<1>1. Events' = Events
  BY HistoryFixed DEF Events
<1>2. top \in Nat /\ Events = 1 .. Last /\ top <= Last /\ Raw \subseteq Events /\ rows \subseteq Events
  BY Ranges DEF Data, RangesOK
<1>3. \A c \in Chances : Spend(c) => chance' \in [Chances -> Nat]
  BY DEF Spend, TypesOK
<1> USE DEF AfterFile, AfterSegments, AfterCopies, AfterRows, AfterTruncate, AfterRebuild
<1>4. ASSUME UNCHANGED <<top, past, kept>>, looked' \in BOOLEAN, locked' \in BOOLEAN,
             at' \in {"idle", "seal", "begin"} \cup AfterFile \cup {"file", "remove"},
             me' \in {me, NoPlan} \/ me'.records \subseteq Events,
             chance' = chance \/ chance' \in [Chances -> Nat]
      PROVE  TypesOK'
  BY <1>1, <1>4 DEF TypesOK, NoPlan
<1>5. ASSUME Pass PROVE TypesOK'
  <2>1. ASSUME Plan PROVE TypesOK'
    <3>1. Planned \subseteq Raw
      BY PlannedIs DEF Data, OrderOK, CoverOK
    <3>2. CASE Planned = {}
      BY <1>4, <2>1, <3>2 DEF Plan, world, TypesOK
    <3>3. CASE Planned # {}
      <4>1. /\ UNCHANGED <<top, past, kept, chance>> /\ looked' = TRUE /\ locked' = TRUE
            /\ at' = "seal" /\ me'.records = Planned
        BY <2>1, <3>3 DEF Plan, world
      <4>2. me'.records \subseteq Events
        BY <1>2, <3>1, <4>1
      <4>3. QED
        BY <1>4, <4>1, <4>2 DEF TypesOK
    <3>4. QED
      BY <3>2, <3>3
  <2>2. ASSUME Truncate PROVE TypesOK'
    BY <1>3, <1>4, <2>2 DEF Truncate, world, TypesOK, Chances
  <2>3. ASSUME \/ Resume \/ Seal \/ Begin \/ WriteFile \/ ExpireSegments \/ ExpireCopies
               \/ ExpireRows \/ Rebuild \/ RebuildEnds \/ RemoveAside \/ ClearTable \/ RemoveFile
        PROVE  TypesOK'
    BY <1>4, <2>3 DEF Resume, Seal, Begin, WriteFile, ExpireSegments, ExpireCopies, ExpireRows,
       Rebuild, RebuildEnds, RemoveAside, ClearTable, RemoveFile, world, TypesOK
  <2>4. QED
    BY <1>5, <2>1, <2>2, <2>3 DEF Pass
<1>6. ASSUME Stops PROVE TypesOK'
  BY <1>3, <1>4, <1>6 DEF Stops, world, TypesOK, Chances
<1>7. ASSUME Capture \/ Ages PROVE TypesOK'
  <2>1. /\ UNCHANGED <<kept, looked, locked, at, me, chance>>
        /\ \/ top' = top /\ past < top /\ past' = past + 1
           \/ top' = top + 1 /\ past' = past
    BY <1>7 DEF Capture, Ages
  <2>2. past' \in 0 .. top'
    BY <1>2, <2>1 DEF TypesOK
  <2>3. QED
    BY <1>1, <2>1, <2>2 DEF TypesOK
<1>8. ASSUME WeekPasses \/ Index \/ Export PROVE TypesOK'
  BY <1>4, <1>8 DEF WeekPasses, Index, Export, world, TypesOK
<1>9. ASSUME Curate PROVE TypesOK'
  BY <1>3, <1>4, <1>9 DEF Curate, TypesOK, Chances
<1>10. ASSUME NEW r \in rows, Keeps(r) PROVE TypesOK'
  BY <1>1, <1>2, <1>3, <1>10 DEF Keeps, TypesOK, Chances
<1>11. ASSUME NEW reads \in BOOLEAN, Restore(reads) PROVE TypesOK'
  BY <1>3, <1>4, <1>11 DEF Restore, TypesOK, Chances
<1>12. ASSUME UNCHANGED vars PROVE TypesOK'
  BY <1>4, <1>12 DEF vars, world, TypesOK
<1>13. QED
  BY <1>5, <1>6, <1>7, <1>8, <1>9, <1>10, <1>11, <1>12 DEF Next

LEMMA TypesInit == Bounded /\ Init => TypesOK
<1> SUFFICES ASSUME Bounded, Init PROVE TypesOK
  OBVIOUS
<1>1. chance \in [Chances -> Nat]
  BY DEF Bounded, Init
<1>2. me.records = {} /\ past \in 0 .. top /\ kept = {}
  BY DEF Init, NoPlan
<1>3. QED
  BY <1>1, <1>2 DEF Init, TypesOK

LEMMA TypesHold == Bounded /\ Inv /\ TypesOK => TypeOK
<1> SUFFICES ASSUME Bounded, Inv, TypesOK PROVE TypeOK
  OBVIOUS
<1>1. top \in Nat /\ Last \in Nat /\ Events = 1 .. Last /\ 1 .. top \subseteq Events
  BY Ranges DEF Inv, Data
<1>2. text \in [Stores -> SUBSET Events]
  BY <1>1 DEF Inv, Data, RangesOK
<1>3. windows \subseteq Events \X Events
  BY <1>1 DEF Inv, Data, RangesOK
<1>4. sealed \in [rows : SUBSET Events, windows : SUBSET (Events \X Events)]
  BY <1>1, <1>3 DEF Inv, Data, RangesOK
<1>5. QED
  BY <1>1, <1>2, <1>3, <1>4 DEF Inv, Data, RangesOK, TypesOK, TypeOK, AfterFile, AfterSegments,
     AfterCopies, AfterRows, AfterTruncate, AfterRebuild

\* The records retention.rs writes and reads have their types.
THEOREM TypeCorrect == Bounded => (Spec => []TypeOK)
<1> SUFFICES ASSUME Bounded PROVE Spec => []TypeOK
  OBVIOUS
<1>1. Init => Inv /\ TypesOK
  BY InvInit, TypesInit
<1>2. Inv /\ TypesOK /\ [Next]_vars => (Inv /\ TypesOK)'
  BY InvNext, TypesNext DEF Inv
<1>3. Inv /\ TypesOK => TypeOK
  BY TypesHold
<1>4. QED
  BY <1>1, <1>2, <1>3, PTL DEF Spec

\* An expired record's text is in no store once its batch is over, what was made from it
\* stays, and a session's expired records are its first ones: whatever is captured, and
\* wherever a pass is killed, its backups restored or its windows curated again.
THEOREM RetentionHolds == Bounded => (Spec => [](ExpiredIsGone /\ ClaimsStay /\ OldestFirst))
<1> SUFFICES ASSUME Bounded PROVE Spec => [](ExpiredIsGone /\ ClaimsStay /\ OldestFirst)
  OBVIOUS
<1>1. Init => Inv
  BY InvInit
<1>2. Inv /\ [Next]_vars => Inv'
  BY InvNext
<1>3. Inv => ExpiredIsGone /\ ClaimsStay /\ OldestFirst
  BY InvHolds
<1>4. QED
  BY <1>1, <1>2, <1>3, PTL DEF Spec

\* A batch takes whole windows, of sessions that wait for no curation when it begins.
THEOREM BatchesAreWhole == Bounded => (Spec => BatchIsWhole)
<1> SUFFICES ASSUME Bounded PROVE Spec => BatchIsWhole
  OBVIOUS
<1>1. Init => Inv
  BY InvInit
<1>2. Inv /\ [Next]_vars => Inv'
  BY InvNext
<1>3. Inv /\ [Next]_vars => [table = {} /\ table' # {} /\ at' = "file" =>
          /\ \A w \in windows : Expiring(w) \subseteq table' \/ Expiring(w) \cap table' = {}
          /\ \A r \in table' : Newest(Session(r)) <= Checkpoint]_vars
  BY BatchNext
<1>4. QED
  BY <1>1, <1>2, <1>3, PTL DEF Spec, BatchIsWhole
=============================================================================
