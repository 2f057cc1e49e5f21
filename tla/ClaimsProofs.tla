---------------------------- MODULE ClaimsProofs ----------------------------
(***************************************************************************)
(* What TLAPS proves of Claims.tla: for any plans of windows, corrections  *)
(* and tombstones and any interleaving of their consumers, what a reader   *)
(* shows of the claims stands in the raw.db it began with; and once the    *)
(* consumers have caught up, a rebuild finds the current claims there are, *)
(* and of others exactly those that only an edge to a dropped sibling      *)
(* supersedes.                                                             *)
(***************************************************************************)
EXTENDS Claims, SequenceTheorems, WellFoundedInduction, TLAPS

\* A window is a sequence of claims, and tiers are numbers of a machine.
Sent    == UNION {{p.windows[k] : k \in DOMAIN p.windows} : p \in Plans}
Bounded == \E a, b \in Int : \A w \in Sent :
             Len(w) \in Nat /\ DOMAIN w = 1 .. Len(w) /\ \A j \in DOMAIN w : w[j].tier \in a .. b

\* What is in the op log and among the tombstones.
Op   == {[is |-> "window", claims |-> w] : w \in Sent}
          \cup UNION {{[is |-> "correction", uid |-> c.uid, status |-> c.status] : c \in p.said} : p \in Plans}
Tomb == UNION {{[of |-> t.of, parts |-> t.parts, whole |-> t.whole, after |-> n] :
                  t \in p.removals, n \in Nat} : p \in Plans}

\* The logs only grow, a tombstone comes after the ops before it, and both consumers
\* have read what was there.
LogsOK ==
  /\ plan \in Plans /\ ops \in Seq(Op) /\ tombs \in Seq(Tomb)
  /\ read \in 0 .. Len(ops) /\ reached \in 0 .. Len(tombs)
  /\ \A i \in 1 .. Len(tombs) : tombs[i].after \in 0 .. Len(ops)
  /\ \A i, j \in 1 .. Len(tombs) : i <= j => tombs[i].after <= tombs[j].after

Claim(i, j)     == ops[i].claims[j]
Batches         == {i \in 1 .. read : ops[i].is = "window"}
Alive(i)        == {j \in DOMAIN ops[i].claims : \A q \in Claim(i, j).quotes : ~Gone(q, Len(tombs))}
Edges(i, j, of) == (Claim(i, j).supersedes \cup {Claim(i, s).uid : s \in Claim(i, j).siblings \cap of})
                     \ {Claim(i, j).uid}

\* A derivation as its claim says: its support stands as far as Anchors knows, and its
\* edges are those to what it was shown and to the siblings there were.
Whole(d, i, j) ==
  /\ d.status = Claim(i, j).status
  /\ Edges(i, j, Alive(i)) \subseteq d.edges /\ d.edges \subseteq Edges(i, j, DOMAIN ops[i].claims)
  /\ Stands(Claim(i, j), reached, Len(ops))

\* One that lost what it stood on, for good.
Fallen(d, i, j) ==
  /\ d.status = "proposed" /\ d.edges = {}
  /\ ~Stands(Claim(i, j), Len(tombs), Len(ops))

Row(d) ==
  \E i \in Batches : \E j \in DOMAIN ops[i].claims :
    /\ d = [op |-> <<i, j>>, status |-> d.status, edges |-> d.edges]
    /\ \A q \in Claim(i, j).quotes : ~Gone(q, reached)
    /\ Whole(d, i, j) \/ Fallen(d, i, j)

\* Every claim of a batch read is derived whose quotes all read, and none twice.
DerivedOK ==
  /\ \A d \in derived : Row(d)
  /\ \A i \in Batches : \A j \in Alive(i) : \E d \in derived : d.op = <<i, j>>
  /\ \A d, e \in derived : d.op = e.op => d = e

\* What the reader found pending is at least what the consumers had not reached then and
\* have not since.
ReaderOK ==
  /\ reader.ops \in 0 .. Len(ops) /\ reader.tombs \in 0 .. Len(tombs)
  /\ \A i \in 1 .. reader.ops : ops[i].is = "correction" /\ i > read => ops[i].uid \in reader.uids
  /\ \A i \in 1 .. reader.tombs : i > reached => tombs[i].of \in reader.records
  /\ \A d \in derived : d.status # "proposed" /\ d.op \notin reader.lowering
       => Stands(ClaimOf(d.op), reader.tombs, Len(ops))

Inv == LogsOK /\ DerivedOK /\ ReaderOK
-----------------------------------------------------------------------------
(* Numbers.                                                                *)

\* A set of numbers has a least one,
LEMMA Least ==
  ASSUME NEW S \in SUBSET Nat, S # {}
  PROVE  Min(S) \in S /\ \A y \in S : Min(S) <= y
<1>1. PICK x \in S : \A y \in S : ~(<<y, x>> \in OpToRel(<, Nat))
  BY NatLessThanWellFounded, WFMin
<1>2. \A y \in S : ~(y < x)
  BY <1>1 DEF OpToRel
<1>3. \A y \in S : x <= y
  BY <1>2
<1>4. QED
  BY <1>3 DEF Min

\* and one that is bounded has a greatest.
LEMMA Greatest ==
  ASSUME NEW S \in SUBSET Int, S # {}, NEW b \in Int, \A x \in S : x <= b
  PROVE  Max(S) \in S /\ \A y \in S : y <= Max(S)
<1> DEFINE T == {b - x : x \in S}
<1>1. T \in SUBSET Nat /\ T # {}
  <2>1. \A x \in S : b - x \in Nat
    OBVIOUS
  <2>2. PICK x \in S : TRUE
    OBVIOUS
  <2>3. b - x \in T
    OBVIOUS
  <2>4. QED
    BY <2>1, <2>3
<1>2. PICK t \in T : \A y \in T : t <= y
  BY <1>1, Least
<1>3. PICK x \in S : t = b - x
  BY <1>2
<1>4. \A y \in S : x >= y
  <2>1. \A y \in S : b - x <= b - y
    BY <1>2, <1>3
  <2>2. QED
    BY <2>1
<1>5. QED
  BY <1>4 DEF Max
-----------------------------------------------------------------------------
(* What a claim stands on.                                                 *)

LEMMA Logs ==
  ASSUME LogsOK
  PROVE  /\ Len(ops) \in Nat /\ Len(tombs) \in Nat /\ read \in Nat /\ reached \in Nat
         /\ read <= Len(ops) /\ reached <= Len(tombs)
         /\ \A i \in 1 .. Len(ops) : ops[i] \in Op
         /\ \A i \in 1 .. Len(tombs) : tombs[i] \in Tomb
         /\ DOMAIN ops = 1 .. Len(ops) /\ DOMAIN tombs = 1 .. Len(tombs)
  BY DEF LogsOK

LEMMA RemovedType ==
  ASSUME LogsOK, NEW n \in 0 .. Len(tombs), NEW r
  PROVE  RemovedAt(r, n) \subseteq 0 .. Len(ops) /\ RemovedAt(r, n) \in SUBSET Nat
<1>1. \A i \in 1 .. n : tombs[i].after \in 0 .. Len(ops)
  BY Logs DEF LogsOK
<1>2. QED
  BY <1>1, Logs DEF RemovedAt

\* The first removal of a record is not undone by later ones.
LEMMA RemovedFirst ==
  ASSUME LogsOK, NEW n \in 0 .. Len(tombs), NEW k \in 0 .. n, NEW r
  PROVE  /\ RemovedAt(r, k) \subseteq RemovedAt(r, n)
         /\ RemovedAt(r, k) # {} => Min(RemovedAt(r, k)) = Min(RemovedAt(r, n))
<1>1. RemovedAt(r, k) \subseteq RemovedAt(r, n)
  BY Logs DEF RemovedAt
<1>2. ASSUME RemovedAt(r, k) # {}
      PROVE  Min(RemovedAt(r, k)) = Min(RemovedAt(r, n))
  <2> DEFINE a == Min(RemovedAt(r, k))
             b == Min(RemovedAt(r, n))
  <2>1. k \in 0 .. Len(tombs) /\ RemovedAt(r, n) # {}
    BY <1>1, <1>2, Logs
  <2>2. /\ a \in RemovedAt(r, k) /\ \A y \in RemovedAt(r, k) : a <= y
        /\ b \in RemovedAt(r, n) /\ \A y \in RemovedAt(r, n) : b <= y
    BY <1>2, <2>1, RemovedType, Least
  <2>3. a \in Nat /\ b \in Nat
    BY <2>1, <2>2, RemovedType
  <2>4. PICK i \in 1 .. k : tombs[i].after = a
    BY <2>2 DEF RemovedAt
  <2>5. PICK j \in 1 .. n : tombs[j].of = r /\ tombs[j].whole /\ tombs[j].after = b
    BY <2>2 DEF RemovedAt
  <2>6. CASE j \in 1 .. k
    <3>1. b \in RemovedAt(r, k)
      BY <2>5, <2>6 DEF RemovedAt
    <3>2. QED
      BY <1>1, <2>2, <2>3, <3>1
  <2>7. CASE j \notin 1 .. k
    <3>1. i <= j /\ i \in 1 .. Len(tombs) /\ j \in 1 .. Len(tombs)
      BY <2>4, <2>5, <2>7, Logs
    <3>2. a <= b
      BY <2>4, <2>5, <3>1 DEF LogsOK
    <3>3. QED
      BY <1>1, <2>2, <2>3, <3>2
  <2>8. QED
    BY <2>6, <2>7
<1>3. QED
  BY <1>1, <1>2

\* Records that the later tombstones are not about, or that were gone before, make no difference.
LEMMA OwnerSame ==
  ASSUME LogsOK, NEW n \in 0 .. Len(tombs), NEW k \in 0 .. n, NEW records, NEW uid, NEW m,
         \A r \in records : RemovedAt(r, k) # {}
  PROVE  owner_set(uid, records, n, m) => owner_set(uid, records, k, m)
<1>1. \A r \in records : Min(RemovedAt(r, k)) = Min(RemovedAt(r, n))
  BY RemovedFirst
<1>2. {Min(RemovedAt(r, n)) : r \in records} = {Min(RemovedAt(r, k)) : r \in records}
  BY <1>1
<1>3. QED
  BY <1>2 DEF owner_set

\* A claim that stands stood with fewer tombstones,
LEMMA StoodBefore ==
  ASSUME LogsOK, NEW n \in 0 .. Len(tombs), NEW k \in 0 .. n, NEW c, NEW m, Stands(c, n, m)
  PROVE  Stands(c, k, m)
<1>1. CASE supported(c.support, n)
  BY <1>1, RemovedFirst DEF supported, Stands
<1>2. CASE \A r \in c.support : RemovedAt(r, k) # {}
  BY <1>1, <1>2, OwnerSame DEF Stands
<1>3. QED
  BY <1>1, <1>2 DEF Stands, supported

StandingEnds ==
  \A n \in 0 .. Len(tombs) : \A k \in 0 .. n : \A c, m : Stands(c, n, m) => Stands(c, k, m)

LEMMA StandsLess == LogsOK => StandingEnds
  BY StoodBefore DEF StandingEnds

\* stands with more ops,
LEMMA StandsOn ==
  ASSUME NEW c, NEW n, NEW m \in Nat, NEW k \in Nat, m <= k, Stands(c, n, m)
  PROVE  Stands(c, n, k)
<1>1. 1 .. m \subseteq 1 .. k
  OBVIOUS
<1>2. QED
  BY <1>1 DEF Stands, owner_set

\* with no more tombstones on what it stands on,
LEMMA StandsStill ==
  ASSUME LogsOK, NEW c, NEW m, Stands(c, reached, m), c.support \cap Fresh = {}
  PROVE  Stands(c, Len(tombs), m)
<1>1. ASSUME NEW r \in c.support
      PROVE  RemovedAt(r, Len(tombs)) = RemovedAt(r, reached)
  <2>1. \A i \in reached + 1 .. Len(tombs) : tombs[i].of # r
    BY <1>1 DEF Fresh
  <2>2. \A i \in 1 .. Len(tombs) : tombs[i].of = r => i \in 1 .. reached
    BY <2>1, Logs
  <2>3. 1 .. reached \subseteq 1 .. Len(tombs)
    BY Logs
  <2>4. QED
    BY <2>2, <2>3 DEF RemovedAt
<1>2. {Min(RemovedAt(r, Len(tombs))) : r \in c.support} = {Min(RemovedAt(r, reached)) : r \in c.support}
  BY <1>1
<1>3. QED
  BY <1>1, <1>2 DEF Stands, supported, owner_set

\* and one that fell is not helped by what the owner says after.
LEMMA OpsKept ==
  ASSUME LogsOK, NEW op, ops' = Append(ops, op), tombs' = tombs
  PROVE  /\ Len(ops') = Len(ops) + 1 /\ ops'[Len(ops')] = op
         /\ \A i \in 1 .. Len(ops) : ops'[i] = ops[i]
         /\ \A c, n : Stands(c, n, Len(ops)) => Stands(c, n, Len(ops))'
         /\ \A c : Stands(c, Len(tombs), Len(ops))' => Stands(c, Len(tombs), Len(ops))
         /\ \A q, n : Gone(q, n)' <=> Gone(q, n)
<1>1. /\ Len(ops') = Len(ops) + 1 /\ ops'[Len(ops')] = op
      /\ \A i \in 1 .. Len(ops) : ops'[i] = ops[i]
  BY AppendProperties, Logs DEF LogsOK
<1>2. \A r, n : RemovedAt(r, n)' = RemovedAt(r, n)
  BY DEF RemovedAt
<1>3. \A q, n : Gone(q, n)' <=> Gone(q, n)
  BY DEF Gone, Takes
<1>4. 1 .. Len(ops) \subseteq 1 .. Len(ops')
  BY <1>1, Logs
<1>5. ASSUME NEW c, NEW n, Stands(c, n, Len(ops))
      PROVE  Stands(c, n, Len(ops))'
  BY <1>1, <1>2, <1>4, <1>5 DEF Stands, supported, owner_set
<1>6. ASSUME NEW c, Stands(c, Len(tombs), Len(ops))'
      PROVE  Stands(c, Len(tombs), Len(ops))
  <2>1. CASE c.support = {} \/ supported(c.support, Len(tombs))
    BY <2>1 DEF Stands
  <2>2. CASE c.support # {} /\ ~supported(c.support, Len(tombs))
    <3> DEFINE S == {Min(RemovedAt(r, Len(tombs))) : r \in c.support}
    <3>1. ~supported(c.support, Len(tombs))'
      BY <1>2, <2>2 DEF supported
    <3>2. owner_set(c.uid, c.support, Len(tombs), Len(ops))'
      BY <1>6, <2>2, <3>1 DEF Stands
    <3>3. PICK i \in 1 .. Len(ops') : /\ ops'[i].is = "correction" /\ ops'[i].uid = c.uid
                                      /\ \A r \in c.support : RemovedAt(r, Len(tombs)) # {}
                                      /\ i <= Max(S)
      BY <1>2, <3>2 DEF owner_set
    <3>4. S \in SUBSET Int /\ S # {} /\ \A x \in S : x <= Len(ops)
      <4>1. \A r \in c.support : Min(RemovedAt(r, Len(tombs))) \in 0 .. Len(ops)
        BY <3>3, RemovedType, Least, Logs
      <4>2. QED
        BY <2>2, <4>1, Logs
    <3> HIDE DEF S
    <3>5. Len(ops) \in Int
      BY Logs
    <3>6. Max(S) \in S
      BY <3>4, <3>5, Greatest
    <3>7. i \in 1 .. Len(ops)
      <4>1. Max(S) \in Int /\ Max(S) <= Len(ops)
        BY <3>4, <3>6
      <4>2. i \in Nat /\ i >= 1 /\ i <= Max(S)
        BY <1>1, <3>3, Logs
      <4>3. i <= Len(ops)
        BY <3>5, <4>1, <4>2
      <4>4. QED
        BY <3>5, <4>2, <4>3
    <3>8. ops[i].is = "correction" /\ ops[i].uid = c.uid
      BY <1>1, <3>3, <3>7
    <3>9. QED
      BY <3>3, <3>7, <3>8 DEF S, Stands, owner_set
  <2>3. QED
    BY <2>1, <2>2
<1>7. QED
  BY <1>1, <1>3, <1>5, <1>6

\* A tombstone more leaves what the ones before it say.
LEMMA TombsKept ==
  ASSUME LogsOK, NEW t, tombs' = Append(tombs, t), ops' = ops
  PROVE  /\ Len(tombs') = Len(tombs) + 1 /\ tombs'[Len(tombs')] = t
         /\ \A i \in 1 .. Len(tombs) : tombs'[i] = tombs[i]
         /\ \A c, m : \A n \in 0 .. Len(tombs) : Stands(c, n, m)' <=> Stands(c, n, m)
         /\ \A q : \A n \in 0 .. Len(tombs) : Gone(q, n)' <=> Gone(q, n)
<1>1. /\ Len(tombs') = Len(tombs) + 1 /\ tombs'[Len(tombs')] = t
      /\ \A i \in 1 .. Len(tombs) : tombs'[i] = tombs[i]
  BY AppendProperties, Logs DEF LogsOK
<1>2. ASSUME NEW n \in 0 .. Len(tombs)
      PROVE  /\ \A r : RemovedAt(r, n)' = RemovedAt(r, n)
             /\ \A q : Gone(q, n)' <=> Gone(q, n)
  <2>1. 1 .. n \subseteq 1 .. Len(tombs)
    BY Logs
  <2>2. QED
    BY <1>1, <2>1 DEF RemovedAt, Gone, Takes
<1>3. ASSUME NEW n \in 0 .. Len(tombs), NEW c, NEW m
      PROVE  Stands(c, n, m)' <=> Stands(c, n, m)
  BY <1>2 DEF Stands, supported, owner_set
<1>4. QED
  BY <1>1, <1>2, <1>3
-----------------------------------------------------------------------------
(* Each step keeps the logs and the derivations.                           *)

LEMMA Windows ==
  ASSUME LogsOK, Bounded, NEW i \in 1 .. Len(ops), ops[i].is = "window"
  PROVE  /\ ops[i].claims \in Sent /\ Len(ops[i].claims) \in Nat
         /\ DOMAIN ops[i].claims = 1 .. Len(ops[i].claims)
<1>1. ops[i] \in Op
  BY Logs
<1>2. ASSUME NEW p \in Plans, NEW c \in p.said,
             ops[i] = [is |-> "correction", uid |-> c.uid, status |-> c.status]
      PROVE  FALSE
  BY <1>2
<1>3. PICK w \in Sent : ops[i] = [is |-> "window", claims |-> w]
  BY <1>1, <1>2 DEF Op
<1>4. ops[i].claims = w
  BY <1>3
<1>5. QED
  BY <1>4 DEF Bounded

LEMMA InitOK == Bounded /\ Init => Inv
<1> SUFFICES ASSUME Init PROVE Inv
  OBVIOUS
<1>1. Len(ops) = 0 /\ Len(tombs) = 0 /\ ops \in Seq(Op) /\ tombs \in Seq(Tomb)
  BY EmptySeq DEF Init
<1>2. LogsOK
  BY <1>1 DEF LogsOK, Init
<1>3. DerivedOK
  BY DEF DerivedOK, Batches, Init
<1>4. reader.ops = 0 /\ reader.tombs = 0
  BY <1>1 DEF Init, Pending
<1>5. ReaderOK
  BY <1>1, <1>4 DEF ReaderOK, Init
<1>6. QED
  BY <1>2, <1>3, <1>5 DEF Inv

\* The row a batch's claim is derived as.
Derived(i, j) ==
  IF Stands(Claim(i, j), Len(tombs), Len(ops))
  THEN [op |-> <<i, j>>, status |-> Claim(i, j).status, edges |-> Edges(i, j, Alive(i))]
  ELSE [op |-> <<i, j>>, status |-> "proposed", edges |-> {}]

LEMMA DeriveIs ==
  ASSUME NEW i
  PROVE  /\ derive(i) = {Derived(i, j) : j \in Alive(i)}
         /\ \A j : Derived(i, j).op = <<i, j>>
<1>1. derive(i) = {Derived(i, j) : j \in Alive(i)}
  BY DEF derive, Derived, Alive, Edges, Claim
<1>2. \A j : Derived(i, j).op = <<i, j>>
  BY DEF Derived
<1>3. QED
  BY <1>1, <1>2

LEMMA StepClaimsOK == ASSUME Bounded, Inv, StepClaims PROVE Inv'
<1> USE DEF Inv
<1>1. LogsOK'
  BY Logs DEF StepClaims, LogsOK
<1> DEFINE n == read + 1
<1>2. /\ read' = n /\ n \in 1 .. Len(ops) /\ ops' = ops /\ tombs' = tombs /\ reached' = reached
      /\ reader' = reader /\ derived' = derived \cup IF ops[n].is = "window" THEN derive(n) ELSE {}
  BY Logs DEF StepClaims
<1> HIDE DEF n
<1>3. /\ \A c, k, m : Stands(c, k, m)' <=> Stands(c, k, m)
      /\ \A q, k : Gone(q, k)' <=> Gone(q, k)
  BY <1>2 DEF Stands, supported, owner_set, RemovedAt, Gone, Takes
<1>4. /\ Batches \subseteq Batches' /\ Batches' \subseteq Batches \cup {n}
      /\ ops[n].is = "window" <=> n \in Batches'
  BY <1>2, Logs DEF Batches, n
<1>5. \A i : Alive(i)' = Alive(i)
  BY <1>2, <1>3 DEF Alive, Claim
<1>6. ASSUME NEW d, NEW i \in Batches', NEW j \in DOMAIN ops[i].claims,
             d = [op |-> <<i, j>>, status |-> d.status, edges |-> d.edges],
             \A q \in Claim(i, j).quotes : ~Gone(q, reached),
             Whole(d, i, j) \/ Fallen(d, i, j)
      PROVE  Row(d)'
  <2>1. (\A q \in Claim(i, j).quotes : ~Gone(q, reached))'
    BY <1>2, <1>3, <1>6 DEF Claim
  <2>2. Whole(d, i, j)' \/ Fallen(d, i, j)'
    BY <1>2, <1>3, <1>5, <1>6 DEF Whole, Fallen, Edges, Claim
  <2>3. QED
    BY <1>2, <1>6, <2>1, <2>2 DEF Row
<1>7. ASSUME NEW d \in derived
      PROVE  Row(d)'
  <2>1. PICK i \in Batches : \E j \in DOMAIN ops[i].claims :
               /\ d = [op |-> <<i, j>>, status |-> d.status, edges |-> d.edges]
               /\ \A q \in Claim(i, j).quotes : ~Gone(q, reached)
               /\ Whole(d, i, j) \/ Fallen(d, i, j)
    BY DEF Row, DerivedOK
  <2>2. QED
    BY <1>4, <1>6, <2>1
<1>8. ASSUME ops[n].is = "window", NEW j \in Alive(n)
      PROVE  \E d \in derived' : d.op = <<n, j>>
  <2>1. \E d \in derive(n) : d.op = <<n, j>>
    BY <1>8, DeriveIs
  <2>2. QED
    BY <1>2, <1>8, <2>1
<1>9. ASSUME ops[n].is = "window", NEW d \in derive(n)
      PROVE  /\ Row(d)' 
             /\ d.status # "proposed" => Stands(ClaimOf(d.op), Len(tombs), Len(ops))
  <2> DEFINE e(j) == Edges(n, j, Alive(n))
  <2>1. PICK j \in Alive(n) : d = Derived(n, j)
    BY <1>9, DeriveIs
  <2>2. j \in DOMAIN ops[n].claims /\ d.op = <<n, j>> /\ ClaimOf(d.op) = Claim(n, j)
    BY <2>1, DeriveIs DEF Alive, ClaimOf, Claim
  <2>3. \A q \in Claim(n, j).quotes : ~Gone(q, reached)
    BY <2>1, Logs DEF Alive, Gone
  <2>4. Alive(n) \subseteq DOMAIN ops[n].claims
    BY DEF Alive
  <2>5. e(j) \subseteq Edges(n, j, DOMAIN ops[n].claims)
    BY <2>4 DEF Edges
  <2>6. CASE Stands(Claim(n, j), Len(tombs), Len(ops))
    <3>1. Stands(Claim(n, j), reached, Len(ops))
      BY <2>6, StoodBefore, Logs
    <3>2. Whole(d, n, j)
      BY <2>1, <2>5, <2>6, <3>1 DEF Whole, Derived
    <3>3. QED
      BY <1>4, <1>6, <1>9, <2>1, <2>2, <2>3, <2>6, <3>2 DEF Derived
  <2>7. CASE ~Stands(Claim(n, j), Len(tombs), Len(ops))
    <3>1. Fallen(d, n, j)
      BY <2>1, <2>7 DEF Fallen, Derived
    <3>2. QED
      BY <1>4, <1>6, <1>9, <2>1, <2>2, <2>3, <2>7, <3>1 DEF Derived
  <2>8. QED
    BY <2>6, <2>7
<1>10. DerivedOK'
  <2>1. \A d \in derived' : Row(d)'
    BY <1>2, <1>7, <1>9
  <2>2. ASSUME NEW i \in Batches', NEW j \in Alive(i)'
        PROVE  \E d \in derived' : d.op = <<i, j>>
    BY <1>2, <1>4, <1>5, <1>8 DEF DerivedOK
  <2>3. ASSUME NEW d \in derived
        PROVE  d.op[1] # n
    <3>1. PICK i \in Batches : \E j \in DOMAIN ops[i].claims :
                 d = [op |-> <<i, j>>, status |-> d.status, edges |-> d.edges]
      BY DEF Row, DerivedOK
    <3>2. d.op[1] = i
      BY <3>1
    <3>3. QED
      BY <3>2, Logs DEF Batches, n
  <2>4. ASSUME ops[n].is = "window", NEW d \in derive(n), NEW e \in derive(n), d.op = e.op
        PROVE  d = e
    <3>1. PICK j \in Alive(n) : d = Derived(n, j)
      BY <2>4, DeriveIs
    <3>2. PICK k \in Alive(n) : e = Derived(n, k)
      BY <2>4, DeriveIs
    <3>3. <<n, j>> = <<n, k>>
      BY <2>4, <3>1, <3>2, DeriveIs
    <3>4. QED
      BY <3>1, <3>2, <3>3
  <2>5. \A d \in derive(n) : d.op[1] = n
    BY DeriveIs
  <2>6. \A d, e \in derived' : d.op = e.op => d = e
    BY <1>2, <2>3, <2>4, <2>5 DEF DerivedOK
  <2>7. QED
    BY <2>1, <2>2, <2>6 DEF DerivedOK
<1>11. ReaderOK'
  <2>1. /\ (reader.ops \in 0 .. Len(ops) /\ reader.tombs \in 0 .. Len(tombs))'
        /\ (\A i \in 1 .. reader.tombs : i > reached => tombs[i].of \in reader.records)'
    BY <1>2 DEF ReaderOK
  <2>2. (\A i \in 1 .. reader.ops : ops[i].is = "correction" /\ i > read => ops[i].uid \in reader.uids)'
    BY <1>2, Logs DEF ReaderOK, n
  <2>3. ASSUME NEW d \in derived', d.status # "proposed", d.op \notin reader.lowering
        PROVE  Stands(ClaimOf(d.op), reader.tombs, Len(ops))
    <3>1. CASE d \in derived
      BY <2>3, <3>1 DEF ReaderOK
    <3>2. CASE ops[n].is = "window" /\ d \in derive(n)
      BY <1>9, <2>3, <3>2, StoodBefore, Logs DEF ReaderOK
    <3>3. QED
      BY <1>2, <2>3, <3>1, <3>2
  <2>4. (\A d \in derived : d.status # "proposed" /\ d.op \notin reader.lowering
           => Stands(ClaimOf(d.op), reader.tombs, Len(ops)))'
    BY <1>2, <1>3, <2>3 DEF ClaimOf
  <2>5. QED
    BY <2>1, <2>2, <2>4 DEF ReaderOK
<1>12. QED
  BY <1>1, <1>10, <1>11

\* What was read of a claim, with one or no tombstone reaching it.
LEMMA GoneStill ==
  ASSUME LogsOK, NEW q, Gone(q, Len(tombs)), ~Gone(q, reached)
  PROVE  q[1] \in Fresh
<1>1. PICK k \in 1 .. Len(tombs) : Takes(tombs[k], q)
  BY DEF Gone
<1>2. k \notin 1 .. reached
  BY <1>1 DEF Gone
<1>3. k \in reached + 1 .. Len(tombs)
  BY <1>2, Logs
<1>4. QED
  BY <1>1, <1>3 DEF Fresh, Takes

LEMMA StepAnchorsOK == ASSUME Bounded, Inv, StepAnchors PROVE Inv'
<1> USE DEF Inv
<1>1. LogsOK'
  BY Logs DEF StepAnchors, LogsOK
<1>2. /\ read' = read /\ ops' = ops /\ tombs' = tombs /\ reached' = Len(tombs) /\ reader' = reader
      /\ derived' = (derived \ (Dropped \cup Lowered)) \cup {lower(d) : d \in Lowered}
  BY DEF StepAnchors
<1>3. /\ \A c, k, m : Stands(c, k, m)' <=> Stands(c, k, m)
      /\ \A q, k : Gone(q, k)' <=> Gone(q, k)
  BY <1>2 DEF Stands, supported, owner_set, RemovedAt, Gone, Takes
<1>4. Batches' = Batches /\ \A i : Alive(i)' = Alive(i)
  BY <1>2, <1>3 DEF Batches, Alive, Claim
<1>5. ASSUME NEW d, NEW i \in Batches, NEW j \in DOMAIN ops[i].claims,
             d = [op |-> <<i, j>>, status |-> d.status, edges |-> d.edges],
             \A q \in Claim(i, j).quotes : ~Gone(q, Len(tombs)),
             \/ Whole(d, i, j) /\ Stands(Claim(i, j), Len(tombs), Len(ops))
             \/ Fallen(d, i, j)
      PROVE  Row(d)'
  <2>1. (\A q \in Claim(i, j).quotes : ~Gone(q, reached))'
    BY <1>2, <1>3, <1>5 DEF Claim
  <2>2. Whole(d, i, j)' \/ Fallen(d, i, j)'
    BY <1>2, <1>3, <1>4, <1>5 DEF Whole, Fallen, Edges, Claim
  <2>3. QED
    BY <1>2, <1>4, <1>5, <2>1, <2>2 DEF Row
<1>6. ASSUME NEW d \in derived
      PROVE  /\ d \notin Dropped \cup Lowered => Row(d)'
             /\ d \in Lowered => Row(lower(d))' /\ lower(d).op = d.op /\ lower(d).status = "proposed"
  <2>1. PICK i \in Batches : \E j \in DOMAIN ops[i].claims :
               /\ d = [op |-> <<i, j>>, status |-> d.status, edges |-> d.edges]
               /\ \A q \in Claim(i, j).quotes : ~Gone(q, reached)
               /\ Whole(d, i, j) \/ Fallen(d, i, j)
    BY DEF Row, DerivedOK
  <2>2. PICK j \in DOMAIN ops[i].claims :
               /\ d = [op |-> <<i, j>>, status |-> d.status, edges |-> d.edges]
               /\ \A q \in Claim(i, j).quotes : ~Gone(q, reached)
               /\ Whole(d, i, j) \/ Fallen(d, i, j)
    BY <2>1
  <2>3. ClaimOf(d.op) = Claim(i, j)
    <3>1. d.op = <<i, j>>
      BY <2>2
    <3>2. QED
      BY <3>1 DEF ClaimOf, Claim
  <2>4. ASSUME d \notin Dropped
        PROVE  \A q \in Claim(i, j).quotes : ~Gone(q, Len(tombs))
    BY <2>2, <2>3, <2>4, GoneStill DEF Dropped, Quoting
  <2>5. ASSUME d \notin Dropped \cup Lowered
        PROVE  Row(d)'
    <3>1. CASE Fallen(d, i, j)
      BY <1>5, <2>2, <2>4, <2>5, <3>1
    <3>2. CASE Whole(d, i, j)
      <4>1. Stands(Claim(i, j), reached, Len(ops))
        BY <3>2 DEF Whole
      <4>2. Stands(Claim(i, j), Len(tombs), Len(ops))
        BY <2>3, <2>5, <4>1, StandsStill DEF Lowered, Supporting
      <4>3. QED
        BY <1>5, <2>2, <2>4, <2>5, <3>2, <4>2
    <3>3. QED
      BY <2>2, <3>1, <3>2
  <2>6. ASSUME d \in Lowered
        PROVE  Row(lower(d))' /\ lower(d).op = d.op /\ lower(d).status = "proposed"
    <3> DEFINE e == [op |-> <<i, j>>, status |-> "proposed", edges |-> {}]
    <3>1. lower(d) = e
      <4> DEFINE a == d.status
                 b == d.edges
                 r == [op |-> <<i, j>>, status |-> a, edges |-> b]
      <4>1. d = r
        BY <2>2
      <4> HIDE DEF a, b
      <4>2. [r EXCEPT !.status = "proposed"] = [op |-> <<i, j>>, status |-> "proposed", edges |-> b]
        OBVIOUS
      <4>3. [[op |-> <<i, j>>, status |-> "proposed", edges |-> b] EXCEPT !.edges = {}] = e
        OBVIOUS
      <4>4. lower(r) = e
        BY <4>2, <4>3 DEF lower
      <4>5. QED
        BY <4>1, <4>4
    <3>2. ~Stands(Claim(i, j), Len(tombs), Len(ops)) /\ d \notin Dropped
      BY <2>3, <2>6 DEF Lowered
    <3>3. e.op = <<i, j>> /\ e.status = "proposed" /\ e.edges = {}
      OBVIOUS
    <3>4. Fallen(e, i, j)
      BY <3>2, <3>3 DEF Fallen
    <3>5. Row(e)'
      BY <1>5, <2>4, <3>2, <3>3, <3>4
    <3>6. d.op = <<i, j>>
      BY <2>2
    <3>7. QED
      BY <3>1, <3>3, <3>5, <3>6
  <2>7. QED
    BY <2>5, <2>6
<1>7. Lowered \subseteq derived
  BY DEF Lowered
<1>8. \A d \in derived' : Row(d)'
  BY <1>2, <1>6, <1>7
<1>9. ASSUME NEW i \in Batches', NEW j \in Alive(i)'
      PROVE  \E d \in derived' : d.op = <<i, j>>
  <2>1. PICK d \in derived : d.op = <<i, j>>
    BY <1>4 DEF DerivedOK
  <2>2. \A q \in ClaimOf(d.op).quotes : ~Gone(q, Len(tombs))
    BY <1>4, <2>1 DEF Alive, ClaimOf, Claim
  <2>3. d \notin Dropped
    BY <2>2 DEF Dropped
  <2>4. CASE d \in Lowered
    BY <1>2, <1>6, <2>1, <2>4
  <2>5. CASE d \notin Lowered
    BY <1>2, <2>1, <2>3, <2>5
  <2>6. QED
    BY <2>4, <2>5
<1>10. ASSUME NEW d \in derived', d.status # "proposed"
       PROVE  d \in derived
  BY <1>2, <1>6, <1>7, <1>10
<1>11. ReaderOK'
  <2>1. /\ (reader.ops \in 0 .. Len(ops) /\ reader.tombs \in 0 .. Len(tombs))'
        /\ (\A i \in 1 .. reader.ops : ops[i].is = "correction" /\ i > read => ops[i].uid \in reader.uids)'
    BY <1>2 DEF ReaderOK
  <2>2. (\A i \in 1 .. reader.tombs : i > reached => tombs[i].of \in reader.records)'
    BY <1>2, Logs DEF ReaderOK
  <2>3. (\A d \in derived : d.status # "proposed" /\ d.op \notin reader.lowering
           => Stands(ClaimOf(d.op), reader.tombs, Len(ops)))'
    BY <1>2, <1>3, <1>10 DEF ClaimOf, ReaderOK
  <2>4. QED
    BY <2>1, <2>2, <2>3 DEF ReaderOK
<1>12. ASSUME NEW d \in derived', NEW e \in derived', d.op = e.op
       PROVE  d = e
  <2>1. /\ \A x \in Lowered : lower(x).op = x.op
        /\ \A x, y \in derived : x.op = y.op => x = y
    BY <1>6, <1>7 DEF DerivedOK
  <2>2. CASE \E x \in Lowered : d = lower(x)
    <3>1. PICK x \in Lowered : d = lower(x)
      BY <2>2
    <3>2. e \notin derived \ Lowered
      BY <1>7, <1>12, <2>1, <3>1
    <3>3. PICK y \in Lowered : e = lower(y)
      BY <1>2, <3>2
    <3>4. QED
      BY <1>7, <1>12, <2>1, <3>1, <3>3
  <2>3. CASE d \in derived \ Lowered
    <3>1. ~\E y \in Lowered : e = lower(y)
      BY <1>7, <1>12, <2>1, <2>3
    <3>2. QED
      BY <1>2, <1>12, <2>1, <2>3, <3>1
  <2>4. QED
    BY <1>2, <2>2, <2>3
<1>13. QED
  BY <1>1, <1>8, <1>9, <1>11, <1>12 DEF DerivedOK

\* A reader that begins takes all that is not reached.
LEMMA AskOK == ASSUME Bounded, Inv, Ask PROVE Inv'
<1> USE DEF Inv
<1>1. /\ read' = read /\ ops' = ops /\ tombs' = tombs /\ reached' = reached /\ derived' = derived
      /\ reader' = Pending
  BY DEF Ask
<1>2. LogsOK'
  BY <1>1 DEF LogsOK, Ask
<1>3. /\ \A c, k, m : Stands(c, k, m)' <=> Stands(c, k, m)
      /\ \A q, k : Gone(q, k)' <=> Gone(q, k)
  BY <1>1 DEF Stands, supported, owner_set, RemovedAt, Gone, Takes
<1>4. Batches' = Batches /\ \A i : Alive(i)' = Alive(i)
  BY <1>1, <1>3 DEF Batches, Alive, Claim
<1>5. \A d : Row(d) => Row(d)'
  BY <1>1, <1>3, <1>4 DEF Row, Whole, Fallen, Edges, Claim
<1>6. DerivedOK'
  BY <1>1, <1>4, <1>5 DEF DerivedOK
<1>7. /\ reader'.ops = Len(ops) /\ reader'.tombs = Len(tombs) /\ reader'.records = Fresh
      /\ reader'.uids = {ops[i].uid : i \in {j \in read + 1 .. Len(ops) : ops[j].is = "correction"}}
      /\ reader'.lowering = Lowering
  BY <1>1 DEF Pending
<1>8. \A i \in 1 .. Len(ops) : ops[i].is = "correction" /\ i > read => ops[i].uid \in reader'.uids
  BY <1>7, Logs
<1>9. \A i \in 1 .. Len(tombs) : i > reached => tombs[i].of \in Fresh
  BY Logs DEF Fresh
<1>10. ASSUME NEW d \in derived, d.status # "proposed", d.op \notin Lowering
       PROVE  Stands(ClaimOf(d.op), Len(tombs), Len(ops))
  <2>1. CASE Supporting(d) \cap Fresh # {}
    BY <1>10, <2>1 DEF Lowering
  <2>2. CASE Supporting(d) \cap Fresh = {}
    <3>1. PICK i \in Batches : \E j \in DOMAIN ops[i].claims :
                 /\ d = [op |-> <<i, j>>, status |-> d.status, edges |-> d.edges]
                 /\ Whole(d, i, j) \/ Fallen(d, i, j)
      BY DEF Row, DerivedOK
    <3>2. PICK j \in DOMAIN ops[i].claims :
                 /\ d = [op |-> <<i, j>>, status |-> d.status, edges |-> d.edges]
                 /\ Whole(d, i, j)
      BY <1>10, <3>1 DEF Fallen
    <3>3. d.op = <<i, j>>
      BY <3>2
    <3>4. ClaimOf(d.op) = Claim(i, j)
      BY <3>3 DEF ClaimOf, Claim
    <3>5. QED
      BY <2>2, <3>2, <3>4, StandsStill DEF Whole, Supporting
  <2>3. QED
    BY <2>1, <2>2
<1>11. (\A d \in derived : d.status # "proposed" /\ d.op \notin reader.lowering
          => Stands(ClaimOf(d.op), reader.tombs, Len(ops)))'
  BY <1>1, <1>3, <1>7, <1>10 DEF ClaimOf
<1>12. ReaderOK'
  BY <1>1, <1>7, <1>8, <1>9, <1>11, Logs DEF ReaderOK
<1>13. QED
  BY <1>2, <1>6, <1>12

\* More ops leave what was derived of the earlier ones.
LEMMA AppendsOK == ASSUME Bounded, Inv, NEW op \in Op, Appends(op) PROVE Inv'
<1> USE DEF Inv
<1>1. /\ ops' = Append(ops, op) /\ tombs' = tombs /\ read' = read /\ reached' = reached
      /\ derived' = derived /\ reader' = reader /\ plan' = plan
  BY DEF Appends
<1>2. /\ Len(ops') = Len(ops) + 1
      /\ \A i \in 1 .. Len(ops) : ops'[i] = ops[i]
      /\ \A c, n : Stands(c, n, Len(ops)) => Stands(c, n, Len(ops))'
      /\ \A c : Stands(c, Len(tombs), Len(ops))' => Stands(c, Len(tombs), Len(ops))
      /\ \A q, n : Gone(q, n)' <=> Gone(q, n)
  BY <1>1, OpsKept
<1>3. LogsOK'
  <2>1. ops' \in Seq(Op)
    BY <1>1, AppendProperties DEF LogsOK
  <2>2. QED
    BY <1>1, <1>2, <2>1, Logs DEF LogsOK
<1>4. Batches' = Batches /\ Batches \subseteq 1 .. Len(ops)
  BY <1>1, <1>2, Logs DEF Batches
<1>5. ASSUME NEW i \in Batches
      PROVE  ops'[i] = ops[i] /\ Alive(i)' = Alive(i) /\ \A j : Claim(i, j)' = Claim(i, j)
  BY <1>1, <1>2, <1>4 DEF Alive, Claim
<1>6. ASSUME NEW d \in derived
      PROVE  Row(d)' /\ ClaimOf(d.op)' = ClaimOf(d.op)
  <2>1. PICK i \in Batches : \E j \in DOMAIN ops[i].claims :
               /\ d = [op |-> <<i, j>>, status |-> d.status, edges |-> d.edges]
               /\ \A q \in Claim(i, j).quotes : ~Gone(q, reached)
               /\ Whole(d, i, j) \/ Fallen(d, i, j)
    BY DEF Row, DerivedOK
  <2>2. PICK j \in DOMAIN ops[i].claims :
               /\ d = [op |-> <<i, j>>, status |-> d.status, edges |-> d.edges]
               /\ \A q \in Claim(i, j).quotes : ~Gone(q, reached)
               /\ Whole(d, i, j) \/ Fallen(d, i, j)
    BY <2>1
  <2>3. ops'[i] = ops[i] /\ Alive(i)' = Alive(i) /\ Claim(i, j)' = Claim(i, j)
    BY <1>5
  <2>4. ASSUME NEW of
        PROVE  Edges(i, j, of)' = Edges(i, j, of)
    BY <1>5 DEF Edges
  <2>5. Edges(i, j, Alive(i))' = Edges(i, j, Alive(i))
        /\ Edges(i, j, DOMAIN ops[i].claims)' = Edges(i, j, DOMAIN ops[i].claims)
    BY <1>5, <2>3, <2>4 DEF Edges
  <2>6. Whole(d, i, j) => Whole(d, i, j)'
    <3>1. Stands(Claim(i, j), reached, Len(ops)) => Stands(Claim(i, j), reached, Len(ops))'
      BY <1>1, <1>2, <2>3
    <3>2. QED
      BY <1>1, <2>3, <2>5, <3>1 DEF Whole
  <2>7. Fallen(d, i, j) => Fallen(d, i, j)'
    <3>1. Stands(Claim(i, j), Len(tombs), Len(ops))' => Stands(Claim(i, j), Len(tombs), Len(ops))
      BY <1>1, <1>2, <2>3
    <3>2. QED
      BY <3>1 DEF Fallen
  <2>8. (\A q \in Claim(i, j).quotes : ~Gone(q, reached))'
    BY <1>1, <1>2, <2>2, <2>3
  <2>9. Row(d)'
    BY <1>4, <2>2, <2>3, <2>6, <2>7, <2>8 DEF Row
  <2>10. d.op = <<i, j>>
    BY <2>2
  <2>11. QED
    BY <2>3, <2>9, <2>10 DEF ClaimOf, Claim
<1>7. DerivedOK'
  BY <1>1, <1>4, <1>5, <1>6 DEF DerivedOK
<1>8. ReaderOK'
  <2>1. /\ (reader.ops \in 0 .. Len(ops) /\ reader.tombs \in 0 .. Len(tombs))'
        /\ (\A i \in 1 .. reader.ops : ops[i].is = "correction" /\ i > read => ops[i].uid \in reader.uids)'
        /\ (\A i \in 1 .. reader.tombs : i > reached => tombs[i].of \in reader.records)'
    BY <1>1, <1>2, Logs DEF ReaderOK
  <2>2. ASSUME NEW d \in derived, d.status # "proposed", d.op \notin reader.lowering
        PROVE  Stands(ClaimOf(d.op), reader.tombs, Len(ops))'
    <3>1. Stands(ClaimOf(d.op), reader.tombs, Len(ops))
      BY <2>2 DEF ReaderOK
    <3>2. QED
      BY <1>1, <1>2, <1>6, <3>1
  <2>3. QED
    BY <1>1, <2>1, <2>2 DEF ReaderOK
<1>9. QED
  BY <1>3, <1>7, <1>8

\* A tombstone more takes nothing back that an earlier one took.
LEMMA TombstoneOK ==
  ASSUME Bounded, Inv, NEW t \in plan.removals, append_tombstone(t)
  PROVE  Inv'
<1> USE DEF Inv
<1> DEFINE tomb == [of |-> t.of, parts |-> t.parts, whole |-> t.whole, after |-> Len(ops)]
<1>1. /\ tombs' = Append(tombs, tomb) /\ ops' = ops /\ read' = read /\ reached' = reached
      /\ derived' = derived /\ reader' = reader /\ plan' = plan
  BY DEF append_tombstone
<1>2. tomb \in Tomb /\ tomb.after = Len(ops)
  BY Logs DEF LogsOK, Tomb
<1> HIDE DEF tomb
<1>3. /\ Len(tombs') = Len(tombs) + 1 /\ tombs'[Len(tombs')] = tomb
      /\ \A i \in 1 .. Len(tombs) : tombs'[i] = tombs[i]
      /\ \A c, m : \A n \in 0 .. Len(tombs) : Stands(c, n, m)' <=> Stands(c, n, m)
      /\ \A q : \A n \in 0 .. Len(tombs) : Gone(q, n)' <=> Gone(q, n)
  BY <1>1, TombsKept
<1>4. LogsOK'
  <2>1. tombs' \in Seq(Tomb)
    BY <1>1, <1>2, AppendProperties DEF LogsOK
  <2>2. (\A i \in 1 .. Len(tombs) : tombs[i].after \in 0 .. Len(ops))'
    BY <1>1, <1>2, <1>3, Logs DEF LogsOK
  <2>3. ASSUME NEW i \in 1 .. Len(tombs'), NEW j \in 1 .. Len(tombs'), i <= j
        PROVE  tombs'[i].after <= tombs'[j].after
    <3>1. CASE j \in 1 .. Len(tombs)
      <4>1. i \in 1 .. Len(tombs)
        BY <2>3, <3>1, Logs
      <4>2. QED
        BY <1>3, <2>3, <3>1, <4>1 DEF LogsOK
    <3>2. CASE j = Len(tombs')
      <4>1. tombs'[j].after = Len(ops)
        BY <1>2, <1>3, <3>2
      <4>2. tombs'[i].after \in 0 .. Len(ops)
        BY <1>1, <2>2
      <4>3. QED
        BY <4>1, <4>2, Logs
    <3>3. QED
      BY <1>3, <3>1, <3>2, Logs
  <2>4. QED
    BY <1>1, <1>3, <2>1, <2>2, <2>3, Logs DEF LogsOK
<1>5. Len(tombs) \in 0 .. Len(tombs') /\ Len(tombs') \in 0 .. Len(tombs') /\ reached \in 0 .. Len(tombs)
  BY <1>3, Logs
<1>6. ASSUME NEW c, ~Stands(c, Len(tombs), Len(ops))
      PROVE  ~Stands(c, Len(tombs), Len(ops))'
  <2> SUFFICES ASSUME Stands(c, Len(tombs), Len(ops))'
               PROVE  Stands(c, Len(tombs), Len(ops))
    BY <1>6
  <2>1. \A n \in 0 .. Len(tombs') : Stands(c, n, Len(ops))'
    <3>1. (LogsOK => StandingEnds)'
      BY StandsLess, PTL
    <3>2. Len(tombs') \in 0 .. Len(tombs')
      BY <1>5
    <3>3. QED
      BY <1>4, <3>1, <3>2 DEF StandingEnds
  <2>2. QED
    BY <1>1, <1>3, <1>5, <2>1, Logs
<1>7. Batches' = Batches
  BY <1>1 DEF Batches
<1>8. ASSUME NEW i
      PROVE  Alive(i)' \subseteq Alive(i)
  <2>1. \A q : Gone(q, Len(tombs)) => Gone(q, Len(tombs))'
    BY <1>3, Logs DEF Gone, Takes
  <2>2. QED
    BY <1>1, <2>1 DEF Alive, Claim
<1>9. ASSUME NEW d \in derived
      PROVE  Row(d)'
  <2>1. PICK i \in Batches : \E j \in DOMAIN ops[i].claims :
               /\ d = [op |-> <<i, j>>, status |-> d.status, edges |-> d.edges]
               /\ \A q \in Claim(i, j).quotes : ~Gone(q, reached)
               /\ Whole(d, i, j) \/ Fallen(d, i, j)
    BY DEF Row, DerivedOK
  <2>2. PICK j \in DOMAIN ops[i].claims :
               /\ d = [op |-> <<i, j>>, status |-> d.status, edges |-> d.edges]
               /\ \A q \in Claim(i, j).quotes : ~Gone(q, reached)
               /\ Whole(d, i, j) \/ Fallen(d, i, j)
    BY <2>1
  <2>3. Claim(i, j)' = Claim(i, j)
    BY <1>1 DEF Claim
  <2>4. Whole(d, i, j) => Whole(d, i, j)'
    <3>1. Edges(i, j, Alive(i))' \subseteq Edges(i, j, Alive(i))
      BY <1>1, <1>8 DEF Edges, Claim
    <3>2. Edges(i, j, DOMAIN ops[i].claims)' = Edges(i, j, DOMAIN ops[i].claims)
      BY <1>1 DEF Edges, Claim
    <3>3. Stands(Claim(i, j), reached, Len(ops)) => Stands(Claim(i, j), reached, Len(ops))'
      BY <1>1, <1>3, <1>5, <2>3
    <3>4. QED
      BY <2>3, <3>1, <3>2, <3>3 DEF Whole
  <2>5. Fallen(d, i, j) => Fallen(d, i, j)'
    BY <1>6, <2>3 DEF Fallen
  <2>6. (\A q \in Claim(i, j).quotes : ~Gone(q, reached))'
    BY <1>1, <1>3, <1>5, <2>2, <2>3
  <2>7. QED
    BY <1>1, <1>7, <2>2, <2>4, <2>5, <2>6 DEF Row
<1>10. DerivedOK'
  BY <1>1, <1>7, <1>8, <1>9 DEF DerivedOK
<1>11. ReaderOK'
  <2>1. /\ (reader.ops \in 0 .. Len(ops) /\ reader.tombs \in 0 .. Len(tombs))'
        /\ (\A i \in 1 .. reader.ops : ops[i].is = "correction" /\ i > read => ops[i].uid \in reader.uids)'
        /\ (\A i \in 1 .. reader.tombs : i > reached => tombs[i].of \in reader.records)'
    BY <1>1, <1>3, Logs DEF ReaderOK
  <2>2. (\A d \in derived : d.status # "proposed" /\ d.op \notin reader.lowering
           => Stands(ClaimOf(d.op), reader.tombs, Len(ops)))'
    BY <1>1, <1>3 DEF ReaderOK, ClaimOf
  <2>3. QED
    BY <2>1, <2>2 DEF ReaderOK
<1>12. QED
  BY <1>4, <1>10, <1>11

\* A window of the plan is one that is sent, a correction one that is said.
LEMMA NextOK == ASSUME Bounded, Inv, [Next]_vars PROVE Inv'
<1>1. CASE StepClaims
  BY <1>1, StepClaimsOK
<1>2. CASE StepAnchors
  BY <1>2, StepAnchorsOK
<1>3. CASE Ask
  BY <1>3, AskOK
<1>4. CASE Curates
  <2>1. PICK k \in DOMAIN plan.windows : Appends([is |-> "window", claims |-> plan.windows[k]])
    BY <1>4 DEF Curates
  <2>2. plan.windows[k] \in Sent
    BY DEF Sent, Inv, LogsOK
  <2>3. [is |-> "window", claims |-> plan.windows[k]] \in Op
    BY <2>2 DEF Op
  <2>4. QED
    BY <2>1, <2>3, AppendsOK
<1>5. ASSUME NEW c \in plan.said, correct(c)
      PROVE  Inv'
  <2>1. [is |-> "correction", uid |-> c.uid, status |-> c.status] \in Op
    BY DEF Op, Inv, LogsOK
  <2>2. QED
    BY <1>5, <2>1, AppendsOK DEF correct
<1>6. ASSUME NEW t \in plan.removals, append_tombstone(t)
      PROVE  Inv'
  BY <1>6, TombstoneOK
<1>7. CASE UNCHANGED vars
  <2>1. /\ ops' = ops /\ tombs' = tombs /\ read' = read /\ reached' = reached /\ derived' = derived
        /\ reader' = reader /\ plan' = plan
    BY <1>7 DEF vars
  <2>2. /\ \A c, k, m : Stands(c, k, m)' <=> Stands(c, k, m)
        /\ \A q, k : Gone(q, k)' <=> Gone(q, k)
    BY <2>1 DEF Stands, supported, owner_set, RemovedAt, Gone, Takes
  <2>3. Batches' = Batches /\ (\A i : Alive(i)' = Alive(i)) /\ \A p : ClaimOf(p)' = ClaimOf(p)
    BY <2>1, <2>2 DEF Batches, Alive, Claim, ClaimOf
  <2>4. \A d : Row(d) => Row(d)'
    BY <2>1, <2>2, <2>3 DEF Row, Whole, Fallen, Edges, Claim
  <2>5. DerivedOK'
    BY <2>1, <2>3, <2>4 DEF DerivedOK, Inv
  <2>6. LogsOK' /\ ReaderOK'
    BY <2>1, <2>2, <2>3 DEF LogsOK, ReaderOK, Inv
  <2>7. QED
    BY <2>5, <2>6 DEF Inv
<1>8. QED
  BY <1>1, <1>2, <1>3, <1>4, <1>5, <1>6, <1>7 DEF Next

LEMMA InvHolds ==
  ASSUME Bounded
  PROVE  Spec => []Inv
<1>1. Init => Inv
  BY InitOK
<1>2. Inv /\ [Next]_vars => Inv'
  BY NextOK
<1>3. QED
  BY <1>1, <1>2, PTL DEF Spec
-----------------------------------------------------------------------------
(* What the invariant says of the views.                                   *)

\* A derivation's claim is one of its batch.
LEMMA OpOf ==
  ASSUME Inv, NEW d \in derived
  PROVE  /\ d.op[1] \in Batches /\ d.op[1] \in 1 .. Len(ops) /\ ops[d.op[1]].is = "window"
         /\ d.op[2] \in DOMAIN ops[d.op[1]].claims
         /\ d.op = <<d.op[1], d.op[2]>> /\ ClaimOf(d.op) = Claim(d.op[1], d.op[2])
<1>1. PICK i \in Batches : \E j \in DOMAIN ops[i].claims :
               d = [op |-> <<i, j>>, status |-> d.status, edges |-> d.edges]
  BY DEF Row, DerivedOK, Inv
<1>2. PICK j \in DOMAIN ops[i].claims :
               d = [op |-> <<i, j>>, status |-> d.status, edges |-> d.edges]
  BY <1>1
<1>3. d.op = <<i, j>>
  BY <1>2
<1>4. i \in 1 .. Len(ops) /\ ops[i].is = "window"
  BY Logs DEF Batches, Inv
<1>5. QED
  BY <1>3, <1>4 DEF ClaimOf, Claim

\* The derivations of a claim that are of the highest tier and the newest batch.
Own(u, rows)  == {d \in rows : Uid(d) = u}
High(u, rows) == {d \in Own(u, rows) : \A e \in Own(u, rows) : ClaimOf(d.op).tier >= ClaimOf(e.op).tier}
Last(u, rows) == {d \in High(u, rows) : \A e \in High(u, rows) : d.op[1] >= e.op[1]}

LEMMA ActivateIs ==
  ASSUME NEW u, NEW rows, NEW a \in Last(u, rows), \A e \in Last(u, rows) : a.op[2] >= e.op[2]
  PROVE  /\ activate(u, rows) \in Last(u, rows)
         /\ \A e \in Last(u, rows) : activate(u, rows).op[2] >= e.op[2]
<1>1. activate(u, rows)
        = CHOOSE d \in Last(u, rows) : \A e \in Last(u, rows) : d.op[2] >= e.op[2]
  BY DEF activate, Own, High, Last
<1>2. QED
  BY <1>1

\* Of the derivations of a claim one is active.
LEMMA Active ==
  ASSUME Bounded, Inv, NEW u \in UidsOf(derived)
  PROVE  /\ activate(u, derived) \in derived /\ Uid(activate(u, derived)) = u
         /\ activate(u, derived) \in Last(u, derived)
         /\ \A e \in Last(u, derived) : activate(u, derived).op[2] >= e.op[2]
<1> DEFINE own  == Own(u, derived)
           high == High(u, derived)
           last == Last(u, derived)
<1> USE DEF Own, High, Last
<1> DEFINE tier(d) == ClaimOf(d.op).tier
<1>1. PICK a \in Int, b \in Int : \A w \in Sent : \A j \in DOMAIN w : w[j].tier \in a .. b
  BY DEF Bounded
<1>2. \A d \in derived : tier(d) \in a .. b
  <2>1. ASSUME NEW d \in derived
        PROVE  tier(d) \in a .. b
    BY <1>1, <2>1, OpOf, Windows DEF Inv, Claim
  <2>2. QED
    BY <2>1
<1>3. \E d \in high : TRUE
  <2> DEFINE S == {tier(d) : d \in own}
  <2>1. S \in SUBSET Int /\ S # {} /\ \A x \in S : x <= b
    BY <1>2 DEF UidsOf
  <2> HIDE DEF S
  <2>2. Max(S) \in S /\ \A y \in S : y <= Max(S)
    BY <2>1, Greatest
  <2>3. PICK d \in own : tier(d) = Max(S)
    BY <2>2 DEF S
  <2>4. \A e \in own : tier(e) \in Int /\ tier(e) <= tier(d)
    BY <1>2, <2>2, <2>3 DEF S
  <2>5. \A e \in own : tier(d) >= tier(e)
    BY <2>4
  <2>6. QED
    BY <2>5
<1>4. \E d \in last : TRUE
  <2> DEFINE S == {d.op[1] : d \in high}
  <2>1. Len(ops) \in Int
    BY Logs DEF Inv
  <2>2. S \in SUBSET Int /\ S # {} /\ \A x \in S : x <= Len(ops)
    BY <1>3, <2>1, OpOf
  <2> HIDE DEF S
  <2>3. Max(S) \in S /\ \A y \in S : y <= Max(S)
    BY <2>1, <2>2, Greatest
  <2>4. PICK d \in high : d.op[1] = Max(S)
    BY <2>3 DEF S
  <2>5. \A e \in high : e.op[1] \in Int /\ e.op[1] <= d.op[1]
    BY <2>2, <2>3, <2>4 DEF S
  <2>6. \A e \in high : d.op[1] >= e.op[1]
    BY <2>5
  <2>7. QED
    BY <2>6
<1>5. \E d \in last : \A e \in last : d.op[2] >= e.op[2]
  <2> DEFINE S == {d.op[2] : d \in last}
  <2>1. PICK f \in last : TRUE
    BY <1>4
  <2> DEFINE i == f.op[1]
  <2>2. i \in 1 .. Len(ops) /\ ops[i].is = "window" /\ i \in Nat
    BY <2>1, OpOf, Logs DEF Inv
  <2>3. Len(ops[i].claims) \in Int /\ DOMAIN ops[i].claims = 1 .. Len(ops[i].claims)
    BY <2>2, Windows DEF Inv
  <2>4. \A d \in last : d.op[1] = i
    <3>1. ASSUME NEW d \in last
          PROVE  d.op[1] = i
      <4>1. d.op[1] \in 1 .. Len(ops)
        BY OpOf
      <4>2. d.op[1] >= i /\ i >= d.op[1]
        BY <2>1, <3>1
      <4>3. QED
        BY <2>2, <4>1, <4>2, Logs DEF Inv
    <3>2. QED
      BY <3>1
  <2>5. \A d \in last : d.op[2] \in 1 .. Len(ops[i].claims)
    BY <2>3, <2>4, OpOf
  <2>6. S \in SUBSET Int /\ S # {} /\ \A x \in S : x <= Len(ops[i].claims)
    BY <2>1, <2>3, <2>5
  <2> HIDE DEF S, i
  <2>7. Max(S) \in S /\ \A y \in S : y <= Max(S)
    BY <2>3, <2>6, Greatest
  <2>8. PICK d \in last : d.op[2] = Max(S)
    BY <2>7 DEF S
  <2>9. \A e \in last : e.op[2] \in Int /\ e.op[2] <= d.op[2]
    BY <2>6, <2>7, <2>8 DEF S
  <2>10. \A e \in last : d.op[2] >= e.op[2]
    BY <2>9
  <2>11. QED
    BY <2>10
<1> HIDE DEF last, Own, High, Last
<1>6. activate(u, derived) \in last /\ \A e \in last : activate(u, derived).op[2] >= e.op[2]
  BY <1>5, ActivateIs DEF last
<1>7. QED
  BY <1>6 DEF last, Own, High, Last

LEMMA InvShows == ASSUME Bounded, Inv PROVE ShownStands
<1> SUFFICES ASSUME NEW c \in Shown
             PROVE  /\ Corrected(c.uid, reader.ops) # {} => ops[Max(Corrected(c.uid, read))].status # "retracted"
                    /\ \A q \in ClaimOf(c.op).quotes : ~Gone(q, reader.tombs)
                    /\ \/ c.status = "proposed" \/ Corrected(c.uid, read) # {}
                       \/ Stands(ClaimOf(c.op), reader.tombs, Len(ops))
  BY DEF ShownStands
<1>1. PICK u \in Tips(derived, read) :
         c = [uid |-> u, op |-> activate(u, derived).op, status |-> Status(u, derived, read)]
  BY DEF Shown, current
<1> DEFINE d == activate(u, derived)
<1>2. c.uid = u /\ c.op = d.op /\ c.status = Status(u, derived, read)
  BY <1>1
<1>3. d \in derived /\ Uid(d) = u
  BY Active DEF Tips
<1>4. /\ u \notin reader.uids /\ Quoting(d) \cap reader.records = {} /\ d.op \notin reader.lowering
  BY <1>2 DEF Shown, touches
<1>5. Status(u, derived, read) # "retracted"
  BY DEF Tips
<1>6. Corrected(u, reader.ops) # {} => Corrected(u, read) # {}
  <2> SUFFICES ASSUME NEW i \in 1 .. reader.ops, ops[i].is = "correction", ops[i].uid = u
               PROVE  i \in 1 .. read
    BY DEF Corrected
  <2>1. ~(i > read)
    BY <1>4 DEF Inv, ReaderOK
  <2>2. QED
    BY <2>1, Logs DEF Inv, ReaderOK
<1>7. ASSUME NEW q \in ClaimOf(d.op).quotes, Gone(q, reader.tombs)
      PROVE  FALSE
  <2>1. PICK k \in 1 .. reader.tombs : Takes(tombs[k], q)
    BY <1>7 DEF Gone
  <2>2. tombs[k].of \in Quoting(d)
    BY <1>7, <2>1 DEF Quoting, Takes
  <2>3. ~(k > reached)
    BY <1>4, <2>2 DEF Inv, ReaderOK
  <2>4. k \in 1 .. reached
    BY <2>3, Logs DEF Inv, ReaderOK
  <2>5. Gone(q, reached)
    BY <2>1, <2>4 DEF Gone
  <2>6. PICK i \in Batches : \E j \in DOMAIN ops[i].claims :
               /\ d = [op |-> <<i, j>>, status |-> d.status, edges |-> d.edges]
               /\ \A p \in Claim(i, j).quotes : ~Gone(p, reached)
    BY <1>3 DEF Row, DerivedOK, Inv
  <2>7. PICK j \in DOMAIN ops[i].claims :
               /\ d = [op |-> <<i, j>>, status |-> d.status, edges |-> d.edges]
               /\ \A p \in Claim(i, j).quotes : ~Gone(p, reached)
    BY <2>6
  <2>8. d.op = <<i, j>>
    BY <2>7
  <2>9. QED
    BY <1>7, <2>5, <2>7, <2>8 DEF ClaimOf, Claim
<1>8. ASSUME Corrected(u, read) = {}, d.status # "proposed"
      PROVE  Stands(ClaimOf(d.op), reader.tombs, Len(ops))
  BY <1>3, <1>4, <1>8 DEF Inv, ReaderOK
<1>9. Corrected(u, read) = {} => Status(u, derived, read) = d.status
  BY DEF Status
<1>10. Corrected(u, read) # {} => ops[Max(Corrected(u, read))].status # "retracted"
  BY <1>5 DEF Status
<1> HIDE DEF d
<1>11. QED
  BY <1>2, <1>6, <1>7, <1>8, <1>9, <1>10

\* A derivation with the edges a rebuild gives it.
Trim(d) == [op |-> d.op, status |-> d.status, edges |-> d.edges \ Outliving(d)]

\* The edges that outlive, by the derivation's batch and place.
OutlivingOf(edges, i, j) ==
  {u \in edges :
     /\ \E s \in Claim(i, j).siblings \cap DOMAIN ops[i].claims :
          s \notin Alive(i) /\ u = Claim(i, s).uid
     /\ u \notin Claim(i, j).supersedes
     /\ \A s \in Claim(i, j).siblings \cap Alive(i) : u # Claim(i, s).uid}

LEMMA OutlivingIs ==
  ASSUME NEW d, NEW i, NEW j, d.op = <<i, j>>
  PROVE  Outliving(d) = OutlivingOf(d.edges, i, j)
<1> DEFINE place(k, s) == ClaimOf(<<k, s>>)
           there(k, l) == place(k, l).siblings \cap DOMAIN ops[k].claims
           gone(k, l)  == {s \in there(k, l) : \E q \in place(k, s).quotes : Gone(q, Len(tombs))}
<1>1. d.op[1] = i /\ d.op = <<d.op[1], j>> /\ ClaimOf(d.op) = place(i, j)
  OBVIOUS
<1>2. Outliving(d) = {x \in d.edges : /\ \E s \in gone(i, j) : x = place(i, s).uid
                                      /\ x \notin place(i, j).supersedes
                                      /\ \A s \in there(i, j) \ gone(i, j) : x # place(i, s).uid}
  <2> DEFINE k == d.op[1]
  <2>1. Outliving(d) = {x \in d.edges : /\ \E s \in gone(k, j) : x = place(k, s).uid
                                        /\ x \notin place(k, j).supersedes
                                        /\ \A s \in there(k, j) \ gone(k, j) : x # place(k, s).uid}
    BY <1>1, Zenon DEF Outliving
  <2>2. k = i
    BY <1>1
  <2> HIDE DEF k, gone, there, place
  <2>3. QED
    BY <2>1, <2>2
<1>3. \A s : place(i, s) = Claim(i, s)
  BY DEF ClaimOf, Claim
<1> HIDE DEF place
<1>4. /\ \A s : s \in gone(i, j) <=> s \in Claim(i, j).siblings \cap DOMAIN ops[i].claims /\ s \notin Alive(i)
      /\ \A s : s \in there(i, j) \ gone(i, j) <=> s \in Claim(i, j).siblings \cap Alive(i)
  BY <1>3 DEF Alive
<1> HIDE DEF gone, there
<1>5. QED
  BY <1>2, <1>3, <1>4 DEF OutlivingOf

\* A caught up derivation is its claim's row in a rebuild, but for the edges that outlive.
LEMMA TrimIs ==
  ASSUME Bounded, Inv, read = Len(ops), reached = Len(tombs), NEW d \in derived
  PROVE  /\ \E i \in Batches : \E j \in Alive(i) : d.op = <<i, j>> /\ Trim(d) = Derived(i, j)
         /\ Uid(d) \notin d.edges
<1>1. PICK i \in Batches : \E j \in DOMAIN ops[i].claims :
             /\ d = [op |-> <<i, j>>, status |-> d.status, edges |-> d.edges]
             /\ \A q \in Claim(i, j).quotes : ~Gone(q, reached)
             /\ Whole(d, i, j) \/ Fallen(d, i, j)
  BY DEF Row, DerivedOK, Inv
<1>2. PICK j \in DOMAIN ops[i].claims :
             /\ d = [op |-> <<i, j>>, status |-> d.status, edges |-> d.edges]
             /\ \A q \in Claim(i, j).quotes : ~Gone(q, reached)
             /\ Whole(d, i, j) \/ Fallen(d, i, j)
  BY <1>1
<1>3. d.op = <<i, j>>
  BY <1>2
<1>4. j \in Alive(i)
  BY <1>2 DEF Alive
<1>5. Uid(d) = Claim(i, j).uid
  BY <1>3 DEF Uid, ClaimOf, Claim
<1> DEFINE kept == d.edges \ Outliving(d)
<1>6. CASE Fallen(d, i, j)
  <2>1. d.edges = {} /\ kept = {} /\ d.status = "proposed"
    BY <1>6 DEF Fallen
  <2>2. Trim(d) = Derived(i, j)
    BY <1>3, <1>6, <2>1 DEF Trim, Derived, Fallen
  <2>3. QED
    BY <1>3, <1>4, <2>1, <2>2
<1>7. CASE Whole(d, i, j)
  <2>1. Edges(i, j, Alive(i)) \subseteq d.edges /\ d.edges \subseteq Edges(i, j, DOMAIN ops[i].claims)
    BY <1>7 DEF Whole
  <2>2. Outliving(d) = OutlivingOf(d.edges, i, j)
    BY <1>3, OutlivingIs
  <2>3. \A u \in d.edges : u \notin Outliving(d) => u \in Edges(i, j, Alive(i))
    BY <2>1, <2>2 DEF Edges, OutlivingOf
  <2>4. \A u \in Edges(i, j, Alive(i)) : u \in d.edges /\ u \notin Outliving(d)
    BY <2>1, <2>2 DEF Edges, OutlivingOf
  <2>5. kept = Edges(i, j, Alive(i))
    BY <2>3, <2>4
  <2>6. d.status = Claim(i, j).status /\ Stands(Claim(i, j), Len(tombs), Len(ops))
    BY <1>7 DEF Whole
  <2>7. Trim(d) = Derived(i, j)
    BY <1>3, <2>5, <2>6 DEF Trim, Derived
  <2>8. Uid(d) \notin d.edges
    BY <1>5, <2>1 DEF Edges
  <2>9. QED
    BY <1>3, <1>4, <2>7, <2>8
<1>8. QED
  BY <1>2, <1>6, <1>7

LEMMA InvRebuilds ==
  ASSUME Bounded, Inv, read = Len(ops), reached = Len(tombs)
  PROVE  Rebuilt = {Trim(d) : d \in derived}
<1>1. Batches = Placed("window")
  BY Logs DEF Batches, Placed, Inv
<1>2. \A d \in derived : \E i \in Batches : \E j \in Alive(i) : d.op = <<i, j>> /\ Trim(d) = Derived(i, j)
  BY TrimIs
<1>3. \A d \in derived : Trim(d) \in Rebuilt
  BY <1>1, <1>2, DeriveIs DEF Rebuilt
<1>4. ASSUME NEW i \in Batches, NEW j \in Alive(i)
      PROVE  \E d \in derived : Derived(i, j) = Trim(d)
  <2>1. PICK d \in derived : d.op = <<i, j>>
    BY DEF DerivedOK, Inv
  <2>2. PICK k \in Batches : \E l \in Alive(k) : d.op = <<k, l>> /\ Trim(d) = Derived(k, l)
    BY <1>2
  <2>3. k = i /\ Trim(d) = Derived(i, j)
    BY <2>1, <2>2
  <2>4. QED
    BY <2>3
<1>5. \A e \in Rebuilt : \E i \in Batches : \E j \in Alive(i) : e = Derived(i, j)
  BY <1>1, DeriveIs DEF Rebuilt
<1>6. QED
  BY <1>3, <1>4, <1>5

\* So the rebuild's active derivations are those there are.
LEMMA ActiveRebuilt ==
  ASSUME Bounded, Inv, read = Len(ops), reached = Len(tombs), NEW u \in UidsOf(derived)
  PROVE  activate(u, Rebuilt) = Trim(activate(u, derived))
<1> DEFINE rows == {Trim(d) : d \in derived}
           a == activate(u, derived)
           b == activate(u, rows)
<1>1. \A d : Trim(d).op = d.op
  BY DEF Trim
<1>2. \A d : Uid(Trim(d)) = Uid(d)
  BY <1>1 DEF Uid
<1>3. Own(u, rows) = {Trim(d) : d \in Own(u, derived)}
  BY <1>2 DEF Own
<1>4. High(u, rows) = {Trim(d) : d \in High(u, derived)}
  <2>1. \A d \in Own(u, derived) : Trim(d) \in High(u, rows) <=> d \in High(u, derived)
    BY <1>1, <1>3 DEF High
  <2>2. High(u, rows) \subseteq Own(u, rows) /\ High(u, derived) \subseteq Own(u, derived)
    BY DEF High
  <2>3. QED
    BY <1>3, <2>1, <2>2
<1>5. Last(u, rows) = {Trim(d) : d \in Last(u, derived)}
  <2>1. ASSUME NEW d \in High(u, derived)
        PROVE  Trim(d) \in Last(u, rows) <=> d \in Last(u, derived)
    <3>1. Trim(d) \in High(u, rows) /\ Trim(d).op = d.op
      BY <1>1, <1>4
    <3>2. (\A e \in High(u, rows) : d.op[1] >= e.op[1])
            <=> (\A e \in High(u, derived) : d.op[1] >= e.op[1])
      BY <1>1, <1>4
    <3>3. QED
      BY <3>1, <3>2 DEF Last
  <2>2. Last(u, rows) \subseteq High(u, rows) /\ Last(u, derived) \subseteq High(u, derived)
    BY DEF Last
  <2>3. QED
    BY <1>4, <2>1, <2>2
<1>6. a \in Last(u, derived) /\ \A e \in Last(u, derived) : a.op[2] >= e.op[2]
  BY Active
<1> HIDE DEF a, b, rows
<1>7. Trim(a) \in Last(u, rows) /\ \A e \in Last(u, rows) : Trim(a).op[2] >= e.op[2]
  BY <1>1, <1>5, <1>6
<1>8. b \in Last(u, rows) /\ \A e \in Last(u, rows) : b.op[2] >= e.op[2]
  BY <1>7, ActivateIs DEF b
<1>9. PICK e \in Last(u, derived) : b = Trim(e)
  BY <1>5, <1>8
<1>10. a \in derived /\ e \in derived
  BY <1>6 DEF Last, High, Own
<1>11. a.op[1] >= e.op[1] /\ e.op[1] >= a.op[1]
  BY <1>6 DEF Last
<1>12. a.op[2] >= e.op[2] /\ e.op[2] >= a.op[2]
  BY <1>1, <1>6, <1>7, <1>8, <1>9
<1>13. \A d \in derived : d.op[1] \in Int /\ d.op[2] \in Int /\ d.op = <<d.op[1], d.op[2]>>
  <2>1. ASSUME NEW d \in derived
        PROVE  d.op[1] \in Int /\ d.op[2] \in Int /\ d.op = <<d.op[1], d.op[2]>>
    <3>1. /\ d.op[1] \in 1 .. Len(ops) /\ ops[d.op[1]].is = "window"
          /\ d.op[2] \in DOMAIN ops[d.op[1]].claims /\ d.op = <<d.op[1], d.op[2]>>
      BY OpOf
    <3>2. DOMAIN ops[d.op[1]].claims \subseteq Int
      BY <3>1, Windows DEF Inv
    <3>3. QED
      BY <3>1, <3>2
  <2>2. QED
    BY <2>1
<1>14. a.op[1] = e.op[1] /\ a.op[2] = e.op[2]
  BY <1>10, <1>11, <1>12, <1>13
<1>15. a.op = e.op
  BY <1>10, <1>13, <1>14
<1>16. a = e
  BY <1>10, <1>15 DEF DerivedOK, Inv
<1>17. QED
  BY <1>9, <1>16, InvRebuilds DEF a, b, rows

LEMMA InvCurrent == ASSUME Bounded, Inv PROVE CurrentAsRebuilt
<1> SUFFICES ASSUME read = Len(ops), reached = Len(tombs)
             PROVE  current(derived, read) = {c \in current(Rebuilt, read) : c.uid \notin Outlived}
  BY DEF CurrentAsRebuilt
<1> DEFINE A(u) == activate(u, derived)
           B(u) == activate(u, Rebuilt)
           U == UidsOf(derived)
<1>1. UidsOf(Rebuilt) = U
  <2>1. \A d : Uid(Trim(d)) = Uid(d)
    BY DEF Uid, Trim
  <2>2. Rebuilt = {Trim(d) : d \in derived}
    BY InvRebuilds
  <2>3. QED
    BY <2>1, <2>2 DEF UidsOf
<1>2. \A u \in U : B(u) = Trim(A(u))
  BY ActiveRebuilt
<1>3. \A u \in U : /\ B(u).op = A(u).op /\ B(u).status = A(u).status
                   /\ B(u).edges = A(u).edges \ Outliving(A(u))
  BY <1>2 DEF Trim
<1>4. \A u \in U : Status(u, Rebuilt, read) = Status(u, derived, read)
  BY <1>3 DEF Status
<1>5. Outlived = UNION {Outliving(A(u)) : u \in U}
  BY DEF Outlived
<1>6. \A u \in U : u \notin A(u).edges /\ Outliving(A(u)) \subseteq A(u).edges
  <2>1. ASSUME NEW u \in U
        PROVE  u \notin A(u).edges
    BY Active, TrimIs
  <2>2. \A d : Outliving(d) \subseteq d.edges
    BY DEF Outliving
  <2>3. QED
    BY <2>1, <2>2
<1> HIDE DEF A, B, U
<1>7. Tips(derived, read) = {u \in U : /\ Status(u, derived, read) # "retracted"
                                      /\ \A v \in U \ {u} : u \notin A(v).edges}
  BY DEF Tips, A, U
<1>8. Tips(Rebuilt, read) = {u \in U : /\ Status(u, Rebuilt, read) # "retracted"
                                      /\ \A v \in U \ {u} : u \notin B(v).edges}
  BY <1>1 DEF Tips, B
<1>9. Tips(derived, read) = Tips(Rebuilt, read) \ Outlived
  <2>1. ASSUME NEW u \in U
        PROVE  (\A v \in U \ {u} : u \notin A(v).edges)
                 <=> (\A v \in U \ {u} : u \notin B(v).edges) /\ u \notin Outlived
    BY <1>3, <1>5, <1>6
  <2>2. QED
    BY <1>4, <1>7, <1>8, <2>1
<1> DEFINE shown(u) == [uid |-> u, op |-> A(u).op, status |-> Status(u, derived, read)]
<1>10. current(derived, read) = {shown(u) : u \in Tips(derived, read)}
  BY DEF current, A
<1>11. current(Rebuilt, read) = {shown(u) : u \in Tips(Rebuilt, read)}
  <2>1. \A u \in Tips(Rebuilt, read) :
          [uid |-> u, op |-> B(u).op, status |-> Status(u, Rebuilt, read)] = shown(u)
    BY <1>3, <1>4, <1>8
  <2>2. current(Rebuilt, read)
          = {[uid |-> u, op |-> B(u).op, status |-> Status(u, Rebuilt, read)] : u \in Tips(Rebuilt, read)}
    BY DEF current, B
  <2> HIDE DEF shown
  <2>3. QED
    BY <2>1, <2>2
<1>12. \A u : shown(u).uid = u
  OBVIOUS
<1> HIDE DEF shown
<1>13. QED
  BY <1>9, <1>10, <1>11, <1>12

LEMMA InvTypes == Inv => TypeOK
<1> SUFFICES ASSUME Inv PROVE TypeOK
  OBVIOUS
<1>1. \A d \in derived : d.op[1] \in Placed("window") /\ d.op[2] \in DOMAIN ops[d.op[1]].claims
  BY OpOf, Logs DEF Placed, Inv
<1>2. QED
  BY <1>1 DEF TypeOK, Inv, LogsOK

\* The checkpoints never pass the logs, and every derivation has the claim it was made from.
THEOREM TypeCorrect == Bounded => (Spec => []TypeOK)
<1> SUFFICES ASSUME Bounded PROVE Spec => []TypeOK
  OBVIOUS
<1>1. QED
  BY InvHolds, InvTypes, PTL

\* However consumers, writers and a reader interleave, what the reader shows stands in the raw.db
\* it began with (src/claims.rs, Pending).
THEOREM ReadersAreRight == Bounded => (Spec => []ShownStands)
<1> SUFFICES ASSUME Bounded PROVE Spec => []ShownStands
  OBVIOUS
<1>1. Inv => ShownStands
  BY InvShows
<1>2. QED
  BY <1>1, InvHolds, PTL

\* Whatever the order in which ops, tombstones and consumers came, a rebuild finds, once the
\* consumers have caught up, every current claim there is, with its derivation and status, and
\* besides them exactly the claims it would show but for an edge that outlives a dropped sibling
\* (src/consumer/claims.rs).  Nothing is assumed of such edges.
THEOREM RebuildsAgree == Bounded => (Spec => []CurrentAsRebuilt)
<1> SUFFICES ASSUME Bounded PROVE Spec => []CurrentAsRebuilt
  OBVIOUS
<1>1. Inv => CurrentAsRebuilt
  BY InvCurrent
<1>2. QED
  BY <1>1, InvHolds, PTL
=============================================================================
