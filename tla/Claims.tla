------------------------------- MODULE Claims -------------------------------
(***************************************************************************)
(* What knowledge.db holds of the claims, and what a reader shows of them: *)
(* the consumers `claims`, which reads the op log, and `anchors`, which    *)
(* reads the tombstones, and `Pending`, what neither has reached           *)
(* (src/consumer/claims.rs, src/claims.rs).  Consumers, writers and the    *)
(* reader move in any order.                                               *)
(***************************************************************************)
EXTENDS Integers, Sequences, FiniteSetsExt

CONSTANT Plans   \* what is written in a behaviour and whether it is read, for TLC to bound

\* A plan is [windows, corrections, said, removals, gone, reads]: the windows to come, each a
\* sequence of claims; how many corrections come of those in said, and tombstones of those in
\* removals; whether there is a reader.  A tombstone is [of, parts, whole].  A claim is [uid,
\* tier, status, quotes, support, supersedes, siblings]: a quote is <<record, part>>,
\* supersedes are uids it was shown, siblings are places in its window.

VARIABLES ops,      \* raw.db's op log: windows' batches and the owner's corrections
          tombs,    \* raw.db's tombstones, in the order of their seqs
          read,     \* the checkpoint of the claims consumer
          reached,  \* the checkpoint of the anchors consumer
          derived,  \* derivations, each with its edges
          reader,   \* what a reader found pending, and of which raw.db
          plan      \* what is written

vars == <<ops, tombs, read, reached, derived, reader, plan>>

ClaimOf(op) == ops[op[1]].claims[op[2]]

-----------------------------------------------------------------------------
(* What raw.db says, of its first n tombstones or its first n ops.         *)

Takes(t, q) == t.of = q[1] /\ (t.whole \/ q[2] \in t.parts)

\* Quote::Gone: the quote no longer reads in raw.
Gone(q, n) == \E i \in 1 .. n : Takes(tombs[i], q)

\* How many ops there were before each tombstone of the whole record: their order in time.
RemovedAt(r, n) == {tombs[i].after : i \in {j \in 1 .. n : tombs[j].of = r /\ tombs[j].whole}}

supported(records, n) == \E r \in records : RemovedAt(r, n) = {}

\* The owner set the claim's status before the last of the records it stood on went.
owner_set(uid, records, n, m) ==
  \E i \in 1 .. m :
     /\ ops[i].is = "correction" /\ ops[i].uid = uid
     /\ \A r \in records : RemovedAt(r, n) # {}
     /\ i <= Max({Min(RemovedAt(r, n)) : r \in records})

\* Whether the status its support raised still stands.
Stands(c, n, m) ==
  \/ c.support = {}
  \/ supported(c.support, n)
  \/ owner_set(c.uid, c.support, n, m)

-----------------------------------------------------------------------------
(* The consumers.                                                          *)

\* The claims of batch i whose quotes all read, as derivations with their edges: a sibling
\* is named by its place in the batch, and one that was not derived names nothing.
derive(i) ==
  LET claims == ops[i].claims
      alive == {j \in DOMAIN claims : \A q \in claims[j].quotes : ~Gone(q, Len(tombs))}
      row(j) ==
        LET c == claims[j] IN
        IF Stands(c, Len(tombs), Len(ops))
        THEN [op |-> <<i, j>>, status |-> c.status,
              edges |-> (c.supersedes \cup {claims[s].uid : s \in c.siblings \cap alive})
                        \ {c.uid}]
        ELSE [op |-> <<i, j>>, status |-> "proposed", edges |-> {}]
  IN {row(j) : j \in alive}

\* Claims::step, a batch at a time.
StepClaims ==
  /\ read < Len(ops)
  /\ read' = read + 1
  /\ derived' = derived \cup IF ops[read'].is = "window" THEN derive(read') ELSE {}
  /\ UNCHANGED <<ops, tombs, reached, reader, plan>>

\* The records the tombstones past the checkpoint are about.
Fresh == {tombs[i].of : i \in reached + 1 .. Len(tombs)}

Quoting(d)    == {q[1] : q \in ClaimOf(d.op).quotes}
Supporting(d) == ClaimOf(d.op).support

\* A derivation that lost a quote goes; one that lost all its support is a proposal.
Dropped == {d \in derived : /\ Quoting(d) \cap Fresh # {}
                            /\ \E q \in ClaimOf(d.op).quotes : Gone(q, Len(tombs))}
Lowered == {d \in derived \ Dropped :
              Supporting(d) \cap Fresh # {} /\ ~Stands(ClaimOf(d.op), Len(tombs), Len(ops))}
lowerStatus(d) == [d EXCEPT !.status = "proposed"]                       \* variation
lower(d) == [d EXCEPT !.status = "proposed", !.edges = {}]

\* Anchors::step.
StepAnchors ==
  /\ reached < Len(tombs)
  /\ reached' = Len(tombs)
  /\ derived' = (derived \ (Dropped \cup Lowered)) \cup {lower(d) : d \in Lowered}
  /\ UNCHANGED <<ops, tombs, read, reader, plan>>

-----------------------------------------------------------------------------
(* What the views say of a set of derivations and the first n ops.         *)

Uid(d)     == ClaimOf(d.op).uid
UidsOf(rows) == {Uid(d) : d \in rows}

\* The highest tier, then the newest; a batch has one time and its op seqs break the tie.
activate(u, rows) ==
  LET own  == {d \in rows : Uid(d) = u}
      high == {d \in own : \A e \in own : ClaimOf(d.op).tier >= ClaimOf(e.op).tier}
      last == {d \in high : \A e \in high : d.op[1] >= e.op[1]}
  IN CHOOSE d \in last : \A e \in last : d.op[2] >= e.op[2]

\* The places of the owner's corrections of u.
Corrected(u, n) == {i \in 1 .. n : ops[i].is = "correction" /\ ops[i].uid = u}

Status(u, rows, n) ==
  IF Corrected(u, n) = {} THEN activate(u, rows).status ELSE ops[Max(Corrected(u, n))].status

\* The claims that are current: TIPS.
Tips(rows, n) ==
  {u \in UidsOf(rows) :
     /\ Status(u, rows, n) # "retracted"
     /\ \A v \in UidsOf(rows) \ {u} : u \notin activate(v, rows).edges}

current(rows, n) ==
  {[uid |-> u, op |-> activate(u, rows).op, status |-> Status(u, rows, n)] : u \in Tips(rows, n)}

-----------------------------------------------------------------------------
(* A reader takes what is pending, then reads knowledge.db as the worker   *)
(* goes on.                                                                *)

\* variation
LoweringUnread ==
  {d.op : d \in {e \in derived : e.status # "proposed" /\ Supporting(e) # {}
                                  /\ Supporting(e) \subseteq Fresh}}

\* The derivations those tombstones take the status of, as Anchors will find.
Lowering ==
  {d.op : d \in {e \in derived : /\ e.status # "proposed" /\ Supporting(e) \cap Fresh # {}
                                /\ ~Stands(ClaimOf(e.op), Len(tombs), Len(ops))}}

Pending ==
  [ops      |-> Len(ops), tombs |-> Len(tombs),
   uids     |-> {ops[i].uid : i \in {j \in read + 1 .. Len(ops) : ops[j].is = "correction"}},
   records  |-> Fresh,
   lowering |-> Lowering]

touches(u) ==
  LET d == activate(u, derived)
  IN u \in reader.uids \/ Quoting(d) \cap reader.records # {} \/ d.op \in reader.lowering

\* The reader begins (again); it reads knowledge.db in every state from here on.
Ask == plan.reads /\ reader' = Pending /\ UNCHANGED <<ops, tombs, read, reached, derived, plan>>

-----------------------------------------------------------------------------
(* What is written beside them.                                            *)

Init ==
  /\ ops = <<>> /\ tombs = <<>> /\ plan \in Plans
  /\ read = 0 /\ reached = 0 /\ derived = {} /\ reader = Pending

Placed(kind) == {i \in DOMAIN ops : ops[i].is = kind}

Appends(op) == ops' = Append(ops, op) /\ UNCHANGED <<tombs, read, reached, derived, reader, plan>>

Curates ==
  LET next == Cardinality(Placed("window")) + 1
  IN next \in DOMAIN plan.windows /\ Appends([is |-> "window", claims |-> plan.windows[next]])

\* The owner corrects a claim that knowledge.db has.
correct(c) ==
  /\ Cardinality(Placed("correction")) < plan.corrections
  /\ c.uid \in UidsOf(derived)
  /\ Appends([is |-> "correction", uid |-> c.uid, status |-> c.status])

\* A forget of a record, or a mask over some of its text.
append_tombstone(t) ==
  /\ Len(tombs) < plan.gone
  /\ tombs' = Append(tombs, [of |-> t.of, parts |-> t.parts, whole |-> t.whole, after |-> Len(ops)])
  /\ UNCHANGED <<ops, read, reached, derived, reader, plan>>

Next ==
  \/ StepClaims \/ StepAnchors \/ Ask \/ Curates
  \/ \E c \in plan.said : correct(c)
  \/ \E t \in plan.removals : append_tombstone(t)

Spec == Init /\ [][Next]_vars

-----------------------------------------------------------------------------
(* What the parts promise.                                                 *)

TypeOK ==
  /\ read \in 0 .. Len(ops) /\ reached \in 0 .. Len(tombs)
  /\ \A d \in derived : d.op[1] \in Placed("window") /\ d.op[2] \in DOMAIN ops[d.op[1]].claims

\* The current claims that a reader with what it found pending shows.
Shown == {c \in current(derived, read) : ~touches(c.uid)}

\* What a reader shows stands in the raw.db it began with, whichever consumer has reached what:
\* no claim the owner retracted, none that quotes what is gone, and no status that fell with
\* the records it stood on (src/claims.rs, Pending).
ShownStands ==
  \A c \in Shown :
    /\ Corrected(c.uid, reader.ops) # {} => ops[Max(Corrected(c.uid, read))].status # "retracted"
    /\ \A q \in ClaimOf(c.op).quotes : ~Gone(q, reader.tombs)
    /\ \/ c.status = "proposed" \/ Corrected(c.uid, read) # {}
       \/ Stands(ClaimOf(c.op), reader.tombs, Len(ops))

\* What a rebuild of knowledge.db derives: every batch, with the tombstones there are now.
Rebuilt == UNION {derive(i) : i \in Placed("window")}

\* The edges of a derivation that outlive the siblings they name: its window's claims that it
\* superseded and that Anchors dropped. Claims::step wrote the edge when the sibling still was
\* there; a rebuild, which derives no such sibling, has no reason to write it.
Outliving(d) ==
  LET Place(s) == ClaimOf(<<d.op[1], s>>)
      there == ClaimOf(d.op).siblings \cap DOMAIN ops[d.op[1]].claims
      gone  == {s \in there : \E q \in Place(s).quotes : Gone(q, Len(tombs))}
  IN {u \in d.edges : /\ \E s \in gone : u = Place(s).uid
                      /\ u \notin ClaimOf(d.op).supersedes
                      /\ \A s \in there \ gone : u # Place(s).uid}

\* The claims that such an edge of an active derivation supersedes.
Outlived == UNION {Outliving(activate(u, derived)) : u \in UidsOf(derived)}

\* Once both consumers have caught up, in whatever order they, the ops and the tombstones came, a
\* rebuild would find the current claims that there are, with the same derivations and statuses,
\* and no other but those that only an edge to a dropped sibling still supersedes: these come
\* back, although docs/spec.md 1.7 has a rebuild yield identical claims.
CurrentAsRebuilt ==
  read = Len(ops) /\ reached = Len(tombs)
    => current(derived, read) = {c \in current(Rebuilt, read) : c.uid \notin Outlived}
=============================================================================
