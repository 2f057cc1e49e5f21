------------------------------ MODULE Retention ------------------------------
(***************************************************************************)
(* How a raw record's text expires (src/retention.rs): a pass of `forget   *)
(* --continue` plans a batch from the windows every rule lets go, seals    *)
(* the backups, commits the batch to raw.db's expiry_owed table, copies it *)
(* to state/expiry-owed, and takes the text out of the backups, raw.db,    *)
(* its -wal and knowledge.db.  Captures never wait for a pass; it may be   *)
(* killed anywhere, and a restore may make raw.db anew in the middle.      *)
(* Records are their numbers; a lost record's number names no other one    *)
(* here (the code tells the two apart by their times).                     *)
(***************************************************************************)
EXTENDS Naturals, Sequences

CONSTANTS Histories,  \* bound: what may be captured: sequences of records, each its session
                      \* and whether it never expires (directives, touches)
          Budgets     \* bound: how often each rare event may happen in one behaviour

Stores   == {"raw", "wal", "knowledge", "aside", "segments", "copies"}
Chances  == {"kill", "busy", "restore", "keep", "recurate"}

VARIABLES history,  \* what this behaviour captures
          top,      \* records captured so far
          rows,     \* the records raw.db has a row of, expired ones too
          text,     \* the records whose text each store holds
          windows,  \* the window ops in raw.db, each its range <<from, to>>
          sealed,   \* the rows and window ops the backups hold
          kept,     \* the records rule 3, 4, 5 or 8 keeps
          past,     \* how many records the period has passed for
          looked,   \* whether the last look is less than a week old
          table,    \* raw.db's expiry_owed
          file,     \* state/expiry-owed
          locked,   \* whether the pass holds the worker lock
          at,       \* where the pass is
          me,       \* its plan: the records, and each session's newest record as read
          chance    \* what is left of the budget
world == <<history, top, rows, windows, sealed, kept, past>>
vars  == <<world, text, looked, table, file, locked, at, me, chance>>

Events      == DOMAIN history
Last         == Len(history)
Session(r)   == history[r].session
Exempt       == {r \in Events : history[r].exempt}
Span(w)      == w[1] .. w[2]
Raw          == text["raw"]
Expired      == rows \ Raw
Spend(c)     == chance[c] > 0 /\ chance' = [chance EXCEPT ![c] = @ - 1]
Newest(s)    == CHOOSE n \in 0 .. Last :
                  /\ n = 0 \/ (n \in rows /\ Session(n) = s)
                  /\ \A r \in rows : Session(r) = s => r <= n
\* The whole-record curation checkpoint.
CuratedOf(ws) == CHOOSE n \in 0 .. Last :
                   /\ n = 0 \/ \E w \in ws : w[2] = n
                   /\ \A w \in ws : w[2] <= n
Checkpoint    == CuratedOf(windows)
NoPlan        == [records |-> {}, newest |-> <<>>]

Init ==
  /\ history \in Histories
  /\ top = 0 /\ rows = {} /\ text = [s \in Stores |-> {}]
  /\ windows = {} /\ sealed = [rows |-> {}, windows |-> {}]
  /\ kept = {} /\ past = 0 /\ looked = TRUE
  /\ table = {} /\ file = {}
  /\ locked = FALSE /\ at = "idle" /\ me = NoPlan
  /\ chance \in Budgets
-----------------------------------------------------------------------------
(* What may expire (plan, units).                                          *)

\* The windows joined where a recuration's range overlaps them.
Units ==
  LET starts == {w[1] : w \in {w \in windows : \A v \in windows : w[1] \notin v[1] + 1 .. v[2]}}
      ends   == {w[2] : w \in {w \in windows : \A v \in windows : w[2] \notin v[1] .. v[2] - 1}}
  IN  {u \in starts \X ends : u[1] <= u[2] /\ \A e \in ends : e >= u[1] => u[2] <= e}

Expiring(u) == {r \in Span(u) \cap Raw : r \notin Exempt}
SessionsOf(u) == {Session(r) : r \in Expiring(u)}

\* Rules 1 to 5 and 8 for one unit.
Fit(u) ==
  /\ \A r \in Expiring(u) : r <= past
  /\ \A s \in SessionsOf(u) : Newest(s) <= Checkpoint
  /\ Span(u) \cap kept = {}

\* The earlier units that share a session with one.
Earlier(u) == {v \in Units : v[2] < u[2] /\ SessionsOf(v) \cap SessionsOf(u) # {}}

EligibleUnordered == {u \in Units : Fit(u)}                             \* variation

\* Rule 6: a unit that stays keeps every later one that shares a session with it; the
\* units that go are the most of which each is fit and goes with its earlier ones.
Eligible == UNION {E \in SUBSET Units : \A u \in E : Fit(u) /\ Earlier(u) \subseteq E}
Planned == UNION {Expiring(u) : u \in Eligible}
-----------------------------------------------------------------------------
(* The pass (rows, pass).                                                  *)

\* A look, once a week: stamped first; with nothing to expire it ends.
Plan ==
  /\ at = "idle" /\ ~locked /\ table = {} /\ ~looked
  /\ looked' = TRUE
  /\ IF Planned = {}
     THEN UNCHANGED <<locked, at, me>>
     ELSE /\ locked' = TRUE /\ at' = "seal"
          /\ me' = [records |-> Planned,
                    newest |-> [s \in {Session(r) : r \in Planned} |-> Newest(s)]]
  /\ UNCHANGED <<world, text, table, file, chance>>

ResumeFile ==                                                           \* variation
  /\ at = "idle" /\ ~locked /\ file # {}
  /\ locked' = TRUE /\ at' = "file"
  /\ UNCHANGED <<world, text, looked, table, file, me, chance>>

\* A batch owed is finished first, whatever the setting says.
Resume ==
  /\ at = "idle" /\ ~locked /\ table # {}
  /\ locked' = TRUE /\ at' = "file"
  /\ UNCHANGED <<world, text, looked, table, file, me, chance>>

Exported ==
  /\ sealed' = [rows |-> sealed.rows \cup rows, windows |-> sealed.windows \cup windows]
  /\ text' = [text EXCEPT !["segments"] = @ \cup Raw]

SealNothing == at = "seal" /\ at' = "begin"                             \* variation
  /\ UNCHANGED <<world, text, looked, table, file, locked, me, chance>>

\* export_timed: nothing begins unless the backups have its records and their ops.
Seal ==
  /\ at = "seal"
  /\ Exported
  /\ at' = "begin"
  /\ UNCHANGED <<history, top, rows, windows, kept, past, looked, table, file, locked, me, chance>>

BeginAnyway ==                                                          \* variation
  /\ at = "begin" /\ table' = me.records /\ at' = "file"
  /\ UNCHANGED <<world, text, looked, file, locked, me, chance>>

\* begin_expiry: a session that moved since it was read waits for the next look.
Begin ==
  /\ at = "begin"
  /\ IF \E s \in DOMAIN me.newest : Newest(s) # me.newest[s]
     THEN at' = "idle" /\ locked' = FALSE /\ me' = NoPlan /\ UNCHANGED table
     ELSE at' = "file" /\ table' = me.records /\ UNCHANGED <<locked, me>>
  /\ UNCHANGED <<world, text, looked, file, chance>>

WriteLater == at = "file" /\ at' = "segments"                           \* variation
  /\ UNCHANGED <<world, text, looked, table, file, locked, me, chance>>

WriteFile ==
  /\ at = "file"
  /\ file' = table /\ at' = "segments"
  /\ UNCHANGED <<world, text, looked, table, locked, me, chance>>

ExpireSegments ==
  /\ at = "segments"
  /\ text' = [text EXCEPT !["segments"] = @ \ table]
  /\ at' = "copies"
  /\ UNCHANGED <<world, looked, table, file, locked, me, chance>>

\* Every expired record's row, and the owed ones': a restore makes copies after a sweep.
ExpireCopies ==
  /\ at = "copies"
  /\ text' = [text EXCEPT !["copies"] = @ \ (table \cup Expired)]
  /\ at' = "rows"
  /\ UNCHANGED <<world, looked, table, file, locked, me, chance>>

ExpireRows ==
  /\ at = "rows"
  /\ text' = [text EXCEPT !["raw"] = @ \ table, !["wal"] = @ \cup (Raw \ table)]
  /\ at' = "truncate"
  /\ UNCHANGED <<world, looked, table, file, locked, me, chance>>

\* A reader that keeps raw.db-wal from truncating leaves the batch owed.
Truncate ==
  /\ at = "truncate"
  /\ \/ text' = [text EXCEPT !["wal"] = {}] /\ at' = "rebuild" /\ UNCHANGED chance
     \/ Spend("busy") /\ at' = "idle" /\ UNCHANGED text
  /\ locked' = FALSE /\ me' = NoPlan
  /\ UNCHANGED <<world, looked, table, file>>

\* worker::rebuild takes the lock itself: the old knowledge.db aside, a new one indexed.
Rebuild ==
  /\ at = "rebuild" /\ ~locked
  /\ text' = [text EXCEPT !["knowledge"] = Raw, !["aside"] = @ \cup text["knowledge"]]
  /\ locked' = TRUE /\ at' = "rebuilt"
  /\ UNCHANGED <<world, looked, table, file, me, chance>>

RebuildEnds ==
  /\ at = "rebuilt"
  /\ locked' = FALSE /\ at' = "last"
  /\ UNCHANGED <<world, text, looked, table, file, me, chance>>

RemoveAside ==
  /\ at = "last" /\ ~locked
  /\ text' = [text EXCEPT !["aside"] = {}]
  /\ locked' = TRUE /\ at' = "clear"
  /\ UNCHANGED <<world, looked, table, file, me, chance>>

ClearTable ==
  /\ at = "clear"
  /\ table' = {} /\ at' = "remove"
  /\ UNCHANGED <<world, text, looked, file, locked, me, chance>>

RemoveFile ==
  /\ at = "remove"
  /\ file' = {} /\ at' = "idle" /\ locked' = FALSE
  /\ UNCHANGED <<world, text, looked, table, me, chance>>

\* Killed, or a step fails: the batch stays as far as it came.
Stops ==
  /\ at # "idle"
  /\ Spend("kill")
  /\ at' = "idle" /\ locked' = FALSE /\ me' = NoPlan
  /\ UNCHANGED <<world, text, looked, table, file>>
-----------------------------------------------------------------------------
(* What goes on beside a pass.                                             *)

\* A hook's capture waits for no lock a pass holds.
Capture ==
  /\ top < Last
  /\ top' = top + 1 /\ rows' = rows \cup {top'}
  /\ text' = [text EXCEPT !["raw"] = @ \cup {top'}, !["wal"] = @ \cup {top'}]
  /\ UNCHANGED <<history, windows, sealed, kept, past, looked, table, file, locked, at, me, chance>>

Ages ==
  /\ past < top /\ past' = past + 1
  /\ UNCHANGED <<history, top, rows, windows, sealed, kept, text, looked, table, file, locked, at, me, chance>>

WeekPasses ==
  /\ looked /\ looked' = FALSE
  /\ UNCHANGED <<world, text, table, file, locked, at, me, chance>>

\* The curator's next window; with a range, one curated again.
Curate ==
  /\ ~locked
  /\ \/ \E to \in Checkpoint + 1 .. top :
          windows' = windows \cup {<<Checkpoint + 1, to>>} /\ UNCHANGED chance
     \/ \E from \in 1 .. Checkpoint, to \in 1 .. Checkpoint :
          from <= to /\ Spend("recurate") /\ windows' = windows \cup {<<from, to>>}
  /\ UNCHANGED <<history, top, rows, sealed, kept, past, text, looked, table, file, locked, at, me>>

\* Queued for curation again, its turn kept back, its quote no longer reading; and over.
Keeps(r) ==
  /\ ~locked
  /\ \/ r \notin kept /\ Spend("keep") /\ kept' = kept \cup {r}
     \/ r \in kept /\ kept' = kept \ {r} /\ UNCHANGED chance
  /\ UNCHANGED <<history, top, rows, windows, sealed, past, text, looked, table, file, locked, at, me>>

Index ==
  /\ ~locked
  /\ text' = [text EXCEPT !["knowledge"] = @ \cup Raw]
  /\ UNCHANGED <<world, looked, table, file, locked, at, me, chance>>

Export ==
  /\ ~locked
  /\ Exported
  /\ UNCHANGED <<history, top, rows, windows, kept, past, looked, table, file, locked, at, me, chance>>

\* raw.db made again from the backups, the batch begun applied to it: the file's,
\* and the table's when the old raw.db still reads.
Restore(reads) ==
  /\ ~locked /\ Spend("restore")
  /\ LET owed == file \cup (IF reads THEN table ELSE {})
     IN  /\ table' = owed
         /\ text' = [text EXCEPT !["raw"] = text["segments"] \ owed, !["wal"] = {},
                                 !["copies"] = @ \cup Raw \cup text["wal"],
                                 !["aside"] = @ \cup text["knowledge"], !["knowledge"] = {}]
  /\ rows' = sealed.rows /\ windows' = sealed.windows
  /\ UNCHANGED <<history, top, sealed, kept, past, looked, file, locked, at, me>>

Pass ==
  \/ Plan \/ Resume \/ Seal \/ Begin \/ WriteFile \/ ExpireSegments \/ ExpireCopies
  \/ ExpireRows \/ Truncate \/ Rebuild \/ RebuildEnds \/ RemoveAside \/ ClearTable \/ RemoveFile

Next ==
  \/ Pass \/ Stops
  \/ Capture \/ Ages \/ WeekPasses \/ Curate \/ Index \/ Export
  \/ (\E r \in rows : Keeps(r))
  \/ (\E reads \in BOOLEAN : Restore(reads))

Spec     == Init /\ [][Next]_vars
FairSpec == Spec /\ WF_vars(Pass)
-----------------------------------------------------------------------------
TypeOK ==
  /\ history \in Histories
  /\ top \in 0 .. Last /\ past \in 0 .. top
  /\ rows \subseteq 1 .. top /\ Raw \subseteq rows
  /\ text \in [Stores -> SUBSET Events]
  /\ windows \subseteq Events \X Events
  /\ sealed \in [rows : SUBSET Events, windows : SUBSET (Events \X Events)]
  /\ kept \subseteq Events /\ table \subseteq Events /\ file \subseteq Events
  /\ looked \in BOOLEAN /\ locked \in BOOLEAN
  /\ at \in {"idle", "seal", "begin", "file", "segments", "copies", "rows", "truncate",
             "rebuild", "rebuilt", "last", "clear", "remove"}
  /\ me.records \subseteq Events /\ chance \in [Chances -> Nat]

\* Once a record has expired and its batch is no longer owed, no store holds its
\* text: no backup, copy of raw.db, -wal or copy of knowledge.db brings it back.
ExpiredIsGone ==
  \A r \in Expired \ (table \cup file) : \A s \in Stores : r \notin text[s]

\* What was made from an expired record is there still, a restore's raw.db too:
\* its text is gone, so no curation could make its claims again.
ClaimsStay == \A r \in Expired : \E w \in windows : r \in Span(w)

\* A session's expired records are always its first ones (docs/retention.md, rule
\* 6), which the transcript's recovery relies on.
OldestFirst ==
  \A r, q \in rows \ Exempt :
    Session(r) = Session(q) /\ r < q /\ q \in Expired => r \in Expired

\* A batch takes no part of a window, and no record of a session that has records
\* waiting for curation when it begins, whatever was captured since the plan.
BatchIsWhole ==
  [][table = {} /\ table' # {} /\ at' = "file" =>
       /\ \A w \in windows : Expiring(w) \subseteq table' \/ Expiring(w) \cap table' = {}
       /\ \A r \in table' : Newest(Session(r)) <= Checkpoint]_vars

\* A batch begun ends, whatever is killed or restored on the way.
BatchEnds == (table # {}) ~> (table = {})
=============================================================================
