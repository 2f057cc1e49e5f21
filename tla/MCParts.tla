------------------------------- MODULE MCParts -------------------------------
(* Instances for TLC of the parts that share no state with one another here:    *)
(* one behaviour is one part's, the others' variables rest.                     *)
EXTENDS Forget, Sequences, TLC

VARIABLES part,
          history, top, rows, text, windows, sealed, kept, past, looked, table, file,
          calls, usd, billed, down, pending, asked, moved, skipped, tried,
          clock, ends, marker, applied,
          marks, allowance, call, last, unchanged, seen, fresh, truth,
          ops, tombs, read, reached, derived, reader, plan

\* One event of each kind named.
Once(of, kinds) == [c \in of |-> IF c \in kinds THEN 1 ELSE 0]

ForgetBudgets == {Once(Chances, kinds) : kinds \in
  {{"kill", "restore"}, {"hand", "busy"}, {"aside", "busy"}}}

OfSessions(sessions, exempt) ==
  [r \in DOMAIN sessions |-> [session |-> sessions[r], exempt |-> r \in exempt]]
Captured == {OfSessions(<<1, 1>>, {}), OfSessions(<<1, 1>>, {1}), OfSessions(<<1, 2>>, {}),
             OfSessions(<<1, 2, 1>>, {})}
RetentionBudgets == {Once({"kill", "busy", "restore", "keep", "recurate"}, kinds) : kinds \in
  {{}, {"kill", "restore"}, {"keep", "recurate"}, {"restore", "recurate"},
   {"restore", "busy"}}}

CurationBudgets ==
  {Once({"kill", "probe", "rest", "change", "grow", "forget", "day", "month"}, kinds) : kinds \in
     {{"kill", "month"}, {"kill", "day"}, {"grow", "day"}, {"forget", "month"}, {"rest", "probe"},
      {"probe", "kill"}, {"kill", "change", "grow"}}}

Claim(uid, quotes, support, supersedes, siblings) ==
  [uid |-> uid, tier |-> 1, status |-> "decided", quotes |-> quotes,
   support |-> support, supersedes |-> supersedes, siblings |-> siblings]
OldClaim == <<Claim("old", {<<2, "b">>}, {}, {}, {})>>
NewClaim == <<Claim("new", {<<2, "a">>}, {1, 3}, {"old"}, {})>>
Pair == <<Claim("old", {<<2, "a">>, <<2, "b">>}, {}, {}, {}), Claim("new", {<<2, "c">>}, {3}, {}, {1})>>
SentAgain == <<Claim("new", {<<2, "b">>}, {3}, {}, {})>>
Says == {[uid |-> "new", status |-> "decided"], [uid |-> "new", status |-> "retracted"],
         [uid |-> "old", status |-> "retracted"]}
Whole(r) == [of |-> r, parts |-> {}, whole |-> TRUE]
Taken == {Whole(1), Whole(3), [of |-> 2, parts |-> {"a"}, whole |-> FALSE]}
Plan(sent, corrections, reads) ==
  [windows |-> sent, corrections |-> corrections, said |-> Says,
   removals |-> Taken, gone |-> 2, reads |-> reads]
ClaimPlans == {Plan(<<OldClaim, NewClaim>>, 2, FALSE), Plan(<<NewClaim, SentAgain>>, 1, FALSE),
               Plan(<<Pair, OldClaim>>, 1, FALSE), Plan(<<OldClaim, NewClaim>>, 1, TRUE),
               Plan(<<NewClaim>>, 1, TRUE)}

CONSTANTS h1, h2, h3, c1, c2

\* The parts, each with its proofs: PartsProofs applies them to these instances.
R == INSTANCE RetentionProofs WITH Histories <- Captured, Budgets <- RetentionBudgets
C == INSTANCE CurationProofs WITH Chain <- 2, Paid <- {2}, Cap <- 1, Daily <- 2, Windows <- 2,
                                  Budgets <- CurationBudgets
M == INSTANCE Marker WITH Hooks <- {h1, h2, h3}, Overlap <- 1, Latest <- 4
W == INSTANCE HealthProofs WITH Calls <- {c1, c2}, Still <- 1, Timeouts <- {2, 4}, MaxMarks <- 5,
                                Hooks <- {h1, h2, h3}, Overlap <- 1, Latest <- 4
K == INSTANCE ClaimsProofs WITH Plans <- ClaimPlans

forget    == <<held, job, logged, owes>>
retention == <<history, top, rows, text, windows, sealed, kept, past, looked, table, file>>
curation  == <<calls, usd, billed, down, pending, asked, moved, skipped, tried>>
failure   == <<clock, ends, marker, applied>>
watchdog  == <<marks, allowance, call, last, unchanged, seen, fresh, truth>>
claims    == <<ops, tombs, read, reached, derived, reader, plan>>
shared    == <<locked, at, me, chance>>
every     == <<part, forget, retention, curation, failure, watchdog, claims, shared>>

ForgetRests    == held = [s \in Stores |-> {}] /\ job = [j \in Jobs |-> 0] /\ logged = {} /\ owes = FALSE
RetentionRests == /\ history = <<>> /\ top = 0 /\ rows = {} /\ text = [raw |-> {}]
                  /\ windows = {} /\ sealed = {} /\ kept = {} /\ past = 0 /\ looked = TRUE
                  /\ table = {} /\ file = {}
CurationRests  == /\ calls = <<>> /\ usd = 0 /\ billed = 0 /\ down = <<0, 0>> /\ pending = C!NotHeld
                  /\ asked = [window |-> 3] /\ moved = FALSE /\ skipped = {} /\ tried = 0
FailureRests   == clock = 0 /\ ends = <<>> /\ marker = M!Missing /\ applied = {}
WatchdogRests  == /\ marks = 0 /\ allowance = 0 /\ call = <<>> /\ last = 0 /\ unchanged = 0
                  /\ seen = 0 /\ fresh = FALSE /\ truth = 0
ClaimsRest     == /\ ops = <<>> /\ tombs = <<>> /\ read = 0 /\ reached = 0 /\ derived = {}
                  /\ reader = 0 /\ plan = 0

AnyInit ==
  \/ /\ part = "forget" /\ Init
     /\ RetentionRests /\ CurationRests /\ FailureRests /\ WatchdogRests /\ ClaimsRest
  \/ /\ part = "retention" /\ R!Init
     /\ (Len(history) = 3) <=> \A c \in DOMAIN chance : chance[c] = 0
     /\ history # OfSessions(<<1, 1>>, {}) =>
          chance["busy"] = 0 /\ (chance["restore"] = 1 => chance["recurate"] = 0)
     /\ history = OfSessions(<<1, 2>>, {}) => chance["restore"] = 0
     /\ ForgetRests /\ CurationRests /\ FailureRests /\ WatchdogRests /\ ClaimsRest
  \/ /\ part = "curation" /\ C!Init /\ at = "idle" /\ locked = FALSE
     /\ ForgetRests /\ RetentionRests /\ FailureRests /\ WatchdogRests /\ ClaimsRest
  \/ /\ part = "marker" /\ M!Init /\ at = "idle" /\ locked = FALSE /\ me = 0 /\ chance = 0
     /\ ForgetRests /\ RetentionRests /\ CurationRests /\ WatchdogRests /\ ClaimsRest
  \/ /\ part = "watchdog" /\ W!Init /\ locked = FALSE /\ me = 0 /\ chance = 0
     /\ ForgetRests /\ RetentionRests /\ CurationRests /\ FailureRests /\ ClaimsRest
  \/ /\ part = "claims" /\ K!Init /\ at = "idle" /\ locked = FALSE /\ me = 0 /\ chance = 0
     /\ ForgetRests /\ RetentionRests /\ CurationRests /\ FailureRests /\ WatchdogRests

RestOfForget    == UNCHANGED <<part, retention, curation, failure, claims, watchdog>>
RestOfRetention == UNCHANGED <<part, forget, curation, failure, claims, watchdog>>
RestOfCuration  == UNCHANGED <<part, forget, retention, failure, claims, watchdog, locked, at>>

AnyNext ==
  \/ part = "forget" /\ Next /\ RestOfForget
  \/ part = "retention" /\ R!Next /\ RestOfRetention
  \/ part = "curation" /\ C!Next /\ RestOfCuration
  \/ part = "marker" /\ M!Next /\ UNCHANGED <<part, forget, retention, curation, watchdog, claims, shared>>
  \/ part = "watchdog" /\ W!Next
     /\ UNCHANGED <<part, forget, retention, curation, failure, claims, locked, me, chance>>
  \/ part = "claims" /\ K!Next
     /\ UNCHANGED <<part, forget, retention, curation, failure, watchdog, shared>>

\* Each part's own fairness.
Works == \/ part = "forget" /\ Purge /\ RestOfForget
         \/ part = "retention" /\ R!Pass /\ RestOfRetention
         \/ part = "curation" /\ C!Worker /\ RestOfCuration
AnySpec == /\ AnyInit /\ [][AnyNext]_every
           /\ WF_every(Works)
           /\ WF_every(part = "curation" /\ C!WaitEnds /\ RestOfCuration)

\* Every part's variables have their types.
Typed ==
  CASE part = "forget" -> TypeOK
    [] part = "retention" -> R!TypeOK
    [] part = "curation" -> C!TypeOK
    [] part = "marker" -> M!TypeOK
    [] part = "watchdog" -> W!TypeOK
    [] part = "claims" -> K!TypeOK

\* An expired record's text is in no store once its batch is over (src/retention.rs).
ExpiredIsGone  == part = "retention" => R!ExpiredIsGone

\* What was made from an expired record outlives it, in a restored raw.db too.
ClaimsStay     == part = "retention" => R!ClaimsStay

\* A session's expired records are always its first ones (retention's rule 6).
OldestFirst    == part = "retention" => R!OldestFirst

\* A batch begins with whole windows, of sessions that wait for no curation.
BatchIsWhole   == R!BatchIsWhole

\* A batch begun ends, killed or restored on the way (retention.rs, pass).
BatchEnds      == R!BatchEnds

\* The providers bill no more in a month than its cap (src/budget.rs).
PaidWithinCap  == part = "curation" => C!PaidWithinCap

\* Only the owner ends a hold that waits for the owner (budget.rs, settle).
HoldIsTheOwners == C!HoldIsTheOwners

\* A window is skipped after three failures of one request (curate.rs, run_phase).
SkippedAfterThree == C!SkippedAfterThree

\* Every window ends or waits for an entry of the chain (curate.rs, run_phase).
WindowEnds     == C!WindowEnds

\* The marker says what the write that ended last says (src/failure.rs).
MarkerIsLatest == part = "marker" => M!MarkerIsLatest

\* The watchdog stops only a loop that is stuck (src/watchdog.rs, watch).
AlarmIsTrue    == part = "watchdog" => W!AlarmIsTrue

\* The watchdog stops every loop that is stuck with no call out (src/watchdog.rs, watch).
StuckIsFound   == part = "watchdog" => W!StuckIsFound

\* A reader shows no claim that raw.db takes back, whichever consumer has reached what
\* (src/claims.rs, Pending).
ShownStands    == part = "claims" => K!ShownStands

\* Once the consumers have caught up, a rebuild finds the current claims there are, and those that
\* only an edge to a dropped sibling supersedes (src/consumer/claims.rs; docs/spec.md 1.7 says
\* that it finds identical claims).
CurrentAsRebuilt == part = "claims" => K!CurrentAsRebuilt
=============================================================================
