------------------------------ MODULE Curation ------------------------------
(***************************************************************************)
(* How a curation window is tried (src/curate.rs, run_phase; src/provider. *)
(* rs, Chain::run_report) and what its calls may cost (src/budget.rs): the *)
(* worker asks the chain's entries in order, each call reserved in the     *)
(* ledger before it leaves and settled after; the settings page's          *)
(* connection test calls the same entries beside it.  Either may be killed *)
(* with a call out.  A window that every entry fails is tried three times. *)
(* The ledger's rows are counted here, not kept; a call costs 1 at most.   *)
(***************************************************************************)
EXTENDS Naturals

CONSTANTS Chain,    \* the number of entries; they are asked in the order of their numbers
          Paid,     \* the entries that bill
          Cap,      \* paid_usd_per_month, in calls that cost the most they may
          Daily,    \* each entry's daily_budget
          Windows,  \* bound: how many windows there are
          Budgets   \* bound: how often each rare event may happen in one behaviour

Entries   == 1 .. Chain
Callers   == {"worker", "page"}
Chances   == {"kill", "probe", "rest", "change", "grow", "forget", "day", "month"}
Attempts  == 3
Up        == 0                   \* State::down_until: none,
Resting   == 1                   \* some time,
OwnerHold == 2                   \* until the owner acts

\* A window's request: its number, and how often it changed and grew (held_as).
Requests == [window : 1 .. Windows + 1, change : 0 .. 1, grown : 0 .. 1]

VARIABLES calls,    \* each entry's calls of the last day: settled, and still reserved
          usd,      \* the month's: settled, and still reserved
          billed,   \* what the providers bill for the month's calls
          down,     \* provider_state: each entry's rest
          pending,  \* the pending table's row of the window, its hold included
          asked,    \* the request the next window would make now
          moved,    \* whether the deny-list moved since the worker cut the window
          skipped,  \* the windows skipped
          me,       \* each caller's own variables
          tried,    \* how often the chain failed the request now asked, counted
          chance    \* what is left of the budget
ledger == <<calls, usd, billed>>
vars   == <<calls, usd, billed, down, pending, asked, moved, skipped, me, tried, chance>>

NotHeld  == [of |-> {}, tries |-> 0, waits |-> {}, due |-> TRUE]
Idle     == [at |-> "idle", entry |-> 1, again |-> FALSE, skips |-> {}, waits |-> {}, tries |-> 0,
             of |-> {}, room |-> FALSE,
             day |-> FALSE, month |-> FALSE]     \* whether its call counts in them still
Spend(c) == chance[c] > 0 /\ chance' = [chance EXCEPT ![c] = @ - 1]

Init ==
  /\ calls = [e \in Entries |-> [settled |-> 0, reserved |-> 0]]
  /\ usd = [settled |-> 0, reserved |-> 0] /\ billed = 0
  /\ down = [e \in Entries |-> Up]
  /\ pending = NotHeld
  /\ asked = [window |-> 1, change |-> 0, grown |-> 0]
  /\ moved = FALSE /\ skipped = {}
  /\ me = [c \in Callers |-> Idle]
  /\ tried = 0
  /\ chance \in Budgets
-----------------------------------------------------------------------------
(* The ledger (src/budget.rs, src/providers_db.rs).                        *)

Price(e) == IF e \in Paid THEN 1 ELSE 0
UsedSettled(e) == calls[e].settled                                       \* variation

Used(e)  == calls[e].settled + calls[e].reserved
Full(e)  == Used(e) >= Daily

\* admit: why entry e may not be called now; "admitted" when it may.
Admission(e) ==
  CASE down[e] = OwnerHold -> "Owner"
    [] down[e] = Resting -> "Wait"
    [] down[e] = Up /\ Full(e) -> IF calls[e].settled < Daily THEN "Wait" ELSE "Budget"
    [] down[e] = Up /\ ~Full(e) /\ usd.settled + usd.reserved + Price(e) > Cap ->
         IF usd.settled + Price(e) <= Cap THEN "Wait" ELSE "Budget"
    [] OTHER -> "admitted"

\* reserve, in one transaction: the call counts from here, at the most it may cost.
Reserve(c, e) ==
  /\ calls' = [calls EXCEPT ![e].reserved = @ + 1]
  /\ usd' = [usd EXCEPT !.reserved = @ + Price(e)]
  /\ me' = [me EXCEPT ![c].at = "gate", ![c].day = TRUE, ![c].month = TRUE]

Kept(b, n) == IF b THEN n ELSE 0

\* The reservation is no longer one: settled it counts, at its cost; else not at all.
Release(c, settles, cost) ==
  LET e == me[c].entry
  IN  /\ calls' = [calls EXCEPT ![e].reserved = @ - Kept(me[c].day, 1),
                                ![e].settled = @ + Kept(me[c].day /\ settles, 1)]
      /\ usd' = [reserved |-> usd.reserved - Kept(me[c].month, Price(e)),
                 settled |-> usd.settled + Kept(me[c].month, cost)]

RestedAgain(c, rest) == down' = [down EXCEPT ![me[c].entry] = rest]         \* variation

\* settle: an answer shortens no rest that another caller's brought meanwhile.
Rested(c, rest) == down' = [down EXCEPT ![me[c].entry] = IF rest > @ THEN rest ELSE @]
-----------------------------------------------------------------------------
(* One call of the chain, or of the page's connection test (probe).        *)

Timed == {"Wait", "Budget"}
NextEntry(c, why) == [Idle EXCEPT !.at = "try", !.entry = me[c].entry + 1, !.of = me[c].of,
                                  !.tries = me[c].tries, !.skips = me[c].skips \cup {why},
                                  !.waits = me[c].waits \cup {e \in {me[c].entry} : why \in Timed}]
Passed(c, why) == me' = [me EXCEPT ![c] = IF c = "worker" THEN NextEntry(c, why) ELSE Idle]

Try(c) ==
  /\ me[c].at = "try" /\ me[c].entry <= Chain
  /\ LET why == Admission(me[c].entry)
     IN  IF why = "admitted"
         THEN Reserve(c, me[c].entry)
         ELSE Passed(c, why) /\ UNCHANGED <<calls, usd>>
  /\ UNCHANGED <<billed, down, pending, asked, moved, skipped, tried, chance>>

\* The egress gate; a deny-list that moved ends the pass with nothing counted.
Gate(c) ==
  /\ me[c].at = "gate"
  /\ IF c = "worker" /\ moved
     THEN me' = [me EXCEPT ![c] = Idle] /\ Release(c, FALSE, 0)
     ELSE /\ me' = [me EXCEPT ![c].at = "out", ![c].room = ~Full(me[c].entry)]
          /\ UNCHANGED <<calls, usd>>
  /\ UNCHANGED <<billed, down, pending, asked, moved, skipped, tried, chance>>

\* What the provider makes of the call, and bills: an answer the caller can use or
\* not, an HTTP error, which is not billed, or one that never comes back.
Answers(c) == {a \in {"ok", "unanchored", "invalid", "http", "lost"} \X (0 .. Price(me[c].entry)) :
                 a[1] = "http" => a[2] = 0}

CostsOfAnswers(c, a) == IF a[1] \in {"http", "lost"} THEN {0} ELSE {a[2]}   \* variation

\* cost: what the answer reports, else the bound of the reservation.
Costs(c, a) == CASE a[1] = "http" -> {0}
                 [] a[1] = "lost" -> {Price(me[c].entry)}
                 [] OTHER -> {a[2], Price(me[c].entry)}

\* The rests an answer may bring: a cooldown or the breaker's, an owner's hold.
Rests(a) == IF a[1] = "lost" THEN {Resting, OwnerHold} ELSE {Up, Resting, OwnerHold}

Answered(c) ==
  /\ me[c].at = "out"
  /\ \E a \in Answers(c) : \E cost \in Costs(c, a), rest \in Rests(a) :
       /\ billed' = billed + Kept(me[c].month, a[2])
       /\ Release(c, TRUE, cost)
       /\ Rested(c, rest)
       /\ IF rest = Up THEN UNCHANGED chance ELSE Spend("rest")
       /\ IF a[1] # "ok"
          THEN Passed(c, CASE down'[me[c].entry] = OwnerHold -> "Owner"
                           [] down'[me[c].entry] = Resting -> "Wait"
                           [] down'[me[c].entry] = Up /\ a[1] = "unanchored" -> "Refused"
                           [] OTHER -> "Failed")
          ELSE me' = [me EXCEPT ![c] = IF c = "worker"
                                       THEN [Idle EXCEPT !.at = "cover", !.of = me[c].of] ELSE Idle]
  /\ UNCHANGED <<pending, asked, moved, skipped, tried>>

\* A 429 that names a short wait, or a refused reasoning switch: settled, then the
\* budget and the gate once more, when the day had room before the call.
Again(c) ==
  /\ me[c].at = "out" /\ me[c].room /\ ~me[c].again
  /\ Release(c, TRUE, 0)
  /\ me' = [me EXCEPT ![c] = [@ EXCEPT !.at = "try", !.again = TRUE]]
  /\ UNCHANGED <<billed, down, pending, asked, moved, skipped, tried, chance>>

Probe(e) ==
  /\ me["page"].at = "idle" /\ Spend("probe")
  /\ me' = [me EXCEPT !["page"] = [Idle EXCEPT !.at = "try", !.entry = e]]
  /\ UNCHANGED <<ledger, down, pending, asked, moved, skipped, tried>>

\* The process ends, perhaps with its call out, which may be billed.
Killed(c) ==
  /\ me[c].at # "idle"
  /\ Spend("kill")
  /\ \E cost \in 0 .. Kept(me[c].at = "out" /\ me[c].month, Price(me[c].entry)) : billed' = billed + cost
  /\ me' = [me EXCEPT ![c] = Idle]
  /\ UNCHANGED <<calls, usd, down, pending, asked, moved, skipped, tried>>
-----------------------------------------------------------------------------
(* The phase: the next window, tried, waited on, covered or skipped.       *)

SameWindow == \E q \in pending.of : q.window = asked.window             \* variation

Same == pending.of = {asked}

\* A held window that only grew keeps its hold.
Grown == \E q \in pending.of : /\ q.window = asked.window /\ q.change = asked.change
                               /\ q.grown < asked.grown

ReadOnce == UNCHANGED moved                                            \* variation

\* The deny-list as it is now; each call, and the window op, holds to this reading.
ReadNow == moved' = FALSE

\* run_phase: the window is cut anew, and what is pending counts only for this request.
Cut ==
  /\ me["worker"].at = "idle" /\ asked.window <= Windows
  /\ pending.due \/ ~(Same \/ Grown)
  /\ me' = [me EXCEPT !["worker"] = [Idle EXCEPT !.at = "try", !.of = {asked},
                                      !.tries = IF Same THEN pending.tries ELSE 0]]
  /\ ReadNow
  /\ UNCHANGED <<ledger, down, pending, asked, skipped, tried, chance>>

\* hold: the try counts when an answer was refused for its quotes alone (the window is
\* tried again at once), or when an entry was tried and none waits on time or a budget.
Counts(skips) == "Refused" \in skips \/ ("Failed" \in skips /\ skips \cap Timed = {})

Failed ==
  /\ me["worker"].at = "try" /\ me["worker"].entry > Chain
  /\ LET counted == Kept(Counts(me["worker"].skips), 1)
         tries == me["worker"].tries + counted
     IN  /\ tried' = tried + Kept(me["worker"].of = {asked} /\ tried < Attempts, counted)
         /\ IF tries >= Attempts
            THEN me' = [me EXCEPT !["worker"].at = "skip"] /\ UNCHANGED pending
            ELSE /\ pending' = [of |-> me["worker"].of, tries |-> tries, waits |-> me["worker"].waits,
                                due |-> "Refused" \in me["worker"].skips]
                 /\ me' = [me EXCEPT !["worker"] = Idle]
  /\ UNCHANGED <<ledger, down, asked, moved, skipped, chance>>

\* cover: the window op, unless the deny-list moved; the next window is another request.
Cover ==
  /\ me["worker"].at \in {"cover", "skip"}
  /\ IF moved
     THEN me' = [me EXCEPT !["worker"] = Idle] /\ UNCHANGED <<skipped, asked, tried>>
     ELSE /\ skipped' = skipped \cup {w \in {asked.window} : me["worker"].at = "skip"}
          /\ asked' = [window |-> asked.window + 1, change |-> 0, grown |-> 0]
          /\ tried' = 0
          /\ me' = [me EXCEPT !["worker"] = [Idle EXCEPT !.at = "clear"]]
  /\ UNCHANGED <<ledger, down, pending, moved, chance>>

ClearPending ==
  /\ me["worker"].at = "clear"
  /\ pending' = NotHeld
  /\ me' = [me EXCEPT !["worker"] = Idle]
  /\ UNCHANGED <<ledger, down, asked, moved, skipped, tried, chance>>
-----------------------------------------------------------------------------
(* What goes on beside them: the owner, the hooks, forgets and the clock.  *)

\* New rules, another language or chain: another request for the same records.
Changes ==
  /\ Spend("change") /\ asked.change = 0 /\ asked' = [asked EXCEPT !.change = 1]
  /\ tried' = 0
  /\ UNCHANGED <<ledger, down, pending, moved, skipped, me>>

Grows ==
  /\ Spend("grow") /\ asked.grown = 0 /\ asked' = [asked EXCEPT !.grown = 1]
  /\ tried' = 0
  /\ UNCHANGED <<ledger, down, pending, moved, skipped, me>>

Forgets ==
  /\ Spend("forget") /\ moved' = TRUE
  /\ UNCHANGED <<ledger, down, pending, asked, skipped, me, tried>>

\* `oboete resume`, or a key saved.
Resume(e) ==
  /\ down[e] # Up /\ down' = [down EXCEPT ![e] = Up]
  /\ pending' = [pending EXCEPT !.due = @ \/ pending.waits = {}]
  /\ UNCHANGED <<ledger, asked, moved, skipped, me, tried, chance>>

RestEnds(e) ==
  /\ down[e] = Resting /\ down' = [down EXCEPT ![e] = Up]
  /\ UNCHANGED <<ledger, pending, asked, moved, skipped, me, tried, chance>>

\* The time set for the next try comes: a plain one, when an entry may be asked again,
\* or, where a call still reserved keeps it from that, some minutes later.
WaitEnds ==
  /\ ~pending.due
  /\ pending.waits = {} \/ \E e \in pending.waits :
       Admission(e) = "admitted" \/ (down[e] = Up /\ Admission(e) = "Wait")
  /\ pending' = [pending EXCEPT !.due = TRUE]
  /\ UNCHANGED <<ledger, down, asked, moved, skipped, me, tried, chance>>

\* An entry's calls leave the rolling day they count in (together here).
DayPasses(e) ==
  /\ Used(e) > 0 /\ Spend("day")
  /\ calls' = [calls EXCEPT ![e] = [settled |-> 0, reserved |-> 0]]
  /\ me' = [c \in Callers |-> IF me[c].entry = e THEN [me[c] EXCEPT !.day = FALSE] ELSE me[c]]
  /\ UNCHANGED <<usd, billed, down, pending, asked, moved, skipped, tried>>

\* A month later every day's call, every rest and every wait is over too.
MonthTurns ==
  /\ Spend("month")
  /\ calls' = [e \in Entries |-> [settled |-> 0, reserved |-> 0]]
  /\ usd' = [settled |-> 0, reserved |-> 0] /\ billed' = 0
  /\ me' = [c \in Callers |-> [me[c] EXCEPT !.day = FALSE, !.month = FALSE]]
  /\ down' = [e \in Entries |-> IF down[e] = Resting THEN Up ELSE down[e]]
  /\ pending' = [pending EXCEPT !.due = TRUE]
  /\ UNCHANGED <<asked, moved, skipped, tried>>

Step(c) == Try(c) \/ Gate(c) \/ Answered(c) \/ Again(c)
Worker  == Cut \/ Step("worker") \/ Failed \/ Cover \/ ClearPending

Next ==
  \/ Worker \/ Step("page")
  \/ (\E e \in Entries : Probe(e) \/ Resume(e) \/ RestEnds(e) \/ DayPasses(e))
  \/ (\E c \in Callers : Killed(c))
  \/ Changes \/ Grows \/ Forgets
  \/ WaitEnds \/ MonthTurns

Spec     == Init /\ [][Next]_vars
FairSpec == Spec /\ WF_vars(Worker) /\ WF_vars(WaitEnds)
-----------------------------------------------------------------------------
TypeOK ==
  /\ calls \in [Entries -> [settled : 0 .. Daily, reserved : 0 .. Daily]]
  /\ usd \in [settled : 0 .. Cap, reserved : 0 .. Cap] /\ billed \in Nat
  /\ down \in [Entries -> {Up, Resting, OwnerHold}]
  /\ pending.of \subseteq Requests /\ pending.tries \in 0 .. Attempts - 1
  /\ asked \in Requests /\ moved \in BOOLEAN /\ skipped \subseteq 1 .. Windows
  /\ \A c \in Callers : me[c].of \subseteq Requests /\ me[c].tries \in 0 .. Attempts - 1
  /\ tried \in 0 .. Attempts /\ chance \in [Chances -> Nat]

\* What the providers bill for a month's calls is never over the month's cap, whoever
\* calls at once, whichever call is killed, unanswered or asked twice.
PaidWithinCap == billed <= Cap

\* A hold that waits for the owner is ended by the owner alone, not by the answer of
\* a call that was out when it was set.
HoldIsTheOwners ==
  [][\A e \in Entries : down[e] = OwnerHold /\ down'[e] # OwnerHold => Resume(e)]_vars

\* A window is skipped only once the chain failed this very request three times; a
\* request that changed since its pass was cut may be one try short of its own.
SkippedAfterThree ==
  [][skipped' # skipped /\ me["worker"].of = {asked} => tried = Attempts]_vars

Waits == pending.waits # {} \/ \E e \in Entries : down[e] = OwnerHold

\* Every window is curated or skipped in the end, or an entry makes it wait: for its
\* rest, its budget or the owner.  No kill, change or forget holds the later windows.
WindowEnds == \A w \in 1 .. Windows : (asked.window = w) ~> (asked.window > w \/ Waits)
=============================================================================
