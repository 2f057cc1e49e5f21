--------------------------- MODULE CurationProofs ---------------------------
(***************************************************************************)
(* What TLAPS proves of Curation.tla: for any chain, prices, budgets and   *)
(* cap, a month's bill is never over the cap, a hold that waits for the    *)
(* owner is ended by the owner, a window is skipped after three tries, and *)
(* the types: no day's calls pass the day's budget.                        *)
(***************************************************************************)
EXTENDS Curation, TLAPS

Bounded == Cap \in Nat /\ Chain \in Nat

Positive == Nat \ {0}
Reqs     == [window : Nat, change : 0 .. 1, grown : 0 .. 1]
Mine     ==
        [at : {"idle", "try", "gate", "out", "cover", "skip", "clear"}, entry : Positive,
         again : BOOLEAN, skips : SUBSET {"Owner", "Wait", "Budget", "Refused", "Failed"},
         waits : SUBSET Nat, tries : Nat, of : SUBSET Reqs, room : BOOLEAN,
         day : BOOLEAN, month : BOOLEAN]        \* the type of me[c]

\* What a caller's call may still cost the month.
Held(c) == IF me[c].at \in {"gate", "out"} /\ me[c].month THEN Price(me[c].entry) ELSE 0

\* Each call out is reserved in full, what was billed is settled, and both fit the cap.
MoneyOK ==
  /\ usd \in [settled : Nat, reserved : Nat] /\ billed \in Nat
  /\ Held("worker") + Held("page") <= usd.reserved
  /\ billed + Held("worker") + Held("page") <= usd.settled + usd.reserved
  /\ usd.settled + usd.reserved <= Cap

TypesOK ==
  /\ me \in [Callers -> Mine]
  /\ asked \in Reqs /\ pending.of \subseteq Reqs /\ pending.tries \in Nat
  /\ down \in [Entries -> {Up, Resting, OwnerHold}]

\* A call costs 1 or nothing, and so does what is held for it.
LEMMA PriceType == \A e : Price(e) \in {0, 1}
  BY DEF Price

LEMMA HeldType == \A c \in Callers : Held(c) \in {0, 1}
  BY PriceType DEF Held

\* A call that is no longer out: at its cost, or billed for all it may cost at most.
LEMMA ReleaseKeeps ==
  ASSUME Bounded, MoneyOK, NEW c \in Callers, NEW settles \in BOOLEAN,
         NEW cost \in 0 .. Price(me[c].entry), NEW b \in 0 .. cost, me[c].at \in {"gate", "out"},
         me[c].month \in BOOLEAN,
         Release(c, settles, cost), billed' = billed + Kept(me[c].month, b),
         me'[c].at \notin {"gate", "out"}, \A d \in Callers \ {c} : me'[d] = me[d]
  PROVE  MoneyOK'
<1> DEFINE p == Price(me[c].entry)
<1>1. p \in {0, 1} /\ cost \in Nat /\ b \in Nat /\ b <= cost /\ cost <= p
  BY PriceType
<1>2. /\ usd'.reserved = usd.reserved - Kept(me[c].month, p)
      /\ usd'.settled = usd.settled + Kept(me[c].month, cost)
      /\ usd' = [reserved |-> usd'.reserved, settled |-> usd'.settled]
  BY DEF Release
<1>3. Held(c) = Kept(me[c].month, p) /\ Held(c)' = 0
  BY DEF Held, Kept
<1>4. \A d \in Callers \ {c} : Held(d)' = Held(d)
  BY DEF Held, Price
<1>5. Held("worker") \in {0, 1} /\ Held("page") \in {0, 1}
  BY HeldType DEF Callers
<1>6. \/ Held("worker") = Held(c) /\ Held("worker")' = 0 /\ Held("page")' = Held("page")
      \/ Held("page") = Held(c) /\ Held("page")' = 0 /\ Held("worker")' = Held("worker")
  BY <1>3, <1>4 DEF Callers
<1> HIDE DEF p
<1>7. CASE me[c].month
  <2>1. /\ usd'.reserved = usd.reserved - p /\ usd'.settled = usd.settled + cost
        /\ billed' = billed + b /\ Held(c) = p
    BY <1>2, <1>3, <1>7 DEF Kept
  <2>2. usd.reserved \in Nat /\ usd.settled \in Nat /\ billed \in Nat
    BY DEF MoneyOK
  <2>3. p <= usd.reserved
    BY <1>1, <1>5, <1>6, <2>1, <2>2 DEF MoneyOK
  <2>4. usd' \in [settled : Nat, reserved : Nat] /\ billed' \in Nat
    BY <1>1, <1>2, <2>1, <2>2, <2>3
  <2>5. QED
    BY <1>1, <1>5, <1>6, <2>1, <2>2, <2>3, <2>4 DEF MoneyOK, Bounded
<1>8. CASE ~me[c].month
  <2>1. /\ usd'.reserved = usd.reserved - 0 /\ usd'.settled = usd.settled + 0
        /\ billed' = billed + 0 /\ Held(c) = 0
    BY <1>2, <1>3, <1>8 DEF Kept
  <2>2. usd.reserved \in Nat /\ usd.settled \in Nat /\ billed \in Nat
    BY DEF MoneyOK
  <2>3. usd' \in [settled : Nat, reserved : Nat] /\ billed' \in Nat
    BY <1>2, <2>1, <2>2
  <2>4. QED
    BY <1>5, <1>6, <2>1, <2>2, <2>3 DEF MoneyOK, Bounded
<1>9. QED
  BY <1>7, <1>8

\* Nothing of the month changes, and no call goes out.
LEMMA FrameKeeps ==
  ASSUME MoneyOK, UNCHANGED <<usd, billed>>, \A c \in Callers : Held(c)' = 0 \/ Held(c)' = Held(c)
  PROVE  MoneyOK'
<1>1. Held("worker") \in {0, 1} /\ Held("page") \in {0, 1}
  BY HeldType DEF Callers
<1>2. /\ Held("worker")' = 0 \/ Held("worker")' = Held("worker")
      /\ Held("page")' = 0 \/ Held("page")' = Held("page")
  BY DEF Callers
<1>3. QED
  BY <1>1, <1>2 DEF MoneyOK

-----------------------------------------------------------------------------
\* What a caller's own variables become.
LEMMA MineKept ==
  ASSUME me \in [Callers -> Mine], NEW c \in Callers, NEW mine \in Mine
  PROVE  [me EXCEPT ![c] = mine] \in [Callers -> Mine]
  OBVIOUS

LEMMA IdleType == Idle \in Mine
  BY DEF Idle, Mine, Positive

LEMMA AdmissionType == \A e : Admission(e) \in {"Owner", "Wait", "Budget", "admitted"}
  BY DEF Admission

\* The next entry, or the end of a connection test.
LEMMA PassedType ==
  ASSUME me \in [Callers -> Mine], NEW c \in Callers,
         NEW why \in {"Owner", "Wait", "Budget", "Refused", "Failed"}, Passed(c, why)
  PROVE  me' \in [Callers -> Mine] /\ me'[c].at \in {"idle", "try"}
         /\ \A d \in Callers \ {c} : me'[d] = me[d]
<1>1. NextEntry(c, why) \in Mine /\ NextEntry(c, why).at = "try"
  <2>1. me[c] \in Mine
    OBVIOUS
  <2>2. /\ me[c].entry + 1 \in Positive /\ me[c].of \in SUBSET Reqs /\ me[c].tries \in Nat
        /\ me[c].skips \cup {why} \in SUBSET {"Owner", "Wait", "Budget", "Refused", "Failed"}
        /\ me[c].waits \cup {e \in {me[c].entry} : why \in Timed} \in SUBSET Nat
    BY <2>1 DEF Mine, Positive
  <2>3. 1 \in Positive
    BY DEF Positive
  <2>4. QED
    BY <2>2, <2>3 DEF NextEntry, Idle, Mine
<1>2. Idle \in Mine /\ Idle.at = "idle"
  BY IdleType DEF Idle
<1>3. PICK mine \in {NextEntry(c, why), Idle} : me' = [me EXCEPT ![c] = mine]
  BY DEF Passed
<1>4. QED
  BY <1>1, <1>2, <1>3

\* An answer shortens no rest.
LEMMA RestedType ==
  ASSUME down \in [Entries -> {Up, Resting, OwnerHold}], NEW c \in Callers,
         NEW rest \in {Up, Resting, OwnerHold}, Rested(c, rest)
  PROVE  /\ down' \in [Entries -> {Up, Resting, OwnerHold}]
         /\ \A e \in Entries : down[e] = OwnerHold => down'[e] = OwnerHold
<1>1. down' = [down EXCEPT ![me[c].entry] = IF rest > down[me[c].entry]
                                            THEN rest ELSE down[me[c].entry]]
  BY DEF Rested
<1>2. ASSUME NEW e \in Entries
      PROVE  /\ down'[e] \in {Up, Resting, OwnerHold}
             /\ down[e] = OwnerHold => down'[e] = OwnerHold
  <2>1. down'[e] = down[e] \/ (down'[e] = rest /\ rest > down[e])
    BY <1>1
  <2>2. down[e] \in {Up, Resting, OwnerHold}
    OBVIOUS
  <2>3. QED
    BY <2>1, <2>2 DEF Up, Resting, OwnerHold
<1>3. QED
  BY <1>1, <1>2

\* An entry asked: reserved within the cap, or passed.
LEMMA TryKeeps ==
  ASSUME Bounded, TypesOK, MoneyOK, NEW c \in Callers, Try(c)
  PROVE  TypesOK' /\ MoneyOK'
<1>0. me[c] \in Mine /\ me[c].at = "try" /\ Held(c) = 0
  BY DEF TypesOK, Try, Held
<1>1. CASE Admission(me[c].entry) = "admitted"
  <2>1. Reserve(c, me[c].entry) /\ UNCHANGED <<billed, down, pending, asked>>
    BY <1>1 DEF Try
  <2>2. PICK mine \in Mine : /\ me' = [me EXCEPT ![c] = mine]
                             /\ mine = [me[c] EXCEPT !.at = "gate", !.day = TRUE, !.month = TRUE]
    <3>1. [me[c] EXCEPT !.at = "gate", !.day = TRUE, !.month = TRUE] \in Mine
      BY <1>0 DEF Mine
    <3>2. me' = [me EXCEPT ![c] = [me[c] EXCEPT !.at = "gate", !.day = TRUE, !.month = TRUE]]
      BY <2>1 DEF Reserve
    <3>3. QED
      BY <3>1, <3>2
  <2>3. TypesOK'
    BY <2>1, <2>2 DEF TypesOK
  <2>4. Held(c)' = Price(me[c].entry) /\ \A d \in Callers \ {c} : Held(d)' = Held(d)
    <3>1. me'[c].at = "gate" /\ me'[c].month = TRUE /\ me'[c].entry = me[c].entry
      BY <1>0, <2>2 DEF TypesOK, Mine
    <3>2. \A d \in Callers \ {c} : me'[d] = me[d]
      BY <2>2 DEF TypesOK
    <3>3. QED
      BY <3>1, <3>2 DEF Held, Price
  <2>5. /\ usd'.reserved = usd.reserved + Price(me[c].entry) /\ usd'.settled = usd.settled
        /\ usd' = [usd EXCEPT !.reserved = @ + Price(me[c].entry)]
    BY <2>1 DEF Reserve, MoneyOK
  <2>6. usd.settled + usd.reserved + Price(me[c].entry) <= Cap
    <3> DEFINE e == me[c].entry
    <3>1. e \in Entries /\ down[e] \in {Up, Resting, OwnerHold}
      BY <1>0 DEF Try, Entries, Mine, Positive, Bounded, TypesOK
    <3>2. usd.settled \in Nat /\ usd.reserved \in Nat /\ Price(e) \in {0, 1}
      BY PriceType DEF MoneyOK
    <3> HIDE DEF e
    <3>3. Admission(e) = "admitted"
      BY <1>1 DEF e
    <3>4. usd.settled + usd.reserved + Price(e) <= Cap
      BY <3>1, <3>2, <3>3 DEF Admission, Bounded, Up, Resting, OwnerHold
    <3>5. QED
      BY <3>4 DEF e
  <2>7. Price(me[c].entry) \in {0, 1} /\ Held("worker") \in {0, 1} /\ Held("page") \in {0, 1}
    BY PriceType, HeldType DEF Callers
  <2>8. \/ /\ Held("worker") = 0 /\ Held("worker")' = Price(me[c].entry)
           /\ Held("page")' = Held("page")
        \/ /\ Held("page") = 0 /\ Held("page")' = Price(me[c].entry)
           /\ Held("worker")' = Held("worker")
    BY <1>0, <2>4 DEF Callers
  <2>9. MoneyOK'
    BY <2>1, <2>5, <2>6, <2>7, <2>8 DEF MoneyOK, Bounded
  <2>10. QED
    BY <2>3, <2>9
<1>2. CASE Admission(me[c].entry) # "admitted"
  <2>1. Passed(c, Admission(me[c].entry)) /\ UNCHANGED <<usd, billed, down, pending, asked>>
    BY <1>2 DEF Try
  <2>2. /\ me' \in [Callers -> Mine] /\ me'[c].at \in {"idle", "try"}
        /\ \A d \in Callers \ {c} : me'[d] = me[d]
    BY <1>2, <2>1, AdmissionType, PassedType DEF TypesOK
  <2>3. \A d \in Callers : Held(d)' = 0 \/ Held(d)' = Held(d)
    BY <2>2 DEF Held, Price
  <2>4. QED
    BY <2>1, <2>2, <2>3, FrameKeeps DEF TypesOK
<1>3. QED
  BY <1>1, <1>2

\* The gate: the reservation goes back, or the call goes out.
LEMMA GateKeeps ==
  ASSUME Bounded, TypesOK, MoneyOK, NEW c \in Callers, Gate(c)
  PROVE  TypesOK' /\ MoneyOK'
<1>0. me[c] \in Mine /\ me[c].at = "gate"
  BY DEF TypesOK, Gate
<1>1. CASE c = "worker" /\ moved
  <2>1. /\ me' = [me EXCEPT ![c] = Idle] /\ Release(c, FALSE, 0)
        /\ UNCHANGED <<billed, down, pending, asked>>
    BY <1>1 DEF Gate
  <2>2. TypesOK'
    BY <2>1, IdleType DEF TypesOK
  <2>3. me'[c].at = "idle" /\ \A d \in Callers \ {c} : me'[d] = me[d]
    BY <2>1 DEF TypesOK, Idle
  <2>4. billed' = billed + Kept(me[c].month, 0)
    BY <2>1 DEF Kept, MoneyOK
  <2>5. me[c].month \in BOOLEAN /\ 0 \in 0 .. Price(me[c].entry) /\ 0 \in 0 .. 0
    BY <1>0, PriceType DEF Mine
  <2>6. MoneyOK'
    BY <1>0, <2>1, <2>3, <2>4, <2>5, ReleaseKeeps
  <2>7. QED
    BY <2>2, <2>6
<1>2. CASE ~(c = "worker" /\ moved)
  <2>1. /\ me' = [me EXCEPT ![c] = [me[c] EXCEPT !.at = "out", !.room = ~Full(me[c].entry)]]
        /\ UNCHANGED <<usd, billed, down, pending, asked>>
    BY <1>2 DEF Gate
  <2>2. \A room \in BOOLEAN : [me[c] EXCEPT !.at = "out", !.room = room] \in Mine
    BY <1>0 DEF Mine
  <2>3. PICK room \in BOOLEAN : me' = [me EXCEPT ![c] = [me[c] EXCEPT !.at = "out", !.room = room]]
    <3>1. (~Full(me[c].entry)) \in BOOLEAN
      OBVIOUS
    <3>2. QED
      BY <2>1, <3>1, Zenon
  <2>4. TypesOK'
    BY <2>1, <2>2, <2>3 DEF TypesOK
  <2>5. me'[c].at = "out" /\ me'[c].month = me[c].month /\ me'[c].entry = me[c].entry
    BY <1>0, <2>3 DEF TypesOK, Mine
  <2>6. \A d \in Callers \ {c} : me'[d] = me[d]
    BY <2>1 DEF TypesOK
  <2>7. \A d \in Callers : Held(d)' = 0 \/ Held(d)' = Held(d)
    BY <1>0, <2>5, <2>6 DEF Held, Price
  <2>8. QED
    BY <2>1, <2>4, <2>7, FrameKeeps
<1>3. QED
  BY <1>1, <1>2

\* An answer settles the call at no less than it is billed.
LEMMA AnsweredKeeps ==
  ASSUME Bounded, TypesOK, MoneyOK, NEW c \in Callers, Answered(c)
  PROVE  /\ TypesOK' /\ MoneyOK'
         /\ \A e \in Entries : down[e] = OwnerHold => down'[e] = OwnerHold
<1>0. me[c] \in Mine /\ me[c].at = "out"
  BY DEF TypesOK, Answered
<1>1. PICK a \in Answers(c) : \E cost \in Costs(c, a), rest \in Rests(a) :
        /\ billed' = billed + Kept(me[c].month, a[2])
        /\ Release(c, TRUE, cost)
        /\ Rested(c, rest)
        /\ IF a[1] # "ok"
           THEN Passed(c, CASE down'[me[c].entry] = OwnerHold -> "Owner"
                            [] down'[me[c].entry] = Resting -> "Wait"
                            [] down'[me[c].entry] = Up /\ a[1] = "unanchored" -> "Refused"
                            [] OTHER -> "Failed")
           ELSE me' = [me EXCEPT ![c] =
                          IF c = "worker" THEN [Idle EXCEPT !.at = "cover", !.of = me[c].of]
                          ELSE Idle]
  BY DEF Answered
<1>2. PICK cost \in Costs(c, a), rest \in Rests(a) :
        /\ billed' = billed + Kept(me[c].month, a[2])
        /\ Release(c, TRUE, cost)
        /\ Rested(c, rest)
        /\ IF a[1] # "ok"
           THEN Passed(c, CASE down'[me[c].entry] = OwnerHold -> "Owner"
                            [] down'[me[c].entry] = Resting -> "Wait"
                            [] down'[me[c].entry] = Up /\ a[1] = "unanchored" -> "Refused"
                            [] OTHER -> "Failed")
           ELSE me' = [me EXCEPT ![c] =
                          IF c = "worker" THEN [Idle EXCEPT !.at = "cover", !.of = me[c].of]
                          ELSE Idle]
  BY <1>1
<1>3. /\ a[1] \in {"ok", "unanchored", "invalid", "http", "lost"}
      /\ a[2] \in 0 .. Price(me[c].entry) /\ (a[1] = "http" => a[2] = 0)
  BY DEF Answers
<1>4. cost \in 0 .. Price(me[c].entry) /\ a[2] \in 0 .. cost
  BY <1>3, PriceType DEF Costs
<1>5. rest \in {Up, Resting, OwnerHold}
  BY DEF Rests
<1>6. /\ down' \in [Entries -> {Up, Resting, OwnerHold}]
      /\ \A e \in Entries : down[e] = OwnerHold => down'[e] = OwnerHold
  BY <1>2, <1>5, RestedType DEF TypesOK
<1>7. /\ me' \in [Callers -> Mine] /\ me'[c].at \notin {"gate", "out"}
      /\ \A d \in Callers \ {c} : me'[d] = me[d]
  <2>1. CASE a[1] # "ok"
    <3>1. PICK why \in {"Owner", "Wait", "Budget", "Refused", "Failed"} : Passed(c, why)
      BY <1>2, <2>1
    <3>2. QED
      BY <3>1, PassedType DEF TypesOK
  <2>2. CASE a[1] = "ok"
    <3>1. [Idle EXCEPT !.at = "cover", !.of = me[c].of] \in Mine
      BY <1>0, IdleType DEF Mine
    <3>2. PICK mine \in Mine : me' = [me EXCEPT ![c] = mine] /\ mine.at \in {"idle", "cover"}
      BY <1>2, <2>2, <3>1, IdleType DEF Idle
    <3>3. QED
      BY <3>2 DEF TypesOK
  <2>3. QED
    BY <2>1, <2>2
<1>8. me[c].month \in BOOLEAN
  BY <1>0 DEF Mine
<1>9. MoneyOK'
  BY <1>0, <1>2, <1>4, <1>7, <1>8, ReleaseKeeps
<1>10. TypesOK'
  BY <1>6, <1>7 DEF Answered, TypesOK
<1>11. QED
  BY <1>6, <1>9, <1>10

\* The one request more: the first one settled at nothing.
LEMMA AgainKeeps ==
  ASSUME Bounded, TypesOK, MoneyOK, NEW c \in Callers, Again(c)
  PROVE  TypesOK' /\ MoneyOK'
<1>0. me[c] \in Mine /\ me[c].at = "out" /\ me[c].month \in BOOLEAN
  BY DEF TypesOK, Again, Mine
<1>1. /\ me' = [me EXCEPT ![c] = [me[c] EXCEPT !.at = "try", !.again = TRUE]]
      /\ Release(c, TRUE, 0) /\ UNCHANGED <<billed, down, pending, asked>>
  BY DEF Again
<1>2. [me[c] EXCEPT !.at = "try", !.again = TRUE] \in Mine
  BY <1>0 DEF Mine
<1>3. me'[c].at = "try" /\ \A d \in Callers \ {c} : me'[d] = me[d]
  BY <1>0, <1>1 DEF TypesOK, Mine
<1>4. billed' = billed + Kept(me[c].month, 0) /\ 0 \in 0 .. Price(me[c].entry) /\ 0 \in 0 .. 0
  BY <1>1, PriceType DEF Kept, MoneyOK
<1>5. MoneyOK'
  BY <1>0, <1>1, <1>3, <1>4, ReleaseKeeps
<1>6. QED
  BY <1>1, <1>2, <1>5 DEF TypesOK

\* A kill leaves the reservation, which covers what may be billed.
LEMMA KilledKeeps ==
  ASSUME Bounded, TypesOK, MoneyOK, NEW c \in Callers, Killed(c)
  PROVE  TypesOK' /\ MoneyOK'
<1>1. PICK cost \in 0 .. Kept(me[c].at = "out" /\ me[c].month, Price(me[c].entry)) :
        billed' = billed + cost
  BY DEF Killed
<1>2. me' = [me EXCEPT ![c] = Idle] /\ UNCHANGED <<usd, down, pending, asked>>
  BY DEF Killed
<1>3. TypesOK'
  BY <1>2, IdleType DEF TypesOK
<1>4. Held(c)' = 0 /\ \A d \in Callers \ {c} : Held(d)' = Held(d)
  BY <1>2 DEF TypesOK, Held, Price, Idle
<1>5. cost \in 0 .. Held(c)
  BY <1>1, PriceType DEF Kept, Held
<1>6. Held("worker") \in {0, 1} /\ Held("page") \in {0, 1}
  BY HeldType DEF Callers
<1>7. \/ cost \in 0 .. Held("worker") /\ Held("worker")' = 0 /\ Held("page")' = Held("page")
      \/ cost \in 0 .. Held("page") /\ Held("page")' = 0 /\ Held("worker")' = Held("worker")
  BY <1>4, <1>5 DEF Callers
<1>8. MoneyOK'
  BY <1>1, <1>2, <1>6, <1>7 DEF MoneyOK, Bounded
<1>9. QED
  BY <1>3, <1>8

LEMMA KeptType == \A b \in BOOLEAN : Kept(b, 1) \in Nat
  BY DEF Kept

\* A step of the phase that asks nobody: no call goes out.
LEMMA PhaseKeeps ==
  ASSUME Bounded, TypesOK, MoneyOK, Cut \/ Failed \/ Cover \/ ClearPending
  PROVE  TypesOK' /\ MoneyOK'
<1>0. "worker" \in Callers /\ me["worker"] \in Mine
  BY DEF TypesOK, Callers
<1>1. UNCHANGED <<usd, billed, down>>
  BY DEF Cut, Failed, Cover, ClearPending, ledger
<1>2. ASSUME NEW mine \in Mine, me' = [me EXCEPT !["worker"] = mine],
             mine.at \notin {"gate", "out"},
             asked' \in Reqs, pending'.of \subseteq Reqs, pending'.tries \in Nat
      PROVE  TypesOK' /\ MoneyOK'
  <2>1. me' \in [Callers -> Mine] /\ me'["worker"].at \notin {"gate", "out"}
        /\ \A d \in Callers \ {"worker"} : me'[d] = me[d]
    BY <1>0, <1>2 DEF TypesOK
  <2>2. \A c \in Callers : Held(c)' = 0 \/ Held(c)' = Held(c)
    BY <2>1 DEF Held, Price
  <2>3. QED
    BY <1>1, <1>2, <2>1, <2>2, FrameKeeps DEF TypesOK
<1>3. CASE Cut
  <2> DEFINE tries == IF Same THEN pending.tries ELSE 0
             mine == [Idle EXCEPT !.at = "try", !.of = {asked}, !.tries = tries]
  <2>1. tries \in Nat /\ {asked} \in SUBSET Reqs
    BY DEF TypesOK
  <2>2. mine \in Mine /\ mine.at = "try"
    BY <2>1, IdleType DEF Mine
  <2>3. me' = [me EXCEPT !["worker"] = mine] /\ UNCHANGED <<asked, pending>>
    BY <1>3 DEF Cut
  <2> HIDE DEF mine
  <2>4. QED
    BY <1>2, <2>2, <2>3 DEF TypesOK
<1>4. CASE Failed
  <2> DEFINE tries == me["worker"].tries + Kept(Counts(me["worker"].skips), 1)
  <2>1. tries \in Nat /\ me["worker"].of \subseteq Reqs
    <3>1. Counts(me["worker"].skips) \in BOOLEAN
      BY DEF Counts
    <3>2. QED
      BY <1>0, <3>1, KeptType DEF Mine
  <2>2. CASE tries >= Attempts
    <3>1. /\ me' = [me EXCEPT !["worker"] = [me["worker"] EXCEPT !.at = "skip"]]
          /\ UNCHANGED <<asked, pending>>
      BY <1>4, <2>2 DEF Failed
    <3>2. /\ [me["worker"] EXCEPT !.at = "skip"] \in Mine
          /\ [me["worker"] EXCEPT !.at = "skip"].at = "skip"
      BY <1>0 DEF Mine
    <3>3. QED
      BY <1>2, <3>1, <3>2 DEF TypesOK
  <2>3. CASE ~(tries >= Attempts)
    <3>1. /\ pending'.of = me["worker"].of /\ pending'.tries = tries
          /\ me' = [me EXCEPT !["worker"] = Idle] /\ asked' = asked
      BY <1>4, <2>3 DEF Failed
    <3>2. QED
      BY <1>2, <2>1, <3>1, IdleType DEF TypesOK, Idle
  <2>4. QED
    BY <2>2, <2>3
<1>5. CASE Cover
  <2>1. CASE moved
    BY <1>2, <1>5, <2>1, IdleType DEF Cover, TypesOK, Idle
  <2>2. CASE ~moved
    <3>1. /\ me' = [me EXCEPT !["worker"] = [Idle EXCEPT !.at = "clear"]] /\ pending' = pending
          /\ asked' = [window |-> asked.window + 1, change |-> 0, grown |-> 0]
      BY <1>5, <2>2 DEF Cover
    <3>2. [Idle EXCEPT !.at = "clear"] \in Mine /\ [Idle EXCEPT !.at = "clear"].at = "clear"
      BY IdleType DEF Mine
    <3>3. asked' \in Reqs
      BY <3>1 DEF TypesOK, Reqs
    <3>4. QED
      BY <1>2, <3>1, <3>2, <3>3 DEF TypesOK
  <2>3. QED
    BY <2>1, <2>2
<1>6. CASE ClearPending
  BY <1>2, <1>6, IdleType DEF ClearPending, TypesOK, Idle, NotHeld
<1>7. QED
  BY <1>3, <1>4, <1>5, <1>6

\* What goes on beside the callers.
LEMMA BesideKeeps ==
  ASSUME Bounded, TypesOK, MoneyOK,
         \/ \E e \in Entries : Probe(e) \/ Resume(e) \/ RestEnds(e) \/ DayPasses(e)
         \/ Changes \/ Grows \/ Forgets \/ WaitEnds \/ MonthTurns
  PROVE  TypesOK' /\ MoneyOK'
<1>0. "page" \in Callers /\ me \in [Callers -> Mine]
  BY DEF TypesOK, Callers
<1>1. ASSUME NEW e \in Entries, Probe(e) PROVE TypesOK' /\ MoneyOK'
  <2>1. /\ [Idle EXCEPT !.at = "try", !.entry = e] \in Mine
        /\ [Idle EXCEPT !.at = "try", !.entry = e].at = "try"
    <3>1. e \in Positive
      BY DEF Entries, Bounded, Positive
    <3>2. QED
      BY <3>1, IdleType DEF Mine
  <2>2. /\ me' = [me EXCEPT !["page"] = [Idle EXCEPT !.at = "try", !.entry = e]]
        /\ UNCHANGED <<usd, billed, down, pending, asked>>
    BY <1>1 DEF Probe, ledger
  <2>3. /\ me' \in [Callers -> Mine] /\ me'["page"].at = "try"
        /\ \A d \in Callers \ {"page"} : me'[d] = me[d]
    BY <1>0, <2>1, <2>2
  <2>4. \A c \in Callers : Held(c)' = 0 \/ Held(c)' = Held(c)
    BY <2>3 DEF Held, Price
  <2>5. QED
    BY <2>2, <2>3, <2>4, FrameKeeps DEF TypesOK
<1>2. ASSUME UNCHANGED <<usd, billed, me>> PROVE MoneyOK'
  BY <1>2 DEF MoneyOK, Held, Price
<1>3. ASSUME NEW e \in Entries, Resume(e) PROVE TypesOK' /\ MoneyOK'
  <2>1. down' \in [Entries -> {Up, Resting, OwnerHold}]
    BY <1>3 DEF Resume, TypesOK
  <2>2. pending'.of = pending.of /\ pending'.tries = pending.tries
    BY <1>3 DEF Resume
  <2>3. QED
    BY <1>2, <1>3, <2>1, <2>2 DEF Resume, TypesOK, ledger
<1>4. ASSUME NEW e \in Entries, RestEnds(e) PROVE TypesOK' /\ MoneyOK'
  BY <1>2, <1>4 DEF RestEnds, TypesOK, ledger
<1>5. ASSUME NEW e \in Entries, DayPasses(e) PROVE TypesOK' /\ MoneyOK'
  <2>1. \A c \in Callers : /\ [me[c] EXCEPT !.day = FALSE] \in Mine
                           /\ [me[c] EXCEPT !.day = FALSE].at = me[c].at
                           /\ [me[c] EXCEPT !.day = FALSE].month = me[c].month
                           /\ [me[c] EXCEPT !.day = FALSE].entry = me[c].entry
    BY <1>0 DEF Mine
  <2>2. me' \in [Callers -> Mine] /\ \A c \in Callers : Held(c)' = Held(c)
    BY <1>0, <1>5, <2>1 DEF DayPasses, Held, Price
  <2>3. QED
    BY <1>5, <2>2, FrameKeeps DEF DayPasses, TypesOK
<1>6. CASE Changes \/ Grows
  <2>1. asked' \in Reqs
    BY <1>6 DEF Changes, Grows, TypesOK, Reqs
  <2>2. QED
    BY <1>2, <1>6, <2>1 DEF Changes, Grows, TypesOK, ledger
<1>7. CASE Forgets
  BY <1>2, <1>7 DEF Forgets, TypesOK, ledger
<1>8. CASE WaitEnds
  <2>1. pending'.of = pending.of /\ pending'.tries = pending.tries
    BY <1>8 DEF WaitEnds
  <2>2. QED
    BY <1>2, <1>8, <2>1 DEF WaitEnds, TypesOK, ledger
<1>9. CASE MonthTurns
  <2>1. \A c \in Callers : /\ [me[c] EXCEPT !.day = FALSE, !.month = FALSE] \in Mine
                           /\ [me[c] EXCEPT !.day = FALSE, !.month = FALSE].month = FALSE
    BY <1>0 DEF Mine
  <2>2. me' \in [Callers -> Mine] /\ \A c \in Callers : Held(c)' = 0
    BY <1>9, <2>1 DEF MonthTurns, Held
  <2>3. /\ usd' \in [settled : Nat, reserved : Nat]
        /\ usd'.settled = 0 /\ usd'.reserved = 0 /\ billed' = 0
    BY <1>9 DEF MonthTurns
  <2>4. MoneyOK'
    BY <2>2, <2>3 DEF MoneyOK, Bounded, Callers
  <2>5. down' \in [Entries -> {Up, Resting, OwnerHold}]
    BY <1>9 DEF MonthTurns, TypesOK
  <2>6. pending'.of = pending.of /\ pending'.tries = pending.tries
    <3>1. pending' = [pending EXCEPT !.due = TRUE]
      BY <1>9 DEF MonthTurns
    <3>2. QED
      BY <3>1
  <2>7. QED
    BY <1>9, <2>2, <2>4, <2>5, <2>6 DEF MonthTurns, TypesOK
<1>10. QED
  BY <1>1, <1>3, <1>4, <1>5, <1>6, <1>7, <1>8, <1>9

\* The inductive invariant of the money and the holds.
Inv == TypesOK /\ MoneyOK

LEMMA InvInit == ASSUME Bounded PROVE Init => Inv
<1> SUFFICES ASSUME Init PROVE Inv
  OBVIOUS
<1>1. TypesOK
  BY IdleType DEF Init, TypesOK, Reqs, NotHeld
<1>2. \A c \in Callers : Held(c) = 0
  BY DEF Init, Held, Idle
<1>3. MoneyOK
  BY <1>2 DEF Init, MoneyOK, Bounded, Callers
<1>4. QED
  BY <1>1, <1>3 DEF Inv

LEMMA InvNext == ASSUME Bounded PROVE Inv /\ [Next]_vars => Inv'
<1> SUFFICES ASSUME Inv, [Next]_vars PROVE Inv'
  OBVIOUS
<1>1. CASE Next
  <2>1. ASSUME NEW c \in Callers, Step(c) PROVE Inv'
    BY <2>1, TryKeeps, GateKeeps, AnsweredKeeps, AgainKeeps DEF Step, Inv
  <2>2. ASSUME NEW c \in Callers, Killed(c) PROVE Inv'
    BY <2>2, KilledKeeps DEF Inv
  <2>3. ASSUME Cut \/ Failed \/ Cover \/ ClearPending PROVE Inv'
    BY <2>3, PhaseKeeps DEF Inv
  <2>4. ASSUME \/ \E e \in Entries : Probe(e) \/ Resume(e) \/ RestEnds(e) \/ DayPasses(e)
               \/ Changes \/ Grows \/ Forgets \/ WaitEnds \/ MonthTurns
        PROVE  Inv'
    BY <2>4, BesideKeeps DEF Inv
  <2>5. QED
    BY <1>1, <2>1, <2>2, <2>3, <2>4 DEF Next, Worker, Callers
<1>2. CASE UNCHANGED vars
  BY <1>2 DEF vars, ledger, Inv, TypesOK, MoneyOK, Held, Price
<1>3. QED
  BY <1>1, <1>2

LEMMA InvPays == ASSUME Bounded PROVE Inv => PaidWithinCap
<1> SUFFICES ASSUME Inv PROVE PaidWithinCap
  OBVIOUS
<1>1. Held("worker") \in {0, 1} /\ Held("page") \in {0, 1}
  BY HeldType DEF Callers
<1>2. QED
  BY <1>1 DEF Inv, MoneyOK, PaidWithinCap, Bounded

\* What the providers bill for a month's calls is never over the cap, whoever calls at
\* once, whichever call is killed, unanswered or asked twice, however long the chain.
THEOREM CapHolds == Bounded => (Spec => []PaidWithinCap)
<1> SUFFICES ASSUME Bounded PROVE Spec => []PaidWithinCap
  OBVIOUS
<1>1. Inv /\ [Next]_vars => Inv'
  BY InvNext
<1>2. QED
  BY <1>1, InvInit, InvPays, PTL DEF Spec

LEMMA HoldNext ==
  ASSUME Bounded
  PROVE  Inv /\ Next => \A e \in Entries : down[e] = OwnerHold /\ down'[e] # OwnerHold => Resume(e)
<1> SUFFICES ASSUME Inv, Next, NEW e \in Entries, down[e] = OwnerHold, down'[e] # OwnerHold
             PROVE  Resume(e)
  OBVIOUS
<1>1. ASSUME NEW c \in Callers, Step(c) PROVE FALSE
  BY <1>1, AnsweredKeeps DEF Step, Try, Gate, Again, Inv
<1>2. ASSUME \/ \E f \in Entries : Probe(f) \/ DayPasses(f)
             \/ \E c \in Callers : Killed(c)
             \/ Cut \/ Failed \/ Cover \/ ClearPending
             \/ Changes \/ Grows \/ Forgets \/ WaitEnds
      PROVE  FALSE
  BY <1>2 DEF Probe, DayPasses, Killed, Cut, Failed, Cover, ClearPending, Changes,
     Grows, Forgets, WaitEnds
<1>3. ASSUME NEW f \in Entries, Resume(f) PROVE Resume(e)
  BY <1>3 DEF Resume, Inv, TypesOK
<1>4. ASSUME (\E f \in Entries : RestEnds(f)) \/ MonthTurns PROVE FALSE
  <2>1. down \in [Entries -> {Up, Resting, OwnerHold}]
    BY DEF Inv, TypesOK
  <2>2. ASSUME NEW f \in Entries, RestEnds(f) PROVE FALSE
    <3>1. down[f] = Resting /\ down' = [down EXCEPT ![f] = Up]
      BY <2>2 DEF RestEnds
    <3>2. QED
      BY <2>1, <3>1 DEF Resting, OwnerHold
  <2>3. ASSUME MonthTurns PROVE FALSE
    <3>1. down'[e] = IF down[e] = Resting THEN Up ELSE down[e]
      BY <2>3 DEF MonthTurns
    <3>2. QED
      BY <3>1 DEF Resting, OwnerHold
  <2>4. QED
    BY <1>4, <2>2, <2>3
<1>5. QED
  BY <1>1, <1>2, <1>3, <1>4 DEF Next, Worker, Callers

\* A hold that waits for the owner is ended by the owner alone, whatever answer, rest's
\* end or turn of the month comes.
THEOREM HoldsStay == Bounded => (Spec => HoldIsTheOwners)
<1> SUFFICES ASSUME Bounded PROVE Spec => HoldIsTheOwners
  OBVIOUS
<1>1. Inv /\ [Next]_vars => Inv'
  BY InvNext
<1>2. Inv /\ [Next]_vars
        => [\A e \in Entries : down[e] = OwnerHold /\ down'[e] # OwnerHold => Resume(e)]_vars
  BY HoldNext
<1>3. QED
  BY <1>1, <1>2, InvInit, PTL DEF Spec, HoldIsTheOwners
-----------------------------------------------------------------------------
\* A request the worker holds or tries is none that is still to come.
Older(q) == /\ q \in Reqs
            /\ \/ q.window < asked.window
               \/ q.window = asked.window /\ q.change <= asked.change /\ q.grown <= asked.grown

\* The tries in hand are of the request asked now, and none of them is uncounted.
TriesOK ==
  /\ tried \in 0 .. Attempts
  /\ \A q \in pending.of \cup me["worker"].of : Older(q)
  /\ pending.of = {asked} => pending.tries <= tried
  /\ me["worker"].of = {asked} => me["worker"].tries <= tried
  /\ me["worker"].of = {asked} /\ me["worker"].at = "skip" => tried = Attempts

\* The tries of what the worker had in hand, or of nothing.
LEMMA TriesFrame ==
  ASSUME Inv, TriesOK, UNCHANGED <<asked, tried>>,
         pending'.of = pending.of /\ pending'.tries = pending.tries,
         \/ me'["worker"] = me["worker"]
         \/ /\ me'["worker"].of = {} \/ (me'["worker"].of = me["worker"].of
                                          /\ me'["worker"].tries \in {me["worker"].tries, 0})
            /\ me'["worker"].at # "skip"
  PROVE  TriesOK'
<1>1. \A q : Older(q)' <=> Older(q)
  BY DEF Older
<1>2. me'["worker"].of = {} \/ me'["worker"].of = me["worker"].of
  OBVIOUS
<1>3. \A q \in pending'.of \cup me'["worker"].of : Older(q)'
  BY <1>1, <1>2 DEF TriesOK
<1>4. CASE me'["worker"] = me["worker"]
  BY <1>3, <1>4 DEF TriesOK
<1>5. CASE me'["worker"].of = {}
  <2>1. me'["worker"].of # {asked'}
    BY <1>5
  <2>2. QED
    BY <1>3, <2>1 DEF TriesOK
<1>6. CASE /\ me'["worker"].of = me["worker"].of /\ me'["worker"].at # "skip"
           /\ me'["worker"].tries \in {me["worker"].tries, 0}
  BY <1>3, <1>6 DEF TriesOK
<1>7. QED
  BY <1>4, <1>5, <1>6

\* A step of the chain, or a kill, counts no try.
LEMMA StepCarries ==
  ASSUME Bounded, Inv, NEW c \in Callers, Step(c) \/ Killed(c)
  PROVE  /\ UNCHANGED <<asked, tried, pending>>
         /\ \/ me'["worker"] = me["worker"]
            \/ /\ me'["worker"].of = {} \/ (me'["worker"].of = me["worker"].of
                                             /\ me'["worker"].tries \in {me["worker"].tries, 0})
               /\ me'["worker"].at # "skip"
<1>0. me \in [Callers -> Mine] /\ "worker" \in Callers
  BY DEF Inv, TypesOK, Callers
<1>1. UNCHANGED <<asked, tried, pending>>
  BY DEF Step, Try, Gate, Answered, Again, Killed
<1>2. ASSUME NEW mine, me' = [me EXCEPT ![c] = mine], mine.at # "skip",
             mine.of = {} \/ (mine.of = me[c].of /\ mine.tries \in {me[c].tries, 0})
      PROVE  \/ me'["worker"] = me["worker"]
             \/ /\ me'["worker"].of = {} \/ (me'["worker"].of = me["worker"].of
                                              /\ me'["worker"].tries \in {me["worker"].tries, 0})
                /\ me'["worker"].at # "skip"
  BY <1>0, <1>2
<1>3. Idle.of = {} /\ Idle.at # "skip"
  BY DEF Idle
<1>4. \A why : Passed(c, why) =>
        \E mine : /\ me' = [me EXCEPT ![c] = mine] /\ mine.at # "skip"
                  /\ mine.of = {} \/ (mine.of = me[c].of /\ mine.tries \in {me[c].tries, 0})
  <2>1. ASSUME NEW why PROVE /\ NextEntry(c, why).at = "try"
                             /\ NextEntry(c, why).of = me[c].of
                             /\ NextEntry(c, why).tries = me[c].tries
    BY DEF NextEntry, Idle
  <2>2. ASSUME NEW why, Passed(c, why)
        PROVE  me' = [me EXCEPT ![c] = NextEntry(c, why)] \/ me' = [me EXCEPT ![c] = Idle]
    BY <2>2 DEF Passed
  <2>3. QED
    BY <1>3, <2>1, <2>2
<1>5. CASE Try(c)
  <2>1. CASE Admission(me[c].entry) = "admitted"
    <3>1. me' = [me EXCEPT ![c] = [me[c] EXCEPT !.at = "gate", !.day = TRUE, !.month = TRUE]]
      BY <1>5, <2>1 DEF Try, Reserve
    <3>2. /\ [me[c] EXCEPT !.at = "gate", !.day = TRUE, !.month = TRUE].of = me[c].of
          /\ [me[c] EXCEPT !.at = "gate", !.day = TRUE, !.month = TRUE].tries = me[c].tries
          /\ [me[c] EXCEPT !.at = "gate", !.day = TRUE, !.month = TRUE].at = "gate"
      BY <1>0 DEF Mine
    <3>3. QED
      BY <1>1, <1>2, <3>1, <3>2
  <2>2. CASE Admission(me[c].entry) # "admitted"
    <3>1. Passed(c, Admission(me[c].entry))
      BY <1>5, <2>2 DEF Try
    <3>2. QED
      BY <1>1, <1>2, <1>4, <3>1
  <2>3. QED
    BY <2>1, <2>2
<1>6. CASE Gate(c)
  <2>1. CASE c = "worker" /\ moved
    BY <1>1, <1>2, <1>3, <1>6, <2>1 DEF Gate
  <2>2. CASE ~(c = "worker" /\ moved)
    <3>1. me' = [me EXCEPT ![c] = [me[c] EXCEPT !.at = "out", !.room = ~Full(me[c].entry)]]
      BY <1>6, <2>2 DEF Gate
    <3>2. \A room : /\ [me[c] EXCEPT !.at = "out", !.room = room].of = me[c].of
                    /\ [me[c] EXCEPT !.at = "out", !.room = room].tries = me[c].tries
                    /\ [me[c] EXCEPT !.at = "out", !.room = room].at = "out"
      BY <1>0 DEF Mine
    <3> DEFINE mine == [me[c] EXCEPT !.at = "out", !.room = ~Full(me[c].entry)]
    <3>3. /\ mine.of = me[c].of /\ mine.tries = me[c].tries /\ mine.at = "out"
          /\ me' = [me EXCEPT ![c] = mine]
      BY <3>1, <3>2, Zenon
    <3> HIDE DEF mine
    <3>4. QED
      BY <1>1, <1>2, <3>3
  <2>3. QED
    BY <2>1, <2>2
<1>7. CASE Answered(c)
  <2>1. \/ \E why : Passed(c, why)
        \/ me' = [me EXCEPT ![c] = Idle]
        \/ me' = [me EXCEPT ![c] = [Idle EXCEPT !.at = "cover", !.of = me[c].of]]
    BY <1>7 DEF Answered
  <2>2. /\ [Idle EXCEPT !.at = "cover", !.of = me[c].of].at = "cover"
        /\ [Idle EXCEPT !.at = "cover", !.of = me[c].of].of = me[c].of
        /\ [Idle EXCEPT !.at = "cover", !.of = me[c].of].tries = 0
    BY DEF Idle
  <2>3. QED
    BY <1>1, <1>2, <1>3, <1>4, <2>1, <2>2
<1>8. CASE Again(c)
  <2>1. me' = [me EXCEPT ![c] = [me[c] EXCEPT !.at = "try", !.again = TRUE]]
    BY <1>8 DEF Again
  <2>2. /\ [me[c] EXCEPT !.at = "try", !.again = TRUE].of = me[c].of
        /\ [me[c] EXCEPT !.at = "try", !.again = TRUE].tries = me[c].tries
        /\ [me[c] EXCEPT !.at = "try", !.again = TRUE].at = "try"
    BY <1>0 DEF Mine
  <2>3. QED
    BY <1>1, <1>2, <2>1, <2>2
<1>9. CASE Killed(c)
  BY <1>1, <1>2, <1>3, <1>9 DEF Killed
<1>10. QED
  BY <1>5, <1>6, <1>7, <1>8, <1>9 DEF Step

\* Another request is asked: none in hand is that one.
LEMMA NewRequest ==
  ASSUME Inv, TriesOK, tried' = 0, asked' \in Reqs,
         \/ asked'.window > asked.window
         \/ /\ asked'.window = asked.window /\ asked'.change >= asked.change
            /\ asked'.grown >= asked.grown
            /\ asked'.change > asked.change \/ asked'.grown > asked.grown,
         pending' = pending, me'["worker"].of = {} \/ me'["worker"].of = me["worker"].of
  PROVE  TriesOK'
<1>1. asked \in Reqs
  BY DEF Inv, TypesOK
<1>2. ASSUME NEW q, Older(q) PROVE Older(q)' /\ q # asked'
  BY <1>1, <1>2 DEF Older, Reqs
<1>3. \A q \in pending'.of \cup me'["worker"].of : Older(q)
  BY DEF TriesOK
<1>4. pending'.of # {asked'} /\ me'["worker"].of # {asked'}
  BY <1>2, <1>3
<1>5. QED
  BY <1>2, <1>3, <1>4 DEF TriesOK, Attempts

\* hold counts a try of this request, and of none else.
LEMMA FailedTries ==
  ASSUME Inv, TriesOK, Failed
  PROVE  TriesOK'
<1> DEFINE counted == Kept(Counts(me["worker"].skips), 1)
           tries == me["worker"].tries + counted
<1>0. me["worker"] \in Mine /\ "worker" \in Callers /\ me \in [Callers -> Mine]
  BY DEF Inv, TypesOK, Callers
<1>1. counted \in {0, 1} /\ me["worker"].tries \in Nat /\ tries \in Nat
  <2>1. Counts(me["worker"].skips) \in BOOLEAN
    BY DEF Counts
  <2>2. counted \in {0, 1}
    BY <2>1 DEF Kept
  <2>3. QED
    BY <1>0, <2>2 DEF Mine
<1>2. /\ asked' = asked
      /\ tried' = tried + Kept(me["worker"].of = {asked} /\ tried < Attempts, counted)
  BY DEF Failed
<1> HIDE DEF counted
<1>3. tried' \in 0 .. Attempts
  BY <1>1, <1>2 DEF TriesOK, Kept, Attempts
<1>4. me["worker"].of = {asked} => tries <= tried' \/ tried' = Attempts
  BY <1>1, <1>2 DEF TriesOK, Kept, Attempts
<1>5. \A q : Older(q)' <=> Older(q)
  BY <1>2 DEF Older
<1>6. CASE tries >= Attempts
  <2>1. me' = [me EXCEPT !["worker"] = [me["worker"] EXCEPT !.at = "skip"]] /\ pending' = pending
    BY <1>6 DEF Failed, counted
  <2>2. me'["worker"].of = me["worker"].of /\ me'["worker"].tries = me["worker"].tries
    BY <1>0, <2>1 DEF Mine
  <2>3. me["worker"].of = {asked} => tried' = Attempts
    BY <1>1, <1>2, <1>3, <1>4, <1>6 DEF Attempts
  <2>4. me["worker"].of = {asked} => me["worker"].tries <= tried'
    BY <1>1, <1>2 DEF TriesOK, Kept, Attempts
  <2>5. pending.of = {asked} => pending.tries <= tried'
    BY <1>1, <1>2 DEF TriesOK, Kept, Attempts, Inv, TypesOK
  <2>6. QED
    BY <1>2, <1>3, <1>5, <2>1, <2>2, <2>3, <2>4, <2>5 DEF TriesOK
<1>7. CASE ~(tries >= Attempts)
  <2>1. /\ pending'.of = me["worker"].of /\ pending'.tries = tries
        /\ me' = [me EXCEPT !["worker"] = Idle]
    BY <1>7 DEF Failed, counted
  <2>2. me'["worker"].of = {} /\ me'["worker"].of # {asked'}
    BY <1>0, <2>1 DEF Idle
  <2>3. me["worker"].of = {asked} => tries <= tried'
    BY <1>1, <1>3, <1>4, <1>7 DEF Attempts
  <2>4. QED
    BY <1>2, <1>3, <1>5, <2>1, <2>2, <2>3 DEF TriesOK
<1>8. QED
  BY <1>6, <1>7

\* What the clock takes of a call in hand is not its tries.
LEMMA TriesKept ==
  ASSUME Inv, TriesOK, UNCHANGED <<asked, tried>>,
         pending'.of = pending.of /\ pending'.tries = pending.tries,
         me["worker"] \in Mine,
         \/ me'["worker"] = me["worker"] \/ me'["worker"] = [me["worker"] EXCEPT !.day = FALSE]
         \/ me'["worker"] = [me["worker"] EXCEPT !.day = FALSE, !.month = FALSE]
  PROVE  TriesOK'
<1>1. /\ me'["worker"].of = me["worker"].of /\ me'["worker"].tries = me["worker"].tries
      /\ me'["worker"].at = me["worker"].at
  BY DEF Mine
<1>2. \A q : Older(q)' <=> Older(q)
  BY DEF Older
<1>3. QED
  BY <1>1, <1>2 DEF TriesOK

LEMMA TriesNext == ASSUME Bounded PROVE Inv /\ TriesOK /\ [Next]_vars => TriesOK'
<1> SUFFICES ASSUME Inv, TriesOK, [Next]_vars PROVE TriesOK'
  OBVIOUS
<1>0. /\ "worker" \in Callers /\ me \in [Callers -> Mine] /\ asked \in Reqs
      /\ Idle.of = {} /\ Idle.at = "idle"
  BY DEF Inv, TypesOK, Callers, Idle
<1>1. ASSUME NEW c \in Callers, Step(c) \/ Killed(c) PROVE TriesOK'
  BY <1>1, StepCarries, TriesFrame
<1>2. ASSUME Cut PROVE TriesOK'
  <2> DEFINE tries == IF Same THEN pending.tries ELSE 0
             mine == [Idle EXCEPT !.at = "try", !.of = {asked}, !.tries = tries]
  <2>1. mine.at = "try" /\ mine.of = {asked} /\ mine.tries = tries
    BY DEF Idle
  <2>2. me'["worker"] = mine /\ UNCHANGED <<asked, pending, tried>>
    BY <1>0, <1>2 DEF Cut
  <2>3. tries <= tried
    BY DEF Same, TriesOK, Attempts
  <2>4. Older(asked)
    BY <1>0 DEF Older, Reqs
  <2> HIDE DEF mine, tries
  <2>5. \A q : Older(q)' <=> Older(q)
    BY <2>2 DEF Older
  <2>6. QED
    BY <2>1, <2>2, <2>3, <2>4, <2>5 DEF TriesOK
<1>3. ASSUME Failed PROVE TriesOK'
  BY <1>3, FailedTries
<1>4. ASSUME Cover PROVE TriesOK'
  <2>1. CASE moved
    <3>1. me'["worker"] = Idle /\ UNCHANGED <<asked, pending, tried>>
      BY <1>0, <1>4, <2>1 DEF Cover
    <3>2. QED
      BY <1>0, <3>1, TriesFrame
  <2>2. CASE ~moved
    <3>1. /\ asked' = [window |-> asked.window + 1, change |-> 0, grown |-> 0]
          /\ tried' = 0 /\ pending' = pending
          /\ me'["worker"] = [Idle EXCEPT !.at = "clear"]
      BY <1>0, <1>4, <2>2 DEF Cover
    <3>2. me'["worker"].of = {}
      BY <3>1 DEF Idle
    <3>3. asked' \in Reqs /\ asked'.window > asked.window
      BY <1>0, <3>1 DEF Reqs
    <3>4. QED
      BY <3>1, <3>2, <3>3, NewRequest
  <2>3. QED
    BY <2>1, <2>2
<1>5. ASSUME ClearPending PROVE TriesOK'
  <2>1. me'["worker"] = Idle /\ pending' = NotHeld /\ UNCHANGED <<asked, tried>>
    BY <1>0, <1>5 DEF ClearPending
  <2>2. /\ pending'.of = {} /\ pending'.of # {asked'}
        /\ me'["worker"].of = {} /\ me'["worker"].of # {asked'}
    BY <1>0, <2>1 DEF NotHeld
  <2>3. QED
    BY <2>1, <2>2 DEF TriesOK
<1>6. ASSUME NEW e \in Entries, Probe(e) PROVE TriesOK'
  <2>1. me'["worker"] = me["worker"] /\ UNCHANGED <<asked, pending, tried>>
    BY <1>0, <1>6 DEF Probe
  <2>2. QED
    BY <2>1, TriesFrame
<1>7. ASSUME \/ \E e \in Entries : Resume(e) \/ RestEnds(e)
             \/ WaitEnds \/ Forgets
      PROVE  TriesOK'
  <2>1. UNCHANGED <<me, asked, tried>> /\ pending'.of = pending.of /\ pending'.tries = pending.tries
    <3>1. CASE \E e \in Entries : Resume(e)
      <4>1. PICK due : pending' = [pending EXCEPT !.due = due]
        BY <3>1 DEF Resume
      <4>2. QED
        BY <3>1, <4>1 DEF Resume
    <3>2. CASE WaitEnds
      <4>1. pending' = [pending EXCEPT !.due = TRUE]
        BY <3>2 DEF WaitEnds
      <4>2. QED
        BY <3>2, <4>1 DEF WaitEnds
    <3>3. CASE (\E e \in Entries : RestEnds(e)) \/ Forgets
      BY <3>3 DEF RestEnds, Forgets
    <3>4. QED
      BY <1>7, <3>1, <3>2, <3>3
  <2>2. QED
    BY <2>1, TriesFrame
<1>8. ASSUME NEW e \in Entries, DayPasses(e) PROVE TriesOK'
  <2>1. /\ UNCHANGED <<asked, pending, tried>>
        /\ me'["worker"] = me["worker"] \/ me'["worker"] = [me["worker"] EXCEPT !.day = FALSE]
    BY <1>0, <1>8 DEF DayPasses
  <2>2. QED
    BY <1>0, <2>1, TriesKept
<1>9. ASSUME MonthTurns PROVE TriesOK'
  <2>1. pending' = [pending EXCEPT !.due = TRUE]
    BY <1>9 DEF MonthTurns
  <2>2. /\ UNCHANGED <<asked, tried>> /\ pending'.of = pending.of /\ pending'.tries = pending.tries
        /\ me'["worker"] = [me["worker"] EXCEPT !.day = FALSE, !.month = FALSE]
    <3>1. pending'.of = pending.of /\ pending'.tries = pending.tries
      BY <2>1
    <3>2. me'["worker"] = [me["worker"] EXCEPT !.day = FALSE, !.month = FALSE]
      BY <1>0, <1>9 DEF MonthTurns
    <3>3. QED
      BY <1>9, <3>1, <3>2 DEF MonthTurns
  <2>3. QED
    BY <1>0, <2>2, TriesKept
<1>10. ASSUME Changes \/ Grows PROVE TriesOK'
  <2>1. /\ asked' \in Reqs /\ asked'.window = asked.window
        /\ asked'.change >= asked.change /\ asked'.grown >= asked.grown
        /\ asked'.change > asked.change \/ asked'.grown > asked.grown
    BY <1>0, <1>10 DEF Changes, Grows, Reqs
  <2>2. tried' = 0 /\ UNCHANGED <<me, pending>>
    BY <1>10 DEF Changes, Grows
  <2>3. QED
    BY <2>1, <2>2, NewRequest
<1>11. CASE UNCHANGED vars
  BY <1>11, TriesFrame DEF vars, ledger
<1>12. QED
  BY <1>1, <1>2, <1>3, <1>4, <1>5, <1>6, <1>7, <1>8, <1>9, <1>10, <1>11 DEF Next, Worker,
     Callers

LEMMA TriesInit == Init => TriesOK
<1> SUFFICES ASSUME Init PROVE TriesOK
  OBVIOUS
<1>1. pending.of = {} /\ me["worker"].of = {} /\ tried = 0
  BY DEF Init, NotHeld, Idle, Callers
<1>2. pending.of # {asked} /\ me["worker"].of # {asked}
  BY <1>1
<1>3. QED
  BY <1>1, <1>2 DEF TriesOK, Attempts

LEMMA SkipNext == TriesOK /\ Next /\ skipped' # skipped /\ me["worker"].of = {asked} => tried = Attempts
<1> SUFFICES ASSUME TriesOK, Next, skipped' # skipped, me["worker"].of = {asked}
             PROVE  tried = Attempts
  OBVIOUS
<1>1. Cover
  BY DEF Next, Worker, Step, Try, Gate, Answered, Again, Killed, Probe, Resume, RestEnds,
     DayPasses, Cut, Failed, ClearPending, Changes, Grows, Forgets, WaitEnds, MonthTurns
<1>2. me["worker"].at = "skip"
  BY <1>1 DEF Cover
<1>3. QED
  BY <1>2 DEF TriesOK

\* A window is skipped only once the chain failed this very request three times: a pass
\* cut short by a kill, a forget or another request counts nothing twice.
THEOREM SkipsHold == Bounded => (Spec => SkippedAfterThree)
<1> SUFFICES ASSUME Bounded PROVE Spec => SkippedAfterThree
  OBVIOUS
<1>1. Init => Inv /\ TriesOK
  BY InvInit, TriesInit
<1>2. Inv /\ TriesOK /\ [Next]_vars => (Inv /\ TriesOK)'
  BY InvNext, TriesNext
<1>3. TriesOK /\ [Next]_vars
        => [skipped' # skipped /\ me["worker"].of = {asked} => tried = Attempts]_vars
  BY SkipNext
<1>4. QED
  BY <1>1, <1>2, <1>3, PTL DEF Spec, SkippedAfterThree
-----------------------------------------------------------------------------
\* What the types need of the constants besides.
Counted == Daily \in Nat /\ Windows \in Nat /\ Budgets \subseteq [Chances -> Nat]

\* A caller's call counts in the entry's day.
Out(c, e) == IF me[c].at \in {"gate", "out"} /\ me[c].day /\ me[c].entry = e THEN 1 ELSE 0

\* Each entry's day holds the calls out, and no more than the day's budget.
DayOK ==
  /\ calls \in [Entries -> [settled : Nat, reserved : Nat]]
  /\ \A e \in Entries : /\ calls[e].settled + calls[e].reserved <= Daily
                        /\ Out("worker", e) + Out("page", e) <= calls[e].reserved

\* A window tried is one there is; no more tries are in hand than leave one to make.
WindowOK ==
  /\ asked \in Requests /\ moved \in BOOLEAN /\ skipped \subseteq 1 .. Windows
  /\ me["worker"].at \in {"try", "gate", "out", "cover", "skip"} => asked.window <= Windows
  /\ pending.of \subseteq Requests /\ pending.tries < Attempts
  /\ \A c \in Callers : me[c].of \subseteq Requests /\ me[c].tries < Attempts
  /\ chance \in [Chances -> Nat]

LEMMA OutType == \A c \in Callers, e \in Entries : Out(c, e) \in {0, 1}
  BY DEF Out

LEMMA SpendType ==
  ASSUME chance \in [Chances -> Nat], NEW k \in Chances, Spend(k)
  PROVE  chance' \in [Chances -> Nat]
  BY DEF Spend

\* No call goes out, and what is reserved stays.
LEMMA DayFrame ==
  ASSUME DayOK, UNCHANGED calls,
         \A c \in Callers, e \in Entries : Out(c, e)' = 0 \/ Out(c, e)' = Out(c, e)
  PROVE  DayOK'
<1>1. ASSUME NEW e \in Entries
      PROVE  Out("worker", e)' + Out("page", e)' <= calls[e].reserved
  <2>1. /\ Out("worker", e) \in {0, 1} /\ Out("page", e) \in {0, 1}
        /\ Out("worker", e)' \in {0, Out("worker", e)} /\ Out("page", e)' \in {0, Out("page", e)}
    BY OutType DEF Callers
  <2>2. Out("worker", e) + Out("page", e) <= calls[e].reserved /\ calls[e].reserved \in Nat
    BY DEF DayOK
  <2>3. QED
    BY <2>1, <2>2
<1>2. QED
  BY <1>1 DEF DayOK

\* A reservation within the day's budget.
LEMMA DayReserve ==
  ASSUME Counted, DayOK, NEW c \in Callers, me[c].entry \in Entries, me[c].at = "try",
         ~Full(me[c].entry), Reserve(c, me[c].entry), me \in [Callers -> Mine]
  PROVE  DayOK'
<1> DEFINE e == me[c].entry
<1>1. /\ calls' = [calls EXCEPT ![e] = [calls[e] EXCEPT !.reserved = calls[e].reserved + 1]]
      /\ calls[e].settled + calls[e].reserved < Daily
  BY DEF Reserve, Full, Used, Counted, DayOK
<1>2. /\ me'[c].entry = e /\ Out(c, e) = 0
      /\ \A d \in Callers \ {c} : \A f \in Entries : Out(d, f)' = Out(d, f)
  <2>1. me' = [me EXCEPT ![c] = [me[c] EXCEPT !.at = "gate", !.day = TRUE, !.month = TRUE]]
    BY DEF Reserve
  <2>2. me'[c].entry = e /\ \A d \in Callers \ {c} : me'[d] = me[d]
    BY <2>1 DEF Mine
  <2>3. QED
    BY <2>2 DEF Out
<1>3. \A f \in Entries \ {e} : Out(c, f)' = 0
  BY <1>2 DEF Out
<1>4. calls' \in [Entries -> [settled : Nat, reserved : Nat]]
  BY <1>1 DEF DayOK
<1>5. ASSUME NEW f \in Entries
      PROVE  /\ calls'[f].settled + calls'[f].reserved <= Daily
             /\ Out("worker", f)' + Out("page", f)' <= calls'[f].reserved
  <2>1. /\ Out("worker", f) \in {0, 1} /\ Out("page", f) \in {0, 1}
        /\ Out("worker", f)' \in {0, 1} /\ Out("page", f)' \in {0, 1}
    BY OutType DEF Out, Callers
  <2>2. /\ calls[f].settled \in Nat /\ calls[f].reserved \in Nat
        /\ calls[f].settled + calls[f].reserved <= Daily
        /\ Out("worker", f) + Out("page", f) <= calls[f].reserved
    BY DEF DayOK
  <2>3. CASE f = e
    <3>1. calls'[f].reserved = calls[f].reserved + 1 /\ calls'[f].settled = calls[f].settled
      BY <1>1, <2>3 DEF DayOK
    <3>2. \/ Out("worker", f) = 0 /\ Out("page", f)' = Out("page", f)
          \/ Out("page", f) = 0 /\ Out("worker", f)' = Out("worker", f)
      BY <1>2, <2>3 DEF Callers
    <3>3. QED
      BY <1>1, <2>1, <2>2, <2>3, <3>1, <3>2 DEF Counted
  <2>4. CASE f # e
    <3>1. calls'[f] = calls[f]
      BY <1>1, <2>4 DEF DayOK
    <3>2. /\ Out("worker", f)' \in {0, Out("worker", f)}
          /\ Out("page", f)' \in {0, Out("page", f)}
      BY <1>2, <1>3, <2>4 DEF Callers
    <3>3. QED
      BY <2>1, <2>2, <3>1, <3>2
  <2>5. QED
    BY <2>3, <2>4
<1>6. QED
  BY <1>4, <1>5 DEF DayOK

\* A call that is no longer out: what it reserved of its day is settled or given back.
LEMMA DayRelease ==
  ASSUME Counted, DayOK, me \in [Callers -> Mine], NEW c \in Callers, NEW settles \in BOOLEAN,
         NEW cost, me[c].at \in {"gate", "out"}, Release(c, settles, cost),
         me'[c].at \notin {"gate", "out"}, \A d \in Callers \ {c} : me'[d] = me[d]
  PROVE  DayOK'
<1> DEFINE e == me[c].entry
           gone == Kept(me[c].day, 1)
           stays == Kept(me[c].day /\ settles, 1)
<1>1. calls' = [calls EXCEPT ![e].reserved = @ - gone, ![e].settled = @ + stays]
  BY DEF Release
<1>2. me[c].day \in BOOLEAN
  BY DEF Mine
<1>3. gone \in {0, 1} /\ stays \in {0, 1} /\ stays <= gone
  BY <1>2 DEF Kept
<1>4. /\ \A f \in Entries : Out(c, f)' = 0
      /\ \A f \in Entries : Out(c, f) = IF f = e THEN gone ELSE 0
      /\ \A d \in Callers \ {c}, f \in Entries : Out(d, f)' = Out(d, f)
  BY <1>2 DEF Out, Kept
<1> HIDE DEF gone, stays
<1>5. ASSUME NEW f \in Entries
      PROVE  /\ calls'[f] \in [settled : Nat, reserved : Nat]
             /\ calls'[f].settled + calls'[f].reserved <= Daily
             /\ Out("worker", f)' + Out("page", f)' <= calls'[f].reserved
  <2>1. Out("worker", f) \in {0, 1} /\ Out("page", f) \in {0, 1}
    BY OutType DEF Callers
  <2>2. /\ calls[f] \in [settled : Nat, reserved : Nat]
        /\ calls[f].settled \in Nat /\ calls[f].reserved \in Nat
        /\ calls[f].settled + calls[f].reserved <= Daily
        /\ Out("worker", f) + Out("page", f) <= calls[f].reserved
    BY DEF DayOK
  <2>3. \/ Out("worker", f) = Out(c, f) /\ Out("worker", f)' = 0 /\ Out("page", f)' = Out("page", f)
        \/ Out("page", f) = Out(c, f) /\ Out("page", f)' = 0 /\ Out("worker", f)' = Out("worker", f)
    BY <1>4 DEF Callers
  <2>4. CASE f = e
    <3>1. calls'[f] = [calls[f] EXCEPT !.reserved = @ - gone, !.settled = @ + stays]
      BY <1>1, <2>4 DEF DayOK
    <3>2. /\ calls'[f].reserved = calls[f].reserved - gone
          /\ calls'[f].settled = calls[f].settled + stays
          /\ calls'[f] = [settled |-> calls'[f].settled, reserved |-> calls'[f].reserved]
      BY <2>2, <3>1
    <3>3. Out(c, f) = gone
      BY <1>4, <2>4
    <3>4. QED
      BY <1>3, <2>1, <2>2, <2>3, <3>2, <3>3 DEF Counted
  <2>5. CASE f # e
    <3>1. calls'[f] = calls[f]
      BY <1>1, <2>5 DEF DayOK
    <3>2. QED
      BY <2>1, <2>2, <2>3, <3>1
  <2>6. QED
    BY <2>4, <2>5
<1>6. calls' \in [Entries -> [settled : Nat, reserved : Nat]]
  <2> DEFINE new == [calls[e] EXCEPT !.reserved = @ - gone, !.settled = @ + stays]
  <2>1. calls' = [calls EXCEPT ![e] = new]
    BY <1>1
  <2> HIDE DEF new
  <2>2. \A f \in Entries : calls'[f] \in [settled : Nat, reserved : Nat]
    BY <1>5
  <2>3. QED
    BY <2>1, <2>2 DEF DayOK
<1>7. QED
  BY <1>5, <1>6 DEF DayOK

\* A call of the chain: the next entry or the end, a reservation, a call that goes out
\* or one that is back.
LEMMA StepShape ==
  ASSUME Bounded, Inv, NEW c \in Callers, Step(c)
  PROVE  /\ \A d \in Callers \ {c} : me'[d] = me[d]
         /\ me[c].at \in {"try", "gate", "out"} /\ me'[c].at \notin {"skip", "clear"}
         /\ me'[c].of \in {{}, me[c].of} /\ me'[c].tries \in {me[c].tries, 0}
         /\ UNCHANGED <<asked, pending, skipped, moved>>
         /\ UNCHANGED chance \/ Spend("rest")
         /\ \/ UNCHANGED calls /\ me'[c].at \notin {"gate", "out"}
            \/ /\ UNCHANGED calls /\ me[c].at = "gate"
               /\ me'[c].day = me[c].day /\ me'[c].entry = me[c].entry
            \/ /\ me[c].entry \in Entries /\ me[c].at = "try"
               /\ ~Full(me[c].entry) /\ Reserve(c, me[c].entry)
            \/ /\ me[c].at \in {"gate", "out"} /\ me'[c].at \notin {"gate", "out"}
               /\ \E settles \in BOOLEAN, cost \in Nat : Release(c, settles, cost)
<1>0. me \in [Callers -> Mine] /\ me[c] \in Mine
  BY DEF Inv, TypesOK
<1>1. ASSUME NEW mine, me' = [me EXCEPT ![c] = mine]
      PROVE  me'[c] = mine /\ \A d \in Callers \ {c} : me'[d] = me[d]
  BY <1>0, <1>1
<1>2. Idle.at = "idle" /\ Idle.of = {} /\ Idle.tries = 0
  BY DEF Idle
<1>3. ASSUME NEW why, Passed(c, why)
      PROVE  /\ \A d \in Callers \ {c} : me'[d] = me[d]
             /\ me'[c].at \in {"idle", "try"}
             /\ me'[c].of \in {{}, me[c].of} /\ me'[c].tries \in {me[c].tries, 0}
  <2>1. /\ NextEntry(c, why).at = "try" /\ NextEntry(c, why).of = me[c].of
        /\ NextEntry(c, why).tries = me[c].tries
    BY DEF NextEntry, Idle
  <2>2. PICK mine \in {NextEntry(c, why), Idle} : me' = [me EXCEPT ![c] = mine]
    BY <1>3 DEF Passed
  <2>3. QED
    BY <1>1, <1>2, <2>1, <2>2
<1>4. CASE Try(c)
  <2>0. me[c].at = "try" /\ UNCHANGED <<asked, pending, skipped, moved, chance>>
    BY <1>4 DEF Try
  <2>1. CASE Admission(me[c].entry) = "admitted"
    <3>1. /\ Reserve(c, me[c].entry)
          /\ me' = [me EXCEPT ![c] = [me[c] EXCEPT !.at = "gate", !.day = TRUE, !.month = TRUE]]
      BY <1>4, <2>1 DEF Try, Reserve
    <3>2. /\ me'[c].at = "gate" /\ me'[c].of = me[c].of /\ me'[c].tries = me[c].tries
          /\ \A d \in Callers \ {c} : me'[d] = me[d]
      BY <1>0, <3>1 DEF Mine
    <3>3. me[c].entry \in Entries
      BY <1>0, <1>4 DEF Try, Entries, Mine, Positive, Bounded
    <3>4. ~Full(me[c].entry)
      <4>1. down[me[c].entry] \in {Up, Resting, OwnerHold}
        BY <3>3 DEF Inv, TypesOK
      <4>2. QED
        BY <2>1, <4>1 DEF Admission, Up, Resting, OwnerHold
    <3>5. QED
      BY <2>0, <3>1, <3>2, <3>3, <3>4
  <2>2. CASE Admission(me[c].entry) # "admitted"
    <3>1. Passed(c, Admission(me[c].entry)) /\ UNCHANGED calls
      BY <1>4, <2>2 DEF Try
    <3>2. QED
      BY <1>3, <2>0, <3>1
  <2>3. QED
    BY <2>1, <2>2
<1>5. CASE Gate(c)
  <2>0. me[c].at = "gate" /\ UNCHANGED <<asked, pending, skipped, moved, chance>>
    BY <1>5 DEF Gate
  <2>1. CASE c = "worker" /\ moved
    <3>1. me' = [me EXCEPT ![c] = Idle] /\ Release(c, FALSE, 0)
      BY <1>5, <2>1 DEF Gate
    <3>2. \E settles \in BOOLEAN, cost \in Nat : Release(c, settles, cost)
      <4>1. FALSE \in BOOLEAN /\ 0 \in Nat
        OBVIOUS
      <4>2. QED
        BY <3>1, <4>1
    <3>3. me'[c] = Idle /\ \A d \in Callers \ {c} : me'[d] = me[d]
      BY <1>1, <3>1
    <3>4. QED
      BY <1>2, <2>0, <3>2, <3>3
  <2>2. CASE ~(c = "worker" /\ moved)
    <3> DEFINE mine == [me[c] EXCEPT !.at = "out", !.room = ~Full(me[c].entry)]
    <3>1. me' = [me EXCEPT ![c] = mine] /\ UNCHANGED calls
      BY <1>5, <2>2 DEF Gate
    <3>2. \A room : LET new == [me[c] EXCEPT !.at = "out", !.room = room]
                    IN  /\ new.at = "out" /\ new.of = me[c].of /\ new.tries = me[c].tries
                        /\ new.day = me[c].day /\ new.entry = me[c].entry
      BY <1>0 DEF Mine
    <3>3. /\ mine.at = "out" /\ mine.of = me[c].of /\ mine.tries = me[c].tries
          /\ mine.day = me[c].day /\ mine.entry = me[c].entry
      BY <3>2, Zenon
    <3> HIDE DEF mine
    <3>4. QED
      BY <1>1, <2>0, <3>1, <3>3
  <2>3. QED
    BY <2>1, <2>2
<1>6. CASE Answered(c)
  <2>0. me[c].at = "out" /\ UNCHANGED <<asked, pending, skipped, moved>>
    BY <1>6 DEF Answered
  <2>1. UNCHANGED chance \/ Spend("rest")
    BY <1>6 DEF Answered
  <2>2. \E cost \in Nat : Release(c, TRUE, cost)
    <3>1. PICK a \in Answers(c) : \E cost \in Costs(c, a) : Release(c, TRUE, cost)
      BY <1>6 DEF Answered
    <3>2. Costs(c, a) \subseteq Nat
      BY PriceType DEF Costs, Answers
    <3>3. QED
      BY <3>1, <3>2
  <2>3. \/ \E why : Passed(c, why)
        \/ me' = [me EXCEPT ![c] = Idle]
        \/ me' = [me EXCEPT ![c] = [Idle EXCEPT !.at = "cover", !.of = me[c].of]]
    BY <1>6 DEF Answered
  <2>4. LET new == [Idle EXCEPT !.at = "cover", !.of = me[c].of]
        IN  new.at = "cover" /\ new.of = me[c].of /\ new.tries = 0
    BY DEF Idle
  <2>5. /\ \A d \in Callers \ {c} : me'[d] = me[d]
        /\ me'[c].at \in {"idle", "try", "cover"}
        /\ me'[c].of \in {{}, me[c].of} /\ me'[c].tries \in {me[c].tries, 0}
    BY <1>1, <1>2, <1>3, <2>3, <2>4
  <2>6. QED
    BY <2>0, <2>1, <2>2, <2>5
<1>7. CASE Again(c)
  <2>1. /\ me' = [me EXCEPT ![c] = [me[c] EXCEPT !.at = "try", !.again = TRUE]]
        /\ Release(c, TRUE, 0) /\ me[c].at = "out"
        /\ UNCHANGED <<asked, pending, skipped, moved, chance>>
    BY <1>7 DEF Again
  <2>2. LET new == [me[c] EXCEPT !.at = "try", !.again = TRUE]
        IN  new.at = "try" /\ new.of = me[c].of /\ new.tries = me[c].tries
    BY <1>0 DEF Mine
  <2>3. QED
    BY <1>1, <2>1, <2>2
<1>8. QED
  BY <1>4, <1>5, <1>6, <1>7 DEF Step

\* What is tried, held or skipped, after a step that asks no other window.
LEMMA WindowFrame ==
  ASSUME WindowOK, UNCHANGED <<asked, skipped>>, moved' \in BOOLEAN, chance' \in [Chances -> Nat],
         pending'.of = pending.of /\ pending'.tries = pending.tries,
         \A c \in Callers : me'[c].of \in {{}, me[c].of} /\ me'[c].tries \in {me[c].tries, 0},
         \/ me'["worker"].at \in {me["worker"].at, "idle", "clear"}
         \/ me["worker"].at \in {"try", "gate", "out", "cover", "skip"}
  PROVE  WindowOK'
<1>1. \A c \in Callers : me'[c].of \subseteq Requests /\ me'[c].tries < Attempts
  BY DEF WindowOK, Attempts
<1>2. me'["worker"].at \in {"try", "gate", "out", "cover", "skip"} => asked.window <= Windows
  BY DEF WindowOK
<1>3. QED
  BY <1>1, <1>2 DEF WindowOK

LEMMA CallKeeps ==
  ASSUME Bounded, Counted, Inv, DayOK, WindowOK, NEW c \in Callers, Step(c)
  PROVE  DayOK' /\ WindowOK'
<1>0. me \in [Callers -> Mine]
  BY DEF Inv, TypesOK
<1>1. /\ \A d \in Callers \ {c} : me'[d] = me[d]
      /\ me[c].at \in {"try", "gate", "out"} /\ me'[c].at \notin {"skip", "clear"}
      /\ me'[c].of \in {{}, me[c].of} /\ me'[c].tries \in {me[c].tries, 0}
      /\ UNCHANGED <<asked, pending, skipped, moved>>
      /\ UNCHANGED chance \/ Spend("rest")
  BY StepShape
<1>2. WindowOK'
  <2>1. chance' \in [Chances -> Nat]
    BY <1>1, SpendType DEF WindowOK, Chances
  <2>2. \A d \in Callers : me'[d].of \in {{}, me[d].of} /\ me'[d].tries \in {me[d].tries, 0}
    BY <1>1
  <2>3. \/ me'["worker"].at \in {me["worker"].at, "idle", "clear"}
        \/ me["worker"].at \in {"try", "gate", "out", "cover", "skip"}
    BY <1>1 DEF Callers
  <2>4. moved' \in BOOLEAN
    BY <1>1 DEF WindowOK
  <2>5. QED
    BY <1>1, <2>1, <2>2, <2>3, <2>4, WindowFrame
<1>3. \A d \in Callers \ {c}, e \in Entries : Out(d, e)' = Out(d, e)
  BY <1>1 DEF Out
<1>4. CASE UNCHANGED calls /\ me'[c].at \notin {"gate", "out"}
  <2>1. \A e \in Entries : Out(c, e)' = 0
    BY <1>4 DEF Out
  <2>2. QED
    BY <1>2, <1>3, <1>4, <2>1, DayFrame
<1>5. CASE /\ UNCHANGED calls /\ me[c].at = "gate"
           /\ me'[c].day = me[c].day /\ me'[c].entry = me[c].entry
  <2>1. \A e \in Entries : Out(c, e)' = 0 \/ Out(c, e)' = Out(c, e)
    BY <1>5 DEF Out
  <2>2. QED
    BY <1>2, <1>3, <1>5, <2>1, DayFrame
<1>6. CASE /\ me[c].entry \in Entries /\ me[c].at = "try"
           /\ ~Full(me[c].entry) /\ Reserve(c, me[c].entry)
  BY <1>0, <1>2, <1>6, DayReserve
<1>7. CASE /\ me[c].at \in {"gate", "out"} /\ me'[c].at \notin {"gate", "out"}
           /\ \E settles \in BOOLEAN, cost \in Nat : Release(c, settles, cost)
  BY <1>0, <1>1, <1>2, <1>7, DayRelease
<1>8. QED
  BY <1>4, <1>5, <1>6, <1>7, StepShape

\* What of the next state the window's part needs, when no call is out after the step.
LEMMA QuietDay ==
  ASSUME Bounded, DayOK, UNCHANGED calls,
         \A c \in Callers : me'[c] = me[c] \/ me'[c].at \notin {"gate", "out"}
  PROVE  DayOK'
<1>1. \A c \in Callers, e \in Entries : Out(c, e)' = 0 \/ Out(c, e)' = Out(c, e)
  BY DEF Out
<1>2. QED
  BY <1>1, DayFrame

LEMMA WorkKeeps ==
  ASSUME Bounded, Counted, Inv, DayOK, WindowOK, Cut \/ Failed \/ Cover \/ ClearPending
  PROVE  DayOK' /\ WindowOK'
<1>0. me \in [Callers -> Mine] /\ "worker" \in Callers /\ me["worker"] \in Mine
  BY DEF Inv, TypesOK, Callers
<1>1. UNCHANGED <<calls, chance>>
  BY DEF Cut, Failed, Cover, ClearPending, ledger
<1>2. ASSUME NEW mine, me' = [me EXCEPT !["worker"] = mine], mine.at \notin {"gate", "out"},
             mine.of \subseteq Requests, mine.tries < Attempts
      PROVE  /\ DayOK' /\ me'["worker"] = mine
             /\ \A c \in Callers : me'[c].of \subseteq Requests /\ me'[c].tries < Attempts
  <2>1. me'["worker"] = mine /\ \A c \in Callers \ {"worker"} : me'[c] = me[c]
    BY <1>0, <1>2
  <2>2. DayOK'
    BY <1>1, <1>2, <2>1, QuietDay
  <2>3. QED
    BY <1>2, <2>1, <2>2 DEF WindowOK
<1>3. /\ Idle.at = "idle" /\ Idle.of \subseteq Requests /\ Idle.tries < Attempts
  BY DEF Idle, Attempts
<1>4. CASE Cut
  <2> DEFINE tries == IF Same THEN pending.tries ELSE 0
             mine == [Idle EXCEPT !.at = "try", !.of = {asked}, !.tries = tries]
  <2>1. /\ me' = [me EXCEPT !["worker"] = mine] /\ asked.window <= Windows
        /\ moved' = FALSE /\ UNCHANGED <<asked, pending, skipped>>
    BY <1>4 DEF Cut, ReadNow
  <2>2. tries < Attempts /\ {asked} \subseteq Requests
    BY DEF WindowOK, Attempts
  <2>3. mine.at = "try" /\ mine.of = {asked} /\ mine.tries = tries
    BY DEF Idle
  <2> HIDE DEF mine, tries
  <2>4. QED
    BY <1>1, <1>2, <2>1, <2>2, <2>3 DEF WindowOK
<1>5. CASE Failed
  <2> DEFINE tries == me["worker"].tries + Kept(Counts(me["worker"].skips), 1)
  <2>1. me["worker"].at = "try" /\ UNCHANGED <<asked, moved, skipped>>
    BY <1>5 DEF Failed
  <2>2. asked.window <= Windows
    BY <2>1 DEF WindowOK
  <2>3. me["worker"].of \subseteq Requests /\ me["worker"].tries < Attempts
    BY <1>0 DEF WindowOK
  <2>4. CASE tries >= Attempts
    <3>1. me' = [me EXCEPT !["worker"] = [me["worker"] EXCEPT !.at = "skip"]] /\ pending' = pending
      BY <1>5, <2>4 DEF Failed
    <3>2. LET new == [me["worker"] EXCEPT !.at = "skip"]
          IN  new.at = "skip" /\ new.of = me["worker"].of /\ new.tries = me["worker"].tries
      BY <1>0 DEF Mine
    <3>3. QED
      BY <1>1, <1>2, <2>1, <2>2, <2>3, <3>1, <3>2 DEF WindowOK
  <2>5. CASE ~(tries >= Attempts)
    <3>1. /\ me' = [me EXCEPT !["worker"] = Idle]
          /\ pending'.of = me["worker"].of /\ pending'.tries = tries
      BY <1>5, <2>5 DEF Failed
    <3>2. tries \in Nat
      <4>1. Counts(me["worker"].skips) \in BOOLEAN
        BY DEF Counts
      <4>2. QED
        BY <1>0, <4>1, KeptType DEF Mine
    <3>3. pending'.of \subseteq Requests /\ pending'.tries < Attempts
      BY <2>3, <2>5, <3>1, <3>2 DEF Attempts
    <3>4. QED
      BY <1>1, <1>2, <1>3, <2>1, <3>1, <3>3 DEF WindowOK
  <2>6. QED
    BY <2>4, <2>5
<1>6. CASE Cover
  <2>1. me["worker"].at \in {"cover", "skip"} /\ UNCHANGED <<pending, moved>>
    BY <1>6 DEF Cover
  <2>2. asked.window \in 1 .. Windows
    BY <2>1 DEF WindowOK, Requests, Counted
  <2>3. CASE moved
    <3>1. me' = [me EXCEPT !["worker"] = Idle] /\ UNCHANGED <<asked, skipped>>
      BY <1>6, <2>3 DEF Cover
    <3>2. QED
      BY <1>1, <1>2, <1>3, <2>1, <3>1 DEF WindowOK
  <2>4. CASE ~moved
    <3>1. /\ skipped' = skipped \cup {w \in {asked.window} : me["worker"].at = "skip"}
          /\ asked' = [window |-> asked.window + 1, change |-> 0, grown |-> 0]
          /\ me' = [me EXCEPT !["worker"] = [Idle EXCEPT !.at = "clear"]]
      BY <1>6, <2>4 DEF Cover
    <3>2. LET new == [Idle EXCEPT !.at = "clear"]
          IN  new.at = "clear" /\ new.of \subseteq Requests /\ new.tries < Attempts
      BY DEF Idle, Attempts
    <3>3. asked' \in Requests /\ skipped' \subseteq 1 .. Windows
      BY <2>2, <3>1 DEF Requests, WindowOK, Counted
    <3>4. QED
      BY <1>1, <1>2, <2>1, <3>1, <3>2, <3>3 DEF WindowOK
  <2>5. QED
    BY <2>3, <2>4
<1>7. CASE ClearPending
  <2>1. /\ me' = [me EXCEPT !["worker"] = Idle] /\ pending' = NotHeld
        /\ UNCHANGED <<asked, moved, skipped>>
    BY <1>7 DEF ClearPending
  <2>2. pending'.of \subseteq Requests /\ pending'.tries < Attempts
    BY <2>1 DEF NotHeld, Attempts
  <2>3. QED
    BY <1>1, <1>2, <1>3, <2>1, <2>2 DEF WindowOK
<1>8. QED
  BY <1>4, <1>5, <1>6, <1>7

\* Calls that left their day are out of it.
LEMMA DayGone ==
  ASSUME Counted, DayOK, NEW S \in SUBSET Entries,
         calls' = [e \in Entries |-> IF e \in S THEN [settled |-> 0, reserved |-> 0] ELSE calls[e]],
         \A c \in Callers, e \in Entries : Out(c, e)' = (IF e \in S THEN 0 ELSE Out(c, e))
  PROVE  DayOK'
<1>1. calls' \in [Entries -> [settled : Nat, reserved : Nat]]
  BY DEF DayOK
<1>2. ASSUME NEW e \in Entries
      PROVE  /\ calls'[e].settled + calls'[e].reserved <= Daily
             /\ Out("worker", e)' + Out("page", e)' <= calls'[e].reserved
  <2>1. CASE e \in S
    <3>1. calls'[e].settled = 0 /\ calls'[e].reserved = 0
      BY <2>1
    <3>2. Out("worker", e)' = 0 /\ Out("page", e)' = 0
      BY <2>1 DEF Callers
    <3>3. QED
      BY <3>1, <3>2 DEF Counted
  <2>2. CASE e \notin S
    <3>1. calls'[e] = calls[e]
      BY <2>2
    <3>2. Out("worker", e)' = Out("worker", e) /\ Out("page", e)' = Out("page", e)
      BY <2>2 DEF Callers
    <3>3. QED
      BY <3>1, <3>2 DEF DayOK
  <2>3. QED
    BY <2>1, <2>2
<1>3. QED
  BY <1>1, <1>2 DEF DayOK

LEMMA OthersKeep ==
  ASSUME Bounded, Counted, Inv, DayOK, WindowOK,
         \/ \E c \in Callers : Killed(c)
         \/ \E e \in Entries : Probe(e) \/ Resume(e) \/ RestEnds(e) \/ DayPasses(e)
         \/ Changes \/ Grows \/ Forgets \/ WaitEnds \/ MonthTurns
  PROVE  DayOK' /\ WindowOK'
<1>0. /\ me \in [Callers -> Mine] /\ "page" \in Callers /\ "worker" \in Callers
      /\ chance \in [Chances -> Nat] /\ moved \in BOOLEAN /\ asked \in Requests
  BY DEF Inv, TypesOK, Callers, WindowOK
<1>1. Idle.at = "idle" /\ Idle.of = {} /\ Idle.tries = 0
  BY DEF Idle
<1>2. ASSUME NEW c \in Callers, Killed(c) PROVE DayOK' /\ WindowOK'
  <2>1. /\ me'[c] = Idle /\ \A d \in Callers \ {c} : me'[d] = me[d]
        /\ UNCHANGED <<calls, pending, asked, moved, skipped>> /\ Spend("kill")
    BY <1>0, <1>2 DEF Killed
  <2>2. DayOK'
    BY <1>1, <2>1, QuietDay
  <2>3. chance' \in [Chances -> Nat]
    BY <1>0, <2>1, SpendType DEF Chances
  <2>4. /\ \A d \in Callers : me'[d].of \in {{}, me[d].of} /\ me'[d].tries \in {me[d].tries, 0}
        /\ me'["worker"].at \in {me["worker"].at, "idle", "clear"}
    BY <1>0, <1>1, <2>1
  <2>5. QED
    BY <1>0, <2>1, <2>2, <2>3, <2>4, WindowFrame
<1>3. ASSUME NEW e \in Entries, Probe(e) PROVE DayOK' /\ WindowOK'
  <2>1. /\ me'["page"] = [Idle EXCEPT !.at = "try", !.entry = e]
        /\ \A d \in Callers \ {"page"} : me'[d] = me[d]
        /\ UNCHANGED <<calls, pending, asked, moved, skipped>> /\ Spend("probe")
    BY <1>0, <1>3 DEF Probe, ledger
  <2>2. me'["page"].at = "try" /\ me'["page"].of = {} /\ me'["page"].tries = 0
    BY <2>1 DEF Idle
  <2>3. DayOK'
    BY <2>1, <2>2, QuietDay
  <2>4. chance' \in [Chances -> Nat]
    BY <1>0, <2>1, SpendType DEF Chances
  <2>5. /\ \A d \in Callers : me'[d].of \in {{}, me[d].of} /\ me'[d].tries \in {me[d].tries, 0}
        /\ me'["worker"].at \in {me["worker"].at, "idle", "clear"}
    BY <1>0, <2>1, <2>2 DEF Callers
  <2>6. QED
    BY <1>0, <2>1, <2>3, <2>4, <2>5, WindowFrame
<1>4. ASSUME UNCHANGED <<calls, me>> PROVE DayOK'
  BY <1>4, QuietDay
<1>5. ASSUME UNCHANGED <<me, asked, skipped>>, moved' \in BOOLEAN, chance' \in [Chances -> Nat],
             pending'.of = pending.of, pending'.tries = pending.tries
      PROVE  WindowOK'
  BY <1>5, WindowFrame
<1>6. CASE (\E e \in Entries : Resume(e) \/ RestEnds(e)) \/ WaitEnds
  <2>1. UNCHANGED <<calls, me, asked, skipped, moved, chance>>
    BY <1>6 DEF Resume, RestEnds, WaitEnds, ledger
  <2>2. pending'.of = pending.of /\ pending'.tries = pending.tries
    <3>1. CASE \E e \in Entries : Resume(e)
      <4>1. PICK due : pending' = [pending EXCEPT !.due = due]
        BY <3>1 DEF Resume
      <4>2. QED
        BY <4>1
    <3>2. CASE WaitEnds
      <4>1. pending' = [pending EXCEPT !.due = TRUE]
        BY <3>2 DEF WaitEnds
      <4>2. QED
        BY <4>1
    <3>3. CASE \E e \in Entries : RestEnds(e)
      BY <3>3 DEF RestEnds
    <3>4. QED
      BY <1>6, <3>1, <3>2, <3>3
  <2>3. QED
    BY <1>0, <1>4, <1>5, <2>1, <2>2
<1>7. CASE Forgets
  <2>1. UNCHANGED <<calls, me, asked, skipped, pending>> /\ moved' = TRUE /\ Spend("forget")
    BY <1>7 DEF Forgets, ledger
  <2>2. chance' \in [Chances -> Nat]
    BY <1>0, <2>1, SpendType DEF Chances
  <2>3. QED
    BY <1>4, <1>5, <2>1, <2>2
<1>8. CASE Changes \/ Grows
  <2>1. /\ UNCHANGED <<calls, me, skipped, pending, moved>>
        /\ Spend("change") \/ Spend("grow")
    BY <1>8 DEF Changes, Grows, ledger
  <2>2. asked' \in Requests /\ asked'.window = asked.window
    BY <1>0, <1>8 DEF Changes, Grows, Requests
  <2>3. chance' \in [Chances -> Nat]
    BY <1>0, <2>1, SpendType DEF Chances
  <2>4. WindowOK'
    BY <1>8, <2>2, <2>3 DEF WindowOK, Changes, Grows
  <2>5. QED
    BY <1>4, <1>8, <2>4 DEF Changes, Grows, ledger
<1>9. ASSUME NEW e \in Entries, DayPasses(e) PROVE DayOK' /\ WindowOK'
  <2>1. /\ calls' = [calls EXCEPT ![e] = [settled |-> 0, reserved |-> 0]] /\ Spend("day")
        /\ UNCHANGED <<pending, asked, moved, skipped>>
        /\ \A c \in Callers : me'[c] = IF me[c].entry = e THEN [me[c] EXCEPT !.day = FALSE] ELSE me[c]
    BY <1>9 DEF DayPasses
  <2>2. \A c \in Callers : /\ me'[c].at = me[c].at /\ me'[c].entry = me[c].entry
                           /\ me'[c].of = me[c].of /\ me'[c].tries = me[c].tries
                           /\ me'[c].day = (IF me[c].entry = e THEN FALSE ELSE me[c].day)
    BY <1>0, <2>1 DEF Mine
  <2>3. \A c \in Callers, f \in Entries : Out(c, f)' = (IF f \in {e} THEN 0 ELSE Out(c, f))
    BY <2>2 DEF Out
  <2>4. calls' = [f \in Entries |-> IF f \in {e} THEN [settled |-> 0, reserved |-> 0] ELSE calls[f]]
    BY <2>1 DEF DayOK
  <2>5. DayOK'
    BY <2>3, <2>4, DayGone
  <2>6. chance' \in [Chances -> Nat]
    BY <1>0, <2>1, SpendType DEF Chances
  <2>7. QED
    BY <1>0, <2>1, <2>2, <2>5, <2>6, WindowFrame
<1>10. CASE MonthTurns
  <2>1. /\ calls' = [e \in Entries |-> [settled |-> 0, reserved |-> 0]] /\ Spend("month")
        /\ UNCHANGED <<asked, moved, skipped>> /\ pending' = [pending EXCEPT !.due = TRUE]
        /\ \A c \in Callers : me'[c] = [me[c] EXCEPT !.day = FALSE, !.month = FALSE]
    BY <1>10 DEF MonthTurns
  <2>2. \A c \in Callers : /\ me'[c].at = me[c].at /\ me'[c].day = FALSE
                           /\ me'[c].of = me[c].of /\ me'[c].tries = me[c].tries
    <3>1. SUFFICES ASSUME NEW c \in Callers
                   PROVE  /\ me'[c].at = me[c].at /\ me'[c].day = FALSE
                          /\ me'[c].of = me[c].of /\ me'[c].tries = me[c].tries
      OBVIOUS
    <3>2. me[c] \in Mine
      BY <1>0
    <3>3. me'[c] = [me[c] EXCEPT !.day = FALSE, !.month = FALSE]
      BY <2>1
    <3>4. QED
      BY <3>2, <3>3 DEF Mine
  <2>3. \A c \in Callers, f \in Entries : Out(c, f)' = (IF f \in Entries THEN 0 ELSE Out(c, f))
    BY <2>2 DEF Out
  <2>4. calls' = [f \in Entries |-> IF f \in Entries THEN [settled |-> 0, reserved |-> 0] ELSE calls[f]]
    BY <2>1
  <2>5. DayOK'
    BY <2>3, <2>4, DayGone
  <2>6. chance' \in [Chances -> Nat]
    BY <1>0, <2>1, SpendType DEF Chances
  <2>7. pending'.of = pending.of /\ pending'.tries = pending.tries
    <3>1. pending' = [pending EXCEPT !.due = TRUE]
      BY <2>1
    <3>2. QED
      BY <3>1
  <2>8. QED
    BY <1>0, <2>1, <2>2, <2>5, <2>6, <2>7, WindowFrame
<1>11. QED
  BY <1>2, <1>3, <1>6, <1>7, <1>8, <1>9, <1>10

LEMMA WholeInit == ASSUME Bounded, Counted PROVE Init => Inv /\ TriesOK /\ DayOK /\ WindowOK
<1> SUFFICES ASSUME Init PROVE DayOK /\ WindowOK
  BY InvInit, TriesInit
<1>1. \A c \in Callers : me[c].at = "idle" /\ me[c].of = {} /\ me[c].tries = 0
  BY DEF Init, Idle
<1>2. DayOK
  <2>1. \A c \in Callers, e \in Entries : Out(c, e) = 0
    BY <1>1 DEF Out
  <2>2. \A e \in Entries : calls[e].settled = 0 /\ calls[e].reserved = 0
    BY DEF Init
  <2>3. QED
    BY <2>1, <2>2 DEF Init, DayOK, Callers, Counted
<1>3. WindowOK
  <2>1. asked \in Requests
    BY DEF Init, Requests, Counted
  <2>2. pending.of = {} /\ pending.tries = 0
    BY DEF Init, NotHeld
  <2>3. pending.of \subseteq Requests /\ pending.tries < Attempts
    BY <2>2 DEF Attempts
  <2>4. \A c \in Callers : me[c].of \subseteq Requests /\ me[c].tries < Attempts
    BY <1>1 DEF Attempts
  <2>5. moved \in BOOLEAN /\ skipped = {} /\ chance \in [Chances -> Nat] /\ me["worker"].at = "idle"
    BY <1>1 DEF Init, Counted, Callers
  <2>6. QED
    BY <2>1, <2>3, <2>4, <2>5 DEF WindowOK
<1>4. QED
  BY <1>2, <1>3

LEMMA WholeNext ==
  ASSUME Bounded, Counted
  PROVE  Inv /\ TriesOK /\ DayOK /\ WindowOK /\ [Next]_vars => (Inv /\ TriesOK /\ DayOK /\ WindowOK)'
<1> SUFFICES ASSUME Inv, TriesOK, DayOK, WindowOK, [Next]_vars PROVE DayOK' /\ WindowOK'
  BY InvNext, TriesNext
<1>1. ASSUME NEW c \in Callers, Step(c) PROVE DayOK' /\ WindowOK'
  BY <1>1, CallKeeps
<1>2. ASSUME Cut \/ Failed \/ Cover \/ ClearPending PROVE DayOK' /\ WindowOK'
  BY <1>2, WorkKeeps
<1>3. ASSUME \/ \E c \in Callers : Killed(c)
             \/ \E e \in Entries : Probe(e) \/ Resume(e) \/ RestEnds(e) \/ DayPasses(e)
             \/ Changes \/ Grows \/ Forgets \/ WaitEnds \/ MonthTurns
      PROVE  DayOK' /\ WindowOK'
  BY <1>3, OthersKeep
<1>4. CASE UNCHANGED vars
  BY <1>4 DEF vars, ledger, DayOK, WindowOK, Out
<1>5. QED
  BY <1>1, <1>2, <1>3, <1>4 DEF Next, Worker, Callers

LEMMA WholeTypes == ASSUME Bounded, Counted PROVE Inv /\ TriesOK /\ DayOK /\ WindowOK => TypeOK
<1> SUFFICES ASSUME Inv, TriesOK, DayOK, WindowOK PROVE TypeOK
  OBVIOUS
<1>1. calls \in [Entries -> [settled : 0 .. Daily, reserved : 0 .. Daily]]
  <2>1. ASSUME NEW e \in Entries PROVE calls[e] \in [settled : 0 .. Daily, reserved : 0 .. Daily]
    <3>1. /\ calls[e] \in [settled : Nat, reserved : Nat]
          /\ calls[e].settled + calls[e].reserved <= Daily
      BY DEF DayOK
    <3>2. QED
      BY <3>1 DEF Counted
  <2>2. QED
    BY <2>1 DEF DayOK
<1>2. usd \in [settled : 0 .. Cap, reserved : 0 .. Cap] /\ billed \in Nat
  BY DEF Inv, MoneyOK, Bounded
<1>3. pending.tries \in 0 .. Attempts - 1 /\ \A c \in Callers : me[c].tries \in 0 .. Attempts - 1
  <2>1. pending.tries \in Nat /\ \A c \in Callers : me[c].tries \in Nat
    BY DEF Inv, TypesOK, Mine
  <2>2. QED
    BY <2>1 DEF WindowOK, Attempts
<1>4. QED
  BY <1>1, <1>2, <1>3 DEF TypeOK, Inv, TypesOK, WindowOK, TriesOK

\* No entry's calls of a day exceed its budget, nor a month's reservations the cap; no window
\* beyond the last is tried or skipped, and none is held after its third try (TypeOK).
THEOREM TypeCorrect == Bounded /\ Counted => (Spec => []TypeOK)
<1> SUFFICES ASSUME Bounded, Counted PROVE Spec => []TypeOK
  OBVIOUS
<1>1. QED
  BY WholeInit, WholeNext, WholeTypes, PTL DEF Spec
=============================================================================
