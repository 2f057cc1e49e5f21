---------------------------- MODULE HealthProofs ----------------------------
(***************************************************************************)
(* What TLAPS proves of the parts that watch whether the others work.  Of  *)
(* Watchdog.tla: for any number of calls and any timeouts, only a stuck    *)
(* worker is made to leave, and a stuck one is.  Of Marker.tla: for any    *)
(* number of hooks and any overlap the marker says what the write that     *)
(* ended last says.                                                        *)
(***************************************************************************)
EXTENDS Watchdog, Integers, TLAPS

CONSTANTS Hooks, Overlap, Latest
VARIABLES clock, ends, marker, applied

M == INSTANCE Marker
-----------------------------------------------------------------------------
(* The watchdog.                                                           *)


Bounded == Still \in Nat /\ Timeouts \subseteq Nat \ {0} /\ MaxMarks \in Nat

\* The allowance covers every call out, and there is none without a call.
AllowanceOK ==
  /\ \A c \in Calls : call[c] <= allowance
  /\ Out = {} => allowance = 0

\* What the watch remembers is what the looks so far saw.
WatchOK ==
  /\ last <= seen.marks /\ seen.marks <= marks
  /\ fresh <=> marks > seen.marks
  /\ seen.allowed >= Still /\ \A t \in truth.owed : seen.allowed >= t
  /\ truth.owed = {} => seen.allowed = Still
  /\ at \in {"looks", "stuck"} => last = seen.marks /\ unchanged = truth.quiet
  /\ at = "looks" => unchanged <= seen.allowed
  /\ at = "stuck" => unchanged > seen.allowed
  /\ at = "judges" => truth.quiet = IF seen.marks = last /\ seen.marks # 0 THEN unchanged + 1 ELSE 0
  /\ seen.marks = 0 => unchanged = 0

Inv == TypeOK /\ AllowanceOK /\ WatchOK

LEMMA CallType ==
  ASSUME Timeouts \subseteq Nat \ {0}, call \in [Calls -> Timeouts \cup {0}]
  PROVE  \A c \in Calls : call[c] \in Nat
<1>1. ASSUME NEW c \in Calls PROVE call[c] \in Nat
  <2>1. call[c] \in Timeouts \cup {0}
    OBVIOUS
  <2>2. CASE call[c] = 0
    BY <2>2
  <2>3. CASE call[c] \in Timeouts
    BY <2>3
  <2>4. QED
    BY <2>1, <2>2, <2>3
<1>2. QED
  BY <1>1

LEMMA InvNext == ASSUME Bounded PROVE Inv /\ [Next]_vars => Inv'
<1> SUFFICES ASSUME Inv, [Next]_vars PROVE Inv'
  OBVIOUS
<1> USE DEF Bounded, Inv, TypeOK
<1>8. \A c \in Calls : call[c] \in Nat
  BY CallType
<1>0. ASSUME Mark, UNCHANGED <<last, unchanged, seen, at, truth>>
      PROVE  WatchOK' /\ marks' \in 0 .. MaxMarks /\ fresh' \in BOOLEAN
  BY <1>0 DEF Mark, WatchOK
<1>1. ASSUME progressed PROVE Inv'
  BY <1>0, <1>1 DEF progressed, AllowanceOK, Out
<1>2. ASSUME NEW c \in Calls, calling(c) PROVE Inv'
  <2>1. PICK timeout \in Timeouts :
          call' = [call EXCEPT ![c] = timeout] /\ allowance' = Longer(allowance, timeout)
    BY <1>2 DEF calling
  <2>2. WatchOK' /\ marks' \in 0 .. MaxMarks /\ fresh' \in BOOLEAN
    BY <1>0, <1>2 DEF calling
  <2>3. AllowanceOK' /\ call' \in [Calls -> Timeouts \cup {0}] /\ allowance' \in Timeouts \cup {0}
    <3>1. /\ allowance' \in Timeouts \cup {0} /\ allowance' >= allowance /\ allowance' >= timeout
          /\ timeout \in Nat \ {0} /\ allowance \in Nat
      BY <2>1 DEF Longer
    <3>2. call' \in [Calls -> Timeouts \cup {0}]
      BY <2>1
    <3>3. \A d \in Calls : call'[d] <= allowance'
      <4>1. \A d \in Calls : call'[d] = call[d] \/ call'[d] = timeout
        BY <2>1
      <4>2. QED
        BY <1>8, <3>1, <4>1 DEF AllowanceOK
    <3>4. c \in Out'
      BY <2>1, <3>1 DEF Out
    <3>5. QED
      BY <3>1, <3>2, <3>3, <3>4 DEF AllowanceOK
  <2>4. QED
    BY <1>2, <2>2, <2>3 DEF calling
<1>3. ASSUME NEW c \in Calls, returned(c) PROVE Inv'
  <2>1. WatchOK' /\ marks' \in 0 .. MaxMarks /\ fresh' \in BOOLEAN
    BY <1>0, <1>3 DEF returned
  <2>2. AllowanceOK' /\ call' \in [Calls -> Timeouts \cup {0}] /\ allowance' \in Timeouts \cup {0}
    <3>1. call' \in [Calls -> Timeouts \cup {0}] /\ call'[c] = 0
      BY <1>3 DEF returned
    <3>2. \A d \in Calls \ {c} : call'[d] = call[d]
      BY <1>3 DEF returned
    <3>3. CASE Out = {c}
      <4>1. \A d \in Calls : call'[d] = 0
        <5>1. \A d \in Calls \ {c} : call[d] = 0
          BY <3>3, <1>8 DEF Out
        <5>2. QED
          BY <3>1, <3>2, <5>1
      <4>2. allowance' = 0
        BY <1>3, <3>3 DEF returned
      <4>3. QED
        BY <3>1, <4>1, <4>2 DEF AllowanceOK
    <3>4. CASE Out # {c}
      <4>1. PICK d \in Out : d # c
        BY <1>3, <3>4 DEF returned
      <4>2. d \in Out'
        BY <3>2, <4>1 DEF Out
      <4>3. allowance' = allowance
        BY <1>3, <3>4 DEF returned
      <4>4. QED
        BY <3>1, <3>2, <4>2, <4>3 DEF AllowanceOK
    <3>5. QED
      BY <3>3, <3>4
  <2>3. QED
    BY <1>3, <2>1, <2>2 DEF returned
<1>4. ASSUME Look PROVE Inv'
  <2>1. /\ at = "looks" /\ at' = "judges"
        /\ seen' = [marks |-> marks, allowed |-> Longer(Still, allowance)]
        /\ truth' = [quiet |-> IF fresh \/ marks = 0 THEN 0 ELSE truth.quiet + 1,
                     owed |-> {call[c] : c \in Out}]
        /\ fresh' = FALSE /\ UNCHANGED <<marks, allowance, call, last, unchanged>>
    BY <1>4 DEF Look, Saw
  <2>2. {call[c] : c \in Out} \subseteq Timeouts
    BY DEF Out
  <2>3. /\ Longer(Still, allowance) \in Nat
        /\ Longer(Still, allowance) >= Still /\ Longer(Still, allowance) >= allowance
    BY DEF Longer
  <2>4. \A t \in {call[c] : c \in Out} : t <= allowance
    BY DEF AllowanceOK, Out
  <2>5. {call[c] : c \in Out} = {} => allowance = 0
    BY DEF AllowanceOK
  <2>6. allowance = 0 => Longer(Still, allowance) = Still
    BY DEF Longer
  <2> DEFINE owed == {call[c] : c \in Out}
             allowed == Longer(Still, allowance)
  <2>7. /\ seen'.marks = marks /\ seen'.allowed = allowed /\ truth'.owed = owed
        /\ truth'.quiet = IF fresh \/ marks = 0 THEN 0 ELSE truth.quiet + 1
    BY <2>1
  <2>8. TypeOK'
    <3>1. seen' \in [marks : 0 .. MaxMarks, allowed : Nat]
      BY <2>1, <2>3
    <3>2. truth' \in [quiet : Nat, owed : SUBSET Timeouts]
      BY <2>1, <2>2
    <3>3. QED
      BY <2>1, <3>1, <3>2
  <2>9. AllowanceOK'
    BY <2>1 DEF AllowanceOK, Out
  <2>10. WatchOK'
    <3> HIDE DEF owed, allowed
    <3>1. \A t \in owed : allowed >= t
      <4>1. \A t \in owed : t <= allowance /\ t \in Nat
        BY <2>2, <2>4 DEF owed
      <4>2. QED
        BY <2>3, <4>1 DEF allowed
    <3>2. owed = {} => allowed = Still
      BY <2>5, <2>6 DEF owed, allowed
    <3>3. allowed \in Nat /\ allowed >= Still
      BY <2>3 DEF allowed
    <3>4. QED
      BY <2>1, <2>7, <3>1, <3>2, <3>3 DEF WatchOK
  <2>11. QED
    BY <2>8, <2>9, <2>10
<1>5. ASSUME Judge PROVE Inv'
  <2>1. AllowanceOK'
    BY <1>5 DEF Judge, AllowanceOK, Out
  <2>2. CASE seen.marks = 0
    BY <1>5, <2>1, <2>2 DEF Judge, WatchOK
  <2>3. CASE seen.marks # 0
    <3>1. /\ last' = seen.marks /\ unchanged' = IF seen.marks = last THEN unchanged + 1 ELSE 0
          /\ at' = IF unchanged' > seen.allowed THEN "stuck" ELSE "looks"
      BY <1>5, <2>3 DEF Judge
    <3>2. QED
      BY <1>5, <2>1, <2>3, <3>1 DEF Judge, WatchOK
  <2>4. QED
    BY <2>2, <2>3
<1>6. ASSUME UNCHANGED vars PROVE Inv'
  BY <1>6 DEF vars, AllowanceOK, WatchOK, Out
<1>7. QED
  BY <1>1, <1>2, <1>3, <1>4, <1>5, <1>6 DEF Next

LEMMA InvInit == ASSUME Bounded PROVE Init => Inv
<1> SUFFICES ASSUME Init PROVE Inv
  OBVIOUS
<1>1. TypeOK
  <2>1. call \in [Calls -> Timeouts \cup {0}]
    BY DEF Init
  <2>2. truth \in [quiet : Nat, owed : SUBSET Timeouts]
    BY DEF Init
  <2>3. seen \in [marks : 0 .. MaxMarks, allowed : Nat]
    BY DEF Init, Bounded
  <2>4. QED
    BY <2>1, <2>2, <2>3 DEF Bounded, Init, TypeOK
<1>2. AllowanceOK
  BY DEF Init, AllowanceOK
<1>3. WatchOK
  BY DEF Bounded, Init, WatchOK
<1>4. QED
  BY <1>1, <1>2, <1>3 DEF Inv

LEMMA InvWatches == ASSUME Bounded PROVE Inv => TypeOK /\ AlarmIsTrue /\ StuckIsFound
  BY DEF Bounded, Inv, TypeOK, WatchOK, AlarmIsTrue, StuckIsFound

\* Every variable keeps its type, and only a loop that is stuck has its worker leave, and one
\* that is has: however many calls start and end around the looks, whatever their timeouts.
THEOREM WatchHolds == Bounded => (Spec => [](TypeOK /\ AlarmIsTrue /\ StuckIsFound))
<1> SUFFICES ASSUME Bounded PROVE Spec => [](TypeOK /\ AlarmIsTrue /\ StuckIsFound)
  OBVIOUS
<1>1. Inv /\ [Next]_vars => Inv'
  BY InvNext
<1>2. QED
  BY <1>1, InvInit, InvWatches, PTL DEF Spec
-----------------------------------------------------------------------------
(* The failure marker.                                                     *)


ClockBounded == Overlap \in Nat /\ Latest \in Nat

\* No hook is further behind its write's end than Overlap.
InTime == \A h \in M!Ended : ends[h].at <= clock /\ clock - ends[h].at <= Overlap

\* The marker's time is that of the applied write that ended last, and a failure that
\* ended then is not hidden.
MarkerOK ==
  /\ marker.at <= clock
  /\ marker.is = "missing" => applied = {}
  /\ \A w \in applied : w.at <= marker.at
  /\ IF applied = {} THEN marker.at = 0 ELSE \E w \in applied : w.at = marker.at
  /\ marker.is = "failed" => \E w \in applied : w.how = "failed" /\ w.at = marker.at
  /\ marker.is = "ok" => \A w \in applied : w.how = "failed" => w.at < marker.at

MarkerInv == M!TypeOK /\ InTime /\ MarkerOK

LEMMA MarkerInit == ASSUME ClockBounded PROVE M!Init => MarkerInv
  BY DEF ClockBounded, M!Init, MarkerInv, M!TypeOK, InTime, MarkerOK, M!Ended, M!Running, M!Missing, M!States,
     M!Times, M!Writes

\* An update of the marker by a write that ended at `at`, no longer than Overlap ago.
LEMMA UpdateKeeps ==
  ASSUME ClockBounded, MarkerInv, NEW h \in M!Ended,
         marker' = IF ends[h].how = "ok" THEN M!clear(ends[h].at) ELSE M!mark(ends[h].at),
         applied' = applied \cup {ends[h]}, UNCHANGED clock
  PROVE  MarkerOK' /\ marker' \in M!States /\ applied' \subseteq M!Writes
<1> DEFINE w == ends[h]
<1>1. /\ w \in [how : {"ok", "failed"}, at : M!Times]
      /\ w.at <= clock /\ clock - w.at <= Overlap /\ clock \in Nat /\ w.at \in Nat
  BY DEF MarkerInv, M!TypeOK, InTime, M!Ended, M!Times, ClockBounded
<1>2. /\ marker \in M!States /\ marker.first \in M!Times /\ marker.at \in M!Times
      /\ marker.at \in Nat /\ marker.at <= clock
  BY DEF MarkerInv, M!TypeOK, MarkerOK, M!States, M!Missing, M!Times, ClockBounded
<1>3. applied' \subseteq M!Writes
  BY <1>1 DEF M!Writes, MarkerInv, M!TypeOK
<1>4. marker.at > w.at => M!later(marker.at, w.at)
  BY <1>1, <1>2 DEF M!later, ClockBounded
<1>5. CASE w.how = "ok"
  <2>1. marker' = M!clear(w.at)
    BY <1>5
  <2>2. CASE marker' = marker
    <3>1. marker.is # "missing" /\ w.at <= marker.at
      BY <1>1, <1>2, <2>1, <2>2 DEF M!clear, M!later, M!Ok, M!Missing, M!States
    <3>2. QED
      BY <1>1, <1>2, <1>3, <1>5, <2>2, <3>1 DEF MarkerInv, M!TypeOK, MarkerOK
  <2>3. CASE marker' # marker
    <3>1. /\ marker' = M!Ok(w.at)
          /\ ~(marker.is = "failed" /\ (marker.at = w.at \/ M!later(marker.at, w.at)))
          /\ ~(marker.is = "ok" /\ marker.at >= w.at)
      BY <2>1, <2>3 DEF M!clear
    <3>2. \A v \in applied : v.at < w.at \/ (v.at = w.at /\ v.how # "failed")
      BY <1>1, <1>2, <1>4, <3>1 DEF MarkerInv, M!TypeOK, MarkerOK, M!Writes, M!Times, M!States, M!Missing
    <3>3. QED
      BY <1>1, <1>3, <1>5, <3>1, <3>2 DEF MarkerInv, M!TypeOK, MarkerOK, M!Ok, M!States, M!Writes, M!Times
  <2>4. QED
    BY <2>2, <2>3
<1>6. CASE w.how = "failed"
  <2>1. marker' = M!mark(w.at)
    BY <1>6
  <2>2. CASE marker.is = "ok" /\ marker.at > w.at
    <3>1. marker' = marker
      BY <1>4, <2>1, <2>2 DEF M!mark
    <3>2. QED
      BY <1>1, <1>2, <1>3, <2>2, <3>1 DEF MarkerInv, M!TypeOK, MarkerOK
  <2>3. CASE marker.is = "failed"
    <3>1. marker' = M!Failed(marker.first, IF marker.at > w.at THEN marker.at ELSE w.at)
      BY <2>1, <2>3 DEF M!mark
    <3>2. CASE marker.at > w.at
      <4>1. marker'.is = "failed" /\ marker'.at = marker.at /\ marker' \in M!States
        BY <1>2, <3>1, <3>2 DEF M!Failed, M!States
      <4>2. QED
        BY <1>1, <1>2, <1>3, <2>3, <3>2, <4>1 DEF MarkerInv, M!TypeOK, MarkerOK
    <3>3. CASE ~(marker.at > w.at)
      <4>1. marker'.is = "failed" /\ marker'.at = w.at /\ marker' \in M!States
        BY <1>1, <1>2, <3>1, <3>3 DEF M!Failed, M!States
      <4>2. QED
        BY <1>1, <1>2, <1>3, <1>6, <2>3, <3>3, <4>1 DEF MarkerInv, M!TypeOK, MarkerOK, M!Writes, M!Times
    <3>4. QED
      BY <3>2, <3>3
  <2>4. CASE marker.is # "failed" /\ ~(marker.is = "ok" /\ marker.at > w.at)
    <3>1. marker' = M!Failed(w.at, w.at)
      BY <2>1, <2>4 DEF M!mark, M!later
    <3>2. marker'.is = "failed" /\ marker'.at = w.at /\ marker' \in M!States
      BY <1>1, <3>1 DEF M!Failed, M!States
    <3>3. \A v \in applied : v.at <= w.at
      BY <1>1, <1>2, <2>4 DEF MarkerInv, M!TypeOK, MarkerOK, M!States, M!Missing, M!Writes, M!Times
    <3>4. QED
      BY <1>1, <1>3, <1>6, <3>2, <3>3 DEF MarkerInv, M!TypeOK, MarkerOK
  <2>5. QED
    BY <2>2, <2>3, <2>4
<1>7. QED
  BY <1>1, <1>5, <1>6

LEMMA MarkerNext == ASSUME ClockBounded PROVE MarkerInv /\ [M!Next]_M!vars => MarkerInv'
<1> SUFFICES ASSUME MarkerInv, [M!Next]_M!vars PROVE MarkerInv'
  OBVIOUS
<1>1. ASSUME M!Prepare PROVE MarkerInv'
  <2>1. marker' = M!Ok(0) /\ marker' \in M!States /\ UNCHANGED <<clock, ends, applied>> /\ applied = {}
    BY <1>1 DEF M!Prepare, M!Ok, M!States, M!Missing, M!Times, ClockBounded, MarkerInv, MarkerOK
  <2>2. QED
    BY <2>1 DEF MarkerInv, M!TypeOK, InTime, MarkerOK, M!Ended, M!Ok, M!Times, ClockBounded
<1>2. ASSUME M!Ticks PROVE MarkerInv'
  BY <1>2 DEF M!Ticks, MarkerInv, M!TypeOK, InTime, MarkerOK, M!Ended, M!Times, M!States, M!Missing, ClockBounded
<1>3. ASSUME NEW h \in Hooks, M!Ends(h) PROVE MarkerInv'
  <2>1. PICK how \in {"ok", "failed"} : ends' = [ends EXCEPT ![h] = [how |-> how, at |-> clock]]
    BY <1>3 DEF M!Ends
  <2>2. ends' \in [Hooks -> [how : {"running", "ok", "failed", "done"}, at : M!Times]]
    BY <2>1 DEF MarkerInv, M!TypeOK
  <2>3. InTime'
    BY <1>3, <2>1 DEF M!Ends, MarkerInv, M!TypeOK, InTime, M!Ended, M!Times, ClockBounded
  <2>4. QED
    BY <1>3, <2>2, <2>3 DEF M!Ends, MarkerInv, M!TypeOK, MarkerOK
<1>4. ASSUME NEW h \in Hooks, M!Updates(h) PROVE MarkerInv'
  <2>1. ends' \in [Hooks -> [how : {"running", "ok", "failed", "done"}, at : M!Times]]
    BY <1>4 DEF M!Updates, MarkerInv, M!TypeOK
  <2>2. InTime'
    BY <1>4 DEF M!Updates, MarkerInv, M!TypeOK, InTime, M!Ended
  <2>3. MarkerOK' /\ marker' \in M!States /\ applied' \subseteq M!Writes
    <3>1. CASE UNCHANGED <<marker, applied>>
      BY <1>4, <3>1 DEF M!Updates, MarkerInv, M!TypeOK, MarkerOK
    <3>2. CASE ~UNCHANGED <<marker, applied>>
      BY <1>4, <3>2, UpdateKeeps DEF M!Updates
    <3>3. QED
      BY <3>1, <3>2
  <2>4. QED
    BY <1>4, <2>1, <2>2, <2>3 DEF M!Updates, MarkerInv, M!TypeOK
<1>5. ASSUME UNCHANGED M!vars PROVE MarkerInv'
  BY <1>5 DEF M!vars, MarkerInv, M!TypeOK, InTime, MarkerOK, M!Ended
<1>6. QED
  BY <1>1, <1>2, <1>3, <1>4, <1>5 DEF M!Next

LEMMA MarkerSays == ASSUME ClockBounded PROVE MarkerInv => M!TypeOK /\ M!MarkerIsLatest
  BY DEF MarkerInv, MarkerOK, M!MarkerIsLatest, M!LastFailed, M!TypeOK, M!States, M!Writes,
     M!Times, M!Missing, ClockBounded

\* Every variable keeps its type, and the marker says what the write that ended last
\* says, in whatever order the hooks' updates come and whichever are missing.
THEOREM MarkerHolds == ClockBounded => (M!Spec => [](M!TypeOK /\ M!MarkerIsLatest))
<1> SUFFICES ASSUME ClockBounded PROVE M!Spec => [](M!TypeOK /\ M!MarkerIsLatest)
  OBVIOUS
<1>1. MarkerInv /\ [M!Next]_M!vars => MarkerInv'
  BY MarkerNext
<1>2. QED
  BY <1>1, MarkerInit, MarkerSays, PTL DEF M!Spec
=============================================================================
