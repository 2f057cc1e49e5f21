------------------------------- MODULE Marker -------------------------------
(***************************************************************************)
(* The recording-failed marker (src/failure.rs).  Hooks overlap: each ends *)
(* a write of raw.db that succeeded or failed, and updates the marker some *)
(* time after, in any order, one at a time under the marker's lock; one    *)
(* that does not get the lock leaves the marker as it is.  Not modelled: a *)
(* clock that goes back, and a marker cut short by a full disk.            *)
(***************************************************************************)
EXTENDS Integers

CONSTANTS Hooks,    \* the hooks, each with one write
          Overlap,  \* OVERLAP_NS: how far apart two overlapping hooks can end
          Latest    \* bound: the clock's last time

VARIABLES clock,    \* the wall clock
          ends,     \* each hook's write: when it ended, and how
          marker,   \* what the marker holds, read as State::parse does
          applied   \* the writes whose update reached the marker
vars == <<clock, ends, marker, applied>>

Times   == 0 .. Latest
Running == [how |-> "running", at |-> 0]
Writes  == [how : {"ok", "failed"}, at : Times]
Missing == [is |-> "missing", at |-> 0, first |-> 0]
Ok(at)            == [is |-> "ok", at |-> at, first |-> at]
Failed(first, at) == [is |-> "failed", at |-> at, first |-> first]
States  == {Missing} \cup [is : {"ok", "failed"}, at : Times, first : Times]

Ended   == {h \in Hooks : ends[h].how \in {"ok", "failed"}}

Init ==
  /\ clock = 0 /\ ends = [h \in Hooks |-> Running]
  /\ marker = Missing /\ applied = {}
-----------------------------------------------------------------------------
\* Whether the stored time is from a write that ended after the one that ended at `at`.
later(stored, at) == stored > at /\ stored - at <= Overlap

\* mark: a failure, unless a write that ended after it has already succeeded.
mark(at) ==
  IF marker.is = "ok" /\ later(marker.at, at) THEN marker
  ELSE IF marker.is = "failed"
       THEN Failed(marker.first, IF marker.at > at THEN marker.at ELSE at)
       ELSE Failed(at, at)

clearTies(at) ==                                                        \* variation
  IF \/ marker.is = "failed" /\ later(marker.at, at)
     \/ marker.is = "ok" /\ marker.at >= at
  THEN marker ELSE Ok(at)

\* clear: a success, unless a write that ended then or after it has failed.  (A success
\* older than the stored one leaves it, whose time only a later write can be compared to.)
clear(at) ==
  IF \/ marker.is = "failed" /\ (marker.at = at \/ later(marker.at, at))
     \/ marker.is = "ok" /\ marker.at >= at
  THEN marker ELSE Ok(at)

\* prepare: a marker there is none of, after a success.
Prepare ==
  /\ marker = Missing /\ \E h \in Ended : ends[h].how = "ok"
  /\ marker' = Ok(0)
  /\ UNCHANGED <<clock, ends, applied>>

Ends(h) ==
  /\ ends[h] = Running
  /\ \E how \in {"ok", "failed"} : ends' = [ends EXCEPT ![h] = [how |-> how, at |-> clock]]
  /\ UNCHANGED <<clock, marker, applied>>

Updates(h) ==
  /\ h \in Ended
  /\ ends' = [ends EXCEPT ![h].how = "done"]
  /\ \/ /\ marker' = IF ends[h].how = "ok" THEN clear(ends[h].at) ELSE mark(ends[h].at)
        /\ applied' = applied \cup {ends[h]}
     \/ UNCHANGED <<marker, applied>>
  /\ UNCHANGED clock

\* No hook updates the marker more than Overlap after its write ended: it waits for a
\* free-space probe of 500 ms and for the lock at most.
Ticks ==
  /\ clock < Latest /\ \A h \in Ended : clock - ends[h].at < Overlap
  /\ clock' = clock + 1
  /\ UNCHANGED <<ends, marker, applied>>

Next ==
  \/ Prepare \/ Ticks
  \/ \E h \in Hooks : Ends(h) \/ Updates(h)

Spec == Init /\ [][Next]_vars
-----------------------------------------------------------------------------
TypeOK ==
  /\ clock \in Times
  /\ ends \in [Hooks -> [how : {"running", "ok", "failed", "done"}, at : Times]]
  /\ marker \in States /\ applied \subseteq Writes

\* The write among the applied ones that ended last; a failure where two ended at once.
LastFailed == \E w \in applied : /\ w.how = "failed"
                                 /\ \A v \in applied : v.at <= w.at

\* The marker says what the write that ended last says, in whatever order the hooks'
\* updates came and whichever are missing: a failure is neither hidden by an older
\* success nor kept past a newer one, and a tie is a failure.
MarkerIsLatest == applied # {} => (marker.is = "failed" <=> LastFailed)
=============================================================================
