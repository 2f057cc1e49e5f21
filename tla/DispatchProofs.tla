--------------------------- MODULE DispatchProofs ---------------------------
(***************************************************************************)
(* Proofs about Dispatch, for any number of senders, readers, writers and  *)
(* pieces of text.                                                         *)
(***************************************************************************)
EXTENDS Dispatch, FiniteSetTheorems, TLAPS

\* What a sender remembers: its text has nothing of what it knew to be taken or excluded, and
\* what it knew still stands; a phase's was caught up with.
SenderOK(p) ==
  /\ At(p, "idle") => run[p] = Nothing
  /\ pc[p] \in {"list", "lag"} => run[p].text = {}
  /\ run[p].text \cap (TakenBy(run[p].rows) \cup run[p].excluded) = {}
  /\ run[p].rows \subseteq rows
  /\ At(p, "compose") /\ p \notin LagFirst => run[p].rows \subseteq applied
  /\ pc[p] \notin {"idle", "list", "lag"} /\ p \notin LagFirst \cup Detached => run[p].rows \subseteq applied
SendingOK(p) ==
  At(p, "sending") =>
    /\ run[p].text \cap (Taken \cup excluded) = {}
    /\ p \notin LagFirst \cup Detached => rows \subseteq applied

\* The inductive invariant: NothingTakenLeaves and SendsCaughtUp need what each sender knew when
\* it composed.
Inv == /\ TypeOK /\ DroppedStaysDropped
       /\ \A p \in Senders : SenderOK(p) /\ SendingOK(p)

LEMMA NothingType == TypeOK => Nothing \in Notes
  BY DEF TypeOK, Nothing, Notes

LEMMA TypeInit == Init => TypeOK
<1> SUFFICES ASSUME Init PROVE TypeOK
  OBVIOUS
<1>1. run \in [Procs -> Notes]
  BY DEF Init, Nothing, Notes
<1>2. PlacesOK
  BY DEF Init, PlacesOK, Procs, SenderPlaces, ReaderPlaces, WriterPlaces
<1>3. LocksOK
  BY DispatchAssumption DEF Init, LocksOK, Procs, Holding, Held
<1>4. OpenOK
  BY DEF Init, OpenOK, At, Procs
<1>5. QED
  BY <1>1, <1>2, <1>3, <1>4 DEF Init, TypeOK

(* A process ends what it does, and lets go of all it holds. *)
LEMMA DoneType ==
  ASSUME TypeOK, NEW p \in Procs, Done(p)
  PROVE  run' \in [Procs -> Notes] /\ PlacesOK' /\ LocksOK' /\ OpenOK'
<1>1. run' \in [Procs -> Notes]
  BY NothingType DEF TypeOK, Done
<1>2. PlacesOK'
  BY DEF TypeOK, PlacesOK, Done, Go, Procs, SenderPlaces, ReaderPlaces, WriterPlaces
<1>3. LocksOK'
  <2> DEFINE q == p
  <2>1. shared' = shared \ {p} /\ pc' = [pc EXCEPT ![p] = "idle"] /\ UNCHANGED swap
        /\ exclusive' = IF exclusive = p THEN NoOne ELSE exclusive
    BY DEF Done, Go
  <2>2. pc \in [Procs -> SenderPlaces \cup ReaderPlaces \cup WriterPlaces]
    BY DEF TypeOK, PlacesOK
  <2>3. "idle" \notin Holding /\ Restorer \notin Procs /\ NoOne \notin Procs
    BY DispatchAssumption DEF Holding, Held
  <2>4. QED
    BY <2>1, <2>2, <2>3, DispatchAssumption DEF TypeOK, LocksOK, Procs
<1>4. OpenOK'
  BY DEF TypeOK, OpenOK, PlacesOK, Done, Go, At, Procs
<1>5. QED
  BY <1>1, <1>2, <1>3, <1>4

(* One process goes on to another place. *)
LEMMA SenderGoes ==
  ASSUME PlacesOK, NEW p \in Senders, NEW at \in SenderPlaces, Go(p, at)
  PROVE  PlacesOK'
  BY DispatchAssumption DEF PlacesOK, Go, Procs

LEMMA ReaderGoes ==
  ASSUME PlacesOK, NEW p \in Readers, NEW at \in ReaderPlaces, Go(p, at)
  PROVE  PlacesOK'
  BY DispatchAssumption DEF PlacesOK, Go, Procs

LEMMA WriterGoes ==
  ASSUME PlacesOK, NEW p \in Writers, NEW at \in WriterPlaces, Go(p, at)
  PROVE  PlacesOK'
  BY DispatchAssumption DEF PlacesOK, Go, Procs

LEMMA TypeNext == TypeOK /\ [Next]_vars => TypeOK'
<1> SUFFICES ASSUME TypeOK, [Next]_vars PROVE TypeOK'
  OBVIOUS
<1> USE DEF TypeOK
<1>1. ASSUME NEW p \in Senders, Start(p) PROVE TypeOK'
  <2>1. PlacesOK'
    BY <1>1, SenderGoes DEF Start, OpenRaw, Note, PlacesOK, SenderPlaces, Holding, Held
  <2>2. LocksOK'
    BY <1>1, DispatchAssumption DEF Start, OpenRaw, Note, LocksOK, PlacesOK, SenderPlaces, Go, At, Procs, stores, Holding, Held
  <2>3. OpenOK'
    BY <1>1, DispatchAssumption DEF Start, OpenRaw, Note, OpenOK, PlacesOK, Go, At, Procs, stores
  <2>4. run' \in [Procs -> Notes]
    BY <1>1, NothingType DEF Start, OpenRaw, Note, Notes, Procs, stores
  <2>5. QED
    BY <1>1, <2>1, <2>2, <2>3, <2>4 DEF Start, OpenRaw, Note, stores, Rows
<1>2. ASSUME NEW p \in Senders, ReadList(p) PROVE TypeOK'
  <2>1. PlacesOK'
    BY <1>2, SenderGoes DEF ReadList, PlacesOK, SenderPlaces, Holding, Held
  <2>2. LocksOK'
    BY <1>2, DispatchAssumption DEF ReadList, LocksOK, PlacesOK, SenderPlaces, Go, At, Procs, stores, Holding, Held
  <2>3. OpenOK'
    BY <1>2, DispatchAssumption DEF ReadList, OpenOK, PlacesOK, Go, At, Procs, stores
  <2>4. run' \in [Procs -> Notes]
    BY <1>2, NothingType DEF ReadList, Notes, Procs, stores
  <2>5. QED
    BY <1>2, <2>1, <2>2, <2>3, <2>4 DEF ReadList, stores, Rows
<1>3. ASSUME NEW p \in Senders, CheckLag(p) PROVE TypeOK'
  <2>1. CASE Done(p)
    BY <1>3, <2>1, DoneType DEF CheckLag, Procs, stores
  <2>2. CASE ~Done(p)
    <3>1. PlacesOK'
      BY <1>3, <2>2, SenderGoes DEF CheckLag, PlacesOK, SenderPlaces, Holding, Held
    <3>2. LocksOK'
      BY <1>3, <2>2, DispatchAssumption DEF CheckLag, LocksOK, PlacesOK, SenderPlaces, Go, At, Procs, stores, Holding, Held
    <3>3. OpenOK'
      BY <1>3, <2>2, DispatchAssumption DEF CheckLag, OpenOK, PlacesOK, Go, At, Procs, stores
    <3>4. run' \in [Procs -> Notes]
      BY <1>3, <2>2, NothingType DEF CheckLag, Notes, Procs, stores
    <3>5. QED
      BY <1>3, <2>2, <3>1, <3>2, <3>3, <3>4 DEF CheckLag, stores, Rows
  <2>3. QED
    BY <2>1, <2>2
<1>4. ASSUME NEW p \in Senders, Compose(p) PROVE TypeOK'
  <2>1. PlacesOK'
    BY <1>4, SenderGoes DEF Compose, Note, Shown, Readable, PlacesOK, SenderPlaces, Holding, Held
  <2>2. LocksOK'
    BY <1>4, DispatchAssumption DEF Compose, Note, Shown, Readable, LocksOK, PlacesOK, SenderPlaces, Go, At, Procs, stores, Holding, Held
  <2>3. OpenOK'
    BY <1>4, DispatchAssumption DEF Compose, Note, Shown, Readable, OpenOK, PlacesOK, Go, At, Procs, stores
  <2>4. run' \in [Procs -> Notes]
    BY <1>4, NothingType DEF Compose, Note, Shown, Readable, Notes, Procs, stores
  <2>5. QED
    BY <1>4, <2>1, <2>2, <2>3, <2>4 DEF Compose, Note, Shown, Readable, stores, Rows
<1>5. ASSUME NEW p \in Senders, Ask(p) PROVE TypeOK'
  <2>1. CASE Done(p)
    BY <1>5, <2>1, DoneType DEF Ask, Procs, stores
  <2>2. CASE ~Done(p)
    <3>1. PlacesOK'
      BY <1>5, <2>2, SenderGoes DEF Ask, PlacesOK, SenderPlaces, Holding, Held
    <3>2. LocksOK'
      BY <1>5, <2>2, DispatchAssumption DEF Ask, LocksOK, PlacesOK, SenderPlaces, Go, At, Procs, stores, Holding, Held
    <3>3. OpenOK'
      BY <1>5, <2>2, DispatchAssumption DEF Ask, OpenOK, PlacesOK, Go, At, Procs, stores
    <3>4. run' \in [Procs -> Notes]
      BY <1>5, <2>2, NothingType DEF Ask, Notes, Procs, stores
    <3>5. QED
      BY <1>5, <2>2, <3>1, <3>2, <3>3, <3>4 DEF Ask, stores, Rows
  <2>3. QED
    BY <2>1, <2>2
<1>6. ASSUME NEW p \in Senders, Reopen(p) PROVE TypeOK'
  <2>1. PlacesOK'
    BY <1>6, SenderGoes DEF Reopen, OpenRaw, PlacesOK, SenderPlaces, Holding, Held
  <2>2. LocksOK'
    BY <1>6, DispatchAssumption DEF Reopen, OpenRaw, LocksOK, PlacesOK, SenderPlaces, Go, At, Procs, stores, Holding, Held
  <2>3. OpenOK'
    BY <1>6, DispatchAssumption DEF Reopen, OpenRaw, OpenOK, PlacesOK, Go, At, Procs, stores
  <2>4. run' \in [Procs -> Notes]
    BY <1>6, NothingType DEF Reopen, OpenRaw, Notes, Procs, stores
  <2>5. QED
    BY <1>6, <2>1, <2>2, <2>3, <2>4 DEF Reopen, OpenRaw, stores, Rows
<1>7. ASSUME NEW p \in Senders, Admit(p) PROVE TypeOK'
  <2>1. PlacesOK'
    BY <1>7, SenderGoes DEF Admit, Share, PlacesOK, SenderPlaces, Holding, Held
  <2>2. LocksOK'
    BY <1>7, DispatchAssumption DEF Admit, Share, LocksOK, PlacesOK, SenderPlaces, Go, At, Procs, stores, Holding, Held
  <2>3. OpenOK'
    BY <1>7, DispatchAssumption DEF Admit, Share, OpenOK, PlacesOK, Go, At, Procs, stores
  <2>4. run' \in [Procs -> Notes]
    BY <1>7, NothingType DEF Admit, Share, Notes, Procs, stores
  <2>5. QED
    BY <1>7, <2>1, <2>2, <2>3, <2>4 DEF Admit, Share, stores, Rows
<1>8. ASSUME NEW p \in Senders, NotAdmitted(p) PROVE TypeOK'
  BY <1>8, DoneType DEF NotAdmitted, Procs, stores, Rows
<1>9. ASSUME NEW p \in Senders, Check(p) PROVE TypeOK'
  <2>1. CASE Done(p)
    BY <1>9, <2>1, DoneType DEF Check, Procs, stores
  <2>2. CASE ~Done(p)
    <3>1. PlacesOK'
      BY <1>9, <2>2, SenderGoes DEF Check, PlacesOK, SenderPlaces, Holding, Held
    <3>2. LocksOK'
      BY <1>9, <2>2, DispatchAssumption DEF Check, LocksOK, PlacesOK, SenderPlaces, Go, At, Procs, stores, Holding, Held
    <3>3. OpenOK'
      BY <1>9, <2>2, DispatchAssumption DEF Check, OpenOK, PlacesOK, Go, At, Procs, stores
    <3>4. run' \in [Procs -> Notes]
      BY <1>9, <2>2, NothingType DEF Check, Notes, Procs, stores
    <3>5. QED
      BY <1>9, <2>2, <3>1, <3>2, <3>3, <3>4 DEF Check, stores, Rows
  <2>3. QED
    BY <2>1, <2>2
<1>10. ASSUME NEW p \in Senders, BodySent(p) PROVE TypeOK'
  <2>1. PlacesOK'
    BY <1>10, SenderGoes DEF BodySent, Unshare, PlacesOK, SenderPlaces, Holding, Held
  <2>2. LocksOK'
    BY <1>10, DispatchAssumption DEF BodySent, Unshare, LocksOK, PlacesOK, SenderPlaces, Go, At, Procs, stores, Holding, Held
  <2>3. OpenOK'
    BY <1>10, DispatchAssumption DEF BodySent, Unshare, OpenOK, PlacesOK, Go, At, Procs, stores
  <2>4. run' \in [Procs -> Notes]
    BY <1>10, NothingType DEF BodySent, Unshare, Notes, Procs, stores
  <2>5. QED
    BY <1>10, <2>1, <2>2, <2>3, <2>4 DEF BodySent, Unshare, stores, Rows
<1>11. ASSUME NEW p \in Senders, Fail(p) PROVE TypeOK'
  <2>1. PlacesOK'
    BY <1>11, SenderGoes DEF Fail, Unshare, PlacesOK, SenderPlaces, Holding, Held
  <2>2. LocksOK'
    BY <1>11, DispatchAssumption DEF Fail, Unshare, LocksOK, PlacesOK, SenderPlaces, Go, At, Procs, stores, Holding, Held
  <2>3. OpenOK'
    BY <1>11, DispatchAssumption DEF Fail, Unshare, OpenOK, PlacesOK, Go, At, Procs, stores
  <2>4. run' \in [Procs -> Notes]
    BY <1>11, NothingType DEF Fail, Unshare, Notes, Procs, stores
  <2>5. QED
    BY <1>11, <2>1, <2>2, <2>3, <2>4 DEF Fail, Unshare, stores, Rows
<1>12. ASSUME NEW p \in Senders, Retry(p) PROVE TypeOK'
  <2>1. PlacesOK'
    BY <1>12, SenderGoes DEF Retry, PlacesOK, SenderPlaces, Holding, Held
  <2>2. LocksOK'
    BY <1>12, DispatchAssumption DEF Retry, LocksOK, PlacesOK, SenderPlaces, Go, At, Procs, stores, Holding, Held
  <2>3. OpenOK'
    BY <1>12, DispatchAssumption DEF Retry, OpenOK, PlacesOK, Go, At, Procs, stores
  <2>4. run' \in [Procs -> Notes]
    BY <1>12, NothingType DEF Retry, Notes, Procs, stores
  <2>5. QED
    BY <1>12, <2>1, <2>2, <2>3, <2>4 DEF Retry, stores, Rows
<1>13. ASSUME NEW p \in Senders, GiveUp(p) PROVE TypeOK'
  BY <1>13, DoneType DEF GiveUp, Procs, stores, Rows
<1>14. ASSUME NEW p \in Senders, Answered(p) PROVE TypeOK'
  <2>1. CASE Done(p)
    BY <1>14, <2>1, DoneType DEF Answered, Procs, stores
  <2>2. CASE ~Done(p)
    <3>1. PlacesOK'
      BY <1>14, <2>2, SenderGoes DEF Answered, PlacesOK, SenderPlaces, Holding, Held
    <3>2. LocksOK'
      BY <1>14, <2>2, DispatchAssumption DEF Answered, LocksOK, PlacesOK, SenderPlaces, Go, At, Procs, stores, Holding, Held
    <3>3. OpenOK'
      BY <1>14, <2>2, DispatchAssumption DEF Answered, OpenOK, PlacesOK, Go, At, Procs, stores
    <3>4. run' \in [Procs -> Notes]
      BY <1>14, <2>2, NothingType DEF Answered, Notes, Procs, stores
    <3>5. QED
      BY <1>14, <2>2, <3>1, <3>2, <3>3, <3>4 DEF Answered, stores, Rows
  <2>3. QED
    BY <2>1, <2>2
<1>15. ASSUME NEW p \in Senders, Settle(p) PROVE TypeOK'
  <2>1. run[p].text \subseteq Pieces
    BY DEF Notes, Procs
  <2>2. derived' \subseteq Pieces
    BY <1>15, <2>1 DEF Settle
  <2>3. QED
    BY <1>15, <2>2, DoneType DEF Settle, Procs
<1>16. ASSUME NEW p \in Readers, OpenReader(p) PROVE TypeOK'
  <2>1. PlacesOK'
    BY <1>16, ReaderGoes DEF OpenReader, OpenRaw, PlacesOK, ReaderPlaces, Holding, Held
  <2>2. LocksOK'
    BY <1>16, DispatchAssumption DEF OpenReader, OpenRaw, LocksOK, PlacesOK, ReaderPlaces, Go, At, Procs, stores, Holding, Held
  <2>3. OpenOK'
    BY <1>16, DispatchAssumption DEF OpenReader, OpenRaw, OpenOK, PlacesOK, Go, At, Procs, stores
  <2>4. run' \in [Procs -> Notes]
    BY <1>16, NothingType DEF OpenReader, OpenRaw, Notes, Procs, stores
  <2>5. QED
    BY <1>16, <2>1, <2>2, <2>3, <2>4 DEF OpenReader, OpenRaw, stores, Rows
<1>17. ASSUME NEW p \in Readers, Hold(p) PROVE TypeOK'
  <2>1. PlacesOK'
    BY <1>17, ReaderGoes DEF Hold, Share, PlacesOK, ReaderPlaces, Holding, Held
  <2>2. LocksOK'
    BY <1>17, DispatchAssumption DEF Hold, Share, LocksOK, PlacesOK, ReaderPlaces, Go, At, Procs, stores, Holding, Held
  <2>3. OpenOK'
    BY <1>17, DispatchAssumption DEF Hold, Share, OpenOK, PlacesOK, Go, At, Procs, stores
  <2>4. run' \in [Procs -> Notes]
    BY <1>17, NothingType DEF Hold, Share, Notes, Procs, stores
  <2>5. QED
    BY <1>17, <2>1, <2>2, <2>3, <2>4 DEF Hold, Share, stores, Rows
<1>18. ASSUME NEW p \in Readers, NoHold(p) PROVE TypeOK'
  BY <1>18, DoneType DEF NoHold, Procs, stores, Rows
<1>19. ASSUME NEW p \in Readers, Read(p) PROVE TypeOK'
  <2>1. PlacesOK'
    BY <1>19, ReaderGoes DEF Read, Note, Readable, PlacesOK, ReaderPlaces, Holding, Held
  <2>2. LocksOK'
    BY <1>19, DispatchAssumption DEF Read, Note, Readable, LocksOK, PlacesOK, ReaderPlaces, Go, At, Procs, stores, Holding, Held
  <2>3. OpenOK'
    BY <1>19, DispatchAssumption DEF Read, Note, Readable, OpenOK, PlacesOK, Go, At, Procs, stores
  <2>4. run' \in [Procs -> Notes]
    BY <1>19, NothingType DEF Read, Note, Readable, Notes, Procs, stores
  <2>5. QED
    BY <1>19, <2>1, <2>2, <2>3, <2>4 DEF Read, Note, Readable, stores, Rows
<1>20. ASSUME NEW p \in Readers, Answer(p) PROVE TypeOK'
  <2>1. PlacesOK'
    BY <1>20, ReaderGoes DEF Answer, PlacesOK, ReaderPlaces, Holding, Held
  <2>2. LocksOK'
    BY <1>20, DispatchAssumption DEF Answer, LocksOK, PlacesOK, ReaderPlaces, Go, At, Procs, stores, Holding, Held
  <2>3. OpenOK'
    BY <1>20, DispatchAssumption DEF Answer, OpenOK, PlacesOK, Go, At, Procs, stores
  <2>4. run' \in [Procs -> Notes]
    BY <1>20, NothingType DEF Answer, Notes, Procs, stores
  <2>5. QED
    BY <1>20, <2>1, <2>2, <2>3, <2>4 DEF Answer, stores, Rows
<1>21. ASSUME NEW p \in Readers, Release(p) PROVE TypeOK'
  BY <1>21, DoneType DEF Release, Procs, stores, Rows
<1>22. ASSUME NEW p \in Writers, Preview(p) PROVE TypeOK'
  <2>1. PlacesOK'
    BY <1>22, WriterGoes DEF Preview, Want, OpenRaw, PlacesOK, WriterPlaces, Holding, Held
  <2>2. LocksOK'
    BY <1>22, DispatchAssumption DEF Preview, Want, OpenRaw, LocksOK, PlacesOK, WriterPlaces, Go, At, Procs, stores, Holding, Held
  <2>3. OpenOK'
    BY <1>22, DispatchAssumption DEF Preview, Want, OpenRaw, OpenOK, PlacesOK, Go, At, Procs, stores
  <2>4. run' \in [Procs -> Notes]
    <3>1. PICK target \in SUBSET Readable : run' = [run EXCEPT ![p] = [Nothing EXCEPT !.rows = rows, !.text = target]]
      BY <1>22 DEF Preview, Want
    <3>2. [Nothing EXCEPT !.rows = rows, !.text = target] \in Notes
      BY NothingType DEF Readable, Notes
    <3>3. QED
      BY <3>1, <3>2
  <2>5. QED
    BY <1>22, <2>1, <2>2, <2>3, <2>4 DEF Preview, Want, OpenRaw, stores, Rows
<1>23. ASSUME NEW p \in Writers, Scan(p) PROVE TypeOK'
  <2>1. PlacesOK'
    BY <1>23, WriterGoes DEF Scan, Want, OpenRaw, PlacesOK, WriterPlaces, Holding, Held
  <2>2. LocksOK'
    BY <1>23, DispatchAssumption DEF Scan, Want, OpenRaw, LocksOK, PlacesOK, WriterPlaces, Go, At, Procs, stores, Holding, Held
  <2>3. OpenOK'
    BY <1>23, DispatchAssumption DEF Scan, Want, OpenRaw, OpenOK, PlacesOK, Go, At, Procs, stores
  <2>4. run' \in [Procs -> Notes]
    <3>1. PICK found \in SUBSET Readable : run' = [run EXCEPT ![p] = [Nothing EXCEPT !.rules = rules, !.text = found]]
      BY <1>23 DEF Scan, Want
    <3>2. [Nothing EXCEPT !.rules = rules, !.text = found] \in Notes
      BY NothingType DEF Readable, Notes
    <3>3. QED
      BY <3>1, <3>2
  <2>5. QED
    BY <1>23, <2>1, <2>2, <2>3, <2>4 DEF Scan, Want, OpenRaw, stores, Rows
<1>24. ASSUME NEW p \in Writers, WantExclusion(p) PROVE TypeOK'
  <2>1. PlacesOK'
    BY <1>24, WriterGoes DEF WantExclusion, Want, OpenRaw, PlacesOK, WriterPlaces, Holding, Held
  <2>2. LocksOK'
    BY <1>24, DispatchAssumption DEF WantExclusion, Want, OpenRaw, LocksOK, PlacesOK, WriterPlaces, Go, At, Procs, stores, Holding, Held
  <2>3. OpenOK'
    BY <1>24, DispatchAssumption DEF WantExclusion, Want, OpenRaw, OpenOK, PlacesOK, Go, At, Procs, stores
  <2>4. run' \in [Procs -> Notes]
    BY <1>24, NothingType DEF WantExclusion, Want, OpenRaw, Notes, Procs, stores
  <2>5. QED
    BY <1>24, <2>1, <2>2, <2>3, <2>4 DEF WantExclusion, Want, OpenRaw, stores, Rows
<1>25. ASSUME NEW p \in Writers, WantSave(p) PROVE TypeOK'
  <2>1. PlacesOK'
    BY <1>25, WriterGoes DEF WantSave, Want, PlacesOK, WriterPlaces, Holding, Held
  <2>2. LocksOK'
    BY <1>25, DispatchAssumption DEF WantSave, Want, LocksOK, PlacesOK, WriterPlaces, Go, At, Procs, stores, Holding, Held
  <2>3. OpenOK'
    BY <1>25, DispatchAssumption DEF WantSave, Want, OpenOK, PlacesOK, Go, At, Procs, stores
  <2>4. run' \in [Procs -> Notes]
    BY <1>25, NothingType DEF WantSave, Want, Notes, Procs, stores
  <2>5. QED
    BY <1>25, <2>1, <2>2, <2>3, <2>4 DEF WantSave, Want, stores, Rows
<1>26. ASSUME NEW p \in Writers, TakeHold(p) PROVE TypeOK'
  <2>1. PlacesOK'
    BY <1>26, WriterGoes DEF TakeHold, Exclude, PlacesOK, WriterPlaces, Holding, Held
  <2>2. LocksOK'
    BY <1>26, DispatchAssumption DEF TakeHold, Exclude, LocksOK, PlacesOK, WriterPlaces, Go, At, Procs, stores, Holding, Held
  <2>3. OpenOK'
    BY <1>26, DispatchAssumption DEF TakeHold, Exclude, OpenOK, PlacesOK, Go, At, Procs, stores
  <2>4. run' \in [Procs -> Notes]
    BY <1>26, NothingType DEF TakeHold, Exclude, Notes, Procs, stores
  <2>5. QED
    BY <1>26, <2>1, <2>2, <2>3, <2>4 DEF TakeHold, Exclude, stores, Rows
<1>27. ASSUME NEW p \in Writers, Busy(p) PROVE TypeOK'
  BY <1>27, DoneType DEF Busy, Procs, stores, Rows
<1>28. ASSUME NEW p \in Writers, Register(p) PROVE TypeOK'
  <2>1. run[p].text \subseteq Pieces
    BY DEF Notes, Procs
  <2>2. rows' \subseteq Rows /\ rows \subseteq rows'
    BY <1>28, <2>1 DEF Register, Rows
  <2>3. QED
    BY <1>28, <2>2, DoneType DEF Register, Procs
<1>29. ASSUME NEW p \in Writers, CheckRules(p) PROVE TypeOK'
  <2>1. CASE Done(p)
    BY <1>29, <2>1, DoneType DEF CheckRules, Procs, stores
  <2>2. CASE ~Done(p)
    <3>1. PlacesOK'
      BY <1>29, <2>2, WriterGoes DEF CheckRules, PlacesOK, WriterPlaces, Holding, Held
    <3>2. LocksOK'
      BY <1>29, <2>2, DispatchAssumption DEF CheckRules, LocksOK, PlacesOK, WriterPlaces, Go, At, Procs, stores, Holding, Held
    <3>3. OpenOK'
      BY <1>29, <2>2, DispatchAssumption DEF CheckRules, OpenOK, PlacesOK, Go, At, Procs, stores
    <3>4. run' \in [Procs -> Notes]
      BY <1>29, <2>2, NothingType DEF CheckRules, Notes, Procs, stores
    <3>5. QED
      BY <1>29, <2>2, <3>1, <3>2, <3>3, <3>4 DEF CheckRules, stores, Rows
  <2>3. QED
    BY <2>1, <2>2
<1>30. ASSUME NEW p \in Writers, Mask(p) PROVE TypeOK'
  <2>1. PlacesOK'
    BY <1>30, WriterGoes DEF Mask, Note, PlacesOK, WriterPlaces, Holding, Held
  <2>2. LocksOK'
    BY <1>30, DispatchAssumption DEF Mask, Note, LocksOK, PlacesOK, WriterPlaces, Go, At, Procs, stores, Holding, Held
  <2>3. OpenOK'
    BY <1>30, DispatchAssumption DEF Mask, Note, OpenOK, PlacesOK, Go, At, Procs, stores
  <2>4. run' \in [Procs -> Notes]
    BY <1>30, NothingType DEF Mask, Note, Notes, Procs, stores
  <2>5. QED
    <3>1. run[p].text \subseteq Pieces
      BY DEF Notes, Procs
    <3>2. rows' \subseteq Rows /\ rows \subseteq rows'
      BY <1>30, <3>1 DEF Mask, Rows
    <3>3. QED
      BY <1>30, <2>1, <2>2, <2>3, <2>4, <3>2 DEF Mask
<1>31. ASSUME NEW p \in Writers, Masked(p) PROVE TypeOK'
  BY <1>31, DoneType DEF Masked, Procs, stores, Rows
<1>32. ASSUME NEW p \in Writers, Excluding(p) PROVE TypeOK'
  <2>1. run[p].text \subseteq Pieces
    BY DEF Notes, Procs
  <2>2. QED
    BY <1>32, <2>1, DoneType DEF Excluding, Procs
<1>33. ASSUME NEW p \in Writers, Save(p) PROVE TypeOK'
  BY <1>33, DoneType DEF Save, Procs, stores, Rows
<1>34. CASE CatchUp
  BY <1>34, DispatchAssumption DEF CatchUp, Lagging, PlacesOK, LocksOK, OpenOK, At
<1>35. CASE Rebuild
  BY <1>35, DispatchAssumption DEF Rebuild, PlacesOK, LocksOK, OpenOK, At, stores
<1>36. CASE BeginSwap
  BY <1>36, DispatchAssumption DEF BeginSwap, Exclude, PlacesOK, LocksOK, OpenOK, At, stores, Procs
<1>37. CASE Swap
  BY <1>37, DispatchAssumption DEF Swap, Denials, PlacesOK, LocksOK, OpenOK, At, Rows, Procs
<1>38. CASE StopRestore
  BY <1>38, DispatchAssumption DEF StopRestore, PlacesOK, LocksOK, OpenOK, At, stores, Procs
<1>39. CASE HandEdit
  BY <1>39, DispatchAssumption DEF HandEdit, PlacesOK, LocksOK, OpenOK, At
<1>40. ASSUME NEW p \in Procs, Crash(p) PROVE TypeOK'
  BY <1>40, DoneType DEF Crash, stores
<1>41. CASE UNCHANGED vars
  BY <1>41 DEF vars, stores, PlacesOK, LocksOK, OpenOK, At
<1>42. QED
  BY <1>1, <1>2, <1>3, <1>4, <1>5, <1>6, <1>7, <1>8, <1>9, <1>10, <1>11, <1>12, <1>13, <1>14, <1>15, <1>16, <1>17, <1>18, <1>19, <1>20, <1>21, <1>22, <1>23, <1>24, <1>25, <1>26, <1>27, <1>28, <1>29, <1>30, <1>31, <1>32, <1>33, <1>34, <1>35, <1>36, <1>37, <1>38, <1>39, <1>40, <1>41 DEF Next, Send, Serve, Write, Restore

\* The stores, the locks and every process's notes keep their types, and a lock is held at the
\* places that hold it, an exclusive one alone (dispatch.rs, lock; raw.rs, swap_lock).
THEOREM TypeCorrect == Spec => []TypeOK
  BY TypeInit, TypeNext, PTL DEF Spec

(* The fence: a number stands for the set it counts while that set only grew. *)
LEMMA SameRows ==
  ASSUME TypeOK, NEW some, some \subseteq rows, Cardinality(some) = Cardinality(rows)
  PROVE  some = rows
<1>1. IsFiniteSet({"denied", "masked"})
  <2>1. IsFiniteSet({"denied"}) /\ IsFiniteSet({"masked"})
    BY FS_Singleton
  <2>2. {"denied", "masked"} = {"denied"} \cup {"masked"}
    OBVIOUS
  <2>3. QED
    BY <2>1, <2>2, FS_Union, Zenon
<1>2. IsFiniteSet(Rows)
  BY <1>1, DispatchAssumption, FS_Product DEF Rows
<1>3. IsFiniteSet(rows)
  BY <1>2, FS_Subset DEF TypeOK
<1>4. QED
  BY <1>3, FS_Subset

LEMMA InvInit == Init => Inv
<1> SUFFICES ASSUME Init PROVE Inv
  OBVIOUS
<1>1. TypeOK
  BY TypeInit
<1>2. DroppedStaysDropped
  BY DEF Init, DroppedStaysDropped
<1>3. ASSUME NEW p \in Senders PROVE SenderOK(p) /\ SendingOK(p)
  BY DEF Init, SenderOK, SendingOK, At, Procs, Nothing
<1>4. QED
  BY <1>1, <1>2, <1>3 DEF Inv

LEMMA NothingDropped == Inv /\ UNCHANGED <<derived, applied>> => DroppedStaysDropped'
  BY DEF Inv, DroppedStaysDropped, TakenBy

(* No sender moves, and what is taken changes only while no body is on its way. *)
LEMMA OthersMove ==
  ASSUME Inv, rows \subseteq rows', applied \subseteq applied',
         \A q \in Senders : pc'[q] = pc[q] /\ run'[q] = run[q],
         UNCHANGED <<rows, excluded>> \/ \A q \in Senders : ~At(q, "sending")
  PROVE  \A q \in Senders : SenderOK(q)' /\ SendingOK(q)'
<1> SUFFICES ASSUME NEW q \in Senders PROVE SenderOK(q)' /\ SendingOK(q)'
  OBVIOUS
<1>1. SenderOK(q) /\ SendingOK(q) /\ pc'[q] = pc[q] /\ run'[q] = run[q]
  BY DEF Inv
<1>2. SenderOK(q)'
  BY <1>1 DEF SenderOK, At, TakenBy, Nothing
<1>3. SendingOK(q)'
  BY <1>1 DEF SendingOK, At, TakenBy, Taken
<1>4. QED
  BY <1>2, <1>3

(* One sender moves, and what is taken stays. *)
LEMMA SenderMoves ==
  ASSUME Inv, NEW p \in Senders, UNCHANGED <<rows, excluded, applied>>,
         \A q \in Senders \ {p} : pc'[q] = pc[q] /\ run'[q] = run[q],
         SenderOK(p)', SendingOK(p)'
  PROVE  \A q \in Senders : SenderOK(q)' /\ SendingOK(q)'
<1> SUFFICES ASSUME NEW q \in Senders, q # p PROVE SenderOK(q)' /\ SendingOK(q)'
  OBVIOUS
<1>1. SenderOK(q) /\ SendingOK(q) /\ pc'[q] = pc[q] /\ run'[q] = run[q]
  BY DEF Inv
<1>2. SenderOK(q)'
  BY <1>1 DEF SenderOK, At, TakenBy, Nothing
<1>3. SendingOK(q)'
  BY <1>1 DEF SendingOK, At, TakenBy, Taken
<1>4. QED
  BY <1>2, <1>3

LEMMA DoneKeeps ==
  ASSUME Inv, NEW p \in Senders, Done(p), UNCHANGED <<rows, excluded, applied>>
  PROVE  \A q \in Senders : SenderOK(q)' /\ SendingOK(q)'
<1>1. run' = [run EXCEPT ![p] = Nothing] /\ pc' = [pc EXCEPT ![p] = "idle"]
  BY DEF Done, Go
<1>2. DOMAIN run = Procs /\ DOMAIN pc = Procs
  BY DEF Inv, TypeOK, PlacesOK
<1>3. run'[p] = Nothing /\ pc'[p] = "idle"
  BY <1>1, <1>2 DEF Procs
<1>4. Nothing' = Nothing
  BY DEF Nothing
<1>5. SenderOK(p)' /\ SendingOK(p)'
  BY <1>3, <1>4 DEF SenderOK, SendingOK, At, Nothing
<1>6. QED
  BY <1>1, <1>2, <1>5, SenderMoves DEF Procs

(* Who holds the lock exclusively knows that no body is on its way. *)
LEMMA AloneInside ==
  ASSUME Inv, exclusive # NoOne
  PROVE  \A q \in Senders : ~At(q, "sending")
  BY DEF Inv, TypeOK, LocksOK, At

(* A restore at work: no process has raw.db open, so none composes; only a detached one is
   further on. *)
LEMMA ClosedForSwap ==
  ASSUME Inv, swap # "none", NEW q \in Senders
  PROVE  ~At(q, "compose") /\ (q \notin Detached => At(q, "idle"))
  BY DEF Inv, TypeOK, OpenOK, At

LEMMA InvNext ==
  ASSUME LosesMasks => Detached = {}, Inv, [Next]_vars
  PROVE  Inv'
<1> DEFINE Goal == DroppedStaysDropped' /\ \A q \in Senders : SenderOK(q)' /\ SendingOK(q)'
<1> USE DEF Goal
<1>0. TypeOK /\ TypeOK' /\ DOMAIN pc = Procs /\ DOMAIN run = Procs
  BY TypeNext DEF Inv, TypeOK, PlacesOK
<1>1. ASSUME NEW p \in Senders, Start(p) PROVE Goal
  <2>1. UNCHANGED <<rows, excluded, derived, applied>> /\ DroppedStaysDropped'
    BY <1>1, NothingDropped DEF Start, stores
  <2>2. \A q \in Senders \ {p} : pc'[q] = pc[q] /\ run'[q] = run[q]
    BY <1>1, <1>0 DEF Start, Go, Note, Procs
  <2>3. run[p] = Nothing
    BY <1>1 DEF Start, Inv, SenderOK
  <2>4. run'[p].text = {} /\ run'[p].rows = {} /\ run'[p].excluded = {} /\ pc'[p] \in {"list", "lag"}
    BY <1>1, <1>0, <2>3 DEF Start, Go, Note, Procs, Nothing
  <2>5. SenderOK(p)' /\ SendingOK(p)'
    BY <2>4 DEF SenderOK, SendingOK, At, TakenBy
  <2>6. QED
    BY <2>1, <2>2, <2>5, SenderMoves
<1>2. ASSUME NEW p \in Senders, ReadList(p) PROVE Goal
  <2>1. UNCHANGED <<rows, excluded, derived, applied>> /\ DroppedStaysDropped'
    BY <1>2, NothingDropped DEF ReadList, stores
  <2>2. \A q \in Senders \ {p} : pc'[q] = pc[q] /\ run'[q] = run[q]
    BY <1>2, <1>0 DEF ReadList, Go, Note, Procs
  <2>3. SenderOK(p)' /\ SendingOK(p)'
    BY <1>2, <1>0 DEF ReadList, Go, Note, At, Procs, Inv, SenderOK, SendingOK, TakenBy, Taken, stores
  <2>4. QED
    BY <2>1, <2>2, <2>3, SenderMoves
<1>3. ASSUME NEW p \in Senders, CheckLag(p) PROVE Goal
  <2>1. CASE Done(p)
    BY <1>3, <2>1, DoneKeeps, NothingDropped DEF CheckLag, stores
  <2>2. CASE ~Done(p)
    <3>1. UNCHANGED <<rows, excluded, derived, applied>> /\ DroppedStaysDropped'
      BY <1>3, <2>2, NothingDropped DEF CheckLag, Lagging, stores
    <3>2. \A q \in Senders \ {p} : pc'[q] = pc[q] /\ run'[q] = run[q]
      BY <1>3, <2>2, <1>0 DEF CheckLag, Lagging, Go, Note, Procs
    <3>3. SenderOK(p)' /\ SendingOK(p)'
      BY <1>3, <2>2, <1>0 DEF CheckLag, Lagging, Go, Note, At, Procs, Inv, SenderOK, SendingOK, TakenBy, Taken, stores
    <3>4. QED
      BY <3>1, <3>2, <3>3, SenderMoves
  <2>3. QED
    BY <2>1, <2>2
<1>4. ASSUME NEW p \in Senders, Compose(p) PROVE Goal
  <2>1. UNCHANGED <<rows, excluded, derived, applied>> /\ DroppedStaysDropped'
    BY <1>4, NothingDropped DEF Compose, stores
  <2>2. \A q \in Senders \ {p} : pc'[q] = pc[q] /\ run'[q] = run[q]
    BY <1>4, <1>0 DEF Compose, Note, Procs
  <2>3. PICK x \in (Readable \cup Shown(p)) \ run[p].excluded : Note(p, "text", run[p].text \cup {x})
    BY <1>4 DEF Compose
  <2>4. x \notin TakenBy(run[p].rows)
    <3>1. CASE x \in Pieces \ Taken
      BY <3>1 DEF Inv, SenderOK, Taken, TakenBy
    <3>2. CASE p \in LagFirst
      BY <2>3, <3>2 DEF Inv, SenderOK, Taken, TakenBy, Shown, Readable
    <3>3. CASE x \in derived /\ p \notin LagFirst
      BY <1>4, <3>3 DEF Inv, SenderOK, DroppedStaysDropped, TakenBy, Compose, At
    <3>4. QED
      BY <2>3, <3>1, <3>2, <3>3 DEF Readable, Shown
  <2>5. /\ run'[p].text = run[p].text \cup {x} /\ run'[p].rows = run[p].rows
        /\ run'[p].excluded = run[p].excluded /\ pc'[p] = "compose"
    BY <1>4, <2>3, <1>0 DEF Note, Procs, Notes, TypeOK, Compose, At
  <2>6. SenderOK(p)' /\ SendingOK(p)'
    BY <1>4, <2>1, <2>3, <2>4, <2>5 DEF Inv, SenderOK, SendingOK, At, Compose, TakenBy
  <2>7. QED
    BY <2>1, <2>2, <2>6, SenderMoves
<1>5. ASSUME NEW p \in Senders, Ask(p) PROVE Goal
  <2>1. CASE Done(p)
    BY <1>5, <2>1, DoneKeeps, NothingDropped DEF Ask, stores
  <2>2. CASE ~Done(p)
    <3>1. UNCHANGED <<rows, excluded, derived, applied>> /\ DroppedStaysDropped'
      BY <1>5, <2>2, NothingDropped DEF Ask, stores
    <3>2. \A q \in Senders \ {p} : pc'[q] = pc[q] /\ run'[q] = run[q]
      BY <1>5, <2>2, <1>0 DEF Ask, Go, Note, Procs
    <3>3. SenderOK(p)' /\ SendingOK(p)'
      BY <1>5, <2>2, <1>0 DEF Ask, Go, Note, At, Procs, Inv, SenderOK, SendingOK, TakenBy, Taken, stores
    <3>4. QED
      BY <3>1, <3>2, <3>3, SenderMoves
  <2>3. QED
    BY <2>1, <2>2
<1>6. ASSUME NEW p \in Senders, Reopen(p) PROVE Goal
  <2>1. UNCHANGED <<rows, excluded, derived, applied>> /\ DroppedStaysDropped'
    BY <1>6, NothingDropped DEF Reopen, OpenRaw, stores
  <2>2. \A q \in Senders \ {p} : pc'[q] = pc[q] /\ run'[q] = run[q]
    BY <1>6, <1>0 DEF Reopen, OpenRaw, Go, Note, Procs
  <2>3. SenderOK(p)' /\ SendingOK(p)'
    BY <1>6, <1>0 DEF Reopen, OpenRaw, Go, Note, At, Procs, Inv, SenderOK, SendingOK, TakenBy, Taken, stores
  <2>4. QED
    BY <2>1, <2>2, <2>3, SenderMoves
<1>7. ASSUME NEW p \in Senders, Admit(p) PROVE Goal
  <2>1. UNCHANGED <<rows, excluded, derived, applied>> /\ DroppedStaysDropped'
    BY <1>7, NothingDropped DEF Admit, Share, stores
  <2>2. \A q \in Senders \ {p} : pc'[q] = pc[q] /\ run'[q] = run[q]
    BY <1>7, <1>0 DEF Admit, Share, Go, Note, Procs
  <2>3. SenderOK(p)' /\ SendingOK(p)'
    BY <1>7, <1>0 DEF Admit, Share, Go, Note, At, Procs, Inv, SenderOK, SendingOK, TakenBy, Taken, stores
  <2>4. QED
    BY <2>1, <2>2, <2>3, SenderMoves
<1>8. ASSUME NEW p \in Senders, NotAdmitted(p) PROVE Goal
  BY <1>8, DoneKeeps, NothingDropped DEF NotAdmitted, stores
<1>9. ASSUME NEW p \in Senders, Check(p) PROVE Goal
  <2>1. CASE Done(p)
    BY <1>9, <2>1, DoneKeeps, NothingDropped DEF Check, stores
  <2>2. CASE ~Done(p)
    <3>1. UNCHANGED <<rows, excluded, derived, applied, run>> /\ DroppedStaysDropped' /\ Still(p)
      BY <1>9, <2>2, NothingDropped DEF Check, stores
    <3>2. \A q \in Senders \ {p} : pc'[q] = pc[q] /\ run'[q] = run[q]
      BY <1>9, <2>2, <1>0 DEF Check, Go, Procs
    <3>3. run[p].rows = rows /\ run[p].excluded = excluded
      BY <3>1, <1>0, SameRows DEF Still, Inv, SenderOK
    <3>4. pc'[p] = "sending" /\ run'[p] = run[p]
      BY <1>9, <2>2, <1>0 DEF Check, Go, Procs
    <3>5. SenderOK(p)' /\ SendingOK(p)'
      <4>1. At(p, "admitted")
        BY <1>9 DEF Check
      <4>2. p \notin LagFirst \cup Detached => rows \subseteq applied
        BY <4>1, <3>3 DEF Inv, SenderOK, At
      <4>3. QED
        BY <3>1, <3>3, <3>4, <4>1, <4>2 DEF Inv, SenderOK, SendingOK, At, TakenBy, Taken
    <3>6. QED
      BY <3>1, <3>2, <3>5, SenderMoves
  <2>3. QED
    BY <2>1, <2>2
<1>10. ASSUME NEW p \in Senders, BodySent(p) PROVE Goal
  <2>1. UNCHANGED <<rows, excluded, derived, applied>> /\ DroppedStaysDropped'
    BY <1>10, NothingDropped DEF BodySent, Unshare, stores
  <2>2. \A q \in Senders \ {p} : pc'[q] = pc[q] /\ run'[q] = run[q]
    BY <1>10, <1>0 DEF BodySent, Unshare, Go, Note, Procs
  <2>3. SenderOK(p)' /\ SendingOK(p)'
    BY <1>10, <1>0 DEF BodySent, Unshare, Go, Note, At, Procs, Inv, SenderOK, SendingOK, TakenBy, Taken, stores
  <2>4. QED
    BY <2>1, <2>2, <2>3, SenderMoves
<1>11. ASSUME NEW p \in Senders, Fail(p) PROVE Goal
  <2>1. UNCHANGED <<rows, excluded, derived, applied>> /\ DroppedStaysDropped'
    BY <1>11, NothingDropped DEF Fail, Unshare, stores
  <2>2. \A q \in Senders \ {p} : pc'[q] = pc[q] /\ run'[q] = run[q]
    BY <1>11, <1>0 DEF Fail, Unshare, Go, Note, Procs
  <2>3. SenderOK(p)' /\ SendingOK(p)'
    BY <1>11, <1>0 DEF Fail, Unshare, Go, Note, At, Procs, Inv, SenderOK, SendingOK, TakenBy, Taken, stores
  <2>4. QED
    BY <2>1, <2>2, <2>3, SenderMoves
<1>12. ASSUME NEW p \in Senders, Retry(p) PROVE Goal
  <2>1. UNCHANGED <<rows, excluded, derived, applied>> /\ DroppedStaysDropped'
    BY <1>12, NothingDropped DEF Retry, stores
  <2>2. \A q \in Senders \ {p} : pc'[q] = pc[q] /\ run'[q] = run[q]
    BY <1>12, <1>0 DEF Retry, Go, Note, Procs
  <2>3. SenderOK(p)' /\ SendingOK(p)'
    BY <1>12, <1>0 DEF Retry, Go, Note, At, Procs, Inv, SenderOK, SendingOK, TakenBy, Taken, stores
  <2>4. QED
    BY <2>1, <2>2, <2>3, SenderMoves
<1>13. ASSUME NEW p \in Senders, GiveUp(p) PROVE Goal
  BY <1>13, DoneKeeps, NothingDropped DEF GiveUp, stores
<1>14. ASSUME NEW p \in Senders, Answered(p) PROVE Goal
  <2>1. CASE Done(p)
    BY <1>14, <2>1, DoneKeeps, NothingDropped DEF Answered, stores
  <2>2. CASE ~Done(p)
    <3>1. UNCHANGED <<rows, excluded, derived, applied>> /\ DroppedStaysDropped'
      BY <1>14, <2>2, NothingDropped DEF Answered, stores
    <3>2. \A q \in Senders \ {p} : pc'[q] = pc[q] /\ run'[q] = run[q]
      BY <1>14, <2>2, <1>0 DEF Answered, Go, Note, Procs
    <3>3. SenderOK(p)' /\ SendingOK(p)'
      BY <1>14, <2>2, <1>0 DEF Answered, Go, Note, At, Procs, Inv, SenderOK, SendingOK, TakenBy, Taken, stores
    <3>4. QED
      BY <3>1, <3>2, <3>3, SenderMoves
  <2>3. QED
    BY <2>1, <2>2
<1>15. ASSUME NEW p \in Senders, Settle(p) PROVE Goal
  <2>1. \A q \in Senders : SenderOK(q)' /\ SendingOK(q)'
    BY <1>15, DoneKeeps DEF Settle
  <2>2. CASE Cardinality(run[p].rows) = Cardinality(rows)
    <3>1. run[p].rows = rows
      BY <2>2, <1>0, SameRows DEF Inv, SenderOK
    <3>2. run[p].text \cap TakenBy(rows) = {}
      BY <3>1 DEF Inv, SenderOK
    <3>3. run[p].text \cap TakenBy(applied) = {}
      BY <3>2, <1>0 DEF TypeOK, TakenBy
    <3>4. QED
      BY <1>15, <2>1, <2>2, <3>3 DEF Settle, Inv, DroppedStaysDropped, TakenBy
  <2>3. CASE ~(Cardinality(run[p].rows) = Cardinality(rows))
    BY <1>15, <2>1, <2>3, NothingDropped DEF Settle
  <2>4. QED
    BY <2>2, <2>3
<1>16. ASSUME NEW p \in Readers, OpenReader(p) PROVE Goal
  <2>1. UNCHANGED <<rows, excluded, derived, applied>>
    BY <1>16 DEF OpenReader, Note, Go, Done, stores
  <2>2. \A q \in Senders : pc'[q] = pc[q] /\ run'[q] = run[q]
    BY <1>16, <1>0, DispatchAssumption DEF OpenReader, Note, Go, Done, Procs
  <2>3. QED
    BY <2>1, <2>2, OthersMove, NothingDropped
<1>17. ASSUME NEW p \in Readers, Hold(p) PROVE Goal
  <2>1. UNCHANGED <<rows, excluded, derived, applied>>
    BY <1>17 DEF Hold, Note, Go, Done, stores
  <2>2. \A q \in Senders : pc'[q] = pc[q] /\ run'[q] = run[q]
    BY <1>17, <1>0, DispatchAssumption DEF Hold, Note, Go, Done, Procs
  <2>3. QED
    BY <2>1, <2>2, OthersMove, NothingDropped
<1>18. ASSUME NEW p \in Readers, NoHold(p) PROVE Goal
  <2>1. UNCHANGED <<rows, excluded, derived, applied>>
    BY <1>18 DEF NoHold, Note, Go, Done, stores
  <2>2. \A q \in Senders : pc'[q] = pc[q] /\ run'[q] = run[q]
    BY <1>18, <1>0, DispatchAssumption DEF NoHold, Note, Go, Done, Procs
  <2>3. QED
    BY <2>1, <2>2, OthersMove, NothingDropped
<1>19. ASSUME NEW p \in Readers, Read(p) PROVE Goal
  <2>1. UNCHANGED <<rows, excluded, derived, applied>>
    BY <1>19 DEF Read, Note, Go, Done, stores
  <2>2. \A q \in Senders : pc'[q] = pc[q] /\ run'[q] = run[q]
    BY <1>19, <1>0, DispatchAssumption DEF Read, Note, Go, Done, Procs
  <2>3. QED
    BY <2>1, <2>2, OthersMove, NothingDropped
<1>20. ASSUME NEW p \in Readers, Answer(p) PROVE Goal
  <2>1. UNCHANGED <<rows, excluded, derived, applied>>
    BY <1>20 DEF Answer, Note, Go, Done, stores
  <2>2. \A q \in Senders : pc'[q] = pc[q] /\ run'[q] = run[q]
    BY <1>20, <1>0, DispatchAssumption DEF Answer, Note, Go, Done, Procs
  <2>3. QED
    BY <2>1, <2>2, OthersMove, NothingDropped
<1>21. ASSUME NEW p \in Readers, Release(p) PROVE Goal
  <2>1. UNCHANGED <<rows, excluded, derived, applied>>
    BY <1>21 DEF Release, Note, Go, Done, stores
  <2>2. \A q \in Senders : pc'[q] = pc[q] /\ run'[q] = run[q]
    BY <1>21, <1>0, DispatchAssumption DEF Release, Note, Go, Done, Procs
  <2>3. QED
    BY <2>1, <2>2, OthersMove, NothingDropped
<1>22. ASSUME NEW p \in Writers, Preview(p) PROVE Goal
  <2>1. UNCHANGED <<rows, excluded, derived, applied>>
    BY <1>22 DEF Preview, Want, Note, Go, Done, stores
  <2>2. \A q \in Senders : pc'[q] = pc[q] /\ run'[q] = run[q]
    BY <1>22, <1>0, DispatchAssumption DEF Preview, Want, Note, Go, Done, Procs
  <2>3. QED
    BY <2>1, <2>2, OthersMove, NothingDropped
<1>23. ASSUME NEW p \in Writers, Scan(p) PROVE Goal
  <2>1. UNCHANGED <<rows, excluded, derived, applied>>
    BY <1>23 DEF Scan, Want, Note, Go, Done, stores
  <2>2. \A q \in Senders : pc'[q] = pc[q] /\ run'[q] = run[q]
    BY <1>23, <1>0, DispatchAssumption DEF Scan, Want, Note, Go, Done, Procs
  <2>3. QED
    BY <2>1, <2>2, OthersMove, NothingDropped
<1>24. ASSUME NEW p \in Writers, WantExclusion(p) PROVE Goal
  <2>1. UNCHANGED <<rows, excluded, derived, applied>>
    BY <1>24 DEF WantExclusion, Want, Note, Go, Done, stores
  <2>2. \A q \in Senders : pc'[q] = pc[q] /\ run'[q] = run[q]
    BY <1>24, <1>0, DispatchAssumption DEF WantExclusion, Want, Note, Go, Done, Procs
  <2>3. QED
    BY <2>1, <2>2, OthersMove, NothingDropped
<1>25. ASSUME NEW p \in Writers, WantSave(p) PROVE Goal
  <2>1. UNCHANGED <<rows, excluded, derived, applied>>
    BY <1>25 DEF WantSave, Want, Note, Go, Done, stores
  <2>2. \A q \in Senders : pc'[q] = pc[q] /\ run'[q] = run[q]
    BY <1>25, <1>0, DispatchAssumption DEF WantSave, Want, Note, Go, Done, Procs
  <2>3. QED
    BY <2>1, <2>2, OthersMove, NothingDropped
<1>26. ASSUME NEW p \in Writers, TakeHold(p) PROVE Goal
  <2>1. UNCHANGED <<rows, excluded, derived, applied>>
    BY <1>26 DEF TakeHold, Go, Done, stores
  <2>2. \A q \in Senders : pc'[q] = pc[q] /\ run'[q] = run[q]
    BY <1>26, <1>0, DispatchAssumption DEF TakeHold, Go, Done, Procs
  <2>3. QED
    BY <2>1, <2>2, OthersMove, NothingDropped
<1>27. ASSUME NEW p \in Writers, Busy(p) PROVE Goal
  <2>1. UNCHANGED <<rows, excluded, derived, applied>>
    BY <1>27 DEF Busy, Go, Done, stores
  <2>2. \A q \in Senders : pc'[q] = pc[q] /\ run'[q] = run[q]
    BY <1>27, <1>0, DispatchAssumption DEF Busy, Go, Done, Procs
  <2>3. QED
    BY <2>1, <2>2, OthersMove, NothingDropped
<1>28. ASSUME NEW p \in Writers, CheckRules(p) PROVE Goal
  <2>1. UNCHANGED <<rows, excluded, derived, applied>>
    BY <1>28 DEF CheckRules, Go, Done, stores
  <2>2. \A q \in Senders : pc'[q] = pc[q] /\ run'[q] = run[q]
    BY <1>28, <1>0, DispatchAssumption DEF CheckRules, Go, Done, Procs
  <2>3. QED
    BY <2>1, <2>2, OthersMove, NothingDropped
<1>29. ASSUME NEW p \in Writers, Masked(p) PROVE Goal
  <2>1. UNCHANGED <<rows, excluded, derived, applied>>
    BY <1>29 DEF Masked, Go, Done, stores
  <2>2. \A q \in Senders : pc'[q] = pc[q] /\ run'[q] = run[q]
    BY <1>29, <1>0, DispatchAssumption DEF Masked, Go, Done, Procs
  <2>3. QED
    BY <2>1, <2>2, OthersMove, NothingDropped
<1>30. ASSUME NEW p \in Writers, Save(p) PROVE Goal
  <2>1. UNCHANGED <<rows, excluded, derived, applied>>
    BY <1>30 DEF Save, Go, Done, stores
  <2>2. \A q \in Senders : pc'[q] = pc[q] /\ run'[q] = run[q]
    BY <1>30, <1>0, DispatchAssumption DEF Save, Go, Done, Procs
  <2>3. QED
    BY <2>1, <2>2, OthersMove, NothingDropped
<1>31. ASSUME NEW p \in Writers, Register(p) PROVE Goal
  <2>1. rows \subseteq rows' /\ UNCHANGED <<derived, applied>>
    BY <1>31 DEF Register
  <2>2. \A q \in Senders : pc'[q] = pc[q] /\ run'[q] = run[q]
    BY <1>31, <1>0, DispatchAssumption DEF Register, Done, Go, Procs
  <2>3. exclusive # NoOne
    BY <1>31, <1>0, DispatchAssumption DEF Register, At, TypeOK, LocksOK, Holding, Held, Procs
  <2>4. QED
    BY <2>1, <2>2, <2>3, AloneInside, OthersMove, NothingDropped
<1>32. ASSUME NEW p \in Writers, Mask(p) PROVE Goal
  <2>1. rows \subseteq rows' /\ UNCHANGED <<derived, applied>>
    BY <1>32 DEF Mask
  <2>2. \A q \in Senders : pc'[q] = pc[q] /\ run'[q] = run[q]
    BY <1>32, <1>0, DispatchAssumption DEF Mask, Note, Procs
  <2>3. exclusive # NoOne
    BY <1>32, <1>0, DispatchAssumption DEF Mask, At, TypeOK, LocksOK, Holding, Held, Procs
  <2>4. QED
    BY <2>1, <2>2, <2>3, AloneInside, OthersMove, NothingDropped
<1>33. ASSUME NEW p \in Writers, Excluding(p) PROVE Goal
  <2>1. rows \subseteq rows' /\ UNCHANGED <<derived, applied>>
    BY <1>33 DEF Excluding
  <2>2. \A q \in Senders : pc'[q] = pc[q] /\ run'[q] = run[q]
    BY <1>33, <1>0, DispatchAssumption DEF Excluding, Done, Go, Procs
  <2>3. exclusive # NoOne
    BY <1>33, <1>0, DispatchAssumption DEF Excluding, At, TypeOK, LocksOK, Holding, Held, Procs
  <2>4. QED
    BY <2>1, <2>2, <2>3, AloneInside, OthersMove, NothingDropped
<1>34. ASSUME CatchUp PROVE Goal
  <2>1. DroppedStaysDropped'
    BY <1>34 DEF CatchUp, DroppedStaysDropped, Taken, TakenBy
  <2>2. applied \subseteq applied' /\ UNCHANGED <<rows, excluded, pc, run>>
    BY <1>34, <1>0 DEF CatchUp, TypeOK
  <2>3. QED
    BY <2>1, <2>2, OthersMove
<1>35. ASSUME Rebuild PROVE Goal
  <2>1. UNCHANGED <<rows, excluded, derived, applied, pc, run>>
    BY <1>35 DEF Rebuild, stores
  <2>2. QED
    BY <2>1, OthersMove, NothingDropped
<1>36. ASSUME BeginSwap PROVE Goal
  <2>1. UNCHANGED <<rows, excluded, derived, applied, pc, run>>
    BY <1>36 DEF BeginSwap, stores
  <2>2. QED
    BY <2>1, OthersMove, NothingDropped
<1>37. ASSUME StopRestore PROVE Goal
  <2>1. UNCHANGED <<rows, excluded, derived, applied, pc, run>>
    BY <1>37 DEF StopRestore, stores
  <2>2. QED
    BY <2>1, OthersMove, NothingDropped
<1>38. ASSUME HandEdit PROVE Goal
  <2>1. UNCHANGED <<rows, excluded, derived, applied, pc, run>>
    BY <1>38 DEF HandEdit, stores
  <2>2. QED
    BY <2>1, OthersMove, NothingDropped
<1>39. ASSUME Swap PROVE Goal
  <2>1. DroppedStaysDropped'
    BY <1>39 DEF Swap, DroppedStaysDropped, TakenBy
  <2>2. UNCHANGED <<pc, run>> /\ swap # "none" /\ exclusive # NoOne
    BY <1>39, <1>0, DispatchAssumption DEF Swap, TypeOK, LocksOK
  <2>3. ASSUME NEW q \in Senders PROVE SenderOK(q)' /\ SendingOK(q)'
    <3>1. ~At(q, "sending") /\ ~At(q, "compose") /\ (q \notin Detached => At(q, "idle"))
      BY <2>2, AloneInside, ClosedForSwap
    <3>2. SendingOK(q)'
      BY <2>2, <3>1 DEF SendingOK, At
    <3>3. CASE At(q, "idle")
      <4>1. run'[q] = Nothing /\ Nothing' = Nothing
        BY <2>2, <3>3 DEF Inv, SenderOK, Nothing
      <4>2. pc'[q] = "idle"
        BY <2>2, <3>3 DEF At
      <4>3. QED
        BY <4>1, <4>2, <3>2 DEF SenderOK, At, Nothing, TakenBy
    <3>4. CASE q \in Detached
      <4>1. rows \subseteq rows'
        BY <1>39, <3>4 DEF Swap
      <4>2. QED
        BY <2>2, <3>1, <3>2, <4>1 DEF Inv, SenderOK, At, TakenBy, Nothing
    <3>5. QED
      BY <3>1, <3>3, <3>4
  <2>4. QED
    BY <2>1, <2>3
<1>40. ASSUME NEW p \in Procs, Crash(p) PROVE Goal
  <2>1. CASE p \in Senders
    BY <1>40, <2>1, DoneKeeps, NothingDropped DEF Crash, stores
  <2>2. CASE p \notin Senders
    <3>1. \A q \in Senders : pc'[q] = pc[q] /\ run'[q] = run[q]
      BY <1>40, <2>2, <1>0 DEF Crash, Done, Go, Procs
    <3>2. QED
      BY <1>40, <3>1, OthersMove, NothingDropped DEF Crash, stores
  <2>3. QED
    BY <2>1, <2>2
<1>41. ASSUME UNCHANGED vars PROVE Goal
  <2>1. UNCHANGED <<rows, excluded, derived, applied, pc, run>>
    BY <1>41 DEF vars
  <2>2. QED
    BY <2>1, OthersMove, NothingDropped
<1>42. Goal
  BY <1>1, <1>2, <1>3, <1>4, <1>5, <1>6, <1>7, <1>8, <1>9, <1>10, <1>11, <1>12, <1>13, <1>14, <1>15, <1>16, <1>17, <1>18, <1>19, <1>20, <1>21, <1>22, <1>23, <1>24, <1>25, <1>26, <1>27, <1>28, <1>29, <1>30, <1>31, <1>32, <1>33, <1>34, <1>35, <1>36, <1>37, <1>38, <1>39, <1>40, <1>41 DEF Next, Send, Serve, Write, Restore
<1>43. QED
  BY <1>0, <1>42 DEF Inv

\* While a restore brings back every tombstone, or nobody sends detached from raw.db, no body on
\* its way holds anything a forget denies, a mask covers or an exclusion keeps (the gate of
\* curate.rs, run_phase; dispatch.rs, transmit_output).
THEOREM NothingLeaves ==
  ASSUME LosesMasks => Detached = {} PROVE Spec => []NothingTakenLeaves
<1>1. Init => Inv
  BY InvInit
<1>2. Inv /\ [Next]_vars => Inv'
  BY InvNext
<1>3. Inv => NothingTakenLeaves
  BY DEF Inv, SendingOK, NothingTakenLeaves
<1>4. QED
  BY <1>1, <1>2, <1>3, PTL DEF Spec

\* Under the same condition an answer that was on its way brings nothing back that the consumers
\* dropped (raw.rs, append_ops_fenced).
THEOREM NothingComesBack ==
  ASSUME LosesMasks => Detached = {} PROVE Spec => []DroppedStaysDropped
<1>1. Init => Inv
  BY InvInit
<1>2. Inv /\ [Next]_vars => Inv'
  BY InvNext
<1>3. Inv => DroppedStaysDropped
  BY DEF Inv
<1>4. QED
  BY <1>1, <1>2, <1>3, PTL DEF Spec

\* Under the same condition a phase's body leaves only once knowledge.db has reached every tombstone:
\* what was read before the lag was looked for is what stands at the gate (curate.rs, lagging).
THEOREM PhasesCaughtUp ==
  ASSUME LosesMasks => Detached = {} PROVE Spec => []SendsCaughtUp
<1>1. Init => Inv
  BY InvInit
<1>2. Inv /\ [Next]_vars => Inv'
  BY InvNext
<1>3. Inv => SendsCaughtUp
  BY DEF Inv, SendingOK, SendsCaughtUp, Lagging
<1>4. QED
  BY <1>1, <1>2, <1>3, PTL DEF Spec

-----------------------------------------------------------------------------
(* The rules a body leaves under, and those a rescan masks under. *)

\* Each is inductive beside TypeOK: a save takes the exclusive hold, so nobody sends or masks
\* while the rules change but by hand.
RulesInv == TypeOK /\ SentUnderTheRules /\ MasksUnderTheRules

(* Where a body leaves or a rescan masks, it went on with its rules or has just compared them. *)
LEMMA RulesStand ==
  ASSUME RulesInv, UNCHANGED rules,
         \A q \in Procs : pc'[q] \in {"sending", "masking"} =>
           run'[q].rules = rules \/ (pc'[q] = pc[q] /\ run'[q].rules = run[q].rules)
  PROVE  SentUnderTheRules' /\ MasksUnderTheRules'
  BY DEF RulesInv, SentUnderTheRules, MasksUnderTheRules, At, Procs

LEMMA RulesStandDone ==
  ASSUME RulesInv, UNCHANGED rules, NEW p \in Procs, Done(p)
  PROVE  SentUnderTheRules' /\ MasksUnderTheRules'
<1>1. \A q \in Procs : pc'[q] \in {"sending", "masking"} => pc'[q] = pc[q] /\ run'[q] = run[q]
  BY DEF Done, Go, RulesInv, TypeOK, PlacesOK
<1>2. QED
  BY <1>1, RulesStand

LEMMA RulesNext == RulesInv /\ [Next]_vars => RulesInv'
<1> SUFFICES ASSUME RulesInv, [Next]_vars PROVE RulesInv'
  OBVIOUS
<1> DEFINE Goal == SentUnderTheRules' /\ MasksUnderTheRules'
           Kept == \A q \in Procs : pc'[q] \in {"sending", "masking"} =>
                     run'[q].rules = rules \/ (pc'[q] = pc[q] /\ run'[q].rules = run[q].rules)
<1>0. TypeOK /\ TypeOK' /\ pc \in [Procs -> SenderPlaces \cup ReaderPlaces \cup WriterPlaces]
      /\ run \in [Procs -> Notes]
  BY TypeNext DEF RulesInv, TypeOK, PlacesOK
<1>1. ASSUME NEW p \in Senders, Start(p) PROVE Goal
  <2>1. Kept
    BY <1>1, <1>0 DEF Start, Go, Note, At, OpenRaw, Notes, Procs
  <2>2. QED
    BY <1>1, <2>1, RulesStand DEF Start, OpenRaw, stores
<1>2. ASSUME NEW p \in Senders, ReadList(p) PROVE Goal
  <2>1. Kept
    BY <1>2, <1>0 DEF ReadList, Go, Note, At, Notes, Procs
  <2>2. QED
    BY <1>2, <2>1, RulesStand DEF ReadList, stores
<1>3. ASSUME NEW p \in Senders, CheckLag(p) PROVE Goal
  <2>1. CASE Done(p)
    BY <1>3, <2>1, RulesStandDone DEF CheckLag, Procs, stores
  <2>2. CASE ~Done(p)
    <3>1. Kept
      BY <1>3, <2>2, <1>0 DEF CheckLag, Go, Procs
    <3>2. QED
      BY <1>3, <2>2, <3>1, RulesStand DEF CheckLag, stores
  <2>3. QED
    BY <2>1, <2>2
<1>4. ASSUME NEW p \in Senders, Compose(p) PROVE Goal
  <2>1. Kept
    BY <1>4, <1>0 DEF Compose, Go, Note, At, Notes, Procs
  <2>2. QED
    BY <1>4, <2>1, RulesStand DEF Compose, stores
<1>5. ASSUME NEW p \in Senders, Ask(p) PROVE Goal
  <2>1. CASE Done(p)
    BY <1>5, <2>1, RulesStandDone DEF Ask, Procs, stores
  <2>2. CASE ~Done(p)
    <3>1. Kept
      BY <1>5, <2>2, <1>0 DEF Ask, Go, Procs
    <3>2. QED
      BY <1>5, <2>2, <3>1, RulesStand DEF Ask, stores
  <2>3. QED
    BY <2>1, <2>2
<1>6. ASSUME NEW p \in Senders, Reopen(p) PROVE Goal
  <2>1. Kept
    BY <1>6, <1>0 DEF Reopen, Go, Note, At, OpenRaw, Notes, Procs
  <2>2. QED
    BY <1>6, <2>1, RulesStand DEF Reopen, OpenRaw, stores
<1>7. ASSUME NEW p \in Senders, Admit(p) PROVE Goal
  <2>1. Kept
    BY <1>7, <1>0 DEF Admit, Go, Note, At, Share, Notes, Procs
  <2>2. QED
    BY <1>7, <2>1, RulesStand DEF Admit, Share, stores
<1>8. ASSUME NEW p \in Senders, NotAdmitted(p) PROVE Goal
  BY <1>8, RulesStandDone DEF NotAdmitted, Procs, stores
<1>9. ASSUME NEW p \in Senders, Check(p) PROVE Goal
  <2>1. CASE Done(p)
    BY <1>9, <2>1, RulesStandDone DEF Check, Procs, stores
  <2>2. CASE ~Done(p)
    <3>1. Kept
      BY <1>9, <2>2, <1>0 DEF Check, Go, Still, Procs
    <3>2. QED
      BY <1>9, <2>2, <3>1, RulesStand DEF Check, stores
  <2>3. QED
    BY <2>1, <2>2
<1>10. ASSUME NEW p \in Senders, BodySent(p) PROVE Goal
  <2>1. Kept
    BY <1>10, <1>0 DEF BodySent, Go, Note, At, Unshare, Notes, Procs
  <2>2. QED
    BY <1>10, <2>1, RulesStand DEF BodySent, Unshare, stores
<1>11. ASSUME NEW p \in Senders, Fail(p) PROVE Goal
  <2>1. Kept
    BY <1>11, <1>0 DEF Fail, Go, Note, At, Unshare, Notes, Procs
  <2>2. QED
    BY <1>11, <2>1, RulesStand DEF Fail, Unshare, stores
<1>12. ASSUME NEW p \in Senders, Retry(p) PROVE Goal
  <2>1. Kept
    BY <1>12, <1>0 DEF Retry, Go, Note, At, Notes, Procs
  <2>2. QED
    BY <1>12, <2>1, RulesStand DEF Retry, stores
<1>13. ASSUME NEW p \in Senders, GiveUp(p) PROVE Goal
  BY <1>13, RulesStandDone DEF GiveUp, Procs, stores
<1>14. ASSUME NEW p \in Senders, Answered(p) PROVE Goal
  <2>1. CASE Done(p)
    BY <1>14, <2>1, RulesStandDone DEF Answered, Procs, stores
  <2>2. CASE ~Done(p)
    <3>1. Kept
      BY <1>14, <2>2, <1>0 DEF Answered, Go, Procs
    <3>2. QED
      BY <1>14, <2>2, <3>1, RulesStand DEF Answered, stores
  <2>3. QED
    BY <2>1, <2>2
<1>15. ASSUME NEW p \in Senders, Settle(p) PROVE Goal
  BY <1>15, RulesStandDone DEF Settle, Procs, stores
<1>16. ASSUME NEW p \in Readers, OpenReader(p) PROVE Goal
  <2>1. Kept
    BY <1>16, <1>0 DEF OpenReader, Go, Note, At, OpenRaw, Notes, Procs
  <2>2. QED
    BY <1>16, <2>1, RulesStand DEF OpenReader, OpenRaw, stores
<1>17. ASSUME NEW p \in Readers, Hold(p) PROVE Goal
  <2>1. Kept
    BY <1>17, <1>0 DEF Hold, Go, Note, At, Share, Notes, Procs
  <2>2. QED
    BY <1>17, <2>1, RulesStand DEF Hold, Share, stores
<1>18. ASSUME NEW p \in Readers, NoHold(p) PROVE Goal
  BY <1>18, RulesStandDone DEF NoHold, Procs, stores
<1>19. ASSUME NEW p \in Readers, Read(p) PROVE Goal
  <2>1. Kept
    BY <1>19, <1>0 DEF Read, Go, Note, At, Notes, Procs
  <2>2. QED
    BY <1>19, <2>1, RulesStand DEF Read, stores
<1>20. ASSUME NEW p \in Readers, Answer(p) PROVE Goal
  <2>1. Kept
    BY <1>20, <1>0 DEF Answer, Go, Note, At, Notes, Procs
  <2>2. QED
    BY <1>20, <2>1, RulesStand DEF Answer, stores
<1>21. ASSUME NEW p \in Readers, Release(p) PROVE Goal
  BY <1>21, RulesStandDone DEF Release, Procs, stores
<1>22. ASSUME NEW p \in Writers, Preview(p) PROVE Goal
  <2>1. Kept
    BY <1>22, <1>0 DEF Preview, Go, Note, At, Want, Notes, Procs
  <2>2. QED
    BY <1>22, <2>1, RulesStand DEF Preview, Want, stores
<1>23. ASSUME NEW p \in Writers, Scan(p) PROVE Goal
  <2>1. Kept
    BY <1>23, <1>0 DEF Scan, Go, Note, At, Want, Notes, Procs
  <2>2. QED
    BY <1>23, <2>1, RulesStand DEF Scan, Want, stores
<1>24. ASSUME NEW p \in Writers, WantExclusion(p) PROVE Goal
  <2>1. Kept
    BY <1>24, <1>0 DEF WantExclusion, Go, Note, At, Want, Notes, Procs
  <2>2. QED
    BY <1>24, <2>1, RulesStand DEF WantExclusion, Want, stores
<1>25. ASSUME NEW p \in Writers, WantSave(p) PROVE Goal
  <2>1. Kept
    BY <1>25, <1>0 DEF WantSave, Go, Note, At, Want, Notes, Procs
  <2>2. QED
    BY <1>25, <2>1, RulesStand DEF WantSave, Want, stores
<1>26. ASSUME NEW p \in Writers, TakeHold(p) PROVE Goal
  <2>1. Kept
    BY <1>26, <1>0 DEF TakeHold, Go, Note, At, Held, Exclude, Notes, Procs
  <2>2. QED
    BY <1>26, <2>1, RulesStand DEF TakeHold, Held, Exclude, stores
<1>27. ASSUME NEW p \in Writers, Busy(p) PROVE Goal
  BY <1>27, RulesStandDone DEF Busy, Procs, stores
<1>28. ASSUME NEW p \in Writers, Register(p) PROVE Goal
  BY <1>28, RulesStandDone DEF Register, Procs, stores
<1>29. ASSUME NEW p \in Writers, CheckRules(p) PROVE Goal
  <2>1. CASE Done(p)
    BY <1>29, <2>1, RulesStandDone DEF CheckRules, Procs, stores
  <2>2. CASE ~Done(p)
    <3>1. Kept
      BY <1>29, <2>2, <1>0 DEF CheckRules, Go, Procs
    <3>2. QED
      BY <1>29, <2>2, <3>1, RulesStand DEF CheckRules, stores
  <2>3. QED
    BY <2>1, <2>2
<1>30. ASSUME NEW p \in Writers, Mask(p) PROVE Goal
  <2>1. Kept
    BY <1>30, <1>0 DEF Mask, Go, Note, At, Notes, Procs
  <2>2. QED
    BY <1>30, <2>1, RulesStand DEF Mask, stores
<1>31. ASSUME NEW p \in Writers, Masked(p) PROVE Goal
  BY <1>31, RulesStandDone DEF Masked, Procs, stores
<1>32. ASSUME NEW p \in Writers, Excluding(p) PROVE Goal
  BY <1>32, RulesStandDone DEF Excluding, Procs, stores
<1>33. ASSUME NEW p \in Writers, Save(p) PROVE Goal
  <2>1. exclusive = p /\ p # NoOne
    BY <1>33, <1>0, DispatchAssumption DEF Save, At, TypeOK, LocksOK, Holding, Held, Procs
  <2>2. \A q \in Senders : pc[q] # "sending"
    BY <2>1, <1>0 DEF TypeOK, LocksOK
  <2>3. \A q \in Writers : pc[q] # "masking"
    BY <1>33, <2>1, <1>0 DEF Save, At, TypeOK, LocksOK, Holding
  <2>4. pc' = [pc EXCEPT ![p] = "idle"]
    BY <1>33 DEF Save, Done, Go
  <2>5. QED
    BY <2>2, <2>3, <2>4, <1>0 DEF SentUnderTheRules, MasksUnderTheRules, At, Procs
<1>34. ASSUME HandEdit PROVE Goal
  BY <1>34 DEF HandEdit, SentUnderTheRules, MasksUnderTheRules
<1>35. ASSUME CatchUp PROVE Goal
  BY <1>35, RulesStand DEF CatchUp, stores
<1>36. ASSUME Rebuild PROVE Goal
  BY <1>36, RulesStand DEF Rebuild, stores
<1>37. ASSUME BeginSwap PROVE Goal
  BY <1>37, RulesStand DEF BeginSwap, stores
<1>38. ASSUME Swap PROVE Goal
  BY <1>38, RulesStand DEF Swap, stores
<1>39. ASSUME StopRestore PROVE Goal
  BY <1>39, RulesStand DEF StopRestore, stores
<1>40. ASSUME NEW p \in Procs, Crash(p) PROVE Goal
  BY <1>40, RulesStandDone DEF Crash, stores
<1>41. ASSUME UNCHANGED vars PROVE Goal
  BY <1>41, RulesStand DEF vars
<1>42. Goal
  BY <1>1, <1>2, <1>3, <1>4, <1>5, <1>6, <1>7, <1>8, <1>9, <1>10, <1>11, <1>12, <1>13, <1>14, <1>15, <1>16, <1>17, <1>18, <1>19, <1>20, <1>21, <1>22, <1>23, <1>24, <1>25, <1>26, <1>27, <1>28, <1>29, <1>30, <1>31, <1>32, <1>33, <1>34, <1>35, <1>36, <1>37, <1>38, <1>39, <1>40, <1>41 DEF Next, Send, Serve, Write, Restore
<1>43. QED
  BY <1>0, <1>42 DEF RulesInv

LEMMA RulesInit == Init => RulesInv
  BY TypeInit DEF Init, RulesInv, SentUnderTheRules, MasksUnderTheRules, At, Procs

\* While a body leaves, the rules are those its text was redacted with, whatever saves are posted:
\* the page's save waits for the exclusive hold (settings.rs, stage_held), the editor's does not.
THEOREM BodiesUnderTheRules == Spec => []SentUnderTheRules
<1>1. RulesInv => SentUnderTheRules
  BY DEF RulesInv
<1>2. QED
  BY <1>1, RulesInit, RulesNext, PTL DEF Spec

\* No mask is written under rules that a save has replaced: the rescan compares them under the
\* hold it then masks with (consumer/rescan.rs).
THEOREM RescansUnderTheRules == Spec => []MasksUnderTheRules
<1>1. RulesInv => MasksUnderTheRules
  BY DEF RulesInv
<1>2. QED
  BY <1>1, RulesInit, RulesNext, PTL DEF Spec
-----------------------------------------------------------------------------
(* Dispatch implements Fence: the texts on their way, and what is taken.   *)

\* A reader's answer holds nothing that is taken; before it reads it remembers nothing.
ReaderOK(p) ==
  /\ pc[p] \in {"idle", "opened"} => run[p] = Nothing
  /\ pc[p] \in {"reading", "answering"} => run[p].text \cap Taken = {}

FenceInv == Inv /\ \A p \in Readers : ReaderOK(p)

Away == {"sending", "answering"}

(* No reader moves, and what is taken changes only while nobody reads. *)
LEMMA ReadersStay ==
  ASSUME FenceInv, UNCHANGED rows \/ exclusive # NoOne,
         \A q \in Readers : pc'[q] = pc[q] /\ run'[q] = run[q]
  PROVE  \A q \in Readers : ReaderOK(q)'
<1> SUFFICES ASSUME NEW q \in Readers PROVE ReaderOK(q)'
  OBVIOUS
<1>1. ReaderOK(q) /\ Nothing' = Nothing
  BY DEF FenceInv, Nothing
<1>2. exclusive # NoOne => pc[q] \notin {"reading", "answering"}
  BY DEF FenceInv, Inv, TypeOK, LocksOK
<1>3. QED
  BY <1>1, <1>2 DEF ReaderOK, Taken, TakenBy

(* One reader moves, and what is taken stays. *)
LEMMA ReaderMoves ==
  ASSUME FenceInv, NEW p \in Readers, UNCHANGED rows, ReaderOK(p)',
         \A q \in Procs \ {p} : pc'[q] = pc[q] /\ run'[q] = run[q]
  PROVE  \A q \in Readers : ReaderOK(q)'
<1> SUFFICES ASSUME NEW q \in Readers, q # p PROVE ReaderOK(q)'
  OBVIOUS
<1>1. ReaderOK(q) /\ Nothing' = Nothing
  BY DEF FenceInv, Nothing
<1>2. QED
  BY <1>1 DEF ReaderOK, Taken, TakenBy, Procs

(* The steps of Fence, by what they do to the texts on their way. *)
LEMMA Stutters ==
  ASSUME UNCHANGED rows, \A q \in Procs : OnTheWay(q)' = OnTheWay(q)
  PROVE  UNCHANGED Promise!vars
  BY DEF Promise!vars, Taken, TakenBy

LEMMA Leaves ==
  ASSUME NEW p \in Procs, UNCHANGED rows, OnTheWay(p) = {},
         OnTheWay(p)' \subseteq Pieces, OnTheWay(p)' \cap Taken = {},
         \A q \in Procs \ {p} : OnTheWay(q)' = OnTheWay(q)
  PROVE  Promise!Next
<1> DEFINE out == [q \in Procs |-> OnTheWay(q)]
           sent == OnTheWay(p)'
<1>1. Promise!Leave(p)
  <2>1. out[p] = {} /\ UNCHANGED Taken
    BY DEF Taken, TakenBy
  <2>2. out' = [out EXCEPT ![p] = sent]
    OBVIOUS
  <2>3. QED
    BY <2>1, <2>2 DEF Promise!Leave
<1>2. QED
  BY <1>1 DEF Promise!Next

LEMMA Arrives ==
  ASSUME NEW p \in Procs, UNCHANGED rows, OnTheWay(p)' = {},
         \A q \in Procs \ {p} : OnTheWay(q)' = OnTheWay(q)
  PROVE  Promise!Next
<1>1. Promise!Arrive(p)
  BY DEF Promise!Arrive, Taken, TakenBy
<1>2. QED
  BY <1>1 DEF Promise!Next

LEMMA Takes ==
  ASSUME \A q \in Procs : OnTheWay(q) = {} /\ OnTheWay(q)' = {}, TypeOK'
  PROVE  Promise!Next
<1>1. Taken' \subseteq Pieces
  BY DEF TypeOK, Taken, TakenBy, Rows
<1>2. Promise!Take
  BY <1>1 DEF Promise!Take
<1>3. QED
  BY <1>2 DEF Promise!Next

(* One process moves and nothing of it was, or is, on its way. *)
LEMMA MovesQuietly ==
  ASSUME NEW p \in Procs, UNCHANGED rows, pc[p] \notin Away, pc'[p] \notin Away,
         \A q \in Procs \ {p} : pc'[q] = pc[q] /\ run'[q] = run[q]
  PROVE  UNCHANGED Promise!vars
  BY Stutters DEF OnTheWay, Away

LEMMA DoneArrives ==
  ASSUME FenceInv, NEW p \in Procs, Done(p), UNCHANGED rows
  PROVE  Promise!Next
<1>1. pc'[p] = "idle" /\ \A q \in Procs \ {p} : pc'[q] = pc[q] /\ run'[q] = run[q]
  BY DEF FenceInv, Inv, TypeOK, PlacesOK, Done, Go
<1>2. QED
  BY <1>1, Arrives DEF OnTheWay

(* Who holds the lock exclusively knows that nothing is on its way. *)
LEMMA NothingAway ==
  ASSUME FenceInv, exclusive # NoOne
  PROVE  \A q \in Procs : pc[q] \notin Away
<1>1. \A q \in Senders : pc[q] \notin Away
  BY DEF FenceInv, Inv, TypeOK, LocksOK, PlacesOK, SenderPlaces, Away
<1>2. \A q \in Readers : pc[q] \notin Away
  BY DEF FenceInv, Inv, TypeOK, LocksOK, PlacesOK, ReaderPlaces, Away
<1>3. \A q \in Writers : pc[q] \notin Away
  BY DEF FenceInv, Inv, TypeOK, PlacesOK, WriterPlaces, Holding, Held, Away
<1>4. QED
  BY <1>1, <1>2, <1>3 DEF Procs

LEMMA FenceNext ==
  ASSUME LosesMasks => Detached = {}, FenceInv, [Next]_vars
  PROVE  FenceInv' /\ [Promise!Next]_(Promise!vars)
<1> DEFINE Kept == \A q \in Readers : ReaderOK(q)'
           Goal == Kept /\ [Promise!Next]_(Promise!vars)
<1> USE DEF Goal
<1>0. /\ Inv /\ Inv' /\ TypeOK /\ TypeOK' /\ DOMAIN pc = Procs /\ DOMAIN run = Procs
      /\ Readers \cap Senders = {} /\ Readers \cap Writers = {}
  BY InvNext, DispatchAssumption DEF FenceInv, Inv, TypeOK, PlacesOK
<1>1. ASSUME NEW p \in Senders, Start(p) PROVE Goal
  <2>1. UNCHANGED rows /\ pc[p] \notin Away /\ pc'[p] \notin Away
    BY <1>1, <1>0 DEF Start, OpenRaw, Note, At, Go, Away, stores, Procs, Held, Done
  <2>2. \A q \in Procs \ {p} : pc'[q] = pc[q] /\ run'[q] = run[q]
    BY <1>1, <1>0 DEF Start, OpenRaw, Note, Go, stores, Procs, Done
  <2>3. Kept
    BY <1>0, <2>1, <2>2, ReadersStay DEF Procs
  <2>4. QED
    BY <2>1, <2>2, <2>3, MovesQuietly DEF Procs
<1>2. ASSUME NEW p \in Senders, ReadList(p) PROVE Goal
  <2>1. UNCHANGED rows /\ pc[p] \notin Away /\ pc'[p] \notin Away
    BY <1>2, <1>0 DEF ReadList, At, Go, Away, stores, Procs, Held, Done
  <2>2. \A q \in Procs \ {p} : pc'[q] = pc[q] /\ run'[q] = run[q]
    BY <1>2, <1>0 DEF ReadList, Go, stores, Procs, Done
  <2>3. Kept
    BY <1>0, <2>1, <2>2, ReadersStay DEF Procs
  <2>4. QED
    BY <2>1, <2>2, <2>3, MovesQuietly DEF Procs
<1>3. ASSUME NEW p \in Senders, CheckLag(p) PROVE Goal
  <2>1. UNCHANGED rows /\ pc[p] \notin Away /\ pc'[p] \notin Away
    BY <1>3, <1>0 DEF CheckLag, At, Go, Away, stores, Procs, Held, Done
  <2>2. \A q \in Procs \ {p} : pc'[q] = pc[q] /\ run'[q] = run[q]
    BY <1>3, <1>0 DEF CheckLag, Go, stores, Procs, Done
  <2>3. Kept
    BY <1>0, <2>1, <2>2, ReadersStay DEF Procs
  <2>4. QED
    BY <2>1, <2>2, <2>3, MovesQuietly DEF Procs
<1>4. ASSUME NEW p \in Senders, Compose(p) PROVE Goal
  <2>1. UNCHANGED rows /\ pc[p] \notin Away /\ pc'[p] \notin Away
    BY <1>4, <1>0 DEF Compose, Note, At, Go, Away, stores, Procs, Held, Done
  <2>2. \A q \in Procs \ {p} : pc'[q] = pc[q] /\ run'[q] = run[q]
    BY <1>4, <1>0 DEF Compose, Note, Go, stores, Procs, Done
  <2>3. Kept
    BY <1>0, <2>1, <2>2, ReadersStay DEF Procs
  <2>4. QED
    BY <2>1, <2>2, <2>3, MovesQuietly DEF Procs
<1>5. ASSUME NEW p \in Senders, Ask(p) PROVE Goal
  <2>1. UNCHANGED rows /\ pc[p] \notin Away /\ pc'[p] \notin Away
    BY <1>5, <1>0 DEF Ask, At, Go, Away, stores, Procs, Held, Done
  <2>2. \A q \in Procs \ {p} : pc'[q] = pc[q] /\ run'[q] = run[q]
    BY <1>5, <1>0 DEF Ask, Go, stores, Procs, Done
  <2>3. Kept
    BY <1>0, <2>1, <2>2, ReadersStay DEF Procs
  <2>4. QED
    BY <2>1, <2>2, <2>3, MovesQuietly DEF Procs
<1>6. ASSUME NEW p \in Senders, Reopen(p) PROVE Goal
  <2>1. UNCHANGED rows /\ pc[p] \notin Away /\ pc'[p] \notin Away
    BY <1>6, <1>0 DEF Reopen, OpenRaw, At, Go, Away, stores, Procs, Held, Done
  <2>2. \A q \in Procs \ {p} : pc'[q] = pc[q] /\ run'[q] = run[q]
    BY <1>6, <1>0 DEF Reopen, OpenRaw, Go, stores, Procs, Done
  <2>3. Kept
    BY <1>0, <2>1, <2>2, ReadersStay DEF Procs
  <2>4. QED
    BY <2>1, <2>2, <2>3, MovesQuietly DEF Procs
<1>7. ASSUME NEW p \in Senders, Admit(p) PROVE Goal
  <2>1. UNCHANGED rows /\ pc[p] \notin Away /\ pc'[p] \notin Away
    BY <1>7, <1>0 DEF Admit, Share, At, Go, Away, stores, Procs, Held, Done
  <2>2. \A q \in Procs \ {p} : pc'[q] = pc[q] /\ run'[q] = run[q]
    BY <1>7, <1>0 DEF Admit, Share, Go, stores, Procs, Done
  <2>3. Kept
    BY <1>0, <2>1, <2>2, ReadersStay DEF Procs
  <2>4. QED
    BY <2>1, <2>2, <2>3, MovesQuietly DEF Procs
<1>8. ASSUME NEW p \in Senders, NotAdmitted(p) PROVE Goal
  <2>1. Done(p) /\ UNCHANGED rows
    BY <1>8 DEF NotAdmitted, stores
  <2>2. \A q \in Readers : pc'[q] = pc[q] /\ run'[q] = run[q]
    BY <2>1, <1>0 DEF Done, Go, Procs
  <2>3. QED
    BY <2>1, <2>2, ReadersStay, DoneArrives DEF Procs
<1>9. ASSUME NEW p \in Senders, Check(p) PROVE Goal
  <2>1. UNCHANGED rows /\ \A q \in Procs \ {p} : pc'[q] = pc[q] /\ run'[q] = run[q]
    BY <1>9, <1>0 DEF Check, Go, Done, stores, Procs
  <2>2. Kept
    BY <1>0, <2>1, ReadersStay DEF Procs
  <2>3. CASE Done(p)
    BY <2>1, <2>2, <2>3, DoneArrives DEF Procs
  <2>4. CASE ~Done(p)
    <3>1. pc'[p] = "sending" /\ OnTheWay(p) = {}
      BY <1>9, <2>4, <1>0 DEF Check, At, Go, OnTheWay, Procs
    <3>2. OnTheWay(p)' \cap Taken = {}
      BY <1>0, <2>1, <3>1 DEF Inv, SendingOK, At, OnTheWay, Taken, TakenBy
    <3>3. OnTheWay(p)' \subseteq Pieces
      BY <1>0, <3>1 DEF TypeOK, Notes, OnTheWay, Procs
    <3>4. QED
      BY <2>1, <2>2, <3>1, <3>2, <3>3, Leaves DEF OnTheWay, Procs
  <2>5. QED
    BY <2>3, <2>4
<1>10. ASSUME NEW p \in Senders, BodySent(p) PROVE Goal
  <2>1. UNCHANGED rows /\ \A q \in Procs \ {p} : pc'[q] = pc[q] /\ run'[q] = run[q]
    BY <1>10, <1>0 DEF BodySent, Go, stores, Procs
  <2>2. Kept
    BY <1>0, <2>1, ReadersStay DEF Procs
  <2>3. OnTheWay(p)' = {}
    BY <1>10, <1>0 DEF BodySent, Go, OnTheWay, Procs
  <2>4. QED
    BY <2>1, <2>2, <2>3, Arrives DEF OnTheWay, Procs
<1>11. ASSUME NEW p \in Senders, Fail(p) PROVE Goal
  <2>1. UNCHANGED rows /\ \A q \in Procs \ {p} : pc'[q] = pc[q] /\ run'[q] = run[q]
    BY <1>11, <1>0 DEF Fail, Go, stores, Procs
  <2>2. Kept
    BY <1>0, <2>1, ReadersStay DEF Procs
  <2>3. OnTheWay(p)' = {}
    BY <1>11, <1>0 DEF Fail, Go, OnTheWay, Procs
  <2>4. QED
    BY <2>1, <2>2, <2>3, Arrives DEF OnTheWay, Procs
<1>12. ASSUME NEW p \in Senders, Retry(p) PROVE Goal
  <2>1. UNCHANGED rows /\ pc[p] \notin Away /\ pc'[p] \notin Away
    BY <1>12, <1>0 DEF Retry, At, Go, Away, stores, Procs, Held, Done
  <2>2. \A q \in Procs \ {p} : pc'[q] = pc[q] /\ run'[q] = run[q]
    BY <1>12, <1>0 DEF Retry, Go, stores, Procs, Done
  <2>3. Kept
    BY <1>0, <2>1, <2>2, ReadersStay DEF Procs
  <2>4. QED
    BY <2>1, <2>2, <2>3, MovesQuietly DEF Procs
<1>13. ASSUME NEW p \in Senders, GiveUp(p) PROVE Goal
  <2>1. Done(p) /\ UNCHANGED rows
    BY <1>13 DEF GiveUp, stores
  <2>2. \A q \in Readers : pc'[q] = pc[q] /\ run'[q] = run[q]
    BY <2>1, <1>0 DEF Done, Go, Procs
  <2>3. QED
    BY <2>1, <2>2, ReadersStay, DoneArrives DEF Procs
<1>14. ASSUME NEW p \in Senders, Answered(p) PROVE Goal
  <2>1. UNCHANGED rows /\ pc[p] \notin Away /\ pc'[p] \notin Away
    BY <1>14, <1>0 DEF Answered, At, Go, Away, stores, Procs, Held, Done
  <2>2. \A q \in Procs \ {p} : pc'[q] = pc[q] /\ run'[q] = run[q]
    BY <1>14, <1>0 DEF Answered, Go, stores, Procs, Done
  <2>3. Kept
    BY <1>0, <2>1, <2>2, ReadersStay DEF Procs
  <2>4. QED
    BY <2>1, <2>2, <2>3, MovesQuietly DEF Procs
<1>15. ASSUME NEW p \in Senders, Settle(p) PROVE Goal
  <2>1. Done(p) /\ UNCHANGED rows
    BY <1>15 DEF Settle, stores
  <2>2. \A q \in Readers : pc'[q] = pc[q] /\ run'[q] = run[q]
    BY <2>1, <1>0 DEF Done, Go, Procs
  <2>3. QED
    BY <2>1, <2>2, ReadersStay, DoneArrives DEF Procs
<1>16. ASSUME NEW p \in Readers, OpenReader(p) PROVE Goal
  <2>1. UNCHANGED rows /\ pc[p] \notin Away /\ pc'[p] \notin Away
    BY <1>16, <1>0 DEF OpenReader, OpenRaw, At, Go, Away, stores, Procs
  <2>2. \A q \in Procs \ {p} : pc'[q] = pc[q] /\ run'[q] = run[q]
    BY <1>16, <1>0 DEF OpenReader, OpenRaw, Go, stores, Procs
  <2>3. ReaderOK(p)'
    <3>1. pc'[p] = "opened" /\ run'[p] = Nothing /\ Nothing' = Nothing
      BY <1>16, <1>0 DEF OpenReader, OpenRaw, FenceInv, ReaderOK, At, Go, Nothing, Procs
    <3>2. QED
      BY <3>1 DEF ReaderOK
  <2>4. QED
    BY <2>1, <2>2, <2>3, ReaderMoves, MovesQuietly DEF Procs
<1>17. ASSUME NEW p \in Readers, Hold(p) PROVE Goal
  <2>1. UNCHANGED rows /\ pc[p] \notin Away /\ pc'[p] \notin Away
    BY <1>17, <1>0 DEF Hold, Share, At, Go, Away, stores, Procs
  <2>2. \A q \in Procs \ {p} : pc'[q] = pc[q] /\ run'[q] = run[q]
    BY <1>17, <1>0 DEF Hold, Share, Go, stores, Procs
  <2>3. ReaderOK(p)'
    <3>1. pc'[p] = "reading" /\ run'[p] = Nothing
      BY <1>17, <1>0 DEF Hold, Share, FenceInv, ReaderOK, At, Go, Procs
    <3>2. QED
      BY <3>1 DEF ReaderOK, Nothing
  <2>4. QED
    BY <2>1, <2>2, <2>3, ReaderMoves, MovesQuietly DEF Procs
<1>18. ASSUME NEW p \in Readers, NoHold(p) PROVE Goal
  <2>1. Done(p) /\ UNCHANGED rows
    BY <1>18 DEF NoHold, stores
  <2>2. pc'[p] = "idle" /\ run'[p] = Nothing /\ Nothing' = Nothing
    BY <2>1, <1>0 DEF Done, Go, Nothing, Procs
  <2>3. \A q \in Procs \ {p} : pc'[q] = pc[q] /\ run'[q] = run[q]
    BY <2>1, <1>0 DEF Done, Go
  <2>4. ReaderOK(p)'
    BY <2>2 DEF ReaderOK
  <2>5. QED
    BY <2>1, <2>3, <2>4, ReaderMoves, DoneArrives DEF Procs
<1>19. ASSUME NEW p \in Readers, Read(p) PROVE Goal
  <2>1. UNCHANGED rows /\ pc[p] \notin Away /\ pc'[p] \notin Away
    BY <1>19, <1>0 DEF Read, Note, At, Go, Away, stores, Procs
  <2>2. \A q \in Procs \ {p} : pc'[q] = pc[q] /\ run'[q] = run[q]
    BY <1>19, <1>0 DEF Read, Note, Go, stores, Procs
  <2>3. ReaderOK(p)'
    <3>1. PICK x \in Pieces \ Taken : Note(p, "text", run[p].text \cup {x})
      BY <1>19 DEF Read, Readable
    <3>2. pc[p] = "reading" /\ pc'[p] = pc[p] /\ run'[p].text = run[p].text \cup {x}
      BY <1>19, <1>0, <3>1 DEF Read, At, Note, TypeOK, Notes, Procs
    <3>3. QED
      BY <2>1, <3>1, <3>2 DEF ReaderOK, FenceInv, Taken, TakenBy
  <2>4. QED
    BY <2>1, <2>2, <2>3, ReaderMoves, MovesQuietly DEF Procs
<1>20. ASSUME NEW p \in Readers, Answer(p) PROVE Goal
  <2>1. UNCHANGED rows /\ \A q \in Procs \ {p} : pc'[q] = pc[q] /\ run'[q] = run[q]
    BY <1>20, <1>0 DEF Answer, Go, stores, Procs
  <2>2. pc[p] = "reading" /\ pc'[p] = "answering" /\ run'[p] = run[p]
    BY <1>20, <1>0 DEF Answer, At, Go, Procs
  <2>3. run[p].text \cap Taken = {}
    BY <2>2 DEF FenceInv, ReaderOK
  <2>4. ReaderOK(p)'
    BY <2>1, <2>2, <2>3 DEF ReaderOK, Taken, TakenBy
  <2>5. OnTheWay(p) = {} /\ OnTheWay(p)' \cap Taken = {}
    BY <2>2, <2>3 DEF OnTheWay
  <2>6. OnTheWay(p)' \subseteq Pieces
    BY <1>0, <2>2 DEF TypeOK, Notes, OnTheWay, Procs
  <2>7. QED
    BY <2>1, <2>4, <2>5, <2>6, ReaderMoves, Leaves DEF OnTheWay, Procs
<1>21. ASSUME NEW p \in Readers, Release(p) PROVE Goal
  <2>1. Done(p) /\ UNCHANGED rows
    BY <1>21 DEF Release, stores
  <2>2. pc'[p] = "idle" /\ run'[p] = Nothing /\ Nothing' = Nothing
    BY <2>1, <1>0 DEF Done, Go, Nothing, Procs
  <2>3. \A q \in Procs \ {p} : pc'[q] = pc[q] /\ run'[q] = run[q]
    BY <2>1, <1>0 DEF Done, Go
  <2>4. ReaderOK(p)'
    BY <2>2 DEF ReaderOK
  <2>5. QED
    BY <2>1, <2>3, <2>4, ReaderMoves, DoneArrives DEF Procs
<1>22. ASSUME NEW p \in Writers, Preview(p) PROVE Goal
  <2>1. UNCHANGED rows /\ pc[p] \notin Away /\ pc'[p] \notin Away
    BY <1>22, <1>0 DEF Preview, Want, At, Go, Away, stores, Procs, Held, Done
  <2>2. \A q \in Procs \ {p} : pc'[q] = pc[q] /\ run'[q] = run[q]
    BY <1>22, <1>0 DEF Preview, Want, Go, stores, Procs, Done
  <2>3. Kept
    BY <1>0, <2>1, <2>2, ReadersStay DEF Procs
  <2>4. QED
    BY <2>1, <2>2, <2>3, MovesQuietly DEF Procs
<1>23. ASSUME NEW p \in Writers, Scan(p) PROVE Goal
  <2>1. UNCHANGED rows /\ pc[p] \notin Away /\ pc'[p] \notin Away
    BY <1>23, <1>0 DEF Scan, Want, At, Go, Away, stores, Procs, Held, Done
  <2>2. \A q \in Procs \ {p} : pc'[q] = pc[q] /\ run'[q] = run[q]
    BY <1>23, <1>0 DEF Scan, Want, Go, stores, Procs, Done
  <2>3. Kept
    BY <1>0, <2>1, <2>2, ReadersStay DEF Procs
  <2>4. QED
    BY <2>1, <2>2, <2>3, MovesQuietly DEF Procs
<1>24. ASSUME NEW p \in Writers, WantExclusion(p) PROVE Goal
  <2>1. UNCHANGED rows /\ pc[p] \notin Away /\ pc'[p] \notin Away
    BY <1>24, <1>0 DEF WantExclusion, Want, At, Go, Away, stores, Procs, Held, Done
  <2>2. \A q \in Procs \ {p} : pc'[q] = pc[q] /\ run'[q] = run[q]
    BY <1>24, <1>0 DEF WantExclusion, Want, Go, stores, Procs, Done
  <2>3. Kept
    BY <1>0, <2>1, <2>2, ReadersStay DEF Procs
  <2>4. QED
    BY <2>1, <2>2, <2>3, MovesQuietly DEF Procs
<1>25. ASSUME NEW p \in Writers, WantSave(p) PROVE Goal
  <2>1. UNCHANGED rows /\ pc[p] \notin Away /\ pc'[p] \notin Away
    BY <1>25, <1>0 DEF WantSave, Want, At, Go, Away, stores, Procs, Held, Done
  <2>2. \A q \in Procs \ {p} : pc'[q] = pc[q] /\ run'[q] = run[q]
    BY <1>25, <1>0 DEF WantSave, Want, Go, stores, Procs, Done
  <2>3. Kept
    BY <1>0, <2>1, <2>2, ReadersStay DEF Procs
  <2>4. QED
    BY <2>1, <2>2, <2>3, MovesQuietly DEF Procs
<1>26. ASSUME NEW p \in Writers, TakeHold(p) PROVE Goal
  <2>1. UNCHANGED rows /\ pc[p] \notin Away /\ pc'[p] \notin Away
    BY <1>26, <1>0 DEF TakeHold, Holding, At, Go, Away, stores, Procs, Held, Done
  <2>2. \A q \in Procs \ {p} : pc'[q] = pc[q] /\ run'[q] = run[q]
    BY <1>26, <1>0 DEF TakeHold, Holding, Go, stores, Procs, Done
  <2>3. Kept
    BY <1>0, <2>1, <2>2, ReadersStay DEF Procs
  <2>4. QED
    BY <2>1, <2>2, <2>3, MovesQuietly DEF Procs
<1>27. ASSUME NEW p \in Writers, Busy(p) PROVE Goal
  <2>1. Done(p) /\ UNCHANGED rows
    BY <1>27 DEF Busy, stores
  <2>2. \A q \in Readers : pc'[q] = pc[q] /\ run'[q] = run[q]
    BY <2>1, <1>0 DEF Done, Go, Procs
  <2>3. QED
    BY <2>1, <2>2, ReadersStay, DoneArrives DEF Procs
<1>28. ASSUME NEW p \in Writers, Register(p) PROVE Goal
  <2>1. exclusive # NoOne
    BY <1>28, <1>0, DispatchAssumption DEF Register, At, TypeOK, LocksOK, Holding, Held, Procs
  <2>2. \A q \in Procs : pc[q] \notin Away
    BY <2>1, NothingAway
  <2>3. pc'[p] \notin Away /\ \A q \in Procs \ {p} : pc'[q] = pc[q] /\ run'[q] = run[q]
    BY <1>28, <1>0 DEF Register, Done, Go, Procs, At, Away
  <2>4. Kept
    BY <1>0, <2>1, <2>3, ReadersStay DEF Procs
  <2>5. \A q \in Procs : OnTheWay(q) = {} /\ OnTheWay(q)' = {}
    BY <2>2, <2>3 DEF OnTheWay, Away
  <2>6. QED
    BY <1>0, <2>4, <2>5, Takes
<1>29. ASSUME NEW p \in Writers, CheckRules(p) PROVE Goal
  <2>1. UNCHANGED rows /\ pc[p] \notin Away /\ pc'[p] \notin Away
    BY <1>29, <1>0 DEF CheckRules, At, Go, Away, stores, Procs, Held, Done
  <2>2. \A q \in Procs \ {p} : pc'[q] = pc[q] /\ run'[q] = run[q]
    BY <1>29, <1>0 DEF CheckRules, Go, stores, Procs, Done
  <2>3. Kept
    BY <1>0, <2>1, <2>2, ReadersStay DEF Procs
  <2>4. QED
    BY <2>1, <2>2, <2>3, MovesQuietly DEF Procs
<1>30. ASSUME NEW p \in Writers, Mask(p) PROVE Goal
  <2>1. exclusive # NoOne
    BY <1>30, <1>0, DispatchAssumption DEF Mask, At, TypeOK, LocksOK, Holding, Held, Procs
  <2>2. \A q \in Procs : pc[q] \notin Away
    BY <2>1, NothingAway
  <2>3. pc'[p] \notin Away /\ \A q \in Procs \ {p} : pc'[q] = pc[q] /\ run'[q] = run[q]
    BY <1>30, <1>0 DEF Mask, Note, Procs, At, Away
  <2>4. Kept
    BY <1>0, <2>1, <2>3, ReadersStay DEF Procs
  <2>5. \A q \in Procs : OnTheWay(q) = {} /\ OnTheWay(q)' = {}
    BY <2>2, <2>3 DEF OnTheWay, Away
  <2>6. QED
    BY <1>0, <2>4, <2>5, Takes
<1>31. ASSUME NEW p \in Writers, Masked(p) PROVE Goal
  <2>1. Done(p) /\ UNCHANGED rows
    BY <1>31 DEF Masked, stores
  <2>2. \A q \in Readers : pc'[q] = pc[q] /\ run'[q] = run[q]
    BY <2>1, <1>0 DEF Done, Go, Procs
  <2>3. QED
    BY <2>1, <2>2, ReadersStay, DoneArrives DEF Procs
<1>32. ASSUME NEW p \in Writers, Excluding(p) PROVE Goal
  <2>1. Done(p) /\ UNCHANGED rows
    BY <1>32 DEF Excluding, stores
  <2>2. \A q \in Readers : pc'[q] = pc[q] /\ run'[q] = run[q]
    BY <2>1, <1>0 DEF Done, Go, Procs
  <2>3. QED
    BY <2>1, <2>2, ReadersStay, DoneArrives DEF Procs
<1>33. ASSUME NEW p \in Writers, Save(p) PROVE Goal
  <2>1. Done(p) /\ UNCHANGED rows
    BY <1>33 DEF Save, stores
  <2>2. \A q \in Readers : pc'[q] = pc[q] /\ run'[q] = run[q]
    BY <2>1, <1>0 DEF Done, Go, Procs
  <2>3. QED
    BY <2>1, <2>2, ReadersStay, DoneArrives DEF Procs
<1>34. ASSUME CatchUp PROVE Goal
  <2>1. UNCHANGED <<rows, pc, run>>
    BY <1>34 DEF CatchUp, stores
  <2>2. QED
    BY <2>1, ReadersStay, Stutters DEF OnTheWay
<1>35. ASSUME Rebuild PROVE Goal
  <2>1. UNCHANGED <<rows, pc, run>>
    BY <1>35 DEF Rebuild, stores
  <2>2. QED
    BY <2>1, ReadersStay, Stutters DEF OnTheWay
<1>36. ASSUME BeginSwap PROVE Goal
  <2>1. UNCHANGED <<rows, pc, run>>
    BY <1>36 DEF BeginSwap, stores
  <2>2. QED
    BY <2>1, ReadersStay, Stutters DEF OnTheWay
<1>37. ASSUME StopRestore PROVE Goal
  <2>1. UNCHANGED <<rows, pc, run>>
    BY <1>37 DEF StopRestore, stores
  <2>2. QED
    BY <2>1, ReadersStay, Stutters DEF OnTheWay
<1>38. ASSUME HandEdit PROVE Goal
  <2>1. UNCHANGED <<rows, pc, run>>
    BY <1>38 DEF HandEdit, stores
  <2>2. QED
    BY <2>1, ReadersStay, Stutters DEF OnTheWay
<1>39. ASSUME Swap PROVE Goal
  <2>1. exclusive # NoOne /\ UNCHANGED <<pc, run>>
    BY <1>39, <1>0, DispatchAssumption DEF Swap, TypeOK, LocksOK
  <2>2. \A q \in Procs : pc[q] \notin Away
    BY <2>1, NothingAway
  <2>3. \A q \in Procs : OnTheWay(q) = {} /\ OnTheWay(q)' = {}
    BY <2>1, <2>2 DEF OnTheWay, Away
  <2>4. QED
    BY <1>0, <2>1, <2>3, Takes, ReadersStay
<1>40. ASSUME NEW p \in Procs, Crash(p) PROVE Goal
  <2>1. Done(p) /\ UNCHANGED rows
    BY <1>40 DEF Crash, stores
  <2>2. \A q \in Procs \ {p} : pc'[q] = pc[q] /\ run'[q] = run[q]
    BY <2>1, <1>0 DEF Done, Go
  <2>3. pc'[p] = "idle" /\ run'[p] = Nothing /\ Nothing' = Nothing
    BY <2>1, <1>0 DEF Done, Go, Nothing
  <2>4. CASE p \in Readers
    <3>1. ReaderOK(p)'
      BY <2>3 DEF ReaderOK
    <3>2. QED
      BY <2>1, <2>2, <2>4, <3>1, ReaderMoves, DoneArrives
  <2>5. CASE p \notin Readers
    BY <2>1, <2>2, <2>5, ReadersStay, DoneArrives DEF Procs
  <2>6. QED
    BY <2>4, <2>5
<1>41. ASSUME UNCHANGED vars PROVE Goal
  <2>1. UNCHANGED <<rows, pc, run>>
    BY <1>41 DEF vars
  <2>2. QED
    BY <2>1, ReadersStay, Stutters DEF OnTheWay
<1>42. Goal
  BY <1>1, <1>2, <1>3, <1>4, <1>5, <1>6, <1>7, <1>8, <1>9, <1>10, <1>11, <1>12, <1>13, <1>14, <1>15, <1>16, <1>17, <1>18, <1>19, <1>20, <1>21, <1>22, <1>23, <1>24, <1>25, <1>26, <1>27, <1>28, <1>29, <1>30, <1>31, <1>32, <1>33, <1>34, <1>35, <1>36, <1>37, <1>38, <1>39, <1>40, <1>41 DEF Next, Send, Serve, Write, Restore
<1>43. QED
  BY <1>0, <1>42 DEF FenceInv

LEMMA FenceInit == Init => FenceInv /\ Promise!Init
<1> SUFFICES ASSUME Init PROVE FenceInv /\ Promise!Init
  OBVIOUS
<1>1. Inv
  BY InvInit
<1>2. \A p \in Procs : pc[p] = "idle" /\ run[p] = Nothing
  BY DEF Init
<1>3. Taken = {}
  BY DEF Init, Taken, TakenBy
<1>4. QED
  BY <1>1, <1>2, <1>3 DEF FenceInv, ReaderOK, Promise!Init, OnTheWay, Procs

\* While a restore brings back every tombstone, or nobody sends detached from raw.db, every run is
\* a run of Fence: a text leaves only clear of what is taken, and nothing is taken meanwhile
\* (dispatch.rs).
THEOREM ImplementsFence ==
  ASSUME LosesMasks => Detached = {} PROVE Spec => KeepsTheFence
<1>1. Init => FenceInv /\ Promise!Init
  BY FenceInit
<1>2. FenceInv /\ [Next]_vars => FenceInv' /\ [Promise!Next]_(Promise!vars)
  BY FenceNext
<1>3. QED
  BY <1>1, <1>2, PTL DEF Spec, KeepsTheFence, Promise!Spec

\* Under the same condition a reader's answer holds nothing that is taken (dispatch.rs, reading).
THEOREM AnswersAreClean ==
  ASSUME LosesMasks => Detached = {} PROVE Spec => []AnswersWithoutTaken
<1>1. Init => FenceInv
  BY FenceInit
<1>2. FenceInv /\ [Next]_vars => FenceInv'
  BY FenceNext
<1>3. FenceInv => AnswersWithoutTaken
  BY DEF FenceInv, ReaderOK, AnswersWithoutTaken, At
<1>4. QED
  BY <1>1, <1>2, <1>3, PTL DEF Spec
=============================================================================
