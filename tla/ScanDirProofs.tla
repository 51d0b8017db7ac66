---------------------------- MODULE ScanDirProofs ----------------------------
(***************************************************************************)
(* Proofs about ScanDir for any number of units, workers, kills and panics *)
(* and any memory budget: its type invariant, that no unit is worked on    *)
(* twice or counted twice, that the findings and the coverage reported are *)
(* those of the units, and that the memory reserved is what is held.       *)
(***************************************************************************)
EXTENDS ScanDir, FiniteSetTheorems, WellFoundedInduction, TLAPS

(* A worker has a unit exactly while it is inside an iteration of its loop. *)
UnitHeld == \A w \in Workers : unit[w] = 0 <=> pc[w] \in {"claim", "exited"}

(* The claim counter separates what has been handed out from what has not. *)
ClaimedBelowNext ==
    /\ \A w \in Workers : unit[w] <= next
    /\ \A u \in deferred : u <= next
    /\ \A u \in agg.done : u \in resume_done \/ u <= next
    /\ \A w \in Workers : unit[w] \notin resume_done

(* Once the scope is left no worker runs, and past a clean join all exited. *)
WorkersJoined ==
    /\ phase # "workers" => \A w \in Workers : pc[w] \in {"exited", "panicked"}
    /\ phase \in {"deferred", "report"} => \A w \in Workers : pc[w] = "exited"

(* What phase 2 still has to scan has not been folded. *)
RescanFresh ==
    /\ phase = "workers" => deferred \cap agg.done = {}
    /\ phase # "workers" => rescan \cap agg.done = {}
    /\ rescan \subseteq deferred

(* Every unit counted is counted once and labelled, in memory and on disk. *)
CountedOnce(a) ==
    \A u \in Units : a.counted[u] \in {0, 1} /\ (a.counted[u] = 1 => u \in a.done)

Inv == /\ TypeOK /\ UnitHeld /\ UnitsDisjoint /\ ClaimedBelowNext
       /\ WorkersJoined /\ RescanFresh
       /\ CountedOnce(agg) /\ CountedOnce(ckpt)

(* Folding a well-typed result into a well-typed aggregate keeps the type. *)
LEMMA FoldType ==
    ASSUME NEW a \in Agg, NEW u \in Units, NEW f \in FileScan
    PROVE  Fold(a, u, f) \in Agg
  <1> DEFINE c == [a.counted EXCEPT ![u] = @ + (IF f.own THEN 1 ELSE 0)]
             g == [k \in Keys |-> IF a.findings[k] = 0 /\ k \in f.finds THEN u
                                  ELSE a.findings[k]]
  <1>1. c \in [Units -> Nat] BY DEF Agg, FileScan
  <1>2. g \in [Keys -> 0 .. NumUnits] BY UnitsAssumption DEF Agg, FileScan, Units
  <1>3. a.done \cup {u} \in SUBSET Units BY DEF Agg
  <1> QED BY <1>1, <1>2, <1>3 DEF Fold, Agg

(* Folding a unit that is not yet labelled counts it at most once. *)
LEMMA FoldCountedOnce ==
    ASSUME NEW a \in Agg, NEW u \in Units, NEW f \in FileScan,
           CountedOnce(a), u \notin a.done
    PROVE  CountedOnce(Fold(a, u, f))
  BY DEF CountedOnce, Fold, Agg, FileScan

(* A checkpoint's resume set is finite, so the restarted counter is a number. *)
LEMMA DoneCount ==
    ASSUME NEW S \in SUBSET Units
    PROVE  Cardinality(S) \in Nat
  <1>1. IsFiniteSet(Units) BY FS_Interval, UnitsAssumption DEF Units
  <1>2. IsFiniteSet(S) BY <1>1, FS_Subset
  <1> QED BY <1>2, FS_CardinalityType

(* The invariant holds when the scan starts without a checkpoint. *)
LEMMA InitInv == Init => Inv
  <1> SUFFICES ASSUME Init PROVE Inv OBVIOUS
  <1> USE DEF Init, AllWorkers
  <1>1. EmptyAgg \in Agg BY UnitsAssumption DEF EmptyAgg, Agg
  <1>2. EmptyScan \in FileScan BY DEF EmptyScan, FileScan
  <1>3. TypeOK BY <1>1, <1>2, UnitsAssumption, ScanAssumption DEF TypeOK, WorkerPCs
  <1>4. UnitHeld /\ UnitsDisjoint /\ ClaimedBelowNext /\ WorkersJoined /\ RescanFresh
    BY DEF UnitHeld, UnitsDisjoint, ClaimedBelowNext, WorkersJoined, RescanFresh, EmptyAgg
  <1>5. CountedOnce(agg) /\ CountedOnce(ckpt) BY DEF CountedOnce, EmptyAgg
  <1> QED BY <1>3, <1>4, <1>5 DEF Inv

(* An empty result, an error and a full verification are well-typed results. *)
LEMMA ScanTypes ==
    /\ EmptyScan \in FileScan /\ ErrorScan \in FileScan
    /\ \A u \in Units, t \in BOOLEAN : FullScan(u, t) \in FileScan
  BY ScanAssumption DEF EmptyScan, ErrorScan, FullScan, FileScan

(* Handing out the next unit keeps the invariant: what the counter has not
   reached yet is nobody's, and what an earlier run finished is skipped. *)
LEMMA ClaimInv ==
    ASSUME Inv, NEW w \in Workers, Claim(w)
    PROVE  Inv'
  <1> USE DEF Claim, Goto, shared, local, main, faults
  <1> DEFINE i == next + 1
  <1>0. next \in Nat /\ NumUnits \in Nat BY UnitsAssumption DEF Inv, TypeOK
  <1>a. agg.done \subseteq Int /\ deferred \subseteq Int /\ \A x \in Workers : unit[x] \in Int
    BY UnitsAssumption DEF Inv, TypeOK, Agg, Units
  <1>b. /\ \A x \in Workers : unit[x] <= next + 1
        /\ \A u \in deferred : u <= next + 1
        /\ \A u \in agg.done : u \in resume_done \/ u <= next + 1
        /\ \A x \in Workers : unit[x] \notin resume_done
    BY <1>0, <1>a DEF Inv, ClaimedBelowNext
  <1>c. next' = next + 1 /\ UNCHANGED <<agg, deferred, resume_done>> OBVIOUS
  <1>1. CASE Exhausted(i)
    <2>1. TypeOK' BY <1>0, <1>1 DEF Inv, TypeOK, WorkerPCs
    <2>2. UnitHeld' BY <1>1 DEF Inv, TypeOK, UnitHeld
    <2>3. ClaimedBelowNext' BY <1>1, <1>b, <1>c DEF ClaimedBelowNext
    <2>4. UnitsDisjoint' BY <1>1 DEF Inv, UnitsDisjoint
    <2>5. WorkersJoined' BY <1>1 DEF Inv, TypeOK, WorkersJoined
    <2>6. RescanFresh' /\ CountedOnce(agg)' /\ CountedOnce(ckpt)'
      BY <1>1 DEF Inv, RescanFresh, CountedOnce
    <2> QED BY <2>1, <2>2, <2>3, <2>4, <2>5, <2>6 DEF Inv
  <1>2. CASE ~Exhausted(i) /\ Resumed(i)
    <2>1. TypeOK' BY <1>0, <1>2 DEF Inv, TypeOK
    <2>2. ClaimedBelowNext' BY <1>2, <1>b, <1>c DEF ClaimedBelowNext
    <2>3. UnitHeld' /\ UnitsDisjoint' /\ WorkersJoined' /\ RescanFresh'
          /\ CountedOnce(agg)' /\ CountedOnce(ckpt)'
      BY <1>2 DEF Inv, UnitHeld, UnitsDisjoint, WorkersJoined, RescanFresh, CountedOnce
    <2> QED BY <2>1, <2>2, <2>3 DEF Inv
  <1>3. CASE ~Exhausted(i) /\ ~Resumed(i)
    <2>0. i \in Units /\ i \notin resume_done
      BY <1>0, <1>3 DEF Exhausted, Resumed, Units
    <2>1. TypeOK' BY <1>0, <1>3, <2>0 DEF Inv, TypeOK, WorkerPCs, Units
    <2>2. UnitHeld' BY <1>0, <1>3 DEF Inv, TypeOK, UnitHeld
    <2>3. ClaimedBelowNext'
      <3>1. unit' = [unit EXCEPT ![w] = i] /\ unit \in [Workers -> 0 .. NumUnits]
        BY <1>3 DEF Inv, TypeOK
      <3>2. \A x \in Workers : unit'[x] \in {unit[x], i} BY <3>1
      <3>3. i <= next + 1 BY <1>0
      <3> QED BY <1>b, <1>c, <2>0, <3>2, <3>3 DEF ClaimedBelowNext
    <2>4. i \notin agg.done \cup deferred BY <1>0, <2>0 DEF Inv, ClaimedBelowNext
    <2>5. \A x \in Workers : unit[x] # i BY <1>0 DEF Inv, ClaimedBelowNext, TypeOK
    <2>6. UnitsDisjoint' BY <1>3, <2>4, <2>5 DEF Inv, TypeOK, UnitsDisjoint
    <2>7. phase = "workers" BY DEF Inv, WorkersJoined
    <2>8. WorkersJoined' BY <2>7 DEF WorkersJoined
    <2>9. RescanFresh' /\ CountedOnce(agg)' /\ CountedOnce(ckpt)'
      BY <1>3 DEF Inv, RescanFresh, CountedOnce
    <2> QED BY <2>1, <2>2, <2>3, <2>6, <2>8, <2>9 DEF Inv
  <1> QED BY <1>1, <1>2, <1>3

(* The steps of an iteration between the claim and its end (reserving, the
   exchange, the duplicate test, verifying, releasing, counting, streaming,
   and a panic) keep the invariant: the worker keeps its unit. *)
LEMMA InsideInv ==
    ASSUME Inv, NEW w \in Workers,
           \/ LoadReserved(w) \/ Exchange(w) \/ Dedup(w) \/ VerifyUnit(w) \/ Panic(w)
           \/ Release(w) \/ CountDone(w) \/ StreamFindings(w)
    PROVE  Inv'
  <1> USE DEF Goto, shared, local, main, faults
  <1>1. phase = "workers" /\ pc[w] \notin {"claim", "exited"} /\ unit[w] \in Units
    BY UnitsAssumption DEF Inv, WorkersJoined, UnitHeld, TypeOK, Units, LoadReserved, Exchange, Dedup, VerifyUnit,
           Panic, Release, CountDone, StreamFindings
  <1>2. /\ UNCHANGED <<next, deferred, agg, unit, phase, rescan, resume_done, ckpt>>
        /\ \E l \in WorkerPCs \ {"claim", "exited"} : pc' = [pc EXCEPT ![w] = l]
    BY DEF LoadReserved, Exchange, Dedup, VerifyUnit, Panic, Release, CountDone,
           StreamFindings, WorkerPCs
  <1>3. UnitHeld' BY <1>1, <1>2 DEF Inv, TypeOK, UnitHeld
  <1>4. UnitsDisjoint' /\ ClaimedBelowNext' /\ RescanFresh'
        /\ CountedOnce(agg)' /\ CountedOnce(ckpt)'
    BY <1>2 DEF Inv, UnitsDisjoint, ClaimedBelowNext, RescanFresh, CountedOnce
  <1>5. WorkersJoined' BY <1>1, <1>2 DEF WorkersJoined
  <1>6. TypeOK'
    <2>1. next' \in Nat /\ deferred' \subseteq Units /\ agg' \in Agg
          /\ unit' \in [Workers -> 0 .. NumUnits] /\ rescan' \subseteq Units
          /\ phase' \in {"workers", "deferred", "report", "aborted"}
          /\ resume_done' \subseteq Units /\ ckpt' \in Agg
          /\ pc' \in [Workers -> WorkerPCs]
      BY <1>2 DEF Inv, TypeOK
    <2>2. Cost[unit[w]] \in Int /\ Content[unit[w]] \in Contents
      BY <1>1, ScanAssumption DEF Contents
    <2>3. done' \in Nat /\ d' \in [Workers -> Nat] /\ crashes' \in 0 .. MaxCrashes
      BY DEF Inv, TypeOK, LoadReserved, Exchange, Dedup, VerifyUnit, Panic, Release,
             CountDone, StreamFindings
    <2>4. reserved' \in Int /\ loaded' \in [Workers -> Int]
      BY <2>2 DEF Inv, TypeOK, LoadReserved, Exchange, Dedup, VerifyUnit, Panic, Release,
             CountDone, StreamFindings
    <2>5. content_seen' \subseteq Contents
      BY <2>2 DEF Inv, TypeOK, LoadReserved, Exchange, Dedup, VerifyUnit, Panic, Release,
             CountDone, StreamFindings
    <2>6. fs' \in [Workers -> FileScan]
      BY <1>1, ScanTypes DEF Inv, TypeOK, LoadReserved, Exchange, Dedup, VerifyUnit, Panic,
             Release, CountDone, StreamFindings
    <2>7. streamed' \subseteq Keys
      BY DEF Inv, TypeOK, FileScan, LoadReserved, Exchange, Dedup, VerifyUnit, Panic,
             Release, CountDone, StreamFindings
    <2>8. panics' \in 0 .. MaxPanics
      BY ScanAssumption DEF Inv, TypeOK, LoadReserved, Exchange, Dedup, VerifyUnit, Panic,
             Release, CountDone, StreamFindings
    <2> QED BY <2>1, <2>3, <2>4, <2>5, <2>6, <2>7, <2>8 DEF TypeOK
  <1> QED BY <1>3, <1>4, <1>5, <1>6 DEF Inv

(* Deferring or folding a unit keeps the invariant: the worker gives the unit up
   in the same critical section that records it. *)
LEMMA EndInv ==
    ASSUME Inv, NEW w \in Workers, Defer(w) \/ FoldUnit(w)
    PROVE  Inv'
  <1> USE DEF Goto, EndIteration, shared, local, main, faults
  <1>1. /\ phase = "workers" /\ pc[w] \notin {"claim", "exited"} /\ unit[w] \in Units
        /\ unit[w] \notin agg.done \cup deferred
        /\ unit[w] <= next
    BY UnitsAssumption
       DEF Inv, WorkersJoined, UnitHeld, TypeOK, Units, UnitsDisjoint, ClaimedBelowNext, Defer, FoldUnit
  <1>2. /\ pc' = [pc EXCEPT ![w] = "claim"] /\ unit' = [unit EXCEPT ![w] = 0]
        /\ fs' = [fs EXCEPT ![w] = EmptyScan] /\ d' = [d EXCEPT ![w] = 0]
        /\ UNCHANGED <<next, done, reserved, content_seen, streamed, loaded, phase, rescan,
                       resume_done, crashes, panics>>
    BY DEF Defer, FoldUnit
  <1>3. UnitHeld' BY <1>2 DEF Inv, TypeOK, UnitHeld
  <1>4. WorkersJoined' BY <1>1, <1>2 DEF WorkersJoined
  <1>5. CASE Defer(w)
    <2>1. deferred' = deferred \cup {unit[w]} /\ UNCHANGED <<agg, ckpt>> BY <1>5 DEF Defer
    <2>2. TypeOK' BY <1>1, <1>2, <2>1, ScanTypes, UnitsAssumption DEF Inv, TypeOK, WorkerPCs
    <2>3. UnitsDisjoint' BY <1>1, <1>2, <2>1 DEF Inv, TypeOK, UnitsDisjoint
    <2>4. \A u \in deferred' : u <= next' BY <1>1, <1>2, <2>1 DEF Inv, ClaimedBelowNext
    <2>5. 0 \notin resume_done BY UnitsAssumption DEF Inv, TypeOK, Units
    <2>6. ClaimedBelowNext' BY <1>2, <2>1, <2>4, <2>5 DEF Inv, TypeOK, ClaimedBelowNext
    <2>7. RescanFresh' BY <1>1, <1>2, <2>1 DEF Inv, RescanFresh
    <2>8. CountedOnce(agg)' /\ CountedOnce(ckpt)' BY <2>1 DEF Inv, CountedOnce
    <2> QED BY <1>3, <1>4, <2>2, <2>3, <2>6, <2>7, <2>8 DEF Inv
  <1>6. CASE FoldUnit(w)
    <2>1. /\ agg' = Fold(agg, unit[w], fs[w]) /\ ckpt' \in {agg', ckpt}
          /\ UNCHANGED deferred
      BY <1>6 DEF FoldUnit
    <2>2. agg \in Agg /\ ckpt \in Agg /\ fs[w] \in FileScan BY DEF Inv, TypeOK
    <2>3. agg' \in Agg /\ ckpt' \in Agg BY <1>1, <2>1, <2>2, FoldType
    <2>4. agg'.done = agg.done \cup {unit[w]} BY <2>1 DEF Fold
    <2>5. CountedOnce(agg)
      BY DEF Inv
    <2>6. CountedOnce(Fold(agg, unit[w], fs[w])) BY <1>1, <2>2, <2>5, FoldCountedOnce
    <2>7. CountedOnce(agg') /\ CountedOnce(ckpt') BY <2>1, <2>6 DEF Inv
    <2>8. TypeOK' BY <1>1, <1>2, <2>1, <2>3, ScanTypes, UnitsAssumption DEF Inv, TypeOK, WorkerPCs
    <2>9. UnitsDisjoint' BY <1>1, <1>2, <2>1, <2>4 DEF Inv, TypeOK, UnitsDisjoint
    <2>10. 0 \notin resume_done BY UnitsAssumption DEF Inv, TypeOK, Units
    <2>11. ClaimedBelowNext'
      BY <1>1, <1>2, <2>1, <2>4, <2>10 DEF Inv, TypeOK, ClaimedBelowNext
    <2>12. RescanFresh' BY <1>1, <1>2, <2>1, <2>4 DEF Inv, RescanFresh
    <2> QED BY <1>3, <1>4, <2>7, <2>8, <2>9, <2>11, <2>12 DEF Inv, CountedOnce
  <1> QED BY <1>5, <1>6

(* The main thread keeps the invariant: phase 2 takes each deferred unit once,
   after the last worker has ended. *)
LEMMA MainInv ==
    ASSUME Inv, Main
    PROVE  Inv'
  <1> USE DEF shared, local, main, faults
  <1>1. CASE Join
    <2>1. TypeOK' BY <1>1 DEF Join, Inv, TypeOK
    <2>2. UnitHeld' /\ UnitsDisjoint' /\ ClaimedBelowNext' /\ CountedOnce(agg)' /\ CountedOnce(ckpt)'
      BY <1>1 DEF Join, Inv, UnitHeld, UnitsDisjoint, ClaimedBelowNext, CountedOnce
    <2>3. WorkersJoined' BY <1>1 DEF Join, Inv, WorkersJoined
    <2>4. RescanFresh' BY <1>1 DEF Join, Inv, RescanFresh
    <2> QED BY <2>1, <2>2, <2>3, <2>4 DEF Inv
  <1>2. CASE RescanOne
    <2>1. PICK u \in rescan : \E f \in {ErrorScan, EmptyScan, FullScan(u, FALSE)} :
             /\ streamed' = streamed \cup f.finds
             /\ agg' = Fold(agg, u, f)
             /\ content_seen' \in {content_seen, content_seen \cup {Content[u]}}
             /\ rescan' = rescan \ {u}
      BY <1>2 DEF RescanOne
    <2>2. PICK f \in {ErrorScan, EmptyScan, FullScan(u, FALSE)} :
             /\ streamed' = streamed \cup f.finds
             /\ agg' = Fold(agg, u, f)
      BY <2>1
    <2>3. /\ phase = "deferred"
          /\ UNCHANGED <<next, done, reserved, deferred, pc, unit, loaded, fs, d, phase,
                         resume_done, ckpt, crashes, panics>>
      BY <1>2 DEF RescanOne
    <2>4. u \in Units /\ u \in deferred /\ u \notin agg.done /\ u <= next
      BY <2>3 DEF Inv, TypeOK, RescanFresh, ClaimedBelowNext
    <2>5. f \in FileScan /\ agg \in Agg BY <2>4, ScanTypes DEF Inv, TypeOK
    <2>6. agg' \in Agg /\ CountedOnce(agg')
      BY <2>2, <2>4, <2>5, FoldType, FoldCountedOnce DEF Inv
    <2>7. agg'.done = agg.done \cup {u} BY <2>2 DEF Fold
    <2>8. TypeOK'
      <3>1. streamed' \subseteq Keys BY <2>2, <2>5 DEF Inv, TypeOK, FileScan
      <3>2. content_seen' \subseteq Contents BY <2>1, <2>4 DEF Inv, TypeOK, Contents
      <3> QED BY <2>1, <2>3, <2>6, <3>1, <3>2 DEF Inv, TypeOK
    <2>9. \A w \in Workers : unit[w] = 0 BY <2>3 DEF Inv, WorkersJoined, UnitHeld
    <2>10. UnitHeld' /\ UnitsDisjoint' BY <2>3, <2>9 DEF Inv, UnitHeld, UnitsDisjoint
    <2>11. ClaimedBelowNext' BY <2>3, <2>4, <2>7 DEF Inv, ClaimedBelowNext
    <2>12. WorkersJoined' BY <2>3 DEF Inv, WorkersJoined
    <2>13. RescanFresh' BY <2>1, <2>3, <2>7 DEF Inv, RescanFresh
    <2> QED BY <2>3, <2>6, <2>8, <2>10, <2>11, <2>12, <2>13 DEF Inv, CountedOnce
  <1>3. CASE Report
    <2>1. TypeOK' BY <1>3 DEF Report, Inv, TypeOK
    <2>2. UnitHeld' /\ UnitsDisjoint' /\ ClaimedBelowNext' /\ CountedOnce(agg)' /\ CountedOnce(ckpt)'
      BY <1>3 DEF Report, Inv, UnitHeld, UnitsDisjoint, ClaimedBelowNext, CountedOnce
    <2>3. WorkersJoined' /\ RescanFresh' BY <1>3 DEF Report, Inv, WorkersJoined, RescanFresh
    <2> QED BY <2>1, <2>2, <2>3 DEF Inv
  <1> QED BY <1>1, <1>2, <1>3 DEF Main

(* A kill and a resume keep the invariant: the resume set is what the restored
   totals hold, whatever the killed run had in memory. *)
LEMMA CrashInv ==
    ASSUME Inv, CrashAndResume
    PROVE  Inv'
  <1> USE DEF CrashAndResume, ReadCheckpoint, AllWorkers, shared, local, main, faults
  <1>1. ckpt \in Agg /\ ckpt.done \subseteq Units BY DEF Inv, TypeOK, Agg
  <1>2. Cardinality(ckpt.done) \in Nat BY <1>1, DoneCount
  <1>3. TypeOK'
    BY <1>1, <1>2, ScanTypes, ScanAssumption, UnitsAssumption DEF Inv, TypeOK, WorkerPCs
  <1>4. 0 \notin ckpt.done BY <1>1, UnitsAssumption DEF Units
  <1>5. UnitHeld' /\ UnitsDisjoint' /\ ClaimedBelowNext' /\ WorkersJoined' /\ RescanFresh'
    BY <1>4 DEF UnitHeld, UnitsDisjoint, ClaimedBelowNext, WorkersJoined, RescanFresh
  <1>6. CountedOnce(agg)' /\ CountedOnce(ckpt)' BY DEF Inv, CountedOnce
  <1> QED BY <1>3, <1>5, <1>6 DEF Inv

(* Every step of the scan keeps the invariant. *)
LEMMA NextInv == Inv /\ [Next]_vars => Inv'
  <1> SUFFICES ASSUME Inv, [Next]_vars PROVE Inv' OBVIOUS
  <1>1. CASE UNCHANGED vars
    BY <1>1 DEF vars, shared, local, main, faults, Inv, TypeOK, UnitHeld, UnitsDisjoint,
       ClaimedBelowNext, WorkersJoined, RescanFresh, CountedOnce
  <1>2. ASSUME NEW w \in Workers, Worker(w) \/ Panic(w) PROVE Inv'
    <2>1. CASE SleepFull(w) BY <1>1, <2>1 DEF SleepFull
    <2> QED BY <1>2, <2>1, ClaimInv, InsideInv, EndInv DEF Worker
  <1>3. CASE Main BY <1>3, MainInv
  <1>4. CASE CrashAndResume BY <1>4, CrashInv
  <1>5. CASE Finished BY <1>1, <1>5 DEF Finished
  <1> QED BY <1>1, <1>2, <1>3, <1>4, <1>5 DEF Next

(* The inductive invariant holds throughout every scan. *)
THEOREM InvHolds == Spec => []Inv
  BY InitInv, NextInv, PTL DEF Spec

(* Every variable keeps its type, for any number of workers, units, kills and
   panics. *)
THEOREM TypeCorrect == Spec => []TypeOK
  <1>1. Inv => TypeOK BY DEF Inv
  <1> QED BY <1>1, InvHolds, PTL

(* No two workers of scan_dir ever hold the same unit, and none holds a unit that
   was already folded or deferred. *)
THEOREM UnitsStayDisjoint == Spec => []UnitsDisjoint
  <1>1. Inv => UnitsDisjoint BY DEF Inv
  <1> QED BY <1>1, InvHolds, PTL

(* No unit's result enters the totals twice, over any number of kills, resumes and
   deferrals, and the checkpoint file never holds a result without its label. *)
THEOREM NoUnitCountedTwice == Spec => []NoUnitTwice
  <1>1. Inv => NoUnitTwice BY DEF Inv, CountedOnce, NoUnitTwice
  <1> QED BY <1>1, InvHolds, PTL

-----------------------------------------------------------------------------
(* The findings and the checkpoint file. *)

(* What a result says of its unit: nothing, an error, or all of its findings. *)
Honest(u, f) == f.finds = IF f.own /\ u \notin Unreadable THEN Finds[Content[u]] ELSE {}

(* The findings of an aggregate are those of the units it has counted. *)
Exact(a) ==
    \A k \in Keys : a.findings[k] # 0 <=>
        \E u \in Units \ Unreadable : a.counted[u] > 0 /\ k \in Finds[Content[u]]

(* b has every label and every finding of a, each under the same unit. *)
Extends(b, a) ==
    /\ a.done \subseteq b.done
    /\ \A k \in Keys : a.findings[k] # 0 => b.findings[k] = a.findings[k]

(* A worker that carries a result carries an honest one, and only what could be
   read is verified. *)
ResultsHonest ==
    \A w \in Workers :
        /\ pc[w] \in {"release", "count", "defer", "stream", "fold"} => Honest(unit[w], fs[w])
        /\ pc[w] = "verify" => unit[w] \notin Unreadable

Inv2 == /\ ResultsHonest /\ Exact(agg) /\ Exact(ckpt) /\ Extends(agg, ckpt)

(* Every result scan_one_unit can return is honest. *)
LEMMA ScansHonest ==
    /\ \A u \in Units : Honest(u, EmptyScan)
    /\ \A u \in Unreadable : Honest(u, ErrorScan)
    /\ \A u \in Units \ Unreadable, t \in BOOLEAN : Honest(u, FullScan(u, t))
  BY DEF Honest, EmptyScan, ErrorScan, FullScan

(* Folding an honest result of a unit not yet labelled keeps the findings exact,
   and an aggregate only grows. *)
LEMMA FoldExact ==
    ASSUME NEW a \in Agg, NEW u \in Units, NEW f \in FileScan, Honest(u, f), Exact(a)
    PROVE  Exact(Fold(a, u, f)) /\ Extends(Fold(a, u, f), a)
  <1> DEFINE b == Fold(a, u, f)
  <1>0. u # 0 BY UnitsAssumption DEF Units
  <1>1. \A k \in Keys : b.findings[k] = IF a.findings[k] = 0 /\ k \in f.finds THEN u
                                         ELSE a.findings[k]
    BY DEF Fold
  <1>2. \A x \in Units : a.counted[x] \in Nat BY DEF Agg
  <1>3. \A x \in Units : b.counted[x] = IF x = u /\ f.own THEN a.counted[x] + 1 ELSE a.counted[x]
    BY <1>2 DEF Fold, Agg, FileScan
  <1>4. \A x \in Units : b.counted[x] > 0 <=> a.counted[x] > 0 \/ (x = u /\ f.own)
    BY <1>2, <1>3
  <1>5. ASSUME NEW k \in Keys
        PROVE  b.findings[k] # 0 <=>
                 \E x \in Units \ Unreadable : b.counted[x] > 0 /\ k \in Finds[Content[x]]
    <2>1. b.findings[k] # 0 <=> a.findings[k] # 0 \/ k \in f.finds BY <1>0, <1>1
    <2>2. k \in f.finds <=> f.own /\ u \in Units \ Unreadable /\ k \in Finds[Content[u]]
      BY DEF Honest
    <2>3. a.findings[k] # 0 <=>
            \E x \in Units \ Unreadable : a.counted[x] > 0 /\ k \in Finds[Content[x]]
      BY DEF Exact
    <2> HIDE DEF b
    <2> QED BY <1>4, <2>1, <2>2, <2>3
  <1>6. Exact(b) BY <1>5 DEF Exact
  <1>7. Extends(b, a) BY <1>1 DEF Extends, Fold
  <1> QED BY <1>6, <1>7

(* A first start has neither findings nor a checkpoint. *)
LEMMA InitInv2 == Init => Inv2
  BY DEF Init, Inv2, ResultsHonest, Exact, Extends, EmptyAgg, AllWorkers

(* A worker's step keeps results honest, findings exact and the aggregate ahead
   of the checkpoint. *)
LEMMA WorkerInv2 ==
    ASSUME Inv, Inv2, NEW w \in Workers, Worker(w) \/ Panic(w)
    PROVE  Inv2'
  <1> USE DEF Goto, EndIteration, shared, local, main, faults
  <1>0. /\ pc[w] \notin {"claim", "exited"} => unit[w] \in Units
        /\ pc \in [Workers -> WorkerPCs] /\ fs \in [Workers -> FileScan]
        /\ unit \in [Workers -> 0 .. NumUnits] /\ agg \in Agg
    BY UnitsAssumption DEF Inv, UnitHeld, TypeOK, Units
  <1>1. CASE Claim(w) \/ LoadReserved(w) \/ SleepFull(w) \/ Exchange(w) \/ Panic(w)
             \/ Release(w) \/ CountDone(w) \/ StreamFindings(w) \/ Defer(w)
    <2>1. UNCHANGED <<agg, ckpt>>
      BY <1>1 DEF Claim, LoadReserved, SleepFull, Exchange, Panic, Release, CountDone,
         StreamFindings, Defer, vars
    <2>2. ResultsHonest'
      BY <1>0, <1>1 DEF Claim, LoadReserved, SleepFull, Exchange, Panic, Release, CountDone,
         StreamFindings, Defer, vars, Inv2, ResultsHonest
    <2> QED BY <2>1, <2>2 DEF Inv2, Exact, Extends
  <1>2. CASE Dedup(w) \/ VerifyUnit(w)
    <2>1. UNCHANGED <<agg, ckpt, unit>> BY <1>2 DEF Dedup, VerifyUnit
    <2>2. unit[w] \in Units BY <1>0, <1>2 DEF Dedup, VerifyUnit
    <2>3. CASE pc'[w] = "release" /\ Honest(unit[w], fs'[w])
      BY <1>0, <1>2, <2>1, <2>3 DEF Dedup, VerifyUnit, Inv2, ResultsHonest, Exact, Extends
    <2>4. CASE pc'[w] = "verify" /\ unit[w] \notin Unreadable
      BY <1>0, <1>2, <2>1, <2>4 DEF Dedup, VerifyUnit, Inv2, ResultsHonest, Exact, Extends
    <2>5. CASE Dedup(w)
      BY <1>0, <2>2, <2>3, <2>4, <2>5, ScansHonest DEF Dedup
    <2>6. CASE VerifyUnit(w)
      <3>1. unit[w] \notin Unreadable
        BY <2>6 DEF VerifyUnit, Inv2, ResultsHonest
      <3> QED BY <1>0, <2>2, <2>3, <2>6, <3>1, ScansHonest DEF VerifyUnit
    <2> QED BY <1>2, <2>5, <2>6
  <1>3. CASE FoldUnit(w)
    <2>1. agg' = Fold(agg, unit[w], fs[w]) /\ ckpt' \in {agg', ckpt} BY <1>3 DEF FoldUnit
    <2>2. unit[w] \in Units /\ Honest(unit[w], fs[w])
      BY <1>0, <1>3 DEF FoldUnit, Inv2, ResultsHonest
    <2>3. Exact(agg') /\ Extends(agg', agg)
      BY <1>0, <2>1, <2>2, FoldExact DEF Inv2
    <2>4. Exact(ckpt') /\ Extends(agg', ckpt')
      BY <2>1, <2>3 DEF Inv2, Extends
    <2>5. ResultsHonest' BY <1>0, <1>3 DEF FoldUnit, Inv2, ResultsHonest
    <2> QED BY <2>3, <2>4, <2>5 DEF Inv2, Exact, Extends
  <1> QED BY <1>1, <1>2, <1>3 DEF Worker

(* So does every other step. *)
LEMMA NextInv2 == Inv /\ Inv2 /\ [Next]_vars => Inv2'
  <1> SUFFICES ASSUME Inv, Inv2, [Next]_vars PROVE Inv2' OBVIOUS
  <1> USE DEF shared, local, main, faults
  <1>1. CASE UNCHANGED vars
    BY <1>1 DEF vars, Inv2, ResultsHonest, Exact, Extends
  <1>2. ASSUME NEW w \in Workers, Worker(w) \/ Panic(w) PROVE Inv2'
    BY <1>2, WorkerInv2
  <1>3. CASE Join
    BY <1>3 DEF Join, Inv2, ResultsHonest, Exact, Extends
  <1>4. CASE RescanOne
    <2> DEFINE g(u) == IF u \in Unreadable THEN ErrorScan
                       ELSE IF SeenBefore(u) THEN EmptyScan ELSE FullScan(u, FALSE)
    <2>1. PICK u \in rescan : agg' = Fold(agg, u, g(u)) BY <1>4 DEF RescanOne
    <2>2. u \in Units /\ agg \in Agg BY DEF Inv, TypeOK
    <2>3. g(u) \in FileScan /\ Honest(u, g(u)) BY <2>2, ScanTypes, ScansHonest
    <2>4. Exact(agg') /\ Extends(agg', agg) BY <2>1, <2>2, <2>3, FoldExact DEF Inv2
    <2>5. UNCHANGED <<ckpt, pc, unit, fs>> BY <1>4 DEF RescanOne
    <2> QED BY <2>4, <2>5 DEF Inv2, ResultsHonest, Exact, Extends
  <1>5. CASE Report
    BY <1>5 DEF Report, Inv2, ResultsHonest, Exact, Extends
  <1>6. CASE CrashAndResume
    <2>1. agg' = ckpt /\ ckpt' = ckpt /\ pc' = [w \in Workers |-> "claim"]
      BY <1>6 DEF CrashAndResume, ReadCheckpoint, AllWorkers
    <2> QED BY <2>1 DEF Inv2, ResultsHonest, Exact, Extends
  <1>7. CASE Finished BY <1>1, <1>7 DEF Finished
  <1> QED BY <1>1, <1>2, <1>3, <1>4, <1>5, <1>6, <1>7 DEF Next, Main

(* The second invariant holds throughout every scan. *)
THEOREM Inv2Holds == Spec => []Inv2
  BY InvHolds, InitInv2, NextInv2, PTL DEF Spec

(* The de-duplicated findings are those of the counted units: none is dropped and
   none invented, also across kills and resumes. *)
THEOREM FindingsStayExact == Spec => []FindingsExact
  <1>1. Inv2 => FindingsExact BY DEF Inv2, Exact, FindingsExact
  <1> QED BY <1>1, Inv2Holds, PTL

(* No write of the checkpoint file forgets a unit or a finding of an earlier one. *)
THEOREM CheckpointOnlyGrows == Spec => CheckpointGrows
  <1> DEFINE Grows == Extends(ckpt', ckpt)
  <1>1. Inv /\ Inv2 /\ [Next]_vars => [Grows]_vars
    <2> SUFFICES ASSUME Inv, Inv2, Next PROVE Grows OBVIOUS
    <2>1. CASE ckpt' \in {ckpt, agg} BY <2>1 DEF Inv2, Extends
    <2>2. ASSUME NEW w \in Workers, FoldUnit(w) PROVE Grows
      <3>1. agg' = Fold(agg, unit[w], fs[w]) /\ ckpt' \in {agg', ckpt} BY <2>2 DEF FoldUnit
      <3>2. unit[w] \in Units /\ fs[w] \in FileScan /\ agg \in Agg
        BY <2>2, UnitsAssumption DEF FoldUnit, Inv, UnitHeld, TypeOK, Units
      <3>3. Honest(unit[w], fs[w]) BY <2>2 DEF FoldUnit, Inv2, ResultsHonest
      <3>4. Extends(agg', agg) BY <3>1, <3>2, <3>3, FoldExact DEF Inv2
      <3> QED BY <3>1, <3>4 DEF Inv2, Extends
    <2>3. (\E w \in Workers : FoldUnit(w)) \/ ckpt' \in {ckpt, agg}
      BY DEF Next, Worker, Main, Claim, LoadReserved, SleepFull, Exchange, Dedup, VerifyUnit,
         Panic, Release, CountDone, Defer, StreamFindings, Join, RescanOne, Report,
         CrashAndResume, Finished, vars, shared, local, main, faults
    <2> QED BY <2>1, <2>2, <2>3
  <1>2. CheckpointGrows <=> [][Grows]_vars BY PTL DEF CheckpointGrows, Extends
  <1> QED BY <1>1, <1>2, InvHolds, Inv2Holds, PTL DEF Spec

-----------------------------------------------------------------------------
(* Coverage: every unit is accounted for, and within one process byte-identical
   units are counted once. *)

Carrying == {"release", "count", "defer", "stream", "fold"}

(* The worker verifies its unit, has verified it, or died over it. *)
Owns(w) == pc[w] \in {"verify", "panicked"} \/ (pc[w] \in Carrying /\ fs[w].own)

(* The unit its content is verified through. *)
Owned(u) ==
    agg.counted[u] = 1 \/ u \in deferred \/ \E w \in Workers : unit[w] = u /\ Owns(w)

Readable == Units \ Unreadable
Same(x, u) == x = u \/ (Content[x] = Content[u] /\ x \notin Unreadable)

(* An empty result is that of a duplicate; only full results are cut short. *)
ResultsBacked ==
    \A w \in Workers :
        /\ pc[w] \in Carrying =>
             /\ fs[w].truncated => fs[w].own
             /\ ~fs[w].own => unit[w] \notin Unreadable /\ Content[unit[w]] \in content_seen
        /\ pc[w] = "defer" => fs[w].truncated

(* What is in content_seen is verified through some unit; within one process
   through one only. *)
SeenOwned == \A c \in content_seen : \E u \in Readable : Content[u] = c /\ Owned(u)
OwnersUnique ==
    crashes = 0 =>
        /\ \A u \in Readable : Owned(u) => Content[u] \in content_seen
        /\ \A u, x \in Readable : Owned(u) /\ Owned(x) /\ Content[u] = Content[x] => u = x

(* Every unit the counter has passed is done, deferred or in some worker's hands. *)
HandedOut ==
    /\ resume_done \subseteq agg.done
    /\ \A u \in Units : u <= next =>
         u \in agg.done \/ u \in deferred \/ \E w \in Workers : unit[w] = u
    /\ \A w \in Workers : pc[w] = "exited" => next > NumUnits
    /\ phase \in {"deferred", "report"} => deferred \ rescan \subseteq agg.done
    /\ phase = "report" => rescan = {}

(* A label stands for a result: of its own unit, or of one with the same bytes that
   is counted, deferred or still to come. *)
DoneCovered ==
    \A u \in agg.done : \E x \in Units :
        Same(x, u) /\ (agg.counted[x] = 1 \/ x \in deferred \/ x \notin agg.done)
CkptCovered ==
    phase \in {"workers", "deferred"} =>
        \A u \in ckpt.done : \E x \in Units :
            Same(x, u) /\ (ckpt.counted[x] = 1 \/ x \notin ckpt.done)

Inv3 == /\ ResultsBacked /\ SeenOwned /\ OwnersUnique /\ HandedOut
        /\ DoneCovered /\ CkptCovered

(* What a worker's step does to the other workers and the main thread. *)
LEMMA OthersKept ==
    ASSUME Inv, NEW w \in Workers, Worker(w) \/ Panic(w)
    PROVE  /\ \A v \in Workers : v # w =>
                pc'[v] = pc[v] /\ unit'[v] = unit[v] /\ fs'[v] = fs[v]
           /\ UNCHANGED <<phase, rescan, resume_done, crashes>> /\ phase = "workers"
  <1> USE DEF Goto, EndIteration, shared, local, main, faults
  <1>1. /\ pc \in [Workers -> WorkerPCs] /\ fs \in [Workers -> FileScan]
        /\ unit \in [Workers -> 0 .. NumUnits]
    BY DEF Inv, TypeOK
  <1>2. phase = "workers"
    <2>1. pc[w] \notin {"exited", "panicked"}
      BY DEF Worker, Claim, LoadReserved, SleepFull, Exchange, Dedup, VerifyUnit, Panic,
         Release, CountDone, Defer, StreamFindings, FoldUnit
    <2> QED BY <2>1 DEF Inv, WorkersJoined
  <1>3. CASE Claim(w) \/ LoadReserved(w) \/ SleepFull(w) \/ Exchange(w)
    BY <1>1, <1>2, <1>3 DEF Claim, LoadReserved, SleepFull, Exchange, vars
  <1>4. CASE Dedup(w) \/ VerifyUnit(w) \/ Panic(w) \/ Release(w)
    BY <1>1, <1>2, <1>4 DEF Dedup, VerifyUnit, Panic, Release
  <1>5. CASE CountDone(w) \/ Defer(w) \/ StreamFindings(w) \/ FoldUnit(w)
    BY <1>1, <1>2, <1>5 DEF CountDone, Defer, StreamFindings, FoldUnit
  <1> QED BY <1>3, <1>4, <1>5 DEF Worker

(* The steps that hand no unit over: the worker owns what it owned. *)
QuietStep(w) ==
    \/ Claim(w) \/ LoadReserved(w) \/ SleepFull(w) \/ Exchange(w) \/ VerifyUnit(w) \/ Panic(w)
    \/ Release(w) \/ CountDone(w) \/ StreamFindings(w)

LEMMA QuietOwns ==
    ASSUME Inv, NEW w \in Workers, QuietStep(w)
    PROVE  /\ UNCHANGED <<agg, deferred, content_seen, ckpt>>
           /\ Owns(w)' <=> Owns(w)
           /\ unit[w] # 0 => unit'[w] = unit[w] /\ next' = next
  <1> USE DEF Goto, shared, local, main, faults, Owns, Carrying
  <1>1. /\ pc \in [Workers -> WorkerPCs] /\ fs \in [Workers -> FileScan]
        /\ unit \in [Workers -> 0 .. NumUnits]
        /\ (unit[w] = 0 <=> pc[w] \in {"claim", "exited"})
    BY DEF Inv, TypeOK, UnitHeld
  <1>2. CASE Claim(w) BY <1>1, <1>2 DEF Claim
  <1>3. CASE LoadReserved(w) \/ Exchange(w) BY <1>1, <1>3 DEF LoadReserved, Exchange
  <1>4. CASE SleepFull(w) BY <1>4 DEF SleepFull, vars
  <1>5. CASE VerifyUnit(w)
    <2>1. PICK t \in BOOLEAN : fs' = [fs EXCEPT ![w] = FullScan(unit[w], t)]
      BY <1>5 DEF VerifyUnit
    <2>2. fs'[w].own = TRUE BY <1>1, <2>1 DEF FullScan
    <2>3. pc[w] = "verify" /\ pc'[w] = "release" BY <1>1, <1>5 DEF VerifyUnit
    <2> QED BY <1>5, <2>2, <2>3 DEF VerifyUnit
  <1>6. CASE Panic(w) BY <1>1, <1>6 DEF Panic
  <1>7. CASE Release(w) \/ CountDone(w) \/ StreamFindings(w)
    BY <1>1, <1>7 DEF Release, CountDone, StreamFindings
  <1> QED BY <1>2, <1>3, <1>4, <1>5, <1>6, <1>7 DEF QuietStep

LEMMA QuietOwned ==
    ASSUME Inv, NEW w \in Workers, QuietStep(w), NEW u \in Units
    PROVE  Owned(u)' <=> Owned(u)
  <1>1. UNCHANGED <<agg, deferred>> BY QuietOwns
  <1>2. \A v \in Workers : v # w => unit'[v] = unit[v] /\ (Owns(v)' <=> Owns(v))
    BY OthersKept DEF Owns, QuietStep, Worker
  <1>3. unit[w] = 0 => ~Owns(w) BY DEF Owns, Carrying, Inv, UnitHeld
  <1>4. unit'[w] = u /\ Owns(w)' <=> unit[w] = u /\ Owns(w) BY <1>3, QuietOwns
  <1>5. (\E v \in Workers : unit'[v] = u /\ Owns(v)') <=> (\E v \in Workers : unit[v] = u /\ Owns(v))
    BY <1>2, <1>4
  <1> QED BY <1>1, <1>5 DEF Owned

LEMMA QuietBacked ==
    ASSUME Inv, ResultsBacked, NEW w \in Workers, QuietStep(w)
    PROVE  ResultsBacked'
  <1> USE DEF Goto, shared, local, main, faults, Carrying
  <1>1. /\ pc \in [Workers -> WorkerPCs] /\ fs \in [Workers -> FileScan]
        /\ unit \in [Workers -> 0 .. NumUnits]
    BY DEF Inv, TypeOK
  <1>2. content_seen' = content_seen BY QuietOwns
  <1>3. \A v \in Workers : v # w => pc'[v] = pc[v] /\ unit'[v] = unit[v] /\ fs'[v] = fs[v]
    BY OthersKept DEF QuietStep, Worker
  <1>4. SUFFICES
          /\ pc'[w] \in Carrying =>
               /\ fs'[w].truncated => fs'[w].own
               /\ ~fs'[w].own => unit'[w] \notin Unreadable /\ Content[unit'[w]] \in content_seen
          /\ pc'[w] = "defer" => fs'[w].truncated
    BY <1>2, <1>3, <1>4 DEF ResultsBacked
  <1>5. CASE Claim(w) \/ LoadReserved(w) \/ Exchange(w) \/ Panic(w)
    <2>1. pc'[w] \notin Carrying BY <1>1, <1>5 DEF Claim, LoadReserved, Exchange, Panic
    <2> QED BY <2>1
  <1>6. CASE SleepFull(w)
    <2>1. pc'[w] = "reserve" BY <1>6 DEF SleepFull, vars
    <2> QED BY <2>1
  <1>7. CASE VerifyUnit(w)
    <2>1. PICK t \in BOOLEAN : fs' = [fs EXCEPT ![w] = FullScan(unit[w], t)]
      BY <1>7 DEF VerifyUnit
    <2>2. fs'[w].own = TRUE BY <1>1, <2>1 DEF FullScan
    <2>3. pc'[w] = "release" BY <1>1, <1>7 DEF VerifyUnit
    <2> QED BY <2>2, <2>3
  <1>8. CASE Release(w) \/ StreamFindings(w)
    <2>1. /\ pc[w] \in Carrying /\ pc'[w] \in Carrying \ {"defer"} /\ UNCHANGED <<fs, unit>>
      BY <1>1, <1>8 DEF Release, StreamFindings
    <2> QED BY <2>1 DEF ResultsBacked
  <1>9. CASE CountDone(w)
    <2>1. pc[w] \in Carrying /\ UNCHANGED <<fs, unit>> BY <1>9 DEF CountDone
    <2>2. pc'[w] = IF fs[w].truncated THEN "defer" ELSE "stream" BY <1>1, <1>9 DEF CountDone
    <2> QED BY <2>1, <2>2 DEF ResultsBacked
  <1> QED BY <1>5, <1>6, <1>7, <1>8, <1>9 DEF QuietStep

LEMMA QuietHanded ==
    ASSUME Inv, HandedOut, NEW w \in Workers, QuietStep(w)
    PROVE  HandedOut'
  <1> USE DEF Goto, shared, local, main, faults
  <1>1. /\ next \in Nat /\ NumUnits \in Nat /\ pc \in [Workers -> WorkerPCs]
        /\ unit \in [Workers -> 0 .. NumUnits]
        /\ (unit[w] = 0 <=> pc[w] \in {"claim", "exited"})
    BY UnitsAssumption DEF Inv, TypeOK, UnitHeld
  <1>2. UNCHANGED <<agg, deferred, phase, rescan, resume_done>> /\ phase = "workers"
    BY QuietOwns, OthersKept DEF QuietStep, Worker
  <1>3. \A v \in Workers : v # w => pc'[v] = pc[v] /\ unit'[v] = unit[v]
    BY OthersKept DEF QuietStep, Worker
  <1>4. SUFFICES
          /\ \A u \in Units : u <= next' =>
               u \in agg.done \/ u \in deferred \/ \E v \in Workers : unit'[v] = u
          /\ \A v \in Workers : pc'[v] = "exited" => next' > NumUnits
    BY <1>2 DEF HandedOut
  <1>5. CASE Claim(w)
    <2>1. pc[w] = "claim" /\ next' = next + 1 /\ unit[w] = 0 BY <1>1, <1>5 DEF Claim
    <2>2. Exhausted(next + 1) <=> next + 1 > NumUnits BY DEF Exhausted
    <2>3. \A v \in Workers : v # w /\ pc'[v] = "exited" => next' > NumUnits
      BY <1>1, <1>3, <2>1 DEF HandedOut
    <2>4. pc'[w] = "exited" => next' > NumUnits BY <1>1, <1>5, <2>1, <2>2 DEF Claim
    <2>5. ASSUME NEW u \in Units, u <= next'
          PROVE  u \in agg.done \/ u \in deferred \/ \E v \in Workers : unit'[v] = u
      <3>1. u \in 1 .. NumUnits BY DEF Units
      <3>2. CASE u = next + 1
        <4>1. ~Exhausted(next + 1) BY <1>1, <2>2, <3>1, <3>2
        <4>2. CASE Resumed(next + 1) BY <3>2, <4>2 DEF Resumed, HandedOut
        <4>3. CASE ~Resumed(next + 1)
          <5>1. unit' = [unit EXCEPT ![w] = next + 1] BY <1>5, <4>1, <4>3 DEF Claim
          <5> QED BY <1>1, <3>2, <5>1
        <4> QED BY <4>2, <4>3
      <3>3. CASE u # next + 1
        <4>1. u <= next BY <1>1, <2>1, <2>5, <3>1, <3>3
        <4>2. ASSUME NEW v \in Workers, unit[v] = u PROVE unit'[v] = u
          BY <1>1, <1>3, <2>1, <3>1, <4>2
        <4> QED BY <4>1, <4>2 DEF HandedOut
      <3> QED BY <3>2, <3>3
    <2> QED BY <2>3, <2>4, <2>5
  <1>6. CASE ~Claim(w)
    <2>1. pc[w] \notin {"claim", "exited"} /\ pc'[w] # "exited"
      <3>1. CASE LoadReserved(w) \/ SleepFull(w) \/ Exchange(w) \/ VerifyUnit(w)
        BY <1>1, <3>1 DEF LoadReserved, SleepFull, Exchange, VerifyUnit, vars
      <3>2. CASE Panic(w) \/ Release(w) \/ CountDone(w) \/ StreamFindings(w)
        BY <1>1, <3>2 DEF Panic, Release, CountDone, StreamFindings
      <3> QED BY <1>6, <3>1, <3>2 DEF QuietStep
    <2>2. next' = next /\ unit'[w] = unit[w] BY <1>1, <2>1, QuietOwns
    <2>3. \A v \in Workers : unit'[v] = unit[v] /\ (pc'[v] = "exited" => pc[v] = "exited")
      BY <1>3, <2>1, <2>2
    <2> QED BY <2>2, <2>3 DEF HandedOut
  <1> QED BY <1>5, <1>6

LEMMA QuietInv3 ==
    ASSUME Inv, Inv3, NEW w \in Workers, QuietStep(w)
    PROVE  Inv3'
  <1>1. /\ ResultsBacked /\ SeenOwned /\ OwnersUnique /\ HandedOut /\ DoneCovered /\ CkptCovered
    BY DEF Inv3
  <1>2. UNCHANGED <<agg, deferred, content_seen, ckpt, phase, crashes>>
    BY QuietOwns, OthersKept DEF QuietStep, Worker
  <1>3. \A u \in Units : Owned(u)' <=> Owned(u) BY QuietOwned
  <1>4. SeenOwned' BY <1>1, <1>2, <1>3 DEF SeenOwned, Readable
  <1>5. OwnersUnique' BY <1>1, <1>2, <1>3 DEF OwnersUnique, Readable
  <1>6. DoneCovered' /\ CkptCovered' BY <1>1, <1>2 DEF DoneCovered, CkptCovered, Same
  <1> QED BY <1>1, <1>4, <1>5, <1>6, QuietBacked, QuietHanded DEF Inv3

(* The duplicate test: the first worker to see a content owns it. *)
LEMMA DedupInv3 ==
    ASSUME Inv, Inv3, NEW w \in Workers, Dedup(w)
    PROVE  Inv3'
  <1> USE DEF Goto, main, faults
  <1>1. /\ pc \in [Workers -> WorkerPCs] /\ fs \in [Workers -> FileScan]
        /\ unit \in [Workers -> 0 .. NumUnits] /\ NumUnits \in Nat
    BY UnitsAssumption DEF Inv, TypeOK
  <1>2. /\ ResultsBacked /\ SeenOwned /\ OwnersUnique /\ HandedOut /\ DoneCovered /\ CkptCovered
    BY DEF Inv3
  <1>3. /\ UNCHANGED <<agg, deferred, ckpt, phase, crashes, unit, next, rescan, resume_done>>
        /\ pc[w] = "scan"
    BY DEF Dedup
  <1>4. unit[w] \in Units BY <1>1, <1>3 DEF Inv, UnitHeld, Units
  <1>5. PICK a \in Units : a = unit[w] BY <1>4
  <1>6. \A v \in Workers : v # w => pc'[v] = pc[v] /\ fs'[v] = fs[v]
    BY OthersKept DEF Worker
  <1>7. DoneCovered' /\ CkptCovered' BY <1>2, <1>3 DEF DoneCovered, CkptCovered, Same
  <1>8. pc'[w] \in {"release", "verify"} BY <1>1 DEF Dedup
  <1>9. HandedOut'
    <2>1. \A v \in Workers : pc'[v] = "exited" => pc[v] = "exited" BY <1>6, <1>8
    <2> QED BY <1>2, <1>3, <2>1 DEF HandedOut
  <1>10. ~Owns(w) BY <1>3 DEF Owns, Carrying
  <1>11. \A u \in Units : Owned(u)' <=> Owned(u) \/ (u = a /\ Owns(w)')
    <2>1. \A v \in Workers : v # w => (Owns(v)' <=> Owns(v)) BY <1>6 DEF Owns
    <2>2. \A u : (\E v \in Workers : unit[v] = u /\ Owns(v)') <=>
                 (\E v \in Workers : unit[v] = u /\ Owns(v)) \/ (u = a /\ Owns(w)')
      BY <1>5, <1>10, <2>1
    <2> QED BY <1>3, <2>2 DEF Owned
  <1>12. CASE a \in Unreadable /\ fs' = [fs EXCEPT ![w] = ErrorScan] /\ content_seen' = content_seen
              /\ pc'[w] = "release"
    <2>1. fs'[w].own = TRUE /\ fs'[w].truncated = FALSE BY <1>1, <1>12 DEF ErrorScan
    <2>2. ResultsBacked' BY <1>2, <1>3, <1>6, <1>12, <2>1 DEF ResultsBacked
    <2>3. \A u \in Readable : Owned(u)' <=> Owned(u) BY <1>11, <1>12 DEF Readable
    <2>4. SeenOwned' BY <1>2, <1>12, <2>3 DEF SeenOwned
    <2>5. OwnersUnique' BY <1>2, <1>3, <1>12, <2>3 DEF OwnersUnique
    <2> QED BY <1>7, <1>9, <2>2, <2>4, <2>5 DEF Inv3
  <1>13. CASE /\ a \notin Unreadable /\ Content[a] \in content_seen /\ pc'[w] = "release"
              /\ fs' = [fs EXCEPT ![w] = EmptyScan] /\ content_seen' = content_seen
    <2>1. fs'[w].own = FALSE /\ fs'[w].truncated = FALSE BY <1>1, <1>13 DEF EmptyScan
    <2>2. ResultsBacked' BY <1>2, <1>3, <1>5, <1>6, <1>13, <2>1 DEF ResultsBacked
    <2>3. ~Owns(w)' BY <1>13, <2>1 DEF Owns
    <2>4. \A u \in Readable : Owned(u)' <=> Owned(u) BY <1>11, <2>3 DEF Readable
    <2>5. SeenOwned' BY <1>2, <1>13, <2>4 DEF SeenOwned
    <2>6. OwnersUnique' BY <1>2, <1>3, <1>13, <2>4 DEF OwnersUnique
    <2> QED BY <1>7, <1>9, <2>2, <2>5, <2>6 DEF Inv3
  <1>14. CASE /\ a \notin Unreadable /\ Content[a] \notin content_seen /\ pc'[w] = "verify"
              /\ fs' = fs /\ content_seen' = content_seen \cup {Content[a]}
    <2>1. a \in Readable BY <1>14 DEF Readable
    <2>2. ResultsBacked' BY <1>2, <1>3, <1>6, <1>14 DEF ResultsBacked, Carrying
    <2>3. Owns(w)' BY <1>14 DEF Owns
    <2>4. \A u \in Readable : Owned(u)' <=> Owned(u) \/ u = a BY <1>11, <2>3 DEF Readable
    <2>5. SeenOwned' BY <1>2, <1>14, <2>1, <2>4 DEF SeenOwned
    <2>6. OwnersUnique'
      <3>1. ASSUME crashes = 0, NEW u \in Readable, Owned(u) PROVE Content[u] # Content[a]
        BY <1>2, <1>14, <3>1 DEF OwnersUnique
      <3> QED BY <1>2, <1>3, <1>14, <2>4, <3>1 DEF OwnersUnique
    <2> QED BY <1>7, <1>9, <2>2, <2>5, <2>6 DEF Inv3
  <1> QED BY <1>1, <1>5, <1>12, <1>13, <1>14 DEF Dedup, SeenBefore

(* Deferring or folding: the unit changes hands in one critical section. *)
LEMMA EndFrame ==
    ASSUME Inv, Inv3, NEW w \in Workers, Defer(w) \/ FoldUnit(w)
    PROVE  /\ unit[w] \in Units /\ unit[w] \notin agg.done \cup deferred
           /\ \A v \in Workers : unit'[v] = IF v = w THEN 0 ELSE unit[v]
           /\ \A v \in Workers : v # w => (Owns(v)' <=> Owns(v)) /\ unit[v] # unit[w]
           /\ ~Owns(w)' /\ pc'[w] = "claim"
           /\ (Owns(w) <=> fs[w].own)
           /\ UNCHANGED <<content_seen, next, phase, crashes, rescan, resume_done>>
           /\ ResultsBacked' /\ phase = "workers"
  <1> USE DEF Goto, EndIteration, main, faults
  <1>1. /\ pc \in [Workers -> WorkerPCs] /\ fs \in [Workers -> FileScan]
        /\ unit \in [Workers -> 0 .. NumUnits] /\ NumUnits \in Nat
    BY UnitsAssumption DEF Inv, TypeOK
  <1>2. /\ pc[w] \in {"defer", "fold"} /\ pc' = [pc EXCEPT ![w] = "claim"]
        /\ unit' = [unit EXCEPT ![w] = 0]
        /\ UNCHANGED <<content_seen, next, phase, crashes, rescan, resume_done>>
    BY DEF Defer, FoldUnit
  <1>3. unit[w] \in Units BY <1>1, <1>2 DEF Inv, UnitHeld, Units
  <1>4. unit[w] # 0 BY <1>1, <1>3 DEF Units
  <1>5. /\ unit[w] \notin agg.done \cup deferred
        /\ \A v \in Workers : v # w => unit[v] # unit[w]
    BY <1>4 DEF Inv, UnitsDisjoint
  <1>6. \A v \in Workers : v # w => pc'[v] = pc[v] /\ unit'[v] = unit[v] /\ fs'[v] = fs[v]
    BY OthersKept DEF Worker
  <1>7. pc'[w] = "claim" /\ unit'[w] = 0 BY <1>1, <1>2
  <1>8. \A v \in Workers : v # w => (Owns(v)' <=> Owns(v)) BY <1>6 DEF Owns
  <1>9. ~Owns(w)' /\ (Owns(w) <=> fs[w].own) BY <1>2, <1>7 DEF Owns, Carrying
  <1>10. ResultsBacked' BY <1>2, <1>6, <1>7 DEF Inv3, ResultsBacked, Carrying
  <1>11. phase = "workers" BY OthersKept DEF Worker
  <1> QED BY <1>2, <1>3, <1>5, <1>6, <1>7, <1>8, <1>9, <1>10, <1>11

LEMMA DeferInv3 ==
    ASSUME Inv, Inv3, NEW w \in Workers, Defer(w)
    PROVE  Inv3'
  <1>1. /\ ResultsBacked /\ SeenOwned /\ OwnersUnique /\ HandedOut /\ DoneCovered /\ CkptCovered
    BY DEF Inv3
  <1>2. PICK a \in Units : a = unit[w] BY EndFrame
  <1>3. pc[w] = "defer" /\ deferred' = deferred \cup {a} /\ UNCHANGED <<agg, ckpt>>
    BY <1>2 DEF Defer, main
  <1>4. UNCHANGED <<content_seen, next, phase, crashes, rescan, resume_done>> /\ phase = "workers"
    BY EndFrame
  <1>5. Owns(w) BY <1>1, <1>3 DEF ResultsBacked, Owns, Carrying
  <1>6. \A v \in Workers : v # w => unit'[v] = unit[v] /\ (Owns(v)' <=> Owns(v))
    BY EndFrame
  <1>7. ~Owns(w)' /\ unit'[w] = 0 BY EndFrame
  <1>8. ASSUME NEW u \in Units PROVE Owned(u)' <=> Owned(u)
    <2>1. (\E v \in Workers : unit[v] = u /\ Owns(v)) <=>
          (\E v \in Workers : unit'[v] = u /\ Owns(v)') \/ u = a
      BY <1>2, <1>5, <1>6, <1>7
    <2> QED BY <1>3, <2>1 DEF Owned
  <1>9. SeenOwned' BY <1>1, <1>4, <1>8 DEF SeenOwned, Readable
  <1>10. OwnersUnique' BY <1>1, <1>4, <1>8 DEF OwnersUnique, Readable
  <1>11. HandedOut'
    <2>1. \A u \in Units : u <= next =>
            u \in agg.done \/ u \in deferred' \/ \E v \in Workers : unit'[v] = u
      BY <1>1, <1>2, <1>3, <1>6 DEF HandedOut
    <2>2. \A v \in Workers : pc'[v] = "exited" => pc[v] = "exited"
      BY EndFrame, OthersKept DEF Worker
    <2> QED BY <1>1, <1>3, <1>4, <2>1, <2>2 DEF HandedOut
  <1>12. DoneCovered' BY <1>1, <1>3 DEF DoneCovered, Same
  <1>13. CkptCovered' BY <1>1, <1>3, <1>4 DEF CkptCovered, Same
  <1> QED BY <1>9, <1>10, <1>11, <1>12, <1>13, EndFrame DEF Inv3

(* What folding a unit that is not done does to the counts. *)
LEMMA FoldCounts ==
    ASSUME NEW a \in Agg, CountedOnce(a), NEW u \in Units, u \notin a.done, NEW f \in FileScan
    PROVE  /\ Fold(a, u, f).done = a.done \cup {u}
           /\ \A x \in Units : Fold(a, u, f).counted[x] = 1 <=> a.counted[x] = 1 \/ (x = u /\ f.own)
  <1>1. \A x \in Units : a.counted[x] \in {0, 1} BY DEF CountedOnce
  <1>2. a.counted[u] = 0 BY DEF CountedOnce
  <1>3. a.counted \in [Units -> Nat] /\ f.own \in BOOLEAN BY DEF Agg, FileScan
  <1>4. Fold(a, u, f).counted = [a.counted EXCEPT ![u] = @ + (IF f.own THEN 1 ELSE 0)]
    BY DEF Fold
  <1>5. \A x \in Units : Fold(a, u, f).counted[x] = IF x = u /\ f.own THEN 1 ELSE a.counted[x]
    BY <1>2, <1>3, <1>4
  <1> QED BY <1>1, <1>5 DEF Fold

(* A label added for a duplicate is covered by the unit that owns its content, which
   is counted, deferred or held by another worker. *)
LEMMA FoldCovers ==
    ASSUME Inv, Inv3, NEW w \in Workers, FoldUnit(w)
    PROVE  DoneCovered'
  <1>1. DoneCovered /\ SeenOwned /\ ResultsBacked BY DEF Inv3
  <1>2. PICK a \in Units : a = unit[w] BY EndFrame
  <1>3. agg' = Fold(agg, a, fs[w]) /\ deferred' = deferred /\ pc[w] = "fold"
    BY <1>2 DEF FoldUnit
  <1>4. a \notin agg.done \cup deferred BY <1>2, EndFrame
  <1>5. agg \in Agg /\ CountedOnce(agg) /\ fs[w] \in FileScan BY DEF Inv, TypeOK
  <1>6. /\ agg'.done = agg.done \cup {a}
        /\ \A x \in Units : agg'.counted[x] = 1 <=> agg.counted[x] = 1 \/ (x = a /\ fs[w].own)
    BY <1>3, <1>4, <1>5, FoldCounts
  <1> DEFINE Good(x) == agg.counted[x] = 1 \/ x \in deferred \/ x \notin agg.done
             GoodNow(x) == agg'.counted[x] = 1 \/ x \in deferred \/ x \notin agg'.done
  <1>7. \E y \in Units : Same(y, a) /\ GoodNow(y) /\ (y # a => y \notin Unreadable)
    <2>1. CASE fs[w].own
      <3>1. GoodNow(a) BY <1>6, <2>1
      <3>2. Same(a, a) BY DEF Same
      <3> QED BY <3>1, <3>2
    <2>2. CASE ~fs[w].own
      <3>1. a \notin Unreadable /\ Content[a] \in content_seen
        BY <1>1, <1>2, <1>3, <2>2 DEF ResultsBacked, Carrying
      <3>2. PICK y \in Readable : Content[y] = Content[a] /\ Owned(y)
        BY <1>1, <3>1 DEF SeenOwned
      <3>3. y \in Units /\ y \notin Unreadable BY <3>2 DEF Readable
      <3>4. CASE agg.counted[y] = 1 \/ y \in deferred
        BY <1>6, <3>2, <3>3, <3>4 DEF Same
      <3>5. ASSUME NEW v \in Workers, unit[v] = y, Owns(v) PROVE y \notin agg'.done
        <4>1. v # w BY <2>2, <3>5, EndFrame
        <4>2. y # a BY <1>2, <3>5, <4>1, EndFrame
        <4>3. unit[v] # 0 BY <3>3, <3>5, UnitsAssumption DEF Units
        <4>4. y \notin agg.done BY <3>5, <4>3 DEF Inv, UnitsDisjoint
        <4> QED BY <1>6, <4>2, <4>4
      <3>6. GoodNow(y) BY <1>6, <3>2, <3>3, <3>5 DEF Owned
      <3> QED BY <3>2, <3>3, <3>6 DEF Same
    <2> QED BY <2>1, <2>2
  <1>8. PICK y \in Units : Same(y, a) /\ GoodNow(y) /\ (y # a => y \notin Unreadable) BY <1>7
  <1>9. ASSUME NEW u \in agg.done PROVE \E x \in Units : Same(x, u) /\ GoodNow(x)
    <2>1. PICK x \in Units : Same(x, u) /\ Good(x) BY <1>1 DEF DoneCovered
    <2>2. CASE x # a BY <1>6, <2>1, <2>2
    <2>3. CASE x = a
      <3>1. u # a BY <1>4
      <3>2. Content[a] = Content[u] /\ a \notin Unreadable BY <2>1, <2>3, <3>1 DEF Same
      <3>3. Content[y] = Content[u] /\ y \notin Unreadable BY <1>8, <3>2 DEF Same
      <3>4. Same(y, u) BY <3>3 DEF Same
      <3> QED BY <1>8, <3>4
    <2> QED BY <2>2, <2>3
  <1>10. \A u \in agg'.done : \E x \in Units : Same(x, u) /\ GoodNow(x)
    BY <1>6, <1>8, <1>9
  <1> QED BY <1>3, <1>10 DEF DoneCovered, Same

LEMMA FoldInv3 ==
    ASSUME Inv, Inv', Inv3, NEW w \in Workers, FoldUnit(w)
    PROVE  Inv3'
  <1>1. /\ ResultsBacked /\ SeenOwned /\ OwnersUnique /\ HandedOut /\ DoneCovered /\ CkptCovered
    BY DEF Inv3
  <1>2. PICK a \in Units : a = unit[w] BY EndFrame
  <1>3. agg' = Fold(agg, a, fs[w]) /\ deferred' = deferred /\ ckpt' \in {agg', ckpt}
    BY <1>2 DEF FoldUnit
  <1>4. UNCHANGED <<content_seen, next, phase, crashes, rescan, resume_done>> /\ phase = "workers"
    BY EndFrame
  <1>5. a \notin agg.done \cup deferred BY <1>2, EndFrame
  <1>6. agg \in Agg /\ CountedOnce(agg) /\ fs[w] \in FileScan BY DEF Inv, TypeOK
  <1>7. /\ agg'.done = agg.done \cup {a}
        /\ \A x \in Units : agg'.counted[x] = 1 <=> agg.counted[x] = 1 \/ (x = a /\ fs[w].own)
    BY <1>3, <1>5, <1>6, FoldCounts
  <1>8. /\ \A v \in Workers : v # w => unit'[v] = unit[v] /\ (Owns(v)' <=> Owns(v))
        /\ ~Owns(w)' /\ unit'[w] = 0 /\ (Owns(w) <=> fs[w].own)
    BY EndFrame
  <1>9. ASSUME NEW u \in Units PROVE Owned(u)' <=> Owned(u)
    <2>1. (\E v \in Workers : unit[v] = u /\ Owns(v)) <=>
          (\E v \in Workers : unit'[v] = u /\ Owns(v)') \/ (u = a /\ fs[w].own)
      BY <1>2, <1>8
    <2> QED BY <1>3, <1>7, <2>1 DEF Owned
  <1>10. SeenOwned' BY <1>1, <1>4, <1>9 DEF SeenOwned, Readable
  <1>11. OwnersUnique' BY <1>1, <1>4, <1>9 DEF OwnersUnique, Readable
  <1>12. HandedOut'
    <2>1. \A u \in Units : u <= next =>
            u \in agg'.done \/ u \in deferred' \/ \E v \in Workers : unit'[v] = u
      BY <1>1, <1>2, <1>3, <1>7, <1>8 DEF HandedOut
    <2>2. \A v \in Workers : pc'[v] = "exited" => pc[v] = "exited"
      BY EndFrame, OthersKept DEF Worker
    <2> QED BY <1>1, <1>3, <1>4, <1>7, <2>1, <2>2 DEF HandedOut
  <1>13. DoneCovered' BY FoldCovers
  <1>14. CkptCovered'
    <2>1. CASE ckpt' = ckpt BY <1>1, <1>4, <2>1 DEF CkptCovered, Same
    <2>2. CASE ckpt' = agg'
      <3>1. \A x \in deferred' : x \notin agg'.done BY <1>4 DEF Inv, RescanFresh
      <3> QED BY <1>13, <2>2, <3>1 DEF CkptCovered, DoneCovered, Same
    <2> QED BY <1>3, <2>1, <2>2
  <1> QED BY <1>10, <1>11, <1>12, <1>13, <1>14, EndFrame DEF Inv3

(* Phase 2 labels deferred units, which stay owned; nothing else changes hands. *)
LEMMA RescanInv3 ==
    ASSUME Inv, Inv3, RescanOne
    PROVE  Inv3'
  <1> DEFINE g(u) == IF u \in Unreadable THEN ErrorScan
                     ELSE IF SeenBefore(u) THEN EmptyScan ELSE FullScan(u, FALSE)
  <1>1. /\ ResultsBacked /\ SeenOwned /\ OwnersUnique /\ HandedOut /\ DoneCovered /\ CkptCovered
    BY DEF Inv3
  <1>2. PICK a \in rescan :
          /\ agg' = Fold(agg, a, g(a)) /\ rescan' = rescan \ {a}
          /\ content_seen' = IF a \in Unreadable THEN content_seen
                             ELSE content_seen \cup {Content[a]}
    BY DEF RescanOne
  <1>3. /\ phase = "deferred"
        /\ UNCHANGED <<next, deferred, pc, unit, fs, phase, resume_done, ckpt, crashes>>
    BY DEF RescanOne, local, faults
  <1>4. a \in Units /\ a \in deferred /\ a \notin agg.done
    BY <1>2, <1>3 DEF Inv, TypeOK, RescanFresh
  <1>5. PICK f \in FileScan : f = g(a) BY <1>4, ScanTypes
  <1>6. agg \in Agg /\ CountedOnce(agg) BY DEF Inv, TypeOK
  <1>7. /\ agg'.done = agg.done \cup {a}
        /\ \A x \in Units : agg'.counted[x] = 1 <=> agg.counted[x] = 1 \/ (x = a /\ f.own)
    <2> HIDE DEF g
    <2>1. agg' = Fold(agg, a, f) BY <1>2, <1>5
    <2> QED BY <1>4, <1>6, <2>1, FoldCounts
  <1>8. \A x \in Units : Owned(x)' <=> Owned(x)
    <2>1. \A v \in Workers : Owns(v)' <=> Owns(v) BY <1>3 DEF Owns
    <2> QED BY <1>3, <1>4, <1>7, <2>1 DEF Owned
  <1>9. ResultsBacked' BY <1>1, <1>2, <1>3 DEF ResultsBacked
  <1>10. SeenOwned'
    <2>1. Owned(a) BY <1>4 DEF Owned
    <2> QED BY <1>1, <1>2, <1>4, <1>8, <2>1 DEF SeenOwned, Readable
  <1>11. OwnersUnique' BY <1>1, <1>2, <1>3, <1>8 DEF OwnersUnique, Readable
  <1>12. HandedOut' BY <1>1, <1>2, <1>3, <1>7 DEF HandedOut
  <1>13. DoneCovered'
    <2>1. \A u \in agg.done : \E x \in Units :
            Same(x, u) /\ (agg'.counted[x] = 1 \/ x \in deferred \/ x \notin agg'.done)
      BY <1>1, <1>4, <1>7 DEF DoneCovered
    <2>2. Same(a, a) BY DEF Same
    <2> QED BY <1>3, <1>4, <1>7, <2>1, <2>2 DEF DoneCovered, Same
  <1>14. CkptCovered' BY <1>1, <1>3 DEF CkptCovered, Same
  <1> QED BY <1>9, <1>10, <1>11, <1>12, <1>13, <1>14 DEF Inv3

LEMMA JoinInv3 ==
    ASSUME Inv, Inv3, Join \/ Report
    PROVE  Inv3'
  <1>1. /\ ResultsBacked /\ SeenOwned /\ OwnersUnique /\ HandedOut /\ DoneCovered /\ CkptCovered
    BY DEF Inv3
  <1>2. UNCHANGED <<next, deferred, agg, content_seen, pc, unit, fs, resume_done, crashes>>
    BY DEF Join, Report, shared, local, faults
  <1>3. \A x : Owned(x)' <=> Owned(x)
    <2>1. \A v \in Workers : Owns(v)' <=> Owns(v) BY <1>2 DEF Owns
    <2> QED BY <1>2, <2>1 DEF Owned
  <1>4. ResultsBacked' BY <1>1, <1>2 DEF ResultsBacked
  <1>5. SeenOwned' /\ OwnersUnique' BY <1>1, <1>2, <1>3 DEF SeenOwned, OwnersUnique
  <1>6. DoneCovered' BY <1>1, <1>2 DEF DoneCovered, Same
  <1>7. CASE Join
    <2>1. HandedOut' BY <1>1, <1>2, <1>7 DEF Join, HandedOut
    <2>2. CkptCovered' BY <1>1, <1>7 DEF Join, CkptCovered, Same
    <2> QED BY <1>4, <1>5, <1>6, <2>1, <2>2 DEF Inv3
  <1>8. CASE Report
    <2>1. HandedOut' BY <1>1, <1>2, <1>8 DEF Report, HandedOut
    <2>2. CkptCovered' BY <1>8 DEF Report, CkptCovered
    <2> QED BY <1>4, <1>5, <1>6, <2>1, <2>2 DEF Inv3
  <1> QED BY <1>7, <1>8

(* A resumed process starts with what the file covers. *)
LEMMA CrashInv3 ==
    ASSUME Inv, Inv3, CrashAndResume
    PROVE  Inv3'
  <1>1. CkptCovered /\ phase \in {"workers", "deferred"} BY DEF Inv3, CrashAndResume
  <1>2. /\ agg' = ckpt /\ ckpt' = ckpt /\ resume_done' = ckpt.done /\ next' = 0
        /\ content_seen' = {} /\ deferred' = {} /\ phase' = "workers"
        /\ pc' = [w \in Workers |-> "claim"] /\ crashes' = crashes + 1
    BY DEF CrashAndResume, ReadCheckpoint, AllWorkers
  <1>3. crashes \in Nat BY ScanAssumption DEF Inv, TypeOK
  <1>4. OwnersUnique' BY <1>2, <1>3 DEF OwnersUnique
  <1>5. HandedOut'
    <2>1. \A u \in Units : ~(u <= 0) BY UnitsAssumption DEF Units
    <2> QED BY <1>2, <2>1 DEF HandedOut
  <1>6. ResultsBacked' /\ SeenOwned' BY <1>2 DEF ResultsBacked, SeenOwned, Carrying
  <1>7. DoneCovered' /\ CkptCovered' BY <1>1, <1>2 DEF DoneCovered, CkptCovered, Same
  <1> QED BY <1>4, <1>5, <1>6, <1>7 DEF Inv3

LEMMA InitInv3 == Init => Inv3
  <1> SUFFICES ASSUME Init PROVE Inv3 OBVIOUS
  <1> USE DEF Init, AllWorkers, EmptyAgg
  <1>1. \A u \in Units : ~(u <= 0) BY UnitsAssumption DEF Units
  <1>2. HandedOut BY <1>1 DEF HandedOut
  <1>3. ResultsBacked /\ SeenOwned BY DEF ResultsBacked, SeenOwned, Carrying
  <1>4. \A u \in Units : ~Owned(u) BY DEF Owned, Owns, Carrying
  <1>5. OwnersUnique BY <1>4 DEF OwnersUnique, Readable
  <1>6. DoneCovered /\ CkptCovered BY DEF DoneCovered, CkptCovered
  <1> QED BY <1>2, <1>3, <1>5, <1>6 DEF Inv3

LEMMA NextInv3 == Inv /\ Inv' /\ Inv3 /\ [Next]_vars => Inv3'
  <1> SUFFICES ASSUME Inv, Inv', Inv3, [Next]_vars PROVE Inv3' OBVIOUS
  <1>1. CASE UNCHANGED vars
    <2>1. UNCHANGED <<next, deferred, agg, content_seen, pc, unit, fs, phase, rescan, resume_done,
                      ckpt, crashes>>
      BY <1>1 DEF vars, shared, local, main, faults
    <2>2. \A v \in Workers : Owns(v)' <=> Owns(v) BY <2>1 DEF Owns
    <2>3. \A x : Owned(x)' <=> Owned(x) BY <2>1, <2>2 DEF Owned
    <2>4. ResultsBacked' /\ HandedOut' BY <2>1 DEF Inv3, ResultsBacked, HandedOut
    <2>5. SeenOwned' /\ OwnersUnique' BY <2>1, <2>3 DEF Inv3, SeenOwned, OwnersUnique
    <2>6. DoneCovered' /\ CkptCovered' BY <2>1 DEF Inv3, DoneCovered, CkptCovered, Same
    <2> QED BY <2>4, <2>5, <2>6 DEF Inv3
  <1>2. ASSUME NEW w \in Workers, Worker(w) \/ Panic(w) PROVE Inv3'
    <2>1. QuietStep(w) \/ Dedup(w) \/ Defer(w) \/ FoldUnit(w) BY <1>2 DEF Worker, QuietStep
    <2> QED BY <2>1, QuietInv3, DedupInv3, DeferInv3, FoldInv3
  <1>3. CASE Main BY <1>3, RescanInv3, JoinInv3 DEF Main
  <1>4. CASE CrashAndResume BY <1>4, CrashInv3
  <1>5. CASE Finished BY <1>1, <1>5 DEF Finished
  <1> QED BY <1>1, <1>2, <1>3, <1>4, <1>5 DEF Next

(* The third invariant holds throughout every scan. *)
THEOREM Inv3Holds == Spec => []Inv3
  BY InvHolds, InitInv3, NextInv3, PTL DEF Spec

(* A scan that was cut short, and one under way, has left its content in content_seen,
   and so has every deferred unit, which no step counts. *)
SlowBacked ==
    \A w \in Workers :
        pc[w] = "verify" \/ (pc[w] \in Carrying /\ fs[w].truncated) =>
            unit[w] \notin Unreadable /\ Content[unit[w]] \in content_seen
DeferredUncounted ==
    \A u \in deferred :
        u \notin Unreadable /\ Content[u] \in content_seen /\ agg.counted[u] = 0
DeferInv == SlowBacked /\ DeferredUncounted

LEMMA WorkerDeferInv ==
    ASSUME Inv, Inv3, DeferInv, NEW w \in Workers, Worker(w) \/ Panic(w)
    PROVE  DeferInv'
  <1> USE DEF Goto, EndIteration, shared, local, main, faults, Carrying
  <1>1. /\ pc \in [Workers -> WorkerPCs] /\ fs \in [Workers -> FileScan]
        /\ unit \in [Workers -> 0 .. NumUnits]
    BY DEF Inv, TypeOK
  <1>2. SlowBacked /\ DeferredUncounted BY DEF DeferInv
  <1>3. \A v \in Workers : v # w => pc'[v] = pc[v] /\ unit'[v] = unit[v] /\ fs'[v] = fs[v]
    BY OthersKept
  <1>4. content_seen \subseteq content_seen'
    BY DEF Worker, Claim, LoadReserved, SleepFull, Exchange, Dedup, VerifyUnit, Panic,
       Release, CountDone, Defer, StreamFindings, FoldUnit, vars
  <1> DEFINE Backed == pc'[w] = "verify" \/ (pc'[w] \in Carrying /\ fs'[w].truncated) =>
                         unit'[w] \notin Unreadable /\ Content[unit'[w]] \in content_seen'
  <1>5. Backed => SlowBacked' BY <1>2, <1>3, <1>4 DEF SlowBacked
  <1>6. CASE Claim(w) \/ LoadReserved(w) \/ SleepFull(w) \/ Exchange(w) \/ Panic(w)
    <2>1. \/ pc'[w] # "verify" /\ pc'[w] \notin Carrying /\ UNCHANGED <<deferred, agg, content_seen>>
          \/ pc'[w] = "scan" /\ UNCHANGED <<deferred, agg, content_seen>>
      BY <1>1, <1>6 DEF Claim, LoadReserved, SleepFull, Exchange, Panic, vars
    <2> QED BY <1>2, <1>5, <2>1 DEF DeferInv, DeferredUncounted
  <1>7. CASE Dedup(w)
    <2>1. UNCHANGED <<deferred, agg, unit>> BY <1>7 DEF Dedup
    <2>2. DeferredUncounted' BY <1>2, <1>4, <2>1 DEF DeferredUncounted
    <2>3. Backed BY <1>1, <1>7 DEF Dedup, EmptyScan, ErrorScan
    <2> QED BY <1>5, <2>2, <2>3 DEF DeferInv
  <1>8. CASE VerifyUnit(w) \/ Release(w) \/ StreamFindings(w) \/ CountDone(w)
    <2>1. UNCHANGED <<deferred, agg, unit, content_seen>>
      BY <1>8 DEF VerifyUnit, Release, StreamFindings, CountDone
    <2>2. DeferredUncounted' BY <1>2, <2>1 DEF DeferredUncounted
    <2>3. pc'[w] # "verify" /\ (pc[w] = "verify" \/ (pc[w] \in Carrying /\ fs' = fs))
      BY <1>1, <1>8 DEF VerifyUnit, Release, StreamFindings, CountDone
    <2> QED BY <1>2, <1>5, <2>1, <2>2, <2>3 DEF DeferInv, SlowBacked
  <1>9. CASE Defer(w)
    <2>1. pc[w] = "defer" /\ deferred' = deferred \cup {unit[w]} /\ UNCHANGED <<agg, content_seen>>
      BY <1>9 DEF Defer
    <2>2. fs[w].truncated BY <2>1 DEF Inv3, ResultsBacked
    <2>3. unit[w] \notin Unreadable /\ Content[unit[w]] \in content_seen
      BY <1>2, <2>1, <2>2 DEF SlowBacked
    <2>4. unit[w] \in Units /\ unit[w] \notin agg.done BY <1>9, EndFrame
    <2>5. agg.counted[unit[w]] = 0 BY <2>4 DEF Inv, CountedOnce
    <2>6. DeferredUncounted' BY <1>2, <2>1, <2>3, <2>5 DEF DeferredUncounted
    <2>7. Backed BY <1>9, EndFrame
    <2> QED BY <1>5, <2>6, <2>7 DEF DeferInv
  <1>10. CASE FoldUnit(w)
    <2>1. UNCHANGED <<deferred, content_seen>> /\ agg' = Fold(agg, unit[w], fs[w])
      BY <1>10 DEF FoldUnit
    <2>2. unit[w] \notin deferred BY <1>10, EndFrame
    <2>3. deferred \subseteq Units /\ agg.counted \in [Units -> Nat] BY DEF Inv, TypeOK, Agg
    <2>4. \A u \in deferred : agg'.counted[u] = agg.counted[u] BY <2>1, <2>2, <2>3 DEF Fold
    <2>5. DeferredUncounted' BY <1>2, <2>1, <2>4 DEF DeferredUncounted
    <2>6. Backed BY <1>10, EndFrame
    <2> QED BY <1>5, <2>5, <2>6 DEF DeferInv
  <1> QED BY <1>6, <1>7, <1>8, <1>9, <1>10 DEF Worker

(* Phase 2 takes the deferred unit for a duplicate of itself. *)
LEMMA RescanDeferInv ==
    ASSUME Inv, DeferInv, RescanOne
    PROVE  DeferInv'
  <1>1. SlowBacked /\ DeferredUncounted BY DEF DeferInv
  <1> DEFINE g(u) == IF u \in Unreadable THEN ErrorScan
                     ELSE IF SeenBefore(u) THEN EmptyScan ELSE FullScan(u, FALSE)
  <1>2. PICK a \in rescan : agg' = Fold(agg, a, g(a)) BY DEF RescanOne
  <1>3. UNCHANGED <<deferred, pc, unit, fs>> /\ phase = "deferred"
        /\ content_seen \subseteq content_seen'
    BY DEF RescanOne, local
  <1>4. a \in deferred /\ deferred \subseteq Units /\ agg.counted \in [Units -> Nat]
    BY <1>2, <1>3 DEF Inv, TypeOK, Agg, RescanFresh
  <1>5. g(a) = EmptyScan BY <1>1, <1>4 DEF DeferredUncounted, SeenBefore
  <1>6. agg' = Fold(agg, a, EmptyScan) BY <1>2, <1>5
  <1>7. \A u \in deferred : agg'.counted[u] = agg.counted[u] BY <1>4, <1>6 DEF Fold, EmptyScan
  <1>8. DeferredUncounted' BY <1>1, <1>3, <1>7 DEF DeferredUncounted
  <1>9. SlowBacked' BY <1>1, <1>3 DEF SlowBacked
  <1> QED BY <1>8, <1>9 DEF DeferInv

LEMMA NextDeferInv == Inv /\ Inv3 /\ DeferInv /\ [Next]_vars => DeferInv'
  <1> SUFFICES ASSUME Inv, Inv3, DeferInv, [Next]_vars PROVE DeferInv' OBVIOUS
  <1> USE DEF DeferInv, SlowBacked, DeferredUncounted
  <1>1. CASE UNCHANGED vars \/ Join \/ Report \/ Finished
    <2>1. UNCHANGED <<pc, unit, fs, deferred, agg, content_seen>>
      BY <1>1 DEF vars, shared, local, Join, Report, Finished
    <2> QED BY <2>1
  <1>2. ASSUME NEW w \in Workers, Worker(w) \/ Panic(w) PROVE DeferInv'
    <2> HIDE DEF DeferInv
    <2> QED BY <1>2, WorkerDeferInv
  <1>3. CASE RescanOne
    <2> HIDE DEF DeferInv
    <2> QED BY <1>3, RescanDeferInv
  <1>4. CASE CrashAndResume
    BY <1>4 DEF CrashAndResume, AllWorkers, Carrying
  <1> QED BY <1>1, <1>2, <1>3, <1>4 DEF Next, Main

(* Deferred units stay uncounted throughout every scan. *)
THEOREM DeferInvHolds == Spec => []DeferInv
  <1>1. Init => DeferInv
    BY DEF Init, DeferInv, SlowBacked, DeferredUncounted, AllWorkers, Carrying
  <1> QED BY <1>1, InvHolds, Inv3Holds, NextDeferInv, PTL DEF Spec

(* When scan_dir reports, every unit is labelled and every content was counted or
   deferred in this run, whatever kills came before; a deferred unit is never counted,
   its re-scan being taken for a duplicate; and a process that was never killed counts
   byte-identical units once. *)
THEOREM CoverageStaysRight == Spec => []CoverageRight
  <1>1. ASSUME Inv, Inv3 PROVE NothingLost
    <2> SUFFICES ASSUME phase = "report"
                 PROVE  /\ agg.done = Units
                        /\ \A u \in Units : \E x \in Units :
                             Same(x, u) /\ (agg.counted[x] = 1 \/ x \in deferred)
      BY DEF NothingLost, Same
    <2>1. \A w \in Workers : pc[w] = "exited" BY <1>1 DEF Inv, WorkersJoined
    <2>2. \A w \in Workers : unit[w] = 0 BY <1>1, <2>1 DEF Inv, UnitHeld
    <2>3. next \in Nat /\ NumUnits \in Nat BY <1>1, UnitsAssumption DEF Inv, TypeOK
    <2>4. next > NumUnits BY <1>1, <2>1, ScanAssumption DEF Inv3, HandedOut
    <2>5. \A u \in Units : u <= next /\ u # 0 BY <2>3, <2>4 DEF Units
    <2>6. \A u \in Units : u \in agg.done \/ u \in deferred
      BY <1>1, <2>2, <2>5 DEF Inv3, HandedOut
    <2>7. deferred \subseteq agg.done BY <1>1 DEF Inv3, HandedOut
    <2>8. agg.done \subseteq Units BY <1>1 DEF Inv, TypeOK, Agg
    <2>9. agg.done = Units BY <2>6, <2>7, <2>8
    <2> QED BY <1>1, <2>9 DEF Inv3, DoneCovered
  <1>2. ASSUME Inv, Inv3 PROVE DuplicatesCountedOnce
    <2> SUFFICES ASSUME crashes = 0, NEW u \in Units \ Unreadable, NEW x \in Units \ Unreadable,
                        u # x, Content[u] = Content[x]
                 PROVE  agg.counted[u] + agg.counted[x] <= 1
      BY DEF DuplicatesCountedOnce
    <2>1. agg.counted[u] \in {0, 1} /\ agg.counted[x] \in {0, 1} BY <1>2 DEF Inv, CountedOnce
    <2>2. ~(agg.counted[u] = 1 /\ agg.counted[x] = 1)
      BY <1>2 DEF Inv3, OwnersUnique, Readable, Owned
    <2> QED BY <2>1, <2>2
  <1>3. DeferInv => RescanDecidesNothing BY DEF DeferInv, DeferredUncounted, RescanDecidesNothing
  <1>4. Inv /\ Inv3 /\ DeferInv => CoverageRight BY <1>1, <1>2, <1>3 DEF CoverageRight
  <1> QED BY <1>4, InvHolds, Inv3Holds, DeferInvHolds, PTL

-----------------------------------------------------------------------------
(* Sums: SumFunction adds one index after the other in an order of its own; the sum
   does not depend on it.  Each proof by induction takes a smallest counterexample. *)

(* The recursion by which SumFunction adds up a finite function. *)
Pick(s) == CHOOSE x \in s : TRUE
SumRec(c, S, g) ==
    g = [s \in SUBSET S |-> IF s = {} THEN 0 ELSE c[Pick(s)] + g[s \ {Pick(s)}]]

LEMMA LeastOf ==
    ASSUME NEW S \in SUBSET Nat, S # {}
    PROVE  \E k \in S : \A j \in S : k <= j
  <1>1. PICK k \in S : \A j \in S : ~(<<j, k>> \in OpToRel(<, Nat))
    BY WFMin, NatLessThanWellFounded
  <1>2. \A j \in S : ~(j < k) BY <1>1 DEF OpToRel
  <1> QED BY <1>2

(* A smallest finite set with a property. *)
LEMMA SmallestSet ==
    ASSUME NEW F, \A s \in F : IsFiniteSet(s), F # {}
    PROVE  \E s \in F : \A t \in F : Cardinality(s) <= Cardinality(t)
  <1> DEFINE K == {Cardinality(s) : s \in F}
  <1>1. \A s \in F : Cardinality(s) \in Nat BY FS_CardinalityType
  <1>2. K \in SUBSET Nat /\ K # {} BY <1>1
  <1>3. PICK k \in K : \A j \in K : k <= j
    <2> HIDE DEF K
    <2> QED BY <1>2, LeastOf
  <1> QED BY <1>3

LEMMA Smaller ==
    ASSUME NEW s, IsFiniteSet(s), s # {}
    PROVE  /\ Pick(s) \in s /\ IsFiniteSet(s \ {Pick(s)})
           /\ ~(Cardinality(s) <= Cardinality(s \ {Pick(s)}))
  <1>1. Pick(s) \in s BY DEF Pick
  <1>2. Cardinality(s \ {Pick(s)}) = Cardinality(s) - 1 /\ IsFiniteSet(s \ {Pick(s)})
    BY <1>1, FS_RemoveElement
  <1>3. Cardinality(s) \in Nat BY FS_CardinalityType
  <1> QED BY <1>1, <1>2, <1>3

LEMMA SumIs ==
    ASSUME NEW c, NEW g, SumRec(c, DOMAIN c, g)
    PROVE  \E h : SumRec(c, DOMAIN c, h) /\ SumFunction(c) = h[DOMAIN c]
  <1> DEFINE iter == CHOOSE h : SumRec(c, DOMAIN c, h)
  <1>1. SumRec(c, DOMAIN c, iter) OBVIOUS
  <1>2. SumFunction(c) = iter[DOMAIN c]
    BY DEF SumFunction, SumFunctionOnSet, FoldFunctionOnSet, MapThenFoldSet, SumRec, Pick
  <1> QED BY <1>1, <1>2

LEMMA RecAt ==
    ASSUME NEW c, NEW S, NEW g, SumRec(c, S, g), NEW s \in SUBSET S
    PROVE  g[s] = IF s = {} THEN 0 ELSE c[Pick(s)] + g[s \ {Pick(s)}]
  BY DEF SumRec

(* The recursion determines the sum of each subset, from the values on it. *)
LEMMA SumUnique ==
    ASSUME NEW c, NEW e, NEW S, NEW T, NEW g, NEW h, SumRec(c, S, g), SumRec(e, T, h),
           NEW u \in (SUBSET S) \cap (SUBSET T), IsFiniteSet(u), \A x \in u : c[x] = e[x]
    PROVE  g[u] = h[u]
  <1> DEFINE Bad == {s \in SUBSET u : g[s] # h[s]}
  <1> SUFFICES ASSUME Bad # {} PROVE FALSE OBVIOUS
  <1>1. \A s \in SUBSET u : IsFiniteSet(s) BY FS_Subset
  <1>2. PICK s \in Bad : \A t \in Bad : Cardinality(s) <= Cardinality(t)
    <2>1. \A s \in Bad : IsFiniteSet(s) BY <1>1
    <2> HIDE DEF Bad
    <2> QED BY <2>1, SmallestSet
  <1>3. /\ g[s] = IF s = {} THEN 0 ELSE c[Pick(s)] + g[s \ {Pick(s)}]
        /\ h[s] = IF s = {} THEN 0 ELSE e[Pick(s)] + h[s \ {Pick(s)}]
    <2>1. s \in SUBSET S /\ s \in SUBSET T BY <1>2
    <2> HIDE DEF Bad
    <2> QED BY <2>1, RecAt
  <1>4. s # {} BY <1>2, <1>3
  <1>5. Pick(s) \in s /\ ~(Cardinality(s) <= Cardinality(s \ {Pick(s)}))
    BY <1>1, <1>2, <1>4, Smaller
  <1>6. s \ {Pick(s)} \notin Bad BY <1>2, <1>5
  <1>7. g[s \ {Pick(s)}] = h[s \ {Pick(s)}] BY <1>2, <1>6
  <1> QED BY <1>2, <1>3, <1>4, <1>5, <1>7

(* The recursion has a solution on every finite set of numbers. *)
LEMMA SumExists ==
    ASSUME NEW c, NEW S, IsFiniteSet(S), \A x \in S : c[x] \in Nat
    PROVE  \E g \in [SUBSET S -> Nat] : SumRec(c, S, g)
  <1> DEFINE Has(s) == \E g \in [SUBSET s -> Nat] : SumRec(c, s, g)
             Bad == {s \in SUBSET S : ~Has(s)}
  <1> SUFFICES ASSUME Bad # {} PROVE FALSE OBVIOUS
  <1>1. \A s \in SUBSET S : IsFiniteSet(s) BY FS_Subset
  <1>2. PICK T \in Bad : \A t \in Bad : Cardinality(T) <= Cardinality(t)
    <2>1. \A s \in Bad : IsFiniteSet(s) BY <1>1
    <2> HIDE DEF Bad
    <2> QED BY <2>1, SmallestSet
  <1>3. ASSUME NEW t \in SUBSET T, t # T PROVE Has(t)
    <2>1. IsFiniteSet(T) /\ IsFiniteSet(t) BY <1>1, <1>2
    <2>2. Cardinality(t) \in Nat /\ Cardinality(T) \in Nat BY <2>1, FS_CardinalityType
    <2>3. Cardinality(t) < Cardinality(T) BY <1>3, <2>1, <2>2, FS_Subset
    <2>4. t \notin Bad
      <3> HIDE DEF Bad
      <3> QED BY <1>2, <2>2, <2>3
    <2>5. t \in SUBSET S BY <1>2
    <2> HIDE DEF Has
    <2> QED BY <2>4, <2>5
  <1> DEFINE H(t) == (CHOOSE g \in [SUBSET t -> Nat] : SumRec(c, t, g))[t]
             G == [s \in SUBSET T |-> IF s = {} THEN 0 ELSE c[Pick(s)] + H(s \ {Pick(s)})]
  <1>4. ASSUME NEW t \in SUBSET T, t # T
        PROVE  \E g \in [SUBSET t -> Nat] : SumRec(c, t, g) /\ H(t) = g[t]
    <2>1. Has(t) BY <1>3, <1>4
    <2> QED BY <2>1
  <1>5. ASSUME NEW t \in SUBSET T, t # T PROVE H(t) \in Nat
    <2> HIDE DEF H
    <2>1. PICK g \in [SUBSET t -> Nat] : H(t) = g[t] BY <1>4, <1>5
    <2>2. t \in SUBSET t OBVIOUS
    <2> QED BY <2>1, <2>2
  <1>6. ASSUME NEW s \in SUBSET T, s # {}
        PROVE  Pick(s) \in s /\ s \ {Pick(s)} \in SUBSET T /\ s \ {Pick(s)} # T
    <2>1. Pick(s) \in s BY <1>6 DEF Pick
    <2> QED BY <2>1
  <1>7. G \in [SUBSET T -> Nat]
    <2> HIDE DEF H
    <2>1. \A x \in T : c[x] \in Nat BY <1>2
    <2>2. ASSUME NEW s \in SUBSET T PROVE (IF s = {} THEN 0 ELSE c[Pick(s)] + H(s \ {Pick(s)})) \in Nat
      <3>1. CASE s = {} BY <3>1
      <3>2. CASE s # {}
        <4>1. c[Pick(s)] \in Nat /\ H(s \ {Pick(s)}) \in Nat BY <1>5, <1>6, <2>1, <3>2
        <4> QED BY <3>2, <4>1
      <3> QED BY <3>1, <3>2
    <2> QED BY <2>2
  <1>8. ASSUME NEW t \in SUBSET T, t # T PROVE G[t] = H(t)
    <2>1. PICK g \in [SUBSET t -> Nat] : SumRec(c, t, g) /\ H(t) = g[t] BY <1>4, <1>8
    <2>2. g[t] = IF t = {} THEN 0 ELSE c[Pick(t)] + g[t \ {Pick(t)}] BY <2>1, RecAt
    <2>3. G[t] = IF t = {} THEN 0 ELSE c[Pick(t)] + H(t \ {Pick(t)}) OBVIOUS
    <2>4. CASE t = {}
      <3> HIDE DEF G, H
      <3> QED BY <2>1, <2>2, <2>3, <2>4
    <2>5. CASE t # {}
      <3>1. PICK v : v = t \ {Pick(t)} OBVIOUS
      <3>2. v \in SUBSET T /\ v # T /\ v \in SUBSET t BY <1>6, <2>5, <3>1
      <3>3. PICK h \in [SUBSET v -> Nat] : SumRec(c, v, h) /\ H(v) = h[v] BY <1>4, <3>2
      <3>4. IsFiniteSet(v) BY <1>1, <1>2, <3>2
      <3>5. g[v] = h[v]
        <4>1. v \in (SUBSET t) \cap (SUBSET v) BY <3>2
        <4> HIDE DEF G, H
        <4> QED BY <2>1, <3>3, <3>4, <4>1, SumUnique
      <3> HIDE DEF G, H
      <3> QED BY <2>1, <2>2, <2>3, <2>5, <3>1, <3>3, <3>5
    <2> QED BY <2>4, <2>5
  <1>9. SumRec(c, T, G)
    <2>1. ASSUME NEW s \in SUBSET T, s # {} PROVE H(s \ {Pick(s)}) = G[s \ {Pick(s)}]
      <3> HIDE DEF G, H
      <3> QED BY <1>6, <1>8, <2>1
    <2>2. G = [s \in SUBSET T |-> IF s = {} THEN 0 ELSE c[Pick(s)] + G[s \ {Pick(s)}]]
      <3> HIDE DEF H
      <3> QED BY <2>1
    <2> HIDE DEF G, H
    <2> QED BY <2>2 DEF SumRec
  <1>10. Has(T)
    <2> HIDE DEF G, H
    <2> QED BY <1>7, <1>9
  <1> QED BY <1>2, <1>10

(* The sum of a finite set of numbers is one, and grows by the value of an added index. *)
LEMMA SumNat ==
    ASSUME NEW c, IsFiniteSet(DOMAIN c), \A x \in DOMAIN c : c[x] \in Nat
    PROVE  /\ SumFunction(c) \in Nat
           /\ DOMAIN c = {} => SumFunction(c) = 0
           /\ \A g : SumRec(c, DOMAIN c, g) => SumFunction(c) = g[DOMAIN c]
  <1>1. PICK g \in [SUBSET DOMAIN c -> Nat] : SumRec(c, DOMAIN c, g) BY SumExists
  <1>2. PICK h : SumRec(c, DOMAIN c, h) /\ SumFunction(c) = h[DOMAIN c] BY <1>1, SumIs
  <1>3. DOMAIN c \in (SUBSET DOMAIN c) \cap (SUBSET DOMAIN c) OBVIOUS
  <1>4. \A k : SumRec(c, DOMAIN c, k) => k[DOMAIN c] = h[DOMAIN c] BY <1>2, <1>3, SumUnique
  <1>5. DOMAIN c = {} => h[DOMAIN c] = 0 BY <1>2, <1>3, RecAt
  <1> QED BY <1>1, <1>2, <1>4, <1>5

(* g sums the values of c over each subset of the finite set S. *)
Summing(c, S, g) ==
    /\ IsFiniteSet(S) /\ \A x \in S : c[x] \in Nat
    /\ g \in [SUBSET S -> Nat] /\ SumRec(c, S, g)

TakesOff(c, g, s, x) == g[s] = g[s \ {x}] + c[x]

(* Taking any index out takes its value off the sum. *)
LEMMA RemoveAt ==
    ASSUME NEW c, NEW S, NEW g, Summing(c, S, g)
    PROVE  \A s \in SUBSET S : \A x \in s : TakesOff(c, g, s, x)
  <1> USE DEF Summing, TakesOff
  <1> DEFINE Bad == {t \in SUBSET S : \E z \in t : g[t] # g[t \ {z}] + c[z]}
  <1> SUFFICES ASSUME Bad # {} PROVE FALSE OBVIOUS
  <1>1. \A t \in SUBSET S : IsFiniteSet(t) BY FS_Subset
  <1>2. PICK t \in Bad : \A u \in Bad : Cardinality(t) <= Cardinality(u)
    <2>1. \A u \in Bad : IsFiniteSet(u) BY <1>1
    <2> HIDE DEF Bad
    <2> QED BY <2>1, SmallestSet
  <1>3. t \in SUBSET S /\ IsFiniteSet(t) BY <1>1, <1>2
  <1>4. PICK z \in t : g[t] # g[t \ {z}] + c[z] BY <1>2
  <1>5. \A y \in t : c[y] \in Nat /\ g[t \ {y}] \in Nat BY <1>3
  <1>6. PICK y : y = Pick(t) /\ y \in t BY <1>4 DEF Pick
  <1>7. g[t] = c[y] + g[t \ {y}] BY <1>3, <1>4, <1>6, RecAt
  <1>8. y # z
    <2> SUFFICES ASSUME y = z PROVE FALSE OBVIOUS
    <2>1. c[z] \in Nat /\ g[t \ {z}] \in Nat BY <1>4, <1>5
    <2>2. g[t] = c[z] + g[t \ {z}] BY <1>7
    <2> HIDE DEF Bad
    <2> QED BY <1>4, <2>1, <2>2
  <1>9. ASSUME NEW v \in t, NEW w \in t \ {v} PROVE g[t \ {v}] = g[(t \ {v}) \ {w}] + c[w]
    <2>1. t \ {v} \notin Bad
      <3>1. Cardinality(t \ {v}) = Cardinality(t) - 1 /\ Cardinality(t) \in Nat
        BY <1>3, FS_RemoveElement, FS_CardinalityType
      <3>2. ~(Cardinality(t) <= Cardinality(t \ {v})) BY <3>1
      <3> HIDE DEF Bad
      <3> QED BY <1>2, <3>2
    <2> QED BY <1>3, <2>1
  <1>10. PICK r : r = (t \ {y}) \ {z} /\ r = (t \ {z}) \ {y} OBVIOUS
  <1>11. r \in SUBSET S BY <1>3, <1>10
  <1>12. g[t \ {y}] = g[r] + c[z] /\ g[t \ {z}] = g[r] + c[y] BY <1>4, <1>6, <1>8, <1>9, <1>10
  <1>13. g[r] \in Nat /\ c[y] \in Nat /\ c[z] \in Nat BY <1>4, <1>5, <1>6, <1>11
  <1> QED BY <1>4, <1>7, <1>12, <1>13

LEMMA SumRemove ==
    ASSUME NEW D, IsFiniteSet(D), NEW c \in [D -> Nat], NEW x \in D,
           NEW e \in [D \ {x} -> Nat], \A y \in D \ {x} : e[y] = c[y]
    PROVE  SumFunction(c) = SumFunction(e) + c[x] /\ SumFunction(e) \in Nat
  <1>1. /\ DOMAIN c = D /\ (\A y \in D : c[y] \in Nat)
        /\ DOMAIN e = D \ {x} /\ (\A y \in D \ {x} : e[y] \in Nat)
    OBVIOUS
  <1>2. PICK g \in [SUBSET D -> Nat] : SumRec(c, D, g) BY <1>1, SumExists
  <1>3. SumFunction(c) = g[D] BY <1>1, <1>2, SumNat
  <1>4. g[D] = g[D \ {x}] + c[x]
    <2>1. Summing(c, D, g) BY <1>1, <1>2 DEF Summing
    <2>2. TakesOff(c, g, D, x) BY <2>1, RemoveAt
    <2> QED BY <2>2 DEF TakesOff
  <1>5. IsFiniteSet(D \ {x}) BY FS_Subset
  <1>6. PICK h \in [SUBSET (D \ {x}) -> Nat] : SumRec(e, D \ {x}, h) BY <1>1, <1>5, SumExists
  <1>7. SumFunction(e) = h[D \ {x}] /\ SumFunction(e) \in Nat BY <1>1, <1>5, <1>6, SumNat
  <1>8. g[D \ {x}] = h[D \ {x}]
    <2>1. D \ {x} \in (SUBSET D) \cap (SUBSET (D \ {x})) OBVIOUS
    <2> QED BY <1>2, <1>5, <1>6, <2>1, SumUnique
  <1> QED BY <1>3, <1>4, <1>7, <1>8

-----------------------------------------------------------------------------
(* The memory reserved. *)

(* The exchange is tried with a value that fits. *)
LoadedFits == \A w \in Workers : pc[w] = "exchange" => Fits(loaded[w], w)

Inv4 == MemoryKept /\ LoadedFits

(* What each holder has reserved. *)
Hold == [w \in Holders |-> Cost[unit[w]]]

LEMMA HoldTypes ==
    ASSUME Inv
    PROVE  /\ IsFiniteSet(Holders) /\ Holders \subseteq Workers
           /\ Hold \in [Holders -> Nat] /\ \A w \in Holders : Hold[w] > 0
           /\ \A w \in Workers : pc[w] \notin {"claim", "exited"} =>
                unit[w] \in Units /\ Cost[unit[w]] \in Nat /\ Cost[unit[w]] > 0
  <1>1. Holders \subseteq Workers /\ IsFiniteSet(Holders)
    BY ScanAssumption, FS_Subset DEF Holders
  <1>2. ASSUME NEW w \in Workers, pc[w] \notin {"claim", "exited"}
        PROVE  unit[w] \in Units /\ Cost[unit[w]] \in Nat /\ Cost[unit[w]] > 0
    <2>1. unit[w] \in Units BY <1>2, UnitsAssumption DEF Inv, UnitHeld, TypeOK, Units
    <2>2. Cost[unit[w]] \in Nat \ {0} BY <2>1, ScanAssumption
    <2> QED BY <2>1, <2>2
  <1>3. \A w \in Holders : Cost[unit[w]] \in Nat /\ Cost[unit[w]] > 0 BY <1>2 DEF Holders
  <1> QED BY <1>1, <1>2, <1>3 DEF Hold

LEMMA HoldKept ==
    ASSUME Inv, Inv4, Holders' = Holders, \A v \in Holders : unit'[v] = unit[v],
           reserved' = reserved
    PROVE  MemoryKept'
  <1>1. Hold' = Hold BY DEF Hold
  <1>2. reserved = SumFunction(Hold) BY DEF Inv4, MemoryKept, ReservedExact, Hold
  <1>3. reserved' = SumFunction(Hold') BY <1>1, <1>2
  <1>4. ReservedExact' BY <1>3 DEF ReservedExact, Hold
  <1>5. BudgetRespected' BY DEF Inv4, MemoryKept, BudgetRespected
  <1> QED BY <1>4, <1>5 DEF MemoryKept

LEMMA SumZero ==
    ASSUME NEW D, IsFiniteSet(D), NEW c \in [D -> Nat], \A x \in D : c[x] > 0,
           SumFunction(c) = 0
    PROVE  D = {}
  <1> SUFFICES ASSUME NEW x \in D PROVE FALSE OBVIOUS
  <1>1. PICK e : e = [y \in D \ {x} |-> c[y]] OBVIOUS
  <1>2. e \in [D \ {x} -> Nat] /\ \A y \in D \ {x} : e[y] = c[y] BY <1>1
  <1>3. PICK k \in Nat : k = c[x] /\ k > 0 OBVIOUS
  <1>4. SumFunction(c) = SumFunction(e) + k /\ SumFunction(e) \in Nat BY <1>2, <1>3, SumRemove
  <1> QED BY <1>3, <1>4

(* The exchange: the counter is what it was when the worker looked. *)
LEMMA ExchangeMem ==
    ASSUME Inv, Inv', Inv4, NEW w \in Workers, Exchange(w)
    PROVE  MemoryKept'
  <1> USE DEF Goto, main, faults
  <1>1. pc \in [Workers -> WorkerPCs] /\ pc[w] = "exchange" /\ unit' = unit
    BY DEF Inv, TypeOK, Exchange
  <1>2. CASE pc' = [pc EXCEPT ![w] = "reserve"] /\ reserved' = reserved
    <2>1. Holders' = Holders BY <1>1, <1>2 DEF Holders
    <2> QED BY <1>1, <1>2, <2>1, HoldKept
  <1>3. CASE /\ pc' = [pc EXCEPT ![w] = "scan"] /\ reserved = loaded[w]
             /\ reserved' = loaded[w] + Cost[unit[w]]
    <2>1. Holders' = Holders \cup {w} /\ w \notin Holders BY <1>1, <1>3 DEF Holders
    <2>2. PICK k \in Nat : k = Cost[unit[w]] BY <1>1, HoldTypes
    <2>3. PICK D : D = Holders' OBVIOUS
    <2>4. PICK c : c = [v \in D |-> Cost[unit[v]]] OBVIOUS
    <2>5. PICK e : e = Hold OBVIOUS
    <2>6. IsFiniteSet(Holders) /\ e \in [Holders -> Nat] BY <2>5, HoldTypes
    <2>7. IsFiniteSet(D) BY <2>1, <2>3, <2>6, FS_AddElement
    <2>8. D \ {w} = Holders /\ w \in D BY <2>1, <2>3
    <2>9. c \in [D -> Nat] /\ c[w] = k /\ \A y \in D \ {w} : e[y] = c[y]
      <3>1. \A y \in Holders : Cost[unit[y]] = e[y] BY <2>5 DEF Hold
      <3>2. \A y \in Holders : e[y] \in Nat BY <2>6
      <3>3. \A y \in D : Cost[unit[y]] \in Nat BY <2>2, <2>8, <3>1, <3>2
      <3> QED BY <2>2, <2>4, <2>8, <3>1, <3>3
    <2>10. e \in [D \ {w} -> Nat] BY <2>6, <2>8
    <2>11. SumFunction(c) = SumFunction(e) + k /\ SumFunction(e) \in Nat
      BY <2>7, <2>8, <2>9, <2>10, SumRemove
    <2>12. reserved = SumFunction(e) BY <2>5 DEF Inv4, MemoryKept, ReservedExact, Hold
    <2>13. reserved' = SumFunction(c) BY <1>3, <2>2, <2>11, <2>12
    <2>14. ReservedExact' BY <1>1, <2>3, <2>4, <2>13 DEF ReservedExact
    <2>15. BudgetRespected'
      <3>1. loaded[w] = 0 \/ loaded[w] + k <= BudgetMb
        BY <1>1, <2>2 DEF Inv4, LoadedFits, Fits
      <3>2. CASE loaded[w] = 0
        <4>1. SumFunction(e) = 0 /\ \A v \in Holders : e[v] > 0
          BY <1>3, <2>5, <2>12, <3>2, HoldTypes
        <4>2. Holders = {} BY <2>6, <4>1, SumZero
        <4>3. Cardinality({}) = 0 /\ IsFiniteSet({}) BY FS_EmptySet
        <4>4. Cardinality(Holders') = 1
          BY <2>1, <4>2, <4>3, FS_AddElement
        <4> QED BY <4>4 DEF BudgetRespected
      <3>3. CASE loaded[w] + k <= BudgetMb
        <4>1. loaded[w] \in Int /\ BudgetMb \in Nat /\ reserved' = loaded[w] + k
          BY <1>3, <2>2, ScanAssumption DEF Inv, TypeOK
        <4> QED BY <2>2, <3>3, <4>1 DEF BudgetRespected
      <3> QED BY <3>1, <3>2, <3>3
    <2> QED BY <2>14, <2>15 DEF MemoryKept
  <1> QED BY <1>2, <1>3 DEF Exchange, ExchangeSucceeds

LEMMA ReleaseMem ==
    ASSUME Inv, Inv4, NEW w \in Workers, Release(w)
    PROVE  MemoryKept'
  <1> USE DEF Goto, main, faults
  <1>1. /\ pc \in [Workers -> WorkerPCs] /\ pc[w] = "release" /\ unit' = unit
        /\ pc' = [pc EXCEPT ![w] = "count"] /\ reserved' = reserved - Cost[unit[w]]
    BY DEF Inv, TypeOK, Release
  <1>2. Holders' = Holders \ {w} /\ w \in Holders BY <1>1 DEF Holders
  <1>3. PICK D : D = Holders OBVIOUS
  <1>4. PICK c : c = Hold OBVIOUS
  <1>5. IsFiniteSet(D) /\ c \in [D -> Nat] /\ c[w] > 0
    <2>1. Hold[w] > 0 BY <1>2, HoldTypes
    <2>2. IsFiniteSet(Holders) /\ Hold \in [Holders -> Nat] BY HoldTypes
    <2> QED BY <1>3, <1>4, <2>1, <2>2
  <1>6. PICK e : e = [v \in D \ {w} |-> c[v]] OBVIOUS
  <1>7. e \in [D \ {w} -> Nat] /\ \A y \in D \ {w} : e[y] = c[y] BY <1>5, <1>6
  <1>8. SumFunction(c) = SumFunction(e) + c[w] /\ SumFunction(e) \in Nat
    BY <1>2, <1>3, <1>5, <1>7, SumRemove
  <1>9. c[w] = Cost[unit[w]] /\ c[w] \in Nat BY <1>2, <1>3, <1>4, <1>5 DEF Hold
  <1>10. reserved = SumFunction(c) BY <1>4 DEF Inv4, MemoryKept, ReservedExact, Hold
  <1>11. reserved' = SumFunction(e) BY <1>1, <1>8, <1>9, <1>10
  <1>12. [v \in Holders' |-> Cost[unit'[v]]] = e BY <1>1, <1>2, <1>3, <1>4, <1>6 DEF Hold
  <1>13. ReservedExact' BY <1>11, <1>12 DEF ReservedExact
  <1>14. BudgetRespected'
    <2> SUFFICES ASSUME reserved' > BudgetMb PROVE FALSE BY DEF BudgetRespected
    <2>1. BudgetMb \in Nat BY ScanAssumption
    <2>2. reserved > BudgetMb BY <1>5, <1>8, <1>9, <1>10, <1>11, <2>1
    <2>3. Cardinality(D) = 1 BY <1>3, <2>2 DEF Inv4, MemoryKept, BudgetRespected
    <2>4. PICK x : D = {x} BY <1>5, <2>3, FS_Singleton
    <2>5. D \ {w} = {} BY <1>2, <1>3, <2>4
    <2>6. DOMAIN e = {} /\ IsFiniteSet(DOMAIN e) /\ \A y \in DOMAIN e : e[y] \in Nat
      BY <1>6, <2>5, FS_EmptySet
    <2>7. SumFunction(e) = 0 BY <2>6, SumNat
    <2> QED BY <1>11, <2>1, <2>7
  <1> QED BY <1>13, <1>14 DEF MemoryKept

(* Every other step of a worker leaves the counter and the holders alone. *)
LEMMA WorkerMem ==
    ASSUME Inv, Inv', Inv4, NEW w \in Workers, Worker(w) \/ Panic(w)
    PROVE  MemoryKept'
  <1> USE DEF Goto, EndIteration, shared, local, main, faults
  <1>1. /\ pc \in [Workers -> WorkerPCs] /\ unit \in [Workers -> 0 .. NumUnits]
    BY DEF Inv, TypeOK
  <1>2. CASE Exchange(w) BY <1>2, ExchangeMem
  <1>3. CASE Release(w) BY <1>3, ReleaseMem
  <1>4. CASE Claim(w) \/ Defer(w) \/ FoldUnit(w)
    <2>1. reserved' = reserved /\ w \notin Holders
      BY <1>4 DEF Claim, Defer, FoldUnit, Holders
    <2>2. pc'[w] \notin {"scan", "verify", "release", "panicked"}
      BY <1>1, <1>4 DEF Claim, Defer, FoldUnit
    <2>3. \A v \in Workers : v # w => pc'[v] = pc[v] /\ unit'[v] = unit[v]
      BY <1>4, OthersKept DEF Worker
    <2>4. Holders' = Holders BY <2>1, <2>2, <2>3 DEF Holders
    <2>5. \A v \in Holders : unit'[v] = unit[v] BY <2>1, <2>3 DEF Holders
    <2> QED BY <2>1, <2>4, <2>5, HoldKept
  <1>5. CASE LoadReserved(w) \/ SleepFull(w) \/ CountDone(w) \/ StreamFindings(w)
    <2>1. UNCHANGED <<reserved, unit>>
      BY <1>5 DEF LoadReserved, SleepFull, CountDone, StreamFindings, vars
    <2>2. Holders' = Holders
      BY <1>1, <1>5 DEF LoadReserved, SleepFull, CountDone, StreamFindings, vars, Holders
    <2> QED BY <2>1, <2>2, HoldKept
  <1>6. CASE Dedup(w) \/ VerifyUnit(w) \/ Panic(w)
    <2>1. UNCHANGED <<reserved, unit>> BY <1>6 DEF Dedup, VerifyUnit, Panic
    <2>2. Holders' = Holders BY <1>1, <1>6 DEF Dedup, VerifyUnit, Panic, Holders
    <2> QED BY <2>1, <2>2, HoldKept
  <1> QED BY <1>2, <1>3, <1>4, <1>5, <1>6 DEF Worker

LEMMA WorkerFits ==
    ASSUME Inv, LoadedFits, NEW w \in Workers, Worker(w) \/ Panic(w)
    PROVE  LoadedFits'
  <1> USE DEF Goto, EndIteration, shared, local, main, faults
  <1>1. /\ pc \in [Workers -> WorkerPCs] /\ unit \in [Workers -> 0 .. NumUnits]
        /\ loaded \in [Workers -> Int]
    BY DEF Inv, TypeOK
  <1>2. \A v \in Workers : v # w => pc'[v] = pc[v] /\ unit'[v] = unit[v]
    BY OthersKept
  <1>3. \A v \in Workers : v # w => loaded'[v] = loaded[v]
    <2>1. CASE LoadReserved(w) \/ Exchange(w) BY <1>1, <2>1 DEF LoadReserved, Exchange
    <2>2. CASE Claim(w) \/ SleepFull(w) \/ Dedup(w) \/ VerifyUnit(w) \/ Panic(w)
      BY <2>2 DEF Claim, SleepFull, Dedup, VerifyUnit, Panic, vars
    <2>3. CASE Release(w) \/ CountDone(w) \/ Defer(w) \/ StreamFindings(w) \/ FoldUnit(w)
      BY <2>3 DEF Release, CountDone, Defer, StreamFindings, FoldUnit
    <2> QED BY <2>1, <2>2, <2>3 DEF Worker
  <1>4. pc'[w] = "exchange" => Fits(loaded[w], w)'
    <2>1. CASE LoadReserved(w)
      <3>1. loaded'[w] = reserved /\ unit' = unit /\ reserved' = reserved /\ Fits(reserved, w)
        BY <1>1, <2>1 DEF LoadReserved
      <3> QED BY <3>1 DEF Fits
    <2>2. CASE ~LoadReserved(w)
      <3>1. CASE Claim(w) \/ SleepFull(w) \/ Exchange(w) \/ Dedup(w) \/ VerifyUnit(w)
        BY <1>1, <3>1 DEF Claim, SleepFull, Exchange, Dedup, VerifyUnit, vars
      <3>2. CASE Panic(w) \/ Release(w) \/ CountDone(w) \/ Defer(w) \/ StreamFindings(w) \/ FoldUnit(w)
        BY <1>1, <3>2 DEF Panic, Release, CountDone, Defer, StreamFindings, FoldUnit
      <3> QED BY <2>2, <3>1, <3>2 DEF Worker
    <2> QED BY <2>1, <2>2
  <1> QED BY <1>2, <1>3, <1>4 DEF LoadedFits, Fits

LEMMA NextInv4 == Inv /\ Inv' /\ Inv4 /\ [Next]_vars => Inv4'
  <1> SUFFICES ASSUME Inv, Inv', Inv4, [Next]_vars PROVE Inv4' OBVIOUS
  <1>1. CASE UNCHANGED <<reserved, loaded, pc, unit>>
    <2>1. Holders' = Holders BY <1>1 DEF Holders
    <2>2. MemoryKept' BY <1>1, <2>1, HoldKept
    <2>3. LoadedFits' BY <1>1 DEF Inv4, LoadedFits, Fits
    <2> QED BY <2>2, <2>3 DEF Inv4
  <1>2. ASSUME NEW w \in Workers, Worker(w) \/ Panic(w) PROVE Inv4'
    BY <1>2, WorkerMem, WorkerFits DEF Inv4
  <1>3. CASE Main BY <1>1, <1>3 DEF Main, Join, RescanOne, Report, shared, local
  <1>4. CASE CrashAndResume
    <2>1. reserved' = 0 /\ pc' = [w \in Workers |-> "claim"]
      BY <1>4 DEF CrashAndResume, AllWorkers
    <2>2. Holders' = {} BY <2>1 DEF Holders
    <2>3. PICK e : e = [w \in Holders' |-> Cost[unit'[w]]] OBVIOUS
    <2>4. DOMAIN e = {} /\ IsFiniteSet(DOMAIN e) /\ \A y \in DOMAIN e : e[y] \in Nat
      BY <2>2, <2>3, FS_EmptySet
    <2>5. SumFunction(e) = 0 BY <2>4, SumNat
    <2>6. ReservedExact' BY <2>1, <2>3, <2>5 DEF ReservedExact
    <2>7. BudgetRespected' BY <2>1, ScanAssumption DEF BudgetRespected
    <2>8. LoadedFits' BY <2>1 DEF LoadedFits
    <2> QED BY <2>6, <2>7, <2>8 DEF Inv4, MemoryKept
  <1>5. CASE Finished \/ UNCHANGED vars BY <1>1, <1>5 DEF Finished, vars, shared, local
  <1> QED BY <1>2, <1>3, <1>4, <1>5 DEF Next

LEMMA InitInv4 == Init => Inv4
  <1> SUFFICES ASSUME Init PROVE Inv4 OBVIOUS
  <1>1. reserved = 0 /\ pc = [w \in Workers |-> "claim"] BY DEF Init, AllWorkers
  <1>2. Holders = {} BY <1>1 DEF Holders
  <1>3. DOMAIN Hold = {} /\ IsFiniteSet(DOMAIN Hold) /\ \A y \in DOMAIN Hold : Hold[y] \in Nat
    BY <1>2, FS_EmptySet DEF Hold
  <1>4. SumFunction(Hold) = 0 BY <1>3, SumNat
  <1>5. ReservedExact BY <1>1, <1>4 DEF ReservedExact, Hold
  <1>6. BudgetRespected BY <1>1, ScanAssumption DEF BudgetRespected
  <1>7. LoadedFits BY <1>1 DEF LoadedFits
  <1> QED BY <1>5, <1>6, <1>7 DEF Inv4, MemoryKept

(* The fourth invariant holds throughout every scan. *)
THEOREM Inv4Holds == Spec => []Inv4
  BY InvHolds, InitInv4, NextInv4, PTL DEF Spec

(* The reservation counter of scan_dir is the sum of what the units in flight have
   reserved, for any costs and any number of workers racing on its exchange, and it
   exceeds the budget only for a unit that runs alone. *)
THEOREM MemoryStaysKept == Spec => []MemoryKept
  <1>1. Inv4 => MemoryKept BY DEF Inv4
  <1> QED BY <1>1, Inv4Holds, PTL
=============================================================================
