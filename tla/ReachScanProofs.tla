-------------------------- MODULE ReachScanProofs --------------------------
(***************************************************************************)
(* Proofs about the reachability scan, for every tree of files, call graph *)
(* and number of workers: its types, the count of running analyses, and    *)
(* that every entry is verified once, with exactly the modules it reaches, *)
(* all of them covered by the concurrency oracle.                          *)
(***************************************************************************)
EXTENDS ReachScan, FiniteSetTheorems, WellFoundedInduction, TLAPS

InFlight == {w \in Workers : pc[w] \in {"bfs", "verify", "release"}}
Holding == {"gate", "start", "bfs", "verify", "release", "push"}

(* entry_active counts the analyses between its two updates. *)
ActiveExact == active = Cardinality(InFlight)

(* A worker lowers before the join and claims after it; the main thread goes on
   when all have exited. *)
PhasesRight ==
    /\ phase = "lower" => /\ \A w \in Workers : pc[w] \in {"lower", "joined"}
                          /\ entry_next = 0 /\ agg = {}
    /\ phase # "lower" => \A w \in Workers : pc[w] \notin {"lower", "joined"}
    /\ phase \in {"oracle", "report"} => \A w \in Workers : pc[w] = "exited"

(* Where each claimed entry is: with one worker, or among the results. *)
ClaimsRight ==
    /\ \A w \in Workers : IF pc[w] \in Holding
                          THEN entry[w] \in 1 .. NumEntries /\ entry[w] <= entry_next
                          ELSE entry[w] = 0
    /\ \A r \in agg : r.entry \in 1 .. NumEntries /\ r.entry <= entry_next
    /\ \A e \in 1 .. NumEntries : e <= entry_next =>
         (\E w \in Workers : entry[w] = e) \/ (\E r \in agg : r.entry = e)
    /\ \A w \in Workers : pc[w] = "exited" => entry_next > NumEntries

ResultsRight == \A r \in agg : r.group = Reached(EntryModule(r.entry))

(* The traversal: what it has seen is reachable, and what it has seen and taken
   from the work list has its callees seen. *)
TraversalRight ==
    \A w \in Workers : pc[w] = "bfs" =>
        /\ EntryModule(entry[w]) \in seen[w] /\ work[w] \subseteq seen[w]
        /\ seen[w] \subseteq Reached(EntryModule(entry[w]))
        /\ \A y \in seen[w] \ work[w] : Callees(y) \subseteq seen[w]

OracleRight ==
    phase = "oracle" =>
        /\ EntryModules \subseteq reach /\ reach_work \subseteq reach /\ reach \subseteq lowered
        /\ \A y \in reach \ reach_work : Callees(y) \subseteq reach

IInv == /\ TypeOK /\ ActiveExact /\ PhasesRight /\ ClaimsRight /\ ResultsRight
        /\ TraversalRight /\ OracleRight /\ GroupsRight

-----------------------------------------------------------------------------
(* The index over the lowered modules. *)

LEMMA LeastOf ==
    ASSUME NEW S \in SUBSET Nat, S # {}
    PROVE  \E k \in S : \A j \in S : k <= j
  <1>1. PICK k \in S : \A j \in S : ~(<<j, k>> \in OpToRel(<, Nat))
    BY WFMin, NatLessThanWellFounded
  <1>2. \A j \in S : ~(j < k) BY <1>1 DEF OpToRel
  <1> QED BY <1>2

LEMMA GreatestOf ==
    ASSUME NEW n \in Nat, NEW S \in SUBSET (1 .. n), S # {}
    PROVE  \E k \in S : \A j \in S : k >= j
  <1>1. PICK T : T = {n - j : j \in S} OBVIOUS
  <1>2. \A j \in S : n - j \in Nat OBVIOUS
  <1>3. T \in SUBSET Nat /\ T # {} BY <1>1, <1>2
  <1>4. PICK t \in T : \A u \in T : t <= u BY <1>3, LeastOf
  <1>5. PICK k \in S : t = n - k BY <1>1, <1>4
  <1>6. \A j \in S : n - k <= n - j BY <1>1, <1>4, <1>5
  <1>7. \A j \in S : k >= j BY <1>6
  <1> QED BY <1>7

LEMMA IndexTypes ==
    ASSUME TypeOK
    PROVE  /\ \A g \in Present : g.mod \in Files /\ g.mod \in lowered
           /\ lowered \subseteq Nat /\ IsFiniteSet(lowered) /\ EntryModules \subseteq lowered
           /\ IsFiniteSet(Present) /\ NumEntries \in Nat
           /\ \A S : S \subseteq Present => IsFiniteSet(S) /\ Cardinality(S) \in Nat
  <1>1. \A g \in Present : g.mod \in Files /\ g.mod \in lowered
    BY ReachAssumption DEF Present
  <1>2. lowered \subseteq Files /\ Files \subseteq Nat BY DEF TypeOK, Files
  <1>3. IsFiniteSet(Files)
    <2>1. 1 \in Int /\ NumFiles \in Int BY ReachAssumption
    <2> QED BY <2>1, FS_Interval DEF Files
  <1>4. IsFiniteSet(lowered) BY <1>2, <1>3, FS_Subset
  <1>5. Present \subseteq Functions /\ IsFiniteSet(Functions) BY ReachAssumption DEF Present
  <1>6. IsFiniteSet(Present) BY <1>5, FS_Subset
  <1>7. ASSUME NEW S, S \subseteq Present PROVE IsFiniteSet(S) /\ Cardinality(S) \in Nat
    <2>1. IsFiniteSet(S) BY <1>6, <1>7, FS_Subset
    <2> QED BY <2>1, FS_CardinalityType
  <1>8. NumEntries \in Nat
    <2>1. {g \in Present : g.name \in EntryNames} \subseteq Present OBVIOUS
    <2> QED BY <1>7, <2>1 DEF NumEntries
  <1>9. EntryModules \subseteq lowered BY <1>1 DEF EntryModules
  <1> QED BY <1>1, <1>2, <1>4, <1>6, <1>7, <1>8, <1>9

(* Counting the entries module by module finds the module of every entry. *)
LEMMA EntryModuleIs ==
    ASSUME TypeOK, NEW e \in 1 .. NumEntries
    PROVE  EntryModule(e) \in EntryModules /\ EntryModule(e) \in lowered
  <1> DEFINE E == {g \in Present : g.name \in EntryNames}
             UpTo(k) == {g \in Present : g.name \in EntryNames /\ g.mod <= k}
             upto(k) == Cardinality(UpTo(k))
             S == {k \in 0 .. NumFiles : e <= upto(k)}
  <1>1. NumFiles \in Nat /\ e \in Nat BY ReachAssumption
  <1>2. \A g \in Present : g.mod \in 1 .. NumFiles BY IndexTypes DEF Files
  <1>3. \A k : upto(k) \in Nat
    <2> SUFFICES ASSUME NEW k PROVE upto(k) \in Nat OBVIOUS
    <2>1. UpTo(k) \subseteq Present OBVIOUS
    <2> QED BY <2>1, IndexTypes
  <1>4. UpTo(NumFiles) = E BY <1>1, <1>2
  <1>5. NumFiles \in S BY <1>1, <1>4 DEF NumEntries
  <1>6. PICK m \in S : \A k \in S : m <= k
    <2>1. S \subseteq 0 .. NumFiles /\ S # {} BY <1>5
    <2> HIDE DEF S
    <2>2. S \in SUBSET Nat BY <1>1, <2>1
    <2> QED BY <2>1, <2>2, LeastOf
  <1>7. m # 0
    <2>1. UpTo(0) = {} BY <1>2
    <2>2. upto(0) = 0 BY <2>1, FS_EmptySet
    <2> QED BY <1>6, <2>2
  <1>8. m - 1 \in 0 .. NumFiles /\ ~(m <= m - 1) BY <1>1, <1>6, <1>7
  <1>9. ~(e <= upto(m - 1)) BY <1>6, <1>8
  <1>10. upto(m - 1) < e /\ e <= upto(m)
    <2>1. upto(m - 1) \in Nat BY <1>3
    <2> HIDE DEF upto
    <2> QED BY <1>1, <1>6, <1>9, <2>1
  <1>11. \E g \in E : g.mod = m
    <2> SUFFICES ASSUME \A g \in E : g.mod # m PROVE FALSE OBVIOUS
    <2>1. UpTo(m) = UpTo(m - 1) BY <1>1, <1>2, <1>6
    <2>2. upto(m) = upto(m - 1) BY <2>1
    <2>3. upto(m) \in Nat BY <1>3
    <2> HIDE DEF upto
    <2> QED BY <1>1, <1>10, <2>2, <2>3
  <1>12. m \in EntryModules BY <1>11 DEF EntryModules
  <1>13. EntryModule(e) = CHOOSE k \in EntryModules : upto(k - 1) < e /\ e <= upto(k)
    BY DEF EntryModule
  <1>14. EntryModule(e) \in EntryModules
    <2> HIDE DEF upto
    <2> QED BY <1>10, <1>12, <1>13
  <1> QED BY <1>14, IndexTypes

LEMMA CalleesIn ==
    ASSUME TypeOK, NEW m
    PROVE  Callees(m) \subseteq lowered
  <1> SUFFICES ASSUME NEW n, Definers(n) # {} PROVE Lowest(Definers(n)) \in lowered
    BY DEF Callees
  <1>1. Definers(n) \subseteq lowered /\ lowered \subseteq Nat BY IndexTypes DEF Definers
  <1>2. \E k \in Definers(n) : \A j \in Definers(n) : k <= j BY <1>1, LeastOf
  <1> QED BY <1>1, <1>2 DEF Lowest

LEMMA SpawnedIn ==
    ASSUME TypeOK
    PROVE  SpawnedModules \subseteq lowered
  <1> SUFFICES ASSUME NEW n, NEW h \in Present, h.name = n
               PROVE  ModuleOfName(n) \in lowered
    BY DEF SpawnedModules
  <1> DEFINE S == {g.mod : g \in {g \in Present : g.name = n}}
  <1>1. S \subseteq lowered /\ S \in SUBSET (1 .. NumFiles) /\ S # {} /\ NumFiles \in Nat
    BY IndexTypes, ReachAssumption DEF Files
  <1>2. ModuleOfName(n) = CHOOSE k \in S : \A x \in S : k >= x
    BY DEF ModuleOfName, Highest
  <1> HIDE DEF S
  <1>3. \E k \in S : \A x \in S : k >= x BY <1>1, GreatestOf
  <1> QED BY <1>1, <1>2, <1>3

(* Reached(m) is the least set that holds m and is closed under calls. *)
LEMMA ReachedIs ==
    ASSUME TypeOK, NEW m \in lowered
    PROVE  /\ m \in Reached(m) /\ Reached(m) \subseteq lowered
           /\ \A y \in Reached(m) : Callees(y) \subseteq Reached(m)
           /\ \A S \in SUBSET lowered :
                m \in S /\ (\A y \in S : Callees(y) \subseteq S) => Reached(m) \subseteq S
  <1>1. \A y : Callees(y) \subseteq lowered BY CalleesIn
  <1>2. ASSUME NEW y \in Reached(m), NEW x \in Callees(y) PROVE x \in Reached(m)
    <2>1. x \in lowered BY <1>1
    <2>2. ASSUME NEW S \in SUBSET lowered, m \in S, \A z \in S : Callees(z) \subseteq S
          PROVE  x \in S
      <3>1. y \in S BY <2>2 DEF Reached
      <3> QED BY <2>2, <3>1
    <2> QED BY <2>1, <2>2 DEF Reached
  <1> QED BY <1>2 DEF Reached

(* After the join the index no longer changes. *)
LEMMA IndexKept ==
    ASSUME lowered' = lowered
    PROVE  /\ Present' = Present /\ NumEntries' = NumEntries /\ EntryModules' = EntryModules
           /\ \A e : EntryModule(e)' = EntryModule(e)
           /\ \A m : Callees(m)' = Callees(m) /\ Reached(m)' = Reached(m)
  <1>1. Present' = Present BY DEF Present
  <1>2. NumEntries' = NumEntries /\ EntryModules' = EntryModules
    BY <1>1 DEF NumEntries, EntryModules
  <1>3. \A e : EntryModule(e)' = EntryModule(e) BY <1>1, <1>2 DEF EntryModule
  <1>4. \A n : Definers(n)' = Definers(n) BY <1>1 DEF Definers
  <1>5. \A m : Callees(m)' = Callees(m) BY <1>4 DEF Callees
  <1>6. \A m : Reached(m)' = Reached(m) BY <1>5 DEF Reached
  <1> QED BY <1>1, <1>2, <1>3, <1>5, <1>6

-----------------------------------------------------------------------------
(* Control: where the workers are in each phase. *)

LEMMA GotoIs ==
    ASSUME TypeOK, NEW w \in Workers, NEW l \in WorkerPCs, Goto(w, l)
    PROVE  /\ pc' \in [Workers -> WorkerPCs]
           /\ \A u \in Workers : pc'[u] = IF u = w THEN l ELSE pc[u]
  BY DEF TypeOK, Goto

LEMMA WorkersBusy ==
    ASSUME TypeOK, PhasesRight, NEW w \in Workers, pc[w] \notin {"lower", "joined", "exited"}
    PROVE  phase = "entries"
  BY DEF TypeOK, PhasesRight

(* One step of one worker: what it leaves alone and where it may go. *)
LEMMA WorkerFrame ==
    ASSUME TypeOK, PhasesRight, NEW w \in Workers, Worker(w) \/ Allocate(w)
    PROVE  /\ phase' = phase /\ oracle' = oracle
           /\ LowerFile(w) \/ UNCHANGED <<next, lowered>>
           /\ LowerFile(w) => phase = "lower"
           /\ ~LowerFile(w) => phase = "entries"
  <1>1. CASE LowerFile(w)
    <2>1. phase = "lower" BY <1>1 DEF LowerFile, PhasesRight
    <2> QED BY <1>1, <2>1 DEF LowerFile
  <1>2. CASE ClaimEntry(w) \/ AwaitMemory(w) \/ SleepLow(w) \/ Start(w)
    <2>1. pc[w] \notin {"lower", "joined", "exited"} /\ ~LowerFile(w)
      BY <1>2 DEF ClaimEntry, AwaitMemory, SleepLow, Start, LowerFile
    <2>2. phase = "entries" BY <2>1, WorkersBusy
    <2> QED BY <1>2, <2>1, <2>2 DEF ClaimEntry, AwaitMemory, SleepLow, Start, scan, vars
  <1>3. CASE BfsStep(w) \/ FinishVerify(w) \/ Release(w) \/ Push(w) \/ Allocate(w)
    <2>1. pc[w] \notin {"lower", "joined", "exited"} /\ ~LowerFile(w)
      BY <1>3 DEF BfsStep, FinishVerify, Release, Push, Allocate, LowerFile
    <2>2. phase = "entries" BY <2>1, WorkersBusy
    <2> QED BY <1>3, <2>1, <2>2 DEF BfsStep, FinishVerify, Release, Push, Allocate
  <1> QED BY <1>1, <1>2, <1>3 DEF Worker

(* Where a worker's control goes. *)
LEMMA WorkerMoves ==
    ASSUME TypeOK, NEW w \in Workers, Worker(w) \/ Allocate(w)
    PROVE  /\ pc' \in [Workers -> WorkerPCs]
           /\ \A u \in Workers : u # w => pc'[u] = pc[u]
           /\ LowerFile(w) => pc'[w] \in {"lower", "joined"} /\ pc[w] = "lower"
           /\ ~LowerFile(w) => pc'[w] \notin {"lower", "joined"}
  <1> USE DEF WorkerPCs
  <1>1. CASE LowerFile(w)
    <2>1. pc[w] = "lower" /\ (pc' = pc \/ Goto(w, "joined")) BY <1>1 DEF LowerFile
    <2> QED BY <1>1, <2>1, GotoIs DEF TypeOK
  <1>2. CASE ClaimEntry(w)
    <2>1. pc[w] = "claim" /\ (Goto(w, "exited") \/ Goto(w, "gate")) BY <1>2 DEF ClaimEntry
    <2> QED BY <2>1, GotoIs DEF LowerFile
  <1>3. CASE AwaitMemory(w)
    <2>1. pc[w] = "gate" /\ Goto(w, "start") BY <1>3 DEF AwaitMemory
    <2> QED BY <2>1, GotoIs DEF LowerFile
  <1>4. CASE SleepLow(w)
    <2>1. pc[w] = "gate" /\ pc' = pc BY <1>4 DEF SleepLow, scan, vars
    <2> QED BY <2>1 DEF LowerFile, TypeOK
  <1>5. CASE Start(w)
    <2>1. pc[w] = "start" /\ Goto(w, "bfs") BY <1>5 DEF Start
    <2> QED BY <2>1, GotoIs DEF LowerFile
  <1>6. CASE BfsStep(w)
    <2>1. pc[w] = "bfs" /\ (Goto(w, "verify") \/ pc' = pc) BY <1>6 DEF BfsStep
    <2> QED BY <2>1, GotoIs DEF LowerFile, TypeOK
  <1>7. CASE FinishVerify(w)
    <2>1. pc[w] = "verify" /\ Goto(w, "release") BY <1>7 DEF FinishVerify
    <2> QED BY <2>1, GotoIs DEF LowerFile
  <1>8. CASE Release(w)
    <2>1. pc[w] = "release" /\ Goto(w, "push") BY <1>8 DEF Release
    <2> QED BY <2>1, GotoIs DEF LowerFile
  <1>9. CASE Push(w)
    <2>1. pc[w] = "push" /\ Goto(w, "claim") BY <1>9 DEF Push
    <2> QED BY <2>1, GotoIs DEF LowerFile
  <1>10. CASE Allocate(w)
    <2>1. pc[w] = "verify" /\ pc' = pc BY <1>10 DEF Allocate
    <2> QED BY <2>1 DEF LowerFile, TypeOK
  <1> QED BY <1>1, <1>2, <1>3, <1>4, <1>5, <1>6, <1>7, <1>8, <1>9, <1>10 DEF Worker

LEMMA PhasesNext ==
    ASSUME TypeOK, PhasesRight, [Next]_vars
    PROVE  PhasesRight'
  <1>1. ASSUME NEW w \in Workers, Worker(w) \/ Allocate(w) PROVE PhasesRight'
    <2>1. phase' = phase BY <1>1, WorkerFrame
    <2>2. CASE LowerFile(w)
      <3>1. phase = "lower" BY <1>1, <2>2, WorkerFrame
      <3>2. UNCHANGED <<entry_next, agg>> BY <2>2 DEF LowerFile
      <3>3. \A u \in Workers : pc'[u] \in {"lower", "joined"}
        BY <1>1, <2>2, <3>1, WorkerMoves DEF PhasesRight
      <3> QED BY <2>1, <3>1, <3>2, <3>3 DEF PhasesRight
    <2>3. CASE ~LowerFile(w)
      <3>1. phase = "entries" BY <1>1, <2>3, WorkerFrame
      <3>2. \A u \in Workers : pc'[u] \notin {"lower", "joined"}
        BY <1>1, <2>3, <3>1, WorkerMoves DEF PhasesRight
      <3> QED BY <2>1, <3>1, <3>2 DEF PhasesRight
    <2> QED BY <2>2, <2>3
  <1>2. CASE LoweringJoined BY <1>2 DEF LoweringJoined, PhasesRight
  <1>3. CASE Aggregate BY <1>3 DEF Aggregate, PhasesRight
  <1>4. CASE OracleStep BY <1>4 DEF OracleStep, PhasesRight
  <1>5. CASE Report BY <1>5 DEF Report, PhasesRight
  <1>6. CASE Finished \/ OthersTake \/ UNCHANGED vars BY <1>6 DEF Finished, OthersTake, scan, vars, PhasesRight
  <1> QED BY <1>1, <1>2, <1>3, <1>4, <1>5, <1>6 DEF Next

(* What the main thread's steps leave alone. *)
MainStep == LoweringJoined \/ Aggregate \/ OracleStep \/ Report \/ Finished \/ OthersTake \/ UNCHANGED vars

LEMMA MainFrame ==
    ASSUME TypeOK, MainStep
    PROVE  /\ UNCHANGED <<next, lowered, entry_next, active, agg, entry, seen, work, mem>>
           /\ pc' = pc \/ (LoweringJoined /\ pc' = [w \in Workers |-> "claim"])
  <1>1. CASE LoweringJoined BY <1>1 DEF LoweringJoined, locals
  <1>2. CASE Aggregate \/ OracleStep BY <1>2 DEF Aggregate, OracleStep, locals
  <1>3. CASE Report BY <1>3 DEF Report, locals
  <1>4. CASE Finished \/ OthersTake \/ UNCHANGED vars BY <1>4 DEF Finished, OthersTake, scan, vars, locals
  <1> QED BY <1>1, <1>2, <1>3, <1>4 DEF MainStep

LEMMA NextSplit ==
    ASSUME [Next]_vars
    PROVE  MainStep \/ \E w \in Workers : Worker(w) \/ Allocate(w)
  BY DEF Next, MainStep

-----------------------------------------------------------------------------
(* entry_active counts the analyses that run. *)

LEMMA InFlightKept ==
    ASSUME TypeOK, NEW w \in Workers, Worker(w) \/ Allocate(w), ~Start(w), ~Release(w)
    PROVE  InFlight' = InFlight /\ active' = active
  <1> USE DEF WorkerPCs
  <1> DEFINE In(l) == l \in {"bfs", "verify", "release"}
  <1>1. SUFFICES active' = active /\ (pc' = pc \/ (In(pc[w]) <=> In(pc'[w])))
    <2>1. \A u \in Workers : u # w => pc'[u] = pc[u] BY WorkerMoves
    <2> QED BY <1>1, <2>1 DEF InFlight
  <1>2. CASE LowerFile(w)
    <2>1. pc[w] = "lower" /\ (pc' = pc \/ Goto(w, "joined")) BY <1>2 DEF LowerFile
    <2> QED BY <1>2, <2>1, GotoIs DEF LowerFile
  <1>3. CASE ClaimEntry(w)
    <2>1. pc[w] = "claim" /\ (Goto(w, "exited") \/ Goto(w, "gate")) BY <1>3 DEF ClaimEntry
    <2> QED BY <1>3, <2>1, GotoIs DEF ClaimEntry
  <1>4. CASE AwaitMemory(w)
    <2>1. pc[w] = "gate" /\ Goto(w, "start") BY <1>4 DEF AwaitMemory
    <2> QED BY <1>4, <2>1, GotoIs DEF AwaitMemory
  <1>5. CASE SleepLow(w) BY <1>5 DEF SleepLow, scan, vars
  <1>6. CASE BfsStep(w)
    <2>1. pc[w] = "bfs" /\ (Goto(w, "verify") \/ pc' = pc) BY <1>6 DEF BfsStep
    <2> QED BY <1>6, <2>1, GotoIs DEF BfsStep
  <1>7. CASE FinishVerify(w)
    <2>1. pc[w] = "verify" /\ Goto(w, "release") BY <1>7 DEF FinishVerify
    <2> QED BY <1>7, <2>1, GotoIs DEF FinishVerify
  <1>8. CASE Push(w)
    <2>1. pc[w] = "push" /\ Goto(w, "claim") BY <1>8 DEF Push
    <2> QED BY <1>8, <2>1, GotoIs DEF Push
  <1>9. CASE Allocate(w) BY <1>9 DEF Allocate
  <1> QED BY <1>2, <1>3, <1>4, <1>5, <1>6, <1>7, <1>8, <1>9 DEF Worker

LEMMA ActiveNext ==
    ASSUME TypeOK, PhasesRight, ActiveExact, [Next]_vars
    PROVE  ActiveExact' /\ active' \in Nat
  <1> USE DEF WorkerPCs
  <1>1. IsFiniteSet(InFlight) /\ IsFiniteSet(InFlight')
    <2>1. IsFiniteSet(Workers) /\ InFlight \subseteq Workers /\ InFlight' \subseteq Workers
      BY ReachAssumption DEF InFlight
    <2> QED BY <2>1, FS_Subset
  <1>2. Cardinality(InFlight) \in Nat /\ Cardinality(InFlight') \in Nat
    BY <1>1, FS_CardinalityType
  <1> SUFFICES ActiveExact' BY <1>2 DEF ActiveExact
  <1>3. CASE MainStep
    <2>1. active' = active BY <1>3, MainFrame
    <2>2. InFlight' = InFlight
      <3>1. CASE pc' = pc BY <3>1 DEF InFlight
      <3>2. CASE LoweringJoined /\ pc' = [w \in Workers |-> "claim"]
        BY <3>2 DEF LoweringJoined, InFlight
      <3> QED BY <1>3, <3>1, <3>2, MainFrame
    <2> QED BY <2>1, <2>2 DEF ActiveExact
  <1>4. ASSUME NEW w \in Workers, Start(w) PROVE ActiveExact'
    <2>1. pc[w] = "start" /\ Goto(w, "bfs") /\ active' = active + 1 BY <1>4 DEF Start
    <2>2. \A u \in Workers : pc'[u] = IF u = w THEN "bfs" ELSE pc[u] BY <2>1, GotoIs
    <2>3. InFlight' = InFlight \cup {w} /\ w \notin InFlight BY <2>1, <2>2 DEF InFlight
    <2>4. Cardinality(InFlight') = Cardinality(InFlight) + 1 BY <1>1, <2>3, FS_AddElement
    <2> QED BY <2>1, <2>4 DEF ActiveExact
  <1>5. ASSUME NEW w \in Workers, Release(w) PROVE ActiveExact'
    <2>1. pc[w] = "release" /\ Goto(w, "push") /\ active' = active - 1
      BY <1>5 DEF Release, Released
    <2>2. \A u \in Workers : pc'[u] = IF u = w THEN "push" ELSE pc[u] BY <2>1, GotoIs
    <2>3. InFlight' = InFlight \ {w} /\ w \in InFlight BY <2>1, <2>2 DEF InFlight
    <2>4. Cardinality(InFlight') = Cardinality(InFlight) - 1 BY <1>1, <2>3, FS_RemoveElement
    <2> QED BY <2>1, <2>4 DEF ActiveExact
  <1>6. ASSUME NEW w \in Workers, Worker(w) \/ Allocate(w), ~Start(w), ~Release(w)
        PROVE  ActiveExact'
    BY <1>6, InFlightKept DEF ActiveExact
  <1> QED BY <1>3, <1>4, <1>5, <1>6, NextSplit

-----------------------------------------------------------------------------
(* Types. *)

LocalTypes ==
    /\ entry \in [Workers -> Nat]
    /\ seen \in [Workers -> SUBSET Files] /\ work \in [Workers -> SUBSET Files]
    /\ mem \in [Workers -> 0 .. UseMb]

LEMMA LocalTypesNext ==
    ASSUME TypeOK, PhasesRight, ClaimsRight, [Next]_vars
    PROVE  LocalTypes'
  <1>1. LocalTypes /\ entry_next \in Nat /\ lowered \subseteq Files BY DEF TypeOK, LocalTypes
  <1>2. CASE UNCHANGED <<entry, seen, work, mem>> BY <1>1, <1>2 DEF LocalTypes
  <1>3. ASSUME NEW w \in Workers, ClaimEntry(w) PROVE LocalTypes'
    <2>1. UNCHANGED <<seen, work, mem>> /\ (entry' = entry \/ entry' = [entry EXCEPT ![w] = entry_next + 1])
      BY <1>3 DEF ClaimEntry
    <2> QED BY <1>1, <2>1 DEF LocalTypes
  <1>4. ASSUME NEW w \in Workers, Start(w) PROVE LocalTypes'
    <2>1. pc[w] = "start" BY <1>4 DEF Start
    <2>2. entry[w] \in 1 .. NumEntries BY <2>1 DEF ClaimsRight, Holding
    <2>3. EntryModule(entry[w]) \in Files BY <1>1, <2>2, EntryModuleIs
    <2>4. PICK m \in Files : m = EntryModule(entry[w]) BY <2>3
    <2>5. UNCHANGED <<entry, mem>> /\ seen' = [seen EXCEPT ![w] = {m}] /\ work' = [work EXCEPT ![w] = {m}]
      BY <1>4, <2>4 DEF Start
    <2> QED BY <1>1, <2>5 DEF LocalTypes
  <1>5. ASSUME NEW w \in Workers, BfsStep(w) PROVE LocalTypes'
    <2>1. UNCHANGED <<entry, mem>> BY <1>5 DEF BfsStep
    <2>2. CASE UNCHANGED <<seen, work>> BY <1>1, <2>1, <2>2 DEF LocalTypes
    <2>3. ASSUME NEW m, seen' = seen, work' = [work EXCEPT ![w] = @ \ {m}] PROVE LocalTypes'
      BY <1>1, <2>1, <2>3 DEF LocalTypes
    <2>4. ASSUME NEW m, seen' = [seen EXCEPT ![w] = @ \cup Callees(m)],
                 work' = [work EXCEPT ![w] = (@ \ {m}) \cup (Callees(m) \ seen[w])]
          PROVE  LocalTypes'
      <3>1. Callees(m) \subseteq Files BY <1>1, CalleesIn
      <3>2. PICK C \in SUBSET Files : C = Callees(m) BY <3>1
      <3>3. seen' = [seen EXCEPT ![w] = @ \cup C] /\ work' = [work EXCEPT ![w] = (@ \ {m}) \cup (C \ seen[w])]
        BY <2>4, <3>2
      <3> QED BY <1>1, <2>1, <3>3 DEF LocalTypes
    <2> QED BY <1>5, <2>2, <2>3, <2>4 DEF BfsStep
  <1>6. ASSUME NEW w \in Workers, Push(w) PROVE LocalTypes'
    <2>1. /\ entry' = [entry EXCEPT ![w] = 0] /\ mem' = mem
          /\ seen' = [seen EXCEPT ![w] = {}] /\ work' = [work EXCEPT ![w] = {}]
      BY <1>6 DEF Push
    <2> QED BY <1>1, <2>1 DEF LocalTypes
  <1>7. ASSUME NEW w \in Workers, Allocate(w) PROVE LocalTypes'
    <2>1. UNCHANGED <<entry, seen, work>> /\ mem[w] < UseMb /\ mem' = [mem EXCEPT ![w] = @ + 1]
      BY <1>7 DEF Allocate
    <2>2. mem' \in [Workers -> 0 .. UseMb] BY <1>1, <2>1, ReachAssumption DEF LocalTypes
    <2> QED BY <1>1, <2>1, <2>2 DEF LocalTypes
  <1>8. ASSUME NEW w \in Workers, FinishVerify(w) PROVE LocalTypes'
    <2>1. UNCHANGED <<entry, seen, work>> /\ mem' = [mem EXCEPT ![w] = 0]
      BY <1>8 DEF FinishVerify
    <2>2. mem' \in [Workers -> 0 .. UseMb] BY <1>1, <2>1, ReachAssumption DEF LocalTypes
    <2> QED BY <1>1, <2>1, <2>2 DEF LocalTypes
  <1>9. ASSUME NEW w \in Workers, LowerFile(w) \/ AwaitMemory(w) \/ SleepLow(w) \/ Release(w)
        PROVE  UNCHANGED <<entry, seen, work, mem>>
    BY <1>9 DEF LowerFile, AwaitMemory, SleepLow, Release, scan, vars, locals
  <1>10. ASSUME NEW w \in Workers, Worker(w) \/ Allocate(w) PROVE LocalTypes'
    BY <1>2, <1>3, <1>4, <1>5, <1>6, <1>7, <1>8, <1>9, <1>10 DEF Worker
  <1>11. CASE MainStep BY <1>2, <1>11, MainFrame
  <1> QED BY <1>10, <1>11, NextSplit

LEMMA SharedTypesNext ==
    ASSUME TypeOK, PhasesRight, [Next]_vars
    PROVE  /\ next' \in Nat /\ lowered' \subseteq Files
           /\ entry_next' \in Nat /\ agg' \subseteq [entry : Nat, group : SUBSET Files]
           /\ pc' \in [Workers -> WorkerPCs]
  <1> USE DEF WorkerPCs
  <1>1. /\ next \in Nat /\ lowered \subseteq Files /\ entry_next \in Nat
        /\ agg \subseteq [entry : Nat, group : SUBSET Files] /\ pc \in [Workers -> WorkerPCs]
        /\ entry \in [Workers -> Nat] /\ seen \in [Workers -> SUBSET Files]
    BY DEF TypeOK
  <1>2. CASE MainStep BY <1>1, <1>2, MainFrame
  <1>3. ASSUME NEW w \in Workers, Worker(w) \/ Allocate(w)
        PROVE  /\ next' \in Nat /\ lowered' \subseteq Files
               /\ entry_next' \in Nat /\ agg' \subseteq [entry : Nat, group : SUBSET Files]
    <2>1. CASE LowerFile(w)
      <3>1. next' = next + 1 /\ UNCHANGED <<entry_next, agg>> BY <2>1 DEF LowerFile
      <3>2. lowered' \subseteq Files
        <4>1. CASE lowered' = lowered BY <1>1, <4>1
        <4>2. CASE ~(next + 1 > NumFiles) /\ lowered' = lowered \cup ({next + 1} \ Unlowerable)
          <5>1. next + 1 \in Files BY <1>1, <4>2, ReachAssumption DEF Files
          <5> QED BY <1>1, <4>2, <5>1
        <4> QED BY <2>1, <4>1, <4>2 DEF LowerFile
      <3> QED BY <1>1, <3>1, <3>2
    <2>2. CASE ~LowerFile(w)
      <3>1. UNCHANGED <<next, lowered>> BY <1>3, <2>2, WorkerFrame
      <3>2. CASE ClaimEntry(w)
        <4>1. entry_next' = entry_next + 1 /\ agg' = agg BY <3>2 DEF ClaimEntry
        <4> QED BY <1>1, <3>1, <4>1
      <3>3. CASE Push(w)
        <4>1. entry_next' = entry_next /\ agg' = agg \cup {[entry |-> entry[w], group |-> seen[w]]}
          BY <3>3 DEF Push
        <4> QED BY <1>1, <3>1, <4>1
      <3>4. CASE AwaitMemory(w) \/ SleepLow(w) \/ Start(w) \/ BfsStep(w)
        <4>1. UNCHANGED <<entry_next, agg>>
          BY <3>4 DEF AwaitMemory, SleepLow, Start, BfsStep, scan, vars
        <4> QED BY <1>1, <3>1, <4>1
      <3>5. CASE FinishVerify(w) \/ Release(w) \/ Allocate(w)
        <4>1. UNCHANGED <<entry_next, agg>> BY <3>5 DEF FinishVerify, Release, Allocate
        <4> QED BY <1>1, <3>1, <4>1
      <3> QED BY <1>3, <2>2, <3>2, <3>3, <3>4, <3>5 DEF Worker
    <2> QED BY <2>1, <2>2
  <1>4. ASSUME NEW w \in Workers, Worker(w) \/ Allocate(w) PROVE pc' \in [Workers -> WorkerPCs]
    BY <1>4, WorkerMoves
  <1> QED BY <1>2, <1>3, <1>4, NextSplit

LEMMA OracleTypesNext ==
    ASSUME TypeOK, PhasesRight, [Next]_vars
    PROVE  /\ phase' \in {"lower", "entries", "oracle", "report"}
           /\ reach' \subseteq Files /\ reach_work' \subseteq Files
           /\ concurrent' \subseteq {g.name : g \in Functions}
  <1>1. /\ phase \in {"lower", "entries", "oracle", "report"} /\ lowered \subseteq Files
        /\ reach \subseteq Files /\ reach_work \subseteq Files
        /\ concurrent \subseteq {g.name : g \in Functions}
    BY DEF TypeOK
  <1>2. ASSUME NEW w \in Workers, Worker(w) \/ Allocate(w)
        PROVE  UNCHANGED <<phase, reach, reach_work, concurrent>>
    BY <1>2, WorkerFrame DEF oracle
  <1>3. CASE LoweringJoined BY <1>1, <1>3 DEF LoweringJoined, oracle
  <1>4. CASE Aggregate
    <2>1. EntryModules \cup SpawnedModules \subseteq Files BY <1>1, IndexTypes, SpawnedIn
    <2> QED BY <1>1, <1>4, <2>1 DEF Aggregate
  <1>5. CASE OracleStep
    <2>1. \A m : Callees(m) \subseteq Files BY <1>1, CalleesIn
    <2> QED BY <1>1, <1>5, <2>1 DEF OracleStep
  <1>6. CASE Report
    <2>1. Present \subseteq Functions BY DEF Present
    <2> QED BY <1>1, <1>6, <2>1 DEF Report
  <1>7. CASE Finished \/ OthersTake \/ UNCHANGED vars BY <1>1, <1>7 DEF Finished, OthersTake, scan, vars, oracle
  <1> QED BY <1>1, <1>2, <1>3, <1>4, <1>5, <1>6, <1>7 DEF Next

LEMMA TypesNext ==
    ASSUME TypeOK, PhasesRight, ActiveExact, ClaimsRight, [Next]_vars
    PROVE  TypeOK'
  <1>1. LocalTypes' BY LocalTypesNext
  <1>2. active' \in Nat BY ActiveNext
  <1>3. others' \in 0 .. TotalMb
    <2>1. others' = others \/ OthersTake
      BY DEF Next, Worker, LowerFile, ClaimEntry, AwaitMemory, SleepLow, Start, BfsStep, FinishVerify,
             Release, Push, Allocate, LoweringJoined, Aggregate, OracleStep, Report, Finished, vars
    <2> QED BY <2>1 DEF TypeOK, OthersTake
  <1> QED BY <1>1, <1>2, <1>3, SharedTypesNext, OracleTypesNext DEF TypeOK, LocalTypes

-----------------------------------------------------------------------------
(* The entries: each is claimed by one worker and ends as one result. *)

(* The part of EntriesOnce that holds throughout. *)
OneHolder ==
    /\ \A u, w \in Workers : u # w /\ entry[u] # 0 => entry[u] # entry[w]
    /\ \A r \in agg : \A w \in Workers : entry[w] # r.entry
    /\ \A r, t \in agg : r.entry = t.entry => r = t

LEMMA NumEntriesNat == NumEntries \in Nat /\ NumEntries' \in Nat
  <1>1. ASSUME NEW S, S \subseteq Functions PROVE Cardinality(S) \in Nat
    <2>1. IsFiniteSet(S) BY <1>1, ReachAssumption, FS_Subset
    <2> QED BY <2>1, FS_CardinalityType
  <1>2. {g \in Present : g.name \in EntryNames} \subseteq Functions BY DEF Present
  <1>3. {g \in Present' : g.name \in EntryNames} \subseteq Functions BY DEF Present
  <1> QED BY <1>1, <1>2, <1>3 DEF NumEntries

(* Between claim and push a worker keeps its entry. *)
LEMMA HoldingKept ==
    ASSUME TypeOK, NEW w \in Workers, Worker(w) \/ Allocate(w),
           ~LowerFile(w), ~ClaimEntry(w), ~Push(w)
    PROVE  /\ UNCHANGED <<entry_next, agg, entry>>
           /\ pc[w] \in Holding /\ pc'[w] \in Holding
  <1> USE DEF WorkerPCs, Holding
  <1>1. CASE AwaitMemory(w)
    <2>1. pc[w] = "gate" /\ Goto(w, "start") BY <1>1 DEF AwaitMemory
    <2> QED BY <1>1, <2>1, GotoIs DEF AwaitMemory, locals
  <1>2. CASE SleepLow(w) BY <1>2 DEF SleepLow, scan, vars, locals
  <1>3. CASE Start(w)
    <2>1. pc[w] = "start" /\ Goto(w, "bfs") BY <1>3 DEF Start
    <2> QED BY <1>3, <2>1, GotoIs DEF Start
  <1>4. CASE BfsStep(w)
    <2>1. pc[w] = "bfs" /\ (Goto(w, "verify") \/ pc' = pc) BY <1>4 DEF BfsStep
    <2> QED BY <1>4, <2>1, GotoIs DEF BfsStep
  <1>5. CASE FinishVerify(w)
    <2>1. pc[w] = "verify" /\ Goto(w, "release") BY <1>5 DEF FinishVerify
    <2> QED BY <1>5, <2>1, GotoIs DEF FinishVerify
  <1>6. CASE Release(w)
    <2>1. pc[w] = "release" /\ Goto(w, "push") BY <1>6 DEF Release
    <2> QED BY <1>6, <2>1, GotoIs DEF Release, locals
  <1>7. CASE Allocate(w) BY <1>7 DEF Allocate
  <1> QED BY <1>1, <1>2, <1>3, <1>4, <1>5, <1>6, <1>7 DEF Worker

LEMMA ClaimNext ==
    ASSUME TypeOK, ClaimsRight, OneHolder, NEW w \in Workers, ClaimEntry(w)
    PROVE  ClaimsRight' /\ OneHolder'
  <1> USE DEF WorkerPCs, Holding
  <1>1. entry_next \in Nat /\ entry \in [Workers -> Nat] /\ NumEntries \in Nat
    BY NumEntriesNat DEF TypeOK
  <1>2. PICK n \in Nat : n = entry_next + 1 BY <1>1
  <1>3. /\ pc[w] = "claim" /\ entry_next' = n /\ agg' = agg /\ lowered' = lowered
    BY <1>2 DEF ClaimEntry
  <1>4. NumEntries' = NumEntries BY <1>3, IndexKept
  <1>5. /\ \A u \in Workers : IF pc[u] \in Holding
                              THEN entry[u] \in 1 .. NumEntries /\ entry[u] < n
                              ELSE entry[u] = 0
        /\ \A r \in agg : r.entry \in 1 .. NumEntries /\ r.entry < n
        /\ \A e \in 1 .. NumEntries : e < n =>
             (\E u \in Workers : entry[u] = e) \/ (\E r \in agg : r.entry = e)
        /\ \A u \in Workers : pc[u] = "exited" => n > NumEntries
    BY <1>1, <1>2 DEF ClaimsRight
  <1>6. entry[w] = 0 BY <1>3, <1>5
  <1>7. CASE n > NumEntries /\ Goto(w, "exited") /\ entry' = entry
    <2>1. \A u \in Workers : pc'[u] = IF u = w THEN "exited" ELSE pc[u] BY <1>7, GotoIs
    <2>2. \A u \in Workers : IF pc'[u] \in Holding
                             THEN entry'[u] \in 1 .. NumEntries /\ entry'[u] <= n
                             ELSE entry'[u] = 0
      BY <1>1, <1>5, <1>6, <1>7, <2>1
    <2>3. \A r \in agg : r.entry \in 1 .. NumEntries /\ r.entry <= n BY <1>1, <1>5
    <2>4. \A e \in 1 .. NumEntries : e <= n =>
            (\E u \in Workers : entry[u] = e) \/ (\E r \in agg : r.entry = e)
      BY <1>1, <1>5, <1>7
    <2>5. ClaimsRight' BY <1>3, <1>4, <1>7, <2>2, <2>3, <2>4 DEF ClaimsRight
    <2> QED BY <1>3, <1>7, <2>5 DEF OneHolder
  <1>8. CASE n <= NumEntries /\ Goto(w, "gate") /\ entry' = [entry EXCEPT ![w] = n]
    <2>1. \A u \in Workers : pc'[u] = IF u = w THEN "gate" ELSE pc[u] BY <1>8, GotoIs
    <2>2. \A u \in Workers : entry'[u] = IF u = w THEN n ELSE entry[u] BY <1>1, <1>8
    <2>3. n \in 1 .. NumEntries BY <1>1, <1>2, <1>8
    <2>4. \A u \in Workers : IF pc'[u] \in Holding
                             THEN entry'[u] \in 1 .. NumEntries /\ entry'[u] <= n
                             ELSE entry'[u] = 0
      BY <1>1, <1>5, <2>1, <2>2, <2>3
    <2>5. \A r \in agg : r.entry \in 1 .. NumEntries /\ r.entry <= n BY <1>1, <1>5
    <2>6. ASSUME NEW e \in 1 .. NumEntries, e <= n
          PROVE  (\E u \in Workers : entry'[u] = e) \/ (\E r \in agg : r.entry = e)
      <3>1. CASE e = n BY <2>2, <3>1
      <3>2. CASE e < n
        <4>1. CASE \E r \in agg : r.entry = e BY <4>1
        <4>2. ASSUME NEW u \in Workers, entry[u] = e PROVE entry'[u] = e
          BY <1>1, <1>6, <2>2, <4>2
        <4> QED BY <1>5, <3>2, <4>1, <4>2
      <3> QED BY <1>1, <2>6, <3>1, <3>2
    <2>7. \A u \in Workers : pc'[u] = "exited" => n > NumEntries BY <1>5, <2>1
    <2>8. ClaimsRight' BY <1>3, <1>4, <2>4, <2>5, <2>6, <2>7 DEF ClaimsRight
    <2>9. \A u \in Workers : entry[u] # n BY <1>1, <1>2, <1>5
    <2>10. \A r \in agg : r.entry # n BY <1>1, <1>5
    <2>11. \A u, v \in Workers : u # v /\ entry'[u] # 0 => entry'[u] # entry'[v]
      BY <2>2, <2>9 DEF OneHolder
    <2>12. \A r \in agg : \A u \in Workers : entry'[u] # r.entry BY <2>2, <2>10 DEF OneHolder
    <2> QED BY <1>3, <2>8, <2>11, <2>12 DEF OneHolder
  <1>9. \/ n > NumEntries /\ Goto(w, "exited") /\ entry' = entry
        \/ ~(n > NumEntries) /\ Goto(w, "gate") /\ entry' = [entry EXCEPT ![w] = n]
    BY <1>2 DEF ClaimEntry, EntriesOver
  <1> QED BY <1>1, <1>7, <1>8, <1>9

LEMMA PushNext ==
    ASSUME TypeOK, ClaimsRight, OneHolder, NEW w \in Workers, Push(w)
    PROVE  ClaimsRight' /\ OneHolder'
  <1> USE DEF WorkerPCs, Holding
  <1>1. entry_next \in Nat /\ entry \in [Workers -> Nat] /\ NumEntries \in Nat
    BY NumEntriesNat DEF TypeOK
  <1>2. PICK n : n = [entry |-> entry[w], group |-> seen[w]] OBVIOUS
  <1>3. /\ pc[w] = "push" /\ Goto(w, "claim") /\ UNCHANGED <<lowered, entry_next>>
        /\ agg' = agg \cup {n} /\ entry' = [entry EXCEPT ![w] = 0]
    BY <1>2 DEF Push
  <1>4. n.entry = entry[w] BY <1>2
  <1>5. NumEntries' = NumEntries BY <1>3, IndexKept
  <1>6. entry[w] \in 1 .. NumEntries /\ entry[w] <= entry_next BY <1>3 DEF ClaimsRight
  <1>7. \A u \in Workers : pc'[u] = IF u = w THEN "claim" ELSE pc[u] BY <1>3, GotoIs
  <1>8. \A u \in Workers : entry'[u] = IF u = w THEN 0 ELSE entry[u] BY <1>1, <1>3
  <1>9. \A u \in Workers : IF pc'[u] \in Holding
                           THEN entry'[u] \in 1 .. NumEntries /\ entry'[u] <= entry_next
                           ELSE entry'[u] = 0
    BY <1>7, <1>8 DEF ClaimsRight
  <1>10. \A r \in agg' : r.entry \in 1 .. NumEntries /\ r.entry <= entry_next
    BY <1>3, <1>4, <1>6 DEF ClaimsRight
  <1>11. ASSUME NEW e \in 1 .. NumEntries, e <= entry_next
         PROVE  (\E u \in Workers : entry'[u] = e) \/ (\E r \in agg' : r.entry = e)
    <2>1. CASE \E r \in agg : r.entry = e BY <1>3, <2>1
    <2>2. ASSUME NEW u \in Workers, entry[u] = e
          PROVE  entry'[u] = e \/ (\E r \in agg' : r.entry = e)
      BY <1>3, <1>4, <1>8, <2>2
    <2> QED BY <1>11, <2>1, <2>2 DEF ClaimsRight
  <1>12. \A u \in Workers : pc'[u] = "exited" => entry_next > NumEntries
    BY <1>7 DEF ClaimsRight
  <1>13. ClaimsRight' BY <1>3, <1>5, <1>9, <1>10, <1>11, <1>12 DEF ClaimsRight
  <1>14. entry[w] # 0 BY <1>1, <1>6
  <1>15. \A r \in agg : r.entry # 0 BY <1>1 DEF ClaimsRight
  <1>16. \A u, v \in Workers : u # v /\ entry'[u] # 0 => entry'[u] # entry'[v]
    BY <1>8 DEF OneHolder
  <1>17. \A u \in Workers : entry'[u] # n.entry BY <1>4, <1>8, <1>14 DEF OneHolder
  <1>18. \A r \in agg : \A u \in Workers : entry'[u] # r.entry BY <1>8, <1>15 DEF OneHolder
  <1>19. \A r \in agg : r.entry # n.entry BY <1>4 DEF OneHolder
  <1>20. \A r, t \in agg' : r.entry = t.entry => r = t BY <1>3, <1>19 DEF OneHolder
  <1> QED BY <1>3, <1>13, <1>16, <1>17, <1>18, <1>20 DEF OneHolder

LEMMA ClaimsNext ==
    ASSUME TypeOK, PhasesRight, ClaimsRight, OneHolder, [Next]_vars
    PROVE  ClaimsRight' /\ OneHolder'
  <1> USE DEF WorkerPCs, Holding
  <1>1. CASE MainStep
    <2>1. UNCHANGED <<lowered, entry_next, agg, entry>> BY <1>1, MainFrame
    <2>2. NumEntries' = NumEntries BY <2>1, IndexKept
    <2>3. CASE pc' = pc BY <2>1, <2>2, <2>3 DEF ClaimsRight, OneHolder
    <2>4. CASE LoweringJoined /\ pc' = [w \in Workers |-> "claim"]
      <3>1. \A w \in Workers : pc[w] = "joined" BY <2>4 DEF LoweringJoined
      <3>2. \A w \in Workers : entry[w] = 0 /\ pc'[w] = "claim"
        BY <2>4, <3>1 DEF ClaimsRight
      <3> QED BY <2>1, <2>2, <3>2 DEF ClaimsRight, OneHolder
    <2> QED BY <1>1, <2>3, <2>4, MainFrame
  <1>2. ASSUME NEW w \in Workers, LowerFile(w) PROVE ClaimsRight' /\ OneHolder'
    <2>1. phase = "lower" /\ UNCHANGED <<entry_next, agg, entry>>
      BY <1>2 DEF LowerFile, PhasesRight, locals
    <2>2. entry_next = 0 /\ agg = {} BY <2>1 DEF PhasesRight
    <2>3. \A u \in Workers : pc[u] \in {"lower", "joined"} BY <2>1 DEF PhasesRight
    <2>4. \A u \in Workers : entry[u] = 0 BY <2>3 DEF ClaimsRight
    <2>5. \A u \in Workers : pc'[u] \in {"lower", "joined"}
      BY <1>2, <2>3, WorkerMoves DEF Worker
    <2>6. \A e \in 1 .. NumEntries' : ~(e <= 0) BY NumEntriesNat
    <2> QED BY <2>1, <2>2, <2>4, <2>5, <2>6 DEF ClaimsRight, OneHolder
  <1>3. ASSUME NEW w \in Workers, Worker(w) \/ Allocate(w),
               ~LowerFile(w), ~ClaimEntry(w), ~Push(w)
        PROVE  ClaimsRight' /\ OneHolder'
    <2>1. UNCHANGED <<entry_next, agg, entry>> /\ pc[w] \in Holding /\ pc'[w] \in Holding
      BY <1>3, HoldingKept
    <2>2. lowered' = lowered BY <1>3, WorkerFrame
    <2>3. NumEntries' = NumEntries BY <2>2, IndexKept
    <2>4. \A u \in Workers : u # w => pc'[u] = pc[u] BY <1>3, WorkerMoves
    <2>5. \A u \in Workers : /\ pc'[u] \in Holding <=> pc[u] \in Holding
                             /\ pc'[u] = "exited" => pc[u] = "exited"
      BY <2>1, <2>4
    <2> QED BY <2>1, <2>3, <2>5 DEF ClaimsRight, OneHolder
  <1> QED BY <1>1, <1>2, <1>3, ClaimNext, PushNext, NextSplit

(* When every worker has exited, all entries are in. *)
LEMMA EntriesNext ==
    ASSUME TypeOK, PhasesRight, ClaimsRight, EntriesOnce, [Next]_vars
    PROVE  EntriesOnce'
  <1> USE DEF WorkerPCs, Holding
  <1>1. OneHolder' BY ClaimsNext DEF EntriesOnce, OneHolder
  <1>2. ASSUME phase' = "report" PROVE {r.entry : r \in agg'} = 1 .. NumEntries'
    <2>1. MainStep
      <3>1. ASSUME NEW w \in Workers, Worker(w) \/ Allocate(w) PROVE FALSE
        BY <1>2, <3>1, WorkerFrame
      <3> QED BY <3>1, NextSplit
    <2>2. UNCHANGED <<lowered, agg>> BY <2>1, MainFrame
    <2>3. NumEntries' = NumEntries BY <2>2, IndexKept
    <2>4. phase \in {"oracle", "report"}
      BY <1>2, <2>1 DEF MainStep, LoweringJoined, Aggregate, OracleStep, Report, Finished, OthersTake, scan, vars
    <2>5. \A w \in Workers : pc[w] = "exited" BY <2>4 DEF PhasesRight
    <2>6. \A w \in Workers : entry[w] = 0 BY <2>5 DEF ClaimsRight
    <2>7. NumEntries \in Nat /\ entry_next \in Nat BY NumEntriesNat DEF TypeOK
    <2>8. entry_next > NumEntries BY <2>5, ReachAssumption DEF ClaimsRight
    <2>9. \A e \in 1 .. NumEntries : \E r \in agg : r.entry = e
      <3>1. \A e \in 1 .. NumEntries : e <= entry_next /\ e # 0 BY <2>7, <2>8
      <3> QED BY <2>6, <3>1 DEF ClaimsRight
    <2>10. \A r \in agg : r.entry \in 1 .. NumEntries BY DEF ClaimsRight
    <2> QED BY <2>2, <2>3, <2>9, <2>10
  <1> QED BY <1>1, <1>2 DEF EntriesOnce, OneHolder

-----------------------------------------------------------------------------
(* The traversal: the group is what the entry reaches. *)

(* What an entry's worker has gathered is kept by every step but its own. *)
LEMMA GatherKept ==
    ASSUME TypeOK, PhasesRight, [Next]_vars, NEW u \in Workers,
           pc'[u] \in {"bfs", "verify", "release", "push"}
    PROVE  /\ UNCHANGED lowered /\ entry'[u] = entry[u]
           /\ \/ pc[u] = "start" /\ Start(u)
              \/ pc[u] = "bfs" /\ BfsStep(u)
              \/ /\ seen'[u] = seen[u] /\ work'[u] = work[u]
                 /\ pc[u] \in {"bfs", "verify", "release", "push"}
                 /\ pc'[u] = "bfs" <=> pc[u] = "bfs"
  <1> USE DEF WorkerPCs
  <1>1. /\ entry \in [Workers -> Nat] /\ seen \in [Workers -> SUBSET Files]
        /\ work \in [Workers -> SUBSET Files] /\ pc \in [Workers -> WorkerPCs]
    BY DEF TypeOK
  <1>2. CASE MainStep
    <2>1. UNCHANGED <<lowered, entry, seen, work>> BY <1>2, MainFrame
    <2>2. pc' = pc BY <1>2, MainFrame
    <2> QED BY <2>1, <2>2
  <1>3. ASSUME NEW w \in Workers, Worker(w) \/ Allocate(w), w # u
        PROVE  /\ UNCHANGED lowered /\ entry'[u] = entry[u]
               /\ seen'[u] = seen[u] /\ work'[u] = work[u] /\ pc'[u] = pc[u]
    <2>1. pc'[u] = pc[u] BY <1>3, WorkerMoves
    <2>2. lowered' = lowered
      <3>1. phase # "lower" BY <2>1 DEF PhasesRight
      <3> QED BY <1>3, <3>1, WorkerFrame
    <2>3. CASE LowerFile(w) \/ AwaitMemory(w) \/ SleepLow(w) \/ Release(w)
      BY <2>1, <2>2, <2>3 DEF LowerFile, AwaitMemory, SleepLow, Release, scan, vars, locals
    <2>4. CASE ClaimEntry(w)
      <3>1. UNCHANGED <<seen, work>> /\ (entry' = entry \/ entry' = [entry EXCEPT ![w] = entry_next + 1])
        BY <2>4 DEF ClaimEntry
      <3> QED BY <1>1, <1>3, <2>1, <2>2, <3>1
    <2>5. CASE Start(w)
      <3>1. /\ entry' = entry
            /\ seen' = [seen EXCEPT ![w] = {EntryModule(entry[w])}]
            /\ work' = [work EXCEPT ![w] = {EntryModule(entry[w])}]
        BY <2>5 DEF Start
      <3> QED BY <1>1, <1>3, <2>1, <2>2, <3>1
    <2>6. CASE BfsStep(w)
      <3>1. entry' = entry BY <2>6 DEF BfsStep
      <3>2. \/ UNCHANGED <<seen, work>>
            \/ seen' = seen /\ \E m : work' = [work EXCEPT ![w] = @ \ {m}]
            \/ \E m : /\ seen' = [seen EXCEPT ![w] = @ \cup Callees(m)]
                      /\ work' = [work EXCEPT ![w] = (@ \ {m}) \cup (Callees(m) \ seen[w])]
        BY <2>6 DEF BfsStep
      <3> QED BY <1>1, <1>3, <2>1, <2>2, <3>1, <3>2
    <2>7. CASE FinishVerify(w) \/ Allocate(w)
      BY <2>1, <2>2, <2>7 DEF FinishVerify, Allocate
    <2>8. CASE Push(w)
      <3>1. /\ entry' = [entry EXCEPT ![w] = 0]
            /\ seen' = [seen EXCEPT ![w] = {}] /\ work' = [work EXCEPT ![w] = {}]
        BY <2>8 DEF Push
      <3> QED BY <1>1, <1>3, <2>1, <2>2, <3>1
    <2> QED BY <1>3, <2>3, <2>4, <2>5, <2>6, <2>7, <2>8 DEF Worker
  <1>4. CASE Worker(u) \/ Allocate(u)
    <2>1. ~LowerFile(u) BY <1>4, WorkerMoves
    <2>2. lowered' = lowered BY <1>4, <2>1, WorkerFrame
    <2>3. CASE ClaimEntry(u) \/ AwaitMemory(u) \/ Push(u)
      <3>1. Goto(u, "exited") \/ Goto(u, "gate") \/ Goto(u, "start") \/ Goto(u, "claim")
        BY <2>3 DEF ClaimEntry, AwaitMemory, Push
      <3> QED BY <3>1, GotoIs
    <2>4. CASE SleepLow(u)
      <3>1. pc[u] = "gate" /\ pc' = pc BY <2>4 DEF SleepLow, scan, vars
      <3> QED BY <3>1
    <2>5. CASE Start(u) BY <2>2, <2>5 DEF Start
    <2>6. CASE BfsStep(u) BY <2>2, <2>6 DEF BfsStep
    <2>7. CASE FinishVerify(u) \/ Release(u)
      <3>1. UNCHANGED <<entry, seen, work>> /\ pc[u] \in {"verify", "release"}
        BY <2>7 DEF FinishVerify, Release, locals
      <3>2. Goto(u, "release") \/ Goto(u, "push") BY <2>7 DEF FinishVerify, Release
      <3>3. pc'[u] # "bfs" BY <3>2, GotoIs
      <3> QED BY <2>2, <3>1, <3>3
    <2>8. CASE Allocate(u)
      <3>1. UNCHANGED <<entry, seen, work, pc>> /\ pc[u] = "verify" BY <2>8 DEF Allocate
      <3> QED BY <2>2, <3>1
    <2> QED BY <1>4, <2>1, <2>3, <2>4, <2>5, <2>6, <2>7, <2>8 DEF Worker
  <1> QED BY <1>2, <1>3, <1>4, NextSplit

LEMMA EntryGroupKept ==
    ASSUME lowered' = lowered, NEW u \in Workers, entry'[u] = entry[u]
    PROVE  /\ EntryModule(entry[u])' = EntryModule(entry[u])
           /\ Reached(EntryModule(entry[u]))' = Reached(EntryModule(entry[u]))
  <1>1. PICK e : e = entry[u] OBVIOUS
  <1>2. PICK m : m = EntryModule(e) OBVIOUS
  <1>3. EntryModule(e)' = m /\ Reached(m)' = Reached(m) BY <1>2, IndexKept
  <1>4. entry'[u] = e BY <1>1
  <1>5. EntryModule(entry[u])' = m BY <1>3, <1>4 DEF EntryModule
  <1>6. Reached(EntryModule(entry[u]))' = Reached(m) BY <1>3, <1>5 DEF Reached
  <1> QED BY <1>1, <1>2, <1>5, <1>6

(* A group closed under calls, or as large as the set of modules, is complete. *)
LEMMA GroupComplete ==
    ASSUME TypeOK, NEW m \in lowered, NEW S, m \in S, S \subseteq Reached(m),
           Saturated(S) \/ \A y \in S : Callees(y) \subseteq S
    PROVE  S = Reached(m)
  <1>1. Reached(m) \subseteq lowered BY ReachedIs
  <1>2. CASE \A y \in S : Callees(y) \subseteq S
    <2>1. S \in SUBSET lowered BY <1>1
    <2>2. Reached(m) \subseteq S BY <1>2, <2>1, ReachedIs
    <2> QED BY <2>2
  <1>3. CASE Saturated(S)
    <2>1. S \subseteq lowered /\ IsFiniteSet(lowered) BY <1>1, IndexTypes
    <2>2. Cardinality(S) <= Cardinality(lowered) /\ IsFiniteSet(S) BY <2>1, FS_Subset
    <2>3. Cardinality(S) \in Nat /\ Cardinality(lowered) \in Nat
      BY <2>1, <2>2, FS_CardinalityType
    <2>4. Cardinality(S) = Cardinality(lowered) BY <1>3, <2>2, <2>3 DEF Saturated
    <2>5. S = lowered BY <2>1, <2>4, FS_Subset
    <2> QED BY <1>1, <2>5
  <1> QED BY <1>2, <1>3

LEMMA TraversalNext ==
    ASSUME TypeOK, PhasesRight, ClaimsRight, TraversalRight, [Next]_vars
    PROVE  TraversalRight'
  <1> USE DEF WorkerPCs
  <1> SUFFICES ASSUME NEW u \in Workers, pc'[u] = "bfs"
               PROVE  /\ EntryModule(entry[u])' \in seen'[u] /\ work'[u] \subseteq seen'[u]
                      /\ seen'[u] \subseteq Reached(EntryModule(entry[u]))'
                      /\ \A y \in seen'[u] \ work'[u] : Callees(y)' \subseteq seen'[u]
    BY DEF TraversalRight
  <1>1. lowered' = lowered /\ entry'[u] = entry[u] BY GatherKept
  <1>2. PICK m : m = EntryModule(entry[u]) OBVIOUS
  <1>3. /\ EntryModule(entry[u])' = m /\ Reached(EntryModule(entry[u]))' = Reached(m)
        /\ \A y : Callees(y)' = Callees(y)
    BY <1>1, <1>2, EntryGroupKept, IndexKept
  <1>4. pc[u] \in {"start", "bfs"} BY GatherKept
  <1>5. entry[u] \in 1 .. NumEntries BY <1>4 DEF ClaimsRight, Holding
  <1>6. m \in lowered BY <1>2, <1>5, EntryModuleIs
  <1>7. /\ seen \in [Workers -> SUBSET Files] /\ work \in [Workers -> SUBSET Files]
        /\ pc \in [Workers -> WorkerPCs]
    BY DEF TypeOK
  <1>8. SUFFICES /\ m \in seen'[u] /\ work'[u] \subseteq seen'[u]
                 /\ seen'[u] \subseteq Reached(m)
                 /\ \A y \in seen'[u] \ work'[u] : Callees(y) \subseteq seen'[u]
    BY <1>3
  <1>9. CASE Start(u)
    <2>1. seen'[u] = {m} /\ work'[u] = {m} BY <1>2, <1>7, <1>9 DEF Start
    <2> QED BY <1>6, <2>1, ReachedIs
  <1>10. CASE pc[u] = "bfs" /\ BfsStep(u)
    <2>1. /\ m \in seen[u] /\ work[u] \subseteq seen[u] /\ seen[u] \subseteq Reached(m)
          /\ \A y \in seen[u] \ work[u] : Callees(y) \subseteq seen[u]
      BY <1>2, <1>10 DEF TraversalRight
    <2>2. ~Goto(u, "verify") BY GotoIs
    <2>3. PICK x \in work[u] :
            /\ seen' = [seen EXCEPT ![u] = @ \cup Callees(x)]
            /\ work' = [work EXCEPT ![u] = (@ \ {x}) \cup (Callees(x) \ seen[u])]
      BY <1>10, <2>2 DEF BfsStep
    <2>4. /\ seen'[u] = seen[u] \cup Callees(x)
          /\ work'[u] = (work[u] \ {x}) \cup (Callees(x) \ seen[u])
      BY <1>7, <2>3
    <2>5. Callees(x) \subseteq Reached(m) BY <1>6, <2>1, ReachedIs
    <2>6. \A y \in seen'[u] \ work'[u] : y = x \/ y \in seen[u] \ work[u] BY <2>4
    <2>7. \A y \in seen'[u] \ work'[u] : Callees(y) \subseteq seen'[u] BY <2>1, <2>4, <2>6
    <2> QED BY <2>1, <2>4, <2>5, <2>7
  <1>11. CASE seen'[u] = seen[u] /\ work'[u] = work[u] /\ pc[u] = "bfs"
    BY <1>2, <1>11 DEF TraversalRight
  <1> QED BY <1>9, <1>10, <1>11, GatherKept

LEMMA GroupNext ==
    ASSUME TypeOK, PhasesRight, ClaimsRight, TraversalRight, GroupExact, [Next]_vars
    PROVE  GroupExact'
  <1> USE DEF WorkerPCs
  <1> SUFFICES ASSUME NEW u \in Workers, pc'[u] \in {"verify", "release", "push"}
               PROVE  seen'[u] = Reached(EntryModule(entry[u]))'
    BY DEF GroupExact
  <1>1. lowered' = lowered /\ entry'[u] = entry[u] BY GatherKept
  <1>2. PICK m : m = EntryModule(entry[u]) OBVIOUS
  <1>3. Reached(EntryModule(entry[u]))' = Reached(m) BY <1>1, <1>2, EntryGroupKept
  <1>4. SUFFICES seen'[u] = Reached(m) BY <1>3
  <1>5. CASE Start(u)
    <2>1. Goto(u, "bfs") BY <1>5 DEF Start
    <2> QED BY <2>1, GotoIs
  <1>6. CASE pc[u] = "bfs" /\ BfsStep(u)
    <2>1. /\ m \in seen[u] /\ work[u] \subseteq seen[u] /\ seen[u] \subseteq Reached(m)
          /\ \A y \in seen[u] \ work[u] : Callees(y) \subseteq seen[u]
      BY <1>2, <1>6 DEF TraversalRight
    <2>2. entry[u] \in 1 .. NumEntries BY <1>6 DEF ClaimsRight, Holding
    <2>3. m \in lowered BY <1>2, <2>2, EntryModuleIs
    <2>4. seen' = seen /\ (work[u] = {} \/ Saturated(seen[u])) BY <1>6 DEF BfsStep
    <2>5. Saturated(seen[u]) \/ \A y \in seen[u] : Callees(y) \subseteq seen[u] BY <2>1, <2>4
    <2>6. seen[u] = Reached(m) BY <2>1, <2>3, <2>5, GroupComplete
    <2> QED BY <2>4, <2>6
  <1>7. CASE seen'[u] = seen[u] /\ pc[u] \in {"bfs", "verify", "release", "push"} /\ pc[u] # "bfs"
    BY <1>2, <1>7 DEF GroupExact
  <1> QED BY <1>5, <1>6, <1>7, GatherKept

LEMMA ResultsNext ==
    ASSUME TypeOK, PhasesRight, GroupExact, ResultsRight, [Next]_vars
    PROVE  ResultsRight'
  <1>1. CASE agg' = {} BY <1>1 DEF ResultsRight
  <1>2. CASE agg' = agg /\ lowered' = lowered BY <1>2, IndexKept DEF ResultsRight
  <1>3. CASE MainStep BY <1>2, <1>3, MainFrame
  <1>4. ASSUME NEW w \in Workers, LowerFile(w) PROVE ResultsRight'
    BY <1>1, <1>4 DEF LowerFile, PhasesRight
  <1>5. ASSUME NEW w \in Workers, Push(w) PROVE ResultsRight'
    <2>1. lowered' = lowered /\ pc[w] = "push" BY <1>5 DEF Push
    <2>2. PICK n : n = [entry |-> entry[w], group |-> seen[w]] OBVIOUS
    <2>3. agg' = agg \cup {n} BY <1>5, <2>2 DEF Push
    <2>4. n.group = Reached(EntryModule(n.entry)) BY <2>1, <2>2 DEF GroupExact
    <2>5. \A r \in agg' : r.group = Reached(EntryModule(r.entry)) BY <2>3, <2>4 DEF ResultsRight
    <2> QED BY <2>1, <2>5, IndexKept DEF ResultsRight
  <1>6. ASSUME NEW w \in Workers, Worker(w) \/ Allocate(w), ~LowerFile(w), ~Push(w)
        PROVE  ResultsRight'
    <2>1. lowered' = lowered BY <1>6, WorkerFrame
    <2>2. agg' = agg
      <3>1. CASE ClaimEntry(w) BY <3>1 DEF ClaimEntry
      <3> QED BY <1>6, <3>1, HoldingKept
    <2> QED BY <1>2, <2>1, <2>2
  <1> QED BY <1>3, <1>4, <1>5, <1>6, NextSplit

-----------------------------------------------------------------------------
(* The oracle. *)

LEMMA OracleNext ==
    ASSUME TypeOK, PhasesRight, OracleRight, [Next]_vars
    PROVE  OracleRight'
  <1>1. ASSUME NEW w \in Workers, Worker(w) \/ Allocate(w) PROVE OracleRight'
    BY <1>1, WorkerFrame DEF OracleRight
  <1>2. CASE LoweringJoined BY <1>2 DEF LoweringJoined, OracleRight
  <1>3. CASE Aggregate
    <2>1. /\ lowered' = lowered
          /\ reach' = EntryModules \cup SpawnedModules /\ reach_work' = reach'
      BY <1>3 DEF Aggregate
    <2>2. EntryModules' = EntryModules BY <2>1, IndexKept
    <2>3. reach' \subseteq lowered BY <2>1, IndexTypes, SpawnedIn
    <2> QED BY <2>1, <2>2, <2>3 DEF OracleRight
  <1>4. CASE OracleStep
    <2>1. phase = "oracle" /\ lowered' = lowered BY <1>4 DEF OracleStep
    <2>2. EntryModules' = EntryModules /\ \A y : Callees(y)' = Callees(y) BY <2>1, IndexKept
    <2>3. PICK m \in reach_work : /\ reach' = reach \cup Callees(m)
                                  /\ reach_work' = (reach_work \ {m}) \cup (Callees(m) \ reach)
      BY <1>4 DEF OracleStep
    <2>4. /\ EntryModules \subseteq reach /\ reach_work \subseteq reach /\ reach \subseteq lowered
          /\ \A y \in reach \ reach_work : Callees(y) \subseteq reach
      BY <2>1 DEF OracleRight
    <2>5. Callees(m) \subseteq lowered BY CalleesIn
    <2>6. EntryModules \subseteq reach' /\ reach_work' \subseteq reach' /\ reach' \subseteq lowered
      BY <2>3, <2>4, <2>5
    <2>7. \A y \in reach' \ reach_work' : y = m \/ y \in reach \ reach_work BY <2>3
    <2>8. \A y \in reach' \ reach_work' : Callees(y) \subseteq reach' BY <2>3, <2>4, <2>7
    <2> QED BY <2>1, <2>2, <2>6, <2>8 DEF OracleRight
  <1>5. CASE Report BY <1>5 DEF Report, OracleRight
  <1>6. CASE Finished BY <1>6 DEF Finished, OthersTake, scan, vars, OracleRight
  <1>7. CASE OthersTake \/ UNCHANGED vars
    <2>1. UNCHANGED <<phase, lowered, reach, reach_work>> BY <1>7 DEF OthersTake, scan, vars, oracle
    <2>2. EntryModules' = EntryModules /\ \A y : Callees(y)' = Callees(y) BY <2>1, IndexKept
    <2> QED BY <2>1, <2>2 DEF OracleRight
  <1> QED BY <1>1, <1>2, <1>3, <1>4, <1>5, <1>6, <1>7 DEF Next

(* The oracle's modules are closed under calls and hold every entry's: they hold
   what every entry reaches, whatever the threads it starts are named. *)
LEMMA CoversNext ==
    ASSUME TypeOK, PhasesRight, ClaimsRight, ResultsRight, OracleRight, OracleCoversAnalysed,
           [Next]_vars
    PROVE  OracleCoversAnalysed'
  <1>1. CASE Report
    <2>1. phase = "oracle" /\ reach_work = {} /\ UNCHANGED <<lowered, agg>>
      BY <1>1 DEF Report
    <2>2. concurrent' = {g.name : g \in {g \in Present : g.mod \in reach}}
      BY <1>1 DEF Report
    <2>3. Present' = Present BY <2>1, IndexKept
    <2>4. /\ EntryModules \subseteq reach /\ reach \in SUBSET lowered
          /\ \A y \in reach : Callees(y) \subseteq reach
      BY <2>1 DEF OracleRight
    <2>5. ASSUME NEW r \in agg PROVE r.group \subseteq reach
      <3>1. r.entry \in 1 .. NumEntries BY DEF ClaimsRight
      <3>2. PICK m : m = EntryModule(r.entry) OBVIOUS
      <3>3. m \in EntryModules /\ m \in lowered BY <3>1, <3>2, EntryModuleIs
      <3>4. Reached(m) \subseteq reach BY <2>4, <3>3, ReachedIs
      <3> QED BY <3>2, <3>4 DEF ResultsRight
    <2>6. \A r \in agg : {g.name : g \in {g \in Present : g.mod \in r.group}} \subseteq concurrent'
      BY <2>2, <2>5
    <2> QED BY <2>1, <2>3, <2>6 DEF OracleCoversAnalysed
  <1>2. CASE Finished \/ OthersTake \/ UNCHANGED vars
    <2>1. UNCHANGED <<phase, lowered, agg, concurrent>> BY <1>2 DEF Finished, OthersTake, scan, vars, oracle
    <2>2. Present' = Present BY <2>1, IndexKept
    <2> QED BY <2>1, <2>2 DEF OracleCoversAnalysed
  <1>3. CASE LoweringJoined \/ Aggregate \/ OracleStep
    BY <1>3 DEF LoweringJoined, Aggregate, OracleStep, OracleCoversAnalysed
  <1>4. ASSUME NEW w \in Workers, Worker(w) \/ Allocate(w) PROVE OracleCoversAnalysed'
    BY <1>4, WorkerFrame DEF OracleCoversAnalysed
  <1> QED BY <1>1, <1>2, <1>3, <1>4 DEF Next

-----------------------------------------------------------------------------
(* The theorems. *)

LEMMA InitHolds ==
    ASSUME Init
    PROVE  IInv
  <1> USE DEF Init, WorkerPCs
  <1>1. TypeOK BY ReachAssumption DEF TypeOK
  <1>2. ActiveExact
    <2>1. InFlight = {} BY DEF InFlight
    <2> QED BY <2>1, FS_EmptySet DEF ActiveExact
  <1>3. PhasesRight BY DEF PhasesRight
  <1>4. ClaimsRight
    <2>1. \A e \in 1 .. NumEntries : ~(e <= entry_next) BY NumEntriesNat
    <2> QED BY <2>1 DEF ClaimsRight, Holding
  <1>5. ResultsRight /\ TraversalRight /\ OracleRight
    BY DEF ResultsRight, TraversalRight, OracleRight
  <1>6. GroupExact /\ EntriesOnce /\ OracleCoversAnalysed
    BY DEF GroupExact, EntriesOnce, OracleCoversAnalysed
  <1> QED BY <1>1, <1>2, <1>3, <1>4, <1>5, <1>6 DEF IInv, GroupsRight

LEMMA NextKeeps ==
    ASSUME IInv, [Next]_vars
    PROVE  IInv'
  <1> USE DEF IInv, GroupsRight
  <1>1. TypeOK' BY TypesNext
  <1>2. ActiveExact' BY ActiveNext
  <1>3. PhasesRight' BY PhasesNext
  <1>4. OneHolder BY DEF EntriesOnce, OneHolder
  <1>5. ClaimsRight' BY <1>4, ClaimsNext
  <1>6. ResultsRight' BY ResultsNext
  <1>7. TraversalRight' BY TraversalNext
  <1>8. OracleRight' BY OracleNext
  <1>9. GroupExact' BY GroupNext
  <1>10. EntriesOnce' BY EntriesNext
  <1>11. OracleCoversAnalysed' BY CoversNext
  <1> QED BY <1>1, <1>2, <1>3, <1>5, <1>6, <1>7, <1>8, <1>9, <1>10, <1>11

(* The inductive invariant of the scan: control, claims, results, traversal and
   oracle together. *)
THEOREM ReachInvariant == Spec => []IInv
  <1>1. Init => IInv BY InitHolds
  <1>2. IInv /\ [Next]_vars => IInv' BY NextKeeps
  <1> QED BY <1>1, <1>2, PTL DEF Spec

(* Every variable keeps its type, for any tree of files and number of workers; in
   particular entry_active never falls below zero. *)
THEOREM ReachTypes == Spec => []TypeOK
  <1>1. IInv => TypeOK BY DEF IInv
  <1> QED BY <1>1, ReachInvariant, PTL

(* The counter the memory gate reads is the number of analyses that run. *)
THEOREM ReachActiveExact == Spec => []ActiveExact
  <1>1. IInv => ActiveExact BY DEF IInv
  <1> QED BY <1>1, ReachInvariant, PTL

(* scan_reachable verifies every entry once, with exactly the modules it reaches in
   the call graph although the traversal may stop early, and the concurrency oracle
   keeps every function of every group, also where static names collide. *)
THEOREM ReachGroupsRight == Spec => []GroupsRight
  <1>1. IInv => GroupsRight BY DEF IInv
  <1> QED BY <1>1, ReachInvariant, PTL
=============================================================================
