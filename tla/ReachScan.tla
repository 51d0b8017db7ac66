------------------------------ MODULE ReachScan ------------------------------
(***************************************************************************)
(* The reachability scan of crates/cli (scan_reachable): files are lowered *)
(* by worker threads; then, for each attacker entry, a worker waits for    *)
(* memory, gathers the modules the entry can reach through the call graph, *)
(* links and verifies them; the main thread aggregates the results and     *)
(* computes which functions can run concurrently.                          *)
(*                                                                         *)
(* A module is the file it was lowered from; a function is its module, its *)
(* name and whether other modules see it.  Verification is data: it takes  *)
(* memory while it runs and yields one result for its entry.               *)
(***************************************************************************)
EXTENDS Integers, FiniteSets

CONSTANTS
    NumFiles,     \* files 1 .. NumFiles in sorted order
    Unlowerable,  \* files that cannot be read or lowered
    Workers,
    Functions,    \* set of [mod, name, external]
    Calls,        \* Calls[f]: names called directly in file f
    Spawns,       \* Spawns[f]: names file f starts as threads
    EntryNames,   \* names the entry patterns match
    TotalMb, FloorMb, ReserveMb,   \* the machine, MEM_FLOOR_MB, the per-file reserve
    UseMb         \* the most one analysis takes

Files == 1 .. NumFiles

ASSUME ReachAssumption ==
    /\ NumFiles \in Nat /\ Unlowerable \subseteq Files
    /\ IsFiniteSet(Functions) /\ \A g \in Functions : g.mod \in Files
    /\ IsFiniteSet(Workers) /\ Workers # {}
    /\ {TotalMb, FloorMb, ReserveMb, UseMb} \subseteq Nat

VARIABLES
    next, lowered,            \* the lowering pass
    phase,
    entry_next, active, agg,  \* shared by the entry workers; agg: entries with a result
    pc, entry, seen, work,    \* each worker's control state and locals
    mem,                      \* what each worker's analysis has allocated so far
    reach, reach_work,        \* the oracle's reach and work
    concurrent,               \* concurrent_fns
    others                    \* the memory other processes have taken

locals == <<entry, seen, work, mem>>
oracle == <<reach, reach_work, concurrent>>
scan == <<next, lowered, phase, entry_next, active, agg, pc, locals, oracle>>
vars == <<scan, others>>

Init ==
    /\ next = 0 /\ lowered = {} /\ phase = "lower"
    /\ entry_next = 0 /\ active = 0 /\ agg = {}
    /\ pc = [w \in Workers |-> "lower"]
    /\ entry = [w \in Workers |-> 0]
    /\ seen = [w \in Workers |-> {}] /\ work = [w \in Workers |-> {}]
    /\ mem = [w \in Workers |-> 0]
    /\ reach = {} /\ reach_work = {} /\ concurrent = {}
    /\ others \in 0 .. TotalMb

Goto(w, l) == pc' = [pc EXCEPT ![w] = l]

-----------------------------------------------------------------------------
(* Lowering: one file per claim; a file that fails is dropped silently. *)

LowerFile(w) ==
    /\ pc[w] = "lower"
    /\ next' = next + 1
    /\ IF next + 1 > NumFiles
       THEN Goto(w, "joined") /\ UNCHANGED lowered
       ELSE /\ lowered' = lowered \cup ({next + 1} \ Unlowerable)
            /\ UNCHANGED pc
    /\ UNCHANGED <<phase, entry_next, active, agg, locals, oracle, others>>

(* The index over what was lowered: the first module, in file order, that
   defines an external name; the modules a module calls into; the entries. *)
Lowest(S) == CHOOSE m \in S : \A x \in S : m <= x
Highest(S) == CHOOSE m \in S : \A x \in S : m >= x
Present == {g \in Functions : g.mod \in lowered}
Definers(n) == {g.mod : g \in {g \in Present : g.external /\ g.name = n}}

Callees(m) == {Lowest(Definers(n)) : n \in {n \in Calls[m] : Definers(n) # {}}}

(* entry_fns: every function a pattern matches, module by module. *)
EntryModules == {g.mod : g \in {g \in Present : g.name \in EntryNames}}
NumEntries == Cardinality({g \in Present : g.name \in EntryNames})
EntryModule(e) ==
    CHOOSE m \in EntryModules :
        LET upto(k) == Cardinality({g \in Present : g.name \in EntryNames /\ g.mod <= k})
        IN  upto(m - 1) < e /\ e <= upto(m)

LoweringJoined ==
    /\ phase = "lower" /\ \A w \in Workers : pc[w] = "joined"
    /\ phase' = "entries"
    /\ pc' = [w \in Workers |-> "claim"]
    /\ UNCHANGED <<next, lowered, entry_next, active, agg, locals, oracle, others>>

-----------------------------------------------------------------------------
(* The entry workers. *)

EntriesOver(e) == e > NumEntries

ClaimEntry(w) ==
    /\ pc[w] = "claim"
    /\ entry_next' = entry_next + 1
    /\ IF EntriesOver(entry_next + 1)
       THEN Goto(w, "exited") /\ UNCHANGED entry
       ELSE Goto(w, "gate") /\ entry' = [entry EXCEPT ![w] = entry_next + 1]
    /\ UNCHANGED <<next, lowered, phase, active, agg, seen, work, mem, oracle, others>>

(* available_mb: what no analysis and no other process has taken. *)
Used == LET S[T \in SUBSET Workers] ==
              IF T = {} THEN 0
              ELSE LET x == CHOOSE x \in T : TRUE IN mem[x] + S[T \ {x}]
        IN  S[Workers]
AvailableMb == IF Used + others >= TotalMb THEN 0 ELSE TotalMb - Used - others

(* await_memory lets a start through. *)
MutGateOpen == AvailableMb >= FloorMb + active * ReserveMb
GateOpen == active = 0 \/ AvailableMb >= FloorMb + active * ReserveMb

AwaitMemory(w) ==
    /\ pc[w] = "gate" /\ GateOpen
    /\ Goto(w, "start")
    /\ UNCHANGED <<next, lowered, phase, entry_next, active, agg, locals, oracle, others>>

(* The polling sleep. *)
SleepLow(w) == pc[w] = "gate" /\ ~GateOpen /\ UNCHANGED vars

(* entry_active.fetch_add, and the seed of the traversal. *)
Start(w) ==
    /\ pc[w] = "start"
    /\ active' = active + 1
    /\ seen' = [seen EXCEPT ![w] = {EntryModule(entry[w])}]
    /\ work' = [work EXCEPT ![w] = {EntryModule(entry[w])}]
    /\ Goto(w, "bfs")
    /\ UNCHANGED <<next, lowered, phase, entry_next, agg, entry, mem, oracle, others>>

(* One turn of the traversal: any module of the work list (its order is that of
   hash sets).  It stops early once every module has been seen. *)
MutSaturatedCap(S) == Cardinality(S) >= 2
Saturated(S) == Cardinality(S) >= Cardinality(lowered)

BfsStep(w) ==
    /\ pc[w] = "bfs"
    /\ \/ /\ work[w] = {}
          /\ Goto(w, "verify") /\ UNCHANGED <<seen, work>>
       \/ /\ work[w] # {} /\ Saturated(seen[w])
          /\ \E m \in work[w] : work' = [work EXCEPT ![w] = @ \ {m}]
          /\ Goto(w, "verify") /\ UNCHANGED seen
       \/ /\ ~Saturated(seen[w])
          /\ \E m \in work[w] :
               /\ seen' = [seen EXCEPT ![w] = @ \cup Callees(m)]
               /\ work' = [work EXCEPT ![w] = (@ \ {m}) \cup (Callees(m) \ seen[w])]
          /\ UNCHANGED pc
    /\ UNCHANGED <<next, lowered, phase, entry_next, active, agg, entry, mem, oracle, others>>

(* merge_modules and scan_linked_module: the analysis allocates as it runs. *)
Allocate(w) ==
    /\ pc[w] = "verify" /\ mem[w] < UseMb
    /\ mem' = [mem EXCEPT ![w] = @ + 1]
    /\ UNCHANGED <<next, lowered, phase, entry_next, active, agg, pc, entry, seen, work, oracle, others>>

FinishVerify(w) ==
    /\ pc[w] = "verify"
    /\ mem' = [mem EXCEPT ![w] = 0]
    /\ Goto(w, "release")
    /\ UNCHANGED <<next, lowered, phase, entry_next, active, agg, entry, seen, work, oracle, others>>

(* The rest of the machine takes and frees memory at any time. *)
OthersTake == others' \in 0 .. TotalMb /\ UNCHANGED scan

Released == active - 1

Release(w) ==
    /\ pc[w] = "release"
    /\ active' = Released
    /\ Goto(w, "push")
    /\ UNCHANGED <<next, lowered, phase, entry_next, agg, locals, oracle, others>>

(* agg.push(fs): the result carries the modules it was computed over. *)
Push(w) ==
    /\ pc[w] = "push"
    /\ agg' = agg \cup {[entry |-> entry[w], group |-> seen[w]]}
    /\ entry' = [entry EXCEPT ![w] = 0]
    /\ seen' = [seen EXCEPT ![w] = {}] /\ work' = [work EXCEPT ![w] = {}]
    /\ Goto(w, "claim")
    /\ UNCHANGED <<next, lowered, phase, entry_next, active, mem, oracle, others>>

-----------------------------------------------------------------------------
(* The concurrency oracle, from the aggregated traces. *)

(* name_to_module: later modules overwrite earlier ones, static names too. *)
ModuleOfName(n) == Highest({g.mod : g \in {g \in Present : g.name = n}})

SpawnedNames == UNION {Spawns[m] : m \in UNION {r.group : r \in agg}}
SpawnedModules ==
    {ModuleOfName(n) : n \in {n \in SpawnedNames : \E g \in Present : g.name = n}}

(* The modules of the entries and of the threads they start, then what these call. *)
Aggregate ==
    /\ phase = "entries" /\ \A w \in Workers : pc[w] = "exited"
    /\ phase' = "oracle"
    /\ reach' = EntryModules \cup SpawnedModules
    /\ reach_work' = EntryModules \cup SpawnedModules
    /\ UNCHANGED <<next, lowered, entry_next, active, agg, pc, locals, concurrent, others>>

OracleStep ==
    /\ phase = "oracle"
    /\ \E m \in reach_work :
         /\ reach' = reach \cup Callees(m)
         /\ reach_work' = (reach_work \ {m}) \cup (Callees(m) \ reach)
    /\ UNCHANGED <<next, lowered, phase, entry_next, active, agg, pc, locals, concurrent, others>>

Report ==
    /\ phase = "oracle" /\ reach_work = {}
    /\ phase' = "report"
    /\ concurrent' = {g.name : g \in {g \in Present : g.mod \in reach}}
    /\ UNCHANGED <<next, lowered, entry_next, active, agg, pc, locals, reach, reach_work, others>>

Finished == phase = "report" /\ UNCHANGED vars

Worker(w) ==
    \/ LowerFile(w) \/ ClaimEntry(w) \/ AwaitMemory(w) \/ SleepLow(w) \/ Start(w)
    \/ BfsStep(w) \/ FinishVerify(w) \/ Release(w) \/ Push(w)

Next ==
    \/ \E w \in Workers : Worker(w) \/ Allocate(w)
    \/ LoweringJoined \/ Aggregate \/ OracleStep \/ Report \/ Finished \/ OthersTake

(* The operating system schedules every thread, and an analysis ends. *)
Spec == /\ Init /\ [][Next]_vars
        /\ \A w \in Workers : WF_vars(Worker(w))
        /\ WF_vars(LoweringJoined \/ Aggregate \/ OracleStep \/ Report)

-----------------------------------------------------------------------------
(* Properties. *)

WorkerPCs == {"lower", "joined", "claim", "gate", "start", "bfs", "verify", "release",
              "push", "exited"}

(* Every variable keeps its type. *)
TypeOK ==
    /\ next \in Nat /\ lowered \subseteq Files
    /\ phase \in {"lower", "entries", "oracle", "report"}
    /\ entry_next \in Nat /\ active \in Nat
    /\ agg \subseteq [entry : Nat, group : SUBSET Files]
    /\ pc \in [Workers -> WorkerPCs]
    /\ entry \in [Workers -> Nat]
    /\ seen \in [Workers -> SUBSET Files] /\ work \in [Workers -> SUBSET Files]
    /\ mem \in [Workers -> 0 .. UseMb]
    /\ reach \subseteq Files /\ reach_work \subseteq Files
    /\ concurrent \subseteq {g.name : g \in Functions}
    /\ others \in 0 .. TotalMb

(* What a module reaches in the call graph: the reference, as what lies in every
   set that holds the module and is closed under calls. *)
Reached(m) ==
    {x \in lowered : \A S \in SUBSET lowered :
        (m \in S /\ \A y \in S : Callees(y) \subseteq S) => x \in S}

(* The group an entry is verified with is every module it can reach, no more,
   although the traversal may stop with its work list not empty. *)
GroupExact ==
    \A w \in Workers : pc[w] \in {"verify", "release", "push"} =>
        seen[w] = Reached(EntryModule(entry[w]))

(* Some analysis may always run: the scan ends however little memory there is, also
   when other processes keep it below the floor for ever. *)
ScanEnds == <>(phase = "report")

(* The detectors skip every function outside the oracle's set.  No function that
   was analysed, in whichever group, is outside it, so no recorded access is lost
   to the pruning, also when static names collide. *)
OracleCoversAnalysed ==
    phase = "report" =>
        \A r \in agg : {g.name : g \in {g \in Present : g.mod \in r.group}} \subseteq concurrent

(* Every entry gets one result: no two workers hold the same entry, none is claimed
   again once its result is in, and none is left out of the report. *)
EntriesOnce ==
    /\ \A u, w \in Workers : u # w /\ entry[u] # 0 => entry[u] # entry[w]
    /\ \A r \in agg : \A w \in Workers : entry[w] # r.entry
    /\ \A r, t \in agg : r.entry = t.entry => r = t
    /\ phase = "report" => {r.entry : r \in agg} = 1 .. NumEntries

(* An entry's group is exactly what it reaches, every entry has one result, and the
   oracle covers all groups. *)
GroupsRight == GroupExact /\ EntriesOnce /\ OracleCoversAnalysed

=============================================================================
