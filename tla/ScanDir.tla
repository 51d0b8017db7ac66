------------------------------- MODULE ScanDir -------------------------------
(***************************************************************************)
(* The directory scan of crates/cli (scan_dir): worker threads steal units *)
(* from a shared counter, reserve memory against a budget, verify a unit   *)
(* (byte-identical units once), and fold its result into one aggregate     *)
(* that is checkpointed from time to time; units that ran into the time    *)
(* budget are deferred and re-scanned serially at the end.  The process    *)
(* may be killed and restarted at any point and resumes from the           *)
(* checkpoint file; a worker may panic inside the analysis.                *)
(*                                                                         *)
(* One action is one atomic operation on shared state.  What verification  *)
(* computes is data: a content has a fixed set of findings, and may or may *)
(* not exhaust its time budget.                                            *)
(***************************************************************************)
EXTENDS Integers, FiniteSets, Functions

CONSTANTS
    NumUnits,     \* units 1 .. NumUnits in file order
    Workers,      \* worker threads of the scope
    Content,      \* Content[u]: the bytes of unit u
    Unreadable,   \* units whose files cannot be read
    Slow,         \* contents that may exhaust the time budget
    Finds,        \* Finds[c]: keys of the findings in content c
    Keys,         \* every finding key
    Cost,         \* unit_cost_mb of each unit
    BudgetMb,     \* mem_budget_mb
    CkptEvery,    \* the 50 of d.is_multiple_of(50)
    MaxCrashes,   \* bound on kills of the process
    MaxPanics     \* bound on panics inside the analysis

Units == 1 .. NumUnits
Contents == {Content[u] : u \in Units}

ASSUME UnitsAssumption == NumUnits \in Nat
ASSUME ScanAssumption ==
    /\ IsFiniteSet(Workers) /\ Workers # {}
    /\ Unreadable \subseteq Units
    /\ \A u \in Units : Cost[u] \in Nat \ {0}
    /\ \A u \in Units : Finds[Content[u]] \subseteq Keys
    /\ BudgetMb \in Nat /\ CkptEvery \in Nat \ {0}
    /\ MaxCrashes \in Nat /\ MaxPanics \in Nat

VARIABLES
    next, done, reserved,     \* the scan's atomics
    content_seen, streamed,   \* the two shared sets (streamed is seen_find)
    deferred, agg,            \* the mutex-protected results
    pc, unit, loaded, fs, d,  \* each worker's control state and locals
    phase, rescan,            \* the main thread: where it is, what phase 2 has left
    resume_done, ckpt,        \* the resume set and the checkpoint file
    crashes, panics

shared == <<next, done, reserved, content_seen, streamed, deferred, agg>>
local  == <<pc, unit, loaded, fs, d>>
main   == <<phase, rescan, resume_done, ckpt>>
faults == <<crashes, panics>>
vars   == <<shared, local, main, faults>>

(* What the properties tell apart of a FileScan: whether it carries a result of
   its own (counts or an error), its findings, and whether it was cut short. *)
FileScan == [own : BOOLEAN, finds : SUBSET Keys, truncated : BOOLEAN]
EmptyScan == [own |-> FALSE, finds |-> {}, truncated |-> FALSE]
ErrorScan == [own |-> TRUE, finds |-> {}, truncated |-> FALSE]
FullScan(u, t) == [own |-> TRUE, finds |-> Finds[Content[u]], truncated |-> t]

(* Agg: labels folded in, how often each unit's result was added to the totals,
   and for each finding key the unit it is reported under (0: not found). *)
Agg == [done : SUBSET Units, counted : [Units -> Nat], findings : [Keys -> 0 .. NumUnits]]
EmptyAgg == [done |-> {}, counted |-> [u \in Units |-> 0], findings |-> [k \in Keys |-> 0]]

MutFoldFirstOnly(a, u, f) ==
    [done     |-> a.done \cup {u},
     counted  |-> [a.counted EXCEPT ![u] = @ + (IF f.own THEN 1 ELSE 0)],
     findings |-> [k \in Keys |-> IF (\A x \in Keys : a.findings[x] = 0) /\ k \in f.finds
                                  THEN u ELSE a.findings[k]]]
Fold(a, u, f) ==
    [done     |-> a.done \cup {u},
     counted  |-> [a.counted EXCEPT ![u] = @ + (IF f.own THEN 1 ELSE 0)],
     findings |-> [k \in Keys |-> IF a.findings[k] = 0 /\ k \in f.finds
                                  THEN u ELSE a.findings[k]]]

AllWorkers(x) == [w \in Workers |-> x]

(* A first start: no checkpoint file, so read_checkpoint yields nothing. *)
Init ==
    /\ next = 0 /\ done = 0 /\ reserved = 0
    /\ content_seen = {} /\ streamed = {} /\ deferred = {}
    /\ agg = EmptyAgg
    /\ pc = AllWorkers("claim") /\ unit = AllWorkers(0) /\ loaded = AllWorkers(0)
    /\ fs = AllWorkers(EmptyScan) /\ d = AllWorkers(0)
    /\ phase = "workers" /\ rescan = {}
    /\ resume_done = {} /\ ckpt = EmptyAgg
    /\ crashes = 0 /\ panics = 0

Goto(w, l) == pc' = [pc EXCEPT ![w] = l]

-----------------------------------------------------------------------------
(* The worker loop. *)

(* i >= total_units, with 1-based units *)
MutExhaustedLate(i) == i > NumUnits + 1
Exhausted(i) == i > NumUnits

(* A unit finished in a run this one resumes is skipped. *)
MutResumedNever(i) == FALSE
Resumed(i) == i \in resume_done

(* await_unpause is left out: it only delays. *)
Claim(w) ==
    /\ pc[w] = "claim"
    /\ next' = next + 1
    /\ IF Exhausted(next + 1)
       THEN Goto(w, "exited") /\ UNCHANGED unit
       ELSE IF Resumed(next + 1)
            THEN UNCHANGED <<pc, unit>>
            ELSE Goto(w, "reserve") /\ unit' = [unit EXCEPT ![w] = next + 1]
    /\ UNCHANGED <<done, reserved, content_seen, streamed, deferred, agg, loaded, fs, d,
                   main, faults>>

(* reserve_budget: load, then either sleep and load again or try the exchange. *)
MutFitsNeverAlone(r, w) == r + Cost[unit[w]] <= BudgetMb
Fits(r, w) == r = 0 \/ r + Cost[unit[w]] <= BudgetMb

LoadReserved(w) ==
    /\ pc[w] = "reserve" /\ Fits(reserved, w)
    /\ loaded' = [loaded EXCEPT ![w] = reserved]
    /\ Goto(w, "exchange")
    /\ UNCHANGED <<shared, unit, fs, d, main, faults>>

(* The polling sleep: the worker looks again later. *)
SleepFull(w) == pc[w] = "reserve" /\ ~Fits(reserved, w) /\ UNCHANGED vars

(* compare_exchange succeeds iff nobody changed the counter since the load. *)
MutExchangeBlind(w) == TRUE
ExchangeSucceeds(w) == reserved = loaded[w]

Exchange(w) ==
    /\ pc[w] = "exchange"
    /\ IF ExchangeSucceeds(w)
       THEN Goto(w, "scan") /\ reserved' = loaded[w] + Cost[unit[w]]
       ELSE Goto(w, "reserve") /\ UNCHANGED reserved
    /\ loaded' = [loaded EXCEPT ![w] = 0]
    /\ UNCHANGED <<next, done, content_seen, streamed, deferred, agg, unit, fs, d,
                   main, faults>>

(* content_seen.insert(hash) returns false *)
MutSeenNever(u) == FALSE
SeenBefore(u) == Content[u] \in content_seen

(* scan_one_unit up to the content_seen test: one critical section. *)
Dedup(w) ==
    /\ pc[w] = "scan"
    /\ LET u == unit[w]
       IN  IF u \in Unreadable
           THEN /\ fs' = [fs EXCEPT ![w] = ErrorScan]
                /\ Goto(w, "release") /\ UNCHANGED content_seen
           ELSE IF SeenBefore(u)
           THEN /\ fs' = [fs EXCEPT ![w] = EmptyScan]
                /\ Goto(w, "release") /\ UNCHANGED content_seen
           ELSE /\ content_seen' = content_seen \cup {Content[u]}
                /\ Goto(w, "verify") /\ UNCHANGED fs
    /\ UNCHANGED <<next, done, reserved, streamed, deferred, agg, unit, loaded, d,
                   main, faults>>

(* scan_one_unit, the rest: lowering, verification and the tally. *)
VerifyUnit(w) ==
    /\ pc[w] = "verify"
    /\ \E t \in BOOLEAN :
         /\ t => Content[unit[w]] \in Slow
         /\ fs' = [fs EXCEPT ![w] = FullScan(unit[w], t)]
    /\ Goto(w, "release")
    /\ UNCHANGED <<shared, unit, loaded, d, main, faults>>

(* A panic in the analysis ends the thread: nothing after it in the loop runs. *)
Panic(w) ==
    /\ pc[w] = "verify" /\ panics < MaxPanics
    /\ panics' = panics + 1
    /\ Goto(w, "panicked")
    /\ UNCHANGED <<shared, unit, loaded, fs, d, main, crashes>>

Release(w) ==
    /\ pc[w] = "release"
    /\ reserved' = reserved - Cost[unit[w]]
    /\ Goto(w, "count")
    /\ UNCHANGED <<next, done, content_seen, streamed, deferred, agg, unit, loaded, fs, d,
                   main, faults>>

CountDone(w) ==
    /\ pc[w] = "count"
    /\ done' = done + 1
    /\ d' = [d EXCEPT ![w] = done + 1]
    /\ Goto(w, IF fs[w].truncated THEN "defer" ELSE "stream")
    /\ UNCHANGED <<next, reserved, content_seen, streamed, deferred, agg, unit, loaded, fs,
                   main, faults>>

(* Back to the top of the loop, with its locals gone. *)
EndIteration(w) ==
    /\ Goto(w, "claim")
    /\ unit' = [unit EXCEPT ![w] = 0]
    /\ fs' = [fs EXCEPT ![w] = EmptyScan]
    /\ d' = [d EXCEPT ![w] = 0]

Defer(w) ==
    /\ pc[w] = "defer"
    /\ deferred' = deferred \cup {unit[w]}
    /\ EndIteration(w)
    /\ UNCHANGED <<next, done, reserved, content_seen, streamed, agg, loaded, main, faults>>

(* stream_findings: each key is printed by whoever inserts it first. *)
StreamFindings(w) ==
    /\ pc[w] = "stream"
    /\ streamed' = streamed \cup fs[w].finds
    /\ Goto(w, "fold")
    /\ UNCHANGED <<next, done, reserved, content_seen, deferred, agg, unit, loaded, fs, d,
                   main, faults>>

(* Under the aggregate's lock: fold, then write the checkpoint if it is due by
   count, or by the clock, which may say so at any time.  The write becomes
   visible with its rename; a kill before that is a kill before this step. *)
FoldUnit(w) ==
    /\ pc[w] = "fold"
    /\ agg' = Fold(agg, unit[w], fs[w])
    /\ \E due_by_time \in BOOLEAN :
         ckpt' = IF d[w] % CkptEvery = 0 \/ due_by_time THEN agg' ELSE ckpt
    /\ EndIteration(w)
    /\ UNCHANGED <<next, done, reserved, content_seen, streamed, deferred, loaded,
                   phase, rescan, resume_done, faults>>

-----------------------------------------------------------------------------
(* The main thread. *)

(* The scope joins every worker; it re-raises a worker's panic. *)
Join ==
    /\ phase = "workers"
    /\ \A w \in Workers : pc[w] \in {"exited", "panicked"}
    /\ IF \E w \in Workers : pc[w] = "panicked"
       THEN phase' = "aborted" /\ UNCHANGED rescan
       ELSE phase' = "deferred" /\ rescan' = deferred
    /\ UNCHANGED <<shared, local, resume_done, ckpt, faults>>

(* Phase 2: scan_one_unit again with no time budget, on the main thread alone. *)
RescanOne ==
    /\ phase = "deferred"
    /\ \E u \in rescan :
         /\ \A x \in rescan : u <= x
         /\ LET f == IF u \in Unreadable THEN ErrorScan
                     ELSE IF SeenBefore(u) THEN EmptyScan
                     ELSE FullScan(u, FALSE)
            IN  /\ streamed' = streamed \cup f.finds
                /\ agg' = Fold(agg, u, f)
         /\ content_seen' = IF u \in Unreadable THEN content_seen
                            ELSE content_seen \cup {Content[u]}
         /\ rescan' = rescan \ {u}
    /\ UNCHANGED <<next, done, reserved, deferred, local, phase, resume_done, ckpt, faults>>

(* The final checkpoint, then the report. *)
Report ==
    /\ phase = "deferred" /\ rescan = {}
    /\ ckpt' = agg
    /\ phase' = "report"
    /\ UNCHANGED <<shared, local, rescan, resume_done, faults>>

(* read_checkpoint: the aggregate a start begins with. *)
MutReadNothing == EmptyAgg
ReadCheckpoint == ckpt

(* The process is killed and started again on the same tree: read_checkpoint
   seeds the aggregate and the resume set, all else starts over. *)
CrashAndResume ==
    /\ phase \in {"workers", "deferred"} /\ crashes < MaxCrashes
    /\ crashes' = crashes + 1
    /\ agg' = ReadCheckpoint /\ resume_done' = ReadCheckpoint.done
    /\ done' = Cardinality(ReadCheckpoint.done)
    /\ next' = 0 /\ reserved' = 0
    /\ content_seen' = {} /\ streamed' = {} /\ deferred' = {}
    /\ pc' = AllWorkers("claim") /\ unit' = AllWorkers(0) /\ loaded' = AllWorkers(0)
    /\ fs' = AllWorkers(EmptyScan) /\ d' = AllWorkers(0)
    /\ phase' = "workers" /\ rescan' = {}
    /\ UNCHANGED <<ckpt, panics>>

Finished == phase \in {"report", "aborted"} /\ UNCHANGED vars

Worker(w) ==
    \/ Claim(w) \/ LoadReserved(w) \/ SleepFull(w) \/ Exchange(w) \/ Dedup(w)
    \/ VerifyUnit(w) \/ Release(w) \/ CountDone(w) \/ Defer(w) \/ StreamFindings(w) \/ FoldUnit(w)

Main == Join \/ RescanOne \/ Report

Next ==
    \/ \E w \in Workers : Worker(w) \/ Panic(w)
    \/ Main \/ CrashAndResume \/ Finished

(* Threads run on an operating system that schedules each of them; kills and
   panics need not happen. *)
Spec == /\ Init /\ [][Next]_vars
        /\ \A w \in Workers : WF_vars(Worker(w))
        /\ WF_vars(Main)

-----------------------------------------------------------------------------
(* Properties. *)

WorkerPCs == {"claim", "reserve", "exchange", "scan", "verify", "release", "count",
              "defer", "stream", "fold", "exited", "panicked"}

(* Every variable keeps its type. *)
TypeOK ==
    /\ next \in Nat /\ done \in Nat /\ reserved \in Int
    /\ content_seen \subseteq Contents /\ streamed \subseteq Keys
    /\ deferred \subseteq Units /\ agg \in Agg
    /\ pc \in [Workers -> WorkerPCs]
    /\ unit \in [Workers -> 0 .. NumUnits]
    /\ loaded \in [Workers -> Int] /\ fs \in [Workers -> FileScan] /\ d \in [Workers -> Nat]
    /\ phase \in {"workers", "deferred", "report", "aborted"}
    /\ rescan \subseteq Units /\ resume_done \subseteq Units /\ ckpt \in Agg
    /\ crashes \in 0 .. MaxCrashes /\ panics \in 0 .. MaxPanics

(* The workers that hold a reservation: from the exchange to the fetch_sub, and
   for good after a panic in between. *)
Holders == {w \in Workers : pc[w] \in {"scan", "verify", "release", "panicked"}}

(* The reserved counter is exactly what the units in flight have reserved,
   whatever the order of the workers' loads, exchanges and releases. *)
ReservedExact == reserved = SumFunction([w \in Holders |-> Cost[unit[w]]])

(* The working set exceeds the budget only by a unit that runs alone. *)
BudgetRespected == reserved > BudgetMb => Cardinality(Holders) = 1

(* Two workers never work on the same unit, and none on a unit already done. *)
UnitsDisjoint ==
    \A w \in Workers : unit[w] # 0 =>
        /\ unit[w] \notin agg.done \cup deferred
        /\ \A x \in Workers \ {w} : unit[x] # unit[w]

(* The result of a unit enters the totals at most once, over worker steals, the
   deferred phase, kills and resumes; and the checkpoint on disk never holds a
   unit's result without its label, so a resume cannot add it again. *)
NoUnitTwice ==
    \A u \in Units :
        /\ agg.counted[u] <= 1 /\ ckpt.counted[u] <= 1
        /\ agg.counted[u] = 1 => u \in agg.done
        /\ ckpt.counted[u] = 1 => u \in ckpt.done

(* Kills lose no coverage: when the report is printed every unit is accounted
   for, and every content was counted through some unit that holds it or is one
   that was deferred in this run.  The last alternative is a loss the code really
   has, which RescanDecidesNothing states. *)
NothingLost ==
    phase = "report" =>
        /\ agg.done = Units
        /\ \A u \in Units : \E x \in Units :
             /\ x = u \/ (Content[x] = Content[u] /\ x \notin Unreadable)
             /\ agg.counted[x] = 1 \/ x \in deferred

(* What becomes of a deferred unit: nothing.  The comments say that phase 2 gives it
   "the full machine and a real chance to *decide*" (scan_dir.rs:554-556) and that
   "its findings are re-produced" there (523-524), but the scan_one_unit of phase 2
   finds the unit's content in content_seen, put there by the scan that was cut
   short, takes the unit for a duplicate of itself (scan_run.rs:329) and folds an
   empty result: a deferred unit is labelled and never counted, whatever the order
   of the workers. *)
RescanDecidesNothing == \A u \in deferred : agg.counted[u] = 0

(* A finding is reported iff a counted unit has it: de-duplication by key drops
   no finding and invents none, also across a resume. *)
FindingsExact ==
    \A k \in Keys :
        agg.findings[k] # 0 <=>
            \E u \in Units \ Unreadable : agg.counted[u] > 0 /\ k \in Finds[Content[u]]

(* The checkpoint file only ever grows: a later write, also one of a resumed
   process, never forgets a unit or a finding an earlier one recorded. *)
CheckpointGrows ==
    [][/\ ckpt.done \subseteq ckpt'.done
       /\ \A k \in Keys : ckpt.findings[k] # 0 => ckpt'.findings[k] = ckpt.findings[k]]_vars

(* Byte-identical units are verified once and the coverage counts are free of
   those duplicates, as the comment on content_seen says, as long as the process
   lives: the set is not in the checkpoint. *)
DuplicatesCountedOnce ==
    crashes = 0 => \A u, x \in Units \ Unreadable :
        u # x /\ Content[u] = Content[x] => agg.counted[u] + agg.counted[x] <= 1

(* The scan ends, unless the analysis of a unit panics: whatever the order of the
   reservations, kills and resumes included, nobody waits for memory for ever. *)
ScanEnds == <>(phase \in {"report", "aborted"} \/ panics > 0)

(* No unit is lost but the deferred ones, these always are, and within one process
   byte-identical units are counted once. *)
CoverageRight == NothingLost /\ RescanDecidesNothing /\ DuplicatesCountedOnce

(* The reservation counter is the sum of what the workers hold, and it respects the
   budget whenever more than one unit is in flight. *)
MemoryKept == ReservedExact /\ BudgetRespected

=============================================================================
