---------------------------- MODULE StreamFacts ----------------------------
(***************************************************************************)
(* Streaming whole-program facts: stream_program_facts (crates/cli) hands  *)
(* contiguous shards of the files to workers, each folds its files into a  *)
(* WholeProgramFacts of its own (crates/verifier/src/wholeprog.rs) and     *)
(* hands it over; the shards are merged in file order, the points-to       *)
(* relation is solved and the facts are finalised.                         *)
(***************************************************************************)
EXTENDS CallFacts, PointsTo

CONSTANTS Programs,      \* sequences of files, each [ok, module]
          Modes,         \* records [closed_world, avp]
          Cores          \* worker threads

VARIABLES program,       \* the files of this run
          mode,
          phase,         \* "stream", "solve", "done"
          worker,        \* shard index -> [at, facts, handed]
          arrived,       \* shards in the order in which they took the lock
          whole,         \* the merged WholeProgramFacts
          work,          \* worklist of the points-to solver
          facts          \* the finalised ProgramFacts

svars == <<program, mode, phase, worker, arrived, whole, work, facts>>

NoFacts == [k |-> "none"]
Empty == [fns |-> <<>>, internal |-> {}, name_to_id |-> <<>>, escaped |-> {}, declared |-> <<>>,
          size_reg |-> <<>>, mmio |-> <<>>, evidence |-> <<>>, load_sites |-> <<>>, pt |-> NewRelation]

(* files.chunks(ceil(n / cores)) *)
Chunk(files) == Max({1, (Len(files) + Cores - 1) \div Cores})
Shards(files) == 1 .. (Len(files) + Chunk(files) - 1) \div Chunk(files)
Shard(files, s) == SubSeq(files, (s - 1) * Chunk(files) + 1, Min({s * Chunk(files), Len(files)}))

Rebased(fns, base) ==
    <<>> \o [i \in DOMAIN fns |-> [fns[i] EXCEPT !.blocks =
        [b \in DOMAIN @ |-> [@[b] EXCEPT !.insts = [k \in DOMAIN @ |-> LinkCall(@[k], base, <<>>)]]]]]

(* Load sites go by the name of an external function: a static's name may recur. *)
LoadSites(m) ==
    LET ext == {k \in DOMAIN m.load_sites : k[1] \notin m.internal}
        Key(k) == <<m.functions[k[1]].name, k[2]>>
    IN  [x \in {Key(k) : k \in ext} |-> m.load_sites[CHOOSE k \in ext : Key(k) = x]]

push_module(W, m) ==
    LET base == Len(W.fns)
    IN  [fns |-> W.fns \o Rebased(m.functions, base),
         internal |-> W.internal \cup {i + base : i \in m.internal},
         name_to_id |-> FirstWins(W.name_to_id, External(m, base)),
         escaped |-> W.escaped \cup address_taken_names(m),
         declared |-> W.declared @@ ShiftKeys(m.contracts, base),
         size_reg |-> W.size_reg \o [i \in DOMAIN m.functions |-> mmio_size_reg(m.mmio, m.functions[i])],
         mmio |-> FirstWins(W.mmio, m.mmio),
         load_sites |-> FirstWins(W.load_sites, LoadSites(m)),
         evidence |-> merge_field_evidence(W.evidence, m.evidence),
         pt |-> push_relation(W.pt, m)]

(* What each fact set's own merge does: ids go up by the number of functions there
   are, the first definition of a name stays. *)
MergedNames(W, O) == FirstWins(W.name_to_id, [n \in DOMAIN O.name_to_id |-> O.name_to_id[n] + Len(W.fns)])
MergedBodies(W, O) == W.fns \o Rebased(O.fns, Len(W.fns))

merge(W, O) ==
    LET base == Len(W.fns)
    IN  [fns |-> MergedBodies(W, O),
         internal |-> W.internal \cup {i + base : i \in O.internal},
         name_to_id |-> MergedNames(W, O),
         escaped |-> W.escaped \cup O.escaped,
         declared |-> W.declared @@ ShiftKeys(O.declared, base),
         size_reg |-> W.size_reg \o O.size_reg,
         mmio |-> FirstWins(W.mmio, O.mmio),
         load_sites |-> FirstWins(W.load_sites, O.load_sites),
         evidence |-> merge_field_evidence(W.evidence, O.evidence),
         pt |-> merge_relation(W.pt, O.pt)]

(* shards.sort_by_key *)
MutInFileOrderArrival(shards) == shards
InFileOrder(shards) == SortSeq(shards, LAMBDA x, y : x[1] < y[1])

-----------------------------------------------------------------------------
Init ==
    /\ program \in Programs /\ mode \in Modes
    /\ phase = "stream"
    /\ worker = [s \in Shards(program) |-> [at |-> 1, facts |-> Empty, handed |-> FALSE]] @@ <<>>
    /\ arrived = <<>> /\ whole = Empty /\ work = <<>> /\ facts = NoFacts

(* A file that cannot be read or lowered contributes nothing. *)
PushFile(s) ==
    LET shard == Shard(program, s)
        file  == shard[worker[s].at]
    IN  /\ phase = "stream" /\ worker[s].at <= Len(shard)
        /\ worker' = [worker EXCEPT ![s].at = @ + 1,
                                    ![s].facts = IF file.ok THEN push_module(@, file.module) ELSE @]
        /\ UNCHANGED <<program, mode, phase, arrived, whole, work, facts>>

HandOver(s) ==
    /\ phase = "stream" /\ worker[s].at > Len(Shard(program, s)) /\ ~worker[s].handed
    /\ worker' = [worker EXCEPT ![s].handed = TRUE, ![s].facts = Empty]
    /\ arrived' = Append(arrived, <<s, worker[s].facts>>)
    /\ UNCHANGED <<program, mode, phase, whole, work, facts>>

(* The scope has joined: merge, connect the calls, collapse, seed the solver.
   A relation past the budget is not solved; in an open world it is not used. *)
Collapse(pt) == collapse_copy_cycles(ConnectCalls(pt))
WorkOf(b) == b.pushed \o SetToSortSeq(Seeds(b) \ Range(b.pushed), <)
Begin(merged, collapsed) ==
    \E b \in {IF mode.closed_world THEN Seed(collapsed) ELSE merged.pt} :
       /\ whole' = [merged EXCEPT !.pt = IF b.n < MAX_NODES THEN b ELSE collapsed]
       /\ work' = IF mode.closed_world /\ b.n < MAX_NODES THEN WorkOf(b) ELSE <<>>
MergeShards ==
    /\ phase = "stream" /\ \A s \in DOMAIN worker : worker[s].handed
    /\ \E merged \in {FoldLeft(LAMBDA W, x : merge(W, x[2]), Empty, InFileOrder(arrived))} :
          \E collapsed \in {Collapse(merged.pt)} : Begin(merged, collapsed)
    /\ phase' = "solve"
    /\ worker' = <<>> /\ arrived' = <<>>
    /\ UNCHANGED <<program, mode, facts>>

(* Pop the last node; the nodes that grow are pushed in the order in which
   the hash sets list them, which is any. *)
SolveStep ==
    /\ phase = "solve" /\ work # <<>>
    /\ LET n == Last(work)
           b == Propagate(whole.pt, n)
           new == Range(b.pushed) \ Range(Front(work))
       IN  /\ whole' = [whole EXCEPT !.pt = [b EXCEPT !.pushed = <<>>, !.out = None]]
           /\ \E order \in SetToSeqs(new) : work' = Front(work) \o order
    /\ UNCHANGED <<program, mode, phase, worker, arrived, facts>>

(* The ranges by the name of an external function, and for every handler the
   range of its size where no range was synthesised. *)
name_scalars(W, scalars) ==
    LET ext == {k \in DOMAIN scalars : k[1] \in Range(W.name_to_id)}
        Key(k) == <<W.fns[k[1]].name, k[2]>>
    IN  FirstWins([x \in {Key(k) : k \in ext} |-> scalars[CHOOSE k \in ext : Key(k) = x]],
                  [x \in {<<h, W.mmio[h]>> : h \in DOMAIN W.mmio} |-> Dispatched])

(* WholeProgramFacts::finalize; the other maps by name are these under W.name_to_id. *)
finalize(W, md) ==
    LET ptrs == finalize_contracts(W, md.closed_world, md.avp)
        scalars == finalize_scalars(W, md.closed_world)
    IN  [summaries |-> finalize_summaries(W), scalars |-> scalars, ptrs |-> ptrs,
         fields |-> finalize_fields(W, ptrs, md.closed_world),
         name_scalars |-> name_scalars(W, scalars),
         field_types |-> IF md.closed_world THEN W.evidence ELSE <<>>,
         field_load_sites |-> IF md.closed_world THEN W.load_sites ELSE <<>>,
         names |-> W.name_to_id, mmio |-> W.mmio,
         devirt |-> IF md.closed_world THEN name_keyed_devirt(W.pt) ELSE <<>>]
Finalize ==
    /\ phase = "solve" /\ work = <<>>
    /\ facts' = finalize(whole, mode)
    /\ phase' = "done"
    /\ whole' = Empty
    /\ UNCHANGED <<program, mode, worker, arrived, work>>

StreamNext == (\E s \in DOMAIN worker : PushFile(s) \/ HandOver(s)) \/ MergeShards \/ SolveStep \/ Finalize
=============================================================================
