----------------------------- MODULE SymCalls ------------------------------
(* Calls and the protocol instructions of the symbolic executor: what a    *)
(* call does to the path state, given the summary of its callee or none,   *)
(* the locks it takes and releases, and the typestate, reference-count,    *)
(* label and capability contracts that are checked along a path; and the   *)
(* join of the states of several paths.                                    *)
EXTENDS SymMemory

CONSTANT Callees       \* the functions that can be called, by name:
  \*  asm         "" a function, "nomem" or "mem" inline assembly, which clobbers
  \*              no memory or some
  \*  known       whether there is a summary; the next eight fields are its parts
  \*  writes, frees   may write, may free memory
  \*  ret         [k, arg, c, m, size, write]: what is returned
  \*  frees_arg   the parameter it always frees, or 0
  \*  counts      <<parameter, change of its reference count>> pairs
  \*  labels      <<parameter, label>> pairs: labels it gives what a pointer is to
  \*  transfers   <<to, from>> pairs of parameters between which labels flow
  \*  escapes     parameters it stores the address of a local through
  \*  sync        what kind of locking call it is, "" if none
  \*  does        what the function really does (RunItem of MemExec)

ArgPtr(vs, k) == IF k \in DOMAIN vs THEN BaseKey(vs[k]) ELSE {}
EvalArgs(args, s, x) ==
  FoldLeft(LAMBDA acc, o : LET r == eval_value(o, s, acc.e)
                           IN  [vs |-> Append(acc.vs, r.v), e |-> r.e],
           [vs |-> <<>>, e |-> x], args)

-----------------------------------------------------------------------------
(* check_lock_call *)
check_lock_call(i, id, s, x) ==
  LET sync  == Callees[i.fn].sync
      vs    == EvalArgs(i.args, s, x).vs
      base  == ArgPtr(vs, 1)
      takes == sync \in {"lock", "spin"}
      sleeps == sync = "sleep" /\ s.spin # {}
      x1 == record(x, id, "TypestateViolation", TRUE)
      x2 == record_temporal(x1, id, "SleepInAtomic", sleeps, s)
      again == takes /\ base # {} /\ base \subseteq s.locks
      x3 == record_mem(x2, id, "DataRace",
              IF ~again THEN "proven"
              ELSE IF feasibility_witness(s, x) THEN "refuted" ELSE "unknown")
      \* a call that takes no lock may release the one behind any argument
      gone == UNION {BaseKey(vs[k]) : k \in DOMAIN vs}
      s1 == [s EXCEPT
        !.rcu   = IF sync = "rcu_lock" THEN @ + 1
                  ELSE IF sync = "rcu_unlock" /\ @ > 0 THEN @ - 1 ELSE @,
        !.irq   = IF sync = "irq_off" THEN @ + 1
                  ELSE IF sync = "irq_on" /\ @ > 0 THEN @ - 1 ELSE @,
        !.locks = IF takes THEN @ \cup base ELSE @ \ gone,
        !.spin  = IF sync = "spin" THEN @ \cup base
                  ELSE IF takes THEN @ ELSE @ \ gone]
  IN  Result(s1, x3)

-----------------------------------------------------------------------------
(* step_call *)
\* A pointer argument used through a stale borrow.
CheckArgBorrows(vs, id, s, x) ==
  FoldLeft(LAMBDA acc, v : IF IsPtr(v) THEN check_borrow_access(id, FALSE, v, acc.s, acc.e)
                           ELSE acc, Result(s, x), vs)

\* A call through a register whose target is not resolved.
CheckIndirect(i, id, s, x) ==
  LET p == eval_value(i.via[1], s, x).v
  IN  IF i.via = <<>> THEN x
      ELSE record_temporal(x, id, "ValidIndirectTarget",
             /\ IsPtr(p)
             /\ \/ p.prov.k = "null"
                \/ HasRegion(p, s) /\ RegionOf(p, s).kind \in {"stack", "heap"}, s)

\* The reference counts the callee's summary says it changes.
ApplyCounts(counts, vs, id, s, x) ==
  FoldLeft(LAMBDA acc, c :
    LET key == ArgPtr(vs, c[1])
        k   == CHOOSE k \in key : TRUE
        old == At(acc.s.refcounts, k, 0)
    IN  IF key = {} THEN acc
        ELSE IF c[2] >= 0
        THEN Result([acc.s EXCEPT !.refcounts = Put(@, k, old + c[2])], acc.e)
        ELSE IF k \notin DOMAIN acc.s.refcounts THEN acc
        ELSE Result([acc.s EXCEPT !.refcounts = Put(@, k, old + c[2])],
                    IF old + c[2] < 0
                    THEN record_temporal(acc.e, id, "TypestateViolation", TRUE, acc.s)
                    ELSE acc.e),
    Result(s, x), counts)

\* What the call may write: everything, or in bug-finding mode only what an
\* argument points to (an assumption, recorded when a record was dropped).
Clobbered(vs, s, x) ==
  LET bases == UNION {BaseKey(vs[k]) : k \in DOMAIN vs}
      kept  == SelectSeq(s.heap, LAMBDA r : BaseKey(r.target) # {}
                                            /\ BaseKey(r.target) \cap bases = {})
      s1    == Havocked(s)
  IN  IF ~x.bugs THEN Result(s1, x)
      ELSE Result([s1 EXCEPT !.heap = kept],
                  IF Len(kept) # Len(s.heap) THEN Assume(x, "writes-through-args") ELSE x)

\* A freeing callee may have freed any allocation of this function's own.
FreedByCall(s) ==
  [s EXCEPT !.regions = [r \in DOMAIN @ |->
     IF @[r].contract = "" /\ @[r].kind = "heap" THEN [@[r] EXCEPT !.live = FALSE] ELSE @[r]]]

instantiate_affine(ret, vs, x) ==
  LET a == IF ret.m = 0 THEN [v |-> Scalar(Con(0)), e |-> x]
           ELSE IF ret.arg \in DOMAIN vs /\ ~IsPtr(vs[ret.arg])
           THEN [v |-> vs[ret.arg], e |-> x] ELSE FreshScalar(x, "?")
  IN  [v |-> Bin("+", Con(ret.c), Bin("*", a.v.e, Con(ret.m))), e |-> a.e]

materialize_heap_region(size) == Region("heap", Con(size), 1, TRUE, TRUE, "", {Truth(TRUE)}, FALSE)
materialize_ref_region(size, write, assumed) ==
  Region("global", Con(size), 1, TRUE, write, "valid-reference", {Truth(TRUE)}, assumed)
materialize_freed_region(x) ==
  Region("stack", Sym("?", x.fresh), 1, FALSE, TRUE, "", {}, FALSE)

\* The summary says the callee leaves the address of its own local behind the
\* pointer argument k.
ApplyEscapes(escapes, vs, s, x) ==
  FoldLeft(LAMBDA acc, k :
    IF k \notin DOMAIN vs \/ ~IsPtr(vs[k]) THEN acc
    ELSE LET s1 == NewRegion(acc.s, materialize_freed_region(acc.e))
         IN  Result([s1 EXCEPT !.heap =
                       Append(@, Record(vs[k], RegionPtr(Len(s1.regions), 1), PtrSize))],
                    [acc.e EXCEPT !.fresh = @ + 1]),
    Result(s, x), escapes)

\* The value the call returns.
CallResult(f, i, vs, s, x) ==
  LET ret   == IF f.known THEN f.ret.k ELSE "opaque"
      off   == instantiate_affine(f.ret, vs, x)
      fresh == FreshValue(x, i.isptr, "?")
      with(reg, y) == LET s1 == NewRegion(s, reg)
                      IN  [v |-> RegionPtr(Len(s1.regions), 1), s |-> s1, e |-> y]
  IN  CASE ret = "arg" /\ f.ret.arg \in DOMAIN vs /\ IsPtr(vs[f.ret.arg]) ->
             LET p == vs[f.ret.arg]
             IN  [v |-> [p EXCEPT !.off = Bin("+", @, Con(f.ret.c))], s |-> s, e |-> x]
        [] ret = "scalar"   -> [v |-> Scalar(off.v), s |-> s, e |-> off.e]
        [] ret = "dangling" -> with(materialize_freed_region(x), [x EXCEPT !.fresh = @ + 1])
        [] ret = "alloc"    -> with(materialize_heap_region(f.ret.size), Assume(x, "alloc-succeeds"))
        [] ret = "ref" \/ (ret = "opaque" /\ i.ref # <<>>) ->
             LET sz == IF ret = "ref" THEN f.ret.size ELSE i.ref[1]
                 wr == IF ret = "ref" THEN f.ret.write ELSE FALSE
             IN  with(materialize_ref_region(sz, wr, FALSE), x)
        [] OTHER -> [v |-> fresh.v, s |-> s, e |-> fresh.e]

\* Wrong variant: the path stays exact across a call.
MutInexact(s) == s

Inexact(s) == [s EXCEPT !.exact = FALSE]

\* The summary applies in this order: the double free it shows, its counts,
\* then the path is no longer exact, memory and liveness are forgotten, labels
\* flow, and last come what it leaves behind pointers and what it returns.
CallFrees(f, vs, id, s, x) ==
  LET base == IF f.known /\ f.frees_arg # 0 THEN ArgPtr(vs, f.frees_arg) ELSE {}
  IN  Result([s EXCEPT !.freed = @ \cup base],
             record_temporal(x, id, "NoDoubleFree", base \cap s.freed # {}, s))
CallCounts(f, vs, id, r) == ApplyCounts(IF f.known THEN f.counts ELSE <<>>, vs, id, r.s, r.e)
MayWrite(f) == f.asm = "mem" \/ (f.asm = "" /\ (f.known => f.writes))
MayFree(f)  == f.asm = "" /\ (f.known => f.frees)
CallForgets(f, vs, r) ==
  IF MayWrite(f) \/ MayFree(f) THEN Clobbered(vs, Inexact(r.s), r.e)
  ELSE Result(Inexact(r.s), r.e)
CallLiveness(f, r) == IF MayFree(f) THEN Result(FreedByCall(r.s), r.e) ELSE r
\* apply_prov_transfer: the labels given, then the labels passed on, between the
\* arguments whose regions are known.
apply_prov_transfer(f, vs, s) ==
  LET known(k) == k \in DOMAIN vs /\ IsPtr(vs[k]) /\ HasRegion(vs[k], s)
      give(t, c)  == IF known(c[1]) THEN AddLabels(vs[c[1]], {c[2]}, t) ELSE t
      pass(t, c)  == IF known(c[1]) /\ known(c[2])
                     THEN AddLabels(vs[c[1]], LabelsAt(vs[c[2]], t), t) ELSE t
  IN  FoldLeft(pass, FoldLeft(give, s, f.labels), f.transfers)
CallLabels(f, vs, r) == IF f.known THEN Result(apply_prov_transfer(f, vs, r.s), r.e) ELSE r
CallEscapes(f, vs, r) == ApplyEscapes(IF f.known THEN f.escapes ELSE <<>>, vs, r.s, r.e)
CallBinds(dst, r) == Result(Bind(r.s, dst, r.v), r.e)
CallReturns(f, i, vs, r) ==
  IF i.dst = 0 THEN r ELSE CallBinds(i.dst, CallResult(f, i, vs, r.s, r.e))

CallWith(i, id, f, vs, s, x) ==
  CallReturns(f, i, vs, CallEscapes(f, vs, CallLabels(f, vs, CallLiveness(f, CallForgets(f, vs,
    CallCounts(f, vs, id, CallFrees(f, vs, id, s, CheckIndirect(i, id, s, x))))))))

step_call(i, id, av, s) == CallWith(i, id, Callees[i.fn], av.vs, s, av.e)

\* The locking call, the borrows of the arguments, then the call itself.
CallBorrowed(i, id, r) == step_call(i, id, EvalArgs(i.args, r.s, r.e), r.s)
CallLocked(i, id, r) ==
  CallBorrowed(i, id, CheckArgBorrows(EvalArgs(i.args, r.s, r.e).vs, id, r.s, r.e))
StepCall(i, id, s, x) == CallLocked(i, id, check_lock_call(i, id, s, x))

-----------------------------------------------------------------------------
(* Protocol instructions (step_contract).  A resource is named by the base  *)
(* of its pointer or by its value.                                          *)
res_key(o, s, x) ==
  LET v == eval_value(o, s, x).v
  IN  IF IsPtr(v) THEN BaseKey(v) ELSE {<<"val", v.e>>}
ForKey(key, f, v) == IF key = {} THEN f ELSE Put(f, CHOOSE k \in key : TRUE, v)
StateOf(key, f)   == {f[k] : k \in key \cap DOMAIN f}

StepTypestateSet(i, s, x) ==
  [s EXCEPT !.typestates = ForKey(res_key(i.val, s, x), @, i.state)]

StepTypestateRequire(i, id, s, x) ==
  LET in == i.state \in StateOf(res_key(i.val, s, x), s.typestates)
  IN  record_temporal(x, id, "TypestateViolation", IF i.negate THEN in ELSE ~in, s)

StepTypestateYield(i, s) ==
  [s EXCEPT !.typestates = [k \in DOMAIN @ |-> IF @[k] = i.from THEN i.to ELSE @[k]]]

StepTypestateLeakCheck(i, id, s, x) ==
  LET esc == IF i.val.k = "undef" THEN {} ELSE res_key(i.val, s, x)
  IN  record_temporal(x, id, "TypestateViolation",
        \E k \in DOMAIN s.typestates : s.typestates[k] = i.state /\ k \notin esc, s)

StepRefcount(i, id, s, x) ==
  LET key == res_key(i.val, s, x)
      old == StateOf(key, s.refcounts)
      n   == IF old = {} THEN 0 ELSE CHOOSE c \in old : TRUE
  IN  IF key = {} THEN Result(s, x)
      ELSE IF ~i.dec
      THEN Result([s EXCEPT !.refcounts = ForKey(key, @, n + 1)],
                  record(x, id, "TypestateViolation", TRUE))
      ELSE IF old = {} THEN Result(s, record(x, id, "TypestateViolation", TRUE))
      ELSE Result([s EXCEPT !.refcounts = ForKey(key, @, n - 1)],
                  record_temporal(x, id, "TypestateViolation", n <= 0, s))

\* A label on a pointer marks what it points to, on a scalar the register.
taint_add(o, label, s, x) ==
  LET v == eval_value(o, s, x).v
  IN  IF IsPtr(v) THEN AddLabels(v, {label}, s)
      ELSE IF o.k = "reg" THEN [s EXCEPT !.tainted = Put(@, o.v, At(@, o.v, {}) \cup {label})]
      ELSE s

taint_has(o, label, s, x) ==
  LET v == eval_value(o, s, x).v
  IN  \/ o.k = "reg" /\ label \in At(s.tainted, o.v, {})
      \/ IsPtr(v) /\ label \in LabelsAt(v, s)

taint_remove(o, label, s, x) ==
  LET v  == eval_value(o, s, x).v
      s1 == IF o.k = "reg" /\ o.v \in DOMAIN s.tainted
            THEN [s EXCEPT !.tainted[o.v] = @ \ {label}] ELSE s
  IN  IF ~IsPtr(v) THEN s1
      ELSE IF HasRegion(v, s) THEN [s1 EXCEPT !.regions[v.prov.r].labels = @ \ {label}]
      ELSE IF v.prov.k = "unk" /\ v.prov.id \in DOMAIN s.opaque_labels
      THEN [s1 EXCEPT !.opaque_labels[v.prov.id] = @ \ {label}]
      ELSE s1

StepProvPropagate(i, s, x) ==
  LET d == eval_pointer(i.dst, s, x).v
  IN  AddLabels(d, LabelsAt(eval_pointer(i.src, s, x).v, s), s)

\* i.grants: the labels that grant the capability; a label that does not, on
\* something both pointers denote, is a violation.
offsets_can_be_equal(a, b, s, x) == a = b \/ ~prove(Bin("#", a, b), s, x)

RECURSIVE alias_lacks_cap(_, _, _, _, _)
alias_lacks_cap(p, q, grants, s, x) ==
  CASE p.prov.k = "sel" -> \/ alias_lacks_cap(p.prov.p, q, grants, s, x)
                           \/ alias_lacks_cap(p.prov.q, q, grants, s, x)
    [] p.prov.k # "sel" /\ q.prov.k = "sel" ->
                           \/ alias_lacks_cap(p, q.prov.p, grants, s, x)
                           \/ alias_lacks_cap(p, q.prov.q, grants, s, x)
    [] OTHER -> /\ BaseKey(p) # {} /\ BaseKey(p) = BaseKey(q)
                /\ p.prov.k = "unk" => offsets_can_be_equal(p.off, q.off, s, x)
                /\ LabelsAt(p, s) \ grants # {}

StepCapRequire(i, id, s, x) ==
  record_temporal(x, id, "WriteCapability",
    LabelsAt(eval_pointer(i.ptr, s, x).v, s) \ i.grants # {}, s)

StepCapRequireIfAlias(i, id, s, x) ==
  record_temporal(x, id, "WriteCapability",
    alias_lacks_cap(eval_pointer(i.ptr, s, x).v, eval_pointer(i.src, s, x).v, i.grants, s, x), s)

-----------------------------------------------------------------------------
(* Where paths join, the executor keeps one state that must stand for all the
   states on the incoming edges.  An edge is [s, guard, args]: the state at the end
   of its source, the branch condition it was taken under and the values it passes
   to the parameters of the block. *)

OnAll(edges, P(_)) == \A j \in DOMAIN edges : P(edges[j].s)
Meet(edges, set(_)) == {y \in set(edges[1].s) : OnAll(edges, LAMBDA s : y \in set(s))}
\* The entries all edges have, with one value.
Agreed(edges, map(_)) ==
  LET f == map(edges[1].s)
      K == {k \in DOMAIN f : OnAll(edges, LAMBDA s : k \in DOMAIN map(s) /\ map(s)[k] = f[k])}
  IN  [k \in K |-> f[k]]
\* The entries all edges have, with the labels they have in common.
Common(edges, map(_)) ==
  LET f == map(edges[1].s)
      g == [k \in DOMAIN f |-> {l \in f[k] : OnAll(edges, LAMBDA s : l \in At(map(s), k, {}))}]
  IN  [k \in {k \in DOMAIN f : g[k] # {}} |-> g[k]]
Least(edges, n(_)) == CHOOSE m \in {n(edges[j].s) : j \in DOMAIN edges} :
                        \A j \in DOMAIN edges : m <= n(edges[j].s)

\* The longest prefix of regions every edge has, of the same sizes; one that
\* is not live on every edge is not live.
MergedRegions(edges) ==
  LET first   == edges[1].s.regions
      same(n) == OnAll(edges, LAMBDA s : n <= Len(s.regions) /\ s.regions[n].size = first[n].size)
      count   == CHOOSE n \in 0..Len(first) :
                   /\ \A k \in 1..n : same(k)
                   /\ n < Len(first) => ~same(n + 1)
  IN  <<>> \o [n \in 1..count |->
        [first[n] EXCEPT
           !.live   = OnAll(edges, LAMBDA s : s.regions[n].live),
           !.labels = {l \in @ : OnAll(edges, LAMBDA s : l \in s.regions[n].labels)}]]

\* The common prefix of the path conditions.
MergedConds(edges) ==
  LET first == edges[1].s.pathcond
      same(n) == OnAll(edges, LAMBDA s : n <= Len(s.pathcond) /\ s.pathcond[n] = first[n])
      count == CHOOSE n \in 0..Len(first) :
                 /\ \A k \in 1..n : same(k)
                 /\ n < Len(first) => ~same(n + 1)
  IN  SubSeq(first, 1, count)

\* A borrow stack all edges agree on, else poison.
MergedBorrows(edges) ==
  LET K == UNION {DOMAIN edges[j].s.borrows : j \in DOMAIN edges}
      first(k) == At(edges[1].s.borrows, k, Poisoned)
  IN  [k \in K |-> IF OnAll(edges, LAMBDA s : At(s.borrows, k, Poisoned) = first(k))
                   THEN first(k) ELSE Poisoned]

\* The registers are those of the first edge; a region that was dropped is opaque.
MergedEnv(env, count) ==
  LET keep(v) == IF IsPtr(v) /\ v.prov.k = "reg" /\ v.prov.r > count
                 THEN [v EXCEPT !.prov = ProvOpaque(0)] ELSE v
  IN  [r \in DOMAIN env |-> keep(env[r])]

\* merge_core: everything but the heap and the block parameters.
merge_core(edges) ==
  LET first == edges[1].s
      regs  == MergedRegions(edges)
  IN  [EmptyState EXCEPT
        !.regions  = regs,
        !.env      = MergedEnv(first.env, Len(regs)),
        !.pathcond = MergedConds(edges),
        !.facts    = SelectSeq(first.facts, LAMBDA f : OnAll(edges, LAMBDA s : f \in ToSet(s.facts))),
        !.opaque_labels = Common(edges, LAMBDA s : s.opaque_labels),
        !.nonnull  = Meet(edges, LAMBDA s : s.nonnull),
        !.borrows  = MergedBorrows(edges),
        !.tainted  = Common(edges, LAMBDA s : s.tainted),
        !.typestates = Agreed(edges, LAMBDA s : s.typestates),
        !.refcounts  = Agreed(edges, LAMBDA s : s.refcounts),
        !.rcu      = Least(edges, LAMBDA s : s.rcu),
        !.irq      = Least(edges, LAMBDA s : s.irq),
        !.percpu   = Meet(edges, LAMBDA s : s.percpu),
        !.locks    = Meet(edges, LAMBDA s : s.locks),
        !.spin     = Meet(edges, LAMBDA s : s.spin),
        !.fetched  = Meet(edges, LAMBDA s : s.fetched),
        !.freed    = Meet(edges, LAMBDA s : s.freed),
        !.exact    = FALSE]

RECURSIVE pointer_regions_kept(_, _)
pointer_regions_kept(prov, n) ==
  CASE prov.k = "reg" -> prov.r <= n
    [] prov.k = "sel" -> /\ pointer_regions_kept(prov.p.prov, n)
                         /\ pointer_regions_kept(prov.q.prov, n)
    [] OTHER -> TRUE

\* merge_heap: for each address stored to on the first edge, newest first, a
\* record with the last value of every edge, if every edge stored to it.
SameAddr(p, q) == ProvEq(p.prov, q.prov) /\ p.off = q.off
LastFor(heap, t) == SelectLastInSeq(heap, LAMBDA r : SameAddr(r.target, t))

\* Observed only.  The order of what is kept is the reverse of the order of the
\* stores, and what is not kept leaves no trace: the k-th record of s, kept for
\* the address of r, need not be the last word on it if a later one may alias it
\* or if it is the record of another opaque pointer.
Overtaken(s, k, r, x) ==
  \/ s.heap[k].overtaken
  \/ BaseKey(s.heap[k].target) # BaseKey(r.target)
  \/ \E j \in (k + 1)..Len(s.heap) :
        alias_check(s.heap[j].target, r.target, s.heap[j].size, r.size, s, x) # "no"

merge_heap(edges, discs, count, x) ==
  LET first == edges[1].s.heap
      done(k) == \E j \in (k + 1)..Len(first) : SameAddr(first[j].target, first[k].target)
      last(j, k) == LastFor(edges[j].s.heap, first[k].target)
      held(k) == /\ ~done(k)
                 /\ first[k].target.prov.k = "reg" => first[k].target.prov.r <= count
                 /\ \A j \in DOMAIN edges : last(j, k) > 0
                       /\ edges[j].s.heap[last(j, k)].size = first[k].size
      value(k, y) == merge_values(discs,
                       [j \in DOMAIN edges |-> edges[j].s.heap[last(j, k)].value], y)
      overtaken(k) == \E j \in DOMAIN edges : Overtaken(edges[j].s, last(j, k), first[k], x)
      keep(acc, k, m) ==
        IF IsPtr(m.v) /\ ~pointer_regions_kept(m.v.prov, count) THEN [acc EXCEPT !.e = m.e]
        ELSE [heap |-> Append(acc.heap, [Record(first[k].target, m.v, first[k].size)
                                           EXCEPT !.overtaken = overtaken(k)]),
              e |-> m.e]
      visit(acc, k) == IF held(k) THEN keep(acc, k, value(k, acc.e)) ELSE acc
  IN  FoldLeft(visit, [heap |-> <<>>, e |-> x], Reverse([k \in DOMAIN first |-> k]))

-----------------------------------------------------------------------------
\* The parameters of the block get the values the edges pass; one edge keeps
\* its whole state, several are joined.
BindParams(params, vs, s) ==
  FoldLeft(LAMBDA t, j : Bind(t, params[j], vs[j]), s, [j \in DOMAIN params |-> j])

Guarded(e) == IF e.guard = <<>> THEN e.s.pathcond ELSE Append(e.s.pathcond, e.guard[1])
MergeOne(params, e, x) ==
  LET s  == [e.s EXCEPT !.pathcond = Guarded(e)]
      av == EvalArgs(e.args, s, x)
  IN  Result(BindParams(params, av.vs, s), av.e)

\* The core with the merged heap h, then the parameters.
MergedParams(params, edges, discs, core, h) ==
  LET args  == [j \in DOMAIN edges |-> EvalArgs(edges[j].args, edges[j].s, h.e).vs]
      bound(acc, p, m) == Result(Bind(acc.s, params[p], m.v), m.e)
      join(acc, p) ==
        bound(acc, p, merge_values(discs, [j \in DOMAIN edges |-> args[j][p]], acc.e))
  IN  FoldLeft(join, Result([core EXCEPT !.heap = h.heap], h.e), [p \in DOMAIN params |-> p])
MergedOnto(params, edges, discs, core, x) ==
  MergedParams(params, edges, discs, core, merge_heap(edges, discs, Len(core.regions), x))
merge_multi(params, edges, x) ==
  MergedOnto(params, edges, [j \in DOMAIN edges |-> AndAll(Guarded(edges[j]))],
             merge_core(edges), x)

merge_edges(params, edges, x) ==
  IF Len(edges) = 1 THEN MergeOne(params, edges[1], x) ELSE merge_multi(params, edges, x)

\* A branch no assignment takes; asked without assumptions when none shares a
\* symbol with the condition.
branch_infeasible(c, s, x) ==
  IF IsCon(c) THEN c.n = 0
  ELSE x.complete
       /\ IF \E a \in Assumed(s) : symbols_of(a) \cap symbols_of(c) # {}
          THEN Implied(Assumed(s), Not(c)) ELSE Implied({}, Not(c))
=============================================================================
