------------------------------ MODULE LoopFacts ------------------------------
(***************************************************************************)
(* What the symbolic executor takes from the analyses of Absint when it    *)
(* enters a loop (havoc_header): interval and zone facts, the bounds of    *)
(* recognised inductions (crates/absint/induction.rs, exec/sentinel.rs),   *)
(* and the counters it treats as reaching every value.  Facts are judged   *)
(* by the concrete executions of the function.                             *)
(***************************************************************************)
EXTENDS Absint

-----------------------------------------------------------------------------
(* Concrete executions.  A state is [b, regs, run, starts, misread]: the block entered,
   its registers, the inputs and memory of the run, for each loop entered the registers
   at its latest entry, and whether a branch so far was taken on an unsigned comparison
   that comes out otherwise as a signed one. *)
Half     == 2 ^ (Width - 1)
WrapInt(v)  == ((v + Half) % (2 * Half)) - Half
Unsigned(v) == v % (2 * Half)
Val(o, regs) == IF Reg(o) THEN regs[o.reg] ELSE o.lit

Holds(op, x, y) ==
    CASE op = "slt" -> x < y   [] op = "sle" -> x <= y
      [] op = "sgt" -> x > y   [] op = "sge" -> x >= y
      [] op = "eq"  -> x = y   [] op = "ne"  -> x # y
      [] op = "ult" -> Unsigned(x) < Unsigned(y)  [] op = "ule" -> Unsigned(x) <= Unsigned(y)
      [] op = "ugt" -> Unsigned(x) > Unsigned(y)  [] op = "uge" -> Unsigned(x) >= Unsigned(y)

(* An unsigned comparison of values that the signed one orders otherwise: one of the
   two is negative. *)
Misread(c, regs) == LET x == Val(c.a, regs) y == Val(c.b, regs) IN Holds(c.op, x, y) # Holds(Signed(c.op), x, y)

Exact(i, regs, mem) ==
    LET x == Val(i.a, regs) IN
    CASE i.op \in {"use", "sext"}     -> x
      [] i.op \in {"add", "ptroff"}   -> x + Val(i.b, regs)
      [] i.op = "sub"                 -> x - Val(i.b, regs)
      [] i.op = "mul"                 -> x * Val(i.b, regs)
      [] i.op = "trunc"               -> x % 2
      [] i.op = "load"                -> IF x + 1 \in DOMAIN mem THEN mem[x + 1] ELSE 0
      [] i.op \in CmpOps              -> IF Holds(i.op, x, Val(i.b, regs)) THEN 1 ELSE 0

(* r gets a value. *)
Assign(regs, r, v) == [x \in DOMAIN regs \cup {r} |-> IF x = r THEN v ELSE regs[x]]

(* The registers after the first n instructions of a block, << >> when an
   overflow has ended the execution. *)
RunTo(block, n, regs, mem) ==
    FoldLeft(LAMBDA r, i :
                 IF r = <<>> \/ i.op = "check" THEN r
                 ELSE LET v == Exact(i, r, mem)
                      IN  IF Overflow = "stop" /\ WrapInt(v) # v THEN <<>>
                          ELSE Assign(r, i.dst, WrapInt(v)),
             regs, SubSeq(block.insts, 1, n))

(* The edge that is taken, none where the execution ends. *)
Taken(term, regs) ==
    LET edges == OutEdges(term) IN
    IF regs = <<>> \/ edges = <<>> THEN {}
    ELSE {edges[IF term.op = "br" \/ regs[term.cond] = 1 THEN 1 ELSE 2]}

(* The registers with which edge e enters a block, its parameters bound at once. *)
Entering(params, e, regs) ==
    [r \in DOMAIN regs \cup Range(params) |->
        IF r \in Range(params) THEN Val(e.args[CHOOSE k \in DOMAIN params : params[k] = r], regs)
        ELSE regs[r]]

Arrive(f, s, e, regs, bound) ==
    [b |-> e.to, regs |-> bound, run |-> s.run,
     misread |-> \/ s.misread
                 \/ LET term == f.p.blocks[s.b].term
                    IN  term.op = "condbr" /\ term.cond \in DOMAIN f.cmps /\ Misread(f.cmps[term.cond], regs),
     starts |-> IF e.to \in f.headers /\ s.b \notin f.latches[e.to]
                THEN (e.to :> bound) @@ s.starts ELSE s.starts]

ConcreteNext(f, s) ==
    LET block == f.p.blocks[s.b]
        regs  == RunTo(block, Len(block.insts), s.regs, s.run.mem)
    IN  {Arrive(f, s, e, regs, Entering(f.p.blocks[e.to].params, e, regs)) : e \in Taken(block.term, regs)}

(* What SSA form gives the executions that enter a block: registers are defined before
   they are read and literals fit a register, the comparison that a branch reads still
   holds of its operands or still does not, and copies have the value of what they copy. *)
Defined(o, regs) == IF Reg(o) THEN o.reg \in DOMAIN regs ELSE o.lit \in -Half .. Half - 1
Uses(i) == IF i.op = "check" THEN UNION {{c.a, c.b} : c \in i.cond.parts} ELSE {i.a, i.b}
Copies(f, o, regs) ==
    Reg(o) => \A r \in CopyChain(f, o.reg) \cap DOMAIN regs : regs[r] = regs[o.reg]

ReadsDefined(block, regs, mem) ==
    \A k \in DOMAIN block.insts :
        RunTo(block, k - 1, regs, mem) # <<>> =>
            \A o \in Uses(block.insts[k]) : Defined(o, RunTo(block, k - 1, regs, mem))
ArgsDefined(f, term, regs) ==
    \A e \in Range(OutEdges(term)) : \A k \in DOMAIN f.p.blocks[e.to].params : Defined(e.args[k], regs)
BranchRead(f, term, regs) ==
    term.op = "condbr" /\ term.cond \in DOMAIN f.cmps =>
        LET c == f.cmps[term.cond]
        IN  /\ \A o \in {c.a, c.b} : Defined(o, regs) /\ Copies(f, o, regs)
            /\ (regs[term.cond] = 1) = Holds(c.op, Val(c.a, regs), Val(c.b, regs))

SsaAt(f, s) ==
    LET block == f.p.blocks[s.b]
        last  == RunTo(block, Len(block.insts), s.regs, s.run.mem)
    IN  /\ ReadsDefined(block, s.regs, s.run.mem)
        /\ last # <<>> => ArgsDefined(f, block.term, last) /\ BranchRead(f, block.term, last)

Memories(size) == {m \in [1 .. size -> {0, 1}] : m[size] = 0}
Runs(p) == {[in |-> in, mem |-> mem] :
               in \in {x \in [DOMAIN p.inputs -> UNION {p.inputs[r] : r \in DOMAIN p.inputs}] :
                          \A r \in DOMAIN p.inputs : x[r] \in p.inputs[r]},
               mem \in Memories(p.size)}

(* Bound: blocks entered by the longest execution before its states repeat. *)
MaxSteps == 40

Arrivals(f) ==
    LET start == {[b |-> 1, regs |-> r.in, run |-> r, starts |-> <<>>, misread |-> FALSE] : r \in Runs(f.p)}
        grown == Iterate(LAMBDA s : LET next == UNION {ConcreteNext(f, x) : x \in s.new}
                                    IN  [all |-> s.all \cup next, new |-> next \ s.all],
                         [all |-> start, new |-> start], MaxSteps)
    IN  grown.all

-----------------------------------------------------------------------------
(* Induction recognition; each recogniser returns a set of at most one record. *)
find_cmp(block, c) == {i \in Range(block.insts) : i.op \in CmpOps /\ i.dst = c}

defined_in_loop(f, h, o) == Reg(o) /\ o.reg \in UNION {Defs(f.p.blocks[b]) : b \in f.body[h]}

(* The comparison of a header that leaves its loop exactly when it says equal. *)
EqualityExit(f, h) ==
    LET term == f.p.blocks[h].term
        then_in == term.then_blk \in f.body[h]
        else_in == term.else_blk \in f.body[h]
    IN  IF term.op # "condbr" THEN {}
        ELSE {i \in find_cmp(f.p.blocks[h], term.cond) :
                 /\ then_in # else_in
                 /\ i.op \in {"eq", "ne"} /\ then_in = (i.op = "ne")}

exit_shape(f, h) ==
    LET params == f.p.blocks[h].params
        IsParam(o) == Reg(o) /\ o.reg \in Range(params)
        shapes == {IF IsParam(c.a) THEN [reg |-> c.a.reg, bound |-> c.b] ELSE [reg |-> c.b.reg, bound |-> c.a] :
                      c \in {x \in EqualityExit(f, h) : IsParam(x.a) \/ IsParam(x.b)}}
    IN  {s \in shapes : Cardinality(f.latches[h]) = 1 /\ ~defined_in_loop(f, h, s.bound)}

(* What the latch passes for parameter r of the header, when a register. *)
BackEdgeArg(f, h, r) ==
    LET latch  == CHOOSE l \in f.latches[h] : TRUE
        params == f.p.blocks[h].params
        pos    == CHOOSE k \in DOMAIN params : params[k] = r
        args   == SelectSeq(OutEdges(f.p.blocks[latch].term), LAMBDA e : e.to = h)[1].args
    IN  {o \in {args[pos]} : Reg(o)}

(* The constant that next exceeds base by. *)
stride(f, h, next, base, ops) ==
    {IF i.op = "sub" THEN -i.b.lit ELSE i.b.lit :
        i \in {j \in UNION {Range(f.p.blocks[b].insts) : b \in f.body[h]} :
                  j.op \in ops /\ j.dst = next.reg /\ IsReg(j.a, base) /\ ~Reg(j.b)}}

recognize(f, h, ops) ==
    UNION {{[reg |-> s.reg, bound |-> s.bound, stride |-> c, bottom |-> FALSE] :
               c \in UNION {{k \in stride(f, h, nv, s.reg, ops) : k > 0} : nv \in BackEdgeArg(f, h, s.reg)}} :
           s \in exit_shape(f, h)}

recognize_int(f, h) == recognize(f, h, {"add", "sub"})

(* The rotated walk: the header compares the stepped pointer. *)
recognize_ptr_bottom(f, h) ==
    IF Cardinality(f.latches[h]) # 1 THEN {}
    ELSE UNION {UNION {{[reg |-> r, bound |-> IF IsReg(c.a, nv.reg) THEN c.b ELSE c.a, stride |-> k, bottom |-> TRUE] :
                           k \in {x \in stride(f, h, nv, r, {"ptroff"}) :
                                     /\ x > 0 /\ (IsReg(c.a, nv.reg) \/ IsReg(c.b, nv.reg))
                                     /\ ~defined_in_loop(f, h, IF IsReg(c.a, nv.reg) THEN c.b ELSE c.a)}} :
                       nv \in BackEdgeArg(f, h, r)} :
                r \in Range(f.p.blocks[h].params) \cap f.p.ptrs, c \in EqualityExit(f, h)}

eq_exit_ptr_indvars(f, h) ==
    IF recognize_int(f, h) # {} THEN {}
    ELSE IF recognize(f, h, {"ptroff"}) # {} THEN recognize(f, h, {"ptroff"})
    ELSE recognize_ptr_bottom(f, h)

-----------------------------------------------------------------------------
(* Facts asserted at a header.  Entries are the registers of the executions at
   the loop's entry: what the executor proves there holds of all of them. *)
PowersOfTwo == {2 ^ k : k \in 0 .. Width}
OnGrid(from, to, step) == (to - from) % step = 0


EqExitProven(v, entries) ==
    /\ v.stride \in PowersOfTwo
    /\ \A s \in entries : LET start == s[v.reg] bound == Val(v.bound, s)
                          IN  /\ 0 <= start /\ start <= bound /\ bound <= Half - 1
                              /\ OnGrid(start, bound, v.stride)

EqExitFact(v, s, regs) == s[v.reg] <= regs[v.reg] /\ regs[v.reg] <= Val(v.bound, s)

PtrWalkProven(v, size, entries) ==
    /\ v.stride \in PowersOfTwo
    /\ \A s \in entries : LET b0 == s[v.reg] end == Val(v.bound, s)
                          IN  /\ 0 <= b0 /\ (IF v.bottom THEN b0 + v.stride ELSE b0) <= end
                              /\ end <= size /\ size <= Half - 1
                              /\ OnGrid(b0, end, v.stride)

PtrWalkFact(v, size, s, regs) ==
    LET o == regs[v.reg]
        upper == IF v.bottom THEN o + v.stride ELSE o
    IN  /\ s[v.reg] <= o /\ 0 <= upper /\ upper <= Val(v.bound, s) /\ upper <= size
        /\ OnGrid(s[v.reg], o, v.stride)

(* A finite, non-negative bound of the interval at the header. *)
IntervalFact(iv, v) ==
    /\ (~IsEmpty(iv) /\ iv[1] \in 0 .. Lim) => iv[1] <= v
    /\ (~IsEmpty(iv) /\ iv[2] \in 0 .. Lim) => v <= iv[2]

(* a <= b + c, void where the sum overflows. *)
DiffFact(a, b, c) ==
    LET sum == WrapInt(b + c)
    IN  (c > 0 /\ sum < b) \/ (c < 0 /\ sum > b) \/ a <= sum

(* The register a copy chain starts from; an index may pass through sext. *)
Resolve(f, r, ops) ==
    LET def == DefsBy(f.p, ops)
        chain[k \in 0 .. Cardinality(f.regs)] ==
            IF k = 0 THEN r
            ELSE IF chain[k - 1] \in DOMAIN def /\ Reg(def[chain[k - 1]].a)
                 THEN def[chain[k - 1]].a.reg ELSE chain[k - 1]
    IN  chain[Cardinality(f.regs)]

(* Parameter r of h enters with a constant of starts on some edge and, on the
   last back edge that passes a sum, comes back as r + 1. *)
CountsFrom(f, h, r, starts) ==
    LET params == f.p.blocks[h].params
        pos    == CHOOSE k \in DOMAIN params : params[k] = r
        Arg(b) == SelectSeq(OutEdges(f.p.blocks[b].term), LAMBDA e : e.to = h)[1].args[pos]
        adds   == DefsBy(f.p, {"add"})
        IsR(o) == Reg(o) /\ Resolve(f, o.reg, {"use"}) = r
        sums   == {b \in f.latches[h] : Reg(Arg(b)) /\ Resolve(f, Arg(b).reg, {"use"}) \in DOMAIN adds}
    IN  /\ \E b \in Range(Preds(f.g, h)) \ f.latches[h] : ~Reg(Arg(b)) /\ Arg(b).lit \in starts
        /\ sums # {}
        /\ LET i == adds[Resolve(f, Arg(Max(sums)).reg, {"use"})]
           IN  (IsR(i.a) /\ IsLit(i.b, 1)) \/ (IsR(i.b) /\ IsLit(i.a, 1))

(* No block of the body other than the header leaves the loop. *)
SingleExit(f, h) ==
    \A b \in f.body[h] \ {h} :
        /\ f.p.blocks[b].term.op # "ret"
        /\ Range(f.g.succ[b]) \subseteq f.body[h]

sound_counting_induction(f, h, r) ==
    LET term == f.p.blocks[h].term IN
    /\ r \in Range(f.p.blocks[h].params)
    /\ CountsFrom(f, h, r, -Half .. Half - 1)
    /\ term.op = "condbr"
    /\ \E i \in InstsOf(f.p) :
           /\ i.op \in {"slt", "sle", "ult", "ule"} /\ i.dst = Resolve(f, term.cond, {"use"})
           /\ Reg(i.a) /\ Resolve(f, i.a.reg, {"use"}) = r
           /\ ~(Reg(i.b) /\ Resolve(f, i.b.reg, {"use"}) = r)
    /\ term.then_blk \in f.body[h] /\ term.else_blk \notin f.body[h]
    /\ SingleExit(f, h)

(* A test of v against zero decides a branch that leaves the loop. *)
loaded_value_gates_exit(f, h, v) ==
    \E b \in f.body[h], i \in InstsOf(f.p) :
        /\ i.op \in {"eq", "ne"}
        /\ (IsReg(i.a, v) /\ IsLit(i.b, 0)) \/ (IsReg(i.b, v) /\ IsLit(i.a, 0))
        /\ f.p.blocks[b].term.op = "condbr" /\ f.p.blocks[b].term.cond = i.dst
        /\ ~(Range(f.g.succ[b]) \subseteq f.body[h])

(* The counters of h that scan the region for its terminator. *)
SentinelScans(f, h) ==
    {r \in Range(f.p.blocks[h].params) :
        /\ CountsFrom(f, h, r, {0})
        /\ \E i \in UNION {Range(f.p.blocks[b].insts) : b \in f.body[h]} :
               /\ i.op = "load" /\ Reg(i.a) /\ Resolve(f, i.a.reg, {"use", "sext"}) = r
               /\ loaded_value_gates_exit(f, h, i.dst)}

SentinelFact(v, size) == 0 <= v /\ v + 1 <= size

(* What makes such a loop stop at the terminator: every entry starts r at 0, every turn
   adds 1, and on every turn a branch leaves exactly when the element at r is zero.  The
   code asks for one such entry, one such back edge and a branch on the element that
   leaves on one side or the other, on some path (sentinel.rs:30-50, 117-147), although
   "Every side-condition below is checked" (loops.rs:345-352). *)
StopsAtZero(f, h, r) ==
    LET pos    == CHOOSE k \in DOMAIN f.p.blocks[h].params : f.p.blocks[h].params[k] = r
        Arg(b) == SelectSeq(OutEdges(f.p.blocks[b].term), LAMBDA e : e.to = h)[1].args[pos]
        adds   == DefsBy(f.p, {"add"})
        IsR(o) == Reg(o) /\ Resolve(f, o.reg, {"use"}) = r
        Steps(o) == /\ Reg(o) /\ Resolve(f, o.reg, {"use"}) \in DOMAIN adds
                    /\ LET i == adds[Resolve(f, o.reg, {"use"})]
                       IN  (IsR(i.a) /\ IsLit(i.b, 1)) \/ (IsR(i.b) /\ IsLit(i.a, 1))
        Leaves(b, test) == LET term == f.p.blocks[b].term
                           IN  /\ term.op = "condbr" /\ term.cond = test.dst
                               /\ (term.then_blk \in f.body[h]) = (test.op = "ne")
                               /\ (term.else_blk \in f.body[h]) = (test.op = "eq")
    IN  /\ \A b \in Range(Preds(f.g, h)) \ f.latches[h] : IsLit(Arg(b), 0)
        /\ \A b \in f.latches[h] : Steps(Arg(b))
        /\ \E l, test \in InstsOf(f.p), b \in f.body[h] :
               /\ l.op = "load" /\ Reg(l.a) /\ Resolve(f, l.a.reg, {"use", "sext"}) = r
               /\ test.op \in {"eq", "ne"} /\ IsReg(test.a, l.dst) /\ IsLit(test.b, 0)
               /\ Leaves(b, test)
               /\ \A t \in f.latches[h] : dominates(DomTree(f.g), b, t)

(* Everything havoc_header asserts about the registers live at the header, but for two
   things it may get wrong: the bound of a scan that need not stop at its terminator, and
   in an execution that has passed an unsigned guard which the zones misread as a signed
   one (relational.rs:220-224) a difference. *)
FactsHold(f, h, entries, s, regs, misread) ==
    LET scalars == DOMAIN s \ f.p.ptrs IN
    /\ \A r \in scalars : IntervalFact(i_in[h][r], regs[r])
    /\ misread \/ \A d \in entry_diffs(h) : {d[1], d[2]} \subseteq scalars => DiffFact(regs[d[1]], regs[d[2]], d[3])
    /\ \A v \in recognize_int(f, h) : EqExitProven(v, entries) => EqExitFact(v, s, regs)
    /\ \A v \in eq_exit_ptr_indvars(f, h) :
           PtrWalkProven(v, f.p.size, entries) => PtrWalkFact(v, f.p.size, s, regs)
    /\ \A r \in SentinelScans(f, h) \cap scalars : StopsAtZero(f, h, r) => SentinelFact(regs[r], f.p.size)

-----------------------------------------------------------------------------
(* Properties of a finished analysis. *)

(* Evaluating a condition: a comparison, a conjunction or disjunction of
   comparisons. *)
eval_condition(cond, env) ==
    LET One(c) == compare_intervals(c.op, eval_operand(c.a, env), eval_operand(c.b, env))
        all == {One(c) : c \in cond.parts}
    IN  IF env = Unreachable THEN "True"
        ELSE IF cond.kind = "all" THEN Three(all \subseteq {"True"}, "False" \in all)
        ELSE Three("True" \in all, all \subseteq {"False"})

Meaning(cond, regs) ==
    LET Part(c) == Holds(c.op, Val(c.a, regs), Val(c.b, regs))
    IN  IF cond.kind = "all" THEN \A c \in cond.parts : Part(c) ELSE \E c \in cond.parts : Part(c)

(* What the interval analysis answers at instruction n of block b, a check. *)
Said(b, n) ==
    LET insts == fn.p.blocks[b].insts
    IN  eval_condition(insts[n].cond, IF i_in[b] = Unreachable THEN Unreachable
                                      ELSE FoldLeft(apply_inst, i_in[b], SubSeq(insts, 1, n - 1)))

(* The answer is right for an execution that enters the block in s. *)
CheckRight(s, n) ==
    LET block == fn.p.blocks[s.b]
        regs  == RunTo(block, n - 1, s.regs, s.run.mem)
    IN  Said(s.b, n) # "Unknown" /\ regs # <<>> =>
            Meaning(block.insts[n].cond, regs) = (Said(s.b, n) = "True")

(* Check n has an unsigned comparison that execution s makes otherwise than a signed one. *)
MisreadCheck(s, n) ==
    LET block == fn.p.blocks[s.b]
        regs  == RunTo(block, n - 1, s.regs, s.run.mem)
    IN  regs # <<>> /\ \E c \in block.insts[n].cond.parts : Misread(c, regs)

(* True is an answer for every execution that reaches the check, False for none: the
   verifier closes obligations by both without a solver.  Unsigned comparisons are decided
   as signed ones (cond.rs:61-64 says this is sound for non-negative values, and that
   the others go to the solver, which they do not): the answer is right where both come
   out the same. *)
TrivalentSound ==
    phase = "done" =>
        \A s \in Arrivals(fn) : \A n \in DOMAIN fn.p.blocks[s.b].insts :
            fn.p.blocks[s.b].insts[n].op = "check" => MisreadCheck(s, n) \/ CheckRight(s, n)

(* At every point of a block that an execution comes to, the registers have values of
   their intervals there. *)
InInterval(v, iv) == ~IsEmpty(iv) /\ iv[1] <= v /\ v <= iv[2]

IntervalsCover ==
    phase = "done" =>
        \A s \in Arrivals(fn) : \A n \in 0 .. Len(fn.p.blocks[s.b].insts) :
            LET block == fn.p.blocks[s.b]
                regs  == RunTo(block, n, s.regs, s.run.mem)
            IN  /\ i_in[s.b] # Unreachable
                /\ \A r \in DOMAIN regs :
                      InInterval(regs[r], FoldLeft(apply_inst, i_in[s.b], SubSeq(block.insts, 1, n))[r])

(* Every bound of the zone of a block, on a difference or on one register, holds in every
   execution that enters it and has passed no unsigned guard that is misread. *)
ZoneCovers ==
    phase = "done" /\ fn.index # {} =>
        \A s \in {x \in Arrivals(fn) : ~x.misread} :
            LET z == z_in[s.b]
                V(r) == IF r = 0 THEN 0 ELSE s.regs[r]
                known == (fn.index \cap DOMAIN s.regs) \cup {0}
            IN  ~z.bottom /\ \A a, b \in known : z.m[b][a] # PosInf => V(a) - V(b) <= z.m[b][a]

(* What the executor assumes of a loop's registers holds on every iteration,
   not only on the one it walks. *)
HeaderFactsHold ==
    phase = "done" =>
        LET arr == Arrivals(fn) IN
        \A h \in fn.headers :
            LET here == {s \in arr : s.b = h}
            IN  \A s \in here : FactsHold(fn, h, {x.starts[h] : x \in here}, s.starts[h], s.regs, s.misread)

(* A counter treated as genuine reaches every value that its guard and its
   interval admit, so a refutation at any of them is a real execution. *)
CountingExact ==
    phase = "done" =>
        LET arr == Arrivals(fn) IN
        \A h \in fn.headers : \A r \in {x \in Range(fn.p.blocks[h].params) : sound_counting_induction(fn, h, x)} :
            LET term == fn.p.blocks[h].term
                test == CHOOSE i \in InstsOf(fn.p) : i.op \in CmpOps /\ i.dst = Resolve(fn, term.cond, {"use"})
                here == {s \in arr : s.b = h}
            IN  \A s \in here : \A v \in -Half .. Half - 1 :
                    IntervalFact(i_in[h][r], v) /\ Holds(test.op, v, Val(test.b, s.starts[h])) =>
                        \E t \in here : t.run = s.run /\ t.starts = s.starts /\ t.regs[r] = v

(* How often a widened state can change: an environment is reached, then each register
   gets a value and loses one bound and the other; a zone is reached, then each entry of
   its matrix is lost. *)
EnvChanges  == 3 * Cardinality(fn.regs) + 1
ZoneChanges == (Max(fn.regs) + 1) * (Max(fn.regs) + 1) + 1

(* Widening bounds the work on every block, also on cycles whose header the
   loop detection does not see. *)
WorkBounded ==
    \A n \in DOMAIN updates :
        updates[n] <= FORCE_WIDEN_AFTER
                        + (IF phase = "interval" \/ fn.index = {} THEN EnvChanges ELSE ZoneChanges)

\* The types of the engine's state: a worklist without repeats, one state per block.
TypeOK ==
    /\ phase \in {"interval", "zone", "done"}
    /\ Range(worklist) \subseteq Nodes(fn.g) /\ IsInjective(worklist)
    /\ updates \in [Nodes(fn.g) -> Nat]
    /\ {DOMAIN i_in, DOMAIN i_out, DOMAIN z_in, DOMAIN z_out} = {Nodes(fn.g)}

\* Every value an execution has is in the interval computed for the point it is at, the
\* values it enters a block with satisfy the block's zone, differences and bounds alike,
\* and a check called true or false is.  Unsigned comparisons of values of different signs,
\* which the zones and the checks read as signed, are the exception.
DomainsCover == TrivalentSound /\ IntervalsCover /\ ZoneCovers


=============================================================================
