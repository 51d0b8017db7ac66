------------------------------- MODULE Absint -------------------------------
(***************************************************************************)
(* The abstract interpretation of crates/absint over one function: the     *)
(* interval analysis, then the zone analysis, each a run of engine::solve, *)
(* and the loop facts that the symbolic executor derives from them and     *)
(* from the recognised inductions when it enters a loop.                   *)
(*                                                                         *)
(* A program is [blocks, inputs, ptrs, size]: block 1 is the entry, inputs *)
(* gives the values of each parameter register, ptrs names the pointers,   *)
(* size is the number of elements of the one region, the last of them its  *)
(* zero terminator.  A block is [params, insts, term]; an instruction has  *)
(* op, dst and the operands a and b, each [reg] or [lit].  A pointer is    *)
(* its offset in the region, an element is one byte.                       *)
(***************************************************************************)
EXTENDS Integers, Sequences, FiniteSets, FiniteSetsExt, SequencesExt, TLC, FlowGraph

CONSTANTS
    Lim,                 \* the greatest i128
    Programs,
    MAX_VARS,            \* registers a zone may track
    FORCE_WIDEN_AFTER,
    Width,               \* bits of a register
    Overflow             \* "stop": executions end where arithmetic overflows
                         \* (the assumption linear-no-overflow), "wrap": they go on

ASSUME AbsintAssumption == {MAX_VARS, FORCE_WIDEN_AFTER, Width, Lim} \subseteq Nat
                           /\ Overflow \in {"stop", "wrap"}

VARIABLES
    phase,               \* "interval", "zone", "done"
    fn,                  \* the function with what both analyses share
    i_in, i_out,         \* solution of the interval analysis
    z_in, z_out,         \* solution of the zone analysis
    worklist, updates

vars == <<phase, fn, i_in, i_out, z_in, z_out, worklist, updates>>

-----------------------------------------------------------------------------
(* The lattices: intervals (interval.rs), their comparison (cond.rs) and differences
   (zone.rs).  A bound is an integer: i128 is -Lim - 1 .. Lim, the infinities are the two
   integers next to it, so the extended order is the order of the integers.  An
   interval is << >>, bottom, or <<lo, hi>>. *)

NegInf == -Lim - 2
PosInf == Lim + 1

(* checked_add, checked_mul: what leaves i128 becomes an infinity. *)
Saturate(n) == Max({NegInf, Min({PosInf, n})})
Infinite(b) == b \in {NegInf, PosInf}

BoundAdd(a, b) ==
    IF {a, b} = {NegInf, PosInf} THEN 0
    ELSE IF NegInf \in {a, b} THEN NegInf
    ELSE IF PosInf \in {a, b} THEN PosInf
    ELSE Saturate(a + b)

(* saturating_neg: the negation of the least integer is the greatest. *)
BoundNeg(a) ==
    CASE a = NegInf -> PosInf [] a = PosInf -> NegInf [] OTHER -> Min({-a, Lim})

Sign(n) == IF n > 0 THEN 1 ELSE IF n = 0 THEN 0 ELSE -1

BoundMul(a, b) ==
    IF 0 \in {a, b} THEN 0
    ELSE IF Infinite(a) \/ Infinite(b) THEN (IF Sign(a) = Sign(b) THEN PosInf ELSE NegInf)
    ELSE Saturate(a * b)

-----------------------------------------------------------------------------
Empty        == <<>>
Full         == <<NegInf, PosInf>>
singleton(n) == <<n, n>>
IsEmpty(i)   == i = Empty

meet(i, j) ==
    IF IsEmpty(i) \/ IsEmpty(j) THEN Empty
    ELSE LET lo == Max({i[1], j[1]})
             hi == Min({i[2], j[2]})
         IN  IF lo <= hi THEN <<lo, hi>> ELSE Empty

join(i, j) ==
    IF IsEmpty(i) THEN j ELSE IF IsEmpty(j) THEN i
    ELSE <<Min({i[1], j[1]}), Max({i[2], j[2]})>>

(* An unstable bound goes to its infinity. *)
widen(i, j) ==
    IF IsEmpty(i) THEN j ELSE IF IsEmpty(j) THEN i
    ELSE <<IF i[1] <= j[1] THEN i[1] ELSE NegInf, IF j[2] <= i[2] THEN i[2] ELSE PosInf>>

IAdd(i, j) ==
    IF IsEmpty(i) \/ IsEmpty(j) THEN Empty ELSE <<BoundAdd(i[1], j[1]), BoundAdd(i[2], j[2])>>

INeg(i) == IF IsEmpty(i) THEN Empty ELSE <<BoundNeg(i[2]), BoundNeg(i[1])>>

ISub(i, j) == IAdd(i, INeg(j))

(* The four corner products. *)
IMul(i, j) ==
    IF IsEmpty(i) \/ IsEmpty(j) THEN Empty
    ELSE LET ps == {BoundMul(a, b) : a \in {i[1], i[2]}, b \in {j[1], j[2]}}
         IN  <<Min(ps), Max(ps)>>

(* The half-lines below and above an interval a guard bounds a value by. *)
as_upper_constraint(i, strict) ==
    IF IsEmpty(i) THEN Empty ELSE <<NegInf, IF strict THEN BoundAdd(i[2], -1) ELSE i[2]>>
as_lower_constraint(i, strict) ==
    IF IsEmpty(i) THEN Empty ELSE <<IF strict THEN BoundAdd(i[1], 1) ELSE i[1], PosInf>>

-----------------------------------------------------------------------------
(* Comparison predicates: unsigned and signed order, equality. *)
Signed(op) ==
    CASE op = "ult" -> "slt" [] op = "ule" -> "sle" [] op = "ugt" -> "sgt"
      [] op = "uge" -> "sge" [] OTHER -> op

negate_cmp(op) ==
    CASE op = "slt" -> "sge" [] op = "sle" -> "sgt" [] op = "sgt" -> "sle"
      [] op = "sge" -> "slt" [] op = "ult" -> "uge" [] op = "ule" -> "ugt"
      [] op = "ugt" -> "ule" [] op = "uge" -> "ult" [] op = "eq"  -> "ne"
      [] op = "ne"  -> "eq"

Negate3(t) == CASE t = "True" -> "False" [] t = "False" -> "True" [] OTHER -> "Unknown"

Three(yes, no) == IF yes THEN "True" ELSE IF no THEN "False" ELSE "Unknown"

(* Every pair of values satisfies op, none does, or it depends.  An empty side
   leaves it open; unsigned predicates are read as signed ones. *)
compare_intervals(op, a, b) ==
    IF IsEmpty(a) \/ IsEmpty(b) THEN "Unknown"
    ELSE LET disjoint == a[2] < b[1] \/ b[2] < a[1]
             same     == a[1] = a[2] /\ b[1] = b[2] /\ a[1] = b[1]
             s        == Signed(op)
         IN  CASE s = "slt" -> Three(a[2] < b[1], b[2] <= a[1])
               [] s = "sle" -> Three(a[2] <= b[1], b[2] < a[1])
               [] s = "sgt" -> Three(b[2] < a[1], a[2] <= b[1])
               [] s = "sge" -> Three(b[2] <= a[1], a[2] < b[1])
               [] s = "eq"  -> Three(same, disjoint)
               [] s = "ne"  -> Negate3(Three(same, disjoint))

-----------------------------------------------------------------------------
(* Difference-bound matrices.  A zone is [m, bottom]; m[i][j] bounds vj - vi
   from above, PosInf being no bound, node 0 being the constant zero. *)
BottomZone   == [m |-> <<>>, bottom |-> TRUE]
TopZone(n)   == [bottom |-> FALSE,
                 m |-> [i \in 0 .. n |-> [j \in 0 .. n |-> IF i = j THEN 0 ELSE PosInf] @@ <<>>] @@ <<>>]
Side(z)      == DOMAIN z.m

(* The matrix of F(i, j), its entries evaluated once. *)
Matrix(side, F(_, _)) == [i \in side |-> [j \in side |-> F(i, j)] @@ <<>>] @@ <<>>

(* saturating_add of two bounds, infinity absorbing. *)
DAdd(a, b) == IF PosInf \in {a, b} THEN PosInf ELSE Max({-Lim - 1, Min({Lim, a + b})})

(* Floyd-Warshall; a negative cycle makes the zone empty. *)
close(z) ==
    LET n == Max(Side(z))
        Through(m, k) == Matrix(Side(z), LAMBDA i, j : Min({m[i][j], DAdd(m[i][k], m[k][j])}))
        m == FoldLeft(Through, z.m, [k \in 1 .. n + 1 |-> k - 1])
    IN  [m |-> m, bottom |-> \E i \in Side(z) : m[i][i] < 0]

(* va - vb <= c. *)
add_constraint(z, a, b, c) ==
    IF z.bottom THEN z ELSE close([z EXCEPT !.m[b][a] = Min({@, c})])

(* va - vb = c. *)
Relate(z, a, b, c) == add_constraint(add_constraint(z, a, b, c), b, a, -c)

forget(z, k) ==
    IF z.bottom THEN z
    ELSE [z EXCEPT !.m = Matrix(Side(z), LAMBDA i, j :
             IF k \notin {i, j} THEN z.m[i][j] ELSE IF i = j THEN 0 ELSE PosInf)]

(* vk := vk + c. *)
translate(z, k, c) ==
    IF z.bottom THEN z
    ELSE [z EXCEPT !.m = Matrix(Side(z), LAMBDA i, j :
             IF i = j \/ k \notin {i, j} THEN z.m[i][j]
             ELSE DAdd(z.m[i][j], IF j = k THEN c ELSE -c))]

ZJoin(z, w) ==
    IF z.bottom THEN w ELSE IF w.bottom THEN z
    ELSE [z EXCEPT !.m = Matrix(Side(z), LAMBDA i, j : Max({z.m[i][j], w.m[i][j]}))]

(* Keep-if-equal. *)
ZWiden(z, w) ==
    IF z.bottom THEN w ELSE IF w.bottom THEN z
    ELSE [z EXCEPT !.m = Matrix(Side(z), LAMBDA i, j :
             IF z.m[i][j] = w.m[i][j] THEN z.m[i][j] ELSE PosInf)]

-----------------------------------------------------------------------------
(* Programs. *)
Reg(o)     == "reg" \in DOMAIN o
IsReg(o, r) == Reg(o) /\ o.reg = r
IsLit(o, c) == ~Reg(o) /\ o.lit = c

CmpOps  == {"slt", "sle", "sgt", "sge", "ult", "ule", "ugt", "uge", "eq", "ne"}
Defs(block) == Range(block.params)
                   \cup {block.insts[i].dst : i \in {k \in DOMAIN block.insts : block.insts[k].op # "check"}}
InstsOf(p) == UNION {Range(p.blocks[b].insts) : b \in DOMAIN p.blocks}
Regs(p)    == DOMAIN p.inputs \cup UNION {Defs(p.blocks[b]) : b \in DOMAIN p.blocks}

(* Out-edges [to, args] in the order of the terminator. *)
OutEdges(term) ==
    CASE term.op = "ret"    -> <<>>
      [] term.op = "br"     -> <<[to |-> term.to, args |-> term.args]>>
      [] term.op = "condbr" -> <<[to |-> term.then_blk, args |-> term.then_args],
                                 [to |-> term.else_blk, args |-> term.else_args]>>

(* What the IR guarantees of a program: an operand is an i128 or a register of the
   function, an edge leads to a block and has an argument for each of its parameters. *)
TypedOperand(p, o) == IF Reg(o) THEN o.reg \in Regs(p) ELSE o.lit \in -Lim - 1 .. Lim
TypedInst(p, i) ==
    /\ i.op \in CmpOps \cup {"check", "use", "sext", "add", "sub", "mul", "ptroff", "trunc", "load"}
    /\ IF i.op = "check" THEN \A c \in i.cond.parts : TypedOperand(p, c.a) /\ TypedOperand(p, c.b)
       ELSE TypedOperand(p, i.a) /\ TypedOperand(p, i.b)
TypedBlock(p, block) ==
    /\ block.insts \in Seq(Range(block.insts))
    /\ \A k \in DOMAIN block.insts : TypedInst(p, block.insts[k])
    /\ block.term.op \in {"ret", "br", "condbr"}
    /\ \A k \in DOMAIN OutEdges(block.term) :
           LET e == OutEdges(block.term)[k]
           IN  /\ e.to \in DOMAIN p.blocks
               /\ \A j \in DOMAIN p.blocks[e.to].params : TypedOperand(p, e.args[j])
TypedProgram(p) ==
    /\ Len(p.blocks) \in Nat \ {0} /\ DOMAIN p.blocks = 1 .. Len(p.blocks)
    /\ IsFiniteSet(Regs(p))
    /\ \A b \in DOMAIN p.blocks : TypedBlock(p, p.blocks[b])

ASSUME ProgramsAssumption == \A p \in Programs : TypedProgram(p)

GraphOf(p) == [node_count |-> Len(p.blocks), entry |-> 1,
               succ |-> [b \in DOMAIN p.blocks |->
                            [i \in DOMAIN OutEdges(p.blocks[b].term) |->
                                OutEdges(p.blocks[b].term)[i].to]]]

(* A register's defining instruction under ops; SSA gives it at most one. *)
DefsBy(p, ops) == [r \in {i.dst : i \in {j \in InstsOf(p) : j.op \in ops}} |->
                      CHOOSE i \in InstsOf(p) : i.op \in ops /\ i.dst = r]
collect_cmps(p)   == DefsBy(p, CmpOps)
collect_copies(p) == LET uses == DefsBy(p, {"use"})
                     IN  [r \in {x \in DOMAIN uses : Reg(uses[x].a)} |-> uses[r].a.reg]

(* The function with its graph, loops, comparison and copy maps; a function
   with too many registers gets no zones. *)
FunctionOf(p) ==
    LET g       == GraphOf(p)
        idom    == DomTree(g)
        hs      == Headers(g, idom)
        defined == UNION {Defs(p.blocks[b]) : b \in DOMAIN p.blocks}
    IN  [p |-> p, g |-> g, rpo |-> reverse_postorder(g), headers |-> hs,
         latches |-> [h \in hs |-> Latches(g, idom, h)],
         body |-> [h \in hs |-> natural_loop_body(g, h, Latches(g, idom, h))],
         regs |-> Regs(p), cmps |-> collect_cmps(p), copies |-> collect_copies(p),
         index |-> IF Cardinality(defined) > MAX_VARS THEN {} ELSE defined]

-----------------------------------------------------------------------------
(* The interval analysis.  A state is << >>, unreachable, or an environment. *)
Unreachable == <<>>
Top(f)      == [r \in f.regs |-> Full]

eval_operand(o, env) == IF Reg(o) THEN env[o.reg] ELSE singleton(o.lit)

eval_rvalue(i, env) ==
    LET a == eval_operand(i.a, env) IN
    CASE i.op \in {"use", "sext"} -> a
      [] i.op = "add"             -> IAdd(a, eval_operand(i.b, env))
      [] i.op = "sub"             -> ISub(a, eval_operand(i.b, env))
      [] i.op = "mul"             -> IMul(a, eval_operand(i.b, env))
      [] i.op \in CmpOps          -> <<0, 1>>
      [] OTHER                    -> Full

apply_inst(env, i) == IF i.op = "check" THEN env ELSE [env EXCEPT ![i.dst] = eval_rvalue(i, env)]

IntervalBlock(f, b, env) ==
    IF env = Unreachable THEN env ELSE FoldLeft(apply_inst, env, f.p.blocks[b].insts)

(* Bound: copy chains end within the registers of the function. *)
CopyChain(f, r) ==
    LET chain[k \in 0 .. Cardinality(f.regs)] ==
            IF k = 0 THEN r
            ELSE IF chain[k - 1] \in DOMAIN f.copies THEN f.copies[chain[k - 1]] ELSE chain[k - 1]
    IN  Range(chain)

refine_reg(f, env, r, iv) == [x \in f.regs |-> IF x \in CopyChain(f, r) THEN meet(env[x], iv) ELSE env[x]]

(* lhs op rhs holds: both sides shrink, from the intervals read before. *)
refine_by_cmp(f, env, op, lhs, rhs) ==
    LET li == eval_operand(lhs, env)
        ri == eval_operand(rhs, env)
        strict == op \in {"slt", "sgt"}
        nl == CASE op \in {"slt", "sle"} -> as_upper_constraint(ri, strict)
                [] op \in {"sgt", "sge"} -> as_lower_constraint(ri, strict)
                [] op = "eq" -> ri
        nr == CASE op \in {"slt", "sle"} -> as_lower_constraint(li, strict)
                [] op \in {"sgt", "sge"} -> as_upper_constraint(li, strict)
                [] op = "eq" -> li
        left == IF Reg(lhs) THEN refine_reg(f, env, lhs.reg, meet(li, nl)) ELSE env
    IN  IF op \notin {"slt", "sle", "sgt", "sge", "eq"} THEN env
        ELSE IF Reg(rhs) THEN refine_reg(f, left, rhs.reg, meet(ri, nr)) ELSE left

EnvJoin(a, b) ==
    IF a = Unreachable THEN b ELSE IF b = Unreachable THEN a
    ELSE [r \in DOMAIN a |-> join(a[r], b[r])]
EnvWiden(a, b) ==
    IF a = Unreachable THEN b ELSE IF b = Unreachable THEN a
    ELSE [r \in DOMAIN a |-> widen(a[r], b[r])]

(* The comparison that the edge from -> to asserts, none when the branch has
   both its sides on that edge. *)
Guard(f, from, to) ==
    LET term == f.p.blocks[from].term IN
    IF term.op # "condbr" \/ term.cond \notin DOMAIN f.cmps \/ (term.then_blk = to /\ term.else_blk = to)
    THEN <<>>
    ELSE LET c == f.cmps[term.cond]
         IN  <<[op |-> IF term.else_blk = to THEN negate_cmp(c.op) ELSE c.op, a |-> c.a, b |-> c.b]>>

(* The guard refines the exit state, then every argument list that goes to the
   target binds its parameters from it. *)
IntervalEdge(f, from, to, exit) ==
    IF exit = Unreachable THEN exit
    ELSE LET env == FoldLeft(LAMBDA e, c : refine_by_cmp(f, e, c.op, c.a, c.b), exit, Guard(f, from, to))
             params == f.p.blocks[to].params
             Bound(e) == IF e.to # to THEN Unreachable
                         ELSE [r \in f.regs |-> IF r \in Range(params)
                                                THEN eval_operand(e.args[CHOOSE k \in DOMAIN params : params[k] = r], env)
                                                ELSE env[r]]
         IN  FoldLeft(LAMBDA acc, e : EnvJoin(acc, Bound(e)), Unreachable, OutEdges(f.p.blocks[from].term))

I == INSTANCE Fixpoint WITH
         Bottom <- Unreachable, Join <- EnvJoin, Widen <- EnvWiden, EntryState <- Top,
         TransferBlock <- IntervalBlock, TransferEdge <- IntervalEdge,
         in_states <- i_in, out_states <- i_out

-----------------------------------------------------------------------------
(* The zone analysis.  A zone is indexed by the registers themselves. *)
ZoneTop(f) == TopZone(Max(f.regs))

(* dst := c, dst := src + c; an untracked source is forgotten. *)
SetConst(z, d, c) == Relate(forget(z, d), d, 0, c)

(* Wrong variant: what held of the old value is kept. *)
MutSetAffineKeeps(f, z, d, src, c) == IF src \in f.index THEN Relate(z, d, src, c) ELSE z

SetAffine(f, z, d, src, c) == IF src \in f.index THEN Relate(forget(z, d), d, src, c) ELSE forget(z, d)

ZoneInst(f, z, i) ==
    LET c == IF i.op = "sub" THEN -i.b.lit ELSE i.b.lit IN
    CASE i.op = "check" -> z
      [] i.op = "use" -> IF Reg(i.a) THEN SetAffine(f, z, i.dst, i.a.reg, 0) ELSE SetConst(z, i.dst, i.a.lit)
      [] i.op \in {"add", "sub"} /\ Reg(i.a) /\ ~Reg(i.b) ->
             IF i.a.reg = i.dst THEN translate(z, i.dst, c) ELSE SetAffine(f, z, i.dst, i.a.reg, c)
      [] OTHER -> forget(z, i.dst)

ZoneBlock(f, b, z) == IF z.bottom THEN z ELSE FoldLeft(LAMBDA w, i : ZoneInst(f, w, i), z, f.p.blocks[b].insts)

(* An operand as <<index, offset>>; only tracked registers and constants refine. *)
Tracked(f, o) == Reg(o) => o.reg \in f.index
ZoneOperand(o) == IF Reg(o) THEN <<o.reg, 0>> ELSE <<0, o.lit>>

refine(f, z, g) ==
    LET a == ZoneOperand(g.a)
        b == ZoneOperand(g.b)
        Le(w, x, y, slack) == add_constraint(w, x[1], y[1], y[2] - x[2] - slack)
        op == Signed(g.op)
    IN  IF ~Tracked(f, g.a) \/ ~Tracked(f, g.b) THEN z
        ELSE CASE op = "sle" -> Le(z, a, b, 0)  [] op = "slt" -> Le(z, a, b, 1)
               [] op = "sge" -> Le(z, b, a, 0)  [] op = "sgt" -> Le(z, b, a, 1)
               [] op = "eq"  -> Le(Le(z, a, b, 0), b, a, 0)
               [] op = "ne"  -> z

(* The guard, read as the then side when both sides meet; parameters are bound
   one after the other from the first argument list that goes to the target. *)
ZoneEdge(f, from, to, exit) ==
    IF exit.bottom THEN exit
    ELSE LET term    == f.p.blocks[from].term
             both    == term.op = "condbr" /\ term.then_blk = term.else_blk /\ term.cond \in DOMAIN f.cmps
             guarded == FoldLeft(LAMBDA w, g : refine(f, w, g), exit,
                                 IF both THEN <<f.cmps[term.cond]>> ELSE Guard(f, from, to))
             args    == SelectSeq(OutEdges(term), LAMBDA e : e.to = to)[1].args
             params  == f.p.blocks[to].params
         IN  FoldLeft(LAMBDA w, k :
                          IF params[k] \notin f.index THEN w
                          ELSE IF Reg(args[k]) THEN SetAffine(f, w, params[k], args[k].reg, 0)
                               ELSE SetConst(w, params[k], args[k].lit),
                      guarded, [k \in DOMAIN params |-> k])

Z == INSTANCE Fixpoint WITH
         Bottom <- BottomZone, Join <- ZJoin, Widen <- ZWiden, EntryState <- ZoneTop,
         TransferBlock <- ZoneBlock, TransferEdge <- ZoneEdge,
         in_states <- z_in, out_states <- z_out

(* Differences a - b <= c between registers on entry to a block. *)
entry_diffs(b) ==
    IF fn.index = {} \/ z_in[b].bottom THEN {}
    ELSE {<<q[1], q[2], z_in[b].m[q[2]][q[1]]>> : q \in {x \in fn.index \X fn.index :
             x[1] # x[2] /\ z_in[b].m[x[2]][x[1]] # PosInf}}

-----------------------------------------------------------------------------
Init ==
    /\ phase = "interval"
    /\ I!Init({FunctionOf(p) : p \in Programs})
    /\ z_in  = [n \in Nodes(fn.g) |-> BottomZone]
    /\ z_out = [n \in Nodes(fn.g) |-> BottomZone]

IntervalStep == phase = "interval" /\ I!Step /\ UNCHANGED <<phase, z_in, z_out>>

(* analyze_zones starts its own solve, unless there is nothing to track. *)
StartZones ==
    /\ phase = "interval" /\ I!Solved
    /\ IF fn.index = {} THEN phase' = "done" /\ UNCHANGED <<worklist, updates>>
       ELSE /\ phase' = "zone" /\ worklist' = fn.rpo
            /\ updates' = [n \in Nodes(fn.g) |-> 0]
    /\ UNCHANGED <<fn, i_in, i_out, z_in, z_out>>

ZoneStep == phase = "zone" /\ Z!Step /\ UNCHANGED <<phase, i_in, i_out>>

Finish ==
    /\ phase = "zone" /\ Z!Solved
    /\ phase' = "done"
    /\ UNCHANGED <<fn, i_in, i_out, z_in, z_out, worklist, updates>>

Done == phase = "done" /\ UNCHANGED vars

Next == IntervalStep \/ StartZones \/ ZoneStep \/ Finish \/ Done

Spec == Init /\ [][Next]_vars

=============================================================================
