------------------------------- MODULE SymExec -------------------------------
(***************************************************************************)
(* The symbolic executor of crates/symbolic: run_merged walks the blocks   *)
(* of one function in reverse postorder, each once, merging the states of  *)
(* the edges that reach a block, replacing what a loop may change by fresh *)
(* symbols at its header, deciding the block's obligation and queueing its *)
(* out-edges; the verifier then turns decisions into outcomes.             *)
(*                                                                         *)
(* Data.  A register holds one of two values, told apart by the branches   *)
(* and the obligations: nonzero (a condition that is true, an index out of *)
(* bounds) and zero.  An expression is the set of assignments under which  *)
(* it is nonzero; an assignment is the set of symbols that are nonzero in  *)
(* it.  Two ExprIds that denote the same function are one expression here. *)
(*                                                                         *)
(* The walk is over the function as Mem2Reg has rewritten it; executions,  *)
(* which judge it, are those of the function as it was.  What is stored in *)
(* a slot that stays in memory is not followed: a load from it gives any   *)
(* value.  The parameters of the function are the registers                *)
(* 1 .. NumInputs.                                                         *)
(***************************************************************************)
EXTENDS Mem2Reg

CONSTANTS
    Programs,       \* the functions to be analysed
    NumInputs,      \* scalar parameters, the symbols arg0, arg1, ...
    MaxFresh,       \* bound: fresh symbols a run may mint
    max_visits,     \* ExecLimits: the visit budget
    HasDeadline     \* whether a wall-clock budget is set

ASSUME SymExecAssumption ==
    /\ NumInputs \in Nat /\ MaxFresh \in Nat /\ max_visits \in Nat
    /\ HasDeadline \in BOOLEAN

VARIABLES
    source,         \* the function, and whether it is analysed in bug-finding mode
    prog,           \* the function with its slots promoted
    flow,           \* its graph, reverse postorder, dominators and loops
    i_in, i_out,    \* the solution of the interval analysis, and its work
    worklist, updates,
    arrivals,       \* per block, the <<inputs, registers, slots>> executions enter it with
    pos,            \* position in the reverse postorder
    incoming,       \* per block, the edges queued so far
    fresh,          \* fresh symbols minted
    visits,
    truncated,
    pruned_succs,
    visited_blocks,
    decisions,      \* per block, the decision recorded for its obligation
    entered,        \* per visited block, the state its instructions start from
    outcome         \* per block, the result reported for its obligation

intervals == <<i_in, i_out, worklist, updates>>
given     == <<source, prog, flow, arrivals, intervals>>
vars      == <<given, pos, incoming, fresh, visits, truncated,
               pruned_succs, visited_blocks, decisions, entered, outcome>>

-----------------------------------------------------------------------------
(* Expressions. *)
Inputs == 1 .. NumInputs
Sym    == 1 .. NumInputs + MaxFresh
Asg    == SUBSET Sym

Symbol(s)     == {a \in Asg : s \in a}
Literal(v)    == IF v = 1 THEN Asg ELSE {}
Not(e)        == Asg \ e
Ite(d, t, e)  == (d \cap t) \cup (e \ d)
And(conds)    == {a \in Asg : \A c \in conds : a \in c}

(* The symbols an expression depends on. *)
syms(e) == {s \in Sym : \E a \in e : (IF s \in a THEN a \ {s} ELSE a \cup {s}) \notin e}

(* An undefined operand is a fresh symbol each time it is evaluated. *)
eval_value(op, env, s) ==
    IF "reg" \in DOMAIN op THEN env[op.reg]
    ELSE IF "lit" \in DOMAIN op THEN Literal(op.lit) ELSE Symbol(s)

FreshAt(n) == NumInputs + n + 1

Undefined(op) == IF op = Undef THEN 1 ELSE 0

-----------------------------------------------------------------------------
(* The function: what is computed before the walk (the order, the dominators, the
   loop headers and the registers each loop may redefine) and its instructions. *)
FlowOf(p) ==
    LET g    == GraphOf(p)
        idom == DomTree(g)
        hs   == Headers(g, idom)
    IN  [p |-> p, g |-> g, rpo |-> reverse_postorder(g), idom |-> idom, headers |-> hs,
         regs |-> Inputs \cup UNION {Defines(p.blocks[b]) : b \in Blocks(p)},
         loop_modified |->
             [h \in hs |-> UNION {Defines(p.blocks[b]) :
                           b \in natural_loop_body(g, h, Latches(g, idom, h))}]]

(* Assign: dst := src, or the comparison src = 0.  The address of a slot is not zero. *)
ApplyInst(s, i) ==
    CASE i.op = "store"  -> s
      [] i.op = "alloc"  -> [s EXCEPT !.env = (i.dst :> Literal(1)) @@ @]
      [] i.op = "load"   -> [env |-> (i.dst :> Symbol(FreshAt(s.fresh))) @@ s.env, fresh |-> s.fresh + 1]
      [] i.op = "assign" ->
            LET v == eval_value(i.src, s.env, FreshAt(s.fresh))
            IN  [env |-> (i.dst :> IF i.neg THEN Not(v) ELSE v) @@ s.env,
                 fresh |-> s.fresh + Undefined(i.src)]

ApplyInsts(insts, env, n) == FoldLeft(ApplyInst, [env |-> env, fresh |-> n], insts)

-----------------------------------------------------------------------------
(* Concrete executions, the reference the analysis is judged by. *)
EvalBit(op, env) == IF "reg" \in DOMAIN op THEN env[op.reg] ELSE op.lit

(* A value is 0, 1 or the address of a slot; a slot that was not written yet holds
   no value.  An access of another type than the slot's sees or changes a part of
   the value.  An execution goes no further than a read of what was not written or
   an access through what is no address. *)
Address(a) == 10 + a
Unwritten  == -1
Slots(mem, v) == {a \in DOMAIN mem : Address(a) = v}

RunInst(s, i) ==
    CASE i.op = "alloc" ->
            {[env |-> (i.dst :> Address(i.dst)) @@ s.env,
              mem |-> (i.dst :> [val |-> Unwritten, ty |-> i.ty]) @@ s.mem]}
      [] i.op = "load" ->
            {[s EXCEPT !.env = (i.dst :> v) @@ @] :
                v \in UNION {LET c == s.mem[a] IN IF c.val = Unwritten THEN {}
                                                 ELSE IF c.ty = i.ty THEN {c.val} ELSE {0, 1} :
                             a \in Slots(s.mem, EvalBit(i.ptr, s.env))}}
      [] i.op = "store" ->
            UNION {{[s EXCEPT !.mem[a].val = v] :
                       v \in IF s.mem[a].ty = i.ty THEN {EvalBit(i.val, s.env)} ELSE {0, 1}} :
                   a \in Slots(s.mem, EvalBit(i.ptr, s.env))}
      [] i.op = "assign" ->
            LET v == EvalBit(i.src, s.env)
            IN  {[s EXCEPT !.env = (i.dst :> IF i.neg THEN 1 - v ELSE v) @@ @]}

(* The states in which the instructions of a block end. *)
RunInsts(insts, env, mem) ==
    FoldLeft(LAMBDA S, i : UNION {RunInst(s, i) : s \in S}, {[env |-> env, mem |-> mem]}, insts)

BindBits(params, args, env) ==
    [r \in Range(params) |-> EvalBit(args[CHOOSE j \in DOMAIN params : params[j] = r], env)]
        @@ env

(* The edge a concrete state leaves a block by: <<block, arguments>>. *)
Taken(term, env) ==
    CASE term.op = "ret"    -> {}
      [] term.op = "br"     -> {<<term.to, term.args>>}
      [] term.op = "condbr" -> IF env[term.cond] = 1 THEN {<<term.then_blk, term.then_args>>}
                               ELSE {<<term.else_blk, term.else_args>>}
      [] term.op = "switch" ->
             LET hits == {i \in DOMAIN term.cases : term.cases[i].val = env[term.value]}
             IN  IF hits = {} THEN {<<term.default, <<>>>>}
                 ELSE {<<term.cases[CHOOSE i \in hits : \A j \in hits : i <= j].to, <<>>>>}

(* The states that follow s = <<block, inputs, registers, slots>> at its entry. *)
ConcreteNext(p, s) ==
    LET block == p.blocks[s[1]]
    IN  UNION {{<<t[1], s[2], BindBits(p.blocks[t[1]].params, t[2], e.env), e.mem>> :
                   t \in Taken(block.term, e.env)} : e \in RunInsts(block.insts, s[3], s[4])}

(* Bound: the steps after which no new concrete state appears. *)
MaxSteps(p) == Len(p.blocks) * 4

ArrivalsOf(p) ==
    LET start == {<<1, in, [r \in Inputs |-> IF r \in in THEN 1 ELSE 0], <<>>>> : in \in SUBSET Inputs}
        all   == Iterate(LAMBDA S : S \cup UNION {ConcreteNext(p, s) : s \in S},
                         start, MaxSteps(p))
    IN  [b \in Blocks(p) |-> {<<s[2], s[3], s[4]>> : s \in {x \in all : x[1] = b}}]

(* The values the register of b's obligation can have when the execution that
   enters b as s comes to it. *)
Checked(b, s) ==
    LET block == source.blocks[b]
    IN  {e.env[block.check.reg] : e \in RunInsts(block.insts, s[2], s[3])}

Violates(b, s) == Checked(b, s) \ {0} # {}

HasCheck(p, b) == p.blocks[b].check.kind # "none"

-----------------------------------------------------------------------------
(* Solver queries on a path state [env, pathcond, facts, exact].  A query that
   holds may still run into the solver's valve and be answered "not proved". *)
Assumptions(st) == Range(st.pathcond) \cup st.facts

Answers(holds) == IF holds THEN BOOLEAN ELSE {FALSE}

(* branch_infeasible: the assumptions are left out when none of them shares a
   symbol with the condition. *)
Infeasible(cond, st) ==
    LET cvars  == syms(cond)
        shares == cvars = {} \/ \E a \in Assumptions(st) : syms(a) \cap cvars # {}
    IN  And(IF shares THEN Assumptions(st) ELSE {}) \subseteq Not(cond)

(* relevant_assumptions: the assumptions connected to the goal by symbols, the
   cone of symbols growing until it is closed. *)
Relevant(goal, all) ==
    LET avars      == [a \in all |-> syms(a)]
        Grow(cone) == cone \cup UNION {v \in Range(avars) : v \cap cone # {}}
        closed     == Iterate(Grow, syms(goal), Cardinality(Sym))
    IN  {a \in all : avars[a] \cap closed # {}}

Provable(goal, st) == And(Relevant(goal, Assumptions(st))) \subseteq goal

(* goal_has_param, goal_is_genuine: the symbols of the inputs are arg0, arg1...,
   every other symbol is a ?0, ?1... *)
goal_has_param(goal)  == syms(goal) \cap Inputs # {}
goal_is_genuine(goal) == syms(goal) \subseteq (IF prog.exported THEN Inputs ELSE {})

(* Wrong variant: the gate forgets that the path must be exact. *)
MutgateInexact(goal, st, mode) == ~(~prog.exported /\ goal_has_param(goal))

gate(goal, st, mode) ==
    \/ st.exact /\ ~(~prog.exported /\ goal_has_param(goal))
    \/ source.bug_finding /\ mode = "Possible" /\ goal_is_genuine(goal)

(* A scalar check is refuted when it fails on all of the path, a memory access
   when it fails on some of it. *)
try_refute(goal, st, mode) ==
    /\ And(Assumptions(st)) \cap Not(goal) # {}
    /\ mode = "Definite" => And(Assumptions(st)) \subseteq Not(goal)

decide(goal, st, mode) ==
    {"Unknown"} \cup (IF Provable(goal, st) THEN {"Proven"}
                      ELSE IF gate(goal, st, mode) /\ try_refute(goal, st, mode)
                           THEN {"Refuted"} ELSE {})

(* The decisions the step of b's obligation can record in state st. *)
Decisions(b, st) ==
    LET check == prog.blocks[b].check
    IN  CASE check.kind = "none"   -> {"none"}
          [] check.kind = "scalar" -> decide(Not(st.env[check.reg]), st, "Definite")
          [] check.kind = "mem"    -> decide(Not(st.env[check.reg]), st, "Possible")

-----------------------------------------------------------------------------
(* Merging.  An edge is [pred_state, guard, args]; guard is a sequence of at
   most one expression. *)
bind_params_into(params, args, env) ==
    LET Nth(j) == Cardinality({i \in 1 .. j - 1 : args[i] = Undef})
        Arg(j) == eval_value(args[j], env, FreshAt(fresh + Nth(j)))
    IN  [r \in Range(params) |-> Arg(CHOOSE j \in DOMAIN params : params[j] = r)] @@ env

(* An edge's discriminator: its path condition and its guard. *)
Disc(e) == And(Range(e.pred_state.pathcond \o e.guard))

(* Wrong variant: the path condition is taken from the first edge. *)
MutCommonPrefixFirst(edges) == edges[1].pred_state.pathcond

(* The longest common prefix of the edges' path conditions, without guards. *)
CommonPrefix(edges) ==
    LET first    == edges[1].pred_state.pathcond
        Common(k) == \A j \in DOMAIN edges :
                        /\ k <= Len(edges[j].pred_state.pathcond)
                        /\ edges[j].pred_state.pathcond[k] = first[k]
        len      == CHOOSE n \in 0 .. Len(first) :
                        /\ \A k \in 1 .. n : Common(k)
                        /\ n < Len(first) => ~Common(n + 1)
    IN  SubSeq(first, 1, len)

merge_core(edges) ==
    [env      |-> edges[1].pred_state.env,
     pathcond |-> CommonPrefix(edges),
     facts    |-> {f \in edges[1].pred_state.facts :
                      \A j \in DOMAIN edges : f \in edges[j].pred_state.facts},
     exact    |-> FALSE]

(* The ITE over the discriminators, the last edge being the final else. *)
merge_values(edges, vals) ==
    LET acc[k \in 1 .. Len(edges)] ==
            IF k = Len(edges) THEN vals[k] ELSE Ite(Disc(edges[k]), vals[k], acc[k + 1])
    IN  acc[1]

merge_multi(params, edges) ==
    LET core == merge_core(edges)
        Nth(j, k) == Cardinality({e \in (1 .. j) \X (DOMAIN edges) :
                         (e[1] < j \/ e[2] < k) /\ edges[e[2]].args[e[1]] = Undef})
        Phi(j) == merge_values(edges, [k \in DOMAIN edges |->
                      eval_value(edges[k].args[j], edges[k].pred_state.env, FreshAt(fresh + Nth(j, k)))])
    IN  [core EXCEPT !.env =
            [r \in Range(params) |-> Phi(CHOOSE j \in DOMAIN params : params[j] = r)] @@ @]

merge_edges(params, edges) ==
    IF Len(edges) = 1
    THEN LET e == edges[1]
         IN  [e.pred_state EXCEPT !.pathcond = @ \o e.guard,
                                  !.env = bind_params_into(params, e.args, @)]
    ELSE merge_multi(params, edges)

(* The symbols a merge mints, for arguments that are undefined. *)
MergeMints(edges) ==
    Cardinality({<<k, j>> \in UNION {{k} \X (DOMAIN edges[k].args) : k \in DOMAIN edges} :
                     edges[k].args[j] = Undef})

-----------------------------------------------------------------------------
(* The interval analysis (absint/src/analysis.rs): a run of engine::solve over the
   rewritten function, before the walk.  A state is << >>, unreachable, or an interval for
   every register: << >>, empty, or its two bounds, -1 and 2 being the infinities. *)
Unreachable == <<>>
Full        == <<-1, 2>>

IvMeet(i, j) ==
    IF i = <<>> \/ j = <<>> \/ Max({i[1], j[1]}) > Min({i[2], j[2]}) THEN <<>>
    ELSE <<Max({i[1], j[1]}), Min({i[2], j[2]})>>
IvJoin(i, j) ==
    IF i = <<>> THEN j ELSE IF j = <<>> THEN i ELSE <<Min({i[1], j[1]}), Max({i[2], j[2]})>>
IvWiden(i, j) ==
    IF i = <<>> THEN j ELSE IF j = <<>> THEN i
    ELSE <<IF i[1] <= j[1] THEN i[1] ELSE -1, IF j[2] <= i[2] THEN i[2] ELSE 2>>

EnvWith(Op(_, _), a, b) ==
    IF a = Unreachable THEN b ELSE IF b = Unreachable THEN a ELSE [r \in DOMAIN a |-> Op(a[r], b[r])]
EnvJoin(a, b)  == EnvWith(IvJoin, a, b)
EnvWiden(a, b) == EnvWith(IvWiden, a, b)
EnvTop(f)      == [r \in f.regs |-> Full]

IvOperand(op, env) ==
    IF "reg" \in DOMAIN op THEN env[op.reg] ELSE IF "lit" \in DOMAIN op THEN <<op.lit, op.lit>> ELSE Full

(* A comparison is 0 or 1; nothing is known of a load or an address. *)
IvInst(env, i) ==
    CASE i.op = "store"  -> env
      [] i.op = "assign" -> [env EXCEPT ![i.dst] = IF i.neg THEN <<0, 1>> ELSE IvOperand(i.src, env)]
      [] OTHER           -> [env EXCEPT ![i.dst] = Full]

IntervalBlock(f, b, env) ==
    IF env = Unreachable THEN env ELSE FoldLeft(IvInst, env, f.p.blocks[b].insts)

Assigns(f, neg) ==
    {i \in UNION {Range(f.p.blocks[b].insts) : b \in Blocks(f.p)} : i.op = "assign" /\ i.neg = neg}

(* The registers r is a copy of, itself included. *)
CopyChain(f, r) ==
    Iterate(LAMBDA S : S \cup {i.src.reg : i \in {c \in Assigns(f, FALSE) :
                                    c.dst \in S /\ "reg" \in DOMAIN c.src}},
            {r}, Cardinality(f.regs))

(* The then side of a branch on src = 0 has src, and what it copies, at zero; the
   other side asserts src # 0, which refines nothing. *)
Refined(f, from, to, env) ==
    LET term == f.p.blocks[from].term
        cmps == {i \in Assigns(f, TRUE) : /\ term.op = "condbr" /\ i.dst = term.cond /\ "reg" \in DOMAIN i.src
                                          /\ term.then_blk = to /\ term.else_blk # to}
        zero == UNION {CopyChain(f, i.src.reg) : i \in cmps}
    IN  [r \in f.regs |-> IF r \in zero THEN IvMeet(env[r], <<0, 0>>) ELSE env[r]]

(* A switch edge binds no parameter. *)
IntervalEdge(f, from, to, exit) ==
    LET term   == f.p.blocks[from].term
        params == f.p.blocks[to].params
        env    == Refined(f, from, to, exit)
        args   == CASE term.op = "br"     -> {term.args}
                    [] term.op = "condbr" -> (IF term.then_blk = to THEN {term.then_args} ELSE {})
                                                 \cup (IF term.else_blk = to THEN {term.else_args} ELSE {})
                    [] OTHER              -> {}
        Bind(as) == [r \in f.regs |-> IF r \in Range(params)
                                      THEN IvOperand(as[CHOOSE k \in DOMAIN params : params[k] = r], env)
                                      ELSE env[r]]
    IN  IF exit = Unreachable THEN exit
        ELSE IF args = {} THEN env
        ELSE FoldSet(LAMBDA as, acc : EnvJoin(acc, Bind(as)), Unreachable, args)

I == INSTANCE Fixpoint WITH
         Bottom <- Unreachable, Join <- EnvJoin, Widen <- EnvWiden, EntryState <- EnvTop,
         TransferBlock <- IntervalBlock, TransferEdge <- IntervalEdge, FORCE_WIDEN_AFTER <- 64,
         fn <- flow, in_states <- i_in, out_states <- i_out

(* entry_interval: the interval of r on entry to a block. *)
entry_interval(b, r) == IF i_in[b] = Unreachable THEN <<>> ELSE i_in[b][r]

(* The facts of an interval with non-negative bounds on a value: one that is at least 1
   is not zero, one between 0 and 0 is; other bounds do not tell the two apart. *)
BoundFacts(iv, e) ==
    CASE iv = <<>>                  -> {}
      [] iv # <<>> /\ iv[1] >= 1    -> {e}
      [] iv # <<>> /\ iv = <<0, 0>> -> {Not(e)}
      [] OTHER                      -> {}

(* havoc_header: every register the loop may redefine that is live at the header
   becomes a fresh symbol, in register order, under the bounds of the interval
   analysis, which also hold for the registers the loop leaves alone, as far as
   they are wider than one bit. *)
Havocked(h, env) == flow.loop_modified[h] \cap DOMAIN env

(* Wrong variant: the loop-carried registers keep the values of the first turn. *)
MuthavocNothing(h, st, minted, wide) == [st EXCEPT !.exact = FALSE]

havoc_header(h, st, minted, wide) ==
    LET hv     == Havocked(h, st.env)
        Nth(r) == Cardinality({q \in hv : q <= r})
        env    == [r \in hv |-> Symbol(NumInputs + fresh + minted + Nth(r))] @@ st.env
    IN  [env |-> env, pathcond |-> st.pathcond, exact |-> FALSE,
         facts |-> st.facts \cup UNION {BoundFacts(entry_interval(h, r), env[r]) :
                                            r \in hv \cup (IF wide THEN DOMAIN env ELSE {})}]

-----------------------------------------------------------------------------
(* Out-edges. *)
is_back_edge(from, to) == to \in flow.headers /\ dominates(flow.idom, to, from)

(* What propagate_edges can queue and prune: a set of records [edges, pruned],
   one for every way the solver may answer. *)
Queue(b, to, guard, args, dropped) ==
    IF is_back_edge(b, to) \/ dropped THEN <<>>
    ELSE << [to |-> to, guard |-> guard, args |-> args] >>

Pruned(b, to, infeasible) == IF ~is_back_edge(b, to) /\ infeasible THEN {to} ELSE {}

(* The CondBr arm asks the solver twice about each side. *)
CondBrEdges(b, st) ==
    LET t  == prog.blocks[b].term
        ce == st.env[t.cond]
        Q1 == Answers(Infeasible(ce, st))
        Q2 == Answers(Infeasible(Not(ce), st))
    IN  {[edges  |-> Queue(b, t.then_blk, <<ce>>, t.then_args, a[2])
                         \o Queue(b, t.else_blk, <<Not(ce)>>, t.else_args, a[4]),
          pruned |-> Pruned(b, t.then_blk, a[1]) \cup Pruned(b, t.else_blk, a[3])] :
            a \in Q1 \X Q1 \X Q2 \X Q2}

(* The Switch arm prunes without recording it in pruned_succs. *)
SwitchEdges(b, st) ==
    LET t       == prog.blocks[b].term
        ve      == st.env[t.value]
        Eq(i)   == IF t.cases[i].val = 1 THEN ve ELSE Not(ve)
        default == And({Not(Eq(i)) : i \in DOMAIN t.cases})
        Sure    == {i \in DOMAIN t.cases : ~Infeasible(Eq(i), st)}
    IN  {[edges  |-> FlattenSeq([i \in DOMAIN t.cases |->
                          Queue(b, t.cases[i].to, <<Eq(i)>>, <<>>, i \in a[1])])
                         \o Queue(b, t.default, <<default>>, <<>>, a[2]),
          pruned |-> {}] :
            a \in (SUBSET (DOMAIN t.cases \ Sure)) \X Answers(Infeasible(default, st))}

propagate_edges(b, st) ==
    LET t == prog.blocks[b].term
    IN  CASE t.op = "ret"    -> {[edges |-> <<>>, pruned |-> {}]}
          [] t.op = "br"     -> {[edges |-> Queue(b, t.to, <<>>, t.args, FALSE), pruned |-> {}]}
          [] t.op = "condbr" -> CondBrEdges(b, st)
          [] t.op = "switch" -> SwitchEdges(b, st)

-----------------------------------------------------------------------------
Init ==
    /\ source \in Programs
    /\ prog = promote_function(source)
    /\ flow = FlowOf(prog)
    /\ arrivals = ArrivalsOf(source)
    /\ i_in  = [b \in Blocks(prog) |-> Unreachable]
    /\ i_out = [b \in Blocks(prog) |-> Unreachable]
    /\ worklist = flow.rpo
    /\ updates = [b \in Blocks(prog) |-> 0]
    /\ pos = 1
    /\ incoming = [b \in Blocks(prog) |->
           IF b = 1 THEN << [pred_state |-> [env      |-> [r \in Inputs |-> Symbol(r)],
                                             pathcond |-> <<>>, facts |-> {}, exact |-> TRUE],
                             guard |-> <<>>, args |-> <<>>] >>
           ELSE <<>>]
    /\ fresh = 0
    /\ visits = 0
    /\ truncated = FALSE
    /\ pruned_succs = {}
    /\ visited_blocks = {}
    /\ decisions = [b \in Blocks(prog) |-> "none"]
    /\ entered = <<>>
    /\ outcome = <<>>

(* The intervals come first; the executor and the verifier read the same solution. *)
AnalyzeIntervals ==
    /\ I!Step
    /\ UNCHANGED <<source, prog, arrivals, pos, incoming, fresh, visits, truncated,
                   pruned_succs, visited_blocks, decisions, entered, outcome>>

Walking == I!Solved /\ outcome = <<>> /\ ~truncated /\ pos <= Len(flow.rpo)

Visited(b) == visited_blocks \cup {b}

(* A block no queued edge reaches is left out. *)
SkipBlock ==
    /\ Walking
    /\ incoming[flow.rpo[pos]] = <<>>
    /\ pos' = pos + 1
    /\ UNCHANGED <<given, incoming, fresh, visits, truncated,
                   pruned_succs, visited_blocks, decisions, entered, outcome>>

(* The visit budget or the deadline ends the walk. *)
Truncate ==
    /\ Walking
    /\ LET b == flow.rpo[pos]
       IN  /\ incoming[b] # <<>>
           /\ visits + 1 > max_visits \/ HasDeadline
           /\ visited_blocks' = Visited(b)
           /\ incoming' = [incoming EXCEPT ![b] = <<>>]
    /\ visits' = visits + 1
    /\ truncated' = TRUE
    /\ UNCHANGED <<given, pos, fresh, pruned_succs, decisions, entered, outcome>>

(* Queue the out-edges of b, which left its instructions in state st. *)
Queued(inc, edges, st) ==
    FoldLeft(LAMBDA acc, e : [acc EXCEPT ![e.to] =
                 Append(@, [pred_state |-> st, guard |-> e.guard, args |-> e.args])],
             inc, edges)

(* One block: merge, havoc at a header, execute, decide, propagate. *)
VisitBlock ==
    /\ Walking
    /\ visits + 1 <= max_visits
    /\ LET b      == flow.rpo[pos]
           block  == prog.blocks[b]
           header == b \in flow.headers
           merged == merge_edges(block.params, incoming[b])
           undefs == MergeMints(incoming[b])
           minted == undefs + (IF header THEN Cardinality(Havocked(b, merged.env)) ELSE 0)
       IN  /\ incoming[b] # <<>>
           /\ visited_blocks' = Visited(b)
           /\ \E wide \in (IF header THEN BOOLEAN ELSE {FALSE}) :
                LET st  == IF header THEN havoc_header(b, merged, undefs, wide) ELSE merged
                    run == ApplyInsts(block.insts, st.env, fresh + minted)
                    end == [st EXCEPT !.env = run.env]
                IN  /\ run.fresh <= MaxFresh
                    /\ fresh' = run.fresh
                    /\ entered' = (b :> st) @@ entered
                    /\ \E d \in Decisions(b, end) : decisions' = [decisions EXCEPT ![b] = d]
                    /\ \E q \in propagate_edges(b, end) :
                          /\ incoming' = Queued([incoming EXCEPT ![b] = <<>>], q.edges, end)
                          /\ pruned_succs' = pruned_succs \cup q.pruned
    /\ pos' = pos + 1
    /\ visits' = visits + 1
    /\ UNCHANGED <<given, truncated, outcome>>

dead_blocks == IF truncated THEN {} ELSE pruned_succs \ visited_blocks

(* eval_condition: what the intervals say of b's explicit check, that its register
   is zero.  In a block they find unreachable it holds. *)
eval_condition(b) ==
    LET iv == IntervalBlock(flow, b, i_in[b])[prog.blocks[b].check.reg]
    IN  IF i_in[b] = Unreachable THEN "True"
        ELSE IF iv = <<>> THEN "Unknown"
        ELSE IF iv = <<0, 0>> THEN "True"
        ELSE IF iv[1] > 0 \/ iv[2] < 0 THEN "False" ELSE "Unknown"

(* What the executor has recorded for b's obligation; a truncated walk has no
   decision to offer. *)
Recorded(b) == IF truncated THEN "none" ELSE decisions[b]

(* The result of an explicit check: the intervals come first. *)
discharge(interval, recorded) ==
    CASE interval = "True"    -> "Proven"
      [] interval = "False"   -> "RefutedByIntervals"
      [] interval = "Unknown" -> IF recorded \in {"Proven", "Refuted"} THEN recorded ELSE "Open"

(* The result of an access: one without a decision counts as proved in a block found
   dead. *)
MemoryOutcome(b, recorded) ==
    CASE recorded \in {"Proven", "Refuted"}        -> recorded
      [] recorded = "none" /\ b \in dead_blocks    -> "Proven"
      [] OTHER                                     -> "Open"

Obligations == {b \in Blocks(source) : HasCheck(source, b)}

(* The verifier may be configured not to use the intervals itself. *)
Report ==
    /\ I!Solved /\ outcome = <<>>
    /\ truncated \/ pos > Len(flow.rpo)
    /\ \E use_intervals \in BOOLEAN :
          outcome' = [b \in Obligations |->
                         IF prog.blocks[b].check.kind = "mem" THEN MemoryOutcome(b, Recorded(b))
                         ELSE discharge(IF use_intervals THEN eval_condition(b) ELSE "Unknown", Recorded(b))]
    /\ UNCHANGED <<given, pos, incoming, fresh, visits, truncated,
                   pruned_succs, visited_blocks, decisions, entered>>

(* Verdict::combine_all over the function's obligations. *)
verdict ==
    IF \E b \in DOMAIN outcome : outcome[b] \in {"Refuted", "RefutedByIntervals"} THEN "FAIL"
    ELSE IF \E b \in DOMAIN outcome : outcome[b] = "Open" THEN "UNKNOWN" ELSE "PASS"

(* The function is done; any other state without a step is a stuck walk. *)
Done == outcome # <<>> /\ UNCHANGED vars

Next == AnalyzeIntervals \/ SkipBlock \/ Truncate \/ VisitBlock \/ Report \/ Done

Spec == Init /\ [][Next]_vars

-----------------------------------------------------------------------------
(* Properties. *)

Expr == SUBSET Asg

PathState(st) ==
    /\ \A r \in DOMAIN st.env : st.env[r] \in Expr
    /\ st.pathcond \in Seq(Expr)
    /\ st.facts \subseteq Expr
    /\ st.exact \in BOOLEAN

(* Type invariant. *)
TypeOK ==
    /\ source \in Programs
    /\ pos \in 1 .. Len(flow.rpo) + 1
    /\ \A b \in Blocks(prog) : \A i \in DOMAIN incoming[b] : PathState(incoming[b][i].pred_state)
    /\ fresh \in 0 .. MaxFresh
    /\ visits \in 0 .. max_visits + 1
    /\ truncated \in BOOLEAN
    /\ pruned_succs \subseteq Blocks(prog)
    /\ visited_blocks \subseteq Blocks(prog)
    /\ decisions \in [Blocks(prog) -> {"none", "Proven", "Unknown", "Refuted"}]
    /\ DOMAIN entered \subseteq visited_blocks

(* A PASS is sound: an obligation reported as proved is violated by no
   execution that runs it (ProofTree of a PASS, decide, dead_blocks), and a
   function whose verdict is PASS by no execution at all. *)
PassSound ==
    /\ \A b \in DOMAIN outcome : outcome[b] = "Proven" =>
           \A s \in arrivals[b] : ~Violates(b, s)
    /\ outcome # <<>> /\ verdict = "PASS" =>
           \A b \in Obligations : \A s \in arrivals[b] : ~Violates(b, s)

(* The inputs with which executions enter b, and those the state of the walk admits. *)
RealInputs(b)     == {s[1] : s \in arrivals[b]}
AdmittedInputs(b) == {a \cap Inputs : a \in And(Assumptions(entered[b]))}

(* A FAIL is sound: an obligation that is reported as refuted is violated by some
   execution ("a concrete counterexample exists", verdict.rs:15-16), with two
   exceptions.
   - The intervals refute a check without asking whether any execution comes to it
     (discharge.rs:249): a check that fails in dead code the intervals do not see
     as dead is a FAIL without a counterexample.  Where executions come to it all of
     them violate it, "it holds on none" (absint/src/analysis.rs:22-24).
   - In bug-finding mode an access is refuted on an inexact path, if its goal is
     made of genuine inputs.  decide.rs:200-207 takes its witness for "a genuinely
     reachable input"; it is one unless a merge has dropped a guard, or a branch on
     an over-approximated value was taken, so that the state admits inputs with
     which no execution gets there. *)
FailSound ==
    \A b \in DOMAIN outcome :
        /\ outcome[b] = "RefutedByIntervals" =>
               \/ arrivals[b] = {}
               \/ \A s \in arrivals[b] : 0 \notin Checked(b, s)
        /\ outcome[b] = "Refuted" =>
               \/ \E s \in arrivals[b] : Violates(b, s)
               \/ source.bug_finding /\ ~entered[b].exact /\ AdmittedInputs(b) # RealInputs(b)

(* A block that was pruned into and never visited is entered by no execution,
   whatever the solver's valve did to the two queries about each side. *)
DeadSound ==
    outcome # <<>> => \A b \in dead_blocks \cap Blocks(source) : arrivals[b] = {}

(* What slot a holds in execution s. *)
Holds(a, s) == IF a \in DOMAIN s[3] THEN s[3][a].val ELSE Unwritten

(* Registers whose definition dominates b, the ones SSA lets b read. *)
Visible(b) ==
    Inputs \cup Range(prog.blocks[b].params)
        \cup UNION {Defines(prog.blocks[d]) :
                d \in {x \in Blocks(prog) : x # b /\ dominates(flow.idom, x, b)}}

(* The merged state of a block covers every execution that enters it: some
   assignment with the execution's inputs satisfies the path condition and the
   facts, gives every visible register its value, and gives the parameters that
   stand for promoted slots what memory holds there. *)
StateCovers ==
    \A b \in DOMAIN entered \cap Blocks(source) : \A s \in arrivals[b] :
        \E a \in And(Assumptions(entered[b])) :
            /\ a \cap Inputs = s[1]
            /\ \A r \in Visible(b) \cap DOMAIN s[2] : (a \in entered[b].env[r]) <=> (s[2][r] # 0)
            /\ \A e \in {x \in DOMAIN prog.phi : x[1] = b /\ Holds(x[2], s) # Unwritten} :
                  (a \in entered[b].env[prog.phi[e]]) <=> (Holds(e[2], s) # 0)

(* The dominator tree is exact: a dominates b iff b cannot be reached from the
   entry once a is taken out. *)
DominatorsExact ==
    LET g    == GraphOf(prog)
        Without(a) == Iterate(LAMBDA S : S \cup {e[2] : e \in {x \in Edges(g) :
                                                    x[1] \in S /\ x[2] # a}},
                              {g.entry} \ {a}, g.node_count)
    IN  I!Solved /\ pos = 1 => \A a, b \in Nodes(g) :
            dominates(flow.idom, a, b) <=> b \in Without(None) /\ b \notin Without(a)

\* What the walk keeps of a block is true of all executions: its merged state covers
\* every execution that enters it, and a block it calls dead is entered by none.
BlocksCovered == StateCovers /\ DeadSound

=============================================================================
