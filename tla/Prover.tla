------------------------------- MODULE Prover -------------------------------
(***************************************************************************)
(* How an implication is decided: the symbolic executor builds expressions,*)
(* asks the cached front door (decide.rs prove), which tries the linear    *)
(* prover and then the bit-precise one, and on an exact path looks for a   *)
(* counterexample (try_refute).                                            *)
(*                                                                         *)
(* A script stands for one run of the executor: the constructor calls it   *)
(* makes, then the goals it asks for under their paths.  The SAT solver is *)
(* the one of module Cdcl, used through what is shown there: an answer is  *)
(* right, or the solver gives up on its budget or its clock.               *)
(***************************************************************************)
EXTENDS BitBlast

CONSTANTS
    IntMax,             \* i128::MAX
    ConstraintLimit,    \* CONSTRAINT_LIMIT
    Scripts,            \* records [calls, asks]: see below
    MaxClauses          \* MAX_CLAUSES

ASSUME LinearAssumption == IntMax \in Nat \ {0} /\ ConstraintLimit \in Nat

(* A call has the fields of a node, its args being positions of earlier calls; *)
(* an ask is a path (positions of booleans), a goal and a refutation mode.     *)
ASSUME ScriptsAssumption ==
    \A s \in Scripts : \A i \in DOMAIN s.calls :
        \A j \in DOMAIN s.calls[i].args : s.calls[i].args[j] \in 1 .. i - 1

-----------------------------------------------------------------------------
(* The linear prover (linear.rs): assumptions and the negated goal as inequalities
   "form <= 0" over the integers, refuted by Fourier-Motzkin elimination.  A form is
   ok, its coefficients (a function of expression ids to nonzero integers) and its
   constant.  ok is cleared by an overflow of i128: the checked operation's None. *)

Fits(n) == -IntMax - 1 <= n /\ n <= IntMax

Form(co, k) == [ok |-> TRUE, co |-> co, k |-> k]
Overflow == [ok |-> FALSE, co |-> <<>>, k |-> 0]
ConstForm(k) == Form(<<>>, k)
AtomForm(e) == Form(e :> 1, 0)

is_constant(f) == DOMAIN f.co = {}
coeff_of(f, v) == IF v \in DOMAIN f.co THEN f.co[v] ELSE 0

(* A form from the coefficient of every id in ids; the zero ones are not kept. *)
normalized(ids, C(_), k) ==
    IF Fits(k) /\ \A v \in ids : Fits(C(v))
    THEN Form([v \in {u \in ids : C(u) # 0} |-> C(v)] @@ <<>>, k)
    ELSE Overflow

AddForms(f, g) ==
    IF ~f.ok \/ ~g.ok THEN Overflow
    ELSE normalized((DOMAIN f.co) \cup (DOMAIN g.co),
                    LAMBDA v : coeff_of(f, v) + coeff_of(g, v), f.k + g.k)
scale(f, k) ==
    IF ~f.ok THEN Overflow ELSE normalized(DOMAIN f.co, LAMBDA v : f.co[v] * k, f.k * k)
SubForms(f, g) == AddForms(f, scale(g, -1))
add_const(f, k) == AddForms(f, ConstForm(k))

(* A constant is read as unsigned when i128 can hold it. *)
const_to_int(n) == IF n.v <= IntMax THEN n.v ELSE signed(n.w, n.v)

(* Anything that is not linear is an opaque atom: the expression itself. *)
RECURSIVE linearize(_, _)
linearize(c, e) ==
    LET n == c[e]
        la == linearize(c, n.args[1])
        lb == linearize(c, n.args[2])
    IN CASE n.k = "const" -> ConstForm(const_to_int(n))
         [] n.k = "bin" -> IF ~la.ok \/ ~lb.ok THEN Overflow
                           ELSE CASE n.op = "Add" -> AddForms(la, lb)
                                  [] n.op = "Sub" -> SubForms(la, lb)
                                  [] n.op = "Mul" /\ is_constant(la) -> scale(lb, la.k)
                                  [] n.op = "Mul" /\ ~is_constant(la) /\ is_constant(lb) ->
                                        scale(la, lb.k)
                                  [] OTHER -> AtomForm(e)
         [] OTHER -> AtomForm(e)

(* Constraint lists; readable is FALSE for what is no conjunction of inequalities. *)
Constraints(cs) == [readable |-> TRUE, cs |-> cs]
Unreadable == [readable |-> FALSE, cs |-> <<>>]

(* The inequalities of an order, as "left <= right" with an offset for strictness. *)
Ordered(op, la, lb) ==
    CASE op \in {"Ult", "Slt"} -> <<add_const(SubForms(la, lb), 1)>>
      [] op \in {"Ule", "Sle"} -> <<SubForms(la, lb)>>
      [] op \in {"Ugt", "Sgt"} -> <<add_const(SubForms(lb, la), 1)>>
      [] op \in {"Uge", "Sge"} -> <<SubForms(lb, la)>>
      [] op = "Eq" -> <<SubForms(la, lb), SubForms(lb, la)>>
      [] OTHER -> <<Overflow>>       \* a disequality is a disjunction
NonNegative(op, la, lb) ==
    IF op \in {"Ult", "Ule", "Ugt", "Uge"} THEN <<scale(la, -1), scale(lb, -1)>> ELSE <<>>
AllFit(cs) == IF \E i \in DOMAIN cs : ~cs[i].ok THEN Unreadable ELSE Constraints(cs)

(* Wrong variant: "at least" is read as "more than". *)
Mutcmp_constraints(op, la, lb) ==
    AllFit(Ordered(CASE op = "Uge" -> "Ugt" [] op = "Sge" -> "Sgt" [] OTHER -> op, la, lb)
           \o NonNegative(op, la, lb))

(* Signed and unsigned orders are one order here; an unsigned comparison also says *)
(* that neither side is negative.                                                  *)
cmp_constraints(op, la, lb) == AllFit(Ordered(op, la, lb) \o NonNegative(op, la, lb))

RECURSIVE constraints_of(_, _, _)
constraints_of(c, e, truth) ==
    LET n == c[e]
        parts == [i \in DOMAIN n.args |-> constraints_of(c, n.args[i], truth)]
        la == linearize(c, n.args[1])
        lb == linearize(c, n.args[2])
    IN CASE n.k = "bool" -> Constraints(IF (n.v = 1) = truth THEN <<>> ELSE <<ConstForm(1)>>)
         [] n.k = "not" -> constraints_of(c, n.args[1], ~truth)
         [] (n.k = "and" /\ truth) \/ (n.k = "or" /\ ~truth) ->
                IF \E i \in DOMAIN parts : ~parts[i].readable THEN Unreadable
                ELSE Constraints(FoldLeft(LAMBDA s, p : s \o p.cs, <<>>, parts))
         [] n.k = "cmp" -> IF ~la.ok \/ ~lb.ok THEN Unreadable
                           ELSE cmp_constraints(IF truth THEN n.op ELSE negate(n.op), la, lb)
         [] OTHER -> Unreadable

-----------------------------------------------------------------------------
(* Fourier-Motzkin elimination. *)

Contradiction(f) == is_constant(f) /\ f.k > 0

(* p bounds v above and q below: their combination without v. *)
Combined(p, q, v) ==
    LET s == AddForms(scale(p, -coeff_of(q, v)), scale(q, coeff_of(p, v)))
    IN IF s.ok THEN normalized((DOMAIN s.co) \ {v}, LAMBDA u : s.co[u], s.k) ELSE s

(* One round: every upper bound of v meets every lower one.  verdict is "go" until *)
(* a contradiction is found, or an overflow or the size limit ends the attempt.    *)
Eliminate(cs, v) ==
    LET sign(s) == SelectSeq(cs, LAMBDA f : IF s = 0 THEN coeff_of(f, v) = 0
                                            ELSE coeff_of(f, v) * s > 0)
        pairs == FoldLeft(LAMBDA ps, p : ps \o [i \in DOMAIN sign(-1) |-> <<p, sign(-1)[i]>>],
                          <<>>, sign(1))
        step(s, pq) ==
            LET f == Combined(pq[1], pq[2], v)
                next == Append(s.cs, f)
            IN IF s.verdict # "go" THEN s
               ELSE [cs |-> next,
                     verdict |-> CASE ~f.ok -> "feasible"
                                   [] f.ok /\ Contradiction(f) -> "infeasible"
                                   [] OTHER -> IF Len(next) > ConstraintLimit
                                               THEN "feasible" ELSE "go"]
    IN FoldLeft(step, [cs |-> sign(0), verdict |-> "go"], pairs)

(* FALSE only for a system without a rational solution. *)
RECURSIVE feasible(_)
feasible(cs) ==
    LET open == SelectSeq(cs, LAMBDA f : ~is_constant(f))
        v == CHOOSE u \in DOMAIN Head(open).co : \A x \in DOMAIN Head(open).co : u <= x
        round == Eliminate(cs, v)
    IN CASE \E i \in DOMAIN cs : Contradiction(cs[i]) -> FALSE
         [] OTHER -> IF open = <<>> THEN TRUE
                     ELSE CASE round.verdict = "feasible" -> TRUE
                            [] round.verdict = "infeasible" -> FALSE
                            [] round.verdict = "go" -> feasible(round.cs)

(* Assumptions that cannot be read are skipped; a goal that cannot is not proved. *)
linear_prove_implies(c, assumptions, goal) ==
    LET read == FoldLeft(LAMBDA s, a : s \o constraints_of(c, a, TRUE).cs, <<>>, assumptions)
        negated == constraints_of(c, goal, FALSE)
    IN negated.readable /\ ~feasible(read \o negated.cs)

-----------------------------------------------------------------------------
(* The front door. *)

VARIABLES
    script,     \* what the executor does
    ctx,        \* ExprCtx
    made,       \* the ids the calls returned, in order
    asked,      \* how many asks were started
    linear,     \* what the linear prover said of the current ask
    blaster,    \* the Blaster of the current bit-precise query
    method,     \* the ProofMethod of the current ask, NoProof if there is none
    gave_up,    \* the solver or a size limit ended the current query early
    cache,      \* prove_cache
    assumed,    \* assumptions: has linear-no-overflow been recorded?
    witness,    \* the models try_refute returned for the current ask: at most one
    pc

vars == <<script, ctx, made, asked, linear, blaster, method, gave_up, cache, assumed,
          witness, pc>>

NoProof == "none"
Ask == script.asks[asked]
Goal == made[Ask.goal]
Path == [i \in DOMAIN Ask.path |-> made[Ask.path[i]]]

-----------------------------------------------------------------------------
(* Building. *)

Construct(c, call, ids) ==
    LET a(i) == ids[call.args[i]]
    IN CASE call.k = "sym" -> symbol(c, call.v, call.w)
         [] call.k = "const" -> constant(c, call.w, call.v)
         [] call.k = "bool" -> boolean(c, call.v = 1)
         [] call.k = "bin" -> bin(c, call.op, a(1), a(2))
         [] call.k = "cmp" -> cmp(c, call.op, a(1), a(2))
         [] call.k = "not" -> not(c, a(1))
         [] call.k = "and" -> and(c, [i \in DOMAIN call.args |-> a(i)])
         [] call.k = "or" -> or(c, [i \in DOMAIN call.args |-> a(i)])
         [] call.k = "ite" -> ite(c, a(1), a(2), a(3))
         [] call.k = "zext" -> zext(c, a(1), call.w)
         [] call.k = "sext" -> sext(c, a(1), call.w)

Build ==
    /\ pc = "build"
    /\ LET r == Construct(ctx, script.calls[Len(made) + 1], made)
       IN /\ ctx' = r.c
          /\ made' = Append(made, r.id)
    /\ pc' = IF Len(made') = Len(script.calls) THEN "ready" ELSE "build"
    /\ UNCHANGED <<script, asked, linear, blaster, method, gave_up, cache, assumed, witness>>

-----------------------------------------------------------------------------
(* prove. *)

(* The assumptions connected to the goal through shared symbols, sorted. *)
RECURSIVE Connected(_, _)
Connected(cone, all) ==
    LET more == cone \cup UNION {symbols_of(ctx, a) : a \in
                    {x \in all : symbols_of(ctx, x) \cap cone # {}}}
    IN IF more = cone THEN {a \in all : symbols_of(ctx, a) \cap cone # {}}
       ELSE Connected(more, all)
relevant_assumptions(goal, all) ==
    SetToSortSeq(Connected(symbols_of(ctx, goal), ToSet(all)), <)

Relevant == relevant_assumptions(Goal, Path)
Key == <<Relevant, Goal>>
Known == {e \in cache : e.key = Key}

(* A proof by the linear prover alone is relative to linear-no-overflow. *)
Conclude(m) ==
    /\ method' = m
    /\ assumed' = (assumed \/ m = "Linear")
    /\ pc' = IF m = NoProof THEN "refute" ELSE "ready"

StartAsk ==
    /\ pc = "ready"
    /\ asked < Len(script.asks)
    /\ asked' = asked + 1
    /\ gave_up' = FALSE
    /\ witness' = {}
    /\ pc' = "lookup"
    /\ UNCHANGED <<script, ctx, made, linear, blaster, method, cache, assumed>>

CacheHit ==
    /\ pc = "lookup"
    /\ \E e \in Known : Conclude(e.method) /\ gave_up' = e.gave_up
    /\ UNCHANGED <<script, ctx, made, asked, linear, blaster, cache, witness>>

TryLinear ==
    /\ pc = "lookup"
    /\ Known = {}
    /\ linear' = linear_prove_implies(ctx, Relevant, Goal)
    /\ pc' = "blast"
    /\ UNCHANGED <<script, ctx, made, asked, blaster, method, gave_up, cache, assumed, witness>>

Affordable(b) == b.ok /\ b.cnf.size <= MaxClauses

Blast ==
    /\ pc = "blast"
    /\ blaster' = encode_all(ctx, Relevant, Goal)
    /\ pc' = "solve"
    /\ UNCHANGED <<script, ctx, made, asked, linear, method, gave_up, cache, assumed, witness>>

(* The refinement of a linear proof and the fallback after a linear failure are the *)
(* same query with different budgets; the cache keeps whatever came out.            *)
Decide(unsat, early) ==
    LET m == IF unsat THEN "BitPrecise" ELSE IF linear THEN "Linear" ELSE NoProof
    IN /\ Conclude(m)
       /\ gave_up' = early
       /\ cache' = cache \cup {[key |-> Key, method |-> m, gave_up |-> early]}
       /\ blaster' = NewBlaster
       /\ UNCHANGED <<script, ctx, made, asked, linear, witness>>

Decline == pc = "solve" /\ ~Affordable(blaster) /\ Decide(FALSE, TRUE)
SolveUnsat ==
    /\ pc = "solve" /\ Affordable(blaster)
    /\ Models(blaster.cnf) = {}
    /\ Decide(TRUE, FALSE)
SolveSat ==
    /\ pc = "solve" /\ Affordable(blaster)
    /\ Models(blaster.cnf) # {}
    /\ Decide(FALSE, FALSE)
GiveUp == pc = "solve" /\ Affordable(blaster) /\ Decide(FALSE, TRUE)

-----------------------------------------------------------------------------
(* try_refute, on an exact path. *)

(* The symbol values a model gives: one for every symbol that was encoded. *)
Assignment(b, m) ==
    [v \in {ctx[i].v : i \in {j \in DOMAIN b.memo : ctx[j].k = "sym"}} |->
        Read(m, b.memo[CHOOSE i \in DOMAIN b.memo : ctx[i].k = "sym" /\ ctx[i].v = v])]

(* find_counterexample: none, or any model of assumptions and not goal. *)
ModelsOf(b) == IF Affordable(b) THEN {Assignment(b, m) : m \in Models(b.cnf)} ELSE {}

(* A definite refutation first needs a proof that the goal never holds. *)
NeverHolds(ng) ==
    \E b \in {encode_all(ng.c, Path, ng.id)} : Affordable(b) /\ Models(b.cnf) = {}

Refuting == Ask.mode = "Possible" \/ NeverHolds(not(ctx, Goal))

Refute ==
    /\ pc = "refute"
    /\ \E w \in {{}} \cup (IF Refuting THEN {{a} : a \in ModelsOf(encode_all(ctx, Path, Goal))} ELSE {}) :
          witness' = w
    /\ pc' = "ready"
    /\ UNCHANGED <<script, ctx, made, asked, linear, blaster, method, gave_up, cache, assumed>>

-----------------------------------------------------------------------------
Init ==
    /\ script \in Scripts
    /\ ctx = <<>> /\ made = <<>> /\ asked = 0
    /\ linear = FALSE /\ blaster = NewBlaster
    /\ method = NoProof /\ gave_up = FALSE
    /\ cache = {} /\ assumed = FALSE /\ witness = {}
    /\ pc = "build"

Next == \/ Build \/ StartAsk \/ CacheHit \/ TryLinear \/ Blast
        \/ Decline \/ SolveUnsat \/ SolveSat \/ GiveUp \/ Refute

Spec == Init /\ [][Next]_vars

-----------------------------------------------------------------------------
(* Properties. *)

(* Call i widens a term that an earlier call widened, the same way, to another width.  *)
(* Node::Zext and Node::Sext hold no width (expr.rs:148-151) and intern looks the Node *)
(* up without one (expr.rs:240-249), so the earlier id is returned, although each is   *)
(* documented as extending "to a wider bit width (the node's own width)".              *)
WidenedAgain(i) ==
    LET call == script.calls[i]
        of(j) == made[script.calls[j].args[1]]
    IN /\ call.k \in {"zext", "sext"} /\ ctx[of(i)].k # "const"
       /\ \E j \in 1 .. i - 1 : /\ script.calls[j].k = call.k /\ of(j) = of(i)
                                /\ script.calls[j].w # call.w

(* Folding, simplification and sharing never change what was asked for: in every    *)
(* context reached, the id a constructor returned (ExprCtx::bin, cmp, not, and, or, *)
(* ite, zext, sext) has the width asked for and the value of the requested          *)
(* operation on its operands.  A term that is WidenedAgain is the one exception,    *)
(* and what is built over it has no more than its own width in consequence.         *)
BuildExact ==
    pc \in {"build", "ready"} /\ made # <<>> /\ asked = 0 =>
        LET last == Len(made)
            call == script.calls[last]
            ids == [i \in DOMAIN call.args |-> made[call.args[i]]]
            OfWidth(i) == ctx[made[i]].w = script.calls[i].w
            sized == IF call.k \in {"bin", "ite"} THEN [call EXCEPT !.w = ctx[ids[Len(ids) - 1]].w]
                     ELSE call
        IN \/ WidenedAgain(last)
           \/ /\ (\A i \in DOMAIN call.args : OfWidth(call.args[i])) => OfWidth(last)
              /\ \A env \in Valuations(ctx) :
                    Value(ctx, Last(made), env) =
                        NodeValue(sized,
                                  [i \in DOMAIN ids |-> Value(ctx, ids[i], env)],
                                  [i \in DOMAIN ids |-> ctx[ids[i]].w], env)

(* The clauses say exactly what the expressions mean (Blaster::encode and every      *)
(* circuit under it): each valuation that satisfies the assumptions and not the goal *)
(* extends to one model, no other valuation does, and in it the literals of every    *)
(* encoded expression spell its value, division by zero included.                    *)
EncodeExact ==
    pc = "solve" /\ blaster.ok =>
        LET b == blaster
            models == Models(b.cnf)
            env(m) == Assignment(b, m)
            symbols == {ctx[i] : i \in {j \in DOMAIN b.memo : ctx[j].k = "sym"}}
            wanted == {e \in Valuations(SetToSeq(symbols)) :
                          /\ \A i \in DOMAIN Relevant : Holds(ctx, Relevant[i], e)
                          /\ ~Holds(ctx, Goal, e)}
        IN /\ {env(m) : m \in models} = wanted
           /\ Cardinality(models) = Cardinality(wanted)
           /\ \A m \in models : \A i \in DOMAIN b.memo :
                 Read(m, b.memo[i]) = Value(ctx, i, env(m))

(* The ids an ask is about, with everything under them. *)
RECURSIVE Under(_)
Under(id) == {id} \cup UNION {Under(ctx[id].args[i]) : i \in DOMAIN ctx[id].args}
Terms == {i \in UNION {Under(Path[j]) : j \in DOMAIN Path} \cup Under(Goal) :
              ctx[i].k \notin {"cmp", "not", "and", "or", "bool"}}

(* The assumption linear-no-overflow: every quantity is in [0, 2^(w-1)) and no sum, *)
(* difference or product wraps.                                                     *)
NoOverflow(env) ==
    \A i \in Terms :
        LET n == ctx[i]
            x == Value(ctx, n.args[1], env)
            y == Value(ctx, n.args[2], env)
            exact == CASE n.op = "Add" -> x + y
                       [] n.op = "Sub" -> x - y
                       [] n.op = "Mul" -> x * y
                       [] OTHER -> Value(ctx, i, env)
        IN exact \in 0 .. 2 ^ (n.w - 1) - 1

Implied(S) == \A env \in S : (\A j \in DOMAIN Path : Holds(ctx, Path[j], env))
                                => Holds(ctx, Goal, env)

(* A proof means what it is reported to mean (prove_implies_method and its caller):  *)
(* "BitPrecise" that the goal follows for all machine values, "Linear" that it       *)
(* follows where nothing overflows, and then that assumption has been recorded, also *)
(* when the answer came from the cache.                                              *)
AnswerSound ==
    pc = "ready" /\ asked > 0 =>
        /\ method = "BitPrecise" => Implied(Valuations(ctx))
        /\ method = "Linear" => assumed /\ Implied({e \in Valuations(ctx) : NoOverflow(e)})

(* A refutation is real (try_refute): whatever the symbols it does not mention, the *)
(* witness satisfies the path and violates the goal; and a definite one is returned *)
(* only when no value that satisfies the path satisfies the goal.                   *)
WitnessReal ==
    \A w \in witness :
        \A env \in Valuations(ctx) :
            LET onPath == \A j \in DOMAIN Path : Holds(ctx, Path[j], env)
            IN /\ (\A v \in DOMAIN w : env[v] = w[v]) => onPath /\ ~Holds(ctx, Goal, env)
               /\ Ask.mode = "Definite" /\ onPath => ~Holds(ctx, Goal, env)

(* Nothing provable is missed unless a limit ended the search: filtering the path to *)
(* the goal's cone (relevant_assumptions) loses no proof on a live path.             *)
NothingMissed ==
    pc = "refute" /\ ~gave_up =>
        \/ ~Implied(Valuations(ctx))
        \/ \A env \in Valuations(ctx) : \E j \in DOMAIN Path : ~Holds(ctx, Path[j], env)

\* Building a term folds it to an equal one, and its circuit computes it.
TermsExact == BuildExact /\ EncodeExact

\* An answer of the prover is true, a counterexample refutes the goal, and leaving
\* out unrelated assumptions, or asking the cache, changes no answer.
AnswersRight == AnswerSound /\ WitnessReal /\ NothingMissed

=============================================================================
