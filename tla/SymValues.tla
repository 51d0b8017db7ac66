----------------------------- MODULE SymValues -----------------------------
(* The values of the symbolic memory executor: hash-consed expressions,    *)
(* pointers with their provenance, regions, store records, the path state, *)
(* the explorer's results, and the two questions it puts to the solver     *)
(* (is the goal proved on this path, is there a model that refutes it).    *)
(*                                                                         *)
(* An expression is a tree over constants and symbols and is evaluated in  *)
(* a world, an assignment of a value to every symbol.  The 64-bit integers *)
(* are the mathematical ones: the values here are too small to wrap.       *)
EXTENDS Integers, Sequences, FiniteSets, SequencesExt

CONSTANT Vals          \* the values a scalar may have

ASSUME ValsAssumption == {0, 1} \subseteq Vals /\ Vals \subseteq Nat

-----------------------------------------------------------------------------
(* Expressions.  A symbol is named by its class and a number: "arg" a scalar *)
(* parameter, "?" a fresh unknown, "fld" a loaded unknown, "user" a value    *)
(* from user space, "ptr#" the address behind an opaque pointer.             *)
Con(n)      == [op |-> "con", n |-> n]
Sym(cls, k) == [op |-> "sym", s |-> <<cls, k>>]
IsCon(e)    == e.op = "con"
Truth(b)    == Con(IF b THEN 1 ELSE 0)

Apply(op, a, b) ==
  CASE op = "+"   -> a + b
    [] op = "*"   -> a * b
    [] op = "mod" -> a % b
    [] op = "<="  -> IF a <= b THEN 1 ELSE 0
    [] op = "="   -> IF a = b THEN 1 ELSE 0
    [] op = "#"   -> IF a # b THEN 1 ELSE 0
    [] op = "and" -> IF a # 0 /\ b # 0 THEN 1 ELSE 0
    [] op = "or"  -> IF a # 0 \/ b # 0 THEN 1 ELSE 0

Bin(op, a, b) ==
  IF IsCon(a) /\ IsCon(b) THEN Con(Apply(op, a.n, b.n))
  ELSE IF op = "+" /\ b = Con(0) THEN a
  ELSE IF op = "+" /\ a = Con(0) THEN b
  ELSE IF op = "*" /\ b = Con(1) THEN a
  ELSE [op |-> op, a |-> a, b |-> b]

Not(a) == IF IsCon(a) THEN Truth(a.n = 0) ELSE [op |-> "not", a |-> a]
Ite(c, a, b) ==
  IF IsCon(c) THEN IF c.n # 0 THEN a ELSE b
  ELSE IF a = b THEN a ELSE [op |-> "ite", c |-> c, a |-> a, b |-> b]
AndAll(conds) == FoldLeft(LAMBDA x, y : Bin("and", x, y), Con(1), conds)

RECURSIVE Ev(_, _)
Ev(e, w) ==
  CASE e.op = "con" -> e.n
    [] e.op = "sym" -> w[e.s]
    [] e.op = "not" -> IF Ev(e.a, w) = 0 THEN 1 ELSE 0
    [] e.op = "ite" -> IF Ev(e.c, w) # 0 THEN Ev(e.a, w) ELSE Ev(e.b, w)
    [] OTHER        -> Apply(e.op, Ev(e.a, w), Ev(e.b, w))

RECURSIVE symbols_of(_)
symbols_of(e) ==
  CASE e.op = "con" -> {}
    [] e.op = "sym" -> {e.s}
    [] e.op = "not" -> symbols_of(e.a)
    [] e.op = "ite" -> symbols_of(e.c) \cup symbols_of(e.a) \cup symbols_of(e.b)
    [] OTHER        -> symbols_of(e.a) \cup symbols_of(e.b)

\* An opaque pointer is null or not; every other symbol is any value.
Worlds(S) == {w \in [S -> Vals] : \A x \in S : x[1] = "ptr#" => w[x] \in {0, 1}}

Implied(A, goal) ==
  LET S == symbols_of(goal) \cup UNION {symbols_of(a) : a \in A}
  IN  \A w \in Worlds(S) : (\A a \in A : Ev(a, w) # 0) => Ev(goal, w) # 0

-----------------------------------------------------------------------------
(* Pointers.  A provenance is null, a region, an opaque object (identity 0 *)
(* is "no identity"), or a choice between two pointers.                    *)
ProvNull       == [k |-> "null"]
ProvRegion(r)  == [k |-> "reg", r |-> r]
ProvOpaque(id) == [k |-> "unk", id |-> id]
ProvSelect(c, p, q) == [k |-> "sel", c |-> c, p |-> p, q |-> q]

Scalar(e) == [t |-> "sc", e |-> e]
PtrTo(prov, off, align, tag) ==
  [t |-> "ptr", prov |-> prov, off |-> off, align |-> align, borrow |-> tag]
IsPtr(v) == v.t = "ptr"

RECURSIVE gcd(_, _)
gcd(a, b) == IF b = 0 THEN a ELSE gcd(b, a % b)

\* Provenance equality forgets the identity of opaque pointers, and pointer
\* equality the borrow tag.
RECURSIVE ProvEq(_, _)
ProvEq(a, b) ==
  CASE a.k # b.k      -> FALSE
    [] a.k = "reg"    -> a.r = b.r
    [] a.k = "sel"    -> /\ a.c = b.c
                         /\ ProvEq(a.p.prov, b.p.prov) /\ a.p.off = b.p.off
                         /\ ProvEq(a.q.prov, b.q.prov) /\ a.q.off = b.q.off
    [] OTHER          -> TRUE

\* ptr_base_key: the base an access is filed under, as a set of at most one.
BaseKey(v) ==
  IF ~IsPtr(v) THEN {}
  ELSE IF v.prov.k = "reg" THEN {<<"reg", v.prov.r>>}
  ELSE IF v.prov.k = "unk" /\ v.prov.id # 0 THEN {<<"opq", v.prov.id>>}
  ELSE {}

Region(kind, size, align, live, writable, contract, nowrap, assumed) ==
  [kind |-> kind, size |-> size, align |-> align, live |-> live,
   write |-> writable, contract |-> contract, nowrap |-> nowrap,
   user |-> FALSE, assumed |-> assumed, labels |-> {}]

-----------------------------------------------------------------------------
(* The path state s and the explorer e.  e.mem maps <<instruction, property>> *)
(* to what every visit so far agreed on.                                      *)
EmptyState ==
  [env |-> <<>>, regions |-> <<>>, pathcond |-> <<>>, facts |-> <<>>,
   heap |-> <<>>, unwritten |-> <<>>, refs |-> <<>>, opaque_labels |-> <<>>,
   nonnull |-> {}, borrows |-> <<>>, tainted |-> <<>>, typestates |-> <<>>,
   refcounts |-> <<>>, rcu |-> 0, irq |-> 0, percpu |-> {}, locks |-> {},
   spin |-> {}, fetched |-> {}, freed |-> {}, exact |-> TRUE]

\* The last three fields only observe: the identities select gave to a pointer
\* that need not have them; the instructions that relied on such a pointer or on
\* a store record a merge kept although a later store may have replaced it; and
\* the joins after which no path condition is left that every edge met.
NewExplorer(bugs, exported, valid_params, aliasing, complete) ==
  [fresh |-> 0, provs |-> 0, mem |-> <<>>, assumptions |-> {},
   bugs |-> bugs, exported |-> exported, valid_params |-> valid_params,
   aliasing |-> aliasing, complete |-> complete,
   mixed |-> {}, misled |-> {}, lossy |-> {}]

\* A store record; overtaken only observes too (merge_heap).
Record(target, value, size) ==
  [target |-> target, value |-> value, size |-> size, overtaken |-> FALSE]

\* A finite map with the entry k set to v, or without k.
Put(f, k, v) == [x \in DOMAIN f \cup {k} |-> IF x = k THEN v ELSE f[x]]
Drop(f, K)   == [x \in DOMAIN f \ K |-> f[x]]
At(f, k, d)  == IF k \in DOMAIN f THEN f[k] ELSE d

Agg(x, id, prop) == At(x.mem, <<id, prop>>, [proven |-> TRUE, refuted |-> FALSE])
record_mem(x, id, prop, d) ==
  LET g == Agg(x, id, prop)
  IN  [x EXCEPT !.mem = Put(@, <<id, prop>>,
         [proven  |-> g.proven /\ d = "proven",
          refuted |-> g.refuted \/ d = "refuted"])]
record(x, id, prop, ok) == record_mem(x, id, prop, IF ok THEN "proven" ELSE "unknown")
RecordAll(x, id, props, ok) ==
  FoldLeft(LAMBDA y, p : record(y, id, p, ok), x, props)
Assume(x, a) == [x EXCEPT !.assumptions = @ \cup {a}]

-----------------------------------------------------------------------------
(* Fresh values. *)
FreshScalar(x, cls) == [v |-> Scalar(Sym(cls, x.fresh)), e |-> [x EXCEPT !.fresh = @ + 1]]
\* fresh_value: a new opaque identity for a pointer, a new symbol otherwise.
FreshValue(x, ptr, cls) ==
  IF ptr THEN [v |-> PtrTo(ProvOpaque(x.provs + 1), Con(0), 1, 0),
               e |-> [x EXCEPT !.provs = @ + 1]]
  ELSE FreshScalar(x, cls)

-----------------------------------------------------------------------------
(* The solver.  With e.complete it answers every question; without, it only *)
(* knows what constant folding decides.                                     *)
Assumed(s) == ToSet(s.pathcond) \cup ToSet(s.facts)

\* The assumptions connected to the goal through shared symbols.
RECURSIVE Cone(_, _, _)
Cone(S, kept, A) ==
  LET more == {a \in A \ kept : symbols_of(a) \cap S # {}}
  IN  IF more = {} THEN kept
      ELSE Cone(S \cup UNION {symbols_of(a) : a \in more}, kept \cup more, A)
relevant_assumptions(goal, A) == Cone(symbols_of(goal), {}, A)

prove(goal, s, x) ==
  IF IsCon(goal) THEN goal.n # 0
  ELSE x.complete /\ Implied(relevant_assumptions(goal, Assumed(s)), goal)

find_counterexample(A, goal, x) == x.complete /\ ~Implied(A, goal)

genuine(sym, x) == sym[1] = "user" \/ (x.exported /\ sym[1] = "arg")
goal_has_param(goal)     == \E y \in symbols_of(goal) : y[1] = "arg"
goal_is_genuine(goal, x) == \A y \in symbols_of(goal) : genuine(y, x)
expr_has_genuine_leaf(e, x) == \E y \in symbols_of(e) : genuine(y, x)

\* decide: proved; else refuted where the gate lets a model count; else unknown.
\* mode: "off", "definite" (every world on the path violates), "possible".
\* extra is assumed of a counterexample only.
decide(conj, s, x, mode, extra) ==
  LET goal     == AndAll(conj)
      internal == ~x.exported /\ \E i \in DOMAIN conj : goal_has_param(conj[i])
      gate     == \/ s.exact /\ ~internal
                  \/ /\ x.bugs /\ mode = "possible"
                     /\ \A i \in DOMAIN conj : goal_is_genuine(conj[i], x)
      A        == Assumed(s) \cup extra
      refutes  == /\ mode = "definite" => x.complete /\ Implied(A, Not(goal))
                  /\ find_counterexample(A, goal, x)
  IN  IF \A i \in DOMAIN conj : prove(conj[i], s, x) THEN "proven"
      ELSE IF mode # "off" /\ gate /\ refutes THEN "refuted"
      ELSE "unknown"

\* A path is known to be taken by some input: an exact path, or any path in
\* bug-finding mode, whose condition has a model.
feasibility_witness(s, x) ==
  /\ s.exact \/ x.bugs
  /\ find_counterexample(Assumed(s), Con(0), x)

record_temporal(x, id, prop, violated, s) ==
  IF ~violated THEN record(x, id, prop, TRUE)
  ELSE record_mem(x, id, prop, IF feasibility_witness(s, x) THEN "refuted" ELSE "unknown")

-----------------------------------------------------------------------------
(* Operands: [k |-> "reg" | "int" | "null" | "undef", v |-> a number]. *)
Reg(r) == [k |-> "reg", v |-> r]
Lit(n) == [k |-> "int", v |-> n]
NullOp == [k |-> "null", v |-> 0]

\* eval_value: a pointer into a region that a merge dropped is opaque.  The
\* result carries the explorer, which may have handed out a fresh symbol.
eval_value(o, s, x) ==
  CASE o.k = "int"  -> [v |-> Scalar(Con(o.v)), e |-> x]
    [] o.k = "null" -> [v |-> PtrTo(ProvNull, Con(0), 1, 0), e |-> x]
    [] o.k = "reg" /\ o.v \in DOMAIN s.env ->
         LET v == s.env[o.v]
         IN  [v |-> IF IsPtr(v) /\ v.prov.k = "reg" /\ v.prov.r > Len(s.regions)
                    THEN [v EXCEPT !.prov = ProvOpaque(0)] ELSE v, e |-> x]
    [] OTHER -> FreshScalar(x, "?")

eval_pointer(o, s, x) ==
  LET r == eval_value(o, s, x)
  IN  IF IsPtr(r.v) THEN r ELSE [v |-> PtrTo(ProvOpaque(0), Con(0), 1, 0), e |-> r.e]

scalarize(v, x) ==
  IF ~IsPtr(v) THEN [v |-> v.e, e |-> x]
  ELSE IF v.prov.k = "null" THEN [v |-> Con(0), e |-> x]
  ELSE IF v.prov.k = "unk" /\ v.prov.id # 0
       THEN [v |-> Sym("ptr#", v.prov.id), e |-> x]
  ELSE LET f == FreshScalar(x, "?") IN [v |-> f.v.e, e |-> f.e]

eval_scalar(o, s, x) == LET r == eval_value(o, s, x) IN scalarize(r.v, r.e)

\* A comparison of two pointers into one region compares their offsets.
CmpScalars(op, sa, sb) == [v |-> Bin(op, sa.v, sb.v), e |-> sb.e]
CmpWith(op, sa, v) == CmpScalars(op, sa, scalarize(v, sa.e))
CmpValues(op, u, v, x) ==
  IF IsPtr(u) /\ IsPtr(v) /\ u.prov.k = "reg" /\ u.prov = v.prov
  THEN [v |-> Bin(op, u.off, v.off), e |-> x]
  ELSE CmpWith(op, scalarize(u, x), v)
CmpTo(op, u, r) == CmpValues(op, u, r.v, r.e)
CmpFrom(op, r, b, s) == CmpTo(op, r.v, eval_value(b, s, r.e))
eval_ptr_aware_cmp(op, a, b, s, x) == CmpFrom(op, eval_value(a, s, x), b, s)

\* select(d, a, b): if d then a else b, for scalars, for pointers of equal
\* provenance, and as a choice of provenances otherwise.  Of two opaque
\* pointers the first one's identity stands for both.
Mixed(p, q, x) ==
  IF p.k = "unk" /\ q.k = "unk" /\ p.id \notin {0, q.id} THEN [x EXCEPT !.mixed = @ \cup {p.id}]
  ELSE x
select(d, a, b, x) ==
  CASE ~IsPtr(a) /\ ~IsPtr(b) -> [v |-> Scalar(Ite(d, a.e, b.e)), e |-> x]
    [] IsPtr(a) /\ IsPtr(b) ->
         LET tag == IF a.borrow = b.borrow THEN a.borrow ELSE 0
             al  == gcd(a.align, b.align)
         IN  [v |-> IF ProvEq(a.prov, b.prov)
                    THEN PtrTo(a.prov, Ite(d, a.off, b.off), al, tag)
                    ELSE PtrTo(ProvSelect(d, a, b), Con(0), al, tag),
              e |-> Mixed(a.prov, b.prov, x)]
    [] OTHER -> FreshValue(x, TRUE, "?")

\* merge_values: the last value, and before it each one chosen by its edge.
merge_values(conds, vs, x) ==
  FoldLeft(LAMBDA acc, i : LET k == Len(vs) - i
                           IN  select(conds[k], vs[k], acc.v, acc.e),
           [v |-> vs[Len(vs)], e |-> x],
           [i \in 1..(Len(vs) - 1) |-> i])
=============================================================================
