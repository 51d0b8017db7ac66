------------------------------ MODULE BitBlast ------------------------------
(***************************************************************************)
(* The hash-consed bit-vector expressions of crates/solver (expr.rs) over  *)
(* the fixed-width values of crates/core (value.rs).                       *)
(*                                                                         *)
(* A context is the sequence of its nodes and an expression id a position  *)
(* in it.  A constructor takes the context and returns it, possibly one    *)
(* node longer, with the id of the result: [c |-> context, id |-> id].     *)
(* A symbol's name is a number.                                            *)
(*                                                                         *)
(* Bit-blasting (crates/solver bitblast.rs, blaster.rs): an expression as  *)
(* literals of a CNF built from Tseitin-encoded gates.                     *)
(*                                                                         *)
(* Variable v is the number v >= 1 and its negation -v.  A CNF is          *)
(*   n      the number of variables allocated,                             *)
(*   by     by[v]: the clauses whose newest variable is v,                 *)
(*   size   how many clauses were added,                                   *)
(*   t      the literal known to be true, None before there is one.        *)
(* A circuit takes a CNF and returns [c |-> CNF, x |-> literal(s)]; the    *)
(* next one is chained to it by Then;                                      *)
(* vectors are least significant bit first.                                *)
(***************************************************************************)
EXTENDS Integers, Sequences, FiniteSets, SequencesExt, Bitwise, TLC

BvOps == {"Add", "Sub", "Mul", "UDiv", "SDiv", "URem", "SRem",
          "And", "Or", "Xor", "Shl", "LShr", "AShr"}
CmpOps == {"Eq", "Ne", "Ult", "Ule", "Ugt", "Uge", "Slt", "Sle", "Sgt", "Sge"}

(* BitVector: the low w bits of a number, and their two's-complement reading. *)
Wrap(w, n) == n % (2 ^ w)
signed(w, u) == IF u >= 2 ^ (w - 1) THEN u - 2 ^ w ELSE u

(* Rust's signed division and remainder round towards zero. *)
Abs(n) == IF n < 0 THEN -n ELSE n
Quot(x, y) == IF (x < 0) = (y < 0) THEN Abs(x) \div Abs(y) ELSE -(Abs(x) \div Abs(y))
Rem(x, y) == x - y * Quot(x, y)

-----------------------------------------------------------------------------
(* Nodes: k is the constructor, op the operator of a "bin" or "cmp", w the *)
(* width, v the value of a constant or boolean or the name of a symbol.    *)
(* ExprCtx keeps the widths in a vector of its own: the w of a constant    *)
(* and of a symbol is also part of its Node, the w of any other is not.    *)

Node(k, op, w, v, args) == [k |-> k, op |-> op, w |-> w, v |-> v, args |-> args]

Result(c, id) == [c |-> c, id |-> id]

(* The derived equality of Node. *)
Same(m, n) == IF n.k \in {"const", "sym"} THEN m = n ELSE [m EXCEPT !.w = n.w] = n

(* Equal nodes get one id, with the width the first of them was given. *)
intern(c, node) ==
    IF \E i \in DOMAIN c : Same(c[i], node)
    THEN Result(c, CHOOSE i \in DOMAIN c : Same(c[i], node))
    ELSE Result(Append(c, node), Len(c) + 1)

constant(c, w, v) == intern(c, Node("const", "", w, Wrap(w, v), <<>>))
symbol(c, name, w) == intern(c, Node("sym", "", w, name, <<>>))
boolean(c, b) == intern(c, Node("bool", "", 1, IF b THEN 1 ELSE 0, <<>>))

IsConst(c, id) == c[id].k = "const"
IsZero(c, id) == IsConst(c, id) /\ c[id].v = 0
IsOne(c, id) == IsConst(c, id) /\ c[id].v = 1

negate(op) == CASE op = "Eq" -> "Ne"    [] op = "Ne" -> "Eq"
                [] op = "Ult" -> "Uge"  [] op = "Uge" -> "Ult"
                [] op = "Ule" -> "Ugt"  [] op = "Ugt" -> "Ule"
                [] op = "Slt" -> "Sge"  [] op = "Sge" -> "Slt"
                [] op = "Sle" -> "Sgt"  [] op = "Sgt" -> "Sle"

(* The symbols an expression mentions. *)
RECURSIVE symbols_of(_, _)
symbols_of(c, id) ==
    IF c[id].k = "sym" THEN {id}
    ELSE UNION {symbols_of(c, c[id].args[i]) : i \in DOMAIN c[id].args}

NoFold == -1    \* fold_bin's None: a division by zero is not folded

fold_bin(op, x, y, w) ==
    LET xs == signed(w, x)
        ys == signed(w, y)
        r == CASE op = "Add" -> x + y
               [] op = "Sub" -> x - y
               [] op = "Mul" -> x * y
               [] op = "UDiv" -> x \div y
               [] op = "URem" -> x % y
               [] op = "SDiv" -> Quot(xs, ys)
               [] op = "SRem" -> Rem(xs, ys)
               [] op = "And" -> x & y
               [] op = "Or" -> x | y
               [] op = "Xor" -> x ^^ y
               [] op = "Shl" -> IF y >= w THEN 0 ELSE x * 2 ^ y
               [] op = "LShr" -> IF y >= w THEN 0 ELSE x \div 2 ^ y
               [] op = "AShr" -> IF y >= w THEN (IF xs < 0 THEN -1 ELSE 0) ELSE xs \div 2 ^ y
    IN IF y = 0 /\ op \in {"UDiv", "URem", "SDiv", "SRem"} THEN NoFold ELSE Wrap(w, r)

eval_cmp(op, x, y, w) ==
    LET xs == signed(w, x)
        ys == signed(w, y)
    IN CASE op = "Eq" -> x = y     [] op = "Ne" -> x # y
         [] op = "Ult" -> x < y    [] op = "Ule" -> x <= y
         [] op = "Ugt" -> x > y    [] op = "Uge" -> x >= y
         [] op = "Slt" -> xs < ys  [] op = "Sle" -> xs <= ys
         [] op = "Sgt" -> xs > ys  [] op = "Sge" -> xs >= ys

-----------------------------------------------------------------------------
(* The smart constructors: constant folding and algebraic simplification. *)

zext(c, val, to) ==
    IF c[val].w >= to THEN Result(c, val)
    ELSE IF IsConst(c, val) THEN constant(c, to, c[val].v)
    ELSE intern(c, Node("zext", "", to, 0, <<val>>))

(* Wrong variant: a constant is widened without its sign. *)
Mutsext(c, val, to) ==
    IF c[val].w >= to THEN Result(c, val)
    ELSE IF IsConst(c, val) THEN constant(c, to, c[val].v)
    ELSE intern(c, Node("sext", "", to, 0, <<val>>))

sext(c, val, to) ==
    IF c[val].w >= to THEN Result(c, val)
    ELSE IF IsConst(c, val) THEN constant(c, to, signed(c[val].w, c[val].v))
    ELSE intern(c, Node("sext", "", to, 0, <<val>>))

bin(c, op, a, b) ==
    LET w == c[a].w
        both == IsConst(c, a) /\ IsConst(c, b) /\ c[b].w = w
        folded == IF both THEN fold_bin(op, c[a].v, c[b].v, w) ELSE NoFold
    IN CASE folded # NoFold -> constant(c, w, folded)
         [] folded = NoFold /\ op \in {"Add", "Sub", "Or", "Xor"} /\ IsZero(c, b) -> Result(c, a)
         [] folded = NoFold /\ op \in {"Add", "Or"} /\ IsZero(c, a) -> Result(c, b)
         [] folded = NoFold /\ op \in {"Mul", "And"} /\ IsZero(c, b) -> Result(c, b)
         [] folded = NoFold /\ op \in {"Mul", "And"} /\ IsZero(c, a) -> Result(c, a)
         [] folded = NoFold /\ op = "Mul" /\ IsOne(c, b) -> Result(c, a)
         [] folded = NoFold /\ op = "Mul" /\ IsOne(c, a) -> Result(c, b)
         [] folded = NoFold /\ op = "Sub" /\ a = b -> constant(c, w, 0)
         [] OTHER -> intern(c, Node("bin", op, w, 0, <<a, b>>))

(* The comparisons that hold between a term and itself. *)
Reflexive == {"Eq", "Ule", "Uge", "Sle", "Sge"}

cmp(c, op, a, b) ==
    IF IsConst(c, a) /\ IsConst(c, b) /\ c[a].w = c[b].w
    THEN boolean(c, eval_cmp(op, c[a].v, c[b].v, c[a].w))
    ELSE IF a = b THEN boolean(c, op \in Reflexive)
    ELSE intern(c, Node("cmp", op, 1, 0, <<a, b>>))

(* A negation is pushed into the comparison below it. *)
not(c, e) ==
    LET n == c[e]
    IN CASE n.k = "bool" -> boolean(c, n.v = 0)
         [] n.k = "not" -> Result(c, n.args[1])
         [] n.k = "cmp" -> cmp(c, negate(n.op), n.args[1], n.args[2])
         [] OTHER -> intern(c, Node("not", "", 1, 0, <<e>>))

(* `and` and `or`: the neutral boolean is dropped, the absorbing one decides, a   *)
(* nested connective of the same kind is flattened, operands are sorted and unique. *)
Junction(c, k, neutral, parts) ==
    LET bools == {c[parts[i]].v : i \in {j \in DOMAIN parts : c[parts[j]].k = "bool"}}
        flat == UNION {CASE c[parts[i]].k = "bool" -> {}
                         [] c[parts[i]].k = k -> ToSet(c[parts[i]].args)
                         [] OTHER -> {parts[i]} : i \in DOMAIN parts}
    IN CASE 1 - neutral \in bools -> boolean(c, neutral = 0)
         [] 1 - neutral \notin bools /\ flat = {} -> boolean(c, neutral = 1)
         [] 1 - neutral \notin bools /\ Cardinality(flat) = 1 ->
                Result(c, CHOOSE i \in flat : TRUE)
         [] OTHER -> intern(c, Node(k, "", 1, 0, SetToSortSeq(flat, <)))

and(c, parts) == Junction(c, "and", 1, parts)
or(c, parts) == Junction(c, "or", 0, parts)

ite(c, cond, t, e) ==
    IF c[cond].k = "bool" THEN Result(c, IF c[cond].v = 1 THEN t ELSE e)
    ELSE IF t = e THEN Result(c, t)
    ELSE intern(c, Node("ite", "", c[t].w, 0, <<cond, t, e>>))

-----------------------------------------------------------------------------
(* What an expression means: its value under a valuation of the symbols'   *)
(* names.  Division by zero has SMT-LIB's total value, which is what the   *)
(* circuits give it; every other operator is that of the machine.          *)

Bit(x, i) == (x \div 2 ^ i) % 2
OfBits(w, B(_)) == FoldSet(LAMBDA i, n : n + 2 ^ i * B(i), 0, 0 .. w - 1)

Apply(op, w, x, y) ==
    LET xs == signed(w, x)
        ys == signed(w, y)
        power == 2 ^ y
    IN CASE op = "Add" -> (x + y) % 2 ^ w
         [] op = "Sub" -> (x - y) % 2 ^ w
         [] op = "Mul" -> (x * y) % 2 ^ w
         [] op = "UDiv" -> IF y = 0 THEN 2 ^ w - 1 ELSE x \div y
         [] op = "URem" -> IF y = 0 THEN x ELSE x % y
         [] op = "SDiv" -> IF y = 0 THEN (IF xs < 0 THEN 1 ELSE 2 ^ w - 1)
                           ELSE Wrap(w, Quot(xs, ys))
         [] op = "SRem" -> IF y = 0 THEN x ELSE Wrap(w, Rem(xs, ys))
         [] op = "And" -> OfBits(w, LAMBDA i : Bit(x, i) * Bit(y, i))
         [] op = "Or" -> OfBits(w, LAMBDA i : IF Bit(x, i) + Bit(y, i) > 0 THEN 1 ELSE 0)
         [] op = "Xor" -> OfBits(w, LAMBDA i : (Bit(x, i) + Bit(y, i)) % 2)
         [] op = "Shl" -> Wrap(w, x * power)
         [] op = "LShr" -> x \div power
         [] op = "AShr" -> Wrap(w, xs \div power)

(* The value of a node whose operands have the values xs and the widths ws. *)
NodeValue(n, xs, ws, env) ==
    LET b(p) == IF p THEN 1 ELSE 0
    IN CASE n.k \in {"const", "bool"} -> Wrap(n.w, n.v)
         [] n.k = "sym" -> env[n.v]
         [] n.k = "bin" -> Apply(n.op, n.w, xs[1], xs[2])
         [] n.k = "cmp" -> b(eval_cmp(n.op, xs[1], xs[2], ws[1]))
         [] n.k = "not" -> 1 - xs[1]
         [] n.k = "and" -> b(\A i \in DOMAIN xs : xs[i] = 1)
         [] n.k = "or" -> b(\E i \in DOMAIN xs : xs[i] = 1)
         [] n.k = "ite" -> IF xs[1] = 1 THEN xs[2] ELSE xs[3]
         [] n.k = "zext" -> xs[1]
         [] n.k = "sext" -> Wrap(n.w, signed(ws[1], xs[1]))

RECURSIVE Value(_, _, _)
Value(c, id, env) ==
    LET n == c[id]
    IN NodeValue(n, [i \in DOMAIN n.args |-> Value(c, n.args[i], env)],
                 [i \in DOMAIN n.args |-> c[n.args[i]].w], env)

Holds(c, id, env) == Value(c, id, env) = 1

(* Every valuation of the symbols of a context. *)
SymNodes(c) == {c[i] : i \in {j \in DOMAIN c : c[j].k = "sym"}}
Valuations(c) ==
    LET names == {n.v : n \in SymNodes(c)}
        width(v) == (CHOOSE n \in SymNodes(c) : n.v = v).w
        top == 2 ^ (CHOOSE w \in {n.w : n \in SymNodes(c)} \cup {0} :
                        \A n \in SymNodes(c) : n.w <= w) - 1
    IN {env \in [names -> 0 .. top] : \A v \in names : env[v] < 2 ^ width(v)}

-----------------------------------------------------------------------------
(* Bit-blasting. *)

CONSTANT MaxWidth       \* MAX_WIDTH: the widest bit-vector that is blasted

ASSUME MaxWidthAssumption == MaxWidth \in Nat \ {0}

None == 0
EmptyCnf == [n |-> 0, by |-> <<>>, size |-> 0, t |-> None]
Out(c, x) == [c |-> c, x |-> x]
(* The circuit F goes on with the CNF and the literals of r. *)
Then(r, F(_, _)) == F(r.c, r.x)

(* A fresh variable, with the clauses that say what it stands for. *)
new_var(c, clauses) ==
    Out([c EXCEPT !.n = @ + 1, !.by = Append(@, clauses), !.size = @ + Cardinality(clauses)],
        c.n + 1)

(* The clause {l} for a literal that already has its variable. *)
Require(c, l) == [c EXCEPT !.by[Abs(l)] = @ \cup {{l}}, !.size = @ + 1]

lit_true(c) ==
    IF c.t # None THEN Out(c, c.t)
    ELSE Then(new_var(c, {{c.n + 1}}), LAMBDA d, v : Out([d EXCEPT !.t = v], v))
Complement(r) == Out(r.c, -r.x)
lit_false(c) == Complement(lit_true(c))

is_true(c, l) == c.t # None /\ l = c.t
is_false(c, l) == c.t # None /\ l = -c.t

-----------------------------------------------------------------------------
(* Gates.  Constant and repeated inputs are folded away. *)

and2(c, a, b) ==
    LET o == c.n + 1
    IN CASE is_false(c, a) \/ is_false(c, b) \/ a = -b -> lit_false(c)
         [] is_true(c, a) \/ a = b -> Out(c, b)
         [] is_true(c, b) -> Out(c, a)
         [] OTHER -> new_var(c, {{-a, -b, o}, {a, -o}, {b, -o}})

or2(c, a, b) ==
    LET o == c.n + 1
    IN CASE is_true(c, a) \/ is_true(c, b) \/ a = -b -> lit_true(c)
         [] is_false(c, a) \/ a = b -> Out(c, b)
         [] is_false(c, b) -> Out(c, a)
         [] OTHER -> new_var(c, {{a, b, -o}, {-a, o}, {-b, o}})

xor2(c, a, b) ==
    LET o == c.n + 1
    IN CASE is_false(c, a) -> Out(c, b)
         [] is_false(c, b) -> Out(c, a)
         [] is_true(c, a) -> Out(c, -b)
         [] is_true(c, b) -> Out(c, -a)
         [] a = b -> lit_false(c)
         [] a = -b -> lit_true(c)
         [] OTHER -> new_var(c, {{-a, -b, -o}, {a, b, -o}, {a, -b, o}, {-a, b, o}})

mux(c, s, a, b) ==
    IF is_true(c, s) \/ a = b THEN Out(c, a)
    ELSE IF is_false(c, s) THEN Out(c, b)
    ELSE Then(and2(c, s, a), LAMBDA d, t :
         Then(and2(d, -s, b), LAMBDA f, e : or2(f, t, e)))

iff(c, a, b) == Complement(xor2(c, a, b))

(* One gate per position of two vectors, in order. *)
Extend(xs, r) == Out(r.c, Append(xs, r.x))
Pairwise(c, gate(_, _, _), a, b) ==
    FoldLeft(LAMBDA s, i : Extend(s.x, gate(s.c, a[i], b[i])), Out(c, <<>>), [i \in DOMAIN a |-> i])

Chained(c, gate(_, _, _), lits) ==
    FoldLeft(LAMBDA s, l : gate(s.c, s.x, l), Out(c, Head(lits)), Tail(lits))
big_and(c, lits) == IF lits = <<>> THEN lit_true(c) ELSE Chained(c, and2, lits)
big_or(c, lits) == IF lits = <<>> THEN lit_false(c) ELSE Chained(c, or2, lits)

Negated(a) == [i \in DOMAIN a |-> -a[i]]
Choose2(c, s, a, b) == Pairwise(c, LAMBDA d, p, q : mux(d, s, p, q), a, b)
Filled(w, l) == [i \in 1 .. w |-> l]

-----------------------------------------------------------------------------
(* Arithmetic circuits. *)

full_adder(c, a, b, cin) ==
    Then(xor2(c, a, b), LAMBDA c1, axb :
    Then(xor2(c1, axb, cin), LAMBDA c2, sum :
    Then(and2(c2, a, b), LAMBDA c3, ab :
    Then(and2(c3, cin, axb), LAMBDA c4, cx :
    Then(or2(c4, ab, cx), LAMBDA c5, cout : Out(c5, [sum |-> sum, carry |-> cout]))))))

(* Ripple-carry addition: the sum at the operands' width, and the carry out. *)
adder(c, a, b, cin) ==
    FoldLeft(LAMBDA s, i : Then(full_adder(s.c, a[i], b[i], s.x.carry), LAMBDA d, r :
                                Out(d, [sum |-> Append(s.x.sum, r.sum), carry |-> r.carry])),
             Out(c, [sum |-> <<>>, carry |-> cin]), [i \in DOMAIN a |-> i])
Sum(r) == Out(r.c, r.x.sum)

add(c, a, b) == Sum(Then(lit_false(c), LAMBDA d, zero : adder(d, a, b, zero)))

(* a + ~b + 1: the carry out is set exactly when a >= b, unsigned. *)
sub_with_borrow(c, a, b) == Then(lit_true(c), LAMBDA d, one : adder(d, a, Negated(b), one))

(* Bit j of b times a, moved to its place. *)
PartialProduct(c, a, bit, j, zero) ==
    FoldLeft(LAMBDA s, i : Extend(s.x, IF i < j THEN Out(s.c, zero) ELSE and2(s.c, a[i - j + 1], bit)),
             Out(c, <<>>), [i \in DOMAIN a |-> i])
mul(c, a, b) ==
    Then(lit_false(c), LAMBDA d, zero :
         FoldLeft(LAMBDA s, j : Then(PartialProduct(s.c, a, b[j], j, zero),
                                     LAMBDA f, pp : add(f, s.x, pp)),
                  Out(d, Filled(Len(a), zero)), [j \in DOMAIN a |-> j]))

negate_bits(c, a) ==
    Sum(Then(lit_false(c), LAMBDA d, zero : adder(d, Negated(a), Filled(Len(a), zero), -zero)))

(* The number, or its negation where the sign is set. *)
NegatedIf(c, sign, a) == Then(negate_bits(c, a), LAMBDA d, n : Choose2(d, sign, n, a))

(* The magnitude of a two's-complement number; its sign is its last bit. *)
abs_sign(c, a) == NegatedIf(c, Last(a), a)

(* Restoring division, most significant bit first; the partial remainder has one *)
(* bit of headroom while the divisor is tried.                                   *)
DivStep(c, quot, shifted, bext) ==
    Then(sub_with_borrow(c, shifted, bext), LAMBDA d, trial :
    Then(Choose2(d, trial.carry, trial.sum, shifted), LAMBDA f, kept :
         Out(f, [quot |-> <<trial.carry>> \o quot, rem |-> Front(kept)])))
udivrem(c, a, b) ==
    Then(lit_false(c), LAMBDA d, zero :
         FoldLeft(LAMBDA s, k : DivStep(s.c, s.x.quot, <<a[Len(a) + 1 - k]>> \o s.x.rem, Append(b, zero)),
                  Out(d, [quot |-> <<>>, rem |-> Filled(Len(a), zero)]),
                  [k \in DOMAIN a |-> k]))

(* Signed division divides the magnitudes; the remainder has the dividend's sign. *)
sdivrem(c, a, b) ==
    Then(abs_sign(c, a), LAMBDA c1, ma :
    Then(abs_sign(c1, b), LAMBDA c2, mb :
    Then(udivrem(c2, ma, mb), LAMBDA c3, u :
    Then(xor2(c3, Last(a), Last(b)), LAMBDA c4, qsign :
    Then(NegatedIf(c4, qsign, u.quot), LAMBDA c5, quot :
    Then(NegatedIf(c5, Last(a), u.rem), LAMBDA c6, rem :
         Out(c6, [quot |-> quot, rem |-> rem])))))))

(* A vector moved by a known number of places. *)
Moved(op, a, by, fill) ==
    [i \in 1 .. Len(a) |-> IF op = "Shl" THEN (IF i > by THEN a[i - by] ELSE fill)
                           ELSE IF i + by <= Len(a) THEN a[i + by] ELSE fill]

(* ceil(log2(w)) of a width: the stages of the barrel shifter. *)
Stages(w) == CHOOSE k \in 0 .. w : 2 ^ k >= w /\ \A j \in 0 .. k - 1 : 2 ^ j < w

(* Barrel shifter: stage k moves by 2^k when bit k of the amount is set, and any *)
(* higher bit of the amount leaves only the fill.                                *)
ShiftFill(op, a, zero) == IF op = "AShr" THEN Last(a) ELSE zero
shift_var(c, op, a, b) ==
    Then(lit_false(c), LAMBDA d, zero :
    Then(FoldLeft(LAMBDA s, k : Choose2(s.c, b[k], Moved(op, s.x, 2 ^ (k - 1), ShiftFill(op, a, zero)), s.x),
                  Out(d, a), [k \in 1 .. Stages(Len(a)) |-> k]), LAMBDA f, staged :
    Then(big_or(f, SubSeq(b, Stages(Len(a)) + 1, Len(a))), LAMBDA g, oob :
         Choose2(g, oob, Filled(Len(a), ShiftFill(op, a, zero)), staged))))

shift_const(c, op, a, k) ==
    Then(lit_false(c), LAMBDA d, zero :
         Out(d, Moved(op, a, IF k < Len(a) THEN k ELSE Len(a), ShiftFill(op, a, zero))))

bitwise(c, op, a, b) ==
    CASE op = "And" -> Pairwise(c, and2, a, b)
      [] op = "Or" -> Pairwise(c, or2, a, b)
      [] op = "Xor" -> Pairwise(c, xor2, a, b)

-----------------------------------------------------------------------------
(* Comparison circuits. *)

eq(c, a, b) == Then(Pairwise(c, iff, a, b), LAMBDA d, bits : big_and(d, bits))

ult(c, a, b) == Then(sub_with_borrow(c, a, b), LAMBDA d, r : Out(d, -r.carry))

slt(c, a, b) ==
    Then(xor2(c, Last(a), Last(b)), LAMBDA d, differ :
    Then(ult(d, a, b), LAMBDA f, below : mux(f, differ, Last(a), below)))

(* The six orders are two circuits, with the operands exchanged or the answer complemented. *)
Swapped(op) == op \in {"Ugt", "Ule", "Sgt", "Sle"}
Inverted(op) == op \in {"Ne", "Uge", "Ule", "Sge", "Sle"}
Compared(c, op, a, b) ==
    CASE op \in {"Eq", "Ne"} -> eq(c, a, b)
      [] op \in {"Ult", "Uge", "Ugt", "Ule"} -> ult(c, a, b)
      [] op \in {"Slt", "Sge", "Sgt", "Sle"} -> slt(c, a, b)
Oriented(inverted, r) == IF inverted THEN Complement(r) ELSE r
compare(c, op, a, b) ==
    Oriented(Inverted(op), Compared(c, op, IF Swapped(op) THEN b ELSE a, IF Swapped(op) THEN a ELSE b))

-----------------------------------------------------------------------------
(* The blaster: memo gives the literals of every expression encoded so far, *)
(* ok is cleared by an expression it declines.                              *)

NewBlaster == [cnf |-> EmptyCnf, memo |-> <<>>, ok |-> TRUE]
Declined(b) == [b EXCEPT !.ok = FALSE]

const_bits(c, v, w) ==
    Then(lit_true(c), LAMBDA d, t : Out(d, [i \in 1 .. w |-> IF Bit(v, i - 1) = 1 THEN t ELSE -t]))

Part(quot, r) == Out(r.c, IF quot THEN r.x.quot ELSE r.x.rem)
encode_bin(c, ctx, op, a, b, b_id) ==
    CASE op = "Add" -> add(c, a, b)
      [] op = "Sub" -> Sum(sub_with_borrow(c, a, b))
      [] op = "Mul" -> mul(c, a, b)
      [] op \in {"And", "Or", "Xor"} -> bitwise(c, op, a, b)
      [] op \in {"Shl", "LShr", "AShr"} ->
            IF IsConst(ctx, b_id) THEN shift_const(c, op, a, ctx[b_id].v)
            ELSE shift_var(c, op, a, b)
      [] op \in {"UDiv", "URem"} -> Part(op = "UDiv", udivrem(c, a, b))
      [] op \in {"SDiv", "SRem"} -> Part(op = "SDiv", sdivrem(c, a, b))

OneBit(r) == Out(r.c, <<r.x>>)
SymbolBits(c, w) ==
    FoldLeft(LAMBDA s, i : Extend(s.x, new_var(s.c, {})), Out(c, <<>>), [i \in 1 .. w |-> i])
Prolonged(xs, w, l) == [i \in 1 .. w |-> IF i <= Len(xs) THEN xs[i] ELSE l]

(* The literals of node n, given those of its operands (xs). *)
encode_node(c, ctx, n, xs) ==
    CASE n.k = "const" -> const_bits(c, n.v, n.w)
      [] n.k = "sym" -> SymbolBits(c, n.w)
      [] n.k = "bool" -> OneBit(IF n.v = 1 THEN lit_true(c) ELSE lit_false(c))
      [] n.k = "bin" -> encode_bin(c, ctx, n.op, xs[1], xs[2], n.args[2])
      [] n.k = "cmp" -> OneBit(compare(c, n.op, xs[1], xs[2]))
      [] n.k = "not" -> Out(c, Negated(xs[1]))
      [] n.k = "and" -> OneBit(big_and(c, [i \in DOMAIN xs |-> xs[i][1]]))
      [] n.k = "or" -> OneBit(big_or(c, [i \in DOMAIN xs |-> xs[i][1]]))
      [] n.k = "ite" -> Choose2(c, xs[1][1], xs[2], xs[3])
      [] n.k = "zext" -> Then(lit_false(c), LAMBDA d, zero : Out(d, Prolonged(xs[1], n.w, zero)))
      [] n.k = "sext" -> Out(c, Prolonged(xs[1], n.w, Last(xs[1])))

(* Operands of the widths the operator takes; anything else is declined. *)
WellSized(n, xs) ==
    CASE n.k \in {"bin", "cmp"} -> Len(xs[1]) = Len(xs[2])
      [] n.k \in {"not", "and", "or"} -> \A i \in DOMAIN xs : Len(xs[i]) = 1
      [] n.k = "ite" -> Len(xs[1]) = 1 /\ Len(xs[2]) = Len(xs[3])
      [] OTHER -> TRUE

Memoised(b, id, r) == [b EXCEPT !.cnf = r.c, !.memo = @ @@ (id :> (<<>> \o r.x))]
(* b has encoded the operands, unless one of them was declined. *)
EncodedNode(b, ctx, id, n, xs) ==
    IF WellSized(n, xs) THEN Memoised(b, id, encode_node(b.cnf, ctx, n, xs)) ELSE Declined(b)
WithOperands(b, ctx, id, n) ==
    IF b.ok THEN EncodedNode(b, ctx, id, n, [i \in DOMAIN n.args |-> b.memo[n.args[i]]]) ELSE b

RECURSIVE encode(_, _, _)
encode(b, ctx, id) ==
    IF id \in DOMAIN b.memo THEN b
    ELSE IF ctx[id].w \notin 1 .. MaxWidth THEN Declined(b)
    ELSE WithOperands(FoldLeft(LAMBDA s, a : IF s.ok THEN encode(s, ctx, a) ELSE s, b, ctx[id].args),
                      ctx, id, ctx[id])

(* encode_bool and the unit clause its callers add: the literal, or its negation, holds. *)
Required(b, id, truth) ==
    IF ~b.ok \/ Len(b.memo[id]) # 1 THEN Declined(b)
    ELSE [b EXCEPT !.cnf = Require(@, IF truth THEN b.memo[id][1] ELSE -b.memo[id][1])]
encode_bool(b, ctx, id, truth) == Required(IF b.ok THEN encode(b, ctx, id) ELSE b, id, truth)

(* A conjunction of expressions that hold and one that does not. *)
encode_all(ctx, holding, failing) ==
    FoldLeft(LAMBDA b, q : encode_bool(b, ctx, q[1], q[2]), NewBlaster,
             [i \in 1 .. Len(holding) + 1 |-> IF i > Len(holding) THEN <<failing, FALSE>>
                                              ELSE <<holding[i], TRUE>>])

-----------------------------------------------------------------------------
(* The models of a CNF, variable by variable: what the SAT solver decides. *)

LitTrue(m, l) == m[Abs(l)] = (l > 0)
Meets(m, clauses) == \A cl \in clauses : \E l \in cl : LitTrue(m, l)

RECURSIVE ModelsUpTo(_, _)
ModelsUpTo(c, v) ==
    IF v = 0 THEN {<<>>}
    ELSE {m \in {Append(p, b) : p \in ModelsUpTo(c, v - 1), b \in BOOLEAN} : Meets(m, c.by[v])}
Models(c) == ModelsUpTo(c, c.n)

(* The number a model gives a vector of literals. *)
Read(m, bits) == OfBits(Len(bits), LAMBDA i : IF LitTrue(m, bits[i + 1]) THEN 1 ELSE 0)

=============================================================================
