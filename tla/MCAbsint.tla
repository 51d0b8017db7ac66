------------------------------ MODULE MCAbsint ------------------------------
(* Functions for the abstract interpretation: one of every loop form that the
   analyses recognise, with the operands that bring it to its limits. *)
EXTENDS LoopFacts

R(r) == [reg |-> r]
L(c) == [lit |-> c]
Op(op, d, a, b)     == [op |-> op, dst |-> d, a |-> a, b |-> b]
Check(op, a, b)     == [op |-> "check", cond |-> [kind |-> "all", parts |-> {[op |-> op, a |-> a, b |-> b]}]]
InRange(kind, r, lo, hi) == [op |-> "check", cond |-> [kind |-> kind, parts |->
                                {[op |-> "sge", a |-> R(r), b |-> L(lo)], [op |-> "sle", a |-> R(r), b |-> L(hi)]}]]
Blk(params, insts, term) == [params |-> params, insts |-> insts, term |-> term]
Ret == [op |-> "ret"]
Br(t, args) == [op |-> "br", to |-> t, args |-> args]
If(c, t, ta, e, ea) == [op |-> "condbr", cond |-> c, then_blk |-> t, then_args |-> ta, else_blk |-> e, else_args |-> ea]
Prog(blocks, inputs, ptrs, size) == [blocks |-> blocks, inputs |-> inputs, ptrs |-> ptrs, size |-> size]

(* for (i = c0; i op n; i += step) *)
Counting(c0, op, step, ns) == Prog(<<
    Blk(<<>>, <<>>, Br(2, <<L(c0)>>)),
    Blk(<<2>>, <<Op(op, 3, R(2), R(1)), InRange("any", 2, 3, 4)>>, If(3, 3, <<>>, 4, <<>>)),
    Blk(<<>>, <<Check("sge", R(2), L(0)), Op("add", 4, R(2), L(step))>>, Br(2, <<R(4)>>)),
    Blk(<<>>, <<Check("slt", R(2), L(0))>>, Ret)>>, (1 :> ns), {}, 1)

(* if (copy of n > 3) m = 3 else m = n; for (i = 0; i < m; i++) *)
Clamp == Prog(<<
    Blk(<<>>, <<Op("use", 2, R(1), R(1)), Op("sgt", 3, R(2), L(3))>>, If(3, 2, <<>>, 3, <<>>)),
    Blk(<<>>, <<>>, Br(4, <<L(3)>>)),
    Blk(<<>>, <<Check("sle", R(1), L(3))>>, Br(4, <<R(1)>>)),
    Blk(<<4>>, <<>>, Br(5, <<L(0)>>)),
    Blk(<<5>>, <<Op("slt", 6, R(5), R(4))>>, If(6, 6, <<>>, 7, <<>>)),
    Blk(<<>>, <<Check("sle", R(5), L(2)), Op("add", 7, R(5), L(1))>>, Br(5, <<R(7)>>)),
    Blk(<<>>, <<>>, Ret)>>, (1 :> -2 .. 5), {}, 1)

(* A cycle entered at both of its blocks. *)
Irreducible == Prog(<<
    Blk(<<>>, <<Op("eq", 2, R(1), L(0))>>, If(2, 2, <<L(0)>>, 3, <<L(1)>>)),
    Blk(<<3>>, <<Op("add", 4, R(3), L(1)), Op("ult", 5, R(4), R(1))>>, If(5, 3, <<R(4)>>, 4, <<>>)),
    Blk(<<6>>, <<Op("add", 7, R(6), L(1)), Op("ne", 8, R(7), R(1))>>, If(8, 2, <<R(7)>>, 4, <<>>)),
    Blk(<<>>, <<>>, Ret)>>, (1 :> {0, 3, 5}), {}, 1)

(* j follows i, at most as fast; i and j are kept apart by a difference. *)
Following == Prog(<<
    Blk(<<>>, <<>>, Br(2, <<L(0), L(0)>>)),
    Blk(<<2, 3>>, <<Op("slt", 4, R(2), R(1))>>, If(4, 3, <<>>, 6, <<>>)),
    Blk(<<>>, <<Op("add", 5, R(2), L(1)), Op("trunc", 6, R(2), R(2)), Op("eq", 7, R(6), L(0)), Op("add", 8, R(3), L(1))>>,
        If(7, 4, <<>>, 5, <<R(3)>>)),
    Blk(<<>>, <<>>, Br(5, <<R(8)>>)),
    Blk(<<9>>, <<>>, Br(2, <<R(5), R(9)>>)),
    Blk(<<>>, <<>>, Ret)>>, (1 :> 0 .. 4), {}, 1)

(* while (it != end) it += step *)
Walk(step, ends) == Prog(<<
    Blk(<<>>, <<>>, Br(2, <<L(0)>>)),
    Blk(<<2>>, <<Op("ne", 3, R(2), R(1))>>, If(3, 3, <<>>, 4, <<>>)),
    Blk(<<>>, <<Op("load", 4, R(2), R(2)), Op("ptroff", 5, R(2), L(step))>>, Br(2, <<R(5)>>)),
    Blk(<<>>, <<>>, Ret)>>, (1 :> ends), {1, 2, 5}, 4)

(* The rotated walk, guarded against an empty range or not. *)
Rotated(guarded, step, ends) == Prog(<<
    Blk(<<>>, <<Op("eq", 2, R(1), L(0))>>, If(2, IF guarded THEN 3 ELSE 2, IF guarded THEN <<>> ELSE <<L(0)>>, 2, <<L(0)>>)),
    Blk(<<3>>, <<Op("load", 4, R(3), R(3)), Op("ptroff", 5, R(3), L(step)), Op("eq", 6, R(5), R(1))>>,
        If(6, 3, <<>>, 2, <<R(5)>>)),
    Blk(<<>>, <<>>, Ret)>>, (1 :> ends), {1, 3, 5}, 4)

(* while (a[k] != 0) k++ from 0 or from either of two values, the same loop left by k < n
   or by either, and while (a[k] == 0) k++. *)
Scan(by) == Prog(<<
    Blk(<<>>, <<Op("eq", 8, R(1), L(0))>>, IF by = "entries" THEN If(8, 2, <<L(0)>>, 5, <<>>) ELSE Br(2, <<L(0)>>)),
    Blk(<<2>>, <<Op("sext", 3, R(2), R(2)), Op("load", 4, R(3), R(3)), Op("eq", 5, R(4), L(0)), Op("ult", 6, R(2), R(1))>>,
        CASE by \in {"value", "entries"} -> If(5, 4, <<>>, 3, <<>>)
          [] by = "zeros"                -> If(5, 3, <<>>, 4, <<>>)
          [] OTHER                       -> If(6, 3, <<>>, 4, <<>>)),
    Blk(<<>>, <<Op("add", 7, R(2), L(1))>>,
        IF by = "both" THEN If(5, 4, <<>>, 2, <<R(7)>>) ELSE Br(2, <<R(7)>>)),
    Blk(<<>>, <<>>, Ret),
    Blk(<<>>, <<>>, Br(2, <<L(5)>>))>>, (1 :> {0, 5}), {}, 3)

(* The scan looks at every other element only. *)
SkippingScan == Prog(<<
    Blk(<<>>, <<>>, Br(2, <<L(0)>>)),
    Blk(<<2>>, <<Op("trunc", 3, R(2), R(2)), Op("eq", 4, R(3), L(1))>>, If(4, 3, <<>>, 4, <<>>)),
    Blk(<<>>, <<Op("load", 5, R(2), R(2)), Op("eq", 6, R(5), L(0))>>, If(6, 5, <<>>, 4, <<>>)),
    Blk(<<>>, <<Op("add", 7, R(2), L(1))>>, Br(2, <<R(7)>>)),
    Blk(<<>>, <<>>, Ret)>>, (1 :> {0}), {}, 3)

(* Unsigned checks and an unsigned guard of a loop, with values of either sign. *)
UnsignedGuard == Prog(<<
    Blk(<<>>, <<Op("use", 2, R(1), R(1)), Op("use", 3, L(1), L(1)), Op("use", 5, L(-3), L(-3)), Op("ult", 4, R(3), R(2)),
                Check("ult", R(5), R(3)), Check("uge", R(3), L(1)), Check("ule", R(5), L(-2)), Check("ult", R(3), R(2))>>,
        If(4, 2, <<L(0)>>, 4, <<>>)),
    Blk(<<6>>, <<Check("ult", R(6), R(2)), Op("slt", 7, R(6), R(3))>>, If(7, 3, <<>>, 4, <<>>)),
    Blk(<<>>, <<Op("add", 8, R(6), L(1))>>, Br(2, <<R(8)>>)),
    Blk(<<>>, <<>>, Ret)>>, (1 :> {-2, 0, 2, 3}), {}, 1)

(* Constants, a branch with both sides to one block, a block never reached. *)
Straight == Prog(<<
    Blk(<<>>, <<Op("use", 2, L(2), L(2)), Op("mul", 3, R(2), L(-3)), Op("sub", 4, R(3), L(1)), Op("slt", 5, R(1), L(1)),
                Op("use", 8, R(4), R(4)), Op("use", 9, R(8), R(8)), Op("add", 10, R(9), R(2)),
                Check("eq", R(4), L(-7)), Check("ugt", R(1), R(4))>>, If(5, 2, <<L(1)>>, 2, <<L(5)>>)),
    Blk(<<6>>, <<InRange("all", 6, 1, 5), InRange("all", 6, 2, 5), Op("sgt", 7, R(6), L(5))>>, If(7, 3, <<>>, 4, <<>>)),
    Blk(<<>>, <<Check("slt", L(1), L(0))>>, Ret),
    Blk(<<>>, <<>>, Ret)>>, (1 :> {0, 1}), {}, 1)

(* x grows until it overflows. *)
Overflowing == Prog(<<
    Blk(<<>>, <<>>, Br(2, <<L(0)>>)),
    Blk(<<2>>, <<Op("ne", 3, R(2), R(1))>>, If(3, 3, <<>>, 4, <<>>)),
    Blk(<<>>, <<Op("add", 4, R(2), L(3)), Check("sge", R(2), L(0))>>, Br(2, <<R(4)>>)),
    Blk(<<>>, <<>>, Ret)>>, (1 :> {1, 2}), {}, 1)

MCPrograms ==
    {Counting(c0, op, step, 0 .. 4) : c0 \in {0, 1}, op \in {"slt", "sle", "ne", "sgt"}, step \in {1, 2}}
    \cup {Counting(0, "ne", 2, {0, 2, 4}), Counting(2, "ult", 1, {2, 3}), Clamp, Irreducible, Following, Straight, Overflowing}
    \cup {Walk(s, e) : s \in {1, 2, 3}, e \in {{0, 4}, {1, 3}}}
    \cup {Rotated(g, s, e) : g \in BOOLEAN, s \in {1, 2}, e \in {{0, 4}, {2, 4}}}
    \cup {Scan(by) : by \in {"value", "index", "both", "zeros", "entries"}} \cup {SkippingScan, UnsignedGuard}

-----------------------------------------------------------------------------
(* The hypotheses that FixpointProofs makes about a problem and its domain hold of these
   functions and of the interval environments over a few bounds. *)
ASSUME ProgramsWellFormed == \A p \in MCPrograms : I!WellFormed(FunctionOf(p))

ASSUME ProgramsInSsa == \A p \in MCPrograms : \A s \in Arrivals(FunctionOf(p)) : SsaAt(FunctionOf(p), s)

SomeBounds    == {NegInf, -1, 0, 2, PosInf}
SomeIntervals == {Empty} \cup {i \in SomeBounds \X SomeBounds : i[1] <= i[2]}
SomeEnvs      == {Unreachable} \cup [1 .. 1 -> SomeIntervals]
leq(i, j)     == IsEmpty(i) \/ (~IsEmpty(j) /\ j[1] <= i[1] /\ i[2] <= j[2])
EnvLeq(a, b)  == a = Unreachable \/ (b # Unreachable /\ \A r \in DOMAIN a : leq(a[r], b[r]))

ASSUME IntervalLaws ==
    /\ \A a, b \in SomeEnvs : /\ EnvLeq(a, EnvJoin(a, b)) /\ EnvLeq(b, EnvJoin(a, b))
                             /\ EnvLeq(a, EnvWiden(a, b)) /\ EnvLeq(b, EnvWiden(a, b))
    /\ \A a, b, c \in SomeEnvs : EnvLeq(a, b) /\ EnvLeq(b, c) => EnvLeq(a, c)

=============================================================================
