------------------------------ MODULE MCSymExec ------------------------------
(* Instances of SymExec for TLC: functions of two or three parameters. *)
EXTENDS SymExec

R(r) == [reg |-> r]
L(v) == [lit |-> v]

Ret == [op |-> "ret"]
Br(to, args) == [op |-> "br", to |-> to, args |-> args]
If(c, t, ta, e, ea) ==
    [op |-> "condbr", cond |-> c, then_blk |-> t, then_args |-> ta,
     else_blk |-> e, else_args |-> ea]
Switch(v, cases, default) ==
    [op |-> "switch", value |-> v, cases |-> cases, default |-> default]
Case(v, to) == [val |-> v, to |-> to]

NoCheck == [kind |-> "none", reg |-> 1]
Mem(r)    == [kind |-> "mem", reg |-> r]
Scalar(r) == [kind |-> "scalar", reg |-> r]

B(params, insts, check, term) ==
    [params |-> params, insts |-> insts, check |-> check, term |-> term]
Set(dst, src) == << [op |-> "assign", dst |-> dst, src |-> src, neg |-> FALSE] >>
Neg(dst, src) == << [op |-> "assign", dst |-> dst, src |-> src, neg |-> TRUE] >>
New(dst)       == << [op |-> "alloc", dst |-> dst, ty |-> "i32", count |-> 1] >>
Array(dst)     == << [op |-> "alloc", dst |-> dst, ty |-> "i32", count |-> 2] >>
Ld(dst, p)     == << [op |-> "load", dst |-> dst, ptr |-> R(p), ty |-> "i32"] >>
St(p, v)       == << [op |-> "store", ptr |-> R(p), val |-> v, ty |-> "i32"] >>
As(ty, is)     == << [is[1] EXCEPT !.ty = ty] >>

Kinds(r) == {Mem(r), Scalar(r)}
Args == {L(0), L(1), R(2)}
Of(blocksets) ==
    {[blocks |-> bs, exported |-> ex, bug_finding |-> bug] : bs \in blocksets, ex \in BOOLEAN, bug \in BOOLEAN}

(* if (c) x = p else x = q; then a branch on d and an obligation on each side. *)
TwoDiamonds ==
    {<< B(<<>>, <<>>, NoCheck, If(1, 2, <<>>, 3, <<>>)),
        B(<<>>, <<>>, NoCheck, Br(4, <<p>>)),
        B(<<>>, <<>>, NoCheck, Br(4, <<q>>)),
        B(<<3>>, <<>>, NoCheck, If(d, 5, <<>>, 6, <<>>)),
        B(<<>>, <<>>, chk, Br(7, <<>>)),
        B(<<>>, Neg(4, R(3)), chk2, Br(7, <<>>)),
        B(<<>>, <<>>, Mem(3), Ret) >> :
     p \in Args, q \in Args, d \in 1 .. 3, chk \in {Mem(3), Scalar(2)}, chk2 \in Kinds(4)}


(* if (a) { if (b) x = p else x = q; use x } else x = r; use x. *)
Nested ==
    {<< B(<<>>, <<>>, NoCheck, If(1, 2, <<>>, 6, <<>>)),
        B(<<>>, <<>>, NoCheck, If(d, 3, <<>>, 4, <<>>)),
        B(<<>>, <<>>, NoCheck, Br(5, <<p>>)),
        B(<<>>, <<>>, chk, Br(5, <<q>>)),
        B(<<3>>, <<>>, chk2, Br(7, <<R(3)>>)),
        B(<<>>, Neg(5, R(1)), Mem(2), Br(7, <<r>>)),
        B(<<4>>, <<>>, Mem(4), Ret) >> :
     d \in 1 .. 2, p \in Args, q \in {L(0), R(1)}, r \in {L(0), R(2), R(5)},
     chk \in Kinds(2), chk2 \in Kinds(3)}

(* x = p; while (c) { use x; x = q, negated or not }; use x. *)
Loop ==
    {<< B(<<>>, <<>>, NoCheck, Br(2, <<p>>)),
        B(<<3>>, <<>>, NoCheck, If(c, 3, <<>>, 4, <<>>)),
        B(<<>>, insts, chk, Br(2, <<R(4)>>)),
        B(<<>>, <<>>, chk2, Ret) >> :
     p \in Args, c \in 1 .. 3, insts \in {Set(4, L(0)), Set(4, R(3)), Neg(4, R(3)), Set(4, R(1))},
     chk \in Kinds(3), chk2 \in {Mem(3), Mem(1)}}

(* A loop whose body branches, leaves early and comes back from both sides. *)
BranchingLoop ==
    {<< B(<<>>, <<>>, NoCheck, Br(2, <<p>>)),
        B(<<3>>, <<>>, NoCheck, If(2, 3, <<>>, 6, <<R(3)>>)),
        B(<<>>, <<>>, NoCheck, If(1, 4, <<>>, 5, <<>>)),
        B(<<>>, <<>>, Mem(3), Br(2, <<q>>)),
        B(<<>>, Neg(4, R(3)), NoCheck, If(4, 2, <<r>>, 6, <<R(4)>>)),
        B(<<5>>, <<>>, chk, Ret) >> :
     p \in Args, q \in {L(0), R(3)}, r \in {L(0), R(3), R(4)}, chk \in Kinds(5)}

(* A loop in a loop; the inner counter restarts on every turn of the outer. *)
NestedLoops ==
    {<< B(<<>>, <<>>, NoCheck, Br(2, <<p>>)),
        B(<<3>>, <<>>, NoCheck, If(1, 3, <<q>>, 5, <<>>)),
        B(<<4>>, <<>>, Mem(4), If(4, 4, <<>>, 2, <<R(4)>>)),
        B(<<>>, Neg(5, R(4)), Mem(3), Br(3, <<r>>)),
        B(<<>>, <<>>, Mem(3), Ret) >> :
     p \in Args, q \in {L(0), L(1), R(3)}, r \in {L(0), R(5), R(3)}}

(* switch (a) with and without a covering set of cases. *)
Switches ==
    {<< B(<<>>, <<>>, NoCheck, Switch(v, cs, 4)),
        B(<<>>, Set(3, R(1)), chk, Br(5, <<L(0)>>)),
        B(<<>>, Neg(3, R(1)), chk, Br(5, <<p>>)),
        B(<<>>, Neg(3, R(v)), chk, Br(5, <<p>>)),
        B(<<4>>, <<>>, Mem(4), Ret) >> :
     v \in 1 .. 2, p \in Args, chk \in Kinds(3),
     cs \in {<<Case(1, 2)>>, <<Case(0, 2)>>, <<Case(1, 2), Case(0, 3)>>, <<Case(1, 2), Case(0, 2)>>}}

(* The same shapes as unoptimised code has them: x lives in slot 3.  Written before
   the branch or on one side only; what is done to it besides. *)
Touched == {<<>>, Set(6, R(3)) \o St(6, L(1)), New(7) \o St(7, R(3)) \o Ld(8, 7) \o St(8, L(1)),
            As("i8", St(3, L(1))), As("i8", Ld(6, 3))}
SlotDiamond ==
    {<< B(<<>>, new \o before, NoCheck, If(1, 2, <<>>, 3, <<>>)),
        B(<<>>, St(3, p) \o Ld(9, 3), chk, Br(4, <<>>)),
        B(<<>>, also, NoCheck, Br(4, <<>>)),
        B(<<>>, <<>>, NoCheck, If(1, 5, <<>>, 6, <<>>)),
        B(<<>>, touched \o Ld(4, 3), Mem(4), Br(6, <<>>)),
        B(<<>>, <<>>, NoCheck, Ret) >> :
     new \in {New(3), Array(3)}, before \in {<<>>, St(3, L(0))}, p \in Args, also \in {<<>>, St(3, L(1))},
     touched \in Touched, chk \in {Scalar(9)}}

(* A slot that a loop reads and writes; one that is made anew on every turn. *)
SlotLoop ==
    {<< B(<<>>, New(3) \o St(3, p), NoCheck, Br(2, <<>>)),
        B(<<>>, Ld(4, 3), NoCheck, If(c, 3, <<>>, 4, <<>>)),
        B(<<>>, inner \o Ld(5, 3), Mem(5), Br(2, <<>>)),
        B(<<>>, Ld(6, 3), chk, Ret) >> :
     p \in Args, c \in {1, 4}, chk \in Kinds(6),
     inner \in {<<>>, St(3, L(0)), Neg(7, R(4)) \o St(3, R(7)), St(3, R(1)),
                New(8) \o St(8, R(4)) \o Ld(9, 8) \o St(3, R(9))}}

(* Two slots that trade places on every turn. *)
SlotSwap ==
    {<< B(<<>>, New(3) \o St(3, p) \o New(4) \o St(4, q), NoCheck, Br(2, <<>>)),
        B(<<>>, Ld(5, 3), Mem(5), If(1, 3, <<>>, 4, <<>>)),
        B(<<>>, Ld(6, 4) \o St(3, R(6)) \o St(4, R(5)), NoCheck, Br(2, <<>>)),
        B(<<>>, Ld(7, 4), Scalar(7), Ret) >> : p \in Args, q \in Args}

(* A switch straight into the join, through one edge of its own.  (Two edges into
   the join would share the block that splits them, and that block would be a join
   without a check: see MCShortCircuit.) *)
SlotSwitch ==
    {<< B(<<>>, New(3) \o St(3, p), NoCheck, Switch(v, sw[1], sw[2])),
        B(<<>>, St(3, q), NoCheck, Br(3, <<>>)),
        B(<<>>, Ld(4, 3), chk, Ret) >> :
     p \in {L(0), R(2)}, q \in Args, v \in 1 .. 2, chk \in Kinds(4),
     sw \in {<< <<Case(1, 2)>>, 3 >>, << <<Case(0, 3)>>, 2 >>}}

(* More blocks than the visit budget allows. *)
Long ==
    {[i \in 1 .. 8 |-> B(<<>>, <<>>, IF i = 1 THEN chk ELSE NoCheck,
                         IF i = 8 THEN Ret ELSE Br(i + 1, <<>>))] : chk \in Kinds(1)}

MCStructured == Of(Long \cup TwoDiamonds \cup Nested \cup Loop \cup BranchingLoop
                     \cup NestedLoops \cup Switches \cup SlotDiamond \cup SlotLoop
                     \cup SlotSwap \cup SlotSwitch)

(* if (a && b) x = 1 else x = 0; use x. *)
ShortCircuit ==
    {<< B(<<>>, <<>>, NoCheck, If(1, 2, <<>>, 3, <<>>)),
        B(<<>>, <<>>, NoCheck, If(2, 4, <<>>, 3, <<>>)),
        B(<<>>, <<>>, NoCheck, Br(5, <<L(0)>>)),
        B(<<>>, <<>>, NoCheck, Br(5, <<L(1)>>)),
        B(<<3>>, <<>>, Mem(3), Ret) >>}
MCShortCircuit == Of(ShortCircuit)

=============================================================================
