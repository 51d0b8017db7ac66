------------------------------ MODULE MCProver ------------------------------
(* Scripts for Prover: small expressions over two or three symbols. *)
EXTENDS Prover

Sym(v, w) == Node("sym", "", w, v, <<>>)
Num(w, n) == Node("const", "", w, n, <<>>)
Bin(op, w, a, b) == Node("bin", op, w, 0, <<a, b>>)
Cmp(op, a, b) == Node("cmp", op, 1, 0, <<a, b>>)
Conn(k, args) == Node(k, "", 1, 0, args)
Wide(k, w, a) == Node(k, "", w, 0, <<a>>)
AskFor(path, goal, mode) == [path |-> path, goal |-> goal, mode |-> mode]
Script(calls, asks) == [calls |-> calls, asks |-> asks]

(* Two symbols and the constants 0, 1 and -1 of width w are calls 1 to 5. *)
Leaves(w) == <<Sym(1, w), Sym(2, w), Num(w, 0), Num(w, 1), Num(w, -1)>>

(* Each operator on each pair of leaves, compared with a symbol. *)
OneOp(w, ops, pairs, cmps) ==
    {Script(Leaves(w) \o <<Bin(op, w, p[1], p[2]), Cmp(r, 6, 2)>>, <<AskFor(<<>>, 7, "Possible")>>) :
        op \in ops, p \in pairs, r \in cmps}
AllPairs == {p \in (1 .. 5) \X (1 .. 5) : p[1] <= 2 \/ p[2] <= 2 \/ p = <<4, 5>> \/ p = <<5, 3>>}
Division == {"UDiv", "SDiv", "URem", "SRem"}
Arithmetic ==
    OneOp(2, BvOps, AllPairs, {"Ule", "Slt"})
        \cup OneOp(3, BvOps \ Division, {<<1, 2>>, <<1, 4>>, <<5, 1>>, <<1, 1>>}, {"Eq", "Sge"})
        \cup OneOp(3, Division, {<<1, 2>>, <<5, 1>>}, {"Ne"})
        \cup OneOp(1, BvOps, {<<1, 2>>, <<1, 5>>}, {"Ugt"})

(* A bound on an index, a goal about the index moved or scaled; then the same goal *)
(* again under a path with an unrelated guard, which the cache must recognise.     *)
Bounds ==
    {Script(Leaves(w) \o <<Sym(3, w), Cmp(r, 1, 2), Bin(op, w, 1, k), Cmp(g, 8, 2), Cmp("Ne", 6, 3)>>,
            <<AskFor(<<7>>, 9, m), AskFor(<<10, 7>>, 9, m)>>) :
        w \in {2}, r \in {"Ult", "Sle", "Eq"}, op \in {"Add", "Sub", "Mul", "Or"}, k \in {2, 4},
        g \in {"Ule", "Sgt", "Ne"}, m \in {"Definite", "Possible"}}

(* Chains x < y < z < u whose middle is reached only through other assumptions. *)
Chains ==
    {Script(<<Sym(1, 1), Sym(2, 2), Sym(3, 2), Sym(4, 1), Wide(k, 2, 1), Wide(k, 2, 4),
              Cmp(r, 5, 2), Cmp(s, 2, 3), Cmp(t, 3, 6), Cmp(g, 5, 6)>>,
            <<AskFor(<<7, 8, 9>>, 10, "Definite")>>) :
        k \in {"zext", "sext"}, r \in {"Ult", "Eq"}, s \in {"Ule", "Sle"},
        t \in {"Ule", "Eq", "Sge"}, g \in {"Ult", "Slt", "Ne", "Eq"}}

(* Twice an index against a length. *)
Scaled ==
    {Script(<<Sym(1, 3), Sym(2, 3), Num(3, 2), Bin("Mul", 3, 1, 3), Cmp(r, 4, 2), Cmp(s, 2, 3),
              Num(3, k), Cmp(g, 1, 7)>>,
            <<AskFor(<<5, 6>>, 8, "Definite")>>) :
        r \in {"Ule", "Uge"}, s \in {"Sle", "Uge"}, k \in 1 .. 3, g \in {"Ule", "Sge"}}

(* Boolean structure over comparisons. *)
Connectives ==
    {Script(Leaves(2) \o <<Cmp(r, 1, 2), Cmp(s, a, 1), Conn("not", <<6>>), Conn(k, <<6, 7>>),
                           Conn("not", <<9>>), Conn(j, <<10, 8, 9, 8>>), Conn("not", <<11>>)>>,
            <<AskFor(<<p>>, g, "Definite")>>) :
        r \in {"Ult", "Eq"}, s \in {"Ule", "Sge"}, a \in {2, 4}, k \in {"and", "or"}, j \in {"and", "or"},
        p \in {6, 9}, g \in {8, 11, 12}}

(* Widening, selection and constants folded on the way. *)
Widened ==
    {Script(<<Sym(1, 2), Num(2, n), Sym(2, 3), Num(3, n), Wide(k, 3, 1), Wide(k, 3, 2),
              Bin(op, 3, 5, 6), Cmp("Ult", 3, 4), Node("ite", "", 3, 0, <<8, 7, 3>>), Cmp(r, 9, 5),
              Bin(op, 3, 4, 6), Cmp(r, 11, 4)>>,
            <<AskFor(<<8>>, g, "Possible")>>) :
        n \in {1, 2}, k \in {"zext", "sext"}, op \in {"Add", "Sub", "And", "AShr"},
        r \in {"Uge", "Slt"}, g \in {10, 12}}

(* Coefficients that leave i128, and a term wider than the blaster takes. *)
Large ==
    {Script(<<Sym(1, w), Num(w, 3), Bin("Mul", w, 1, 2), Bin("Mul", w, 3, 2), Cmp(r, 3, 4), Cmp(r, 4, 1)>>,
            <<AskFor(<<5>>, 6, "Possible")>>) : w \in {3, 4, 5}, r \in {"Ult", "Uge"}}

(* One or both of two terms widened to two widths, then used together at the second. *)
Rewidened ==
    {Script(<<Sym(1, 1), Sym(2, 1), Wide(k, 2, 1), Wide(k, n, 2), Wide(j, 3, 1), Wide(k, 3, 2),
              Bin(op, 3, 5, 6), Num(3, 2), Cmp(r, 7, 8), Cmp("Ne", 3, 4), Cmp(r, 5, 8)>>,
            <<AskFor(<<10>>, g, m)>>) :
        k \in {"zext", "sext"}, j \in {"zext", "sext"}, n \in {2, 3}, op \in {"Add", "Or"},
        r \in {"Ult", "Sle"}, g \in {9, 11}, m \in {"Definite", "Possible"}}

AllScripts == Rewidened \cup Arithmetic \cup Bounds \cup Chains \cup Scaled \cup Connectives \cup Widened \cup Large
=============================================================================
