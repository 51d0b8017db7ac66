------------------------------ MODULE MCStream ------------------------------
(* Small programs in several files, for the streaming of facts. *)
EXTENDS CallRun

P(r) == [reg |-> r, ty |-> "ptr"]
N(r) == [reg |-> r, ty |-> "int"]
Block(insts, term) == [params |-> <<>>, insts |-> insts, term |-> term]
Fn(name, params, insts, val) ==
    [name |-> name, params |-> params, hints |-> <<>>, blocks |-> <<Block(insts, [op |-> "ret", val |-> val])>>]
Blocks(name, params, blocks) == [name |-> name, params |-> params, hints |-> <<>>, blocks |-> blocks]
File(fns, internal) ==
    [ok |-> TRUE, module |-> [functions |-> fns, internal |-> internal, fn_ptrs |-> {}, ptr_fields |-> {},
                              contracts |-> <<>>, evidence |-> <<>>, load_sites |-> <<>>, mmio |-> <<>>]]
WithFacts(f, contracts, evidence, mmio) ==
    [f EXCEPT !.module.contracts = contracts, !.module.evidence = evidence, !.module.mmio = mmio]
WithLoads(f, sites) == [f EXCEPT !.module.load_sites = sites]
Unreadable == [ok |-> FALSE, module |-> File(<<>>, {}).module]
WithInits(f, fns, globals) == [f EXCEPT !.module.fn_ptrs = fns, !.module.ptr_fields = globals]

Alloc(d, size, region) == [op |-> "alloc", dst |-> d, size |-> size, region |-> region]
Assign(d, src) == [op |-> "assign", dst |-> d, src |-> src]
AddI(d, a, b) == [op |-> "add", dst |-> d, a |-> a, b |-> b]
Gep(d, base, n) == [op |-> "gep", dst |-> d, base |-> base, idx |-> n]
Load(d, p) == [op |-> "load", dst |-> d, ptr |-> p]
Store(p, v) == [op |-> "store", ptr |-> p, val |-> v]
Memset(p) == [op |-> "memset", ptr |-> p]
Free(p) == [op |-> "free", ptr |-> p]
Input(d, lo, hi) == [op |-> "input", dst |-> d, lo |-> lo, hi |-> hi]
Label(p) == [op |-> "label", ptr |-> p]
Spread(p, q) == [op |-> "propagate", ptr |-> p, src |-> q]
CallTo(d, callee, args) == [op |-> "call", dst |-> d, callee |-> callee, args |-> args]
Direct(g) == [k |-> "direct", id |-> g]
Named(nm) == [k |-> "symbol", name |-> nm]
Through(r) == [k |-> "indirect", reg |-> r]
Count(p, down) == [op |-> "refcount", ptr |-> p, dec |-> down]
Witness(d, size) == [op |-> "witness", dst |-> d, size |-> size]
Goto(t) == [op |-> "br", to |-> [i \in DOMAIN t |-> [to |-> t[i], args |-> <<>>]]]
RetOp(v) == [op |-> "ret", val |-> v]

(* A table of operations in one file, used from another; one entry is
   replaced at run time in the second program, any may be in the third.  An
   entry is also called directly, with more than the table's caller has. *)
Table(rewrites) ==
    << File(<<Fn("main", <<>>,
              <<Assign(1, Sym("ops")), Alloc(4, 8, "stack"), Gep(2, Reg(1), Num(8)),
                Alloc(9, 16, "stack"), CallTo(0, Named("write"), <<Reg(9)>>)>> \o rewrites \o
              <<Load(3, Reg(2)), CallTo(0, Through(3), <<Reg(4)>>), Load(7, Reg(1)), CallTo(8, Through(7), <<Reg(4)>>)>>, Absent),
              Fn("close", <<P(1)>>, <<>>, Num(0))>>, {}),
       WithInits(File(<<Fn("write", <<P(1)>>, <<Store(Reg(1), Num(5))>>, Absent),
              Fn("read", <<P(1)>>, <<Load(2, Reg(1))>>, Reg(2))>>, {}), {<<"ops", 8, 1>>, <<"ops", 0, 2>>}, {<<"ops", 4, "mux">>}) >>

(* The table is handed out by one register and used by another. *)
Late ==
    << File(<<Fn("main", <<>>,
              <<Assign(1, Sym("ops")), CallTo(0, Named("outside"), <<Reg(1)>>), Assign(2, Sym("ops")),
                Gep(3, Reg(2), Num(8)), Load(4, Reg(3)), CallTo(0, Through(4), <<>>)>>, Absent)>>, {}),
       WithInits(File(<<Fn("act", <<>>, <<>>, Absent)>>, {}), {<<"ops", 8, 1>>}, {}) >>

(* Contracts: the weakest of several sites; a static function of the same
   name in each file; a range known from an input. *)
Weak ==
    << File(<<Blocks("main", <<>>,
              <<Block(<<Alloc(1, 16, "stack"), Gep(2, Reg(1), Num(8)), Input(5, 1, 2)>>, Goto(<<2>>)),
                Block(<<CallTo(0, Named("use"), <<Reg(2), Reg(5)>>), CallTo(0, Named("use"), <<Reg(1), Num(4)>>),
                        CallTo(0, Direct(2), <<Reg(1)>>)>>, RetOp(Absent))>>),
              Fn("inner", <<P(1)>>, <<Store(Reg(1), Num(1))>>, Absent)>>, {2}),
       File(<<Fn("inner", <<P(1)>>, <<Load(2, Reg(1))>>, Reg(2)),
              Fn("use", <<P(1), N(2)>>, <<Gep(3, Reg(1), Num(4)), CallTo(4, Direct(1), <<Reg(3)>>)>>, Reg(2)),
              Fn("open", <<P(1), N(2)>>, <<CallTo(0, Direct(2), <<Reg(1), Reg(2)>>)>>, Absent)>>, {1}) >>

(* Fields: set before one call, at two sites with different guarantees, and
   rewritten by a call to the outside. *)
Held ==
    << File(<<Fn("main", <<>>,
              <<Alloc(1, 16, "stack"), Alloc(2, 8, "heap"), Gep(3, Reg(1), Num(8)), Store(Reg(3), Reg(2)),
                CallTo(0, Named("work"), <<Reg(1)>>),
                Alloc(4, 16, "stack"), Alloc(5, 4, "heap"), Gep(6, Reg(4), Num(8)), Store(Reg(6), Reg(5)),
                CallTo(0, Named("work"), <<Reg(4)>>), CallTo(0, Named("outside"), <<Reg(4)>>),
                CallTo(0, Named("late"), <<Reg(4)>>), CallTo(0, Named("pass"), <<Reg(1)>>)>>, Absent)>>, {}),
       Unreadable,
       File(<<Fn("late", <<P(1)>>, <<>>, Absent), Fn("pass", <<P(1)>>, <<CallTo(0, Named("outside"), <<Reg(1)>>)>>, Absent),
              Fn("work", <<P(1)>>, <<Gep(2, Reg(1), Num(8)), Load(3, Reg(2)), Store(Reg(3), Num(1))>>, Absent)>>, {}) >>

(* What goes out is a pointer into the aggregate, or a copy of the pointer to it. *)
Inner(out) ==
    << File(<<Fn("main", <<>>,
              <<Alloc(1, 16, "stack"), Alloc(2, 8, "heap"), Gep(3, Reg(1), Num(8)), Store(Reg(3), Reg(2)), Assign(4, Reg(1)),
                CallTo(0, Named("outside"), <<out>>), CallTo(0, Named("work"), <<Reg(1)>>)>>, Absent)>>, {}),
       File(<<Fn("work", <<P(1)>>, <<Gep(2, Reg(1), Num(8)), Load(3, Reg(2)), Store(Reg(3), Num(1))>>, Absent)>>, {}) >>

(* Summaries: allocators, wrappers, a dangling return, arithmetic, a free
   behind a call, labels and transfers. *)
Wrapped ==
    << File(<<Fn("main", <<>>,
              <<CallTo(1, Named("wrap"), <<>>), CallTo(2, Named("step"), <<Num(1)>>),
                CallTo(3, Named("at"), <<Reg(1), Num(2)>>), CallTo(4, Named("local"), <<>>),
                CallTo(0, Named("fill"), <<Reg(1)>>), CallTo(0, Named("drop"), <<Reg(1)>>)>>, Absent)>>, {}),
       File(<<Fn("make", <<>>, <<Alloc(1, 8, "heap")>>, Reg(1)),
              Fn("wrap", <<>>, <<CallTo(1, Direct(1), <<>>)>>, Reg(1)),
              Fn("local", <<>>, <<Alloc(1, 4, "stack"), Store(Reg(1), Num(1))>>, Reg(1))>>, {}),
       File(<<Fn("step", <<N(1)>>, <<AddI(2, Reg(1), Num(1))>>, Reg(2)),
              Fn("at", <<P(1), N(2)>>, <<Gep(3, Reg(1), Reg(2))>>, Reg(3)),
              Fn("free_it", <<P(1)>>, <<Free(Reg(1))>>, Absent),
              Fn("drop", <<P(1)>>, <<CallTo(0, Direct(3), <<Reg(1)>>)>>, Absent),
              Fn("fill", <<P(1)>>, <<Label(Reg(1)), Spread(Reg(1), Reg(1)), Memset(Reg(1))>>, Absent)>>, {}) >>

(* A cycle of copies across two files, through which the address of a table
   flows; a branch that decides the return. *)
Cycle ==
    << File(<<Fn("main", <<>>, <<Assign(1, Sym("tab")), CallTo(0, Named("ping"), <<Reg(1)>>)>>, Absent),
              Blocks("ping", <<P(1)>>, <<Block(<<Assign(2, Reg(1))>>, Goto(<<2, 3>>)),
                                         Block(<<CallTo(0, Named("pong"), <<Reg(2)>>)>>, RetOp(Num(0))),
                                         Block(<<Load(4, Reg(2)), CallTo(0, Through(4), <<>>)>>, RetOp(Num(1)))>>)>>, {}),
       WithInits(File(<<Fn("pong", <<P(1)>>, <<Assign(2, Reg(1)), CallTo(0, Named("ping"), <<Reg(2)>>)>>, Absent),
              Fn("act", <<>>, <<>>, Absent)>>, {}), {<<"tab", 0, 2>>}, {<<"tab", 8, "side">>}) >>

(* Declared contracts, types and loads seen of a field, hints; a parameter that
   receives more objects than the solver keeps apart; an MMIO handler
   registered in its own file and called by the program too, one registered in
   another file, one registered by two files with different parameters; a
   count taken behind a call. *)
Declared ==
    << WithFacts(File(<<Fn("main", <<>>,
              <<Alloc(1, 8, "stack"), Alloc(2, 8, "stack"), Alloc(3, 8, "stack"), Alloc(4, 12, "heap"),
                CallTo(0, Named("put"), <<Reg(1)>>), CallTo(0, Named("put"), <<Reg(2)>>),
                CallTo(0, Named("put"), <<Reg(3)>>), CallTo(0, Named("put"), <<Reg(4)>>),
                CallTo(0, Named("io"), <<Reg(4), Num(16)>>), CallTo(0, Named("peek"), <<Reg(4), Num(4)>>)>>, Absent)>>, {}),
              <<>>, (<<"S", 0>> :> [size |-> 8, pointee |-> "T"]) @@ (<<"S", 8>> :> [size |-> 4, pointee |-> ""]),
              ("peek" :> 2) @@ ("poll" :> 2)),
       WithLoads(WithFacts(File(<<Fn("put", <<P(1)>>, <<Store(Reg(1), Reg(1)), Load(2, Reg(1)), Store(Reg(2), Reg(2))>>, Absent),
                                  Fn("poll", <<P(1), N(2)>>, <<Load(3, Reg(1))>>, Reg(3))>>, {2}),
              <<>>, (<<"S", 0>> :> [size |-> 8, pointee |-> "U"]) @@ (<<"S", 8>> :> [size |-> 2, pointee |-> ""]),
              ("poll" :> 1)), (<<1, 2>> :> <<"S", 0>>) @@ (<<2, 3>> :> <<"S", 8>>)),
       WithFacts(File(<<Fn("io", <<P(1), N(2)>>, <<CallTo(0, Direct(2), <<Reg(1), Reg(2)>>)>>, Absent),
              Fn("move", <<P(1), N(2)>>, <<Witness(3, 4), Count(Reg(1), FALSE)>>, Reg(3)),
              Fn("peek", <<P(1), N(2)>>, <<CallTo(3, Direct(4), <<Reg(2)>>)>>, Reg(3)),
              Fn("mask", <<N(1)>>, <<>>, Reg(1))>>, {4}),
              (<<1, 1>> :> [size |-> 8, align |-> 4, writable |-> TRUE]), <<>>, ("io" :> 2)) >>

(* Out-parameters: an address left behind always (of a local, or not), one left
   behind on one path only, and one taken back. *)
Leaks(region) ==
    << File(<<Fn("main", <<>>,
              <<Alloc(1, 8, "stack"), CallTo(0, Named("leak"), <<Reg(1)>>), CallTo(0, Named("maybe"), <<Reg(1)>>),
                CallTo(0, Named("undo"), <<Reg(1)>>)>>, Absent)>>, {}),
       File(<<Fn("leak", <<P(1)>>, <<Alloc(2, 8, region), Gep(3, Reg(2), Num(4)), Store(Reg(1), Reg(3))>>, Absent),
              Blocks("maybe", <<P(1)>>, <<Block(<<Alloc(2, 8, "stack"), Store(Reg(1), Num(0))>>, Goto(<<2, 3>>)),
                                          Block(<<Store(Reg(1), Reg(2))>>, RetOp(Absent)),
                                          Block(<<>>, RetOp(Absent))>>),
              Fn("undo", <<P(1)>>, <<Alloc(2, 8, "stack"), Store(Reg(1), Reg(2)), Store(Reg(1), Num(0))>>, Absent)>>, {}) >>

MCPrograms == {Table(<<>>), Table(<<Store(Reg(2), Sym("read"))>>), Table(<<CallTo(0, Named("outside"), <<Reg(1)>>)>>), Late,
               Weak, Held, Inner(Reg(3)), Inner(Reg(4)), Wrapped, Cycle, Declared, Leaks("stack"), Leaks("heap")}
MCModes == [closed_world : BOOLEAN, avp : {FALSE}]
=============================================================================
