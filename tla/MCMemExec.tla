----------------------------- MODULE MCMemExec -----------------------------
(* Small programs for the symbolic memory executor. *)
EXTENDS MemExec

MCVals == 0..2

(* Functions to call. *)
NoRet == [k |-> "opaque", arg |-> 1, c |-> 0, m |-> 0, size |-> 0, write |-> FALSE]
Fn(known, writes, frees, ret, does) ==
  [known |-> known, writes |-> writes, frees |-> frees, ret |-> ret, frees_arg |-> 0,
   counts |-> <<>>, labels |-> <<>>, transfers |-> <<>>, escapes |-> <<>>, sync |-> "",
   asm |-> "", does |-> does]
Sync(kind) == [Fn(TRUE, FALSE, FALSE, NoRet, {"nop"}) EXCEPT !.sync = kind]
MCCallees ==
  [unknown |-> Fn(FALSE, TRUE, TRUE, NoRet, {"nop", "maybe_free", "write"}),
   pure    |-> Fn(TRUE, FALSE, FALSE, [NoRet EXCEPT !.k = "scalar", !.c = 1, !.m = 1], {"nop"}),
   writer  |-> Fn(TRUE, TRUE, FALSE, NoRet, {"nop", "write"}),
   next    |-> Fn(TRUE, FALSE, FALSE, [NoRet EXCEPT !.k = "arg", !.c = 1], {"nop"}),
   make    |-> Fn(TRUE, FALSE, FALSE, [NoRet EXCEPT !.k = "alloc", !.size = 2], {"nop"}),
   local   |-> Fn(TRUE, FALSE, FALSE, [NoRet EXCEPT !.k = "dangling"], {"nop"}),
   borrow  |-> Fn(TRUE, FALSE, FALSE, [NoRet EXCEPT !.k = "ref", !.size = 2], {"nop"}),
   release |-> [Fn(TRUE, TRUE, TRUE, NoRet, {"free1"}) EXCEPT !.frees_arg = 1],
   leaves  |-> [Fn(TRUE, TRUE, FALSE, NoRet, {"leave_local"}) EXCEPT !.escapes = <<1>>],
   get     |-> [Fn(TRUE, FALSE, FALSE, NoRet, {"nop"}) EXCEPT !.counts = <<<<1, 1>>>>],
   put     |-> [Fn(TRUE, FALSE, FALSE, NoRet, {"nop"}) EXCEPT !.counts = <<<<1, -1>>>>],
   lock    |-> Sync("lock"), spin |-> Sync("spin"), unlock |-> Sync("unlock"),
   sleep   |-> Sync("sleep"), rcu_lock |-> Sync("rcu_lock"), rcu_unlock |-> Sync("rcu_unlock"),
   irq_off |-> Sync("irq_off"), irq_on |-> Sync("irq_on"),
   marks   |-> [Fn(TRUE, FALSE, FALSE, NoRet, {"nop"}) EXCEPT !.labels = <<<<1, 1>>>>],
   links   |-> [Fn(TRUE, FALSE, FALSE, NoRet, {"nop"}) EXCEPT !.transfers = <<<<1, 2>>>>],
   asm     |-> [Fn(FALSE, TRUE, FALSE, NoRet, {"nop", "write"}) EXCEPT !.asm = "mem"],
   asm_nomem |-> [Fn(FALSE, FALSE, FALSE, NoRet, {"nop"}) EXCEPT !.asm = "nomem"]]

(* Parameters and instructions. *)
IntP    == [k |-> "int", size |-> 0, write |-> FALSE, align |-> 1]
OpaqueP == [k |-> "opaque", size |-> 2, write |-> TRUE, align |-> 1]
NonNullP == [k |-> "nonnull", size |-> 2, write |-> TRUE, align |-> 1]
RegionP(n, w, a) == [k |-> "region", size |-> n, write |-> w, align |-> a]

New(d, n)     == [op |-> "alloc", dst |-> d, kind |-> "heap", n |-> n, stride |-> 1, align |-> 2]
NewOf(d, n, stride) == [New(d, n) EXCEPT !.stride = stride]
Local(d, n)   == [op |-> "alloc", dst |-> d, kind |-> "stack", n |-> n, stride |-> 1, align |-> 1]
Off(d, b, k)  == [op |-> "off", dst |-> d, base |-> b, idx |-> k, stride |-> 1]
Ld(d, p)      == [op |-> "load", dst |-> d, ptr |-> p, size |-> 1, align |-> 1, isptr |-> FALSE, range |-> <<>>]
LdW(d, p)     == [Ld(d, p) EXCEPT !.size = 2, !.align = 2]
LdP(d, p)     == [Ld(d, p) EXCEPT !.isptr = TRUE]
LdBool(d, p)  == [Ld(d, p) EXCEPT !.range = <<0, 2>>]
St(p, v)      == [op |-> "store", ptr |-> p, val |-> v, size |-> 1, align |-> 1, shared |-> FALSE]
StW(p, v)     == [St(p, v) EXCEPT !.size = 2, !.align = 2]
StShared(p, v) == [St(p, v) EXCEPT !.shared = TRUE]
Free(p)       == [op |-> "free", ptr |-> p]
Ends(p)       == [op |-> "life", ptr |-> p, begin |-> FALSE]
Begins(p)     == [op |-> "life", ptr |-> p, begin |-> TRUE]
Witness(d, n, w, asm, src) ==
  [op |-> "ref", dst |-> d, size |-> n, align |-> 1, write |-> w, assumed |-> asm, src |-> src]
Blk(kind, d, s, n) == [op |-> "block", kind |-> kind, dst |-> d, src |-> s, len |-> n]
Op(o, d, a, b)  == [op |-> "arith", o |-> o, dst |-> d, a |-> a, b |-> b, bounds |-> <<-1, -1>>]
Within(lo, hi, i) == [i EXCEPT !.bounds = <<lo, hi>>]
Sel(d, c, a, b) == [op |-> "sel", dst |-> d, c |-> c, a |-> a, b |-> b]
CallFn(d, fn, args, isptr) ==
  [op |-> "call", dst |-> d, fn |-> fn, args |-> args, isptr |-> isptr, ref |-> <<>>, via |-> <<>>]
Do(fn, args)  == CallFn(0, fn, args, FALSE)
CallVia(o, fn, args) == [Do(fn, args) EXCEPT !.via = <<o>>]
CallRef(d, fn) == [CallFn(d, fn, <<>>, TRUE) EXCEPT !.ref = <<2>>]
RetagI(d, s, u) == [op |-> "retag", dst |-> d, src |-> s, unique |-> u]
TSet(v, q)    == [op |-> "tset", val |-> v, state |-> q]
TReq(v, q, n) == [op |-> "treq", val |-> v, state |-> q, negate |-> n]
TYield(f, t)  == [op |-> "tyield", from |-> f, to |-> t]
TLeak(v, q)   == [op |-> "tleak", val |-> v, state |-> q]
NoOp          == [k |-> "undef", v |-> 0]
Count(v, d)   == [op |-> "count", val |-> v, dec |-> d]
Label(v, l)   == [op |-> "label", val |-> v, label |-> l]
Clear(v, l)   == [op |-> "clear", val |-> v, label |-> l]
Sink(v, l)    == [op |-> "sink", val |-> v, label |-> l, prop |-> "TaintedSink"]
Flow(d, s)    == [op |-> "flow", dst |-> d, src |-> s]
Cap(p, g)     == [op |-> "cap", ptr |-> p, grants |-> g]
CapAlias(p, q, g) == [op |-> "cap_alias", ptr |-> p, src |-> q, grants |-> g]
GuardI(c)     == [op |-> "guard", c |-> c]
RetI(v)       == [op |-> "ret", val |-> v]
If(c, t, e)   == [op |-> "if", c |-> c, then |-> t, else |-> e, params |-> <<>>,
                  targs |-> <<>>, eargs |-> <<>>]
Phi(c, t, e, r, a, b) == [If(c, t, e) EXCEPT !.params = <<r>>, !.targs = <<a>>, !.eargs = <<b>>]
Prog(params, body) == [params |-> params, body |-> body]

R1 == Reg(1)
R2 == Reg(2)
R3 == Reg(3)
R4 == Reg(4)
R5 == Reg(5)
R6 == Reg(6)
R8 == Reg(8)

(* Parameters are registers 1, 2, ...  *)
MemoryPrograms == <<
  \* p = malloc(2); p[i] = 1 guarded by i <= 1; free; a second free
  Prog(<<IntP>>, <<New(2, Lit(2)), Op("<=", 3, R1, Lit(1)), GuardI(R3), Off(4, R2, R1),
                   St(R4, Lit(1)), Ld(5, R4), Free(R2), Free(R2)>>),
  \* an index one too large, and a division by what was read back
  Prog(<<IntP>>, <<Local(2, Lit(2)), Off(3, R2, R1), St(R3, R1), Ld(4, R3), Op("div", 5, Lit(2), R4)>>),
  \* the null test guards the access; what is behind it is unknown
  Prog(<<OpaqueP>>, <<Op("#", 2, R1, NullOp), GuardI(R2), Ld(3, R1), St(R1, Lit(1)), Ld(4, R1),
                      Op("div", 5, Lit(1), R4)>>),
  \* a dereference of a pointer known to be null
  Prog(<<OpaqueP>>, <<Op("=", 2, R1, NullOp), GuardI(R2), Ld(3, R1)>>),
  \* two opaque pointers may be the same
  Prog(<<OpaqueP, OpaqueP>>, <<Op("#", 3, R1, NullOp), GuardI(R3), Op("#", 4, R2, NullOp), GuardI(R4),
                               St(R1, Lit(1)), St(R2, Lit(0)), Ld(5, R1), Op("div", 6, Lit(1), R5)>>),
  \* a store at an unknown index may overwrite the one that is read back
  Prog(<<IntP>>, <<Local(2, Lit(3)), St(R2, Lit(1)), Off(3, R2, R1), St(R3, Lit(0)), Ld(4, R2),
                   Op("div", 5, Lit(1), R4)>>),
  \* use after the scope of a local ended, and a scope entered again
  Prog(<<>>, <<Local(1, Lit(1)), Ends(R1), Begins(R1), St(R1, Lit(1)), Ends(R1), Ld(2, R1)>>),
  \* a join of two stored values; the join of two allocations of one size
  Prog(<<IntP>>, <<Local(2, Lit(2)), If(R1, <<St(R2, Lit(1))>>, <<St(R2, Lit(2))>>), Ld(3, R2),
                   Op("div", 4, Lit(2), R3), Off(5, R2, R3), St(R5, Lit(0))>>),
  Prog(<<IntP>>, <<Phi(R1, <<New(2, Lit(1)), St(R2, Lit(1))>>, <<New(3, Lit(1)), St(R3, Lit(2))>>, 4, R2, R3),
                   Ld(5, R4), Op("div", 6, Lit(1), R5), Free(R4)>>),
  \* one side frees
  Prog(<<IntP>>, <<New(2, Lit(1)), If(R1, <<Free(R2)>>, <<St(R2, Lit(1))>>), St(R2, Lit(1)), Free(R2)>>),
  \* a pointer chosen by the path, then used at both lengths
  Prog(<<IntP>>, <<Local(2, Lit(1)), Local(3, Lit(2)), Sel(4, R1, R2, R3), Off(5, R4, R1), St(R4, Lit(1)),
                   Op("=", 6, R1, Lit(0)), GuardI(R6), St(R5, Lit(1))>>),
  \* alignment of an access
  Prog(<<IntP>>, <<New(2, Lit(4)), StW(R2, Lit(2)), LdW(3, R2), Off(4, R2, Lit(1)), StW(R4, Lit(1))>>),
  Prog(<<RegionP(3, TRUE, 2), IntP>>, <<Off(3, R1, R2), LdW(4, R3)>>),
  \* a read-only parameter, a reference that may be written, and one that may not
  Prog(<<RegionP(2, FALSE, 1)>>, <<Ld(2, R1), St(R1, Lit(1))>>),
  Prog(<<OpaqueP>>, <<Witness(2, 2, TRUE, FALSE, R1), Witness(3, 2, TRUE, FALSE, R1), St(R2, Lit(1)), Ld(4, R3),
                      Witness(5, 1, FALSE, TRUE, R1), St(R5, Lit(1))>>),
  \* a count whose size wraps, with and without a bound on it
  Prog(<<IntP>>, <<NewOf(2, R1, 4), St(R2, Lit(1))>>),
  Prog(<<IntP>>, <<Op("<=", 3, Lit(1), R1), GuardI(R3), NewOf(2, R1, 4), St(R2, Lit(1))>>),
  Prog(<<IntP>>, <<Op("<=", 3, R1, Lit(1)), GuardI(R3), Op("#", 4, R1, Lit(0)), GuardI(R4), NewOf(2, R1, 4),
                   Off(5, R2, Lit(3)), St(R5, Lit(1))>>),
  Prog(<<>>, <<NewOf(1, Lit(2), 4), St(R1, Lit(1))>>),
  \* both sides of a join bound the divisor, which only the intervals remember
  Prog(<<IntP, IntP>>, <<Phi(R2, <<Op("<=", 3, Lit(1), R1), GuardI(R3)>>, <<Op("#", 4, R1, Lit(0)), GuardI(R4)>>,
                             5, R1, R1),
                         Within(1, -1, Op("div", 6, Lit(2), R5))>>)
>>
\* Joins of stores to addresses that may be one, and choices of two pointers of
\* the caller's.
JoinPrograms == <<
  Prog(<<IntP>>, <<Local(2, Lit(3)), Off(4, R2, R1), St(R2, Lit(1)), St(R4, Lit(0)), If(R1, <<>>, <<>>),
                   Ld(5, R2), Op("div", 6, Lit(1), R5)>>),
  Prog(<<IntP>>, <<Local(2, Lit(3)), Off(4, R2, R1), St(R2, Lit(1)), Op("=", 6, R1, Lit(0)),
                   If(R6, <<St(R4, Lit(0))>>, <<>>), Ld(5, R2), Op("div", 6, Lit(1), R5)>>),
  Prog(<<IntP>>, <<Local(2, Lit(3)), Off(4, R2, R1), St(R2, Lit(1)), St(R4, Lit(0)), St(R2, Lit(1)),
                   If(R1, <<>>, <<>>), Ld(5, R2), Op("div", 6, Lit(1), R5)>>),
  Prog(<<IntP, IntP>>, <<Local(3, Lit(1)), If(R2, <<Op("=", 4, R1, Lit(0)), GuardI(R4)>>,
                                                  <<Op("<=", 5, R1, Lit(0)), GuardI(R5)>>),
                         Off(6, R3, R1), St(R6, Lit(1))>>),
  Prog(<<NonNullP, NonNullP, IntP>>, <<If(R3, <<St(R1, Lit(1))>>, <<St(R2, Lit(1))>>), Ld(5, R1),
                                       Op("div", 6, Lit(1), R5)>>),
  Prog(<<OpaqueP, OpaqueP, IntP>>, <<Op("#", 4, R1, NullOp), GuardI(R4), Sel(5, R3, R1, R2), Ld(6, R5)>>),
  Prog(<<OpaqueP, OpaqueP, IntP>>, <<Op("=", 4, R1, NullOp), GuardI(R4), Op("#", 5, R2, NullOp), GuardI(R5),
                                     Op("=", 6, R3, Lit(0)), GuardI(R6), Sel(8, R3, R1, R2), Ld(9, R8)>>),
  Prog(<<NonNullP, NonNullP, IntP>>, <<Phi(R3, <<>>, <<>>, 4, R1, R2), St(R4, Lit(1)), Ld(5, R1),
                                       Op("div", 6, Lit(1), R5)>>)
>>
BlockPrograms == <<
  \* memcpy of a written buffer, of an unwritten one, and past the end
  Prog(<<IntP>>, <<Local(2, Lit(2)), Local(3, Lit(2)), St(R2, Lit(1)), Blk("copy", R3, R2, Lit(1)),
                   Ld(4, R3), Op("div", 5, Lit(1), R4), Blk("move", R3, R2, R1)>>),
  Prog(<<>>, <<Local(1, Lit(2)), Local(2, Lit(2)), Blk("copy", R2, R1, Lit(2)), Ld(3, R2), LdBool(4, R2)>>),
  Prog(<<>>, <<Local(1, Lit(2)), Off(2, R1, Lit(1)), Blk("set", R1, R1, Lit(2)), Blk("copy", R1, R2, Lit(1)),
               Ld(3, R1), Blk("copy", R1, R1, Lit(2))>>),
  Prog(<<>>, <<Local(1, Lit(1)), Blk("set", R1, R1, Lit(2))>>),
  \* copy_from_user twice from one address, and a user value as an index
  Prog(<<OpaqueP>>, <<Local(2, Lit(2)), Blk("fill", R2, R1, Lit(1)), Ld(3, R2), Local(4, Lit(1)),
                      Off(5, R4, R3), St(R5, Lit(1)), Blk("fill", R2, R1, Lit(1))>>),
  \* copy_to_user of a buffer half of which was written, and of all of it
  Prog(<<>>, <<Local(1, Lit(2)), St(R1, Lit(1)), Blk("drain", R1, R1, Lit(1)), Blk("drain", R1, R1, Lit(2))>>),
  \* a boolean that is not one, and a read of what was never written
  Prog(<<IntP>>, <<Local(2, Lit(2)), St(R2, Lit(2)), LdBool(3, R2), Off(4, R2, Lit(1)), Ld(5, R4)>>),
  Prog(<<IntP>>, <<Local(2, Lit(1)), St(R2, R1), LdBool(3, R2)>>),
  \* the address of a local is returned; an unwritten pointer is followed
  Prog(<<IntP>>, <<Local(2, Lit(1)), If(R1, <<RetI(R2)>>, <<St(R2, Lit(1))>>), LdP(3, R2), RetI(R3)>>),
  Prog(<<OpaqueP, IntP>>, <<Local(3, Lit(1)), Sel(4, R2, R1, R3), RetI(R4)>>),
  \* a pointer stored and read back
  Prog(<<>>, <<Local(1, Lit(1)), Local(2, Lit(1)), St(R1, R2), LdP(3, R1), St(R3, Lit(1)), Ld(4, R2), Ld(5, R3),
               Op("div", 6, Lit(1), R5)>>)
>>
CallPrograms == <<
  \* an opaque call may write and free
  Prog(<<IntP>>, <<New(2, Lit(1)), Local(3, Lit(1)), St(R2, Lit(1)), St(R3, Lit(1)), Do("unknown", <<R2>>),
                   Ld(4, R3), Op("div", 5, Lit(1), R4), St(R2, Lit(1))>>),
  Prog(<<IntP>>, <<Local(2, Lit(2)), St(R2, Lit(1)), Do("writer", <<R2>>), Ld(3, R2), Op("div", 4, Lit(1), R3),
                   CallFn(5, "pure", <<R1>>, FALSE), Op("div", 6, Lit(1), R5), Off(7, R2, R5)>>),
  Prog(<<IntP>>, <<Local(2, Lit(2)), CallFn(3, "next", <<R2>>, TRUE), St(R3, Lit(1)), Off(4, R3, R1), St(R4, Lit(1))>>),
  Prog(<<>>, <<CallFn(1, "make", <<>>, TRUE), St(R1, Lit(1)), Ld(2, R1), CallFn(3, "borrow", <<>>, TRUE), Ld(4, R3),
               St(R3, Lit(1))>>),
  Prog(<<>>, <<CallFn(1, "local", <<>>, TRUE), Ld(2, R1)>>),
  Prog(<<>>, <<New(1, Lit(1)), St(R1, Lit(0)), Do("release", <<R1>>), St(R1, Lit(1))>>),
  Prog(<<OpaqueP>>, <<Do("release", <<R1>>), Do("release", <<R1>>)>>),
  Prog(<<>>, <<Local(1, Lit(1)), Do("leaves", <<R1>>), LdP(2, R1), Ld(3, R2)>>),
  Prog(<<>>, <<CallRef(1, "unknown"), Ld(2, R1), CallFn(3, "unknown", <<>>, TRUE), Ld(4, R3),
               CallFn(5, "unknown", <<>>, FALSE), Op("div", 6, Lit(1), R5)>>),
  Prog(<<>>, <<Local(1, Lit(1)), CallVia(R1, "unknown", <<>>)>>),
  \* inline assembly writes but does not free, or does neither
  Prog(<<>>, <<New(1, Lit(1)), St(R1, Lit(1)), Do("asm_nomem", <<>>), Ld(2, R1), Op("div", 3, Lit(1), R2),
               CallFn(4, "asm", <<R1>>, FALSE), Ld(5, R1), Op("div", 6, Lit(1), R5), Op("div", 6, Lit(1), R4),
               Free(R1)>>)
>>
ProtocolPrograms == <<
  \* use after close, on the path where it was closed and after a join
  Prog(<<OpaqueP, IntP>>, <<TSet(R1, 1), TReq(R1, 1, FALSE), If(R2, <<TSet(R1, 2)>>, <<TSet(R1, 2)>>),
                            TReq(R1, 2, TRUE), TReq(R1, 1, FALSE)>>),
  Prog(<<OpaqueP, IntP>>, <<TSet(R1, 1), TYield(1, 2), TLeak(NoOp, 2), TLeak(R1, 2), TReq(R2, 1, FALSE)>>),
  Prog(<<OpaqueP>>, <<Count(R1, FALSE), Count(R1, TRUE), Count(R1, TRUE), Do("get", <<R1>>), Do("put", <<R1>>)>>),
  Prog(<<RegionP(1, TRUE, 1)>>, <<Do("get", <<R1>>), Do("put", <<R1>>), Do("put", <<R1>>)>>),
  Prog(<<OpaqueP, IntP>>, <<Label(R1, 1), Ld(3, R1), Sink(R3, 1), Op("+", 4, R3, R2), Sink(R4, 1), Clear(R4, 1),
                            Sink(R4, 1)>>),
  Prog(<<IntP>>, <<Local(2, Lit(2)), Label(R1, 1), St(R2, R1), Ld(3, R2), Sink(R3, 1), Clear(R2, 1), Ld(4, R2),
                   Sink(R4, 1)>>),
  Prog(<<OpaqueP, OpaqueP, IntP>>, <<Label(R1, 1), Flow(R2, R1), Cap(R2, {2}), Sel(4, R3, R1, R2), CapAlias(R1, R1, {2}),
                               CapAlias(R1, R2, {1})>>),
  \* labels a callee gives and passes on
  Prog(<<RegionP(1, TRUE, 1), RegionP(1, TRUE, 1), OpaqueP>>,
       <<Do("marks", <<R2>>), Sink(R2, 1), Do("links", <<R1, R2>>), Cap(R1, {2}), Ld(4, R1), Sink(R4, 1),
         Do("links", <<R3, R2>>), Sink(R3, 1)>>),
  Prog(<<RegionP(1, TRUE, 1)>>, <<Do("lock", <<R1>>), Do("lock", <<R1>>), Do("unlock", <<R1>>), Do("lock", <<R1>>)>>),
  Prog(<<RegionP(1, TRUE, 1), IntP>>, <<If(R2, <<Do("spin", <<R1>>)>>, <<Do("spin", <<R1>>)>>), Do("sleep", <<>>),
                                        Do("unlock", <<R1>>), Do("sleep", <<>>)>>),
  Prog(<<RegionP(1, TRUE, 1)>>, <<Do("rcu_lock", <<>>), Do("irq_off", <<>>), Ld(2, R1), Do("rcu_unlock", <<>>),
                                  Do("irq_on", <<>>), Do("rcu_unlock", <<>>), Do("irq_on", <<>>)>>),
  \* borrows: a second mutable borrow ends the first
  Prog(<<RegionP(1, TRUE, 1)>>, <<Off(2, R1, Lit(0)), RetagI(2, R1, TRUE), Off(3, R2, Lit(0)), RetagI(3, R2, TRUE),
                                  St(R3, Lit(1)), St(R2, Lit(1)), Ld(4, R3)>>),
  Prog(<<RegionP(1, TRUE, 1)>>, <<Off(2, R1, Lit(0)), RetagI(2, R1, FALSE), Off(3, R1, Lit(0)), RetagI(3, R1, TRUE),
                                  Do("pure", <<R2>>), StShared(R3, Lit(1))>>)
>>

\* Objects whose address is known to be even: their accesses are of one byte, so
\* the parity of the address makes no difference.
Even(p) == [p EXCEPT !.align = 2]

\* Every sequence of three of the pieces between a prefix and a suffix.
Sequences3(params, prefix, pieces, suffix) ==
  LET P == Len(pieces)
      piece(n, d) == pieces[(((n - 1) \div d) % P) + 1]
  IN  [n \in 1..(P * P * P) |->
         Prog(params, prefix \o piece(n, P * P) \o piece(n, P) \o piece(n, 1) \o suffix)]

\* A local of two units, R4 at an unknown index of it, and an allocation.
OwnedSequences == Sequences3(<<IntP>>,
  <<Even(Local(2, Lit(2))), New(3, Lit(1)), Off(4, R2, R1)>>,
  << <<St(R2, Lit(1))>>, <<St(R4, Lit(0))>>, <<St(R3, R1)>>, <<Free(R3)>>,
     <<Do("writer", <<R2>>)>>, <<Do("unknown", <<R3>>)>>,
     <<If(R1, <<St(R2, Lit(1))>>, <<St(R2, Lit(2))>>)>>,
     <<Op("<=", 8, R1, Lit(1)), GuardI(R8)>> >>,
  <<Ld(5, R2), Op("div", 6, Lit(1), R5), Ld(7, R3), Free(R3)>>)

\* Two pointers of the caller's, which may be one, null or into nothing.
OpaqueSequences == Sequences3(<<Even(OpaqueP), Even(OpaqueP), IntP>>,
  <<>>,
  << <<Op("#", 4, R1, NullOp), GuardI(R4), Op("#", 4, R2, NullOp), GuardI(R4)>>,
     <<St(R1, Lit(1))>>, <<St(R2, Lit(0))>>, <<Do("writer", <<R2>>)>>,
     <<If(R3, <<St(R1, Lit(1))>>, <<St(R1, Lit(2))>>)>>,
     <<Do("release", <<R1>>)>> >>,
  <<Ld(5, R1), Op("div", 6, Lit(1), R5)>>)

\* Locks, counts, states and labels of the objects behind two such pointers.
ProtocolSequences == Sequences3(<<Even(NonNullP), Even(OpaqueP), IntP>>,
  <<>>,
  << <<Do("lock", <<R1>>)>>, <<Do("unlock", <<R2>>)>>, <<Do("spin", <<R2>>), Do("sleep", <<>>)>>,
     <<Count(R1, FALSE)>>, <<Count(R1, TRUE)>>, <<TSet(R1, 1)>>, <<TReq(R2, 1, TRUE)>>,
     <<If(R3, <<TSet(R2, 1), Label(R2, 1)>>, <<Do("put", <<R1>>)>>)>> >>,
  <<TReq(R1, 1, TRUE), Sink(R2, 1), TLeak(R1, 1)>>)

AllPrograms == MemoryPrograms \o JoinPrograms \o BlockPrograms \o CallPrograms \o ProtocolPrograms
               \o OwnedSequences \o OpaqueSequences \o ProtocolSequences

Mode(bugs, exported, complete) ==
  [bugs |-> bugs, exported |-> exported, valid_params |-> exported, aliasing |-> TRUE,
   complete |-> complete]
\* Verification and bug finding, exported or not, and a solver that gives up but on the obvious.
MCModes == {Mode(b, x, TRUE) : b, x \in BOOLEAN} \cup {Mode(FALSE, FALSE, FALSE)}
=============================================================================
