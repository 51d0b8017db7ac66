------------------------------ MODULE MemExec ------------------------------
(* The symbolic memory executor on one function: it starts from what the   *)
(* parameters are known to be, takes the blocks in order, one instruction  *)
(* per step, splits at a branch, joins the states where the two sides      *)
(* meet, and leaves for every check of every instruction whether it was    *)
(* proved on every visit and whether a visit refuted it.                   *)
(*                                                                         *)
(* A program is [params, body].  An item of the body is an instruction, or *)
(* a branch [op "if", c, then, else, params, targs, eargs] whose sides are *)
(* blocks and whose join has the parameters params.  A guard returns early *)
(* unless its condition holds.                                             *)
EXTENDS SymCalls

-----------------------------------------------------------------------------
(* What the program really does: the set of its runs over objects with     *)
(* bytes in them, for every input and every behaviour of the functions it  *)
(* calls.  This is the meaning the verdicts of the symbolic executor are   *)
(* measured against.                                                       *)
(*                                                                         *)
(* A run is [regs, objs, viol, over, fault, breaks, ...]: viol holds the   *)
(* pairs <<instruction, property>> it violated, over says that it has      *)
(* returned, fault is the first instruction that went wrong, breaks the    *)
(* assumptions of the analysis that it does not meet, and shared the       *)
(* objects two parameters point to.  Past its fault a run goes on as if    *)
(* what went wrong had no effect and had read anything: a proof says       *)
(* nothing of that part, a refutation may be about it.                     *)

Base == 4                          \* the values of one byte are 0..Base-1
IntV(v)    == [t |-> "int", o |-> 0, v |-> v]
PtrV(o, v) == [t |-> "ptr", o |-> o, v |-> v]
NullPtr   == PtrV(0, 0)
WildPtr   == PtrV(0, 1)             \* not null, and into no object

Unset     == [k |-> "un", o |-> 0, v |-> 0]
Filled(size, b) == [j \in 0..(size - 1) |-> [k |-> "by", o |-> 0, v |-> b]]
Object(kind, size, write, cells, mis) ==
  [kind |-> kind, size |-> size, live |-> TRUE, write |-> write, cells |-> cells, mis |-> mis]

With(run, reg, v) == IF reg = 0 THEN run ELSE [run EXCEPT !.regs = Put(@, reg, v)]
Value(run, o) ==
  CASE o.k = "int"  -> IntV(o.v)
    [] o.k = "null" -> NullPtr
    [] OTHER        -> At(run.regs, o.v, IntV(0))
\* A pointer as a number: only its being null is observed.
Number(v) == IF v.t = "int" THEN v.v ELSE IF v = NullPtr THEN 0 ELSE 1
Violate(run, id, props) == [run EXCEPT !.viol = @ \cup ({id} \X props)]
Fault(run, id, props) ==
  [Violate(run, id, props) EXCEPT !.fault = IF @ = 0 THEN id ELSE @]

-----------------------------------------------------------------------------
(* Memory. *)
Faults(run, p, size, align, write) ==
  IF p.t # "ptr" \/ p = WildPtr THEN {"InBounds"}
  ELSE IF p = NullPtr \/ p.o = 0 THEN {"NoNullDeref"}
  ELSE LET b == run.objs[p.o]
       IN  (IF b.live THEN {} ELSE {"NoUseAfterFree"})
           \cup (IF 0 <= p.v /\ p.v + size <= b.size THEN {} ELSE {"InBounds"})
           \cup (IF (b.mis + p.v) % align = 0 THEN {} ELSE {"Alignment"})
           \cup (IF write /\ ~b.write THEN {"ValidWrite"} ELSE {})

ByteOf(v, j) == IF j = 0 THEN v % Base ELSE (v \div Base) % Base
CellsOf(v, size) ==
  [j \in 0..(size - 1) |-> IF v.t = "ptr" THEN [k |-> "pt", o |-> v.o, v |-> v.v]
                           ELSE [k |-> "by", o |-> 0, v |-> ByteOf(v.v, j)]]
Poke(run, p, cells) ==
  [run EXCEPT !.objs[p.o].cells =
     [a \in DOMAIN @ |-> IF (a - p.v) \in DOMAIN cells THEN cells[a - p.v] ELSE @[a]]]

\* The values a read can return: what was written, or anything.
Peek(run, p, size, isptr) ==
  LET c(j) == run.objs[p.o].cells[p.v + j]
      J    == 0..(size - 1)
  IN  IF isptr
      THEN IF c(0).k = "pt" THEN {PtrV(c(0).o, c(0).v)} ELSE {NullPtr, WildPtr}
      ELSE IF \A j \in J : c(j).k = "by"
           THEN {IntV(IF size = 1 THEN c(0).v ELSE c(0).v + Base * c(1).v)}
           ELSE {IntV(v) : v \in Vals}
Uninit(run, p, size) == \E j \in 0..(size - 1) : run.objs[p.o].cells[p.v + j].k = "un"

NewObject(run, ob) == [run EXCEPT !.objs = Append(@, ob)]
Newest(run) == PtrV(Len(run.objs), 0)

-----------------------------------------------------------------------------
(* Instructions.  Each gives the set of runs that may follow. *)
\* The size asked for wraps; there is no memory of more than FitMax.  Only of a
\* variable count is it a violation: a constant one is not asked about.
RunAlloc(run0, i, id) ==
  LET all  == Number(Value(run0, i.n)) * i.stride
      n    == all % (SizeMax + 1)
      run  == IF all > SizeMax /\ i.n.k # "int" THEN Violate(run0, id, {"NoSizeOverflow"}) ELSE run0
      made == {NewObject(run, Object(i.kind, n, TRUE, [j \in 0..(n - 1) |-> Unset], m)) :
                 m \in IF n > FitMax THEN {} ELSE IF i.align > 1 THEN {0} ELSE {0, 1}}
      none == IF i.kind # "heap" THEN {}
              ELSE {With([run EXCEPT !.breaks = @ \cup {"alloc-succeeds"}], i.dst, NullPtr)}
  IN  {With(r, i.dst, Newest(r)) : r \in made} \cup none

RunOffset(run, i, id) ==
  LET p == Value(run, i.base)
      q == PtrV(p.o, p.v + Number(Value(run, i.idx)) * i.stride)
      bad == IF p.o = 0 THEN q # p ELSE q.v < 0 \/ q.v > run.objs[p.o].size
  IN  {With(IF bad THEN Violate(run, id, {"ValidPointerArith"}) ELSE run, i.dst, q)}

\* A use of a borrow that is no longer on the stack of its object.
TagOf(run, o) == IF o.k = "reg" THEN At(run.tags, o.v, 0) ELSE 0
Borrowed(run, o, id, write) ==
  LET p   == Value(run, o)
      tag == TagOf(run, o)
      st  == At(run.borrows, p.o, <<>>)
      pos == SelectInSeq(st, LAMBDA t : t = tag)
  IN  IF tag = 0 \/ p.o \notin DOMAIN run.borrows THEN run
      ELSE IF pos = 0 THEN Violate(run, id, {"NoAliasingViolation"})
      ELSE IF write THEN [run EXCEPT !.borrows[p.o] = SubSeq(@, 1, pos)] ELSE run

RunRetag(run, i) ==
  LET p   == Value(run, i.src)
      tag == TagOf(run, i.src)
      st  == At(run.borrows, p.o, <<>>)
      pos == SelectInSeq(st, LAMBDA t : t = tag)
      new == IF ~i.unique THEN Append(st, i.dst)
             ELSE IF tag = 0 \/ pos = 0 THEN <<i.dst>>
             ELSE Append(SubSeq(st, 1, pos), i.dst)
  IN  {[run EXCEPT !.borrows = Put(@, p.o, new), !.tags = Put(@, i.dst, i.dst)]}

LoadsValue(run, i, id, p, v) ==
  LET r1 == Violate(run, id, (IF Uninit(run, p, i.size) THEN {"Uninit"} ELSE {})
                     \cup (IF i.range # <<>> /\ ~(i.range[1] <= v.v /\ v.v < i.range[2])
                           THEN {"ValidValue"} ELSE {}))
      r2 == [r1 EXCEPT
               !.taint  = IF i.isptr THEN @ ELSE Put(@, i.dst, At(run.labels, p.o, {})),
               !.labels = IF ~i.isptr \/ v.o = 0 THEN @
                          ELSE Put(@, v.o, At(@, v.o, {}) \cup At(@, p.o, {}))]
  IN  With(r2, i.dst, v)
Anything(run, dst, isptr) ==
  {With(run, dst, v) : v \in IF isptr THEN {NullPtr, WildPtr} ELSE {IntV(n) : n \in Vals}}
LoadsFrom(run, i, id, p) ==
  LET bad == Faults(run, p, i.size, i.align, FALSE)
  IN  IF bad # {} THEN Anything(Fault(run, id, bad), i.dst, i.isptr)
      ELSE {LoadsValue(run, i, id, p, v) : v \in Peek(run, p, i.size, i.isptr)}
LoadsAs(run, i, id) == LoadsFrom(run, i, id, Value(run, i.ptr))
RunLoad(run, i, id) == LoadsAs(Borrowed(run, i.ptr, id, FALSE), i, id)

RunStore(run0, i, id) ==
  LET run == Borrowed(run0, i.ptr, id, TRUE)
      p   == Value(run, i.ptr)
      bad == Faults(run, p, i.size, i.align, TRUE)
      lb  == IF i.val.k = "reg" THEN At(run.taint, i.val.v, {}) ELSE {}
      r1  == IF i.shared THEN Violate(run, id, {"NoAliasingViolation"}) ELSE run
      r2  == [r1 EXCEPT !.labels = Put(@, p.o, At(@, p.o, {}) \cup lb)]
  IN  IF bad # {} THEN {Fault(run, id, bad)}
      ELSE {Poke(r2, p, CellsOf(Value(run, i.val), i.size))}

\* A caller's object may be freed; what is already free, or was never allocated,
\* may not.
DoubleFree(run, p) == p.o # 0 /\ ~run.objs[p.o].live
BadFree(run, p) ==
  \/ p.t # "ptr" \/ p = WildPtr \/ DoubleFree(run, p)
  \/ p.o # 0 /\ (run.objs[p.o].kind = "stack" \/ p.v # 0)
Freed(run, p) == IF p.o = 0 THEN run ELSE [run EXCEPT !.objs[p.o].live = FALSE]
RunFree(run, i, id) ==
  LET p == Value(run, i.ptr)
  IN  IF BadFree(run, p) THEN {Fault(run, id, {"NoDoubleFree"})} ELSE {Freed(run, p)}

RunLifetime(run, i) ==
  LET p == Value(run, i.ptr)
  IN  {IF p.o = 0 THEN run ELSE [run EXCEPT !.objs[p.o].live = i.begin]}

\* A reference of the language: the object it denotes is live and of its size.
RunRefWitness(run, i) ==
  {LET r == NewObject(run, Object("ext", i.size, i.write, Filled(i.size, b), 0))
   IN  With(r, i.dst, Newest(r)) : b \in {0, 1}}

\* A block operation on len units; fill gives the units it writes.
RunBlock(run, i, id) ==
  LET n == Number(Value(run, i.len))
      d == Value(run, i.dst)
      s == Value(run, i.src)
      reads == i.kind \in {"copy", "move"}
      bad == (IF n = 0 THEN {} ELSE Faults(run, d, n, 1, i.kind # "drain"))
             \cup (IF reads /\ n > 0 THEN Faults(run, s, n, 1, FALSE) ELSE {})
      overlap == i.kind = "copy" /\ d.o = s.o /\ d.v < s.v + n /\ s.v < d.v + n
      cells == IF reads THEN {[j \in 0..(n - 1) |-> run.objs[s.o].cells[s.v + j]]}
               ELSE {Filled(n, b) : b \in IF i.kind = "fill" THEN {0, 1} ELSE {0}}
      key == <<s.o, s.v>>
      leaks == i.kind = "drain" /\ n > 0 /\ Uninit(run, d, n)
      r1 == IF i.kind = "fill" /\ key \in run.fetched THEN Violate(run, id, {"DoubleFetch"})
            ELSE IF leaks THEN Violate(run, id, {"NoInfoLeak"}) ELSE run
      r2 == IF i.kind = "fill" THEN [r1 EXCEPT !.fetched = @ \cup {key}] ELSE r1
  IN  IF bad # {} THEN {Fault(run, id, bad)}
      ELSE IF n > 0 /\ overlap THEN {Fault(run, id, {"NoForbiddenOverlap"})}
      ELSE IF i.kind = "drain" \/ n = 0 THEN {r2}
      ELSE {Poke(r2, d, c) : c \in cells}

RunArith(run, i, id) ==
  LET a == Number(Value(run, i.a))
      b == Number(Value(run, i.b))
      pa == Value(run, i.a)
      pb == Value(run, i.b)
      cmp == IF pa.t = "ptr" /\ pb.t = "ptr" /\ pa.o = pb.o /\ pa.o # 0
             THEN Apply(i.o, pa.v, pb.v) ELSE Apply(i.o, a, b)
      taint == UNION {At(run.taint, o.v, {}) : o \in {y \in {i.a, i.b} : y.k = "reg"}}
      r1 == [run EXCEPT !.taint = Put(@, i.dst, taint)]
  IN  IF i.o = "div"
      THEN IF b = 0 THEN Anything(Fault(run, id, {"NoDivByZero"}), i.dst, FALSE) ELSE {With(r1, i.dst, IntV(a \div b))}
      ELSE {With(r1, i.dst, IntV(IF i.o \in {"=", "#", "<="} THEN cmp ELSE Apply(i.o, a, b)))}

RunSelect(run, i) ==
  {With(run, i.dst, IF Number(Value(run, i.c)) # 0 THEN Value(run, i.a) ELSE Value(run, i.b))}

-----------------------------------------------------------------------------
(* Calls.  Each behaviour in does is one thing the function may do. *)
Passed(run, i) == {Value(run, i.args[k]).o : k \in DOMAIN i.args} \ {0}
Behaviours(run, i, id, act) ==
  LET p == IF i.args = <<>> THEN NullPtr ELSE Value(run, i.args[1])
      writable(o) == run.objs[o].live /\ run.objs[o].write /\ run.objs[o].size > 0
      put(o, v)   == Poke(run, PtrV(o, 0), CellsOf(v, 1))
      breaking(r, o) == IF o \in Passed(run, i) THEN r
                        ELSE [r EXCEPT !.breaks = @ \cup {"writes-through-args"}]
  IN  CASE act = "nop"   -> {run}
        [] act = "free1" -> IF DoubleFree(run, p) THEN {Fault(run, id, {"NoDoubleFree"})}
                            ELSE IF BadFree(run, p) THEN {Fault(run, id, {})}
                            ELSE {Freed(run, p)}
        [] act = "maybe_free" ->          \* it frees some allocation, or none
             {run} \cup {Freed(run, PtrV(o, 0)) : o \in {o \in DOMAIN run.objs :
                            run.objs[o].kind = "heap" /\ run.objs[o].live}}
        [] act = "write" ->
             {run} \cup {breaking(put(o, IntV(b)), o) : b \in {0, 1},
                           o \in {o \in DOMAIN run.objs : writable(o)}}
        [] act = "leave_local" ->         \* the address of a local behind arg 1
             IF p.o = 0 \/ ~writable(p.o) \/ p.v # 0 THEN {run}
             ELSE LET r == NewObject(run, [Object("stack", 1, TRUE, Filled(1, 0), 0)
                                             EXCEPT !.live = FALSE])
                  IN  {Poke(r, p, CellsOf(Newest(r), 1))}

\* A count the function changes, of the object behind its argument.
Counted(run, i, id, c) ==
  LET o == Value(run, i.args[c[1]]).o
      n == At(run.counts, <<"obj", o>>, 0) + c[2]
      r == [run EXCEPT !.counts = Put(@, <<"obj", o>>, n)]
  IN  IF o = 0 \/ (c[2] < 0 /\ <<"obj", o>> \notin DOMAIN run.counts) THEN run
      ELSE IF n < 0 THEN Violate(r, id, {"TypestateViolation"}) ELSE r

\* The labels the function gives and passes on, of the objects behind its arguments.
Labelled(run, i) ==
  LET f == Callees[i.fn]
      obj(k)  == Value(run, i.args[k]).o
      add(r, o, labels) == IF o = 0 THEN r
                           ELSE [r EXCEPT !.labels = Put(@, o, At(@, o, {}) \cup labels)]
      give(r, c) == add(r, obj(c[1]), {c[2]})
      pass(r, c) == add(r, obj(c[1]), At(r.labels, obj(c[2]), {}))
  IN  FoldLeft(pass, FoldLeft(give, run, f.labels), f.transfers)

Returned(run, i) ==
  LET f == Callees[i.fn]
      a == Value(run, i.args[f.ret.arg])
      obj(ob) == LET r == NewObject(run, ob) IN With(r, i.dst, Newest(r))
  IN  CASE f.ret.k = "arg"      -> {With(run, i.dst, IF a.o = 0 THEN a ELSE PtrV(a.o, a.v + f.ret.c))}
        [] f.ret.k = "scalar"   -> {With(run, i.dst, IntV(f.ret.c + f.ret.m * Number(a)))}
        [] f.ret.k = "dangling" -> {obj([Object("stack", 1, TRUE, Filled(1, 0), 0)
                                           EXCEPT !.live = FALSE])}
        [] f.ret.k = "alloc"    ->
             {obj(Object("heap", f.ret.size, TRUE, [j \in 0..(f.ret.size - 1) |-> Unset], 0)),
              With([run EXCEPT !.breaks = @ \cup {"alloc-succeeds"}], i.dst, NullPtr)}
        [] f.ret.k = "ref" \/ i.ref # <<>> ->
             LET sz == IF f.ret.k = "ref" THEN f.ret.size ELSE i.ref[1]
             IN  {obj(Object("ext", sz, f.ret.write, Filled(sz, b), 0)) : b \in {0, 1}}
        [] OTHER -> Anything(run, i.dst, i.isptr)

RunSync(run, i, id) ==
  LET f == Callees[i.fn]
      o == IF i.args = <<>> THEN 0 ELSE Value(run, i.args[1]).o
      takes == f.sync \in {"lock", "spin"}
      bad == (IF takes /\ o # 0 /\ o \in run.locks THEN {"DataRace"} ELSE {})
             \cup (IF f.sync = "sleep" /\ run.spin # {} THEN {"SleepInAtomic"} ELSE {})
      r == Violate(run, id, bad)
  IN  [r EXCEPT !.locks = IF takes /\ o # 0 THEN @ \cup {o}
                          ELSE IF f.sync = "unlock" THEN @ \ {o} ELSE @,
                !.spin  = IF f.sync = "spin" /\ o # 0 THEN @ \cup {o}
                          ELSE IF f.sync = "unlock" THEN @ \ {o} ELSE @]

RunCall(run, i, id) ==
  LET f  == Callees[i.fn]
      v0 == IF i.via = <<>> THEN IntV(0) ELSE Value(run, i.via[1])
      lost == v0.t = "ptr" /\ (v0 = NullPtr \/ v0.o # 0)
      r0 == RunSync(run, i, id)
      r1 == FoldLeft(LAMBDA r, o : Borrowed(r, o, id, FALSE), r0, i.args)
      r2 == FoldLeft(LAMBDA r, c : Counted(r, i, id, c), r1, f.counts)
      acted == UNION {Behaviours(Labelled(r2, i), i, id, act) : act \in f.does}
  IN  IF lost THEN Anything(Fault(run, id, {"ValidIndirectTarget"}), i.dst, i.isptr)
      ELSE UNION {IF i.dst = 0 THEN {r} ELSE Returned(r, i) : r \in acted}

-----------------------------------------------------------------------------
(* Protocols. *)
ResOf(run, o) ==
  LET v == Value(run, o)
  IN  IF v.t = "int" THEN {<<"val", v.v>>} ELSE IF v.o = 0 THEN {} ELSE {<<"obj", v.o>>}
RunProtocol(run, i, id) ==
  LET key == IF i.op \in {"tset", "treq", "count", "tleak"} /\ i.val.k # "undef"
             THEN ResOf(run, i.val) ELSE {}
      in  == i.state \in StateOf(key, run.tstate)
      n   == LET c == StateOf(key, run.counts) IN IF c = {} THEN 0 ELSE CHOOSE y \in c : TRUE
      set(f, v) == ForKey(key, f, v)
      bad(b, prop) == IF b THEN Violate(run, id, {prop}) ELSE run
  IN  CASE i.op = "tset"   -> [run EXCEPT !.tstate = set(@, i.state)]
        [] i.op = "treq"   -> bad(IF i.negate THEN in ELSE ~in, "TypestateViolation")
        [] i.op = "tyield" -> [run EXCEPT !.tstate =
                                 [k \in DOMAIN @ |-> IF @[k] = i.from THEN i.to ELSE @[k]]]
        [] i.op = "tleak"  -> bad(\E k \in DOMAIN run.tstate :
                                    run.tstate[k] = i.state /\ k \notin key, "TypestateViolation")
        [] i.op = "count"  ->
             LET r == [run EXCEPT !.counts = set(@, IF i.dec THEN n - 1 ELSE n + 1)]
             IN  IF ~i.dec THEN r
                 ELSE IF key \cap DOMAIN run.counts = {} THEN run
                 ELSE IF n <= 0 THEN Violate(r, id, {"TypestateViolation"}) ELSE r

LabelsNow(run, o) ==
  LET v == Value(run, o)
  IN  (IF o.k = "reg" THEN At(run.taint, o.v, {}) ELSE {})
      \cup (IF v.t = "ptr" /\ v.o # 0 THEN At(run.labels, v.o, {}) ELSE {})
SetLabels(run, o, labels) ==
  LET v == Value(run, o)
  IN  IF v.t = "ptr" THEN IF v.o = 0 THEN run ELSE [run EXCEPT !.labels = Put(@, v.o, labels)]
      ELSE [run EXCEPT !.taint = Put(@, o.v, labels)]
RunLabel(run, i, id) ==
  CASE i.op = "label"   -> SetLabels(run, i.val, LabelsNow(run, i.val) \cup {i.label})
    [] i.op = "clear"   -> SetLabels(run, i.val, LabelsNow(run, i.val) \ {i.label})
    [] i.op = "sink"    -> IF i.label \in LabelsNow(run, i.val)
                           THEN Violate(run, id, {i.prop}) ELSE run
    [] i.op = "flow"    -> SetLabels(run, i.dst, LabelsNow(run, i.dst) \cup LabelsNow(run, i.src))
    [] i.op = "cap"     -> IF LabelsNow(run, i.ptr) \ i.grants # {}
                           THEN Violate(run, id, {"WriteCapability"}) ELSE run
    [] i.op = "cap_alias" ->
         IF /\ LabelsNow(run, i.ptr) \ i.grants # {}
            /\ Value(run, i.ptr).o # 0 /\ Value(run, i.ptr).o = Value(run, i.src).o
         THEN Violate(run, id, {"WriteCapability"}) ELSE run

-----------------------------------------------------------------------------
RunInst(run, i, id) ==
  CASE i.op = "alloc"  -> RunAlloc(run, i, id)
    [] i.op = "off"    -> RunOffset(run, i, id)
    [] i.op = "load"   -> RunLoad(run, i, id)
    [] i.op = "store"  -> RunStore(run, i, id)
    [] i.op = "free"   -> RunFree(run, i, id)
    [] i.op = "life"   -> RunLifetime(run, i)
    [] i.op = "ref"    -> RunRefWitness(run, i)
    [] i.op = "block"  -> RunBlock(run, i, id)
    [] i.op = "arith"  -> RunArith(run, i, id)
    [] i.op = "sel"    -> RunSelect(run, i)
    [] i.op = "call"   -> RunCall(run, i, id)
    [] i.op = "retag"  -> RunRetag(run, i)
    [] i.op = "ret"    -> LET p == Value(run, i.val)
                          IN  {[IF p.t = "ptr" /\ p.o # 0 /\ run.objs[p.o].kind = "stack"
                                THEN Fault(run, id, {"NoDanglingDeref"}) ELSE run
                                EXCEPT !.over = TRUE]}
    [] i.op \in {"tset", "treq", "tyield", "tleak", "count"} -> {RunProtocol(run, i, id)}
    [] i.op = "guard"  -> {IF Number(Value(run, i.c)) # 0 THEN run ELSE [run EXCEPT !.over = TRUE]}
    [] OTHER -> {RunLabel(run, i, id)}

OverAll(runs, i, id) == UNION {IF r.over THEN {r} ELSE RunInst(r, i, id) : r \in runs}
RunSeq(runs, items, base) ==
  FoldLeft(LAMBDA rs, k : OverAll(rs, items[k], base + k), runs, [k \in DOMAIN items |-> k])

\* Block parameters take the values of the side taken.
Passing(run, i, args) ==
  FoldLeft(LAMBDA r, j : With(r, i.params[j], Value(run, args[j])), run, [j \in DOMAIN args |-> j])
RunSide(run, i, part) ==
  {IF r.over THEN r ELSE Passing(r, i, part.args) : r \in RunSeq({run}, part.items, part.base)}
\* The instructions of the item n that the run takes.
PartTaken(run, i, n) ==
  IF i.op # "if" THEN [items |-> <<i>>, args |-> <<>>, base |-> n - 1]
  ELSE IF Number(Value(run, i.c)) # 0
  THEN [items |-> i.then, args |-> i.targs, base |-> n + 10]
  ELSE [items |-> i.else, args |-> i.eargs, base |-> n + 20]
RunItem(runs, i, n) ==
  UNION {IF r.over THEN {r} ELSE RunSide(r, i, PartTaken(r, i, n)) : r \in runs}

-----------------------------------------------------------------------------
\* The states a call of the program may begin in.  An opaque pointer is null,
\* or into no object, or to an object, which two of them may share.
Started ==
  [regs |-> <<>>, objs |-> <<>>, viol |-> {}, over |-> FALSE, fault |-> 0, breaks |-> {}, shared |-> {},
   taint |-> <<>>, labels |-> <<>>, tstate |-> <<>>, counts |-> <<>>,
   locks |-> {}, spin |-> {}, fetched |-> {}, borrows |-> <<>>, tags |-> <<>>]

ExtObject(p) ==
  {Object("ext", p.size, p.write, Filled(p.size, b), m) :
     b \in {0, 1}, m \in IF p.align > 1 THEN {0} ELSE {0, 1}}
WithParam(run, p, reg) ==
  LET made   == {LET r == NewObject(run, ob) IN With(r, reg, Newest(r)) : ob \in ExtObject(p)}
      shared == {With([run EXCEPT !.shared = @ \cup {o}], reg, PtrV(o, 0)) : o \in DOMAIN run.objs}
  IN  CASE p.k = "int"    -> {With(run, reg, IntV(v)) : v \in Vals}
        [] p.k = "region" -> made
        [] p.k = "nonnull" -> made \cup {With(run, reg, WildPtr)}
        [] p.k = "opaque" -> made \cup shared
                             \cup {With(run, reg, NullPtr), With(run, reg, WildPtr)}
StartRuns(params) ==
  FoldLeft(LAMBDA rs, j : UNION {WithParam(r, params[j], j) : r \in rs},
           {Started}, [j \in DOMAIN params |-> j])

Runs(program) == FoldLeft(LAMBDA rs, n : RunItem(rs, program.body[n], 100 * n),
                          StartRuns(program.params), [n \in DOMAIN program.body |-> n])

-----------------------------------------------------------------------------
(* The executor. *)

CONSTANTS Programs,    \* the programs, as a sequence
          Modes        \* of the analysis: [bugs, exported, valid_params, aliasing, complete]

VARIABLES prog,        \* the program analysed
          at,          \* [item, side, k]: the next instruction; side "top" outside a
                       \* branch, "next" between two blocks, "done" at the end
          st,          \* the path state
          ex,          \* the explorer
          todo,        \* blocks of the open branch still to visit, with their edges
          edges        \* edges into the join of the open branch

vars == <<prog, at, st, ex, todo, edges>>

Done == at.side = "done"
Item == prog.body[at.item]
Block == IF at.side = "then" THEN Item.then ELSE Item.else
AtEnd == IF at.side = "top" THEN at.item > Len(prog.body) ELSE at.k > Len(Block)
Cur  == IF at.side = "top" THEN Item ELSE Block[at.k]
Id   == 100 * at.item + (IF at.side = "then" THEN 10 + at.k
                         ELSE IF at.side = "else" THEN 20 + at.k ELSE 0)
Running(op) == at.side \notin {"next", "done"} /\ ~AtEnd /\ Cur.op = op

-----------------------------------------------------------------------------
\* The state a function is entered with: an uncontracted pointer is opaque, a
\* contracted one points to a live region of the contract's size.
EnterParam(acc, p, reg) ==
  CASE p.k = "int"    -> Result(Bind(acc.s, reg, Scalar(Sym("arg", reg))), acc.e)
    [] p.k = "opaque" -> LET f == FreshValue(acc.e, TRUE, "?")
                         IN  Result(Bind(acc.s, reg, f.v), f.e)
    [] p.k = "nonnull" -> LET f == FreshValue(acc.e, TRUE, "?")
                          IN  Result([Bind(acc.s, reg, f.v) EXCEPT !.nonnull = @ \cup {f.v.prov.id}], f.e)
    [] p.k = "region" -> LET s1 == NewRegion(acc.s, Region("heap", Con(p.size), 1, TRUE, p.write,
                                                           "param-contracts", {Truth(TRUE)}, FALSE))
                         IN  Result(Bind(s1, reg, RegionPtr(Len(s1.regions), p.align)), acc.e)
Entry(params, x) ==
  FoldLeft(LAMBDA acc, j : EnterParam(acc, params[j], j), Result(EmptyState, x),
           [j \in DOMAIN params |-> j])

Init ==
  /\ \E n \in DOMAIN Programs : prog = Programs[n] /\
       \E m \in Modes : \E s \in {Entry(prog.params,
              NewExplorer(m.bugs, m.exported, m.valid_params, m.aliasing, m.complete))} :
         st = s.s /\ ex = s.e
  /\ at = [item |-> 1, side |-> "top", k |-> 0]
  /\ todo = <<>> /\ edges = <<>>

Advance == at' = IF at.side = "top" THEN [at EXCEPT !.item = @ + 1] ELSE [at EXCEPT !.k = @ + 1]
Step(r) == st' = r.s /\ ex' = r.e /\ Advance /\ UNCHANGED <<prog, todo, edges>>

-----------------------------------------------------------------------------
(* One action for each instruction. *)
Alloc      == Running("alloc") /\ Step(StepAlloc(Cur, Id, st, ex))
PtrOffset  == Running("off")   /\ Step(StepPtrOffset(Cur, Id, st, ex))
Load       == Running("load")  /\ Step(StepLoad(Cur, Id, st, ex))
Store      == Running("store") /\ Step(StepStore(Cur, Id, st, ex))
Dealloc    == Running("free")  /\ Step(StepDealloc(Cur, Id, st, ex))
Lifetime   == Running("life")  /\ Step(Result(StepLifetime(Cur, st, ex), ex))
RefWitness == Running("ref")   /\ Step(StepRefWitness(Cur, st, ex))
Arith      == Running("arith") /\ Step(StepArith(Cur, Id, st, ex))
Select     == Running("sel")   /\ Step(StepSelect(Cur, st, ex))
Call       == Running("call")  /\ Step(StepCall(Cur, Id, st, ex))
Retag      == Running("retag") /\ Step(Result(IF ex.aliasing THEN step_retag(Cur, st, ex) ELSE st, ex))

MemIntrinsic == Running("block") /\ Cur.kind \in {"copy", "move", "set"}
                /\ Step(StepMemIntrinsic(Cur, Id, st, ex))
UserFill   == Running("block") /\ Cur.kind = "fill"  /\ Step(StepUserFill(Cur, Id, st, ex))
UserDrain  == Running("block") /\ Cur.kind = "drain" /\ Step(StepUserDrain(Cur, Id, st, ex))

TypestateSet     == Running("tset")   /\ Step(Result(StepTypestateSet(Cur, st, ex), ex))
TypestateRequire == Running("treq")   /\ Step(Result(st, StepTypestateRequire(Cur, Id, st, ex)))
TypestateYield   == Running("tyield") /\ Step(Result(StepTypestateYield(Cur, st), ex))
TypestateLeak    == Running("tleak")  /\ Step(Result(st, StepTypestateLeakCheck(Cur, Id, st, ex)))
Refcount         == Running("count")  /\ Step(StepRefcount(Cur, Id, st, ex))
TaintSource      == Running("label")  /\ Step(Result(taint_add(Cur.val, Cur.label, st, ex), ex))
TaintClear       == Running("clear")  /\ Step(Result(taint_remove(Cur.val, Cur.label, st, ex), ex))
TaintCheck       == Running("sink")
                    /\ Step(Result(st, record_temporal(ex, Id, Cur.prop,
                                         taint_has(Cur.val, Cur.label, st, ex), st)))
ProvPropagate    == Running("flow")   /\ Step(Result(StepProvPropagate(Cur, st, ex), ex))
CapRequire       == Running("cap")    /\ Step(Result(st, StepCapRequire(Cur, Id, st, ex)))
CapRequireIfAlias == Running("cap_alias")
                     /\ Step(Result(st, StepCapRequireIfAlias(Cur, Id, st, ex)))

-----------------------------------------------------------------------------
(* Control. *)
\* A block is left: the next one follows, with these blocks and edges to come.
Leave(todo2, edges2, x) ==
  /\ at' = [at EXCEPT !.side = "next"]
  /\ ex' = x /\ todo' = todo2 /\ edges' = edges2 /\ UNCHANGED <<prog, st>>

\* Observed only: the join s of the edges admits a world that no edge does.
Lossy(es, s) ==
  ~Implied(Assumed(s), FoldLeft(LAMBDA c, e : Bin("or", c, AndAll(Guarded(e) \o e.s.facts)),
                                Con(0), es))
Observed(es, m) ==
  IF Len(es) > 1 /\ Lossy(es, m.s) THEN [m.e EXCEPT !.lossy = @ \cup {100 * at.item + 99}] ELSE m.e

\* The next block of the open branch, or the join of the edges that reached it.
EnterBlock ==
  /\ at.side = "next" /\ (todo # <<>> \/ edges # <<>>)
  /\ LET side == todo # <<>>
     IN  /\ \E m \in {merge_edges(IF side THEN <<>> ELSE Item.params,
                                  IF side THEN <<Head(todo).edge>> ELSE edges, ex)} :
              st' = m.s /\ ex' = Observed(IF side THEN <<>> ELSE edges, m)
         /\ at' = IF side THEN [at EXCEPT !.side = Head(todo).side, !.k = 1]
                  ELSE [item |-> at.item + 1, side |-> "top", k |-> 0]
         /\ todo' = IF side THEN Tail(todo) ELSE <<>>
         /\ edges' = IF side THEN edges ELSE <<>>
  /\ UNCHANGED prog

\* No edge reached the join: what follows is unreachable.
Unreachable ==
  /\ at.side = "next" /\ todo = <<>> /\ edges = <<>>
  /\ at' = [at EXCEPT !.side = "done"] /\ UNCHANGED <<prog, st, ex, todo, edges>>

\* The condition as a formula.
Condition(c) == IF c.op \in {"con", "=", "#", "<=", "not", "and", "or"} THEN c ELSE Bin("#", c, Con(0))

\* A branch side is pruned when no assignment takes it.
SideBlock(side, cond) ==
  IF branch_infeasible(cond, st, ex) THEN <<>>
  ELSE <<[side |-> side, edge |-> [s |-> st, guard |-> <<cond>>, args |-> <<>>]]>>
Branch ==
  /\ Running("if") /\ at.side = "top"
  /\ \E c \in {eval_scalar(Cur.c, st, ex)} :
       Leave(SideBlock("then", Condition(c.v)) \o SideBlock("else", Not(Condition(c.v))), <<>>, c.e)

BlockEnd ==
  /\ ~Done /\ at.side \in {"then", "else"} /\ AtEnd
  /\ Leave(todo, Append(edges, [s |-> st, guard |-> <<>>,
                                args |-> IF at.side = "then" THEN Item.targs ELSE Item.eargs]), ex)

\* The rest of the path exists only if the condition can hold.
Guard ==
  /\ Running("guard")
  /\ \E c \in {eval_scalar(Cur.c, st, ex)} : \E g \in {Condition(c.v)} :
       IF branch_infeasible(g, st, c.e) THEN Leave(todo, edges, c.e)
       ELSE Step(Result([st EXCEPT !.pathcond = Append(@, g)], c.e))

Return == Running("ret") /\ Leave(todo, edges, check_return(Cur, Id, st, ex))

Finish ==
  /\ at.side = "top" /\ AtEnd
  /\ at' = [at EXCEPT !.side = "done"]
  /\ UNCHANGED <<prog, st, ex, todo, edges>>

MemoryStep == \/ Alloc \/ PtrOffset \/ Load \/ Store \/ Dealloc \/ Lifetime \/ RefWitness
              \/ Arith \/ Select \/ Call \/ Retag \/ MemIntrinsic \/ UserFill \/ UserDrain
ProtocolStep == \/ TypestateSet \/ TypestateRequire \/ TypestateYield \/ TypestateLeak \/ Refcount
                \/ TaintSource \/ TaintClear \/ TaintCheck \/ ProvPropagate
                \/ CapRequire \/ CapRequireIfAlias
Control == Branch \/ BlockEnd \/ EnterBlock \/ Unreachable \/ Guard \/ Return \/ Finish

Next == MemoryStep \/ ProtocolStep \/ Control
MemSpec == Init /\ [][Next]_vars

-----------------------------------------------------------------------------
(* Properties. *)
\* The properties whose proof says that no run violates them.
SafetyProps == {"NoNullDeref", "NoUseAfterFree", "InBounds", "Alignment", "ValidWrite",
                "ValidPointerArith", "NoDoubleFree", "NoDivByZero", "ValidValue"}
               \cup (IF ex.bugs THEN {"NoSizeOverflow"} ELSE {})

\* A read that goes wrong in any way is not a valid read.
Violated(runs, key) ==
  \E r \in runs :
     \/ key \in r.viol
     \/ key[2] = "ValidRead" /\ \E w \in r.viol : w[1] = key[1]
UpTo(runs, id) == {r \in runs : r.fault = 0 \/ id <= r.fault}

After(points, key) == \E m \in points : m <= key[1]

RefutationsReal(runs) ==
  \A key \in DOMAIN ex.mem :
    /\ ex.mem[key].refuted /\ ~After(ex.misled, key)
    /\ ~(ex.bugs /\ After(ex.lossy, key))
    => Violated(runs, key)
ProofsHold(runs) ==
  \A key \in DOMAIN ex.mem :
    ex.mem[key].proven /\ key[2] \in SafetyProps /\ ~After(ex.misled, key)
    => ~Violated(UpTo(runs, key[1]), key)

\* Every check the executor reports as proved holds in every run that meets the
\* assumptions it reports with the proof: no store, alias, call, merge or branch
\* made it forget a value the program can have there (never a false PASS).
\* Bug-finding mode takes calls to write through their arguments only and the
\* pointers of the caller to point to different objects.
\*
\* Two things the code does break this ("Proven safe under the reported
\* assumptions", verdict.rs:13).  merge_heap (merge.rs:294-336) keeps a store that
\* a later one may have replaced, because it lists the newest first or finds the
\* later one on one edge only, and takes the stores through two opaque pointers
\* for one address.  select (mergecore.rs:276-282) gives a choice of two opaque
\* pointers the identity of the first.  Checks at or after an instruction misled
\* by one of them are excepted, and no others.
PassSound ==
  Done => ProofsHold({r \in Runs(prog) :
            /\ r.breaks \cap ex.assumptions = {}
            /\ ex.bugs => r.shared = {} /\ "writes-through-args" \notin r.breaks})

\* In either mode every refuted check is violated by some run (never a false
\* FAIL), the ones bug-finding mode refutes on an inexact path included, except
\* where an instruction was misled (above) and, in bug-finding mode, after a join
\* that dropped a condition every path into it had met: decide takes any goal
\* over genuine inputs as refutable there because "the path condition constrains
\* genuine inputs only through real branch guards" (decide.rs:204-206).
FailReal == Done => RefutationsReal(Runs(prog))
=============================================================================
