------------------------------ MODULE CallRun ------------------------------
(***************************************************************************)
(* The program whose facts were extracted, run: what the facts say of a    *)
(* call is compared with what the call does.  The meaning of the MSIR      *)
(* instructions is that of crates/ir/src/inst.rs; a call that no function  *)
(* of the program answers may write to whatever it can reach.              *)
(***************************************************************************)
EXTENDS StreamFacts

CONSTANT MaxDepth        \* calls in progress at once

VARIABLES code,          \* the linked program, or NoFacts before it starts
          frames,        \* <<[g, b, k, env, args, before]>>, the running one last
          heap,          \* the objects: [size, region, live, cells, name]
          last           \* the call that has just returned, or NoFacts

vars == <<program, mode, phase, worker, arrived, whole, work, facts, code, frames, heap, last>>

Int0 == [k |-> "int", v |-> 0]
Ptr(o, off) == [k |-> "ptr", o |-> o, off |-> off]

Mods(p) == LET ok == SelectSeq(p, LAMBDA f : f.ok) IN [i \in DOMAIN ok |-> ok[i].module]
Fns == code.functions
NameOf(g) == Fns[g].name

(* The image: an object for every global and function that is named. *)
Image(m) ==
    LET inits == {<<e[1], e[2], m.functions[e[3]].name>> : e \in m.fn_ptrs} \cup m.ptr_fields
        names == {f.name : f \in Range(m.functions)} \cup address_taken_names(m)
                   \cup {e[1] : e \in inits} \cup {e[3] : e \in inits}
        order == FoldSet(LAMBDA nm, s : Append(s, nm), <<>>, names)
        At(nm) == CHOOSE i \in DOMAIN order : order[i] = nm
    IN  [i \in DOMAIN order |->
            [size |-> 16, region |-> "global", live |-> TRUE, name |-> order[i],
             cells |-> [off \in {e[2] : e \in {x \in inits : x[1] = order[i]}} |->
                           Ptr(At((CHOOSE e \in inits : e[1] = order[i] /\ e[2] = off)[3]), 0)]]]
ObjectNamed(h, nm) == CHOOSE i \in DOMAIN h : h[i].name = nm

Cur == frames[Len(frames)]
Code(f) == Fns[f.g].blocks[f.b]
AtInst(f, i) == f.k <= Len(Code(f).insts) /\ i = Code(f).insts[f.k]

Val(f, op) ==
    CASE op.k = "reg" -> f.env[op.r]
      [] op.k = "int" -> op
      [] op.k = "sym" -> Ptr(ObjectNamed(heap, op.g), 0)
      [] OTHER -> Int0
Plus(a, n) == IF a.k = "ptr" THEN [a EXCEPT !.off = @ + n] ELSE [a EXCEPT !.v = @ + n]

ReadAt(h, p) == IF p.off \in DOMAIN h[p.o].cells THEN h[p.o].cells[p.off] ELSE Int0
WriteAt(h, p, v) == [h EXCEPT ![p.o].cells = (p.off :> v) @@ @]

(* The objects reachable from a set of values, and from the globals that the
   program does not initialise as constants. *)
Reach(h, vals) ==
    Repeat(LAMBDA S : S \cup {c.o : c \in {d \in UNION {Range(h[o].cells) : o \in S} : d.k = "ptr"}},
           {v.o : v \in {w \in vals : w.k = "ptr"}}, Len(h))

Enter(fns, g, args, h) ==
    [g |-> g, b |-> 1, k |-> 1, args |-> args, before |-> h,
     env |-> [r \in {p.reg : p \in Range(fns[g].params)} |->
                 args[CHOOSE i \in DOMAIN args : fns[g].params[i].reg = r]] @@ <<>>]

-----------------------------------------------------------------------------
RunInit == Init /\ code = NoFacts /\ frames = <<>> /\ heap = <<>> /\ last = NoFacts

Stream == StreamNext /\ UNCHANGED <<code, frames, heap, last>>

(* The outside calls the program: main in a closed world, any function with
   external linkage otherwise, with a pointer to 8 bytes or a number. *)
Start ==
    /\ phase = "done" /\ code = NoFacts
    /\ LET m     == merge_modules(Mods(program))
           image == Append(Image(m), [size |-> 8, region |-> "heap", live |-> TRUE, name |-> "", cells |-> <<>>])
           Arg(p) == IF p.ty = "ptr" THEN Ptr(Len(image), 0) ELSE Num(3)
       IN  \E g \in DOMAIN m.functions :
            /\ IF mode.closed_world THEN m.functions[g].name = "main" ELSE g \notin m.internal
            /\ code' = m /\ heap' = image
            /\ frames' = <<Enter(m.functions, g, [k \in DOMAIN m.functions[g].params |-> Arg(m.functions[g].params[k])], image)>>
    /\ last' = NoFacts
    /\ UNCHANGED svars

Advance(f, env) == frames' = [frames EXCEPT ![Len(frames)] = [f EXCEPT !.k = @ + 1, !.env = env]]
Def(f, r, v) == IF r = 0 THEN f.env ELSE (r :> v) @@ f.env

(* An access to anything but a live object is undefined: the run ends there. *)
Defined(f, i) ==
    "ptr" \in DOMAIN i => LET p == Val(f, i.ptr) IN p.k = "ptr" /\ heap[p.o].live

(* An instruction other than a call. *)
Compute ==
    /\ frames # <<>> /\ Cur.k <= Len(Code(Cur).insts)
    /\ LET f == Cur
           i == Code(f).insts[f.k]
       IN  /\ i.op # "call" /\ Defined(f, i)
           /\ \E n \in IF i.op = "input" THEN i.lo .. i.hi ELSE {0} :
              /\ Advance(f, Def(f, defined_reg(i),
                   CASE i.op \in {"alloc", "witness"} -> Ptr(Len(heap) + 1, 0)
                     [] i.op = "assign" -> Val(f, i.src)
                     [] i.op = "add"    -> Plus(Val(f, i.a), Val(f, i.b).v)
                     [] i.op = "gep"    -> Plus(Val(f, i.base), Val(f, i.idx).v)
                     [] i.op = "load"   -> ReadAt(heap, Val(f, i.ptr))
                     [] OTHER           -> Num(n)))
              /\ heap' = CASE i.op \in {"alloc", "witness"} ->
                                Append(heap, [size |-> i.size, live |-> TRUE, name |-> "", cells |-> <<>>,
                                              region |-> IF i.op = "alloc" THEN i.region ELSE "heap"])
                           [] i.op = "store"  -> WriteAt(heap, Val(f, i.ptr), Val(f, i.val))
                           [] i.op = "memset" -> [heap EXCEPT ![Val(f, i.ptr).o].cells = <<>>]
                           [] i.op = "free"   -> [heap EXCEPT ![Val(f, i.ptr).o].live = FALSE]
                           [] OTHER           -> heap
    /\ last' = NoFacts
    /\ UNCHANGED <<svars, code>>

(* The function that a call reaches, 0 when it is outside the program. *)
Target(f, i) ==
    CASE i.callee.k = "direct" -> i.callee.id
      [] i.callee.k = "symbol" -> 0
      [] OTHER -> LET p == f.env[i.callee.reg]
                  IN  IF p.k # "ptr" \/ heap[p.o].name = "" THEN 0
                      ELSE LET hit == {g \in DOMAIN Fns : NameOf(g) = heap[p.o].name} IN IF hit = {} THEN 0 ELSE Min(hit)

Call ==
    /\ frames # <<>> /\ Len(frames) < MaxDepth /\ Cur.k <= Len(Code(Cur).insts)
    /\ LET f == Cur
           i == Code(f).insts[f.k]
       IN  /\ i.op = "call" /\ Target(f, i) # 0
           /\ frames' = Append(frames, Enter(Fns, Target(f, i), [k \in DOMAIN i.args |-> Val(f, i.args[k])], heap))
    /\ last' = NoFacts
    /\ UNCHANGED <<svars, code, heap>>

(* A call to code that is not part of the program: it returns a number, and
   may overwrite a cell of what its arguments lead to. *)
CallOutside ==
    /\ frames # <<>> /\ Cur.k <= Len(Code(Cur).insts)
    /\ LET f == Cur
           i == Code(f).insts[f.k]
       IN  /\ i.op = "call" /\ Target(f, i) = 0
           /\ Advance(f, Def(f, i.dst, Num(7)))
           /\ \/ heap' = heap
              \/ \E o \in Reach(heap, {Val(f, i.args[k]) : k \in DOMAIN i.args}) :
                    \E off \in DOMAIN heap[o].cells : heap' = WriteAt(heap, Ptr(o, off), Num(7))
    /\ last' = NoFacts
    /\ UNCHANGED <<svars, code>>

Jump ==
    /\ frames # <<>> /\ Cur.k > Len(Code(Cur).insts) /\ Code(Cur).term.op = "br"
    /\ LET f == Cur
       IN  \E e \in Range(Code(f).term.to) :
            frames' = [frames EXCEPT ![Len(frames)] =
                [f EXCEPT !.b = e.to, !.k = 1,
                          !.env = [r \in Range(Fns[f.g].blocks[e.to].params) |->
                                     Val(f, e.args[CHOOSE j \in DOMAIN e.args : Fns[f.g].blocks[e.to].params[j] = r])] @@ @]]
    /\ last' = NoFacts
    /\ UNCHANGED <<svars, code, heap>>

(* The locals of a function die when it returns. *)
Return ==
    /\ frames # <<>> /\ Cur.k > Len(Code(Cur).insts) /\ Code(Cur).term.op = "ret"
    /\ LET f == Cur
           v == Val(f, Code(f).term.val)
           own == {o \in Len(f.before) + 1 .. Len(heap) : heap[o].region = "stack"}
           after == [o \in DOMAIN heap |-> IF o \in own THEN [heap[o] EXCEPT !.live = FALSE] ELSE heap[o]]
           caller == frames[Len(frames) - 1]
       IN  /\ heap' = after
           /\ last' = [g |-> f.g, args |-> f.args, before |-> f.before, ret |-> v]
           /\ frames' = IF Len(frames) = 1 THEN <<>>
                        ELSE Append(SubSeq(frames, 1, Len(frames) - 2),
                                    [caller EXCEPT !.k = @ + 1, !.env = Def(caller, Code(caller).insts[caller.k].dst, v)])
    /\ UNCHANGED <<svars, code>>

Next == Stream \/ Start \/ Compute \/ Call \/ CallOutside \/ Jump \/ Return
(* The threads are joined and the solver's loop runs on: some step of the
   extraction is taken as long as it is not done. *)
Fairness == []<>(phase = "done") \/ []<><<TRUE>>_svars
Spec == RunInit /\ [][Next]_vars /\ Fairness

-----------------------------------------------------------------------------
(* The facts are those that the passes over the linked module give: however
   the files are cut into shards and whichever shard comes in first, streaming
   implements the extraction from the merged module.  wholeprog.rs:8-10 says
   "bit-identical"; the four places where the two pipelines of the code differ
   are named in LinkedFacts, and everything else is compared.  name_scalars
   has no counterpart over there. *)
LinkedPart == IF facts = NoFacts THEN facts ELSE [x \in DOMAIN facts \ {"name_scalars"} |-> facts[x]]
Linking == INSTANCE LinkedFacts WITH facts <- LinkedPart
ImplementsLinked == Linking!Spec

(* The facts are finalised. *)
FactsFinalised == <>(phase = "done")

(* The nodes to which copies and offsets lead from an object, or a cell of
   one, that is poisoned. *)
BehindPoison(b) ==
    Repeat(LAMBDA S : S \cup {p[1] : p \in {q \in b.copy \cup b.gep : q[2] \in S}},
           b.poisoned \cup {b.cell[k] : k \in {c \in DOMAIN b.cell : c[1] \in b.poisoned}}, b.n)

(* The worklist solver, on the relation with its copy cycles collapsed, ends
   with what the rounds give over the relation as it was (pointsto.rs:259-265,
   "the same least fixpoint the naive round-robin computed"): nothing a
   register may point to is missing, and nothing is added.  The exception is
   the code's: an object poisoned by a step of the solver (pointsto.rs:171)
   gets Top without going back on the worklist (201-212), so that a register
   to which it was already copied may lack Top, and only Top. *)
SolvedExact ==
    (phase = "solve" /\ work = <<>> /\ mode.closed_world) =>
        LET got   == View(whole.pt)
            least == View(Linking!LinkedRelation(Mods(program)))
        IN  /\ DOMAIN got = DOMAIN least
            /\ \A k \in DOMAIN got :
                  \/ got[k] = least[k]
                  \/ /\ got[k] = [least[k] EXCEPT !.top = FALSE]
                     /\ whole.pt.reg_node[k] \in BehindPoison(whole.pt)

(* The call that has just been made: its instruction, and the frame that made it. *)
Caller == frames[Len(frames) - 1]
CallMade == Code(Caller).insts[Caller.k]
Earlier == {Code(Caller).insts[k] : k \in 1 .. Caller.k - 1}

(* A function that a constant table names was called through the table, and is
   running.  The address counts as taken only in an operand of an instruction
   (site.rs:148-233), so the call is not among the sites, although
   ptr.rs:41-43 wants "complete call sites" and "address never taken". *)
ThroughTable ==
    \E n \in 2 .. Len(frames) :
        /\ Code(frames[n - 1]).insts[frames[n - 1].k].callee.k = "indirect"
        /\ \E e \in code.fn_ptrs : e[3] = frames[n].g

(* At the entry of a function the pointer contract synthesised for a
   parameter holds of the argument: this many bytes, so aligned; and the value
   range of a number, under its id and, for an external function, its name.
   Ranges rest on what is taken for granted of handlers, a size of 1 .. 8:
   wholeprog.rs:152-157 calls it "a real invariant of how the memory core
   dispatches", which a call that the program makes to a handler need not keep. *)
Guaranteed(v, c) ==
    /\ v.k = "ptr"
    /\ heap[v.o].size - v.off >= c.size /\ v.off >= 0
    /\ v.off % c.align = 0
Entering == frames # <<>> /\ Cur.b = 1 /\ Cur.k = 1
Within(v, range) == v.k = "int" => v.v \in range.lo .. range.hi
HandlerMisused ==
    \E f \in Range(frames) : /\ NameOf(f.g) \in DOMAIN facts.mmio
                             /\ ~Within(f.args[facts.mmio[NameOf(f.g)]], Dispatched)
ContractsHold ==
    (Entering /\ ~ThroughTable) =>
        /\ \A c \in DOMAIN facts.ptrs : c[1] = Cur.g => Guaranteed(Cur.args[c[2]], facts.ptrs[c])
        /\ \/ HandlerMisused
           \/ /\ \A c \in DOMAIN facts.scalars : c[1] = Cur.g => Within(Cur.args[c[2]], facts.scalars[c])
              /\ \A c \in DOMAIN facts.name_scalars :
                    (c[1] \in DOMAIN facts.names /\ facts.names[c[1]] = Cur.g) => Within(Cur.args[c[2]], facts.name_scalars[c])

(* Before the call, the caller's block gave away the argument's object through
   a register other than the argument: a pointer into it, or a copy.  root_of
   (fields.rs:205-211, fieldsyn.rs:58-64) stops at a register with a guarantee
   of its own and knows no copies, so this does not mark the argument as
   escaped. *)
Registers(i) ==
    CASE i.op = "call" -> {a.r : a \in {x \in Range(i.args) : x.k = "reg"}}
      [] i.op = "store" /\ i.val.k = "reg" -> {i.val.r}
      [] i.op = "memset" /\ i.ptr.k = "reg" -> {i.ptr.r}
      [] OTHER -> {}
GivenAway(k) ==
    \E r \in UNION {Registers(i) : i \in Earlier} :
        CallMade.args[k] # Reg(r) /\ Caller.env[r].k = "ptr" /\ Caller.env[r].o = Cur.args[k].o

(* And every field it promises holds a pointer with that guarantee: fieldsyn.rs:15-20,
   "a missed store only ever drops a field, never asserts one that a caller does
   not establish", but for the object given away by another register. *)
FieldsEstablished ==
    (Entering /\ ~ThroughTable) =>
        \A c \in DOMAIN facts.fields : c[1] = Cur.g =>
            \A off \in DOMAIN facts.fields[c] :
                /\ Cur.args[c[2]].k = "ptr"
                /\ \/ Guaranteed(ReadAt(heap, Plus(Cur.args[c[2]], off)), facts.fields[c][off])
                   \/ Len(frames) > 1 /\ GivenAway(c[2])

(* A register that devirtualisation resolves holds that function when it is
   called, unless the least solution leaves the register open and the solver's
   solution does not (see SolvedExact). *)
DevirtSound ==
    (frames # <<>> /\ Cur.k <= Len(Code(Cur).insts)) =>
        LET f == Cur
            i == Code(f).insts[f.k]
        IN  (i.op = "call" /\ i.callee.k = "indirect" /\ <<NameOf(f.g), i.callee.reg>> \in DOMAIN facts.devirt) =>
                \/ /\ f.env[i.callee.reg].k = "ptr"
                   /\ heap[f.env[i.callee.reg].o].name = facts.devirt[<<NameOf(f.g), i.callee.reg>>]
                \/ View(Linking!LinkedRelation(Mods(program)))[<<f.g, i.callee.reg>>].top

(* What a function's summary says is what its call did. *)
Amount(c, aff) == aff.c + FoldSet(LAMBDA k, n : n + (IF aff.t[k] = 0 THEN 0 ELSE aff.t[k] * c.args[k].v), 0, DOMAIN aff.t)
ReturnHolds(c, r) ==
    CASE r.k = "num"   -> c.ret = Num(Amount(c, r.val))
      [] r.k = "ptr"   -> c.ret = Plus(c.args[r.arg], Amount(c, r.off))
      [] r.k = "stack" -> c.ret.k = "ptr" /\ heap[c.ret.o].region = "stack" /\ ~heap[c.ret.o].live
      [] r.k = "heap"  -> /\ c.ret.k = "ptr" /\ c.ret.off = 0 /\ c.ret.o > Len(c.before)
                          /\ heap[c.ret.o].size = r.size /\ heap[c.ret.o].live
      [] r.k = "ref"   -> c.ret.k = "ptr" /\ heap[c.ret.o].size >= r.size
      [] OTHER         -> TRUE
SummarySound ==
    (last # NoFacts) =>
        LET c == last
            s == facts.summaries[c.g]
        IN  /\ ReturnHolds(c, s.ret)
            /\ (~s.writes => \A o \in DOMAIN c.before : heap[o].cells = c.before[o].cells)
            /\ (~s.frees => \A o \in DOMAIN c.before : heap[o].live = c.before[o].live)
            /\ (s.frees_arg # 0 => ~heap[c.args[s.frees_arg].o].live)

(* A summary that says a function leaves the address of a local behind
   through a parameter is never wrong: it is used to refute, and
   summary.rs:201-207 says that "marking the caller's location dangling can
   never be a false FAIL".  Two cases of the code are excepted: any allocation
   of the entry block counts as a local (perfn.rs:68-70), one on the heap too;
   and nothing looks for a later store through the parameter. *)
TookHeap(c, p) ==
    \E v \in Range(heap[c.args[p].o].cells) : v.k = "ptr" /\ v.o > Len(c.before) /\ heap[v.o].region = "heap"
StoresThrough(f, p) ==
    Len(SelectSeq(Insts(f), LAMBDA i : i.op = "store" /\ i.ptr.k = "reg" /\ i.ptr.r \in DOMAIN ptr_param_of(f)
                                       /\ ptr_param_of(f)[i.ptr.r] = p))
EscapesReal ==
    (last # NoFacts) =>
        \A p \in facts.summaries[last.g].escapes :
            \/ \E v \in Range(heap[last.args[p].o].cells) : v.k = "ptr" /\ ~heap[v.o].live
            \/ TookHeap(last, p)
            \/ StoresThrough(Fns[last.g], p) > 1

\* The points-to solution is the least one, and an indirect call it resolves goes
\* where an execution goes, each but for Top that a late poisoning does not hand on.
PointsToRight == SolvedExact /\ DevirtSound

(* Synthesis over the separate modules, without linking or streaming, gives the
   same contracts: a caller in one file and its callee in another meet through the
   linker's plan of ids, and an address taken in any file counts. *)
LinkFreeAgrees ==
    (phase = "done" /\ code = NoFacts) =>
        LET ptrs == Linking!synthesize_program(Mods(program), mode)
        IN  /\ ptrs = facts.ptrs
            /\ Linking!synthesize_fields_program(Mods(program), ptrs, mode) = facts.fields

\* What is assumed of parameters and fields holds at every call an execution makes, and
\* is the same whether the modules are streamed or taken apart from each other.
ContractsRight == ContractsHold /\ FieldsEstablished /\ LinkFreeAgrees

\* A summary says no less than the function does, and an escape it blames the caller
\* for happens in some execution.
SummariesRight == SummarySound /\ EscapesReal

=============================================================================
