----------------------------- MODULE CallFacts -----------------------------
(***************************************************************************)
(* What the whole-program passes conclude about a call: the effect summary *)
(* of the callee (crates/symbolic/src/summary), and the preconditions      *)
(* synthesised from all the call sites: pointer contracts, value ranges    *)
(* and pointers held in fields (crates/verifier/src/contracts).  The       *)
(* facts F are [fns, internal, name_to_id, escaped, declared, size_reg],   *)
(* where fns lists the functions in id order, direct callees as ids.       *)
(* The code extracts the body-local part of each pass when it reads a      *)
(* module and forgets the body; here the body stands for what is extracted.*)
(* These are the streamed passes; those over a linked module, which the    *)
(* code implements apart, are in LinkedFacts.                              *)
(***************************************************************************)
EXTENDS ProgIR

Unknown == [k |-> "unknown"]
Opaque  == [k |-> "opaque"]
Stack   == [k |-> "stack"]

Resolve(F, callee) ==
    CASE callee.k = "direct" -> callee.id
      [] callee.k = "symbol" /\ callee.name \in DOMAIN F.name_to_id -> F.name_to_id[callee.name]
      [] OTHER -> 0

(* The registers that an offset or a copy derives from those of map. *)
SourceOf(i) == CASE i.op = "gep" -> i.base [] i.op = "assign" -> i.src [] OTHER -> Absent
Derived(map, f) ==
    Repeat(LAMBDA m : LET new == {i \in Range(Insts(f)) : SourceOf(i).k = "reg" /\ SourceOf(i).r \in DOMAIN m}
                      IN  m @@ [d \in {i.dst : i \in new} |-> m[SourceOf(CHOOSE i \in new : i.dst = d).r]],
           map, Len(Insts(f)))

ptr_param_of(f) ==
    Derived([r \in {p.reg : p \in {q \in Range(f.params) : q.ty = "ptr"}} |->
                CHOOSE k \in DOMAIN f.params : f.params[k].reg = r], f)
local_alloc_regs(f) ==
    DOMAIN Derived([r \in {i.dst : i \in {j \in Range(Insts(f)) : j.op = "alloc"}} |-> TRUE], f)

-----------------------------------------------------------------------------
(* Parameter-relative values.  An affine form is [c, t]: a constant and a
   coefficient for each parameter. *)
Constant(f, c) == [c |-> c, t |-> [k \in DOMAIN f.params |-> 0]]
Param(f, p)    == [c |-> 0, t |-> [k \in DOMAIN f.params |-> IF k = p THEN 1 ELSE 0]]
AffineAdd(a, b) == [c |-> a.c + b.c, t |-> [k \in DOMAIN a.t |-> a.t[k] + b.t[k]]]

ParamValues(f) ==
    [r \in {p.reg : p \in Range(f.params)} |->
        LET k == CHOOSE i \in DOMAIN f.params : f.params[i].reg = r
        IN  IF f.params[k].ty = "ptr" THEN [k |-> "ptr", arg |-> k, off |-> Constant(f, 0)]
            ELSE [k |-> "num", val |-> Param(f, k)]]

eval_operand(f, env, op) ==
    CASE op.k = "reg" /\ op.r \in DOMAIN env -> env[op.r]
      [] op.k = "int" -> [k |-> "num", val |-> Constant(f, op.v)]
      [] OTHER -> Opaque

(* Values computed alike by both walks below. *)
eval_rvalue(f, env, i) ==
    CASE i.op = "assign" -> eval_operand(f, env, i.src)
      [] i.op = "add" ->
            LET a == eval_operand(f, env, i.a)
                b == eval_operand(f, env, i.b)
            IN  IF a.k = "num" /\ b.k = "num" THEN [k |-> "num", val |-> AffineAdd(a.val, b.val)] ELSE Opaque
      [] i.op = "gep" ->
            LET p == eval_operand(f, env, i.base)
                x == eval_operand(f, env, i.idx)
            IN  IF p.k = "ptr" /\ x.k = "num" THEN [p EXCEPT !.off = AffineAdd(@, x.val)]
                ELSE IF p.k = "stack" THEN Stack ELSE Opaque
      [] OTHER -> Opaque

(* The parameters through which the entry block stores the address of a local. *)
escapes_stack_through(f) ==
    LET Step(s, i) ==
            LET v == IF i.op = "alloc" THEN Stack ELSE eval_rvalue(f, s.env, i)
                esc == i.op = "store" /\ eval_operand(f, s.env, i.ptr).k = "ptr"
                                      /\ eval_operand(f, s.env, i.val).k = "stack"
            IN  [env |-> IF defined_reg(i) = 0 THEN s.env ELSE (i.dst :> v) @@ s.env,
                 out |-> IF esc THEN s.out \cup {eval_operand(f, s.env, i.ptr).arg} ELSE s.out]
    IN  FoldLeft(Step, [env |-> ParamValues(f), out |-> {}], f.blocks[1].insts).out

(* The passes of ret_of_fn; the code gives up after 64. *)
PASSES == 8

CallIndex(f, dst) == SelectInSeq(Observable(f), LAMBDA i : i.dst = dst)

ReturnValue(f, env, i) ==
    CASE i.op = "alloc" -> IF i.region = "stack" THEN Stack ELSE [k |-> "heap", size |-> i.size]
      [] i.op = "witness" -> [k |-> "ref", size |-> i.size]
      [] i.op = "call" -> IF CallIndex(f, i.dst) = 0 THEN Opaque ELSE [k |-> "call", at |-> CallIndex(f, i.dst)]
      [] OTHER -> eval_rvalue(f, env, i)

ReturnPass(f, s) ==
    LET witnessed == {i.dst : i \in {j \in Range(Insts(f)) : j.op = "witness"}}
        Def(env, i) == IF defined_reg(i) = 0 \/ (i.op # "witness" /\ i.dst \in witnessed) THEN env
                       ELSE (i.dst :> ReturnValue(f, env, i)) @@ env
        Feed(env, join, e) ==
            FoldLeft(LAMBDA j, k : LET r == f.blocks[e.to].params[k]
                                       v == eval_operand(f, env, e.args[k])
                                   IN  IF r \notin DOMAIN j THEN (r :> v) @@ j
                                       ELSE IF j[r] = v THEN j ELSE (r :> Opaque) @@ j,
                     join, [k \in DOMAIN e.args |-> k])
        Block(t, b) ==
            LET bound == [r \in Range(b.params) \cap DOMAIN t.join |-> t.join[r]] @@ t.env
                env   == FoldLeft(Def, bound, b.insts)
            IN  [env |-> env, join |-> IF b.term.op = "br" THEN FoldLeft(LAMBDA j, e : Feed(env, j, e), t.join, b.term.to)
                                       ELSE t.join]
    IN  FoldLeft(Block, s, f.blocks)

(* What every returning path returns: a must analysis, so disagreement is unknown. *)
Returned(f, s) ==
    LET vals == {eval_operand(f, s.env, b.term.val) :
                    b \in {c \in Range(f.blocks) : c.term.op = "ret" /\ c.term.val # Absent}}
    IN  IF Cardinality(vals) # 1 \/ ReturnPass(f, s) # s \/ Opaque \in vals THEN Unknown
        ELSE CHOOSE v \in vals : TRUE
ret_of_fn(f) ==
    Returned(f, Repeat(LAMBDA t : ReturnPass(f, t), [env |-> ParamValues(f), join |-> ParamValues(f)], PASSES))

(* A one-block function with a single free, of a parameter. *)
derive_frees_arg(f) ==
    LET frees == SelectSeq(f.blocks[1].insts, LAMBDA i : i.op = "free")
        hits  == {k \in DOMAIN f.params : frees[1].ptr = Reg(f.params[k].reg)}
    IN  IF Len(f.blocks) # 1 \/ Len(frees) # 1 \/ hits = {} THEN 0 ELSE Min(hits)

refcount_effect_of_fn(f) ==
    LET of == ptr_param_of(f)
        Counts(p, dec) == Len(SelectSeq(Insts(f), LAMBDA i : i.op = "refcount" /\ i.dec = dec /\ i.ptr.k = "reg"
                                                             /\ i.ptr.r \in DOMAIN of /\ of[i.ptr.r] = p))
    IN  [p \in DOMAIN f.params |-> Counts(p, FALSE) - Counts(p, TRUE)]

(* A write or a free counts unless it goes to the function's own allocation. *)
summarize_fn(f) ==
    LET of == ptr_param_of(f)
        Arg(op) == IF op.k = "reg" /\ op.r \in DOMAIN of THEN of[op.r] ELSE 0
        visible(i) == i.ptr.k # "reg" \/ i.ptr.r \notin local_alloc_regs(f)
        some(ops) == \E i \in Range(Insts(f)) : i.op \in ops /\ visible(i)
    IN  [ret |-> ret_of_fn(f), writes |-> some({"store", "memset"}), frees |-> some({"free"}),
         frees_arg |-> derive_frees_arg(f), refcount |-> refcount_effect_of_fn(f),
         transfers |-> {t \in {<<Arg(i.ptr), Arg(i.src)>> : i \in {j \in Range(Insts(f)) : j.op = "propagate"}} :
                            t[1] # 0 /\ t[2] # 0},
         labels |-> {Arg(i.ptr) : i \in {j \in Range(Insts(f)) : j.op = "label"}} \ {0},
         escapes |-> escapes_stack_through(f)]

-----------------------------------------------------------------------------
(* The summaries of all functions: effects, provenance and returns flow from
   callees to callers until nothing changes. *)
composes_through_wrapper(ret) == ret.k \in {"stack", "heap", "ref"}

(* The callees of g's observable calls, with their arguments. *)
Calls(F, g) == LET cs == Observable(F.fns[g])
               IN  [k \in DOMAIN cs |-> [g |-> Resolve(F, cs[k].callee), args |-> cs[k].args, callee |-> cs[k].callee]]
ArgParam(F, g, c, k) ==
    LET of == ptr_param_of(F.fns[g])
    IN  IF k \in DOMAIN c.args /\ c.args[k].k = "reg" /\ c.args[k].r \in DOMAIN of THEN of[c.args[k].r] ELSE 0

NoMem == "<inline asm nomem>"
Mutopaque_call(F, g) == FALSE
opaque_call(F, g) == \E c \in Range(Calls(F, g)) : c.g = 0 /\ ~(c.callee.k = "symbol" /\ c.callee.name = NoMem)

ComposeStep(F, S) ==
    [g \in DOMAIN S |->
        LET cs == {c \in Range(Calls(F, g)) : c.g # 0}
            via(c, k) == ArgParam(F, g, c, k)
            ret == S[g].ret
            from == IF ret.k = "call" THEN Calls(F, g)[ret.at].g ELSE 0
        IN  [S[g] EXCEPT
                !.writes = @ \/ opaque_call(F, g) \/ \E c \in cs : S[c.g].writes,
                !.frees  = @ \/ opaque_call(F, g) \/ \E c \in cs : S[c.g].frees,
                !.transfers = @ \cup {t \in UNION {{<<via(c, t[1]), via(c, t[2])>> : t \in S[c.g].transfers} : c \in cs} :
                                        t[1] # 0 /\ t[2] # 0},
                !.labels = @ \cup (UNION {{via(c, a) : a \in S[c.g].labels} : c \in cs} \ {0}),
                !.ret = IF from # 0 /\ composes_through_wrapper(S[from].ret) THEN S[from].ret ELSE @]] @@ <<>>

CallsUnknown(all) ==
    [g \in DOMAIN all |-> IF all[g].ret.k = "call" THEN [all[g] EXCEPT !.ret = Unknown] ELSE all[g]]
finalize_summaries(F) ==
    LET base == [g \in DOMAIN F.fns |-> summarize_fn(F.fns[g])] @@ <<>>
    IN  CallsUnknown(Repeat(LAMBDA S : ComposeStep(F, S), base, 3 * Len(F.fns)))

-----------------------------------------------------------------------------
(* Preconditions.  A guarantee is [size, align, writable]; Nothing is a site
   from which none can be derived. *)
Nothing == [k |-> "nothing"]

MutWeakestFirst(S) == CHOOSE s \in S : \A t \in S : t.size <= s.size
Weakest(S) == [size |-> Min({s.size : s \in S}), align |-> Min({s.align : s \in S}),
               writable |-> \A s \in S : s.writable]

(* The alignment at an offset into an aligned region. *)
AlignAt(align, off) == Max({a \in 1 .. align : align % a = 0 /\ off % a = 0})

(* A map made of pairs with distinct first members. *)
MapOf(pairs, V(_)) == [r \in {p[1] : p \in pairs} |-> V((CHOOSE p \in pairs : p[1] = r)[2])]
Region(n) == [size |-> n, align |-> 8, writable |-> TRUE]

(* What is kept of a caller's body for its guarantees. *)
CallerDefFacts(f) ==
    LET insts == Range(Insts(f))
    IN  [alloc_defs   |-> {<<i.dst, i.size>> : i \in {j \in insts : j.op = "alloc" /\ j.size > 0}},
         hint_defs    |-> {<<r, f.hints[r]>> : r \in DOMAIN f.hints},
         param_regs   |-> {<<f.params[k].reg, k>> : k \in DOMAIN f.params},
         offset_edges |-> {<<i.dst, i.base.r, const_byte_offset(i)>> :
                              i \in {j \in insts : j.op = "gep" /\ j.base.k = "reg" /\ const_byte_offset(j) # ANY_OFFSET}}]

(* The guarantee each register carries: hints, overridden by parameters with a
   contract, overridden by allocations, closed under constant offsets that stay
   inside the region. *)
RegionAt(base, off) == [base EXCEPT !.size = @ - off, !.align = IF off = 0 THEN @ ELSE AlignAt(@, off)]
reconstruct_defs(c, g, known, avp) ==
    LET params == {p \in c.param_regs : <<g, p[2]>> \in DOMAIN known}
        roots  == MapOf(c.alloc_defs, Region) @@ MapOf(params, LAMBDA k : known[<<g, k>>])
                    @@ (IF avp THEN MapOf(c.hint_defs, Region) ELSE <<>>)
        Grow(defs) == LET new == {e \in c.offset_edges : e[1] \notin DOMAIN defs /\ e[2] \in DOMAIN defs
                                                        /\ e[3] <= defs[e[2]].size}
                      IN  defs @@ MapOf({<<e[1], RegionAt(defs[e[2]], e[3])>> : e \in new}, LAMBDA sg : sg)
    IN  Repeat(Grow, roots, Cardinality(c.offset_edges))

(* What a caller guarantees of an argument. *)
derive_site(arg, defs) == IF arg.k = "reg" /\ arg.r \in DOMAIN defs THEN defs[arg.r] ELSE Nothing

(* A function whose call sites are all in view: internal, or in a closed
   world, and its address is never taken. *)
complete(F, g, cw) == (cw \/ g \in F.internal) /\ F.fns[g].name \notin F.escaped

(* All the call sites of g: <<caller, block, position>>. *)
Sites(F, g) ==
    {s \in UNION {{<<c, b, k>> : k \in DOMAIN F.fns[c].blocks[b].insts} :
                     <<c, b>> \in UNION {{<<c, b>> : b \in DOMAIN F.fns[c].blocks} : c \in DOMAIN F.fns}} :
        LET i == F.fns[s[1]].blocks[s[2]].insts[s[3]] IN i.op = "call" /\ Resolve(F, i.callee) = g}
SiteArgs(F, s) == F.fns[s[1]].blocks[s[2]].insts[s[3]].args

(* The fold over the sites of parameter k of g: one site that gives Nothing
   (an argument that is not derived, or too many or too few arguments) and
   the parameter gets no precondition. *)
SiteFacts(F, g, k, Derive(_, _)) ==
    {IF Len(SiteArgs(F, s)) # Len(F.fns[g].params) THEN Nothing ELSE Derive(s, SiteArgs(F, s)[k]) : s \in Sites(F, g)}

Candidates(F, cw, ty) ==
    UNION {{<<g, k>> : k \in {j \in DOMAIN F.fns[g].params : F.fns[g].params[j].ty = ty}} :
              g \in {h \in DOMAIN F.fns : complete(F, h, cw)}}

contract_round(F, prior, cw, avp) ==
    LET known == F.declared @@ prior
        defs  == [g \in DOMAIN F.fns |-> reconstruct_defs(CallerDefFacts(F.fns[g]), g, known, avp)] @@ <<>>
        Derive(s, arg) == derive_site(arg, defs[s[1]])
        cands == Candidates(F, cw, "ptr") \ DOMAIN known
        sites == [c \in cands |-> SiteFacts(F, c[1], c[2], Derive)] @@ <<>>
    IN  [c \in {x \in cands : sites[x] # {} /\ Nothing \notin sites[x]} |-> Weakest(sites[c])]

(* Grounded from below: a contract rests on contracts of earlier rounds only. *)
finalize_contracts(F, cw, avp) ==
    Repeat(LAMBDA acc : acc @@ contract_round(F, acc, cw, avp), <<>>, Cardinality(Candidates(F, cw, "ptr")) + 1)

(* The interval that the analysis gives a register at the entry of a block:
   here the bounds under which an earlier block read it. *)
arg_interval(f, b, arg) ==
    LET reads == {i \in UNION {Range(f.blocks[c].insts) : c \in 1 .. b - 1} : i.op = "input"}
    IN  CASE arg.k = "int" -> [lo |-> arg.v, hi |-> arg.v]
          [] arg.k = "reg" /\ \E i \in reads : i.dst = arg.r ->
                 LET i == CHOOSE j \in reads : j.dst = arg.r IN [lo |-> i.lo, hi |-> i.hi]
          [] OTHER -> Nothing

(* The register of a handler's size parameter, by a map of handlers; 0 for a function
   that the map does not name.  Its value is between 1 and 8. *)
mmio_size_reg(mmio, f) ==
    IF f.name \in DOMAIN mmio /\ mmio[f.name] \in DOMAIN f.params THEN f.params[mmio[f.name]].reg ELSE 0
Dispatched == [lo |-> 1, hi |-> 8]

(* F.size_reg[g] was looked up among the handlers of g's own file. *)
finalize_scalars(F, cw) ==
    LET Derive(s, arg) == IF arg.k = "reg" /\ arg.r = F.size_reg[s[1]] THEN Dispatched
                          ELSE arg_interval(F.fns[s[1]], s[2], arg)
        cands == Candidates(F, cw, "int")
        sites == [c \in cands |-> SiteFacts(F, c[1], c[2], Derive)] @@ <<>>
    IN  [c \in {x \in cands : sites[x] # {} /\ Nothing \notin sites[x]} |->
            [lo |-> Min({s.lo : s \in sites[c]}), hi |-> Max({s.hi : s \in sites[c]})]]

-----------------------------------------------------------------------------
(* Fields that hold a valid pointer at every call.  Along a block, field_of
   locates registers inside a region root, slot says which fields of a root
   hold which guarantee, escaped are the roots a callee may reach. *)
root_of(s, r) == IF r \in DOMAIN s.defs THEN r ELSE IF r \in DOMAIN s.field_of THEN s.field_of[r][1] ELSE 0
Drop(slot, roots) == [k \in {x \in DOMAIN slot : x[1] \notin roots} |-> slot[k]]

(* What is kept of an instruction. *)
FieldEvent(i) ==
    CASE i.op = "gep" /\ i.base.k = "reg" /\ const_byte_offset(i) # ANY_OFFSET ->
            [k |-> "offset", dst |-> i.dst, base |-> i.base.r, off |-> const_byte_offset(i)]
      [] i.op = "store" /\ i.ptr.k = "reg" ->
            [k |-> "store", ptr |-> i.ptr.r, value |-> IF i.val.k = "reg" THEN i.val.r ELSE 0]
      [] i.op = "memset" /\ i.ptr.k = "reg" -> [k |-> "mem", dst |-> i.ptr.r]
      [] i.op = "call" -> [k |-> "call", callee |-> i.callee, args |-> i.args]
      [] i.op \in {"store", "memset", "free"} -> [k |-> "clear"]
      [] OTHER -> [k |-> "none"]

eligible(F, cw, params, g, k) ==
    complete(F, g, cw) /\ F.fns[g].params[k].ty = "ptr" /\ <<g, k>> \in DOMAIN params \cup DOMAIN F.declared

(* The fields that the register of an argument provides at a call. *)
FieldsAt(s, arg) ==
    IF arg.k # "reg" \/ arg.r \notin DOMAIN s.defs THEN <<>>
    ELSE [off \in {x[2] : x \in {y \in DOMAIN s.slot : y[1] = arg.r}} |-> s.slot[<<arg.r, off>>]]

Escape(s, roots) ==
    LET e == s.escaped \cup (roots \ {0}) IN [s EXCEPT !.escaped = e, !.slot = Drop(@, e)]

Replay(F, cw, params, s, ev) ==
    CASE ev.k = "offset" /\ ev.base \in DOMAIN s.field_of ->
            [s EXCEPT !.field_of = (ev.dst :> <<@[ev.base][1], @[ev.base][2] + ev.off>>) @@ @]
      [] ev.k = "offset" /\ ev.base \in DOMAIN s.defs \ DOMAIN s.field_of ->
            [s EXCEPT !.field_of = (ev.dst :> <<ev.base, ev.off>>) @@ @]
      [] ev.k = "store" ->
            LET leaked == root_of(s, ev.value)
                t == IF leaked = 0 THEN s ELSE [s EXCEPT !.escaped = @ \cup {leaked}, !.slot = Drop(@, {leaked})]
                target == IF ev.ptr \in DOMAIN s.field_of THEN s.field_of[ev.ptr] ELSE <<ev.ptr, 0>>
            IN  IF ev.ptr \notin DOMAIN s.field_of \cup DOMAIN s.defs THEN [t EXCEPT !.slot = <<>>]
                ELSE IF ev.value \in DOMAIN s.defs THEN [t EXCEPT !.slot = (target :> s.defs[ev.value]) @@ @]
                ELSE [t EXCEPT !.slot = [k \in DOMAIN @ \ {target} |-> @[k]]]
      [] ev.k = "call" ->
            LET g == Resolve(F, ev.callee)
                counted == g # 0 /\ Len(ev.args) = Len(F.fns[g].params)
                given == IF counted THEN {<<g, k, FieldsAt(s, ev.args[k])>> :
                                             k \in {j \in DOMAIN ev.args : eligible(F, cw, params, g, j)}} ELSE {}
                handed == {root_of(s, a.r) : a \in {x \in Range(ev.args) : x.k = "reg"}}
            IN  [Escape(s, handed) EXCEPT !.sites = @ \cup given]
      [] ev.k = "mem" -> IF root_of(s, ev.dst) = 0 THEN [s EXCEPT !.slot = <<>>] ELSE Escape(s, {root_of(s, ev.dst)})
      [] ev.k = "clear" -> [s EXCEPT !.slot = <<>>]
      [] OTHER -> s

(* The offsets present at every one of some sites, each with the weakest guarantee. *)
intersect_site(sites) ==
    LET common == {off \in UNION {DOMAIN m : m \in sites} : \A m \in sites : off \in DOMAIN m}
    IN  [off \in common |-> Weakest({m[off] : m \in sites})]

(* Per <<function, parameter>> the fields that all of the sites given provide. *)
KeptFields(all) ==
    LET Given(key) == {x[3] : x \in {y \in all : <<y[1], y[2]>> = key}}
    IN  [key \in {k \in {<<x[1], x[2]>> : x \in all} : DOMAIN intersect_site(Given(k)) # {}} |-> intersect_site(Given(key))]

FreshBlock(defs) == [defs |-> defs, field_of |-> <<>>, slot |-> <<>>, escaped |-> {}, sites |-> {}]

finalize_fields(F, params, cw) ==
    LET BlockSites(g, b) ==
            FoldLeft(LAMBDA s, i : Replay(F, cw, params, s, FieldEvent(i)),
                     FreshBlock(reconstruct_defs(CallerDefFacts(F.fns[g]), g, F.declared @@ params, FALSE)),
                     F.fns[g].blocks[b].insts).sites
    IN  KeptFields(UNION {UNION {BlockSites(g, b) : b \in DOMAIN F.fns[g].blocks} : g \in DOMAIN F.fns})
=============================================================================
