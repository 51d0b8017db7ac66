---------------------------- MODULE LinkedFacts ----------------------------
(***************************************************************************)
(* What whole-program fact extraction promises: the facts of the program   *)
(* as a linker would see it, all files in order as one module, extracted   *)
(* in one step by the passes that read a linked module.  Streaming         *)
(* (StreamFacts) is to implement this; where the code's two pipelines      *)
(* differ, the difference is named below and left open.                    *)
(***************************************************************************)
EXTENDS CallFacts, PointsTo

CONSTANTS Programs,      \* sequences of files, each [ok, module]
          Modes          \* records [closed_world, avp]

VARIABLES program, mode, facts

NoFacts == [k |-> "none"]

(* Files that cannot be read or lowered are left out. *)
Lowered(files) == LET ok == SelectSeq(files, LAMBDA f : f.ok) IN [i \in DOMAIN ok |-> ok[i].module]

(* One module seen as facts: after linking every call that can be resolved is direct. *)
ModuleFacts(m) ==
    [fns |-> m.functions, internal |-> m.internal, name_to_id |-> <<>>, escaped |-> address_taken_names(m),
     declared |-> m.contracts, mmio |-> m.mmio, evidence |-> m.evidence, load_sites |-> m.load_sites]

(* The least solution of the whole program's constraints, nothing collapsed. *)
LinkedRelation(mods) == Naive(ConnectCalls(push_relation(NewRelation, merge_modules(mods))))

-----------------------------------------------------------------------------
(* summarize_module: a function writes or frees what it reaches through calls
   does, or an opaque call may do. *)
DirectCalls(F, g) == SelectSeq(Observable(F.fns[g]), LAMBDA i : i.callee.k = "direct")
Reached(F, g) ==
    Repeat(LAMBDA S : S \cup UNION {{i.callee.id : i \in Range(DirectCalls(F, h))} : h \in S}, {g}, Len(F.fns))
Opaquely(F, g) ==
    \E i \in Range(Observable(F.fns[g])) : i.callee.k = "indirect" \/ (i.callee.k = "symbol" /\ i.callee.name # NoMem)

(* The parameter of g that argument k of a call is derived from, or 0. *)
Handed(F, g, i, k) ==
    LET of == ptr_param_of(F.fns[g])
    IN  IF k \in DOMAIN i.args /\ i.args[k].k = "reg" /\ i.args[k].r \in DOMAIN of THEN of[i.args[k].r] ELSE 0

(* Provenance: what a callee does to its parameters it does to those handed on. *)
ProvRound(F, S) ==
    [g \in DOMAIN S |->
        LET From(i) == S[i.callee.id]
            calls == Range(DirectCalls(F, g))
        IN  [S[g] EXCEPT
                !.transfers = @ \cup {t \in UNION {{<<Handed(F, g, i, t[1]), Handed(F, g, i, t[2])>> : t \in From(i).transfers} :
                                                      i \in calls} : 0 \notin {t[1], t[2]}},
                !.labels = @ \cup (UNION {{Handed(F, g, i, a) : a \in From(i).labels} : i \in calls} \ {0})]] @@ <<>>

(* Reference counts add up along calls, from the functions' own counts each round. *)
REFCOUNT_ROUNDS == 8
CountRound(F, own, R) ==
    [g \in DOMAIN own |->
        [p \in DOMAIN own[g].refcount |->
            FoldLeft(LAMBDA n, i : n + FoldSet(LAMBDA k, m : m + R[i.callee.id][k], 0,
                                               {k \in DOMAIN R[i.callee.id] : Handed(F, g, i, k) = p}),
                     own[g].refcount[p], DirectCalls(F, g))]] @@ <<>>

(* The result of a call returned as it is stands for what the callee returns. *)
ReturnRound(F, S) ==
    [g \in DOMAIN S |->
        LET i == Observable(F.fns[g])[S[g].ret.at]
        IN  IF S[g].ret.k = "call" /\ i.callee.k = "direct" /\ composes_through_wrapper(S[i.callee.id].ret)
            THEN [S[g] EXCEPT !.ret = S[i.callee.id].ret] ELSE S[g]] @@ <<>>

summarize_module(F) ==
    LET own == [g \in DOMAIN F.fns |-> summarize_fn(F.fns[g])] @@ <<>>
        n   == Len(F.fns)
        prov   == Repeat(LAMBDA S : ProvRound(F, S), own, 2 * n)
        counts == Repeat(LAMBDA R : CountRound(F, own, R), [g \in DOMAIN own |-> own[g].refcount], REFCOUNT_ROUNDS)
        ret    == CallsUnknown(Repeat(LAMBDA S : ReturnRound(F, S), own, n))
    IN  [g \in DOMAIN own |->
            [prov[g] EXCEPT !.writes = \E h \in Reached(F, g) : own[h].writes \/ Opaquely(F, h),
                            !.frees  = \E h \in Reached(F, g) : own[h].frees \/ Opaquely(F, h),
                            !.refcount = counts[g], !.ret = ret[g].ret]] @@ <<>>

-----------------------------------------------------------------------------
(* local_defs: the guarantees of a body's registers, read off the body. *)
SeedDefs(f, g, known, avp) ==
    LET params == {k \in DOMAIN f.params : <<g, k>> \in DOMAIN known}
        allocs == {i \in Range(Insts(f)) : i.op = "alloc" /\ i.size > 0}
        alloc  == [r \in {i.dst : i \in allocs} |-> Region((CHOOSE i \in allocs : i.dst = r).size)]
        param  == [r \in {f.params[k].reg : k \in params} |->
                      known[<<g, CHOOSE k \in params : f.params[k].reg = r>>]]
        hint   == IF avp THEN [r \in DOMAIN f.hints |-> Region(f.hints[r])] ELSE <<>>
    IN  alloc @@ param @@ hint
local_defs(f, g, known, avp) ==
    LET insts  == Range(Insts(f))
        Fits(defs, i) == /\ i.op = "gep" /\ i.base.k = "reg" /\ const_byte_offset(i) # ANY_OFFSET
                         /\ i.base.r \in DOMAIN defs /\ i.dst \notin DOMAIN defs
                         /\ const_byte_offset(i) <= defs[i.base.r].size
    IN  Repeat(LAMBDA defs : LET new == {i \in insts : Fits(defs, i)}
                             IN  defs @@ [r \in {i.dst : i \in new} |->
                                     LET i == CHOOSE j \in new : j.dst = r IN RegionAt(defs[i.base.r], const_byte_offset(i))],
               SeedDefs(f, g, known, avp), Len(Insts(f)))

(* The calls of the program in order: [caller, block, inst]. *)
CallsInOrder(F) ==
    FlattenSeq([g \in DOMAIN F.fns |-> FlattenSeq([b \in DOMAIN F.fns[g].blocks |->
        LET calls == SelectSeq(F.fns[g].blocks[b].insts, LAMBDA i : i.op = "call")
        IN  [k \in DOMAIN calls |-> [caller |-> g, block |-> b, inst |-> calls[k]]]])])

(* The passes fold the sites as they come: a parameter that once saw a site that
   gives Nothing is out for good. *)
FoldSites(F, cands, Site(_, _), Meet(_, _)) ==
    LET Note(acc, key, s) ==
            IF key \notin cands THEN acc
            ELSE IF key \notin DOMAIN acc THEN (key :> s) @@ acc
            ELSE (key :> IF acc[key] = Nothing \/ s = Nothing THEN Nothing ELSE Meet(acc[key], s)) @@ acc
        AtCall(acc, c) ==
            LET g == Resolve(F, c.inst.callee)
                params == IF g = 0 THEN <<>> ELSE F.fns[g].params
            IN  FoldLeft(LAMBDA a, k : Note(a, <<g, k>>, IF Len(c.inst.args) # Len(params) THEN Nothing
                                                         ELSE Site(c, c.inst.args[k])),
                         acc, [k \in DOMAIN params |-> k])
        folded == FoldLeft(AtCall, <<>>, CallsInOrder(F))
    IN  [key \in {k \in DOMAIN folded : folded[k] # Nothing} |-> folded[key]]

synthesize_scalars(F, cw) ==
    FoldSites(F, Candidates(F, cw, "int"),
              LAMBDA c, arg : IF arg.k = "reg" /\ arg.r = mmio_size_reg(F.mmio, F.fns[c.caller]) THEN Dispatched
                              ELSE arg_interval(F.fns[c.caller], c.block, arg),
              LAMBDA a, b : [lo |-> Min({a.lo, b.lo}), hi |-> Max({a.hi, b.hi})])

synthesize_round(F, prior, md) ==
    LET known == F.declared @@ prior
        defs  == [g \in DOMAIN F.fns |-> local_defs(F.fns[g], g, known, md.avp)] @@ <<>>
    IN  FoldSites(F, Candidates(F, md.closed_world, "ptr") \ DOMAIN known,
                  LAMBDA c, arg : derive_site(arg, defs[c.caller]),
                  LAMBDA a, b : [size |-> Min({a.size, b.size}), align |-> Min({a.align, b.align}),
                                 writable |-> a.writable /\ b.writable])
synthesize(F, md) ==
    Repeat(LAMBDA acc : acc @@ synthesize_round(F, acc, md), <<>>, Cardinality(Candidates(F, md.closed_world, "ptr")) + 1)

(* One instruction of a block of the caller, for the fields that hold a pointer. *)
FieldStep(F, cw, params, s, i) ==
    LET reg(op)  == IF op.k = "reg" THEN op.r ELSE 0
        root(op) == root_of(s, reg(op))
        tracked(r) == r \in DOMAIN s.field_of \cup DOMAIN s.defs
        place(r) == IF r \in DOMAIN s.field_of THEN s.field_of[r] ELSE <<r, 0>>
        g == Resolve(F, i.callee)
    IN
    CASE i.op = "gep" ->
            IF const_byte_offset(i) = ANY_OFFSET \/ ~tracked(reg(i.base)) THEN s
            ELSE [s EXCEPT !.field_of =
                    (i.dst :> <<place(reg(i.base))[1], place(reg(i.base))[2] + const_byte_offset(i)>>) @@ @]
      [] i.op = "store" /\ tracked(reg(i.ptr)) ->
            LET at == place(reg(i.ptr))
                kept == Drop(s.slot, {root(i.val)})
                clear == [k \in DOMAIN kept \ {at} |-> kept[k]]
            IN  [s EXCEPT !.escaped = @ \cup ({root(i.val)} \ {0}),
                          !.slot = IF reg(i.val) \in DOMAIN s.defs THEN (at :> s.defs[reg(i.val)]) @@ clear ELSE clear]
      [] i.op = "store" -> [s EXCEPT !.escaped = IF reg(i.ptr) = 0 THEN @ ELSE @ \cup ({root(i.val)} \ {0}), !.slot = <<>>]
      [] i.op = "call" ->
            LET given == IF g = 0 \/ Len(i.args) # Len(F.fns[g].params) THEN {}
                         ELSE {<<g, k, FieldsAt(s, i.args[k])>> : k \in {j \in DOMAIN i.args : eligible(F, cw, params, g, j)}}
            IN  [Escape(s, {root(a) : a \in Range(i.args)}) EXCEPT !.sites = @ \cup given]
      [] i.op = "memset" /\ root(i.ptr) # 0 -> Escape(s, {root(i.ptr)})
      [] i.op \in {"memset", "free"} -> [s EXCEPT !.slot = <<>>]
      [] OTHER -> s

synthesize_fields(F, params, cw) ==
    LET Walk(g, b) ==
            FoldLeft(LAMBDA s, i : FieldStep(F, cw, params, s, i),
                     FreshBlock(local_defs(F.fns[g], g, F.declared @@ params, FALSE)), F.fns[g].blocks[b].insts).sites
    IN  KeptFields(UNION {UNION {Walk(g, b) : b \in DOMAIN F.fns[g].blocks} : g \in DOMAIN F.fns})

-----------------------------------------------------------------------------
(* The modules seen as facts without linking them: ids are those the linker would
   give, a call by name is looked up in its plan. *)
SeparateFacts(mods) ==
    LET Place(mi) == Offset(mods, mi)
        Body(mi)  == [fi \in DOMAIN mods[mi].functions |->
                         [mods[mi].functions[fi] EXCEPT !.blocks =
                             [b \in DOMAIN @ |-> [@[b] EXCEPT !.insts = [k \in DOMAIN @ |-> LinkCall(@[k], Place(mi), <<>>)]]]]]
    IN  [fns |-> FlattenSeq([mi \in DOMAIN mods |-> Body(mi)]), name_to_id |-> merge_id_plan(mods),
         internal |-> UNION {{i + Place(mi) : i \in mods[mi].internal} : mi \in DOMAIN mods},
         escaped |-> UNION {address_taken_names(mods[mi]) : mi \in DOMAIN mods},
         declared |-> FoldLeft(LAMBDA acc, mi : ShiftKeys(mods[mi].contracts, Place(mi)) @@ acc, <<>>, [i \in DOMAIN mods |-> i])]

(* The passes over the separate modules; each is documented to give the map of
   its counterpart on the linked module. *)
synthesize_program(mods, md) == synthesize(SeparateFacts(mods), md)
synthesize_fields_program(mods, params, md) == synthesize_fields(SeparateFacts(mods), params, md.closed_world)

(* The load sites of the external functions, by name. *)
LoadSitesByName(F) ==
    LET ext  == {k \in DOMAIN F.load_sites : k[1] \notin F.internal}
        Key(k) == <<F.fns[k[1]].name, k[2]>>
    IN  [x \in {Key(k) : k \in ext} |->
            F.load_sites[CHOOSE k \in ext : Key(k) = x /\ \A j \in ext : Key(j) = x => k[1] <= j[1]]]

Linked(files, md) ==
    LET mods == Lowered(files)
        F    == ModuleFacts(merge_modules(mods))
        ptrs == synthesize(F, md)
    IN  [summaries |-> summarize_module(F), scalars |-> synthesize_scalars(F, md.closed_world), ptrs |-> ptrs,
         fields |-> synthesize_fields(F, ptrs, md.closed_world),
         field_types |-> IF md.closed_world THEN F.evidence ELSE <<>>,
         field_load_sites |-> IF md.closed_world THEN LoadSitesByName(F) ELSE <<>>,
         names |-> merge_id_plan(mods), mmio |-> F.mmio,
         devirt |-> IF md.closed_world THEN name_keyed_devirt(LinkedRelation(mods)) ELSE <<>>]

-----------------------------------------------------------------------------
(* Where the streamed facts need not be those of the linked module, although
   wholeprog.rs:8-10 says "bit-identical":
   - module.rs:111-150 adds up the reference counts of callees, the streamed
     summary (summary/facts.rs:118-245) has a function's own counts only;
   - a handler registered in another file than the one that defines it
     (scalars.rs:190-194 looks in the same file, 85-89 in the merged map);
   - a handler registered by two files (wholeprog.rs:65-67 keeps the first,
     func.rs:572-574 the last);
   - a register that the points-to solution leaves open: see SolvedExact. *)
CountsOfCallees(F, S, g) ==
    \E i \in Range(DirectCalls(F, g)) : \E k \in DOMAIN S[i.callee.id].refcount :
        S[i.callee.id].refcount[k] # 0 /\ Handed(F, g, i, k) # 0
FileOf(mods, g) == CHOOSE mi \in DOMAIN mods : g > Offset(mods, mi) /\ g <= Offset(mods, mi) + Len(mods[mi].functions)
ForeignHandler(F, mods, g) == mmio_size_reg(F.mmio, F.fns[g]) # mmio_size_reg(mods[FileOf(mods, g)].mmio, F.fns[g])
ForeignRanges(F, mods) ==
    UNION {{<<c.inst.callee.id, k>> : k \in DOMAIN c.inst.args} :
              c \in {x \in Range(CallsInOrder(F)) : x.inst.callee.k = "direct" /\ ForeignHandler(F, mods, x.caller)}}
RegisteredTwice(mods) ==
    UNION {{h \in DOMAIN mods[i].mmio \cap DOMAIN mods[j].mmio : mods[i].mmio[h] # mods[j].mmio[h]} : i, j \in DOMAIN mods}
LeftOpen(b) == {<<b.meta[k[1]].name, k[2]>> : k \in {r \in DOMAIN b.reg_node : Top \in b.pts[b.reg_node[r]]}}

Agree(a, b, except) ==
    /\ DOMAIN a \ except = DOMAIN b \ except
    /\ \A k \in DOMAIN a \ except : a[k] = b[k]

Init == program \in Programs /\ mode \in Modes /\ facts = NoFacts
Extract ==
    /\ facts = NoFacts /\ facts' # NoFacts
    /\ LET L == Linked(program, mode)
           mods == Lowered(program)
           F == ModuleFacts(merge_modules(mods))
       IN  /\ \A part \in {"ptrs", "fields", "field_types", "field_load_sites", "names"} : facts'[part] = L[part]
           /\ DOMAIN facts'.summaries = DOMAIN L.summaries
           /\ \A g \in DOMAIN L.summaries :
                 Agree(facts'.summaries[g], L.summaries[g], IF CountsOfCallees(F, L.summaries, g) THEN {"refcount"} ELSE {})
           /\ Agree(facts'.scalars, L.scalars, ForeignRanges(F, mods))
           /\ Agree(facts'.mmio, L.mmio, RegisteredTwice(mods))
           /\ Agree(facts'.devirt, L.devirt, IF mode.closed_world THEN LeftOpen(LinkedRelation(mods)) ELSE {})
    /\ UNCHANGED <<program, mode>>
Next == Extract
Spec == Init /\ [][Next]_<<program, mode, facts>>
=============================================================================
