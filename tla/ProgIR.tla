------------------------------- MODULE ProgIR -------------------------------
(***************************************************************************)
(* The part of MSIR that the whole-program passes read, and linking        *)
(* (crates/ir/src/func.rs).  A module m is a record                        *)
(*   functions : a sequence of [name, params, blocks]                      *)
(*   internal  : the indices of the functions with internal linkage        *)
(*   fn_ptrs   : constant initialisers <<global, offset, function index>>  *)
(*   ptr_fields: constant initialisers <<global, offset, global>>          *)
(*   contracts : <<function, parameter>> -> declared pointer contract      *)
(*   evidence  : <<struct, offset>> -> [size, pointee]                     *)
(*   load_sites: <<function, register>> -> <<struct, offset>> it is loaded from *)
(*   mmio      : handler name -> index of its size parameter               *)
(* A function's id is its index; a parameter is [reg, ty].  A block is     *)
(* [params, insts, term] with term "ret" (val), "br" (a sequence of        *)
(* [to, args], one of which is taken) or "unreachable".                    *)
(***************************************************************************)
EXTENDS Integers, Sequences, FiniteSets, FiniteSetsExt, SequencesExt, TLC

Absent  == [k |-> "absent"]
Reg(r)  == [k |-> "reg", r |-> r]
Num(v)  == [k |-> "int", v |-> v]
Sym(g)  == [k |-> "sym", g |-> g]

(* The reserved offset of an access whose offset is not a constant. *)
ANY_OFFSET == -1

(* F applied n times to x: a loop of the code that runs until nothing changes,
   with n large enough to get there. *)
Repeat(F(_), x, n) ==
    LET after[k \in 0 .. n] == IF k = 0 THEN x ELSE F(after[k - 1]) IN after[n]

(* gep: the byte offset, when the index is a constant. *)
const_byte_offset(i) == IF i.idx.k = "int" THEN i.idx.v ELSE ANY_OFFSET

Insts(f) == FlattenSeq([i \in DOMAIN f.blocks |-> f.blocks[i].insts])

(* The calls a caller can observe: a block that ends in unreachable never
   comes back. *)
Observable(f) == SelectSeq(FlattenSeq([i \in DOMAIN f.blocks |->
                     IF f.blocks[i].term.op = "unreachable" THEN <<>> ELSE f.blocks[i].insts]),
                     LAMBDA i : i.op = "call")

(* The operands of an instruction in which an address can be taken. *)
Operands(i) ==
    CASE i.op = "store"  -> {i.ptr, i.val}
      [] i.op = "assign" -> {i.src}
      [] i.op = "add"    -> {i.a, i.b}
      [] i.op = "gep"    -> {i.base, i.idx}
      [] i.op \in {"load", "memset", "free", "refcount", "label"} -> {i.ptr}
      [] i.op = "propagate" -> {i.ptr, i.src}
      [] i.op = "call"   -> Range(i.args)
      [] OTHER           -> {}
TermOperands(t) ==
    CASE t.op = "ret" -> {t.val}
      [] t.op = "br"  -> UNION {Range(t.to[k].args) : k \in DOMAIN t.to}
      [] OTHER        -> {}
address_taken_names(m) ==
    {o.g : o \in {x \in UNION {UNION {Operands(i) : i \in Range(Insts(f))}
                                \cup UNION {TermOperands(b.term) : b \in Range(f.blocks)}
                                : f \in Range(m.functions)} : x.k = "sym"}}

defined_reg(i) == IF "dst" \in DOMAIN i THEN i.dst ELSE 0

-----------------------------------------------------------------------------
(* Linking: ids are given module by module, the first external definition of
   a name wins. *)
Offset(mods, mi) == FoldLeft(LAMBDA n, m : n + Len(m.functions), 0, SubSeq(mods, 1, mi - 1))

FirstWins(old, new) == old @@ new

External(m, base) ==
    LET ext(name) == {i \in DOMAIN m.functions : i \notin m.internal /\ m.functions[i].name = name}
        names == {m.functions[i].name : i \in DOMAIN m.functions \ m.internal}
    IN  [n \in names |-> base + Min(ext(n))]

merge_id_plan(mods) ==
    FoldLeft(LAMBDA acc, mi : FirstWins(acc, External(mods[mi], Offset(mods, mi))), <<>>,
             [i \in DOMAIN mods |-> i])

(* Two observations of one field agree, or the field is poisoned (size 0). *)
merge_field_evidence(map, new) ==
    [k \in DOMAIN map \cup DOMAIN new |->
        IF k \notin DOMAIN map THEN new[k]
        ELSE IF k \notin DOMAIN new \/ map[k].size = 0 THEN map[k]
        ELSE IF map[k].size # new[k].size \/ new[k].size = 0 THEN [size |-> 0, pointee |-> ""]
        ELSE IF map[k].pointee # new[k].pointee THEN [map[k] EXCEPT !.pointee = ""]
        ELSE map[k]]

LinkCall(i, base, plan) ==
    IF i.op # "call" THEN i
    ELSE CASE i.callee.k = "direct" -> [i EXCEPT !.callee.id = @ + base]
           [] i.callee.k = "symbol" /\ i.callee.name \in DOMAIN plan ->
                  [i EXCEPT !.callee = [k |-> "direct", id |-> plan[i.callee.name]]]
           [] OTHER -> i

Shifted(pairs, base) == {<<p[1] + base, p[2]>> : p \in pairs}
ShiftKeys(map, base) == [p \in Shifted(DOMAIN map, base) |-> map[<<p[1] - base, p[2]>>]]

merge_modules(mods) ==
    LET plan == merge_id_plan(mods)
        Place(mi) == Offset(mods, mi)
        Move(mi)  == [fi \in DOMAIN mods[mi].functions |->
                        [mods[mi].functions[fi] EXCEPT !.blocks =
                            [b \in DOMAIN @ |-> [@[b] EXCEPT !.insts =
                                [k \in DOMAIN @ |-> LinkCall(@[k], Place(mi), plan)]]]]]
        First(mi, T(_)) == {e \in T(mods[mi]) : \A mj \in 1 .. mi - 1 : \A d \in T(mods[mj]) : d[1] # e[1]}
        Over(F(_), op(_, _), base) == FoldLeft(LAMBDA a, mi : op(a, F(mi)), base, [i \in DOMAIN mods |-> i])
    IN  [functions  |-> FlattenSeq([mi \in DOMAIN mods |-> Move(mi)]),
         internal   |-> UNION {{i + Place(mi) : i \in mods[mi].internal} : mi \in DOMAIN mods},
         fn_ptrs    |-> UNION {{<<e[1], e[2], e[3] + Place(mi)>> : e \in First(mi, LAMBDA m : m.fn_ptrs)} : mi \in DOMAIN mods},
         ptr_fields |-> UNION {First(mi, LAMBDA m : m.ptr_fields) : mi \in DOMAIN mods},
         contracts  |-> Over(LAMBDA mi : ShiftKeys(mods[mi].contracts, Place(mi)), LAMBDA a, b : b @@ a, <<>>),
         load_sites |-> Over(LAMBDA mi : ShiftKeys(mods[mi].load_sites, Place(mi)), LAMBDA a, b : b @@ a, <<>>),
         evidence   |-> Over(LAMBDA mi : mods[mi].evidence, merge_field_evidence, <<>>),
         mmio       |-> Over(LAMBDA mi : mods[mi].mmio, LAMBDA a, b : b @@ a, <<>>)]
=============================================================================
