------------------------------ MODULE PointsTo ------------------------------
(***************************************************************************)
(* The field-sensitive points-to relation of crates/absint/src/pointsto.rs *)
(* : generation of the constraints module by module, merging of relations  *)
(* built apart, collapse of copy cycles, and the steps of the solver.  A   *)
(* relation b is a record: nodes are 0 .. b.n - 1 with Top = 0, the        *)
(* constraints are sets of pairs <<dst, src>> as in the code (store:       *)
(* <<value, ptr>>), the addresses a list in the order in which the solver  *)
(* is seeded; b.pts maps a node to its points-to set.  b.out is the node   *)
(* that the last node-making operator returned.                            *)
(***************************************************************************)
EXTENDS ProgIR, Components

CONSTANTS MAX_PTS_SET,   \* a larger set is collapsed to {Top}
          MAX_NODES      \* the node budget

Top == 0
None == -1

NewRelation ==
    [n |-> 1, out |-> None, pts |-> (Top :> {}), addr |-> <<>>, copy |-> {}, gep |-> {}, load |-> {},
     store |-> {}, cell |-> <<>>, poisoned |-> {}, saturated |-> {}, pushed |-> <<>>,
     reg_node |-> <<>>, global_obj |-> <<>>, obj_global |-> <<>>, next |-> 0, name_to_gfid |-> <<>>,
     fn_params |-> <<>>, meta |-> <<>>, deferred |-> <<>>, fn_names |-> {}, known |-> {}]

Fresh(b) == [b EXCEPT !.n = @ + 1, !.out = b.n, !.pts = (b.n :> {}) @@ @]

RegNode(b, g, r) ==
    IF <<g, r>> \in DOMAIN b.reg_node THEN [b EXCEPT !.out = b.reg_node[<<g, r>>]]
    ELSE LET c == Fresh(b) IN [c EXCEPT !.reg_node = (<<g, r>> :> c.out) @@ @]

Global(b, name) ==
    IF name \in DOMAIN b.global_obj THEN [b EXCEPT !.out = b.global_obj[name]]
    ELSE LET c == Fresh(b) IN [c EXCEPT !.global_obj = (name :> c.out) @@ @, !.obj_global = (c.out :> name) @@ @]

poison(b, o) ==
    IF o = Top \/ o \in b.poisoned THEN b
    ELSE LET hit == {o} \cup {b.cell[k] : k \in {c \in DOMAIN b.cell : c[1] = o}}
         IN  [b EXCEPT !.poisoned = @ \cup {o},
                       !.pts = [x \in DOMAIN @ |-> IF x \in hit THEN @[x] \cup {Top} ELSE @[x]] @@ <<>>]

(* Offset 0 is the object itself; a field of Top, and a field past the node
   budget, is Top. *)
intern_field(b, o, off) ==
    IF o = Top THEN [b EXCEPT !.out = Top]
    ELSE IF off = ANY_OFFSET THEN [poison(b, o) EXCEPT !.out = Top]
    ELSE IF off = 0 THEN [b EXCEPT !.out = o]
    ELSE IF <<o, off>> \in DOMAIN b.cell THEN [b EXCEPT !.out = b.cell[<<o, off>>]]
    ELSE IF b.n >= MAX_NODES THEN [b EXCEPT !.out = Top]
    ELSE LET c == Fresh(b)
         IN  [c EXCEPT !.cell = (<<o, off>> :> c.out) @@ @,
                       !.pts[c.out] = IF o \in b.poisoned THEN {Top} ELSE {}]

(* The pointer value of an operand: none for a number. *)
operand_ptr(b, g, op) ==
    CASE op.k = "reg" -> RegNode(b, g, op.r)
      [] op.k = "sym" -> LET o == Global(b, op.g)
                             v == Fresh(o)
                         IN  [v EXCEPT !.addr = Append(@, <<v.out, o.out>>)]
      [] OTHER -> [b EXCEPT !.out = None]

poison_through(b, g, op) ==
    LET p == operand_ptr(b, g, op)
        v == Fresh(p)
    IN  IF p.out = None THEN p ELSE [v EXCEPT !.gep = @ \cup {<<v.out, p.out, ANY_OFFSET>>}]

-----------------------------------------------------------------------------
(* push_module: the constraints of one instruction of function g; base is the
   number of functions pushed before the module. *)
Constrain(b, g, base, i) ==
    CASE i.op = "alloc" ->
            LET o == Fresh(b)
                r == RegNode(o, g, i.dst)
            IN  [r EXCEPT !.addr = Append(@, <<r.out, o.out>>)]
      [] i.op = "assign" ->
            LET s == operand_ptr(b, g, i.src)
                r == RegNode(s, g, i.dst)
            IN  IF s.out = None THEN s ELSE [r EXCEPT !.copy = @ \cup {<<r.out, s.out>>}]
      [] i.op = "gep" /\ i.base.k = "reg" ->
            LET s == RegNode(b, g, i.base.r)
                r == RegNode(s, g, i.dst)
            IN  [r EXCEPT !.gep = @ \cup {<<r.out, s.out, const_byte_offset(i)>>}]
      [] i.op = "load" /\ i.ptr.k = "reg" ->
            LET s == RegNode(b, g, i.ptr.r)
                r == RegNode(s, g, i.dst)
            IN  [r EXCEPT !.load = @ \cup {<<r.out, s.out>>}]
      [] i.op = "store" /\ i.ptr.k = "reg" ->
            LET v == operand_ptr(b, g, i.val)
                p == RegNode(v, g, i.ptr.r)
            IN  IF v.out = None THEN v ELSE [p EXCEPT !.store = @ \cup {<<v.out, p.out>>}]
      [] i.op = "memset" -> poison_through(b, g, i.ptr)
      [] i.op = "call" ->
            LET callee == IF i.callee.k = "direct" THEN [i.callee EXCEPT !.id = @ + base] ELSE i.callee
                c == [b EXCEPT !.deferred = Append(@, [caller |-> g, callee |-> callee, args |-> i.args])]
                r == RegNode(c, g, i.dst)
            IN  IF i.dst = 0 THEN c ELSE [r EXCEPT !.addr = Append(@, <<r.out, Top>>)]
      [] OTHER -> b

(* A constant initialiser: the field cell points to the target. *)
global_field_init(b, e) ==
    LET o == Global(b, e[1])
        c == intern_field(o, o.out, e[2])
        t == Global(c, e[3])
    IN  [t EXCEPT !.addr = Append(@, <<c.out, t.out>>), !.known = @ \cup {e[1]}]

push_relation(b, m) ==
    IF b.n >= MAX_NODES THEN b
    ELSE LET base == b.next
             ids  == DOMAIN m.functions
             named == [b EXCEPT
                 !.fn_params = @ \o [i \in ids |-> [k \in DOMAIN m.functions[i].params |-> m.functions[i].params[k].reg]],
                 !.meta = @ \o [i \in ids |-> [name |-> m.functions[i].name, internal |-> i \in m.internal]],
                 !.fn_names = @ \cup {m.functions[i].name : i \in ids},
                 !.name_to_gfid = FirstWins(@, External(m, base))]
             inits == {<<e[1], e[2], m.functions[e[3]].name>> : e \in m.fn_ptrs} \cup m.ptr_fields
             fielded == FoldSet(LAMBDA e, c : global_field_init(c, e), named, inits)
             bodies == FoldLeft(LAMBDA c, i : FoldLeft(LAMBDA x, in : Constrain(x, base + i, base, in), c,
                                                       Insts(m.functions[i])),
                                fielded, [i \in ids |-> i])
         IN  [bodies EXCEPT !.next = @ + Len(m.functions)]

-----------------------------------------------------------------------------
(* merge: the nodes of a relation built over later files are renamed into
   this one; globals meet by name, their cells by offset. *)
Remapped(b, o) ==
    LET cell_of == [c \in {o.cell[k] : k \in DOMAIN o.cell} |-> CHOOSE k \in DOMAIN o.cell : o.cell[k] = c]
        Place(s, x) ==
            LET t == IF x = Top THEN [s.b EXCEPT !.out = Top]
                     ELSE IF x \in DOMAIN cell_of THEN intern_field(s.b, s.to[cell_of[x][1]], cell_of[x][2])
                     ELSE IF x \in DOMAIN o.obj_global THEN Global(s.b, o.obj_global[x])
                     ELSE Fresh(s.b)
            IN  [b |-> t, to |-> (x :> t.out) @@ s.to]
    IN  FoldLeft(Place, [b |-> b, to |-> <<>>], [i \in 1 .. o.n |-> i - 1])

merge_relation(b, o) ==
    IF b.n >= MAX_NODES THEN b
    ELSE LET re  == Remapped(b, o)
             to  == re.to
             off == b.next
             Pair(S) == {<<to[p[1]], to[p[2]]>> : p \in S}
             Each(s) == [i \in DOMAIN s |-> <<to[s[i][1]], to[s[i][2]]>>]
             poisoned == FoldSet(LAMBDA x, c : poison(c, to[x]), re.b, o.poisoned)
         IN  [poisoned EXCEPT
                !.addr = @ \o Each(o.addr), !.copy = @ \cup Pair(o.copy), !.load = @ \cup Pair(o.load),
                !.store = @ \cup Pair(o.store), !.gep = @ \cup {<<to[e[1]], to[e[2]], e[3]>> : e \in o.gep},
                !.reg_node = [k \in Shifted(DOMAIN o.reg_node, off) |-> to[o.reg_node[<<k[1] - off, k[2]>>]]] @@ @,
                !.fn_params = @ \o o.fn_params, !.meta = @ \o o.meta,
                !.name_to_gfid = FirstWins(@, [nm \in DOMAIN o.name_to_gfid |-> o.name_to_gfid[nm] + off]),
                !.fn_names = @ \cup o.fn_names, !.known = @ \cup o.known,
                !.deferred = @ \o [i \in DOMAIN o.deferred |->
                    LET d == [o.deferred[i] EXCEPT !.caller = @ + off]
                    IN  IF d.callee.k = "direct" THEN [d EXCEPT !.callee.id = @ + off] ELSE d],
                !.next = @ + o.next]

-----------------------------------------------------------------------------
(* finalize, up to the solver: poison the globals without an initialiser,
   connect the arguments of the calls, collapse. *)
ResolveDeferred(b, d) ==
    LET target == CASE d.callee.k = "direct" -> d.callee.id
                    [] d.callee.k = "symbol" /\ d.callee.name \in DOMAIN b.name_to_gfid -> b.name_to_gfid[d.callee.name]
                    [] OTHER -> None
        known == target \in DOMAIN b.fn_params
        Bind(c, i) ==
            LET a == operand_ptr(c, d.caller, d.args[i])
                p == RegNode(a, target, b.fn_params[target][i])
            IN  IF i \notin DOMAIN b.fn_params[target] THEN c
                ELSE IF a.out = None THEN a ELSE [p EXCEPT !.copy = @ \cup {<<p.out, a.out>>}]
    IN  FoldLeft(LAMBDA c, i : IF known THEN Bind(c, i) ELSE poison_through(c, d.caller, d.args[i]),
                 b, [i \in DOMAIN d.args |-> i])

ConnectCalls(b) ==
    LET unknown == {b.global_obj[g] : g \in DOMAIN b.global_obj \ b.known}
        poisoned == FoldSet(LAMBDA o, c : poison(c, o), b, unknown)
    IN  [FoldLeft(ResolveDeferred, poisoned, b.deferred) EXCEPT !.deferred = <<>>]

(* Every strongly connected component of the copy graph becomes its smallest
   node, and the survivors are numbered without gaps. *)
CopyAdj(b) ==
    [v \in 0 .. b.n - 1 |-> SetToSortSeq({p[1] : p \in {q \in b.copy : q[2] = v}}, LAMBDA x, y : x < y)] @@ <<>>
Representatives(b, comps) == [v \in 0 .. b.n - 1 |-> Min(CHOOSE c \in comps : v \in c)] @@ <<>>
NewIds(rep) == [v \in DOMAIN rep |-> Cardinality({r \in Range(rep) : r < rep[v]})] @@ <<>>

(* The relation under the new ids; cells that meet are equal to each other. *)
Renamed(b, id) ==
    LET n == Cardinality(Range(id))
        Pair(S) == {<<id[p[1]], id[p[2]]>> : p \in S}
        keys  == {<<id[k[1]], k[2]>> : k \in DOMAIN b.cell}
        Same(key) == {id[b.cell[k]] : k \in {c \in DOMAIN b.cell : <<id[c[1]], c[2]>> = key}}
        equal == UNION {{<<x, y>> : x, y \in Same(key)} : key \in keys}
        Names(x) == {b.obj_global[o] : o \in {p \in DOMAIN b.obj_global : id[p] = x}}
    IN  [b EXCEPT
            !.n = n,
            !.pts = [x \in 0 .. n - 1 |->
                        UNION {{id[t] : t \in b.pts[v]} : v \in {w \in DOMAIN id : id[w] = x}}] @@ <<>>,
            !.poisoned = {id[o] : o \in @},
            !.cell = [key \in keys |-> Min(Same(key))] @@ <<>>,
            !.addr = [i \in DOMAIN @ |-> <<id[@[i][1]], id[@[i][2]]>>], !.load = Pair(@), !.store = Pair(@),
            !.copy = {p \in Pair(@) \cup equal : p[1] # p[2]},
            !.gep = {<<id[e[1]], id[e[2]], e[3]>> : e \in @},
            !.reg_node = [k \in DOMAIN @ |-> id[@[k]]] @@ <<>>,
            !.global_obj = [g \in DOMAIN @ |-> id[@[g]]] @@ <<>>,
            !.obj_global = [x \in {y \in Range(id) : Cardinality(Names(y)) = 1} |-> CHOOSE nm \in Names(x) : TRUE] @@ <<>>]
Collapsed(b, rep) == IF Range(rep) = DOMAIN rep THEN b ELSE Renamed(b, NewIds(rep))
collapse_copy_cycles(b) ==
    Collapsed(b, Representatives(b, Range(Tarjan(CopyAdj(b), [i \in 1 .. b.n |-> i - 1]))))

-----------------------------------------------------------------------------
(* The solver.  b.pushed lists the nodes that a step puts on the worklist. *)
saturate(b, d) ==
    IF Cardinality(b.pts[d]) > MAX_PTS_SET
    THEN [b EXCEPT !.pts[d] = {Top}, !.saturated = @ \cup {d}] ELSE b

MutIncludeAlways(b, d, S) ==
    saturate([b EXCEPT !.pts[d] = @ \cup S, !.pushed = IF d \in Range(@) THEN @ ELSE Append(@, d)], d)
Include(b, d, S) ==
    IF d \in b.saturated \/ S \subseteq b.pts[d] THEN b
    ELSE saturate([b EXCEPT !.pts[d] = @ \cup S, !.pushed = IF d \in Range(@) THEN @ ELSE Append(@, d)], d)

MutAddEdgeLater(b, d, s) == [b EXCEPT !.copy = @ \cup {<<d, s>>}]
AddEdge(b, d, s) == IF <<d, s>> \in b.copy THEN b ELSE Include([b EXCEPT !.copy = @ \cup {<<d, s>>}], d, b.pts[s])

(* Everything that follows from the set of one node. *)
Propagate(b, n) ==
    LET targets == b.pts[n]
        geps   == {e \in b.gep : e[2] = n} \X targets
        loads  == {p \in b.load : p[2] = n} \X targets
        stores == {p \in b.store : p[2] = n} \X targets
        AtGep(e, c) == LET f == intern_field(c, e[2], e[1][3]) IN Include(f, e[1][1], {f.out})
        c1 == FoldSet(AtGep, [b EXCEPT !.pushed = <<>>], geps)
        c2 == FoldSet(LAMBDA e, c : AddEdge(c, e[1][1], e[2]), c1, loads)
        c3 == FoldSet(LAMBDA e, c : AddEdge(c, e[2], e[1][1]), c2, stores)
        copies == {p \in c3.copy : p[2] = n}
    IN  FoldSet(LAMBDA p, c : IF p[1] = n THEN c ELSE Include(c, p[1], c.pts[n]), c3, copies)

(* The seeds: the addresses, then every node that already carries a set. *)
Seed(b) == FoldLeft(LAMBDA c, p : Include(c, p[1], {p[2]}), [b EXCEPT !.pushed = <<>>], b.addr)
Seeds(b) == {n \in DOMAIN b.pts : b.pts[n] # {}}

singleton_object(b, n) ==
    IF Cardinality(b.pts[n]) = 1 /\ Top \notin b.pts[n] THEN CHOOSE o \in b.pts[n] : TRUE ELSE None

(* <<external caller, register>> -> the one function the register points to. *)
name_keyed_devirt(b) ==
    LET target(k) == LET o == singleton_object(b, b.reg_node[k])
                     IN  IF o \in DOMAIN b.obj_global THEN b.obj_global[o] ELSE ""
        found == {k \in DOMAIN b.reg_node : ~b.meta[k[1]].internal /\ target(k) \in b.fn_names}
    IN  [k \in {<<b.meta[f[1]].name, f[2]>> : f \in found} |->
            target(CHOOSE f \in found : <<b.meta[f[1]].name, f[2]>> = k)]

-----------------------------------------------------------------------------
(* Reference: the least solution, by rounds over all the constraints. *)
Round(b) ==
    LET quiet == FoldLeft(LAMBDA c, p : Include(c, p[1], {p[2]}), b, b.addr)
    IN  FoldSet(LAMBDA n, c : Propagate(c, n), quiet, DOMAIN quiet.pts)
RECURSIVE Naive(_)
Naive(b) ==
    LET c == [Round(b) EXCEPT !.out = None, !.pushed = <<>>]
        d == [b EXCEPT !.out = None, !.pushed = <<>>]
    IN  IF c = d THEN c ELSE Naive(c)

(* What a register may point to, in terms that do not depend on the numbering
   of the nodes: the named globals, Top, and how many other objects. *)
View(b) ==
    [k \in DOMAIN b.reg_node |->
        LET S == b.pts[b.reg_node[k]] IN
        [names |-> {b.obj_global[o] : o \in S \cap DOMAIN b.obj_global},
         top |-> Top \in S, others |-> Cardinality(S \ (DOMAIN b.obj_global \cup {Top}))]]
=============================================================================
