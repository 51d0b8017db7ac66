------------------------------- MODULE Mem2Reg -------------------------------
(***************************************************************************)
(* The functions the verifier analyses, and the pass it runs on them first *)
(* (crates/verifier/src/mem2reg.rs): stack slots that cannot be aliased    *)
(* become registers, with a block parameter wherever the stores of two     *)
(* paths meet.                                                             *)
(*                                                                         *)
(* A function is a record [blocks, exported].  A block has params (a       *)
(* sequence of registers), insts, check (the obligation after them:        *)
(* [kind, reg] says reg must be zero, kind "none" that there is none) and  *)
(* term; the cases of a switch are distinct.  Block 1 is the entry and has *)
(* no predecessor.  An operand is a record [reg], [lit] or [undef].  An    *)
(* instruction is an assignment [dst, src, neg], or alloc [dst, ty, count],*)
(* load [dst, ptr, ty], store [ptr, val, ty] with its kind in op.          *)
(***************************************************************************)
EXTENDS Integers, TLC, FlowGraph

Blocks(p) == DOMAIN p.blocks

Targets(term) ==
    CASE term.op = "ret"    -> <<>>
      [] term.op = "br"     -> <<term.to>>
      [] term.op = "condbr" -> <<term.then_blk, term.else_blk>>
      [] term.op = "switch" -> [i \in DOMAIN term.cases |-> term.cases[i].to]
                                   \o <<term.default>>

GraphOf(p) == [node_count |-> Len(p.blocks), entry |-> 1,
               succ |-> [b \in Blocks(p) |-> Targets(p.blocks[b].term)]]

(* The register an instruction defines, if any. *)
DefinedBy(inst) == IF inst.op = "store" THEN {} ELSE {inst.dst}

(* Registers a block defines. *)
Defines(block) == Range(block.params) \cup UNION {DefinedBy(block.insts[i]) : i \in DOMAIN block.insts}

Reg(r) == [reg |-> r]
Undef  == [undef |-> TRUE]

-----------------------------------------------------------------------------
(* Switch edges carry no arguments: an edge from a switch to a block with other
   predecessors gets a block of its own, one for each target of the switch. *)
split_critical_switch_edges(p) ==
    LET pred_count(t) == Cardinality({b \in Blocks(p) : t \in Range(Targets(p.blocks[b].term))})
        Critical(term) == IF term.op # "switch" THEN {}
                          ELSE {t \in Range(Targets(term)) : pred_count(t) > 1}
        Split(acc, b) ==
            LET term == p.blocks[b].term
                First(t) == CHOOSE i \in DOMAIN Targets(term) :
                                Targets(term)[i] = t /\ \A j \in 1 .. i - 1 : Targets(term)[j] # t
                ts   == SetToSortSeq(Critical(term), LAMBDA s, t : First(s) < First(t))
                New(t) == IF t \in Range(ts)
                          THEN Len(acc) + (CHOOSE i \in DOMAIN ts : ts[i] = t) ELSE t
            IN  IF ts = <<>> THEN acc
                ELSE [acc EXCEPT ![b].term =
                         [term EXCEPT !.cases = [i \in DOMAIN @ |-> [@[i] EXCEPT !.to = New(@)]],
                                      !.default = New(@)]]
                     \o [i \in DOMAIN ts |->
                           [params |-> <<>>, insts |-> <<>>, check |-> [kind |-> "none", reg |-> 1],
                            term |-> [op |-> "br", to |-> ts[i], args |-> <<>>]]]
    IN  [p EXCEPT !.blocks = FoldLeft(Split, p.blocks, [b \in Blocks(p) |-> b])]

-----------------------------------------------------------------------------
(* Operands of instructions and terminators. *)
Operands(inst) ==
    CASE inst.op = "assign" -> {inst.src}
      [] inst.op = "load"   -> {inst.ptr}
      [] inst.op = "store"  -> {inst.ptr, inst.val}
      [] OTHER              -> {}

TermOperands(term) ==
    CASE term.op = "ret"    -> {}
      [] term.op = "br"     -> Range(term.args)
      [] term.op = "condbr" -> {Reg(term.cond)} \cup Range(term.then_args) \cup Range(term.else_args)
      [] term.op = "switch" -> {Reg(term.value)}

(* Whether an instruction uses slot a in no other way than as the address of an
   access of the slot's type. *)
PermittedUse(inst, a, ty) ==
    \/ inst.op = "load"  /\ inst.ptr = Reg(a) /\ inst.ty = ty
    \/ inst.op = "store" /\ inst.ptr = Reg(a) /\ inst.ty = ty /\ inst.val # Reg(a)
    \/ Reg(a) \notin Operands(inst)

eligible(p, a, ty) ==
    \A b \in Blocks(p) :
        LET block == p.blocks[b]
        IN  /\ \A i \in DOMAIN block.insts : PermittedUse(block.insts[i], a, ty)
            /\ ~(block.check.kind # "none" /\ block.check.reg = a)
            /\ Reg(a) \notin TermOperands(block.term)

Candidates(p) ==
    UNION {{<<i.dst, i.ty>> : i \in {x \in Range(p.blocks[b].insts) : x.op = "alloc" /\ x.count = 1}} :
             b \in Blocks(p)}

-----------------------------------------------------------------------------
(* The blocks whose dominance frontier b is in: the climbs from its predecessors
   to its immediate dominator. *)
dominance_frontiers(g, idom) ==
    LET Climb(b, p) ==
            Iterate(LAMBDA c : IF c.at = idom[b] THEN c
                               ELSE [at   |-> IF idom[c.at] \in {None, c.at} THEN idom[b] ELSE idom[c.at],
                                     seen |-> c.seen \cup {c.at}],
                    [at |-> p, seen |-> {}], g.node_count).seen
        Under(b) == IF Len(Preds(g, b)) < 2 \/ idom[b] = None THEN {}
                    ELSE UNION {Climb(b, p) : p \in Range(Preds(g, b))}
    IN  [n \in Nodes(g) |-> {b \in Nodes(g) : n \in Under(b)}]

iterated_frontier(defs, df) ==
    Iterate(LAMBDA phis : phis \cup UNION {df[x] : x \in defs \cup phis}, {}, Cardinality(DOMAIN df))

StoresTo(block, a) == \E i \in DOMAIN block.insts : block.insts[i].op = "store" /\ block.insts[i].ptr = Reg(a)

(* Where slot a needs a block parameter. *)
PhiBlocks(p, df, a) == iterated_frontier({b \in Blocks(p) : StoresTo(p.blocks[b], a)}, df)

SwitchConflict(p, g, phis) ==
    \E n \in phis : \E q \in Range(Preds(g, n)) : p.blocks[q].term.op = "switch"

next_reg(p) == 1 + Max({0} \cup UNION {Defines(p.blocks[b]) : b \in Blocks(p)})

-----------------------------------------------------------------------------
(* rewrite_block: loads of a promoted slot become assignments of the value that
   reaches them, its stores and its alloc are dropped. *)
rewrite_block(insts, slots, cur) ==
    FoldLeft(LAMBDA acc, i :
                 CASE i.op = "alloc" /\ i.dst \in slots -> acc
                   [] i.op = "load" /\ \E a \in slots : i.ptr = Reg(a) ->
                        [acc EXCEPT !.insts = Append(@, [op |-> "assign", dst |-> i.dst, neg |-> FALSE,
                                                         src |-> acc.cur[i.ptr.reg]])]
                   [] i.op = "store" /\ \E a \in slots : i.ptr = Reg(a) ->
                        [acc EXCEPT !.cur[i.ptr.reg] = i.val]
                   [] OTHER -> [acc EXCEPT !.insts = Append(@, i)],
             [insts |-> <<>>, cur |-> cur], insts)

(* append_phi_args: the edge to t passes, for the parameters t has gained, the
   values cur of the slots at[t]. *)
append_phi_args(term, at, cur) ==
    LET Gained(t) == [i \in DOMAIN at[t] |-> cur[at[t][i]]]
    IN  CASE term.op = "br"     -> [term EXCEPT !.args = @ \o Gained(term.to)]
          [] term.op = "condbr" -> [term EXCEPT !.then_args = @ \o Gained(term.then_blk),
                                                !.else_args = @ \o Gained(term.else_blk)]
          [] OTHER              -> term

(* F(x), with x evaluated once. *)
Given(x, F(_)) == CHOOSE y \in {F(v) : v \in {x}} : TRUE

(* What promote_function decides before it rewrites: the blocks where each slot
   needs a parameter, for the slots that can be promoted. *)
PhiSites(p, g, idom) ==
    LET Places(df) ==
            [c \in {x \in Candidates(p) : eligible(p, x[1], x[2])} |-> PhiBlocks(p, df, c[1])]
        Kept(places) ==
            LET ok == {c \in DOMAIN places : ~SwitchConflict(p, g, places[c])}
            IN  [a \in {c[1] : c \in ok} |-> UNION {places[c] : c \in {d \in ok : d[1] = a}}]
    IN  Given(Given(dominance_frontiers(g, idom), Places), Kept)

(* The rewritten function, with the register phi[<<n, a>>] that holds slot a on
   entry to block n.  A block starts from the values its immediate dominator ends
   with, which is rewritten before it. *)
Rewritten(p, g, idom, places) ==
    LET slots == DOMAIN places
        first == next_reg(p)
        at    == [n \in Blocks(p) |-> SetToSortSeq({a \in slots : n \in places[a]}, <)]
        sites == {<<n, a>> \in Blocks(p) \X slots : n \in places[a]}
        Before(s, t) == s[2] < t[2] \/ (s[2] = t[2] /\ s[1] < t[1])
        phi   == [s \in sites |-> first + Cardinality({t \in sites : Before(t, s)})]
        Rewrite(acc, n) ==
            LET block  == p.blocks[n]
                in     == [a \in slots |-> IF n \in places[a] THEN Reg(phi[<<n, a>>])
                                           ELSE IF n = g.entry THEN Undef ELSE acc.out[idom[n]][a]]
                With(body) ==
                    [out    |-> (n :> body.cur) @@ acc.out,
                     blocks |-> [acc.blocks EXCEPT ![n] =
                         [block EXCEPT !.params = @ \o [i \in DOMAIN at[n] |-> phi[<<n, at[n][i]>>]],
                                       !.insts  = body.insts,
                                       !.term   = append_phi_args(@, at, body.cur)]]]
            IN  Given(rewrite_block(block.insts, slots, in), With)
    IN  [exported |-> p.exported, phi |-> phi,
         blocks   |-> FoldLeft(Rewrite, [out |-> <<>>, blocks |-> p.blocks], reverse_postorder(g)).blocks]

promote_function(source) ==
    LET Tree(p)     == [p |-> p, g |-> GraphOf(p), idom |-> DomTree(GraphOf(p))]
        Promoted(t) ==
            LET WithPlaces(places) == Rewritten(t.p, t.g, t.idom, places)
            IN  Given(PhiSites(t.p, t.g, t.idom), WithPlaces)
    IN  Given(Given(split_critical_switch_edges(source), Tree), Promoted)
=============================================================================
