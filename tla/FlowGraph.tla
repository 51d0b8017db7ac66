------------------------------ MODULE FlowGraph ------------------------------
(***************************************************************************)
(* The control-flow analysis of crates/cfg: the graph of a function with   *)
(* its reverse postorder, its dominator tree (Cooper, Harvey, Kennedy) and *)
(* its natural loops.  A graph g is a record [node_count, entry, succ];    *)
(* its nodes are 1 .. node_count, g.succ[n] lists n's successors in the    *)
(* order of its terminator.                                                *)
(***************************************************************************)
EXTENDS Naturals, Sequences, FiniteSets, SequencesExt

Nodes(g) == 1 .. g.node_count

(* The absent immediate dominator. *)
None == 0

(* F applied n times to x: a loop of the code whose body leaves its final
   state unchanged, with n large enough to reach it. *)
Iterate(F(_), x, n) ==
    LET after[k \in 0 .. n] == IF k = 0 THEN x ELSE F(after[k - 1])
    IN  after[n]

(* Predecessors in the order in which from_function pushes them, an edge that
   occurs twice pushed twice. *)
Preds(g, b) ==
    FlattenSeq([n \in Nodes(g) |->
        [k \in 1 .. Cardinality({i \in DOMAIN g.succ[n] : g.succ[n][i] = b}) |-> n]])

-----------------------------------------------------------------------------
(* Depth-first search with an explicit stack of [node, next successor]. *)
DfsStep(g, s) ==
    IF s.stack = <<>> THEN s
    ELSE LET depth == Len(s.stack)
             node  == s.stack[depth][1]
             nxt   == s.stack[depth][2]
         IN  IF nxt <= Len(g.succ[node])
             THEN LET t      == g.succ[node][nxt]
                      bumped == [s.stack EXCEPT ![depth] = <<node, nxt + 1>>]
                  IN  IF t \in s.visited
                      THEN [stack |-> bumped, visited |-> s.visited, order |-> s.order]
                      ELSE [stack |-> Append(bumped, <<t, 1>>), visited |-> s.visited \cup {t},
                            order |-> s.order]
             ELSE [stack |-> Front(s.stack), visited |-> s.visited, order |-> Append(s.order, node)]

Edges(g) == UNION {{<<n, g.succ[n][i]>> : i \in DOMAIN g.succ[n]} : n \in Nodes(g)}

postorder(g) ==
    Iterate(LAMBDA s : DfsStep(g, s),
            [stack |-> << <<g.entry, 1>> >>, visited |-> {g.entry}, order |-> <<>>],
            2 * g.node_count + Len(FlattenSeq(g.succ))).order

reverse_postorder(g) == Reverse(postorder(g))

-----------------------------------------------------------------------------
(* Position of every node in the postorder; nodes outside it are never asked. *)
PostNum(post) == [n \in Range(post) |-> CHOOSE i \in DOMAIN post : post[i] = n]

(* The finger walk: the node with the smaller postorder number climbs. *)
intersect(a, b, idom, post_num) ==
    Iterate(LAMBDA p : IF p[1] = p[2] THEN p
                       ELSE IF post_num[p[1]] < post_num[p[2]]
                            THEN <<idom[p[1]], p[2]>>
                            ELSE <<p[1], idom[p[2]]>>,
            <<a, b>>, 2 * Cardinality(DOMAIN post_num))[1]

(* Wrong variant: the first predecessor is taken for the immediate dominator. *)
MutUpdateIdomFirst(g, post_num, idom, b) ==
    LET known == SelectSeq(Preds(g, b), LAMBDA p : idom[p] # None)
    IN  IF b = g.entry \/ known = <<>> THEN idom ELSE [idom EXCEPT ![b] = Head(known)]

(* One node of a pass: the intersection of its predecessors that have an
   immediate dominator already. *)
UpdateIdom(g, post_num, idom, b) ==
    LET known == SelectSeq(Preds(g, b), LAMBDA p : idom[p] # None)
    IN  IF b = g.entry \/ known = <<>> THEN idom
        ELSE [idom EXCEPT ![b] =
                 FoldLeft(LAMBDA cur, p : intersect(p, cur, idom, post_num),
                          Head(known), Tail(known))]

(* DomTree::build: passes in reverse postorder until nothing changes, which
   takes at most one pass for every edge against that order, and one more. *)
DomTree(g) ==
    LET post     == postorder(g)
        post_num == PostNum(post)
        Against  == {e \in Edges(g) : {e[1], e[2]} \subseteq Range(post)
                                       /\ post_num[e[1]] <= post_num[e[2]]}
        Pass(idom) == FoldLeft(LAMBDA acc, b : UpdateIdom(g, post_num, acc, b),
                               idom, Reverse(post))
    IN  Iterate(Pass, [n \in Nodes(g) |-> IF n = g.entry THEN n ELSE None],
                Cardinality(Against) + 1)

(* dominates(a, b): the climb from b meets a before it reaches the root. *)
dominates(idom, a, b) ==
    /\ idom[b] # None
    /\ LET chain[k \in 0 .. Cardinality(DOMAIN idom)] ==
               IF k = 0 THEN b ELSE idom[chain[k - 1]]
       IN  \E k \in DOMAIN chain : chain[k] = a

-----------------------------------------------------------------------------
(* Loops::detect: a back edge is n -> h with h dominating n. *)
Latches(g, idom, h) ==
    {n \in Nodes(g) : h \in Range(g.succ[n]) /\ dominates(idom, h, n)}

Headers(g, idom) == {h \in Nodes(g) : Latches(g, idom, h) # {}}

(* Reverse reachability from the latches that stops at the header. *)
natural_loop_body(g, h, latches) ==
    Iterate(LAMBDA body : body \cup UNION {Range(Preds(g, m)) : m \in body \ {h}},
            {h} \cup latches, g.node_count)

=============================================================================
