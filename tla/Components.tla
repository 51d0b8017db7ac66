----------------------------- MODULE Components -----------------------------
(***************************************************************************)
(* Tarjan's strongly connected components with an explicit stack, as the   *)
(* points-to solver (collapse_copy_cycles) and the lock-order check use    *)
(* it.  adj maps each node, a number, to the sequence of its successors.   *)
(***************************************************************************)
EXTENDS Naturals, Sequences, FiniteSets, FiniteSetsExt, SequencesExt, TLC

(* One turn of the loop: the frame on top of dfs is [node, next child]. *)
TarjanStep(adj, s) ==
    LET v  == Last(s.dfs)[1]
        ci == Last(s.dfs)[2]
        depth == Len(s.dfs)
        t  == IF ci > 1 THEN s
              ELSE [s EXCEPT !.index = (v :> s.idx) @@ @, !.low = (v :> s.idx) @@ @,
                             !.idx = @ + 1, !.stack = Append(@, v)]
    IN  IF ci <= Len(adj[v])
        THEN LET w == adj[v][ci]
                 u == [t EXCEPT !.dfs[depth] = <<v, ci + 1>>]
             IN  IF w \notin DOMAIN u.index THEN [u EXCEPT !.dfs = Append(@, <<w, 1>>)]
                 ELSE IF w \in Range(u.stack) THEN [u EXCEPT !.low[v] = Min({@, u.index[w]})]
                 ELSE u
        ELSE LET at == CHOOSE i \in DOMAIN t.stack : t.stack[i] = v
                 popped == IF t.low[v] # t.index[v] THEN t
                           ELSE [t EXCEPT !.stack = SubSeq(@, 1, at - 1),
                                          !.comps = Append(@, {t.stack[i] : i \in at .. Len(t.stack)})]
                 rest == Front(popped.dfs)
             IN  IF rest = <<>> THEN [popped EXCEPT !.dfs = rest]
                 ELSE [popped EXCEPT !.dfs = rest, !.low[Last(rest)[1]] = Min({@, popped.low[v]})]

(* The components, in the order in which their roots finish; starts lists the
   nodes in the order in which the searches begin. *)
Tarjan(adj, starts) ==
    LET edges == FoldLeft(LAMBDA n, v : n + Len(adj[v]) + 1, 0, starts)
        Search(s, v) ==
            IF v \in DOMAIN s.index THEN s
            ELSE LET run[k \in 0 .. edges] ==
                         IF k = 0 THEN [s EXCEPT !.dfs = << <<v, 1>> >>]
                         ELSE LET prev == run[k - 1] IN IF prev.dfs = <<>> THEN prev ELSE TarjanStep(adj, prev)
                 IN  run[edges]
    IN  FoldLeft(Search, [index |-> <<>>, low |-> <<>>, stack |-> <<>>, dfs |-> <<>>,
                          comps |-> <<>>, idx |-> 0], starts).comps

(* The reference: nodes that reach each other. *)
Reaches(adj, v) ==
    LET nodes == DOMAIN adj
        grow[k \in 0 .. Cardinality(nodes)] ==
            IF k = 0 THEN {v} ELSE LET S == grow[k - 1] IN S \cup UNION {Range(adj[w]) : w \in S}
    IN  grow[Cardinality(nodes)]
MutuallyReachable(adj) ==
    LET r == [v \in DOMAIN adj |-> Reaches(adj, v)] @@ <<>>
    IN  {{w \in DOMAIN adj : w \in r[v] /\ v \in r[w]} : v \in DOMAIN adj}

=============================================================================
