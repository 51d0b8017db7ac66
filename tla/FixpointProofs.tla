--------------------------- MODULE FixpointProofs ---------------------------
(***************************************************************************)
(* What engine::solve promises, for every graph, every abstract domain and *)
(* every pair of transfer callbacks.  When the worklist is empty, the      *)
(* entry state of each block is the join of what its predecessors          *)
(* contribute, or that join widened, and its exit state is the transfer of *)
(* its entry: this needs no law of the domain.  With the laws that         *)
(* AbstractDomain documents and with sound callbacks, every execution of   *)
(* the function then stays within the entry states.  If a widened state    *)
(* can change only a number of times, so can every entry state.            *)
(***************************************************************************)
EXTENDS Fixpoint, SequenceFacts

-----------------------------------------------------------------------------
(* The queue. *)

Enqueue(q, n) == IF n \in Range(q) THEN q ELSE Append(q, n)

(* The recursion by which Requeue runs through the successors ns. *)
QueueRec(q, ns, h) ==
    h = [t \in SUBSET DOMAIN ns |->
            IF t = {} THEN q ELSE Enqueue(h[t \ {Max(t)}], ns[Max(t)])]

LEMMA RequeueIs ==
    ASSUME NEW N, NEW q \in Seq(N), NEW ns \in Seq(N)
    PROVE  \E h : QueueRec(q, ns, h) /\ Requeue(q, ns) = h[DOMAIN ns]
  <1>0. PICK n \in Nat : DOMAIN ns = 1 .. n OBVIOUS
  <1> DEFINE F == [x \in Seq(N) \X (1 .. n) |-> Enqueue(x[1], ns[x[2]])]
             iter == CHOOSE h : QueueRec(q, ns, h)
  <1>1. \A x \in Seq(N), i \in 1 .. n : Enqueue(x, ns[i]) \in Seq(N) BY <1>0 DEF Enqueue
  <1>2. F \in [Seq(N) \X (1 .. n) -> Seq(N)] BY <1>1
  <1>3. PICK g \in [SUBSET (1 .. n) -> Seq(N)] : FoldRec(F, q, 1 .. n, g)
    <2> HIDE DEF F
    <2> QED BY <1>2, FoldTyped
  <1>4. QueueRec(q, ns, g)
    <2>1. ASSUME NEW t \in SUBSET (1 .. n), t # {}
          PROVE  F[<<g[t \ {Max(t)}], Max(t)>>] = Enqueue(g[t \ {Max(t)}], ns[Max(t)])
      <3>1. Max(t) \in 1 .. n BY <2>1, LastOf
      <3>2. g[t \ {Max(t)}] \in Seq(N) BY <1>3
      <3> QED BY <3>1, <3>2
    <2> HIDE DEF F
    <2> QED BY <1>0, <1>3, <2>1 DEF QueueRec, FoldRec
  <1>5. QueueRec(q, ns, iter) BY <1>4
  <1>6. Requeue(q, ns) = iter[DOMAIN ns]
    BY DEF Requeue, FoldLeft, MapThenFoldSet, QueueRec, Enqueue
  <1> QED BY <1>5, <1>6

(* Every successor ends up in the queue, and nothing else is added to it. *)
LEMMA RequeueAdds ==
    ASSUME NEW N, NEW q \in Seq(N), NEW ns \in Seq(N)
    PROVE  /\ Requeue(q, ns) \in Seq(N)
           /\ Range(Requeue(q, ns)) = Range(q) \cup Range(ns)
  <1> DEFINE D == DOMAIN ns
             Adds(x, t) == x \in Seq(N) /\ Range(x) = Range(q) \cup {ns[i] : i \in t}
  <1>0. PICK n \in Nat : D = 1 .. n OBVIOUS
  <1>2. PICK h : QueueRec(q, ns, h) /\ Requeue(q, ns) = h[D] BY RequeueIs
  <1> DEFINE Bad == {t \in SUBSET D : ~Adds(h[t], t)}
  <1>3. Bad = {}
    <2> SUFFICES ASSUME Bad # {} PROVE FALSE OBVIOUS
    <2>0. IsFiniteSet(1 .. n) BY FS_Interval
    <2>1. \A s \in Bad : IsFiniteSet(s) BY <1>0, <2>0, FS_Subset
    <2>2. PICK t \in Bad : \A s \in Bad : Cardinality(t) <= Cardinality(s)
      <3> HIDE DEF Bad
      <3> QED BY <2>1, SmallestSet
    <2>3. t \in SUBSET D /\ t \in SUBSET (1 .. n) /\ ~Adds(h[t], t) BY <1>0, <2>2
    <2>4. h[t] = IF t = {} THEN q ELSE Enqueue(h[t \ {Max(t)}], ns[Max(t)])
      BY <1>2, <2>3 DEF QueueRec
    <2>5. t # {} BY <2>3, <2>4
    <2>6. Max(t) \in t /\ ~(Cardinality(t) <= Cardinality(t \ {Max(t)})) BY <2>3, <2>5, Shorter
    <2>7. PICK v, m : v = t \ {Max(t)} /\ m = Max(t) OBVIOUS
    <2>8. v \notin Bad
      <3> HIDE DEF Bad
      <3> QED BY <2>2, <2>6, <2>7
    <2>9. Adds(h[v], v)
      <3>1. v \in SUBSET D BY <2>3, <2>7
      <3> HIDE DEF Adds
      <3> QED BY <2>8, <3>1
    <2>10. h[t] = Enqueue(h[v], ns[m]) /\ m \in D /\ ns[m] \in N /\ t = v \cup {m}
      BY <2>3, <2>4, <2>5, <2>6, <2>7
    <2>11. Adds(h[t], t)
      <3>1. PICK x \in Seq(N) : x = h[v] /\ Range(x) = Range(q) \cup {ns[i] : i \in v} BY <2>9
      <3>2. CASE ns[m] \in Range(x)
        <4>1. h[t] = x BY <2>10, <3>1, <3>2 DEF Enqueue
        <4> QED BY <2>10, <3>1, <3>2, <4>1
      <3>3. CASE ns[m] \notin Range(x)
        <4>1. h[t] = Append(x, ns[m]) BY <2>10, <3>1, <3>3 DEF Enqueue
        <4>2. Append(x, ns[m]) \in Seq(N) BY <2>10
        <4>3. Range(Append(x, ns[m])) = Range(x) \cup {ns[m]} BY <2>10, AppendRange
        <4>4. {ns[i] : i \in t} = {ns[i] : i \in v} \cup {ns[m]} BY <2>10
        <4> QED BY <3>1, <4>1, <4>2, <4>3, <4>4
      <3> QED BY <3>2, <3>3
    <2> QED BY <2>3, <2>11
  <1>4. Adds(h[D], D)
    <2>1. D \in SUBSET D /\ D \notin Bad BY <1>3
    <2> HIDE DEF Adds
    <2> QED BY <2>1
  <1>5. {ns[i] : i \in D} = Range(ns) BY DEF Range
  <1> QED BY <1>2, <1>4, <1>5

-----------------------------------------------------------------------------
(* The predecessors. *)

(* The predecessors listed are the nodes with an edge. *)
LEMMA PredsEdge ==
    ASSUME NEW f, WellFormed(f), NEW u \in Nodes(f.g)
    PROVE  /\ Preds(f.g, u) \in Seq(Nodes(f.g))
           /\ \A p \in Range(Preds(f.g, u)) : p \in Nodes(f.g) /\ u \in Range(f.g.succ[p])
           /\ \A p \in Nodes(f.g) : u \in Range(f.g.succ[p]) => p \in Range(Preds(f.g, u))
  <1> DEFINE N == Nodes(f.g)
             K(n) == {i \in DOMAIN f.g.succ[n] : f.g.succ[n][i] = u}
             ss == [n \in N |-> [k \in 1 .. Cardinality(K(n)) |-> n]]
  <1>0. PICK c \in Nat : N = 1 .. c BY DEF WellFormed, Nodes
  <1>1. ASSUME NEW n \in N PROVE IsFiniteSet(K(n)) /\ Cardinality(K(n)) \in Nat
    <2>1. f.g.succ[n] \in Seq(N) BY DEF WellFormed
    <2>2. PICK m \in Nat : DOMAIN f.g.succ[n] = 1 .. m BY <2>1
    <2>3. IsFiniteSet(1 .. m) BY FS_Interval
    <2>4. IsFiniteSet(K(n)) BY <2>2, <2>3, FS_Subset
    <2> HIDE DEF K
    <2> QED BY <2>4, FS_CardinalityType
  <1>2. ss \in [N -> Seq(N)]
    <2> HIDE DEF K
    <2> SUFFICES ASSUME NEW n \in N PROVE [k \in 1 .. Cardinality(K(n)) |-> n] \in Seq(N) OBVIOUS
    <2> QED BY <1>1
  <1>3. Preds(f.g, u) = FlattenSeq(ss) BY DEF Preds
  <1>4. /\ FlattenSeq(ss) \in Seq(N)
        /\ \A x : x \in Range(FlattenSeq(ss)) <=> \E j \in N : x \in Range(ss[j])
    <2> HIDE DEF ss, N
    <2> QED BY <1>0, <1>2, FlattenIn
  <1>5. ASSUME NEW j \in N, NEW x \in Range(ss[j]) PROVE x = j /\ u \in Range(f.g.succ[j])
    <2>1. ss[j] = [k \in 1 .. Cardinality(K(j)) |-> j] OBVIOUS
    <2>2. x = j /\ 1 .. Cardinality(K(j)) # {}
      <3> HIDE DEF K, ss
      <3> QED BY <1>5, <2>1 DEF Range
    <2>3. K(j) # {}
      <3>1. K(j) = {} => Cardinality(K(j)) = 0 BY FS_EmptySet
      <3> HIDE DEF K
      <3> QED BY <1>1, <2>2, <3>1
    <2> QED BY <2>2, <2>3 DEF Range
  <1>6. ASSUME NEW p \in Range(FlattenSeq(ss)) PROVE p \in N /\ u \in Range(f.g.succ[p])
    <2> HIDE DEF ss, N
    <2>1. PICK j \in N : p \in Range(ss[j]) BY <1>4
    <2> QED BY <1>5, <2>1
  <1>7. ASSUME NEW p \in N, u \in Range(f.g.succ[p]) PROVE p \in Range(FlattenSeq(ss))
    <2>1. K(p) # {} BY <1>7 DEF Range
    <2>2. Cardinality(K(p)) # 0
      <3> HIDE DEF K
      <3> QED BY <1>1, <2>1, FS_EmptySet
    <2>3. ss[p] = [k \in 1 .. Cardinality(K(p)) |-> p] OBVIOUS
    <2>4. 1 \in DOMAIN ss[p] /\ ss[p][1] = p
      <3> HIDE DEF K, ss
      <3> QED BY <1>1, <2>2, <2>3
    <2>5. p \in Range(ss[p]) BY <2>4 DEF Range
    <2> HIDE DEF ss
    <2> QED BY <1>4, <2>5
  <1> HIDE DEF ss
  <1> QED BY <1>3, <1>4, <1>6, <1>7

(* Joined reads nothing but the exit states of the predecessors. *)
LEMMA JoinedLocal ==
    ASSUME NEW f, NEW u, NEW a, NEW b, NEW n \in Nat, Preds(f.g, u) \in [1 .. n -> Nat],
           \A p \in Range(Preds(f.g, u)) : a[p] = b[p]
    PROVE  Joined(f, u, a) = Joined(f, u, b)
  <1> DEFINE ps == Preds(f.g, u)
             seed == IF u = f.g.entry THEN EntryState(f) ELSE Bottom
             Body(o, g) == [t \in SUBSET DOMAIN ps |->
                               IF t = {} THEN seed
                               ELSE Join(g[t \ {Max(t)}],
                                         TransferEdge(f, ps[Max(t)], u, o[ps[Max(t)]]))]
  <1>1. DOMAIN ps = 1 .. n OBVIOUS
  <1>2. ASSUME NEW t \in SUBSET DOMAIN ps, t # {} PROVE a[ps[Max(t)]] = b[ps[Max(t)]]
    <2>1. Max(t) \in DOMAIN ps BY <1>1, <1>2, LastOf
    <2>2. ps[Max(t)] \in Range(ps) BY <2>1 DEF Range
    <2> QED BY <2>2
  <1>3. ASSUME NEW g PROVE Body(a, g) = Body(b, g)
    <2> HIDE DEF ps, seed
    <2> QED BY <1>2
  <1>4. (CHOOSE g : g = Body(a, g)) = (CHOOSE g : g = Body(b, g))
    <2>1. \A g : g = Body(a, g) <=> g = Body(b, g)
      <3> HIDE DEF Body
      <3> QED BY <1>3
    <2> HIDE DEF Body
    <2> QED BY <2>1
  <1>5. /\ Joined(f, u, a) = (CHOOSE g : g = Body(a, g))[DOMAIN ps]
        /\ Joined(f, u, b) = (CHOOSE g : g = Body(b, g))[DOMAIN ps]
    BY DEF Joined, FoldLeft, MapThenFoldSet
  <1> HIDE DEF Body
  <1> QED BY <1>4, <1>5

-----------------------------------------------------------------------------
(* The domain. *)

(* The states and the operations of the domain. *)
DomainTyped(State) ==
    /\ Bottom \in State
    /\ \A a, b \in State : Join(a, b) \in State /\ Widen(a, b) \in State

(* The laws AbstractDomain documents, as far as soundness needs them: Leq is an
   order on the states, join and widen are above what they combine. *)
DomainLaws(State, Leq) ==
    /\ DomainTyped(State)
    /\ \A a \in State : <<a, a>> \in Leq
    /\ \A a, b, c \in State : <<a, b>> \in Leq /\ <<b, c>> \in Leq => <<a, c>> \in Leq
    /\ \A a, b \in State : /\ <<a, Join(a, b)>> \in Leq /\ <<b, Join(a, b)>> \in Leq
                           /\ <<b, Widen(a, b)>> \in Leq

(* The seed and the callbacks yield states. *)
CallbacksTyped(f, State) ==
    /\ EntryState(f) \in State
    /\ \A u \in Nodes(f.g), a \in State :
         /\ TransferBlock(f, u, a) \in State
         /\ \A v \in Nodes(f.g) : TransferEdge(f, u, v, a) \in State

Seed(f, u) == IF u = f.g.entry THEN EntryState(f) ELSE Bottom

(* The functions solve is called for: a graph with its order, and typed callbacks. *)
Solvable(problems, State) == \A f \in problems : WellFormed(f) /\ CallbacksTyped(f, State)

(* The recursion by which Joined runs through the predecessors ps of u. *)
JoinRec(f, u, outs, ps, h) ==
    h = [t \in SUBSET DOMAIN ps |->
            IF t = {} THEN Seed(f, u)
            ELSE Join(h[t \ {Max(t)}], TransferEdge(f, ps[Max(t)], u, outs[ps[Max(t)]]))]

LEMMA JoinedIs ==
    ASSUME NEW f, NEW State, NEW Leq, DomainLaws(State, Leq), CallbacksTyped(f, State),
           NEW u \in Nodes(f.g), NEW outs, \A p \in Nodes(f.g) : outs[p] \in State,
           NEW ps \in Seq(Nodes(f.g)), ps = Preds(f.g, u)
    PROVE  \E h : JoinRec(f, u, outs, ps, h) /\ Joined(f, u, outs) = h[DOMAIN ps]
  <1>0. PICK n \in Nat : DOMAIN ps = 1 .. n OBVIOUS
  <1> DEFINE C(i) == TransferEdge(f, ps[i], u, outs[ps[i]])
             F == [x \in State \X (1 .. n) |-> Join(x[1], C(x[2]))]
             iter == CHOOSE h : JoinRec(f, u, outs, ps, h)
  <1>1. \A i \in 1 .. n : C(i) \in State
    <2>1. \A i \in 1 .. n : ps[i] \in Nodes(f.g) BY <1>0
    <2> QED BY <2>1 DEF CallbacksTyped
  <1>2. \A a \in State, i \in 1 .. n : Join(a, C(i)) \in State
    <2> HIDE DEF C
    <2> QED BY <1>1 DEF DomainLaws, DomainTyped
  <1>3. F \in [State \X (1 .. n) -> State]
    <2> HIDE DEF C
    <2> QED BY <1>2
  <1>4. Seed(f, u) \in State BY DEF Seed, DomainLaws, DomainTyped, CallbacksTyped
  <1>5. PICK g \in [SUBSET (1 .. n) -> State] : FoldRec(F, Seed(f, u), 1 .. n, g)
    <2> HIDE DEF F
    <2> QED BY <1>3, <1>4, FoldTyped
  <1>6. JoinRec(f, u, outs, ps, g)
    <2>1. ASSUME NEW t \in SUBSET (1 .. n), t # {}
          PROVE  F[<<g[t \ {Max(t)}], Max(t)>>] = Join(g[t \ {Max(t)}], C(Max(t)))
      <3>1. Max(t) \in 1 .. n BY <2>1, LastOf
      <3>2. g[t \ {Max(t)}] \in State BY <1>5
      <3> HIDE DEF C
      <3> QED BY <3>1, <3>2
    <2> HIDE DEF F
    <2> QED BY <1>0, <1>5, <2>1 DEF JoinRec, FoldRec
  <1>7. JoinRec(f, u, outs, ps, iter) BY <1>6
  <1>8. Joined(f, u, outs) = iter[DOMAIN ps]
    BY DEF Joined, FoldLeft, MapThenFoldSet, JoinRec, Seed
  <1> QED BY <1>7, <1>8

(* The join is above the seed and above every contribution. *)
LEMMA JoinedCovers ==
    ASSUME NEW f, NEW State, NEW Leq, DomainLaws(State, Leq), CallbacksTyped(f, State),
           NEW u \in Nodes(f.g), NEW outs, \A p \in Nodes(f.g) : outs[p] \in State,
           Preds(f.g, u) \in Seq(Nodes(f.g))
    PROVE  /\ Joined(f, u, outs) \in State
           /\ <<Seed(f, u), Joined(f, u, outs)>> \in Leq
           /\ \A p \in Range(Preds(f.g, u)) :
                <<TransferEdge(f, p, u, outs[p]), Joined(f, u, outs)>> \in Leq
  <1>a. PICK ps \in Seq(Nodes(f.g)) : ps = Preds(f.g, u) OBVIOUS
  <1>0. PICK n \in Nat : DOMAIN ps = 1 .. n BY <1>a
  <1> DEFINE D == DOMAIN ps
             C(i) == TransferEdge(f, ps[i], u, outs[ps[i]])
             Above(x, t) == /\ x \in State /\ <<Seed(f, u), x>> \in Leq
                            /\ \A i \in t : <<C(i), x>> \in Leq
  <1>1. \A i \in D : C(i) \in State
    <2>1. \A i \in D : ps[i] \in Nodes(f.g) BY <1>a
    <2> QED BY <2>1 DEF CallbacksTyped
  <1>2. Seed(f, u) \in State BY DEF Seed, DomainLaws, DomainTyped, CallbacksTyped
  <1>3. PICK h : JoinRec(f, u, outs, ps, h) /\ Joined(f, u, outs) = h[D] BY <1>a, JoinedIs
  <1> DEFINE Bad == {t \in SUBSET D : ~Above(h[t], t)}
  <1>4. ASSUME Bad # {} PROVE FALSE
    <2>0. IsFiniteSet(1 .. n) BY FS_Interval
    <2>1. \A s \in Bad : IsFiniteSet(s) BY <1>0, <2>0, FS_Subset
    <2>2. PICK t \in Bad : \A s \in Bad : Cardinality(t) <= Cardinality(s)
      <3> HIDE DEF Bad
      <3> QED BY <1>4, <2>1, SmallestSet
    <2>3. t \in SUBSET D /\ t \in SUBSET (1 .. n) /\ ~Above(h[t], t) BY <1>0, <2>2
    <2>4. h[t] = IF t = {} THEN Seed(f, u) ELSE Join(h[t \ {Max(t)}], C(Max(t)))
      BY <1>3, <2>3 DEF JoinRec
    <2>5. t # {}
      <3> SUFFICES ASSUME t = {} PROVE FALSE OBVIOUS
      <3>1. h[t] = Seed(f, u) BY <2>4
      <3>2. <<Seed(f, u), Seed(f, u)>> \in Leq BY <1>2 DEF DomainLaws, DomainTyped
      <3> QED BY <1>2, <2>3, <3>1, <3>2
    <2>6. Max(t) \in t /\ ~(Cardinality(t) <= Cardinality(t \ {Max(t)})) BY <2>3, <2>5, Shorter
    <2>7. PICK v, m : v = t \ {Max(t)} /\ m = Max(t) OBVIOUS
    <2>8. v \notin Bad
      <3> HIDE DEF Bad
      <3> QED BY <2>2, <2>6, <2>7
    <2>9. Above(h[v], v)
      <3>1. v \in SUBSET D BY <2>3, <2>7
      <3> HIDE DEF Above
      <3> QED BY <2>8, <3>1
    <2>10. h[t] = Join(h[v], C(m)) /\ m \in D /\ t = v \cup {m}
      <3> HIDE DEF C
      <3> QED BY <2>3, <2>4, <2>5, <2>6, <2>7
    <2>11. PICK x, y : x = h[v] /\ y = C(m) OBVIOUS
    <2>12. x \in State /\ y \in State
      <3> HIDE DEF C
      <3> QED BY <1>1, <2>9, <2>10, <2>11
    <2>13. Join(x, y) \in State /\ <<x, Join(x, y)>> \in Leq /\ <<y, Join(x, y)>> \in Leq
      BY <2>12 DEF DomainLaws, DomainTyped
    <2>14. \A z \in State : <<z, x>> \in Leq => <<z, Join(x, y)>> \in Leq
      BY <2>12, <2>13 DEF DomainLaws, DomainTyped
    <2>15. Above(h[t], t)
      <3>1. h[t] = Join(x, y) BY <2>10, <2>11
      <3>2. <<Seed(f, u), x>> \in Leq /\ \A i \in v : <<C(i), x>> \in Leq BY <2>9, <2>11
      <3>3. <<Seed(f, u), Join(x, y)>> \in Leq BY <1>2, <2>14, <3>2
      <3>4. \A i \in v : <<C(i), Join(x, y)>> \in Leq
        <4>1. \A i \in v : i \in D BY <2>3, <2>7
        <4> HIDE DEF C
        <4> QED BY <1>1, <2>14, <3>2, <4>1
      <3>5. <<C(m), Join(x, y)>> \in Leq BY <2>11, <2>13
      <3> HIDE DEF C
      <3> QED BY <2>10, <2>13, <3>1, <3>3, <3>4, <3>5
    <2> HIDE DEF Above
    <2> QED BY <2>3, <2>15
  <1>5. Above(h[D], D)
    <2>1. D \in SUBSET D /\ D \notin Bad BY <1>4
    <2> HIDE DEF Above
    <2> QED BY <2>1
  <1>6. ASSUME NEW p \in Range(ps) PROVE <<TransferEdge(f, p, u, outs[p]), h[D]>> \in Leq
    <2>1. PICK i \in D : p = ps[i] BY DEF Range
    <2> QED BY <1>5, <2>1
  <1> QED BY <1>a, <1>3, <1>5, <1>6

(* Joining states yields a state. *)
LEMMA JoinedTyped ==
    ASSUME NEW f, NEW State, DomainTyped(State), CallbacksTyped(f, State),
           NEW u \in Nodes(f.g), NEW outs, \A p \in Nodes(f.g) : outs[p] \in State,
           Preds(f.g, u) \in Seq(Nodes(f.g))
    PROVE  Joined(f, u, outs) \in State
  <1> DEFINE Leq == State \X State
  <1>1. DomainLaws(State, Leq) BY DEF DomainLaws, DomainTyped
  <1> HIDE DEF Leq
  <1> QED BY <1>1, JoinedCovers

-----------------------------------------------------------------------------
(* The worklist. *)

(* The entry state of u is what its predecessors contribute, widened from some
   earlier state only where u is widened. *)
Settled(State, u) ==
    LET joined == Joined(fn, u, out_states)
    IN  \/ in_states[u] = joined
        \/ Widens(u) /\ \E before \in State : in_states[u] = Widen(before, joined)

(* The exit state of u follows from its entry state; before u is reached both are
   bottom, and the transfer of bottom is never asked for. *)
Transferred(u) ==
    \/ out_states[u] = TransferBlock(fn, u, in_states[u])
    \/ in_states[u] = Bottom /\ out_states[u] = Bottom

EngineTypes(State) ==
    /\ WellFormed(fn) /\ CallbacksTyped(fn, State)
    /\ worklist \in Seq(Nodes(fn.g))
    /\ updates \in [Nodes(fn.g) -> Nat]
    /\ in_states \in [Nodes(fn.g) -> State] /\ out_states \in [Nodes(fn.g) -> State]

(* Every node of the order is settled or waits in the queue. *)
EngineInv(State) ==
    /\ EngineTypes(State)
    /\ \A u \in Range(fn.rpo) : u \in Range(worklist) \/ Settled(State, u)
    /\ \A u \in Nodes(fn.g) : Transferred(u)

LEMMA HeadTail ==
    ASSUME NEW N, NEW q \in Seq(N), q # <<>>
    PROVE  /\ Head(q) \in N /\ Tail(q) \in Seq(N)
           /\ Range(q) = {Head(q)} \cup Range(Tail(q))
  <1>1. Head(q) = q[1] /\ Head(q) \in N /\ Tail(q) \in Seq(N) OBVIOUS
  <1>2. \A i \in DOMAIN Tail(q) : i + 1 \in DOMAIN q /\ Tail(q)[i] = q[i + 1] OBVIOUS
  <1>3. \A i \in DOMAIN q : i # 1 => i - 1 \in DOMAIN Tail(q) /\ Tail(q)[i - 1] = q[i] OBVIOUS
  <1>4. 1 \in DOMAIN q OBVIOUS
  <1>5. Range(q) \subseteq {Head(q)} \cup Range(Tail(q)) BY <1>1, <1>3 DEF Range
  <1>6. Range(Tail(q)) \subseteq Range(q) BY <1>2 DEF Range
  <1>7. Head(q) \in Range(q) BY <1>1, <1>4 DEF Range
  <1> QED BY <1>1, <1>5, <1>6, <1>7

LEMMA EngineInit ==
    ASSUME NEW State, DomainTyped(State), NEW problems, Solvable(problems, State),
           Init(problems)
    PROVE  EngineInv(State)
  <1>1. EngineTypes(State) BY DEF Init, EngineTypes, WellFormed, Solvable, DomainTyped
  <1>2. worklist = fn.rpo BY DEF Init
  <1>3. \A u \in Nodes(fn.g) : Transferred(u) BY DEF Init, Transferred
  <1> QED BY <1>1, <1>2, <1>3 DEF EngineInv

(* A node that waits for nothing is settled once the queue is empty. *)
LEMMA SolvedSettled ==
    ASSUME NEW State, EngineInv(State), Solved, NEW u \in Range(fn.rpo)
    PROVE  u \in Nodes(fn.g) /\ Settled(State, u) /\ Transferred(u)
  <1>1. Range(worklist) = {} BY DEF Solved, Range
  <1>2. u \in Nodes(fn.g) BY DEF EngineInv, EngineTypes, WellFormed, Range
  <1> QED BY <1>1, <1>2 DEF EngineInv

(* What is not a successor of u does not read its exit state. *)
LEMMA JoinedKept ==
    ASSUME NEW State, EngineTypes(State), NEW u \in Nodes(fn.g), NEW x \in Nodes(fn.g), NEW out,
           u \in Range(Preds(fn.g, x)) => out = out_states[u]
    PROVE  Joined(fn, x, [out_states EXCEPT ![u] = out]) = Joined(fn, x, out_states)
  <1> DEFINE b == [out_states EXCEPT ![u] = out]
  <1>1. WellFormed(fn) /\ DOMAIN out_states = Nodes(fn.g) BY DEF EngineTypes
  <1>2. /\ Preds(fn.g, x) \in Seq(Nodes(fn.g))
        /\ \A p \in Range(Preds(fn.g, x)) : p \in Nodes(fn.g)
    BY <1>1, PredsEdge
  <1>3. Nodes(fn.g) \subseteq Nat BY <1>1 DEF WellFormed, Nodes
  <1>4. PICK n \in Nat : Preds(fn.g, x) \in [1 .. n -> Nat] BY <1>2, <1>3
  <1>5. \A p \in Range(Preds(fn.g, x)) : b[p] = out_states[p] BY <1>1, <1>2
  <1> HIDE DEF b
  <1>6. Joined(fn, x, b) = Joined(fn, x, out_states) BY <1>4, <1>5, JoinedLocal
  <1> QED BY <1>6 DEF b

LEMMA EngineStep ==
    ASSUME FORCE_WIDEN_AFTER \in Nat, NEW State, DomainTyped(State), EngineInv(State), Step
    PROVE  EngineInv(State)'
  <1> DEFINE u == Head(worklist)
             joined == Joined(fn, u, out_states)
             new_in == IF Widens(u) THEN Widen(in_states[u], joined) ELSE joined
             new_out == TransferBlock(fn, u, new_in)
  <1>0. /\ WellFormed(fn) /\ worklist \in Seq(Nodes(fn.g)) /\ updates \in [Nodes(fn.g) -> Nat]
        /\ in_states \in [Nodes(fn.g) -> State] /\ out_states \in [Nodes(fn.g) -> State]
        /\ CallbacksTyped(fn, State) /\ worklist # <<>> /\ fn' = fn
    BY DEF EngineInv, EngineTypes, Step
  <1>1. /\ u \in Nodes(fn.g) /\ Tail(worklist) \in Seq(Nodes(fn.g))
        /\ Range(worklist) = {u} \cup Range(Tail(worklist))
    BY <1>0, HeadTail
  <1>a. new_in \in State /\ new_out \in State /\ in_states[u] \in State
    <2>1. Preds(fn.g, u) \in Seq(Nodes(fn.g)) BY <1>0, <1>1, PredsEdge
    <2>2. joined \in State
      <3> HIDE DEF u
      <3> QED BY <1>0, <1>1, <2>1, JoinedTyped
    <2>3. in_states[u] \in State BY <1>0, <1>1
    <2>4. new_in \in State
      <3> HIDE DEF u, joined
      <3> QED BY <2>2, <2>3 DEF DomainTyped
    <2> HIDE DEF u, new_in
    <2> QED BY <1>0, <1>1, <2>3, <2>4 DEF CallbacksTyped
  <1>2. CASE new_in = in_states[u]
    <2>1. worklist' = Tail(worklist) /\ UNCHANGED <<in_states, out_states, updates>>
      BY <1>2 DEF Step
    <2>2. Settled(State, u) BY <1>2, <1>a DEF Settled
    <2>3. EngineTypes(State)' BY <1>0, <1>1, <2>1 DEF EngineTypes
    <2>4. \A x : Settled(State, x)' <=> Settled(State, x) BY <1>0, <2>1 DEF Settled, Widens
    <2>5. \A x \in Nodes(fn.g) : Transferred(x)' BY <1>0, <2>1 DEF EngineInv, Transferred
    <2> QED BY <1>0, <1>1, <2>1, <2>2, <2>3, <2>4, <2>5 DEF EngineInv
  <1>3. CASE new_in # in_states[u]
    <2> DEFINE next == IF new_out = out_states[u] THEN Tail(worklist)
                       ELSE Requeue(Tail(worklist), fn.g.succ[u])
    <2>1. /\ updates' = [updates EXCEPT ![u] = @ + 1]
          /\ in_states' = [in_states EXCEPT ![u] = new_in]
          /\ out_states' = [out_states EXCEPT ![u] = new_out]
          /\ worklist' = next
      BY <1>3 DEF Step
    <2>2. /\ next \in Seq(Nodes(fn.g)) /\ Range(Tail(worklist)) \subseteq Range(next)
          /\ new_out # out_states[u] => Range(fn.g.succ[u]) \subseteq Range(next)
      <3>1. fn.g.succ[u] \in Seq(Nodes(fn.g)) BY <1>0, <1>1 DEF WellFormed
      <3>2. /\ Requeue(Tail(worklist), fn.g.succ[u]) \in Seq(Nodes(fn.g))
            /\ Range(Requeue(Tail(worklist), fn.g.succ[u]))
                 = Range(Tail(worklist)) \cup Range(fn.g.succ[u])
        <4>1. PICK q, ns, N : q = Tail(worklist) /\ ns = fn.g.succ[u] /\ N = Nodes(fn.g) OBVIOUS
        <4>2. q \in Seq(N) /\ ns \in Seq(N) BY <1>1, <3>1, <4>1
        <4>3. Requeue(q, ns) \in Seq(N) /\ Range(Requeue(q, ns)) = Range(q) \cup Range(ns)
          BY <4>2, RequeueAdds
        <4> QED BY <4>1, <4>3
      <3> HIDE DEF new_out, u
      <3> QED BY <1>1, <3>2
    <2>3. EngineTypes(State)'
      <3> HIDE DEF next, new_in, new_out, u
      <3> QED BY <1>0, <1>1, <1>a, <2>1, <2>2 DEF EngineTypes
    <2>4. ASSUME NEW x \in Nodes(fn.g), x \notin Range(next)
          PROVE  Joined(fn, x, out_states') = Joined(fn, x, out_states)
      <3>1. x \in Range(fn.g.succ[u]) => new_out = out_states[u]
        <4> HIDE DEF next, new_out, u
        <4> QED BY <2>2, <2>4
      <3>2. u \in Range(Preds(fn.g, x)) => new_out = out_states[u]
        <4>1. u \in Range(Preds(fn.g, x)) => x \in Range(fn.g.succ[u]) BY <1>0, PredsEdge
        <4> HIDE DEF new_out, u
        <4> QED BY <3>1, <4>1
      <3>3. EngineTypes(State) BY DEF EngineInv
      <3>4. Joined(fn, x, [out_states EXCEPT ![u] = new_out]) = Joined(fn, x, out_states)
        <4> HIDE DEF new_out, u
        <4> QED BY <1>1, <3>2, <3>3, JoinedKept
      <3>5. Joined(fn, x, out_states') = Joined(fn, x, [out_states EXCEPT ![u] = new_out])
        <4> HIDE DEF new_out, u
        <4> QED BY <2>1
      <3> QED BY <3>4, <3>5
    <2>5. ASSUME NEW x \in Range(fn.rpo), x \notin Range(next) PROVE Settled(State, x)'
      <3>1. x \in Nodes(fn.g) BY <1>0 DEF WellFormed, Range
      <3>2. Joined(fn, x, out_states') = Joined(fn, x, out_states) BY <2>4, <2>5, <3>1
      <3>3. Widens(x) => Widens(x)'
        <4> HIDE DEF new_in, new_out, u, next
        <4> QED BY <1>0, <1>1, <2>1, <3>1 DEF Widens
      <3>4. CASE x = u
        <4>1. in_states'[x] = new_in BY <1>0, <1>1, <2>1, <3>4
        <4> QED BY <1>0, <1>a, <3>2, <3>3, <3>4, <4>1 DEF Settled
      <3>5. CASE x # u
        <4>1. in_states'[x] = in_states[x] BY <1>0, <1>1, <2>1, <3>1, <3>5
        <4>2. Settled(State, x)
          <5> HIDE DEF next
          <5> QED BY <1>1, <2>2, <2>5, <3>5 DEF EngineInv
        <4> QED BY <1>0, <3>2, <3>3, <4>1, <4>2 DEF Settled
      <3> QED BY <3>4, <3>5
    <2>6. ASSUME NEW x \in Nodes(fn.g) PROVE Transferred(x)'
      <3>1. CASE x = u
        <4>1. in_states'[u] = new_in /\ out_states'[u] = new_out
          <5> HIDE DEF new_in, new_out, u, next
          <5> QED BY <1>0, <1>1, <2>1
        <4> HIDE DEF new_in, u, next
        <4> QED BY <1>0, <3>1, <4>1 DEF Transferred
      <3>2. CASE x # u
        <4> HIDE DEF new_in, new_out, u, next
        <4> QED BY <1>0, <2>1, <3>2 DEF Transferred, EngineInv
      <3> QED BY <3>1, <3>2
    <2> HIDE DEF new_in, new_out, u, next
    <2> QED BY <1>0, <2>1, <2>3, <2>5, <2>6 DEF EngineInv
  <1> QED BY <1>2, <1>3

(* The invariant of the loop of solve. *)
LEMMA EngineHolds ==
    ASSUME FORCE_WIDEN_AFTER \in Nat, NEW CONSTANT State, DomainTyped(State),
           NEW CONSTANT problems, Solvable(problems, State)
    PROVE  Init(problems) /\ [][Step]_vars => []EngineInv(State)
  <1>1. Init(problems) => EngineInv(State) BY EngineInit
  <1>2. EngineInv(State) /\ [Step]_vars => EngineInv(State)'
    <2> SUFFICES ASSUME EngineInv(State), [Step]_vars PROVE EngineInv(State)' OBVIOUS
    <2>1. CASE Step BY <2>1, EngineStep
    <2>2. CASE UNCHANGED vars
      BY <2>2 DEF vars, EngineInv, EngineTypes, Settled, Transferred, Widens
    <2> QED BY <2>1, <2>2
  <1> QED BY <1>1, <1>2, PTL

PostFixpoint(State) ==
    Solved => \A u \in Range(fn.rpo) : Settled(State, u) /\ Transferred(u)

(* solve returns a post-fixpoint in the words of engine.rs: each block's exit state
   is the transfer of its entry state, and its entry state is the join of what its
   predecessors contribute, widened at loop headers and where it changed too often.
   No law of the domain is needed for it. *)
THEOREM EnginePostFixpoint ==
    ASSUME FORCE_WIDEN_AFTER \in Nat, NEW CONSTANT State, DomainTyped(State),
           NEW CONSTANT problems, Solvable(problems, State)
    PROVE  Init(problems) /\ [][Step]_vars => []PostFixpoint(State)
  <1>1. EngineInv(State) => PostFixpoint(State) BY SolvedSettled DEF PostFixpoint
  <1>2. Init(problems) /\ [][Step]_vars => []EngineInv(State) BY EngineHolds
  <1> QED BY <1>1, <1>2, PTL

-----------------------------------------------------------------------------
(* Executions. *)

(* The seed is below the entry's state, and what flows along an edge below the
   state of its target. *)
Covering(Leq) ==
    \A u \in Range(fn.rpo) :
        /\ <<Seed(fn, u), in_states[u]>> \in Leq
        /\ \A p \in Nodes(fn.g) : u \in Range(fn.g.succ[p]) =>
             <<TransferEdge(fn, p, u, out_states[p]), in_states[u]>> \in Leq

LEMMA SettledCovers ==
    ASSUME NEW State, NEW Leq, DomainLaws(State, Leq), EngineInv(State), Solved
    PROVE  Covering(Leq)
  <1> SUFFICES ASSUME NEW u \in Range(fn.rpo)
               PROVE  /\ <<Seed(fn, u), in_states[u]>> \in Leq
                      /\ \A p \in Nodes(fn.g) : u \in Range(fn.g.succ[p]) =>
                           <<TransferEdge(fn, p, u, out_states[p]), in_states[u]>> \in Leq
    BY DEF Covering
  <1>1. /\ WellFormed(fn) /\ CallbacksTyped(fn, State)
        /\ in_states \in [Nodes(fn.g) -> State] /\ out_states \in [Nodes(fn.g) -> State]
    BY DEF EngineInv, EngineTypes
  <1>2. u \in Nodes(fn.g) /\ Settled(State, u) BY SolvedSettled
  <1> DEFINE joined == Joined(fn, u, out_states)
  <1>3. /\ Preds(fn.g, u) \in Seq(Nodes(fn.g))
        /\ \A p \in Nodes(fn.g) : u \in Range(fn.g.succ[p]) => p \in Range(Preds(fn.g, u))
    BY <1>1, <1>2, PredsEdge
  <1>4. /\ joined \in State /\ <<Seed(fn, u), joined>> \in Leq
        /\ \A p \in Range(Preds(fn.g, u)) : <<TransferEdge(fn, p, u, out_states[p]), joined>> \in Leq
    <2>1. \A p \in Nodes(fn.g) : out_states[p] \in State BY <1>1
    <2> QED BY <1>1, <1>2, <1>3, <2>1, JoinedCovers
  <1>5. in_states[u] \in State BY <1>1, <1>2
  <1>6. <<joined, in_states[u]>> \in Leq
    <2>1. CASE in_states[u] = joined BY <1>4, <2>1 DEF DomainLaws
    <2>2. CASE in_states[u] # joined
      <3>1. PICK before \in State : in_states[u] = Widen(before, joined)
        BY <1>2, <2>2 DEF Settled
      <3> HIDE DEF joined
      <3> QED BY <1>4, <3>1 DEF DomainLaws
    <2> QED BY <2>1, <2>2
  <1>7. \A z \in State : <<z, joined>> \in Leq => <<z, in_states[u]>> \in Leq
    <2> HIDE DEF joined
    <2> QED BY <1>4, <1>5, <1>6 DEF DomainLaws
  <1>8. Seed(fn, u) \in State BY <1>1 DEF Seed, DomainLaws, DomainTyped, CallbacksTyped
  <1>9. \A p \in Nodes(fn.g) : TransferEdge(fn, p, u, out_states[p]) \in State
    BY <1>1, <1>2 DEF CallbacksTyped
  <1> HIDE DEF joined
  <1> QED BY <1>3, <1>4, <1>7, <1>8, <1>9

(* What a state stands for: gamma maps it to concrete values, nothing for bottom and
   more for a larger state. *)
Concretizes(State, Leq, gamma) ==
    /\ gamma[Bottom] = {}
    /\ \A a, b \in State : <<a, b>> \in Leq => gamma[a] \subseteq gamma[b]

(* The callbacks are sound for the moves of the program: a move follows an edge, and
   its result is in what is computed along that edge. *)
SoundFor(f, State, gamma, moves) ==
    \A p, u, x, y : <<p, x, u, y>> \in moves =>
        /\ p \in Nodes(f.g) /\ u \in Range(f.g.succ[p])
        /\ \A a \in State :
             x \in gamma[a] => y \in gamma[TransferEdge(f, p, u, TransferBlock(f, p, a))]

(* A run of n block entries, each with the values at it. *)
Execution(f, gamma, moves, n, at, val) ==
    /\ at[1] = f.g.entry /\ val[1] \in gamma[EntryState(f)]
    /\ \A i \in 1 .. n - 1 : <<at[i], val[i], at[i + 1], val[i + 1]>> \in moves

RunCovered(gamma, n, at, val) ==
    Solved => \A i \in 1 .. n : at[i] \in Range(fn.rpo) /\ val[i] \in gamma[in_states[at[i]]]

LEMMA RunStaysCovered ==
    ASSUME NEW f, NEW State, NEW Leq, DomainLaws(State, Leq), EngineInv(State), fn = f,
           NEW gamma, Concretizes(State, Leq, gamma),
           NEW moves, SoundFor(f, State, gamma, moves),
           NEW n \in Nat, NEW at, NEW val, Execution(f, gamma, moves, n, at, val)
    PROVE  RunCovered(gamma, n, at, val)
  <1> SUFFICES ASSUME Solved
               PROVE  \A i \in 1 .. n : at[i] \in Range(f.rpo) /\ val[i] \in gamma[in_states[at[i]]]
    BY DEF RunCovered
  <1> DEFINE Good(i) == at[i] \in Range(f.rpo) /\ val[i] \in gamma[in_states[at[i]]]
             Bad == {i \in 1 .. n : ~Good(i)}
  <1> SUFFICES ASSUME Bad # {} PROVE FALSE OBVIOUS
  <1>1. PICK i \in Bad : \A j \in Bad : i <= j
    <2>1. Bad \in SUBSET Nat OBVIOUS
    <2> HIDE DEF Bad
    <2> QED BY <2>1, LeastOf
  <1>2. i \in 1 .. n /\ ~Good(i) BY <1>1
  <1>3. Covering(Leq) BY SettledCovers
  <1>4. /\ WellFormed(f) /\ CallbacksTyped(f, State)
        /\ in_states \in [Nodes(f.g) -> State] /\ out_states \in [Nodes(f.g) -> State]
    BY DEF EngineInv, EngineTypes
  <1>5. i # 1
    <2> SUFFICES ASSUME i = 1 PROVE FALSE OBVIOUS
    <2>1. at[1] = f.g.entry /\ val[1] \in gamma[EntryState(f)] BY DEF Execution
    <2>2. f.g.entry \in Range(f.rpo) /\ f.g.entry \in Nodes(f.g) BY <1>4 DEF WellFormed, Range
    <2>3. <<EntryState(f), in_states[f.g.entry]>> \in Leq BY <1>3, <2>2 DEF Covering, Seed
    <2>4. EntryState(f) \in State /\ in_states[f.g.entry] \in State
      BY <1>4, <2>2 DEF CallbacksTyped
    <2>5. val[1] \in gamma[in_states[f.g.entry]] BY <2>1, <2>3, <2>4 DEF Concretizes
    <2> QED BY <1>2, <2>1, <2>2, <2>5
  <1>6. PICK p, u, x, y : p = at[i - 1] /\ u = at[i] /\ x = val[i - 1] /\ y = val[i] OBVIOUS
  <1>7. p \in Range(f.rpo) /\ x \in gamma[in_states[p]]
    <2>1. i - 1 \in 1 .. n /\ ~(i <= i - 1) BY <1>2, <1>5
    <2>2. i - 1 \notin Bad
      <3> HIDE DEF Bad
      <3> QED BY <1>1, <2>1
    <2>3. Good(i - 1)
      <3> HIDE DEF Good
      <3> QED BY <2>1, <2>2
    <2> QED BY <1>6, <2>3
  <1>8. <<p, x, u, y>> \in moves
    <2>1. i - 1 \in 1 .. n - 1 /\ (i - 1) + 1 = i BY <1>2, <1>5
    <2>2. <<at[i - 1], val[i - 1], at[(i - 1) + 1], val[(i - 1) + 1]>> \in moves
      BY <2>1 DEF Execution
    <2> HIDE DEF Bad
    <2> QED BY <1>6, <2>1, <2>2
  <1>9. /\ p \in Nodes(f.g) /\ u \in Range(f.g.succ[p])
        /\ y \in gamma[TransferEdge(f, p, u, TransferBlock(f, p, in_states[p]))]
    <2>1. p \in Nodes(f.g) BY <1>4, <1>7 DEF WellFormed, Range
    <2>2. in_states[p] \in State BY <1>4, <2>1
    <2> QED BY <1>7, <1>8, <2>2 DEF SoundFor
  <1>10. u \in Range(f.rpo) /\ u \in Nodes(f.g)
    <2>1. u \in Range(f.rpo) BY <1>4, <1>7, <1>9 DEF WellFormed
    <2>2. f.rpo \in Seq(Nodes(f.g)) BY <1>4 DEF WellFormed
    <2> QED BY <2>1, <2>2 DEF Range
  <1>11. out_states[p] = TransferBlock(f, p, in_states[p])
    <2>1. in_states[p] # Bottom BY <1>7 DEF Concretizes
    <2>2. Transferred(p) BY <1>9 DEF EngineInv
    <2> QED BY <2>1, <2>2 DEF Transferred
  <1>12. <<TransferEdge(f, p, u, out_states[p]), in_states[u]>> \in Leq
    BY <1>3, <1>9, <1>10 DEF Covering
  <1>13. TransferEdge(f, p, u, out_states[p]) \in State /\ in_states[u] \in State
    BY <1>4, <1>9, <1>10 DEF CallbacksTyped
  <1>14. y \in gamma[in_states[u]] BY <1>9, <1>11, <1>12, <1>13 DEF Concretizes
  <1> QED BY <1>2, <1>6, <1>10, <1>14

(* The analysis is sound: for every domain with the laws that AbstractDomain documents
   and every pair of sound transfer callbacks, every execution of the function, of any
   length, stays within the entry states that solve returns, and only visits blocks of
   the order solve was seeded with. *)
THEOREM EngineCoversRuns ==
    ASSUME FORCE_WIDEN_AFTER \in Nat,
           NEW CONSTANT State, NEW CONSTANT Leq, DomainLaws(State, Leq),
           NEW CONSTANT f, Solvable({f}, State),
           NEW CONSTANT gamma, Concretizes(State, Leq, gamma),
           NEW CONSTANT moves, SoundFor(f, State, gamma, moves),
           NEW CONSTANT n \in Nat, NEW CONSTANT at, NEW CONSTANT val,
           Execution(f, gamma, moves, n, at, val)
    PROVE  Init({f}) /\ [][Step]_vars => []RunCovered(gamma, n, at, val)
  <1>1. DomainTyped(State) BY DEF DomainLaws
  <1>2. Init({f}) /\ [][Step]_vars => []EngineInv(State) BY <1>1, EngineHolds
  <1>3. Init({f}) => fn = f BY DEF Init
  <1>4. fn = f /\ [Step]_vars => (fn = f)' BY DEF Step, vars
  <1>5. EngineInv(State) /\ fn = f => RunCovered(gamma, n, at, val) BY RunStaysCovered
  <1> QED BY <1>2, <1>3, <1>4, <1>5, PTL

-----------------------------------------------------------------------------
(* Termination. *)

(* Widening a state leaves it alone or lowers its rank. *)
WidenDescends(State, rank) ==
    \A a, b \in State : Widen(a, b) # a => rank[Widen(a, b)] < rank[a]

(* No entry state changes more than K times past the forced widening. *)
UpdatesBounded(K) == \A u \in Nodes(fn.g) : updates[u] <= FORCE_WIDEN_AFTER + K

(* The changes a node has made and those its state has left in it. *)
ChangesLeft(K, rank) ==
    \A u \in Nodes(fn.g) : updates[u] + rank[in_states[u]] <= FORCE_WIDEN_AFTER + K

LEMMA ChangesLeftStep ==
    ASSUME FORCE_WIDEN_AFTER \in Nat, NEW State, DomainTyped(State), EngineInv(State), Step,
           NEW K \in Nat, NEW rank \in [State -> 0 .. K], WidenDescends(State, rank),
           ChangesLeft(K, rank)
    PROVE  ChangesLeft(K, rank)'
  <1>0. /\ worklist \in Seq(Nodes(fn.g)) /\ updates \in [Nodes(fn.g) -> Nat]
        /\ in_states \in [Nodes(fn.g) -> State] /\ out_states \in [Nodes(fn.g) -> State]
        /\ WellFormed(fn) /\ CallbacksTyped(fn, State) /\ worklist # <<>> /\ fn' = fn
    BY DEF EngineInv, EngineTypes, Step
  <1>1. PICK u : u = Head(worklist) OBVIOUS
  <1>2. u \in Nodes(fn.g) BY <1>0, <1>1, HeadTail
  <1>3. PICK joined : joined = Joined(fn, u, out_states) OBVIOUS
  <1>4. joined \in State
    <2>1. Preds(fn.g, u) \in Seq(Nodes(fn.g)) BY <1>0, <1>2, PredsEdge
    <2> QED BY <1>0, <1>2, <1>3, <2>1, JoinedTyped
  <1>5. PICK new_in : new_in = IF Widens(u) THEN Widen(in_states[u], joined) ELSE joined
    OBVIOUS
  <1>6. new_in \in State /\ in_states[u] \in State BY <1>0, <1>2, <1>4, <1>5 DEF DomainTyped
  <1>7. CASE new_in = in_states[u]
    <2>1. UNCHANGED <<in_states, updates>> BY <1>1, <1>3, <1>5, <1>7 DEF Step
    <2> QED BY <1>0, <2>1 DEF ChangesLeft
  <1>8. CASE new_in # in_states[u]
    <2>1. /\ updates' = [updates EXCEPT ![u] = @ + 1]
          /\ in_states' = [in_states EXCEPT ![u] = new_in]
      BY <1>1, <1>3, <1>5, <1>8 DEF Step
    <2>2. rank[new_in] \in 0 .. K /\ rank[in_states[u]] \in 0 .. K /\ updates[u] \in Nat
      BY <1>0, <1>2, <1>6
    <2>3. updates[u] + 1 + rank[new_in] <= FORCE_WIDEN_AFTER + K
      <3>1. CASE Widens(u)
        <4>1. rank[new_in] < rank[in_states[u]]
          BY <1>4, <1>5, <1>6, <1>8, <3>1 DEF WidenDescends
        <4>2. updates[u] + rank[in_states[u]] <= FORCE_WIDEN_AFTER + K
          BY <1>2 DEF ChangesLeft
        <4> QED BY <2>2, <4>1, <4>2
      <3>2. CASE ~Widens(u)
        <4>1. updates[u] < FORCE_WIDEN_AFTER BY <2>2, <3>2 DEF Widens
        <4> QED BY <2>2, <4>1
      <3> QED BY <3>1, <3>2
    <2>4. ASSUME NEW x \in Nodes(fn.g)
          PROVE  updates'[x] + rank[in_states'[x]] <= FORCE_WIDEN_AFTER + K
      <3>1. CASE x = u BY <1>0, <1>2, <2>1, <2>3, <3>1
      <3>2. CASE x # u
        <4>1. updates'[x] = updates[x] /\ in_states'[x] = in_states[x]
          BY <1>0, <1>2, <2>1, <3>2
        <4> QED BY <4>1 DEF ChangesLeft
      <3> QED BY <3>1, <3>2
    <2> QED BY <1>0, <2>4 DEF ChangesLeft
  <1> QED BY <1>7, <1>8

(* The forced widening bounds the work of solve on every graph, reducible or not: if a
   widened state can only change K times (rank counts what it has left), no node's entry
   state changes more than FORCE_WIDEN_AFTER + K times, whatever the transfer callbacks
   do and whether or not loop detection sees the cycle the node is on.  Since a turn
   of the loop that changes no entry state shortens the worklist, solve returns. *)
THEOREM EngineWorkBounded ==
    ASSUME FORCE_WIDEN_AFTER \in Nat, NEW CONSTANT State, DomainTyped(State),
           NEW CONSTANT problems, Solvable(problems, State),
           NEW CONSTANT K \in Nat, NEW CONSTANT rank \in [State -> 0 .. K],
           WidenDescends(State, rank)
    PROVE  Init(problems) /\ [][Step]_vars => []UpdatesBounded(K)
  <1>1. Init(problems) /\ [][Step]_vars => []EngineInv(State) BY EngineHolds
  <1>2. Init(problems) => ChangesLeft(K, rank)
    <2> SUFFICES ASSUME Init(problems), NEW u \in Nodes(fn.g)
                 PROVE  updates[u] + rank[in_states[u]] <= FORCE_WIDEN_AFTER + K
      BY DEF ChangesLeft
    <2>1. updates[u] = 0 /\ in_states[u] = Bottom BY DEF Init
    <2>2. rank[Bottom] \in 0 .. K BY DEF DomainTyped
    <2> QED BY <2>1, <2>2
  <1>3. EngineInv(State) /\ ChangesLeft(K, rank) /\ [Step]_vars => ChangesLeft(K, rank)'
    <2> SUFFICES ASSUME EngineInv(State), ChangesLeft(K, rank), [Step]_vars
                 PROVE  ChangesLeft(K, rank)'
      OBVIOUS
    <2>1. CASE Step BY <2>1, ChangesLeftStep
    <2>2. CASE UNCHANGED vars BY <2>2 DEF vars, ChangesLeft
    <2> QED BY <2>1, <2>2
  <1>4. EngineInv(State) /\ ChangesLeft(K, rank) => UpdatesBounded(K)
    <2> SUFFICES ASSUME EngineInv(State), ChangesLeft(K, rank), NEW u \in Nodes(fn.g)
                 PROVE  updates[u] <= FORCE_WIDEN_AFTER + K
      BY DEF UpdatesBounded
    <2>1. updates[u] \in Nat /\ in_states[u] \in State BY DEF EngineInv, EngineTypes
    <2>2. rank[in_states[u]] \in 0 .. K BY <2>1
    <2> QED BY <2>1, <2>2 DEF ChangesLeft
  <1> QED BY <1>1, <1>2, <1>3, <1>4, PTL
=============================================================================
