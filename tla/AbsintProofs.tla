---------------------------- MODULE AbsintProofs ----------------------------
(***************************************************************************)
(* What is proved of the abstract interpretation for every program: the    *)
(* order in which the control-flow graph hands its blocks to solve lists   *)
(* each reachable block once; the interval analysis meets the hypotheses   *)
(* that FixpointProofs makes about a problem and its domain; so no block   *)
(* is worked on more often than the forced widening allows, every          *)
(* execution stays within the intervals it leaves behind, and what it      *)
(* answers to a check is right.                                            *)
(***************************************************************************)
EXTENDS LoopFacts, SequenceFacts

-----------------------------------------------------------------------------
(* Depth-first search. *)

Graph(g) ==
    /\ g.node_count \in Nat /\ g.succ \in [Nodes(g) -> Seq(Nodes(g))]
    /\ g.entry \in Nodes(g)

DfsStart(g) == [stack |-> << <<g.entry, 1>> >>, visited |-> {g.entry}, order |-> <<>>]
DfsLimit(g) == 2 * g.node_count + Len(FlattenSeq(g.succ))

(* The recursion by which postorder takes m steps of the search. *)
DfsRec(g, m, h) ==
    h = [k \in 0 .. m |-> IF k = 0 THEN DfsStart(g) ELSE DfsStep(g, h[k - 1])]

LEMMA DfsExists ==
    ASSUME NEW g
    PROVE  \A m \in Nat : \E h : DfsRec(g, m, h)
  <1> DEFINE Has(m) == \E h : DfsRec(g, m, h)
             Bad == {m \in Nat : ~Has(m)}
  <1> SUFFICES ASSUME Bad # {} PROVE FALSE OBVIOUS
  <1>1. PICK m \in Bad : \A j \in Bad : m <= j
    <2>1. Bad \in SUBSET Nat OBVIOUS
    <2> HIDE DEF Bad
    <2> QED BY <2>1, LeastOf
  <1>2. m \in Nat /\ ~Has(m) BY <1>1
  <1>3. m # 0
    <2> SUFFICES ASSUME m = 0 PROVE FALSE OBVIOUS
    <2> DEFINE h == [k \in 0 .. 0 |-> DfsStart(g)]
    <2>1. DfsRec(g, 0, h) BY DEF DfsRec
    <2> QED BY <1>2, <2>1
  <1>4. m - 1 \in Nat /\ m - 1 \notin Bad
    <2>1. m - 1 \in Nat /\ ~(m <= m - 1) BY <1>2, <1>3
    <2> HIDE DEF Bad
    <2> QED BY <1>1, <2>1
  <1>5. PICK h : DfsRec(g, m - 1, h) BY <1>4
  <1> DEFINE H == [k \in 0 .. m |-> IF k = 0 THEN DfsStart(g) ELSE DfsStep(g, h[k - 1])]
  <1>6. ASSUME NEW k \in 0 .. m - 1 PROVE H[k] = h[k]
    <2>1. k \in 0 .. m BY <1>2
    <2>2. h[k] = IF k = 0 THEN DfsStart(g) ELSE DfsStep(g, h[k - 1]) BY <1>5 DEF DfsRec
    <2> QED BY <2>1, <2>2
  <1>7. DfsRec(g, m, H)
    <2>1. ASSUME NEW k \in 0 .. m, k # 0 PROVE h[k - 1] = H[k - 1]
      <3>1. k - 1 \in 0 .. m - 1 BY <1>2, <2>1
      <3> HIDE DEF H
      <3> QED BY <1>6, <3>1
    <2>2. H = [k \in 0 .. m |-> IF k = 0 THEN DfsStart(g) ELSE DfsStep(g, H[k - 1])] BY <2>1
    <2> HIDE DEF H
    <2> QED BY <2>2 DEF DfsRec
  <1> QED BY <1>2, <1>7

LEMMA PostorderIs ==
    ASSUME NEW g, DfsLimit(g) \in Nat
    PROVE  \E h : DfsRec(g, DfsLimit(g), h) /\ postorder(g) = h[DfsLimit(g)].order
  <1> DEFINE after == CHOOSE h : DfsRec(g, DfsLimit(g), h)
  <1>1. DfsRec(g, DfsLimit(g), after) BY DfsExists
  <1>2. postorder(g) = after[DfsLimit(g)].order
    BY DEF postorder, Iterate, DfsRec, DfsStart, DfsLimit
  <1> QED BY <1>1, <1>2

(* The work of the search: one mark for each out-edge of a node and one for leaving it. *)
Marks(g) == {x \in Nodes(g) \X Nat : x[2] \in 1 .. Len(g.succ[x[1]]) + 1}

OnStack(st) == {st[d][1] : d \in DOMAIN st}

(* The marks that the search has passed. *)
Passed(g, st, ord) ==
    {x \in Marks(g) : \/ x[1] \in Range(ord)
                      \/ \E d \in DOMAIN st : st[d][1] = x[1] /\ x[2] < st[d][2]}

(* Nothing is visited twice, a node is left once its successors are visited, and only what
   every closed set C with the entry holds is visited. *)
DfsInv(g, C, st, vis, ord) ==
    /\ st \in Seq(Nodes(g) \X Nat) /\ vis \in SUBSET Nodes(g) /\ ord \in Seq(Nodes(g))
    /\ \A d \in DOMAIN st : st[d] \in Marks(g)
    /\ \A d, e \in DOMAIN st : st[d][1] = st[e][1] => d = e
    /\ OnStack(st) \cap Range(ord) = {}
    /\ IsInjective(ord)
    /\ vis = OnStack(st) \cup Range(ord)
    /\ g.entry \in vis /\ vis \subseteq C
    /\ \A u \in Range(ord) : Range(g.succ[u]) \subseteq vis
    /\ \A d \in DOMAIN st : \A i \in DOMAIN g.succ[st[d][1]] :
           i < st[d][2] => g.succ[st[d][1]][i] \in vis

Closed(g, C) == g.entry \in C /\ \A u \in C \cap Nodes(g) : Range(g.succ[u]) \subseteq C

(* One step of the search keeps the invariant and passes the mark m on top of the stack. *)
Advances(g, C, st, ord, m, st1, vis1, ord1) ==
    /\ DfsInv(g, C, st1, vis1, ord1)
    /\ m \in Marks(g) \ Passed(g, st, ord)
    /\ Passed(g, st, ord) \cup {m} \subseteq Passed(g, st1, ord1)

LEMMA DfsStepKeeps ==
    ASSUME NEW g, Graph(g), NEW C, Closed(g, C), NEW s,
           DfsInv(g, C, s.stack, s.visited, s.order), s.stack # <<>>,
           NEW t, t = DfsStep(g, s)
    PROVE  \E m : Advances(g, C, s.stack, s.order, m, t.stack, t.visited, t.order)
  <1>1. PICK st, vis, ord : st = s.stack /\ vis = s.visited /\ ord = s.order OBVIOUS
  <1>4. DfsInv(g, C, st, vis, ord) /\ st # <<>> BY <1>1
  <1>2. PICK N : N = Nodes(g) OBVIOUS
  <1>3. st \in Seq(N \X Nat) /\ vis \in SUBSET N /\ ord \in Seq(N) BY <1>2, <1>4 DEF DfsInv
  <1>5. PICK n \in Nat \ {0} : n = Len(st) /\ DOMAIN st = 1 .. n BY <1>3, <1>4
  <1>a. \A d \in 1 .. n : st[d] \in Marks(g) BY <1>4, <1>5 DEF DfsInv
  <1>b. \A d, e \in 1 .. n : st[d][1] = st[e][1] => d = e BY <1>4, <1>5 DEF DfsInv
  <1>c. \A d \in 1 .. n : \A i \in DOMAIN g.succ[st[d][1]] :
          i < st[d][2] => g.succ[st[d][1]][i] \in vis
    BY <1>4, <1>5 DEF DfsInv
  <1>d. OnStack(st) \cap Range(ord) = {} /\ vis = OnStack(st) \cup Range(ord) BY <1>4 DEF DfsInv
  <1>e. \A u \in Range(ord) : Range(g.succ[u]) \subseteq vis BY <1>4 DEF DfsInv
  <1>f. IsInjective(ord) /\ g.entry \in vis /\ vis \subseteq C BY <1>4 DEF DfsInv
  <1>6. PICK node \in N, nxt \in Nat : st[n] = <<node, nxt>> BY <1>3, <1>5
  <1>7. nxt \in 1 .. Len(g.succ[node]) + 1 /\ <<node, nxt>> \in Marks(g)
    <2>1. <<node, nxt>> \in Marks(g) BY <1>a, <1>5, <1>6
    <2> QED BY <2>1 DEF Marks
  <1>8. PICK ss : ss = g.succ[node] OBVIOUS
  <1>9. ss \in Seq(N) /\ Len(ss) \in Nat /\ DOMAIN ss = 1 .. Len(ss)
    BY <1>2, <1>6, <1>8 DEF Graph
  <1>10. node \in OnStack(st) BY <1>5, <1>6 DEF OnStack
  <1>11. <<node, nxt>> \notin Passed(g, st, ord)
    <2> SUFFICES ASSUME <<node, nxt>> \in Passed(g, st, ord) PROVE FALSE OBVIOUS
    <2>1. \/ node \in Range(ord)
          \/ \E d \in DOMAIN st : st[d][1] = node /\ nxt < st[d][2]
      BY DEF Passed
    <2>2. node \notin Range(ord) BY <1>d, <1>10
    <2>3. PICK d \in 1 .. n : st[d][1] = node /\ nxt < st[d][2] BY <1>5, <2>1, <2>2
    <2>4. st[n][1] = node /\ st[n][2] = nxt /\ n \in 1 .. n BY <1>6
    <2>5. d = n BY <1>b, <2>3, <2>4
    <2> QED BY <2>3, <2>4, <2>5
  <1>12. PICK to, bumped : to = ss[nxt] /\ bumped = [st EXCEPT ![n] = <<node, nxt + 1>>] OBVIOUS
  <1>g. /\ nxt <= Len(ss) /\ to \in vis => t.stack = bumped /\ t.visited = vis /\ t.order = ord
        /\ nxt <= Len(ss) /\ to \notin vis =>
             /\ t.stack = Append(bumped, <<to, 1>>)
             /\ t.visited = vis \cup {to} /\ t.order = ord
        /\ ~(nxt <= Len(ss)) =>
             t.stack = Front(st) /\ t.visited = vis /\ t.order = Append(ord, node)
    <2>1. /\ s.stack # <<>> /\ n = Len(s.stack)
          /\ s.stack[n][1] = node /\ s.stack[n][2] = nxt
          /\ ss = g.succ[node] /\ to = ss[nxt]
          /\ bumped = [s.stack EXCEPT ![n] = <<node, nxt + 1>>]
      BY <1>1, <1>5, <1>6, <1>8, <1>12
    <2>2. t = IF nxt <= Len(ss)
              THEN IF to \in s.visited
                   THEN [stack |-> bumped, visited |-> s.visited, order |-> s.order]
                   ELSE [stack |-> Append(bumped, <<to, 1>>),
                         visited |-> s.visited \cup {to}, order |-> s.order]
              ELSE [stack |-> Front(s.stack), visited |-> s.visited,
                    order |-> Append(s.order, node)]
      BY <2>1, Zenon DEF DfsStep
    <2>3. CASE nxt <= Len(ss) /\ to \in vis BY <1>1, <2>2, <2>3
    <2>4. CASE nxt <= Len(ss) /\ to \notin vis BY <1>1, <2>2, <2>4
    <2>5. CASE ~(nxt <= Len(ss)) BY <1>1, <2>2, <2>5
    <2> QED BY <2>3, <2>4, <2>5
  <1>13. CASE nxt <= Len(ss)
    <2>2. to \in N /\ to \in C
      <3>1. nxt \in DOMAIN ss BY <1>7, <1>8, <1>9, <1>13
      <3>2. to \in Range(ss) BY <1>12, <3>1 DEF Range
      <3>3. node \in C \cap Nodes(g) BY <1>2, <1>d, <1>f, <1>6, <1>10
      <3> QED BY <1>8, <1>9, <1>12, <3>1, <3>2, <3>3 DEF Closed
    <2>4. /\ bumped \in Seq(N \X Nat) /\ Len(bumped) = n /\ DOMAIN bumped = 1 .. n
          /\ bumped[n] = <<node, nxt + 1>>
          /\ \A d \in 1 .. n : d # n => bumped[d] = st[d]
      <3>1. <<node, nxt + 1>> \in N \X Nat BY <1>6
      <3> QED BY <1>3, <1>5, <1>12, <3>1
    <2>5. \A d \in 1 .. n : bumped[d][1] = st[d][1] BY <1>6, <2>4
    <2>a. ASSUME NEW d \in 1 .. n PROVE bumped[d] \in Marks(g)
      <3>1. <<node, nxt + 1>> \in Marks(g) BY <1>2, <1>6, <1>7, <1>8, <1>9, <1>13 DEF Marks
      <3> QED BY <1>a, <2>4, <3>1
    <2>b. \A d, e \in 1 .. n : bumped[d][1] = bumped[e][1] => d = e BY <1>b, <2>5
    <2>c. ASSUME NEW v, to \in v, vis \subseteq v, NEW d \in 1 .. n,
                 NEW i \in DOMAIN g.succ[bumped[d][1]], i < bumped[d][2]
          PROVE  g.succ[bumped[d][1]][i] \in v
      <3>1. CASE d # n BY <1>c, <2>4, <2>c, <3>1
      <3>2. CASE d = n
        <4>1. i \in DOMAIN ss /\ i < nxt + 1 BY <1>8, <2>4, <2>c, <3>2
        <4>2. i = nxt \/ i < nxt BY <1>7, <1>9, <4>1
        <4>3. i < nxt => ss[i] \in vis
          <5>1. st[n][1] = node /\ st[n][2] = nxt /\ n \in 1 .. n BY <1>6
          <5> QED BY <1>c, <1>8, <4>1, <5>1
        <4>4. ss[i] \in v BY <1>12, <2>c, <4>2, <4>3
        <4> QED BY <1>8, <2>4, <3>2, <4>4
      <3> QED BY <3>1, <3>2
    <2>d. OnStack(bumped) = OnStack(st) BY <1>5, <2>4, <2>5 DEF OnStack
    <2>e. ASSUME NEW x \in Passed(g, st, ord), x[1] \notin Range(ord)
          PROVE  \E d \in 1 .. n : bumped[d][1] = x[1] /\ x[2] < bumped[d][2]
      <3>1. PICK d \in 1 .. n : st[d][1] = x[1] /\ x[2] < st[d][2]
        BY <1>5, <2>e DEF Passed
      <3>2. x[2] \in Nat BY DEF Passed, Marks
      <3>3. CASE d # n BY <2>4, <3>1, <3>3
      <3>4. CASE d = n
        <4>1. x[2] < nxt /\ x[1] = node BY <1>6, <3>1, <3>4
        <4>2. bumped[n][1] = node /\ bumped[n][2] = nxt + 1 BY <2>4
        <4> QED BY <3>2, <3>4, <4>1, <4>2
      <3> QED BY <3>3, <3>4
    <2>8. CASE to \in vis
      <3>1. t.stack = bumped /\ t.visited = vis /\ t.order = ord
        BY <1>g, <1>13, <2>8
      <3>4. DfsInv(g, C, bumped, vis, ord)
        <4>1. \A d \in 1 .. n : \A i \in DOMAIN g.succ[bumped[d][1]] :
                i < bumped[d][2] => g.succ[bumped[d][1]][i] \in vis
          BY <2>c, <2>8
        <4> QED BY <1>2, <1>3, <1>d, <1>e, <1>f, <2>4, <2>a, <2>b, <2>d, <4>1 DEF DfsInv
      <3>5. <<node, nxt>> \in Passed(g, bumped, ord)
        <4>1. n \in DOMAIN bumped /\ bumped[n][1] = node /\ nxt < bumped[n][2] BY <2>4
        <4> QED BY <1>7, <4>1 DEF Passed
      <3>6. ASSUME NEW x \in Passed(g, st, ord) PROVE x \in Passed(g, bumped, ord)
        BY <2>4, <2>e DEF Passed
      <3>7. Advances(g, C, st, ord, <<node, nxt>>, bumped, vis, ord)
        BY <1>7, <1>11, <3>4, <3>5, <3>6 DEF Advances
      <3> QED BY <1>1, <3>1, <3>7
    <2>9. CASE to \notin vis
      <3>1. PICK q : q = Append(bumped, <<to, 1>>) OBVIOUS
      <3>2. t.stack = q /\ t.visited = vis \cup {to} /\ t.order = ord
        BY <1>g, <1>13, <2>9, <3>1
      <3>4. /\ q \in Seq(N \X Nat) /\ Len(q) = n + 1 /\ DOMAIN q = 1 .. n + 1
            /\ q[n + 1] = <<to, 1>> /\ \A d \in 1 .. n : q[d] = bumped[d]
        <4>1. <<to, 1>> \in N \X Nat BY <2>2
        <4> QED BY <2>4, <3>1, <4>1
      <3>a. \A d \in 1 .. n + 1 : d \in 1 .. n \/ d = n + 1 OBVIOUS
      <3>5. OnStack(q) = OnStack(st) \cup {to}
        <4>1. OnStack(q) = {q[d][1] : d \in 1 .. n + 1} BY <3>4 DEF OnStack
        <4>2. OnStack(st) = {bumped[d][1] : d \in 1 .. n} BY <2>4, <2>d DEF OnStack
        <4>3. \A d \in 1 .. n : q[d][1] = bumped[d][1] /\ d \in 1 .. n + 1 BY <3>4
        <4>4. q[n + 1][1] = to /\ n + 1 \in 1 .. n + 1 BY <3>4
        <4> QED BY <3>a, <4>1, <4>2, <4>3, <4>4
      <3>6. to \notin OnStack(st) /\ to \notin Range(ord) BY <1>d, <2>9
      <3>7. DfsInv(g, C, q, vis \cup {to}, ord)
        <4>2. \A d \in 1 .. n + 1 : q[d] \in Marks(g)
          <5>1. <<to, 1>> \in Marks(g) BY <1>2, <2>2 DEF Marks, Graph
          <5> QED BY <2>a, <3>a, <3>4, <5>1
        <4>3. \A d, e \in 1 .. n + 1 : q[d][1] = q[e][1] => d = e
          <5>1. \A d \in 1 .. n : bumped[d][1] # to
            BY <2>4, <2>d, <3>6 DEF OnStack
          <5>2. q[n + 1][1] = to BY <3>4
          <5> QED BY <2>b, <3>a, <3>4, <5>1, <5>2
        <4>4. OnStack(q) \cap Range(ord) = {} BY <1>d, <3>5, <3>6
        <4>5. vis \cup {to} = OnStack(q) \cup Range(ord) BY <1>d, <3>5
        <4>6. \A u \in Range(ord) : Range(g.succ[u]) \subseteq vis \cup {to} BY <1>e
        <4>7. ASSUME NEW d \in 1 .. n + 1, NEW i \in DOMAIN g.succ[q[d][1]], i < q[d][2]
              PROVE  g.succ[q[d][1]][i] \in vis \cup {to}
          <5>1. CASE d \in 1 .. n
            <6>1. q[d] = bumped[d] BY <3>4, <5>1
            <6>2. vis \subseteq vis \cup {to} /\ to \in vis \cup {to} OBVIOUS
            <6> QED BY <2>c, <4>7, <5>1, <6>1, <6>2
          <5>2. CASE d = n + 1
            <6>1. i \in DOMAIN g.succ[to] /\ i < 1 BY <3>4, <4>7, <5>2
            <6>2. g.succ[to] \in Seq(N) BY <1>2, <2>2 DEF Graph
            <6> QED BY <6>1, <6>2
          <5> QED BY <3>a, <5>1, <5>2
        <4>8. g.entry \in vis \cup {to} /\ vis \cup {to} \subseteq C /\ vis \cup {to} \subseteq N
          BY <1>3, <1>f, <2>2
        <4> QED BY <1>2, <1>3, <1>f, <3>4, <4>2, <4>3, <4>4, <4>5, <4>6, <4>7, <4>8 DEF DfsInv
      <3>8. <<node, nxt>> \in Passed(g, q, ord)
        <4>1. n \in DOMAIN q /\ q[n][1] = node /\ nxt < q[n][2] BY <2>4, <3>4
        <4> QED BY <1>7, <4>1 DEF Passed
      <3>9. ASSUME NEW x \in Passed(g, st, ord) PROVE x \in Passed(g, q, ord)
        <4>1. CASE x[1] \in Range(ord) BY <4>1 DEF Passed
        <4>2. CASE x[1] \notin Range(ord)
          <5>1. PICK d \in 1 .. n : bumped[d][1] = x[1] /\ x[2] < bumped[d][2]
            BY <2>e, <4>2
          <5>2. d \in DOMAIN q /\ q[d] = bumped[d] BY <3>4
          <5> QED BY <5>1, <5>2 DEF Passed
        <4> QED BY <4>1, <4>2
      <3>10. Advances(g, C, st, ord, <<node, nxt>>, q, vis \cup {to}, ord)
        BY <1>7, <1>11, <3>7, <3>8, <3>9 DEF Advances
      <3> QED BY <1>1, <3>2, <3>10
    <2> QED BY <2>8, <2>9
  <1>14. CASE ~(nxt <= Len(ss))
    <2>1. PICK q, o : q = Front(st) /\ o = Append(ord, node) OBVIOUS
    <2>2. t.stack = q /\ t.visited = vis /\ t.order = o
      BY <1>g, <1>14, <2>1
    <2>4. /\ q \in Seq(N \X Nat) /\ Len(q) = n - 1 /\ DOMAIN q = 1 .. n - 1
          /\ \A d \in 1 .. n - 1 : q[d] = st[d] /\ d \in 1 .. n /\ d # n
      BY <1>3, <1>5, <2>1, SMTT(30) DEF Front
    <2>a. \A d \in 1 .. n : d \in 1 .. n - 1 \/ d = n OBVIOUS
    <2>5. o \in Seq(N) /\ Range(o) = Range(ord) \cup {node}
      BY <1>3, <1>6, <2>1, AppendRange
    <2>6. node \notin Range(ord) BY <1>d, <1>10
    <2>b. st[n][1] = node /\ st[n][2] = nxt /\ n \in 1 .. n BY <1>6
    <2>7. OnStack(q) = OnStack(st) \ {node}
      <3>1. OnStack(q) = {q[d][1] : d \in 1 .. n - 1} BY <2>4 DEF OnStack
      <3>2. OnStack(st) = {st[d][1] : d \in 1 .. n} BY <1>5 DEF OnStack
      <3>3. \A d \in 1 .. n - 1 : q[d][1] = st[d][1] BY <2>4
      <3>4. \A d \in 1 .. n - 1 : st[d][1] # node BY <1>b, <2>4, <2>b
      <3> QED BY <2>4, <2>a, <2>b, <3>1, <3>2, <3>3, <3>4, SMTT(30)
    <2>9. nxt = Len(ss) + 1 BY <1>7, <1>8, <1>9, <1>14
    <2>10. DfsInv(g, C, q, vis, o)
      <3>2. \A d \in 1 .. n - 1 : q[d] \in Marks(g) BY <1>a, <2>4
      <3>3. \A d, e \in 1 .. n - 1 : q[d][1] = q[e][1] => d = e BY <1>b, <2>4
      <3>4. OnStack(q) \cap Range(o) = {} BY <1>d, <2>5, <2>7
      <3>5. IsInjective(o)
        <4>1. PICK k \in Nat : k = Len(ord) /\ DOMAIN ord = 1 .. k BY <1>3
        <4>2. DOMAIN o = 1 .. k + 1 /\ o[k + 1] = node /\ \A i \in 1 .. k : o[i] = ord[i]
          BY <1>3, <1>6, <2>1, <4>1
        <4>3. \A i \in 1 .. k : ord[i] # node BY <2>6, <4>1 DEF Range
        <4>4. \A i, j \in 1 .. k : ord[i] = ord[j] => i = j BY <1>f, <4>1 DEF IsInjective
        <4>5. \A i \in 1 .. k + 1 : i \in 1 .. k \/ i = k + 1 OBVIOUS
        <4> QED BY <4>2, <4>3, <4>4, <4>5 DEF IsInjective
      <3>6. vis = OnStack(q) \cup Range(o) BY <1>d, <1>10, <2>5, <2>7
      <3>7. Range(ss) \subseteq vis
        <4>1. \A i \in DOMAIN ss : i < nxt BY <1>9, <2>9
        <4>2. \A i \in DOMAIN ss : ss[i] \in vis BY <1>c, <1>8, <2>b, <4>1
        <4> QED BY <4>2 DEF Range
      <3>8. \A u \in Range(o) : Range(g.succ[u]) \subseteq vis BY <1>e, <1>8, <2>5, <3>7
      <3>9. ASSUME NEW d \in 1 .. n - 1
            PROVE  \A i \in DOMAIN g.succ[q[d][1]] :
                     i < q[d][2] => g.succ[q[d][1]][i] \in vis
        <4>1. q[d] = st[d] /\ d \in 1 .. n BY <2>4
        <4> QED BY <1>c, <4>1
      <3> QED BY <1>2, <1>3, <1>f, <2>4, <2>5, <3>2, <3>3, <3>4, <3>5, <3>6, <3>8, <3>9 DEF DfsInv
    <2>11. <<node, nxt>> \in Passed(g, q, o) BY <1>7, <2>5 DEF Passed
    <2>12. ASSUME NEW x \in Passed(g, st, ord) PROVE x \in Passed(g, q, o)
      <3>1. CASE x[1] \in Range(o) BY <3>1 DEF Passed
      <3>2. CASE x[1] \notin Range(o)
        <4>1. PICK d \in 1 .. n : st[d][1] = x[1] /\ x[2] < st[d][2]
          BY <1>5, <2>5, <3>2 DEF Passed
        <4>2. d # n BY <2>5, <2>b, <3>2, <4>1
        <4>3. d \in DOMAIN q /\ q[d] = st[d] BY <2>a, <2>4, <4>2
        <4> QED BY <4>1, <4>3 DEF Passed
      <3> QED BY <3>1, <3>2
    <2>13. Advances(g, C, st, ord, <<node, nxt>>, q, vis, o)
      BY <1>7, <1>11, <2>10, <2>11, <2>12 DEF Advances
    <2> QED BY <1>1, <2>2, <2>13
  <1> QED BY <1>13, <1>14

(* There are no more marks than the steps postorder allows the search. *)
LEMMA MarksBounded ==
    ASSUME NEW g, Graph(g)
    PROVE  /\ DfsLimit(g) \in Nat /\ IsFiniteSet(Marks(g))
           /\ Cardinality(Marks(g)) <= DfsLimit(g)
  <1>1. PICK n \in Nat \ {0} : n = g.node_count /\ Nodes(g) = 1 .. n BY DEF Graph, Nodes
  <1>2. PICK ss \in [1 .. n -> Seq(1 .. n)] : ss = g.succ BY <1>1 DEF Graph
  <1>3. Len(ss) = n OBVIOUS
  <1>4. PICK h : FlatRec(ss, n, h) /\ FlattenSeq(ss) = h[n] BY <1>3, FlattenIs
  <1>5. \A i \in 1 .. n : h[i] = IF i = 1 THEN ss[i] ELSE h[i - 1] \o ss[i] BY <1>4 DEF FlatRec
  <1>6. \A i \in 1 .. n : h[i] \in Seq(1 .. n)
    <2> DEFINE Bad == {i \in 1 .. n : h[i] \notin Seq(1 .. n)}
    <2> SUFFICES ASSUME Bad # {} PROVE FALSE OBVIOUS
    <2>1. PICK i \in Bad : \A j \in Bad : i <= j
      <3>1. Bad \in SUBSET Nat OBVIOUS
      <3> HIDE DEF Bad
      <3> QED BY <3>1, LeastOf
    <2>2. i # 1 BY <1>5, <2>1
    <2>3. i - 1 \in 1 .. n /\ i - 1 \notin Bad
      <3>1. i - 1 \in 1 .. n /\ ~(i <= i - 1) BY <2>1, <2>2
      <3> HIDE DEF Bad
      <3> QED BY <2>1, <3>1
    <2>4. h[i - 1] \in Seq(1 .. n) /\ ss[i] \in Seq(1 .. n) BY <2>1, <2>3
    <2>5. h[i - 1] \o ss[i] \in Seq(1 .. n) BY <2>4
    <2>6. h[i] = h[i - 1] \o ss[i] BY <1>5, <2>1, <2>2
    <2> QED BY <2>1, <2>5, <2>6
  <1>7. PICK off : off = [i \in 0 .. n |-> IF i = 0 THEN 0 ELSE Len(h[i]) + i] OBVIOUS
  <1>8. ASSUME NEW i \in 1 .. n
        PROVE  /\ off[i] \in Nat /\ off[i - 1] \in Nat /\ Len(ss[i]) \in Nat
               /\ off[i] = off[i - 1] + Len(ss[i]) + 1
    <2>1. h[i] \in Seq(1 .. n) /\ ss[i] \in Seq(1 .. n) BY <1>6
    <2>2. off[i] = Len(h[i]) + i /\ off[i - 1] = IF i = 1 THEN 0 ELSE Len(h[i - 1]) + i - 1
      BY <1>7
    <2>3. CASE i = 1
      <3>1. h[i] = ss[i] BY <1>5, <2>3
      <3> QED BY <2>1, <2>2, <2>3, <3>1
    <2>4. CASE i # 1
      <3>1. i - 1 \in 1 .. n BY <2>4
      <3>2. h[i - 1] \in Seq(1 .. n) BY <1>6, <3>1
      <3>a. h[i] = h[i - 1] \o ss[i] BY <1>5, <2>4
      <3>3. Len(h[i]) = Len(h[i - 1]) + Len(ss[i])
        <4>1. PICK p \in Seq(1 .. n), q \in Seq(1 .. n) : p = h[i - 1] /\ q = ss[i]
          BY <2>1, <3>2
        <4>2. Len(p \o q) = Len(p) + Len(q) OBVIOUS
        <4> QED BY <3>a, <4>1, <4>2
      <3> QED BY <2>1, <2>2, <2>4, <3>2, <3>3
    <2> QED BY <2>3, <2>4
  <1>9. ASSUME NEW i \in 1 .. n PROVE \A j \in 0 .. n : i <= j => off[i] <= off[j]
    <2> DEFINE Bad == {j \in 0 .. n : i <= j /\ ~(off[i] <= off[j])}
    <2> SUFFICES ASSUME Bad # {} PROVE FALSE OBVIOUS
    <2>1. PICK j \in Bad : \A k \in Bad : j <= k
      <3>1. Bad \in SUBSET Nat OBVIOUS
      <3> HIDE DEF Bad
      <3> QED BY <3>1, LeastOf
    <2>2. j \in 0 .. n /\ i <= j /\ ~(off[i] <= off[j]) BY <2>1
    <2>3. off[i] \in Nat BY <1>8
    <2>4. j \in 1 .. n /\ j # i BY <2>2, <2>3
    <2>5. j - 1 \in 0 .. n /\ i <= j - 1 /\ ~(j <= j - 1) BY <2>2, <2>4
    <2>6. off[i] <= off[j - 1]
      <3>1. j - 1 \notin Bad
        <4> HIDE DEF Bad
        <4> QED BY <2>1, <2>5
      <3> QED BY <2>5, <3>1
    <2>7. off[j] = off[j - 1] + Len(ss[j]) + 1 /\ off[j - 1] \in Nat /\ Len(ss[j]) \in Nat
      BY <1>8, <2>4
    <2> QED BY <2>2, <2>3, <2>6, <2>7
  <1> DEFINE f == [x \in Marks(g) |-> off[x[1] - 1] + x[2]]
         Sits(x, v, u, k) == /\ x = <<u, k>> /\ v = off[u - 1] + k
                             /\ off[u - 1] < v /\ v <= off[u]
  <1>10. ASSUME NEW x \in Marks(g)
         PROVE  /\ f[x] \in Nat /\ f[x] \in 1 .. off[n]
                /\ \E u \in 1 .. n, k \in Nat : Sits(x, f[x], u, k)
    <2>1. PICK u \in 1 .. n, k \in Nat : x = <<u, k>> /\ k \in 1 .. Len(ss[u]) + 1
      BY <1>1, <1>2 DEF Marks
    <2>2. PICK lo \in Nat, hi \in Nat, l \in Nat :
            lo = off[u - 1] /\ hi = off[u] /\ l = Len(ss[u]) /\ hi = lo + l + 1
      BY <1>8
    <2>3. hi <= off[n] /\ off[n] \in Nat BY <1>8, <1>9, <2>2
    <2>4. f[x] = lo + k BY <2>1, <2>2
    <2>5. PICK v \in Nat : v = lo + k OBVIOUS
    <2>6. lo < v /\ v <= hi /\ v <= off[n] /\ v \in 1 .. off[n]
      <3>1. k >= 1 /\ k <= l + 1 BY <2>1, <2>2
      <3>2. hi = lo + l + 1 BY <2>2
      <3>3. lo < v /\ v <= hi BY <2>5, <3>1, <3>2
      <3> QED BY <2>3, <3>3
    <2>7. f[x] = v BY <2>4, <2>5
    <2>8. Sits(x, v, u, k) BY <2>1, <2>2, <2>5, <2>6
    <2> HIDE DEF f, Sits
    <2> QED BY <2>6, <2>7, <2>8
  <1>11. ASSUME NEW x \in Marks(g), NEW y \in Marks(g), f[x] = f[y] PROVE x = y
    <2>1. PICK v \in Nat : v = f[x]
      <3> HIDE DEF f, Sits
      <3> QED BY <1>10
    <2>2. PICK u \in 1 .. n, k \in Nat : Sits(x, v, u, k)
      <3> HIDE DEF f, Sits
      <3> QED BY <1>10, <2>1
    <2>3. PICK w \in 1 .. n, m \in Nat : Sits(y, v, w, m)
      <3> HIDE DEF f, Sits
      <3> QED BY <1>10, <1>11, <2>1
    <2>4. PICK lo \in Nat, hi \in Nat, lo2 \in Nat, hi2 \in Nat :
            lo = off[u - 1] /\ hi = off[u] /\ lo2 = off[w - 1] /\ hi2 = off[w]
      BY <1>8
    <2>5. ~(u < w)
      <3> SUFFICES ASSUME u < w PROVE FALSE OBVIOUS
      <3>1. w - 1 \in 0 .. n /\ u <= w - 1 OBVIOUS
      <3>2. hi <= lo2 BY <1>9, <2>4, <3>1
      <3>3. lo2 < v /\ v <= hi BY <2>2, <2>3, <2>4
      <3> QED BY <3>2, <3>3
    <2>6. ~(w < u)
      <3> SUFFICES ASSUME w < u PROVE FALSE OBVIOUS
      <3>1. u - 1 \in 0 .. n /\ w <= u - 1 OBVIOUS
      <3>2. hi2 <= lo BY <1>9, <2>4, <3>1
      <3>3. lo < v /\ v <= hi2 BY <2>2, <2>3, <2>4
      <3> QED BY <3>2, <3>3
    <2>7. u = w BY <2>5, <2>6
    <2>8. k = m
      <3>1. v = lo + k /\ v = lo + m BY <2>2, <2>3, <2>4, <2>7
      <3>2. \A a, b, c \in Nat : a + b = a + c => b = c OBVIOUS
      <3> QED BY <3>1, <3>2
    <2> QED BY <2>2, <2>3, <2>7, <2>8
  <1>12. f \in Injection(Marks(g), 1 .. off[n])
    <2>1. \A x \in Marks(g) : f[x] \in 1 .. off[n]
      <3> HIDE DEF f, Sits
      <3> QED BY <1>10
    <2>2. DOMAIN f = Marks(g) /\ f \in [Marks(g) -> 1 .. off[n]] BY <2>1
    <2> HIDE DEF f
    <2> QED BY <1>11, <2>2 DEF Injection, IsInjective
  <1>13. off[n] \in Nat /\ off[n] = Len(h[n]) + n /\ h[n] \in Seq(1 .. n) BY <1>6, <1>7, <1>8
  <1>14. IsFiniteSet(1 .. off[n]) /\ Cardinality(1 .. off[n]) = off[n] BY <1>13, FS_Interval
  <1>15. IsFiniteSet(Marks(g)) /\ Cardinality(Marks(g)) <= off[n]
    <2> HIDE DEF f
    <2> QED BY <1>12, <1>14, FS_Injection
  <1>16. DfsLimit(g) = n + off[n] BY <1>1, <1>2, <1>4, <1>13 DEF DfsLimit
  <1>17. Cardinality(Marks(g)) \in Nat BY <1>15, FS_CardinalityType
  <1> QED BY <1>13, <1>15, <1>16, <1>17, SMTT(30)
DfsSound(g, C, k, s) ==
    /\ DfsInv(g, C, s.stack, s.visited, s.order)
    /\ s.stack # <<>> => k <= Cardinality(Passed(g, s.stack, s.order))

LEMMA DfsStartSound ==
    ASSUME NEW g, Graph(g), NEW C, Closed(g, C)
    PROVE  DfsSound(g, C, 0, DfsStart(g))
  <1>1. PICK st, vis, ord : st = << <<g.entry, 1>> >> /\ vis = {g.entry} /\ ord = <<>> OBVIOUS
  <1>2. DfsStart(g).stack = st /\ DfsStart(g).visited = vis /\ DfsStart(g).order = ord
    BY <1>1 DEF DfsStart
  <1>3. PICK N, e : N = Nodes(g) /\ e = g.entry /\ e \in N BY DEF Graph
  <1>4. st \in Seq(N \X Nat) /\ DOMAIN st = 1 .. 1 /\ st[1] = <<e, 1>> BY <1>1, <1>3
  <1>5. ord \in Seq(N) /\ DOMAIN ord = {} /\ Range(ord) = {} BY <1>1 DEF Range
  <1>6. OnStack(st) = {e} BY <1>4 DEF OnStack
  <1>7. <<e, 1>> \in Marks(g) BY <1>3 DEF Marks, Graph
  <1>8. \A d \in DOMAIN st : \A i \in DOMAIN g.succ[st[d][1]] :
          i < st[d][2] => g.succ[st[d][1]][i] \in vis
    <2>1. g.succ[e] \in Seq(N) BY <1>3 DEF Graph
    <2>2. \A i \in DOMAIN g.succ[e] : ~(i < 1) BY <2>1
    <2> QED BY <1>4, <2>2
  <1>9. DfsInv(g, C, st, vis, ord)
    <2>1. vis = {e} /\ e \in C /\ vis \in SUBSET N BY <1>1, <1>3 DEF Closed
    <2>2. \A d \in DOMAIN st : d = 1 BY <1>4
    <2> QED BY <1>3, <1>4, <1>5, <1>6, <1>7, <1>8, <2>1, <2>2 DEF DfsInv, IsInjective
  <1>10. Cardinality(Passed(g, st, ord)) \in Nat
    <2>1. Passed(g, st, ord) \in SUBSET Marks(g) BY DEF Passed
    <2> QED BY <2>1, MarksBounded, FS_Subset, FS_CardinalityType
  <1> QED BY <1>2, <1>9, <1>10 DEF DfsSound

LEMMA DfsStepSound ==
    ASSUME NEW g, Graph(g), NEW C, Closed(g, C), NEW k \in Nat, NEW s, DfsSound(g, C, k, s)
    PROVE  DfsSound(g, C, k + 1, DfsStep(g, s))
  <1>1. CASE s.stack = <<>>
    <2>1. DfsStep(g, s) = s BY <1>1 DEF DfsStep
    <2> QED BY <1>1, <2>1 DEF DfsSound
  <1>2. CASE s.stack # <<>>
    <2>1. PICK t : t = DfsStep(g, s) OBVIOUS
    <2>2. PICK m : Advances(g, C, s.stack, s.order, m, t.stack, t.visited, t.order)
      BY <1>2, <2>1, DfsStepKeeps DEF DfsSound
    <2>3. PICK P, Q : P = Passed(g, s.stack, s.order) /\ Q = Passed(g, t.stack, t.order) OBVIOUS
    <2>4. P \in SUBSET Marks(g) /\ Q \in SUBSET Marks(g) BY <2>3 DEF Passed
    <2>5. IsFiniteSet(P) /\ IsFiniteSet(Q) BY <2>4, MarksBounded, FS_Subset
    <2>6. m \notin P /\ P \cup {m} \in SUBSET Q BY <2>2, <2>3 DEF Advances
    <2>7. Cardinality(P \cup {m}) = Cardinality(P) + 1 BY <2>5, <2>6, FS_AddElement
    <2>8. Cardinality(P \cup {m}) <= Cardinality(Q) BY <2>5, <2>6, FS_Subset
    <2>9. Cardinality(P) \in Nat /\ Cardinality(Q) \in Nat BY <2>5, FS_CardinalityType
    <2>10. k <= Cardinality(P) BY <1>2, <2>3 DEF DfsSound
    <2>11. k + 1 <= Cardinality(Q) BY <2>7, <2>8, <2>9, <2>10
    <2> QED BY <2>1, <2>2, <2>3, <2>11 DEF DfsSound, Advances
  <1> QED BY <1>1, <1>2

LEMMA DfsRuns ==
    ASSUME NEW g, Graph(g), NEW C, Closed(g, C), NEW n \in Nat, NEW h, DfsRec(g, n, h)
    PROVE  \A k \in 0 .. n : DfsSound(g, C, k, h[k])
  <1> DEFINE Bad == {k \in 0 .. n : ~DfsSound(g, C, k, h[k])}
  <1> SUFFICES ASSUME Bad # {} PROVE FALSE OBVIOUS
  <1>1. PICK k \in Bad : \A j \in Bad : k <= j
    <2>1. Bad \in SUBSET Nat OBVIOUS
    <2> HIDE DEF Bad
    <2> QED BY <2>1, LeastOf
  <1>2. k \in 0 .. n /\ ~DfsSound(g, C, k, h[k]) BY <1>1
  <1>3. h[k] = IF k = 0 THEN DfsStart(g) ELSE DfsStep(g, h[k - 1]) BY <1>2 DEF DfsRec
  <1>4. CASE k = 0 BY <1>2, <1>3, <1>4, DfsStartSound
  <1>5. CASE k # 0
    <2>1. PICK j \in Nat : j = k - 1 /\ k = j + 1 /\ j \in 0 .. n /\ ~(k <= j) BY <1>2, <1>5
    <2>2. j \notin Bad
      <3> HIDE DEF Bad
      <3> QED BY <1>1, <2>1
    <2>3. DfsSound(g, C, j, h[j]) BY <2>1, <2>2
    <2>4. DfsSound(g, C, j + 1, DfsStep(g, h[j])) BY <2>3, DfsStepSound
    <2> QED BY <1>2, <1>3, <1>5, <2>1, <2>4
  <1> QED BY <1>4, <1>5

LEMMA PostorderExact ==
    ASSUME NEW g, Graph(g), NEW C, Closed(g, C)
    PROVE  LET order == postorder(g)
           IN  /\ order \in Seq(Nodes(g)) /\ IsInjective(order)
               /\ Closed(g, Range(order)) /\ Range(order) \subseteq C
  <1>1. PICK n \in Nat : n = DfsLimit(g) /\ Cardinality(Marks(g)) <= n /\ IsFiniteSet(Marks(g))
    BY MarksBounded
  <1>2. PICK h : DfsRec(g, n, h) /\ postorder(g) = h[n].order BY <1>1, PostorderIs
  <1>3. PICK s : s = h[n] /\ DfsSound(g, C, n, s) BY <1>2, DfsRuns
  <1>4. s.stack = <<>>
    <2> SUFFICES ASSUME s.stack # <<>> PROVE FALSE OBVIOUS
    <2>1. PICK t : t = DfsStep(g, s) OBVIOUS
    <2>2. PICK m : Advances(g, C, s.stack, s.order, m, t.stack, t.visited, t.order)
      BY <1>3, <2>1, DfsStepKeeps DEF DfsSound
    <2>3. PICK P : P = Passed(g, s.stack, s.order) OBVIOUS
    <2>4. P \in SUBSET Marks(g) /\ P # Marks(g) BY <2>2, <2>3 DEF Passed, Advances
    <2>5. Cardinality(P) <= Cardinality(Marks(g)) /\ Cardinality(P) # Cardinality(Marks(g))
      BY <1>1, <2>4, FS_Subset
    <2>6. n <= Cardinality(P) BY <1>3, <2>3 DEF DfsSound
    <2>7. Cardinality(P) \in Nat /\ Cardinality(Marks(g)) \in Nat
      BY <1>1, <2>4, FS_Subset, FS_CardinalityType
    <2> QED BY <1>1, <2>5, <2>6, <2>7
  <1>5. PICK ord : ord = s.order OBVIOUS
  <1>6. DfsInv(g, C, <<>>, s.visited, ord) BY <1>3, <1>4, <1>5 DEF DfsSound
  <1>7. OnStack(<<>>) = {} BY DEF OnStack
  <1>8. s.visited = Range(ord) BY <1>6, <1>7 DEF DfsInv
  <1>9. ord \in Seq(Nodes(g)) /\ IsInjective(ord) /\ Closed(g, Range(ord)) /\ Range(ord) \subseteq C
    BY <1>6, <1>8 DEF DfsInv, Closed
  <1> QED BY <1>2, <1>3, <1>5, <1>9

(* reverse_postorder, which the fixpoint engine and the executor walk the blocks by,
   lists the blocks reachable from the entry, each of them once and no other: what it
   holds has the entry, is closed under successors, and lies in every set that is.  The
   search with its explicit stack gets there within two steps per node and one per
   edge, on every graph, with cycles and parallel edges. *)
THEOREM ReversePostorderExact ==
    ASSUME NEW g, Graph(g)
    PROVE  LET order == reverse_postorder(g)
           IN  /\ order \in Seq(Nodes(g)) /\ IsInjective(order)
               /\ Closed(g, Range(order))
               /\ \A C : Closed(g, C) => Range(order) \subseteq C
  <1>1. PICK post : post = postorder(g) OBVIOUS
  <1>2. Closed(g, Nodes(g))
    <2>1. \A u \in Nodes(g) : Range(g.succ[u]) \subseteq Nodes(g)
      <3> SUFFICES ASSUME NEW u \in Nodes(g) PROVE Range(g.succ[u]) \subseteq Nodes(g) OBVIOUS
      <3>1. g.succ[u] \in Seq(Nodes(g)) BY DEF Graph
      <3> QED BY <3>1 DEF Range
    <2> QED BY <2>1 DEF Closed, Graph
  <1>3. post \in Seq(Nodes(g)) /\ IsInjective(post) /\ Closed(g, Range(post))
    BY <1>1, <1>2, PostorderExact
  <1>4. \A C : Closed(g, C) => Range(post) \subseteq C BY <1>1, PostorderExact
  <1>5. PICK n \in Nat : n = Len(post) /\ DOMAIN post = 1 .. n BY <1>3
  <1>6. PICK order : order = [i \in 1 .. n |-> post[(n - i) + 1]] OBVIOUS
  <1>7. reverse_postorder(g) = order BY <1>1, <1>5, <1>6 DEF reverse_postorder, Reverse
  <1>8. \A i \in 1 .. n : (n - i) + 1 \in 1 .. n /\ (n - ((n - i) + 1)) + 1 = i OBVIOUS
  <1>9. order \in Seq(Nodes(g))
    <2>1. \A i \in 1 .. n : post[i] \in Nodes(g) BY <1>3, <1>5
    <2>2. order \in [1 .. n -> Nodes(g)] BY <1>6, <1>8, <2>1
    <2> QED BY <2>2
  <1>10. Range(order) = Range(post)
    <2>1. \A i \in 1 .. n : order[i] \in Range(post) BY <1>5, <1>6, <1>8 DEF Range
    <2>2. \A i \in 1 .. n : order[(n - i) + 1] = post[i] BY <1>6, <1>8
    <2>3. \A i \in 1 .. n : post[i] \in Range(order) BY <1>6, <1>8, <2>2 DEF Range
    <2>4. Range(order) \subseteq Range(post) BY <1>6, <2>1 DEF Range
    <2>5. Range(post) \subseteq Range(order)
      <3> SUFFICES ASSUME NEW i \in DOMAIN post PROVE post[i] \in Range(order) BY DEF Range
      <3> QED BY <1>5, <2>3
    <2> QED BY <2>4, <2>5
  <1>11. IsInjective(order)
    <2>1. \A i, j \in 1 .. n : post[i] = post[j] => i = j BY <1>3, <1>5 DEF IsInjective
    <2>2. ASSUME NEW i \in 1 .. n, NEW j \in 1 .. n, order[i] = order[j] PROVE i = j
      <3>1. post[(n - i) + 1] = post[(n - j) + 1] BY <1>6, <2>2
      <3>2. (n - i) + 1 = (n - j) + 1 BY <1>8, <2>1, <3>1
      <3> QED BY <3>2
    <2> QED BY <1>6, <2>2 DEF IsInjective
  <1> QED BY <1>3, <1>4, <1>7, <1>9, <1>10, <1>11
-----------------------------------------------------------------------------
(* The interval domain. *)

Bounds    == NegInf .. PosInf
Intervals == {Empty} \cup (Bounds \X Bounds)
Envs(R)   == {Unreachable} \cup [R -> Intervals]

LEMMA MaxMin ==
    ASSUME NEW a \in Int, NEW b \in Int
    PROVE  /\ Max({a, b}) \in Int /\ Min({a, b}) \in Int
           /\ Max({a, b}) = IF a >= b THEN a ELSE b
           /\ Min({a, b}) = IF a <= b THEN a ELSE b
  <1>1. \E x \in {a, b} : \A y \in {a, b} : x >= y OBVIOUS
  <1>2. \E x \in {a, b} : \A y \in {a, b} : x <= y OBVIOUS
  <1>3. Max({a, b}) \in {a, b} /\ \A y \in {a, b} : Max({a, b}) >= y BY <1>1 DEF Max
  <1>4. Min({a, b}) \in {a, b} /\ \A y \in {a, b} : Min({a, b}) <= y BY <1>2 DEF Min
  <1> QED BY <1>3, <1>4

LEMMA CornersMaxMin ==
    ASSUME NEW a \in Int, NEW b \in Int, NEW c \in Int, NEW d \in Int
    PROVE  /\ Max({a, b, c, d}) \in {a, b, c, d} /\ Min({a, b, c, d}) \in {a, b, c, d}
           /\ \A x \in {a, b, c, d} : Min({a, b, c, d}) <= x /\ x <= Max({a, b, c, d})
  <1>1. \E x \in {a, b, c, d} : \A y \in {a, b, c, d} : x >= y OBVIOUS
  <1>2. \E x \in {a, b, c, d} : \A y \in {a, b, c, d} : x <= y OBVIOUS
  <1>3. Max({a, b, c, d}) \in {a, b, c, d} /\ \A y \in {a, b, c, d} : Max({a, b, c, d}) >= y
    BY <1>1 DEF Max
  <1>4. Min({a, b, c, d}) \in {a, b, c, d} /\ \A y \in {a, b, c, d} : Min({a, b, c, d}) <= y
    BY <1>2 DEF Min
  <1> QED BY <1>3, <1>4

LEMMA InfTyped ==
    /\ Lim \in Nat /\ FORCE_WIDEN_AFTER \in Nat
    /\ NegInf = -Lim - 2 /\ PosInf = Lim + 1 /\ NegInf \in Int /\ PosInf \in Int
  BY AbsintAssumption DEF NegInf, PosInf

LEMMA Literals ==
    /\ Empty \in Intervals /\ Full \in Intervals
    /\ \A n \in -Lim - 1 .. Lim : singleton(n) \in Intervals
    /\ <<0, 1>> \in Intervals
  BY InfTyped DEF Intervals, Empty, Full, singleton, Bounds

(* Saturating keeps an integer within the bounds and agrees with it there. *)
LEMMA Saturates ==
    ASSUME NEW n \in Int
    PROVE  /\ Saturate(n) \in Bounds
           /\ Saturate(n) = IF n < NegInf THEN NegInf ELSE IF n > PosInf THEN PosInf ELSE n
  <1>1. PICK m \in Int : m = Min({PosInf, n}) /\ m = IF PosInf <= n THEN PosInf ELSE n
    BY InfTyped, MaxMin
  <1>2. Max({NegInf, m}) = IF NegInf >= m THEN NegInf ELSE m BY InfTyped, MaxMin
  <1>3. Saturate(n) = IF NegInf >= m THEN NegInf ELSE m BY <1>1, <1>2 DEF Saturate
  <1> QED BY <1>1, <1>3, InfTyped DEF Bounds

LEMMA BoundsTyped ==
    ASSUME NEW a \in Bounds, NEW b \in Bounds
    PROVE  BoundAdd(a, b) \in Bounds /\ BoundNeg(a) \in Bounds /\ BoundMul(a, b) \in Bounds
  <1>0. /\ a \in Int /\ b \in Int /\ NegInf \in Bounds /\ PosInf \in Bounds /\ 0 \in Bounds
    BY InfTyped DEF Bounds
  <1>2. BoundAdd(a, b) \in Bounds
    <2>1. a + b \in Int BY <1>0
    <2>2. Saturate(a + b) \in Bounds BY <2>1, Saturates
    <2> QED BY <1>0, <2>2 DEF BoundAdd
  <1>3. BoundNeg(a) \in Bounds
    <2>1. -a \in Int /\ Lim \in Int BY <1>0, InfTyped
    <2>2. Min({-a, Lim}) = IF -a <= Lim THEN -a ELSE Lim BY <2>1, MaxMin
    <2>3. a # PosInf => Min({-a, Lim}) \in Bounds BY <1>0, <2>2, InfTyped DEF Bounds
    <2> QED BY <1>0, <2>3 DEF BoundNeg
  <1>4. BoundMul(a, b) \in Bounds
    <2>1. a * b \in Int BY <1>0
    <2>2. Saturate(a * b) \in Bounds BY <2>1, Saturates
    <2> QED BY <1>0, <2>2 DEF BoundMul
  <1> QED BY <1>2, <1>3, <1>4

(* The values of the interval operations are intervals. *)
LEMMA OperationsTyped ==
    ASSUME NEW i \in Intervals, NEW j \in Intervals
    PROVE  /\ meet(i, j) \in Intervals /\ join(i, j) \in Intervals /\ widen(i, j) \in Intervals
           /\ IAdd(i, j) \in Intervals /\ ISub(i, j) \in Intervals /\ IMul(i, j) \in Intervals
           /\ \A strict \in BOOLEAN : /\ as_upper_constraint(i, strict) \in Intervals
                                      /\ as_lower_constraint(i, strict) \in Intervals
  <1> USE DEF IsEmpty
  <1>a. /\ NegInf \in Bounds /\ PosInf \in Bounds /\ -1 \in Bounds /\ 1 \in Bounds
        /\ Bounds \subseteq Int
    BY InfTyped DEF Bounds
  <1>1. \A k \in Intervals : k # Empty => k[1] \in Bounds /\ k[2] \in Bounds BY DEF Intervals
  <1>2. \A a, b \in Bounds : <<a, b>> \in Intervals BY DEF Intervals
  <1>3. Empty \in Intervals BY DEF Intervals
  <1>4. \A k, l \in Intervals : IAdd(k, l) \in Intervals
    <2> SUFFICES ASSUME NEW k \in Intervals, NEW l \in Intervals PROVE IAdd(k, l) \in Intervals
      OBVIOUS
    <2>1. CASE k = Empty \/ l = Empty BY <1>3, <2>1 DEF IAdd
    <2>2. CASE k # Empty /\ l # Empty
      <3>1. BoundAdd(k[1], l[1]) \in Bounds /\ BoundAdd(k[2], l[2]) \in Bounds
        BY <1>1, <2>2, BoundsTyped
      <3> QED BY <1>2, <2>2, <3>1 DEF IAdd
    <2> QED BY <2>1, <2>2
  <1>5. INeg(j) \in Intervals
    <2>1. CASE j = Empty BY <1>3, <2>1 DEF INeg
    <2>2. CASE j # Empty
      <3>1. BoundNeg(j[1]) \in Bounds /\ BoundNeg(j[2]) \in Bounds BY <1>1, <2>2, BoundsTyped
      <3> QED BY <1>2, <2>2, <3>1 DEF INeg
    <2> QED BY <2>1, <2>2
  <1>6. ISub(i, j) \in Intervals BY <1>4, <1>5 DEF ISub
  <1>7. IMul(i, j) \in Intervals
    <2>1. CASE i = Empty \/ j = Empty BY <1>3, <2>1 DEF IMul
    <2>2. CASE i # Empty /\ j # Empty
      <3>1. PICK p, q, r, s \in Bounds : /\ p = BoundMul(i[1], j[1]) /\ q = BoundMul(i[1], j[2])
                                         /\ r = BoundMul(i[2], j[1]) /\ s = BoundMul(i[2], j[2])
        BY <1>1, <2>2, BoundsTyped
      <3>2. {BoundMul(a, b) : a \in {i[1], i[2]}, b \in {j[1], j[2]}} = {p, q, r, s} BY <3>1
      <3>3. Max({p, q, r, s}) \in {p, q, r, s} /\ Min({p, q, r, s}) \in {p, q, r, s}
        BY <1>a, CornersMaxMin
      <3>5. Max({p, q, r, s}) \in Bounds /\ Min({p, q, r, s}) \in Bounds BY <3>3
      <3> QED BY <1>2, <2>2, <3>2, <3>5 DEF IMul
    <2> QED BY <2>1, <2>2
  <1>8. meet(i, j) \in Intervals /\ join(i, j) \in Intervals
    <2>1. CASE i = Empty \/ j = Empty BY <1>3, <2>1 DEF meet, join
    <2>2. CASE i # Empty /\ j # Empty
      <3>1. \A a, b \in Bounds : Max({a, b}) \in Bounds /\ Min({a, b}) \in Bounds
        BY <1>a, MaxMin
      <3>2. /\ Max({i[1], j[1]}) \in Bounds /\ Min({i[2], j[2]}) \in Bounds
            /\ Min({i[1], j[1]}) \in Bounds /\ Max({i[2], j[2]}) \in Bounds
        BY <1>1, <2>2, <3>1
      <3> QED BY <1>2, <1>3, <2>2, <3>2 DEF meet, join
    <2> QED BY <2>1, <2>2
  <1>9. widen(i, j) \in Intervals
    <2>1. CASE i = Empty \/ j = Empty BY <2>1 DEF widen
    <2>2. CASE i # Empty /\ j # Empty
      <3>1. PICK a, b \in Bounds : a = i[1] /\ b = i[2] BY <1>1, <2>2
      <3> QED BY <1>2, <1>a, <2>2, <3>1 DEF widen
    <2> QED BY <2>1, <2>2
  <1>10. ASSUME NEW strict \in BOOLEAN
         PROVE  /\ as_upper_constraint(i, strict) \in Intervals
                /\ as_lower_constraint(i, strict) \in Intervals
    <2>1. CASE i = Empty BY <1>3, <2>1 DEF as_upper_constraint, as_lower_constraint
    <2>2. CASE i # Empty
      <3>1. PICK a, b, c, d \in Bounds : /\ a = i[1] /\ b = i[2]
                                         /\ c = BoundAdd(i[2], -1) /\ d = BoundAdd(i[1], 1)
        <4>1. i[1] \in Bounds /\ i[2] \in Bounds BY <1>1, <2>2
        <4> QED BY <1>a, <4>1, BoundsTyped
      <3>2. as_upper_constraint(i, strict) = <<NegInf, IF strict THEN c ELSE b>>
        BY <2>2, <3>1 DEF as_upper_constraint
      <3>3. as_lower_constraint(i, strict) = <<IF strict THEN d ELSE a, PosInf>>
        BY <2>2, <3>1 DEF as_lower_constraint
      <3> QED BY <1>2, <1>a, <3>1, <3>2, <3>3
    <2> QED BY <2>1, <2>2
  <1> QED BY <1>4, <1>6, <1>7, <1>8, <1>9, <1>10

-----------------------------------------------------------------------------
(* What an interval stands for. *)

In(i, x) == i # Empty /\ i[1] <= x /\ x <= i[2]
leq(i, j) == i = Empty \/ (j # Empty /\ j[1] <= i[1] /\ i[2] <= j[2])

(* The integers of i128. *)
I128 == -Lim - 1 .. Lim

LEMMA IntervalIs ==
    ASSUME NEW i \in Intervals, i # Empty
    PROVE  \E a, b \in Int : i = <<a, b>> /\ NegInf <= a /\ a <= PosInf /\ NegInf <= b /\ b <= PosInf
  BY InfTyped DEF Intervals, Bounds

LEMMA OrderLaws ==
    ASSUME NEW i \in Intervals, NEW j \in Intervals, NEW k \in Intervals
    PROVE  /\ leq(i, i)
           /\ leq(i, j) /\ leq(j, k) => leq(i, k)
           /\ leq(i, join(i, j)) /\ leq(j, join(i, j)) /\ leq(j, widen(i, j))
           /\ \A x \in Int : leq(i, j) /\ In(i, x) => In(j, x)
           /\ \A x \in Int : In(i, x) /\ In(j, x) => In(meet(i, j), x)
  <1>1. \A l \in Intervals : l # Empty => l[1] \in Int /\ l[2] \in Int /\ NegInf <= l[1] /\ l[2] <= PosInf
    BY InfTyped DEF Intervals, Bounds
  <1>2. leq(i, i) BY <1>1 DEF leq
  <1>3. leq(i, j) /\ leq(j, k) => leq(i, k) BY <1>1 DEF leq
  <1>4. \A x \in Int : leq(i, j) /\ In(i, x) => In(j, x) BY <1>1 DEF leq, In
  <1>5. leq(i, join(i, j)) /\ leq(j, join(i, j)) /\ leq(j, widen(i, j))
    <2>1. CASE i = Empty \/ j = Empty BY <1>1, <2>1 DEF join, widen, IsEmpty, leq
    <2>2. CASE i # Empty /\ j # Empty
      <3>1. PICK a, b \in Int : i = <<a, b>> /\ NegInf <= a /\ b <= PosInf BY <2>2, IntervalIs
      <3>2. PICK c, d \in Int : j = <<c, d>> /\ NegInf <= c /\ d <= PosInf BY <2>2, IntervalIs
      <3>3. /\ Min({a, c}) = (IF a <= c THEN a ELSE c) /\ Max({b, d}) = (IF b >= d THEN b ELSE d)
        BY MaxMin
      <3>4. PICK e, g \in Int : e = Min({a, c}) /\ g = Max({b, d}) BY MaxMin
      <3>5. join(i, j) = <<e, g>> BY <2>2, <3>1, <3>2, <3>4 DEF join, IsEmpty
      <3>6. PICK e2, g2 \in Int : /\ e2 = IF a <= c THEN a ELSE NegInf
                                  /\ g2 = IF d <= b THEN b ELSE PosInf
        BY InfTyped
      <3>7. widen(i, j) = <<e2, g2>> BY <2>2, <3>1, <3>2, <3>6 DEF widen, IsEmpty
      <3>8. \A l, m, n, o \in Int : leq(<<l, m>>, <<n, o>>) <=> (n <= l /\ m <= o)
        BY DEF leq, Empty
      <3> QED BY <3>1, <3>2, <3>3, <3>4, <3>5, <3>6, <3>7, <3>8
    <2> QED BY <2>1, <2>2
  <1>6. ASSUME NEW x \in Int, In(i, x), In(j, x) PROVE In(meet(i, j), x)
    <2>0. i # Empty /\ j # Empty BY <1>6 DEF In
    <2>1. PICK a, b \in Int : i = <<a, b>> BY <2>0, IntervalIs
    <2>2. PICK c, d \in Int : j = <<c, d>> BY <2>0, IntervalIs
    <2>3. a <= x /\ x <= b /\ c <= x /\ x <= d BY <1>6, <2>1, <2>2 DEF In
    <2>4. PICK e, g \in Int : e = Max({a, c}) /\ g = Min({b, d}) BY MaxMin
    <2>5. e <= x /\ x <= g
      <3>1. Max({a, c}) = (IF a >= c THEN a ELSE c) /\ Min({b, d}) = (IF b <= d THEN b ELSE d)
        BY MaxMin
      <3> QED BY <2>3, <2>4, <3>1
    <2>a. i[1] = a /\ i[2] = b /\ j[1] = c /\ j[2] = d BY <2>1, <2>2
    <2>b. Max({i[1], j[1]}) = e /\ Min({i[2], j[2]}) = g BY <2>4, <2>a
    <2>c. e <= g BY <2>5
    <2>6. meet(i, j) = <<e, g>> BY <2>0, <2>b, <2>c DEF meet, IsEmpty
    <2>7. <<e, g>> # Empty /\ <<e, g>>[1] = e /\ <<e, g>>[2] = g BY DEF Empty
    <2> QED BY <2>5, <2>6, <2>7 DEF In
  <1> QED BY <1>2, <1>3, <1>4, <1>5, <1>6

(* A sum that does not overflow is in the sum of the intervals. *)
LEMMA AddSound ==
    ASSUME NEW i \in Intervals, NEW j \in Intervals, NEW x \in I128, NEW y \in I128,
           In(i, x), In(j, y), x + y \in I128
    PROVE  In(IAdd(i, j), x + y)
  <1>0. i # Empty /\ j # Empty BY DEF In
  <1>1. PICK a, b \in Int : i = <<a, b>> /\ NegInf <= a /\ b <= PosInf BY <1>0, IntervalIs
  <1>2. PICK c, d \in Int : j = <<c, d>> /\ NegInf <= c /\ d <= PosInf BY <1>0, IntervalIs
  <1>3. a <= x /\ x <= b /\ c <= y /\ y <= d BY <1>1, <1>2 DEF In
  <1>4. x \in Int /\ y \in Int /\ -Lim - 1 <= x /\ x <= Lim /\ -Lim - 1 <= y /\ y <= Lim
        /\ -Lim - 1 <= x + y /\ x + y <= Lim /\ Lim \in Nat /\ NegInf = -Lim - 2 /\ PosInf = Lim + 1
    BY InfTyped DEF I128
  <1>5. a # PosInf /\ c # PosInf /\ b # NegInf /\ d # NegInf BY <1>3, <1>4
  <1>6. BoundAdd(a, c) <= x + y /\ BoundAdd(a, c) \in Int
    <2>1. CASE NegInf \in {a, c} BY <1>4, <1>5, <2>1 DEF BoundAdd
    <2>2. CASE NegInf \notin {a, c}
      <3>1. BoundAdd(a, c) = Saturate(a + c) BY <1>5, <2>2 DEF BoundAdd
      <3>2. Saturate(a + c) = IF a + c < NegInf THEN NegInf ELSE IF a + c > PosInf THEN PosInf ELSE a + c
        BY Saturates
      <3> QED BY <1>3, <1>4, <3>1, <3>2
    <2> QED BY <2>1, <2>2
  <1>7. x + y <= BoundAdd(b, d) /\ BoundAdd(b, d) \in Int
    <2>1. CASE PosInf \in {b, d} BY <1>4, <1>5, <2>1 DEF BoundAdd
    <2>2. CASE PosInf \notin {b, d}
      <3>1. BoundAdd(b, d) = Saturate(b + d) BY <1>5, <2>2 DEF BoundAdd
      <3>2. Saturate(b + d) = IF b + d < NegInf THEN NegInf ELSE IF b + d > PosInf THEN PosInf ELSE b + d
        BY Saturates
      <3> QED BY <1>3, <1>4, <3>1, <3>2
    <2> QED BY <2>1, <2>2
  <1>8. IAdd(i, j) = <<BoundAdd(a, c), BoundAdd(b, d)>> BY <1>0, <1>1, <1>2 DEF IAdd, IsEmpty
  <1> QED BY <1>6, <1>7, <1>8 DEF In, Empty

(* The negation saturates at the least i128, so a difference is only covered where
   the subtrahend is not that value. *)
LEMMA SubSound ==
    ASSUME NEW i \in Intervals, NEW j \in Intervals, NEW x \in I128, NEW y \in I128,
           -y \in I128, In(i, x), In(j, y), x - y \in I128
    PROVE  In(ISub(i, j), x - y)
  <1>0. j # Empty BY DEF In
  <1>1. PICK c, d \in Int : j = <<c, d>> /\ NegInf <= c /\ d <= PosInf BY <1>0, IntervalIs
  <1>2. c <= y /\ y <= d BY <1>1 DEF In
  <1>3. y \in Int /\ -Lim - 1 <= y /\ y <= Lim /\ -y <= Lim /\ Lim \in Int
        /\ NegInf = -Lim - 2 /\ PosInf = Lim + 1 /\ -c \in Int /\ -d \in Int
    BY InfTyped DEF I128
  <1>4. c # PosInf /\ d # NegInf BY <1>2, <1>3
  <1>5. /\ Min({-c, Lim}) = (IF -c <= Lim THEN -c ELSE Lim)
        /\ Min({-d, Lim}) = (IF -d <= Lim THEN -d ELSE Lim)
    BY <1>3, MaxMin
  <1>6. BoundNeg(d) <= -y /\ BoundNeg(d) \in Int BY <1>2, <1>3, <1>4, <1>5 DEF BoundNeg
  <1>7. -y <= BoundNeg(c) /\ BoundNeg(c) \in Int BY <1>2, <1>3, <1>4, <1>5 DEF BoundNeg
  <1>8. INeg(j) = <<BoundNeg(d), BoundNeg(c)>> BY <1>0, <1>1 DEF INeg, IsEmpty
  <1>9. In(INeg(j), -y) BY <1>6, <1>7, <1>8 DEF In, Empty
  <1>10. INeg(j) \in Intervals
    <2>1. c \in Bounds /\ d \in Bounds BY <1>1, <1>2, <1>3 DEF Bounds
    <2>2. BoundNeg(d) \in Bounds /\ BoundNeg(c) \in Bounds BY <2>1, BoundsTyped
    <2> QED BY <1>8, <2>2 DEF Intervals
  <1>11. x + (-y) = x - y BY <1>3 DEF I128
  <1>12. In(IAdd(i, INeg(j)), x + (-y)) BY <1>9, <1>10, <1>11, AddSound
  <1> QED BY <1>11, <1>12 DEF ISub

(* The product of two bounds has the sign of the product, *)
LEMMA MulSign ==
    ASSUME NEW a \in Bounds, NEW b \in Bounds
    PROVE  /\ (a >= 0 /\ b >= 0) \/ (a <= 0 /\ b <= 0) => BoundMul(a, b) >= 0
           /\ (a >= 0 /\ b <= 0) \/ (a <= 0 /\ b >= 0) => BoundMul(a, b) <= 0
  <1>0. /\ a \in Int /\ b \in Int /\ a * b \in Int /\ Lim \in Nat
        /\ NegInf = -Lim - 2 /\ PosInf = Lim + 1
    BY InfTyped DEF Bounds
  <1>1. CASE 0 \in {a, b} BY <1>1 DEF BoundMul
  <1>2. CASE a # 0 /\ b # 0 /\ (Infinite(a) \/ Infinite(b))
    <2>1. BoundMul(a, b) = IF Sign(a) = Sign(b) THEN PosInf ELSE NegInf BY <1>2 DEF BoundMul
    <2> QED BY <1>0, <1>2, <2>1 DEF Sign
  <1>3. CASE a # 0 /\ b # 0 /\ ~Infinite(a) /\ ~Infinite(b)
    <2>1. BoundMul(a, b) = Saturate(a * b) BY <1>3 DEF BoundMul
    <2>2. Saturate(a * b) = IF a * b < NegInf THEN NegInf ELSE IF a * b > PosInf THEN PosInf ELSE a * b
      BY <1>0, Saturates
    <2>3. (a >= 0 /\ b >= 0) \/ (a <= 0 /\ b <= 0) => a * b >= 0 BY <1>0
    <2>4. (a >= 0 /\ b <= 0) \/ (a <= 0 /\ b >= 0) => a * b <= 0 BY <1>0
    <2> QED BY <1>0, <2>1, <2>2, <2>3, <2>4
  <1> QED BY <1>1, <1>2, <1>3

(* and grows with the distance of its factors from zero. *)
LEMMA MulGrows ==
    ASSUME NEW a \in Bounds, NEW b \in Bounds, NEW x \in I128, NEW y \in I128, x * y \in I128
    PROVE  /\ (0 < x /\ x <= a /\ 0 < y /\ y <= b) \/ (a <= x /\ x < 0 /\ b <= y /\ y < 0)
                  => x * y <= BoundMul(a, b)
           /\ (0 < x /\ x <= a /\ b <= y /\ y < 0) \/ (a <= x /\ x < 0 /\ 0 < y /\ y <= b)
                  => BoundMul(a, b) <= x * y
           /\ (0 < a /\ a <= x /\ 0 < b /\ b <= y) \/ (x <= a /\ a < 0 /\ y <= b /\ b < 0)
                  => BoundMul(a, b) <= x * y
           /\ (0 < a /\ a <= x /\ y <= b /\ b < 0) \/ (x <= a /\ a < 0 /\ 0 < b /\ b <= y)
                  => x * y <= BoundMul(a, b)
  <1>0. /\ a \in Int /\ b \in Int /\ a * b \in Int /\ x \in Int /\ y \in Int /\ x * y \in Int
        /\ Lim \in Nat /\ NegInf = -Lim - 2 /\ PosInf = Lim + 1
        /\ -Lim - 1 <= x /\ x <= Lim /\ -Lim - 1 <= y /\ y <= Lim
        /\ -Lim - 1 <= x * y /\ x * y <= Lim
    BY InfTyped DEF Bounds, I128
  <1> DEFINE Outer == \/ 0 < x /\ x <= a /\ 0 < y /\ y <= b
                      \/ a <= x /\ x < 0 /\ b <= y /\ y < 0
             OuterNeg == \/ 0 < x /\ x <= a /\ b <= y /\ y < 0
                         \/ a <= x /\ x < 0 /\ 0 < y /\ y <= b
             Inner == \/ 0 < a /\ a <= x /\ 0 < b /\ b <= y
                      \/ x <= a /\ a < 0 /\ y <= b /\ b < 0
             InnerNeg == \/ 0 < a /\ a <= x /\ y <= b /\ b < 0
                         \/ x <= a /\ a < 0 /\ 0 < b /\ b <= y
  <1>1. \A p, q, r, s \in Nat : p <= q /\ r <= s => p * r <= q * s
    <2> SUFFICES ASSUME NEW p \in Nat, NEW q \in Nat, NEW r \in Nat, NEW s \in Nat, p <= q, r <= s
                 PROVE  p * r <= q * s
      OBVIOUS
    <2>1. (q - p) * r >= 0 /\ q * (s - r) >= 0 OBVIOUS
    <2>2. (q - p) * r = q * r - p * r /\ q * (s - r) = q * s - q * r OBVIOUS
    <2> QED BY <2>1, <2>2
  <1>2. (-a) * (-b) = a * b /\ a * (-b) = -(a * b) /\ (-a) * b = -(a * b) BY <1>0
  <1>3. (-x) * (-y) = x * y /\ x * (-y) = -(x * y) /\ (-x) * y = -(x * y) BY <1>0
  <1>4. Outer => x * y <= a * b
    <2>1. CASE 0 < x /\ x <= a /\ 0 < y /\ y <= b BY <1>0, <1>1, <2>1
    <2>2. CASE a <= x /\ x < 0 /\ b <= y /\ y < 0
      <3>1. -x \in Nat /\ -a \in Nat /\ -y \in Nat /\ -b \in Nat /\ -x <= -a /\ -y <= -b BY <1>0, <2>2
      <3>2. (-x) * (-y) <= (-a) * (-b) BY <1>1, <3>1
      <3> QED BY <1>2, <1>3, <3>2
    <2> QED BY <2>1, <2>2
  <1>5. OuterNeg => a * b <= x * y
    <2>1. CASE 0 < x /\ x <= a /\ b <= y /\ y < 0
      <3>1. x \in Nat /\ a \in Nat /\ -y \in Nat /\ -b \in Nat /\ x <= a /\ -y <= -b BY <1>0, <2>1
      <3>2. x * (-y) <= a * (-b) BY <1>1, <3>1
      <3> QED BY <1>0, <1>2, <1>3, <3>2
    <2>2. CASE a <= x /\ x < 0 /\ 0 < y /\ y <= b
      <3>1. -x \in Nat /\ -a \in Nat /\ y \in Nat /\ b \in Nat /\ -x <= -a /\ y <= b BY <1>0, <2>2
      <3>2. (-x) * y <= (-a) * b BY <1>1, <3>1
      <3> QED BY <1>0, <1>2, <1>3, <3>2
    <2> QED BY <2>1, <2>2
  <1>6. Inner => a * b <= x * y
    <2>1. CASE 0 < a /\ a <= x /\ 0 < b /\ b <= y BY <1>0, <1>1, <2>1
    <2>2. CASE x <= a /\ a < 0 /\ y <= b /\ b < 0
      <3>1. -x \in Nat /\ -a \in Nat /\ -y \in Nat /\ -b \in Nat /\ -a <= -x /\ -b <= -y BY <1>0, <2>2
      <3>2. (-a) * (-b) <= (-x) * (-y) BY <1>1, <3>1
      <3> QED BY <1>2, <1>3, <3>2
    <2> QED BY <2>1, <2>2
  <1>7. InnerNeg => x * y <= a * b
    <2>1. CASE 0 < a /\ a <= x /\ y <= b /\ b < 0
      <3>1. x \in Nat /\ a \in Nat /\ -y \in Nat /\ -b \in Nat /\ a <= x /\ -b <= -y BY <1>0, <2>1
      <3>2. a * (-b) <= x * (-y) BY <1>1, <3>1
      <3> QED BY <1>0, <1>2, <1>3, <3>2
    <2>2. CASE x <= a /\ a < 0 /\ 0 < b /\ b <= y
      <3>1. -x \in Nat /\ -a \in Nat /\ y \in Nat /\ b \in Nat /\ -a <= -x /\ b <= y BY <1>0, <2>2
      <3>2. (-a) * b <= (-x) * y BY <1>1, <3>1
      <3> QED BY <1>0, <1>2, <1>3, <3>2
    <2> QED BY <2>1, <2>2
  <1>8. PICK m \in Int : m = a * b BY <1>0
  <1>9. PICK v \in Int : v = x * y /\ -Lim - 1 <= v /\ v <= Lim BY <1>0
  <1>10. ASSUME Outer \/ OuterNeg \/ Inner \/ InnerNeg
         PROVE  a # 0 /\ b # 0
    BY <1>0, <1>10
  <1>11. CASE a # 0 /\ b # 0 /\ (Infinite(a) \/ Infinite(b))
    <2>1. BoundMul(a, b) = IF Sign(a) = Sign(b) THEN PosInf ELSE NegInf BY <1>11 DEF BoundMul
    <2>2. Outer => Sign(a) = Sign(b) BY <1>0 DEF Sign
    <2>3. OuterNeg => Sign(a) # Sign(b) BY <1>0 DEF Sign
    <2>4. ~Inner /\ ~InnerNeg BY <1>0, <1>11 DEF Infinite
    <2> HIDE DEF Outer, OuterNeg, Inner, InnerNeg
    <2>a. v <= PosInf /\ NegInf <= v BY <1>0, <1>9
    <2>b. Outer => BoundMul(a, b) = PosInf BY <2>1, <2>2
    <2>c. OuterNeg => BoundMul(a, b) = NegInf BY <2>1, <2>3
    <2>5. (Outer => v <= BoundMul(a, b)) /\ (OuterNeg => BoundMul(a, b) <= v)
      BY <2>a, <2>b, <2>c
    <2>6. /\ Outer => x * y <= BoundMul(a, b)
          /\ OuterNeg => BoundMul(a, b) <= x * y
          /\ Inner => BoundMul(a, b) <= x * y
          /\ InnerNeg => x * y <= BoundMul(a, b)
      BY <1>9, <2>4, <2>5
    <2> QED BY <2>6 DEF Outer, OuterNeg, Inner, InnerNeg
  <1>12. CASE a # 0 /\ b # 0 /\ ~Infinite(a) /\ ~Infinite(b)
    <2> HIDE DEF Outer, OuterNeg, Inner, InnerNeg
    <2>1. BoundMul(a, b) = Saturate(m) BY <1>8, <1>12 DEF BoundMul
    <2>2. Saturate(m) = IF m < NegInf THEN NegInf ELSE IF m > PosInf THEN PosInf ELSE m
      BY Saturates
    <2>3. (v <= m => v <= BoundMul(a, b)) /\ (m <= v => BoundMul(a, b) <= v)
      BY <1>0, <1>9, <2>1, <2>2
    <2>4. /\ Outer => x * y <= BoundMul(a, b)
          /\ OuterNeg => BoundMul(a, b) <= x * y
          /\ Inner => BoundMul(a, b) <= x * y
          /\ InnerNeg => x * y <= BoundMul(a, b)
      BY <1>4, <1>5, <1>6, <1>7, <1>8, <1>9, <2>3
    <2> QED BY <2>4 DEF Outer, OuterNeg, Inner, InnerNeg
  <1>13. CASE a = 0 \/ b = 0 BY <1>10, <1>13
  <1> QED BY <1>11, <1>12, <1>13

(* A product that does not overflow lies between the least and the greatest corner. *)
LEMMA MulSound ==
    ASSUME NEW i \in Intervals, NEW j \in Intervals, NEW x \in I128, NEW y \in I128,
           In(i, x), In(j, y), x * y \in I128
    PROVE  In(IMul(i, j), x * y)
  <1>0. i # Empty /\ j # Empty BY DEF In
  <1>1. PICK a, b \in Bounds : i = <<a, b>> BY <1>0 DEF Intervals
  <1>2. PICK c, d \in Bounds : j = <<c, d>> BY <1>0 DEF Intervals
  <1>3. a <= x /\ x <= b /\ c <= y /\ y <= d BY <1>1, <1>2 DEF In
  <1>4. a \in Int /\ b \in Int /\ c \in Int /\ d \in Int /\ x \in Int /\ y \in Int
    BY InfTyped DEF Bounds, I128
  <1>5. PICK p, q, r, s : /\ p = BoundMul(a, c) /\ q = BoundMul(a, d)
                          /\ r = BoundMul(b, c) /\ s = BoundMul(b, d)
    OBVIOUS
  <1>6. p \in Bounds /\ q \in Bounds /\ r \in Bounds /\ s \in Bounds BY <1>5, BoundsTyped
  <1>7. p \in Int /\ q \in Int /\ r \in Int /\ s \in Int BY <1>6, InfTyped DEF Bounds
  <1>8. PICK v \in Int : v = x * y BY <1>4
  <1> DEFINE Above == v <= p \/ v <= q \/ v <= r \/ v <= s
             Below == p <= v \/ q <= v \/ r <= v \/ s <= v
  <1>s. /\ (a >= 0 /\ c >= 0) \/ (a <= 0 /\ c <= 0) => p >= 0
        /\ (a >= 0 /\ c <= 0) \/ (a <= 0 /\ c >= 0) => p <= 0
        /\ (a >= 0 /\ d >= 0) \/ (a <= 0 /\ d <= 0) => q >= 0
        /\ (a >= 0 /\ d <= 0) \/ (a <= 0 /\ d >= 0) => q <= 0
        /\ (b >= 0 /\ c >= 0) \/ (b <= 0 /\ c <= 0) => r >= 0
        /\ (b >= 0 /\ c <= 0) \/ (b <= 0 /\ c >= 0) => r <= 0
        /\ (b >= 0 /\ d >= 0) \/ (b <= 0 /\ d <= 0) => s >= 0
        /\ (b >= 0 /\ d <= 0) \/ (b <= 0 /\ d >= 0) => s <= 0
    BY <1>5, MulSign
  <1>9. ASSUME x = 0 \/ y = 0 PROVE Above /\ Below
    <2>1. v = 0 BY <1>4, <1>8, <1>9
    <2> QED BY <1>3, <1>4, <1>7, <1>9, <1>s, <2>1
  <1>10. ASSUME 0 < x /\ 0 < y PROVE Above /\ Below
    <2>0. v > 0 BY <1>4, <1>8, <1>10
    <2>1. v <= s BY <1>3, <1>5, <1>8, <1>10, MulGrows
    <2>2. CASE a <= 0 \/ c <= 0 BY <1>3, <1>4, <1>7, <1>10, <1>s, <2>0, <2>1, <2>2
    <2>3. CASE 0 < a /\ 0 < c
      <3>1. p <= v BY <1>3, <1>5, <1>8, <2>3, MulGrows
      <3> QED BY <2>1, <3>1
    <2> QED BY <1>4, <2>2, <2>3
  <1>11. ASSUME x < 0 /\ y < 0 PROVE Above /\ Below
    <2>0. v > 0 BY <1>4, <1>8, <1>11
    <2>1. v <= p BY <1>3, <1>5, <1>8, <1>11, MulGrows
    <2>2. CASE b >= 0 \/ d >= 0 BY <1>3, <1>4, <1>7, <1>11, <1>s, <2>0, <2>1, <2>2
    <2>3. CASE b < 0 /\ d < 0
      <3>1. s <= v BY <1>3, <1>5, <1>8, <2>3, MulGrows
      <3> QED BY <2>1, <3>1
    <2> QED BY <1>4, <2>2, <2>3
  <1>12. ASSUME 0 < x /\ y < 0 PROVE Above /\ Below
    <2>0. v < 0 BY <1>4, <1>8, <1>12
    <2>1. r <= v BY <1>3, <1>5, <1>8, <1>12, MulGrows
    <2>2. CASE a <= 0 \/ d >= 0 BY <1>3, <1>4, <1>7, <1>12, <1>s, <2>0, <2>1, <2>2
    <2>3. CASE 0 < a /\ d < 0
      <3>1. v <= q BY <1>3, <1>5, <1>8, <2>3, MulGrows
      <3> QED BY <2>1, <3>1
    <2> QED BY <1>4, <2>2, <2>3
  <1>13. ASSUME x < 0 /\ 0 < y PROVE Above /\ Below
    <2>0. v < 0 BY <1>4, <1>8, <1>13
    <2>1. q <= v BY <1>3, <1>5, <1>8, <1>13, MulGrows
    <2>2. CASE b >= 0 \/ c <= 0 BY <1>3, <1>4, <1>7, <1>13, <1>s, <2>0, <2>1, <2>2
    <2>3. CASE b < 0 /\ 0 < c
      <3>1. v <= r BY <1>3, <1>5, <1>8, <2>3, MulGrows
      <3> QED BY <2>1, <3>1
    <2> QED BY <1>4, <2>2, <2>3
  <1>14. Above /\ Below BY <1>4, <1>9, <1>10, <1>11, <1>12, <1>13
  <1>15. PICK C : C = {p, q, r, s} OBVIOUS
  <1>16. {BoundMul(e, g) : e \in {i[1], i[2]}, g \in {j[1], j[2]}} = C
    BY <1>1, <1>2, <1>5, <1>15
  <1>17. /\ Max(C) \in Int /\ Min(C) \in Int
         /\ \A e \in C : Min(C) <= e /\ e <= Max(C)
    <2>1. /\ Max({p, q, r, s}) \in {p, q, r, s} /\ Min({p, q, r, s}) \in {p, q, r, s}
          /\ \A e \in {p, q, r, s} : Min({p, q, r, s}) <= e /\ e <= Max({p, q, r, s})
      BY <1>7, CornersMaxMin, Zenon
    <2>2. /\ Max(C) \in C /\ Min(C) \in C
          /\ \A e \in C : Min(C) <= e /\ e <= Max(C)
      BY <1>15, <2>1, Zenon
    <2>3. C \subseteq Int BY <1>7, <1>15
    <2> QED BY <2>2, <2>3
  <1>18. Min(C) <= v /\ v <= Max(C)
    <2>1. Min(C) <= p /\ Min(C) <= q /\ Min(C) <= r /\ Min(C) <= s BY <1>15, <1>17
    <2>2. p <= Max(C) /\ q <= Max(C) /\ r <= Max(C) /\ s <= Max(C) BY <1>15, <1>17
    <2> QED BY <1>7, <1>14, <1>17, <2>1, <2>2
  <1>19. IMul(i, j) = <<Min(C), Max(C)>> BY <1>0, <1>16 DEF IMul, IsEmpty
  <1>20. <<Min(C), Max(C)>> # Empty BY DEF Empty
  <1> QED BY <1>8, <1>17, <1>18, <1>19, <1>20 DEF In

(* What a guard bounds a value by contains it. *)
LEMMA ConstraintSound ==
    ASSUME Lim >= 1, NEW i \in Intervals, NEW x \in I128, NEW y \in I128, In(i, y)
    PROVE  /\ x <= y => In(as_upper_constraint(i, FALSE), x)
           /\ x < y => In(as_upper_constraint(i, TRUE), x)
           /\ x >= y => In(as_lower_constraint(i, FALSE), x)
           /\ x > y => In(as_lower_constraint(i, TRUE), x)
  <1>0. i # Empty BY DEF In
  <1>1. PICK a, b \in Int : i = <<a, b>> /\ NegInf <= a /\ b <= PosInf BY <1>0, IntervalIs
  <1>2. i[1] = a /\ i[2] = b /\ a <= y /\ y <= b BY <1>1 DEF In
  <1>3. /\ x \in Int /\ y \in Int /\ -Lim - 1 <= x /\ x <= Lim /\ -Lim - 1 <= y /\ y <= Lim
        /\ Lim \in Nat /\ NegInf = -Lim - 2 /\ PosInf = Lim + 1
    BY InfTyped DEF I128
  <1>4. a # PosInf /\ b # NegInf BY <1>2, <1>3
  <1>5. BoundAdd(b, -1) \in Int /\ (x < y => x <= BoundAdd(b, -1))
    <2>1. CASE b = PosInf BY <1>3, <2>1 DEF BoundAdd
    <2>2. CASE b # PosInf
      <3>1. BoundAdd(b, -1) = Saturate(b + (-1)) BY <1>3, <1>4, <2>2 DEF BoundAdd
      <3>2. PICK m \in Int : m = b + (-1) /\ m = b - 1 OBVIOUS
      <3>3. Saturate(m) = IF m < NegInf THEN NegInf ELSE IF m > PosInf THEN PosInf ELSE m
        BY Saturates
      <3> QED BY <1>2, <1>3, <3>1, <3>2, <3>3
    <2> QED BY <2>1, <2>2
  <1>6. BoundAdd(a, 1) \in Int /\ (x > y => BoundAdd(a, 1) <= x)
    <2>1. CASE a = NegInf BY <1>3, <2>1 DEF BoundAdd
    <2>2. CASE a # NegInf
      <3>1. a # PosInf /\ 1 # NegInf /\ 1 # PosInf BY <1>3, <1>4
      <3>2. BoundAdd(a, 1) = Saturate(a + 1) BY <2>2, <3>1 DEF BoundAdd
      <3>3. PICK m \in Int : m = a + 1 OBVIOUS
      <3>4. Saturate(m) = IF m < NegInf THEN NegInf ELSE IF m > PosInf THEN PosInf ELSE m
        BY Saturates
      <3> QED BY <1>2, <1>3, <3>2, <3>3, <3>4
    <2> QED BY <2>1, <2>2
  <1>7. /\ as_upper_constraint(i, FALSE) = <<NegInf, b>>
        /\ as_upper_constraint(i, TRUE) = <<NegInf, BoundAdd(b, -1)>>
        /\ as_lower_constraint(i, FALSE) = <<a, PosInf>>
        /\ as_lower_constraint(i, TRUE) = <<BoundAdd(a, 1), PosInf>>
    BY <1>0, <1>2 DEF as_upper_constraint, as_lower_constraint, IsEmpty
  <1>8. \A l, m \in Int : In(<<l, m>>, x) <=> (l <= x /\ x <= m) BY DEF In, Empty
  <1>9. NegInf \in Int /\ PosInf \in Int /\ NegInf <= x /\ x <= PosInf BY <1>3
  <1>10. (x <= y => x <= b) /\ (x >= y => a <= x) BY <1>2, <1>3
  <1>11. x <= y => In(as_upper_constraint(i, FALSE), x) BY <1>7, <1>8, <1>9, <1>10
  <1>12. x < y => In(as_upper_constraint(i, TRUE), x) BY <1>5, <1>7, <1>8, <1>9
  <1>13. x >= y => In(as_lower_constraint(i, FALSE), x) BY <1>7, <1>8, <1>9, <1>10
  <1>14. x > y => In(as_lower_constraint(i, TRUE), x) BY <1>6, <1>7, <1>8, <1>9
  <1> QED BY <1>11, <1>12, <1>13, <1>14

-----------------------------------------------------------------------------
(* Environments. *)

LEMMA EnvsTyped ==
    ASSUME NEW R, NEW a \in Envs(R), NEW b \in Envs(R)
    PROVE  EnvJoin(a, b) \in Envs(R) /\ EnvWiden(a, b) \in Envs(R) /\ Unreachable \in Envs(R)
  <1>1. CASE a = Unreachable \/ b = Unreachable BY <1>1 DEF EnvJoin, EnvWiden, Envs
  <1>2. CASE a # Unreachable /\ b # Unreachable
    <2>1. a \in [R -> Intervals] /\ b \in [R -> Intervals] BY <1>2 DEF Envs
    <2>2. \A r \in R : join(a[r], b[r]) \in Intervals /\ widen(a[r], b[r]) \in Intervals
      BY <2>1, OperationsTyped
    <2>3. /\ EnvJoin(a, b) = [r \in R |-> join(a[r], b[r])]
          /\ EnvWiden(a, b) = [r \in R |-> widen(a[r], b[r])]
      BY <1>2, <2>1 DEF EnvJoin, EnvWiden
    <2> QED BY <2>2, <2>3 DEF Envs
  <1> QED BY <1>1, <1>2

(* What a register still has to lose: its emptiness, its lower and its upper bound. *)
Bits(i) == {k \in 1 .. 3 : \/ i = Empty
                           \/ k = 2 /\ i[1] # NegInf
                           \/ k = 3 /\ i[2] # PosInf}

(* Widening an interval loses nothing but bits, and one of them when it changes. *)
LEMMA WidenLosesBits ==
    ASSUME NEW i \in Intervals, NEW j \in Intervals
    PROVE  /\ Bits(widen(i, j)) \subseteq Bits(i)
           /\ widen(i, j) # i => Bits(widen(i, j)) # Bits(i)
  <1>1. CASE i = Empty
    <2>1. widen(i, j) = j BY <1>1 DEF widen, IsEmpty
    <2>2. Bits(i) = 1 .. 3 BY <1>1 DEF Bits
    <2>3. j # Empty => 1 \notin Bits(j) BY DEF Bits
    <2> QED BY <1>1, <2>1, <2>2, <2>3 DEF Bits
  <1>2. CASE i # Empty /\ j = Empty BY <1>2 DEF widen, IsEmpty
  <1>3. CASE i # Empty /\ j # Empty
    <2>0. \A k \in Intervals : k # Empty => \E x, y \in Int : k = <<x, y>>
      BY InfTyped DEF Intervals, Bounds
    <2>1. PICK a, b \in Int : i = <<a, b>> BY <1>3, <2>0
    <2>2. PICK c, d \in Int : j = <<c, d>> BY <1>3, <2>0
    <2>3. PICK e, g \in Int : /\ e = IF a <= c THEN a ELSE NegInf
                              /\ g = IF d <= b THEN b ELSE PosInf
      BY InfTyped
    <2>4. widen(i, j) = <<e, g>> BY <1>3, <2>1, <2>2, <2>3 DEF widen, IsEmpty
    <2>5. i # Empty /\ <<e, g>> # Empty BY <1>3 DEF Empty
    <2>a. i[1] = a /\ i[2] = b /\ <<e, g>>[1] = e /\ <<e, g>>[2] = g BY <2>1
    <2>6. \A k : k \in Bits(i) <=> (k = 2 /\ a # NegInf) \/ (k = 3 /\ b # PosInf)
      BY <2>a, <2>5 DEF Bits
    <2>7. \A k : k \in Bits(<<e, g>>) <=> (k = 2 /\ e # NegInf) \/ (k = 3 /\ g # PosInf)
      BY <2>a, <2>5 DEF Bits
    <2>8. (e # NegInf => a # NegInf /\ e = a) /\ (g # PosInf => b # PosInf /\ g = b) BY <2>3
    <2>9. <<e, g>> # i => (e = NegInf /\ a # NegInf) \/ (g = PosInf /\ b # PosInf)
      BY <2>1, <2>3
    <2>10. Bits(<<e, g>>) \subseteq Bits(i) BY <2>6, <2>7, <2>8
    <2>11. ASSUME <<e, g>> # i PROVE Bits(<<e, g>>) # Bits(i)
      <3>1. CASE e = NegInf /\ a # NegInf
        <4>1. 2 \in Bits(i) /\ 2 \notin Bits(<<e, g>>) BY <2>6, <2>7, <3>1
        <4> QED BY <4>1
      <3>2. CASE g = PosInf /\ b # PosInf
        <4>1. 3 \in Bits(i) /\ 3 \notin Bits(<<e, g>>) BY <2>6, <2>7, <3>2
        <4> QED BY <4>1
      <3> QED BY <2>9, <2>11, <3>1, <3>2
    <2> QED BY <2>4, <2>10, <2>11
  <1> QED BY <1>1, <1>2, <1>3

(* What an environment still has to lose, and how many changes that leaves it. *)
BitsOf(R, s) == {x \in R \X (1 .. 3) : x[2] \in Bits(s[x[1]])}
Rank(R)      == [s \in Envs(R) |-> IF s = Unreachable THEN 3 * Cardinality(R) + 1
                                   ELSE Cardinality(BitsOf(R, s))]

LEMMA BitsFinite ==
    ASSUME NEW R, IsFiniteSet(R), NEW s
    PROVE  /\ Cardinality(R) \in Nat /\ IsFiniteSet(BitsOf(R, s))
           /\ Cardinality(BitsOf(R, s)) \in 0 .. 3 * Cardinality(R)
  <1>1. IsFiniteSet(1 .. 3) /\ Cardinality(1 .. 3) = 3
    <2>1. 1 \in Int /\ 3 \in Int /\ ~(1 > 3) /\ 3 - 1 + 1 = 3 OBVIOUS
    <2>2. Cardinality(1 .. 3) = IF 1 > 3 THEN 0 ELSE 3 - 1 + 1 BY <2>1, FS_Interval
    <2> QED BY <2>1, <2>2, FS_Interval
  <1>2. /\ IsFiniteSet(R \X (1 .. 3))
        /\ Cardinality(R \X (1 .. 3)) = Cardinality(R) * Cardinality(1 .. 3)
    BY <1>1, FS_Product
  <1>3. BitsOf(R, s) \subseteq R \X (1 .. 3) BY DEF BitsOf
  <1>4. IsFiniteSet(BitsOf(R, s)) /\ Cardinality(BitsOf(R, s)) <= Cardinality(R \X (1 .. 3))
    BY <1>2, <1>3, FS_Subset
  <1>5. Cardinality(R) \in Nat /\ Cardinality(BitsOf(R, s)) \in Nat
    BY <1>4, FS_CardinalityType
  <1>6. Cardinality(BitsOf(R, s)) <= Cardinality(R) * 3 BY <1>1, <1>2, <1>4
  <1> QED BY <1>4, <1>5, <1>6

LEMMA RankTyped ==
    ASSUME NEW R, IsFiniteSet(R)
    PROVE  Rank(R) \in [Envs(R) -> 0 .. 3 * Cardinality(R) + 1]
  <1> SUFFICES ASSUME NEW s \in Envs(R)
               PROVE  (IF s = Unreachable THEN 3 * Cardinality(R) + 1
                       ELSE Cardinality(BitsOf(R, s))) \in 0 .. 3 * Cardinality(R) + 1
    BY DEF Rank
  <1>1. Cardinality(R) \in Nat /\ Cardinality(BitsOf(R, s)) \in 0 .. 3 * Cardinality(R)
    BY BitsFinite
  <1>2. PICK c \in Nat : c = Cardinality(R) BY <1>1
  <1>3. 0 .. 3 * c \subseteq 0 .. 3 * c + 1 /\ 3 * c + 1 \in 0 .. 3 * c + 1 OBVIOUS
  <1> QED BY <1>1, <1>2, <1>3

LEMMA EnvWidenDescends ==
    ASSUME NEW R, IsFiniteSet(R), NEW a \in Envs(R), NEW b \in Envs(R), EnvWiden(a, b) # a
    PROVE  Rank(R)[EnvWiden(a, b)] < Rank(R)[a]
  <1>0. EnvWiden(a, b) \in Envs(R) BY EnvsTyped
  <1>1. CASE a = Unreachable
    <2>1. EnvWiden(a, b) = b /\ b # Unreachable BY <1>1 DEF EnvWiden
    <2>2. Rank(R)[a] = 3 * Cardinality(R) + 1 BY <1>1 DEF Rank
    <2>3. Rank(R)[b] = Cardinality(BitsOf(R, b)) BY <2>1 DEF Rank
    <2>4. Cardinality(R) \in Nat /\ Cardinality(BitsOf(R, b)) \in 0 .. 3 * Cardinality(R)
      BY BitsFinite
    <2> QED BY <2>1, <2>2, <2>3, <2>4
  <1>2. CASE a # Unreachable /\ b = Unreachable BY <1>2 DEF EnvWiden
  <1>3. CASE a # Unreachable /\ b # Unreachable
    <2>1. a \in [R -> Intervals] /\ b \in [R -> Intervals] BY <1>3 DEF Envs
    <2>2. PICK w : w = EnvWiden(a, b) OBVIOUS
    <2>3. w = [r \in R |-> widen(a[r], b[r])] BY <1>3, <2>1, <2>2 DEF EnvWiden
    <2>4. PICK r \in R : w[r] # a[r] BY <2>1, <2>2, <2>3
    <2>5. \A q \in R : /\ Bits(w[q]) \subseteq Bits(a[q])
                       /\ w[q] # a[q] => Bits(w[q]) # Bits(a[q])
      BY <2>1, <2>3, WidenLosesBits
    <2>6. BitsOf(R, w) \subseteq BitsOf(R, a) BY <2>5 DEF BitsOf
    <2>7. PICK k \in Bits(a[r]) : k \notin Bits(w[r]) BY <2>4, <2>5
    <2>8. k \in 1 .. 3 BY <2>7 DEF Bits
    <2>9. <<r, k>> \in BitsOf(R, a) /\ <<r, k>> \notin BitsOf(R, w) BY <2>7, <2>8 DEF BitsOf
    <2>10. Cardinality(BitsOf(R, w)) < Cardinality(BitsOf(R, a))
      <3>1. IsFiniteSet(BitsOf(R, a)) /\ IsFiniteSet(BitsOf(R, w)) BY BitsFinite
      <3>2. Cardinality(BitsOf(R, w)) \in Nat /\ Cardinality(BitsOf(R, a)) \in Nat
        BY <3>1, FS_CardinalityType
      <3> QED BY <2>6, <2>9, <3>1, <3>2, FS_Subset
    <2>11. w # Unreachable
      <3>1. DOMAIN w = R BY <2>3
      <3> QED BY <2>4, <3>1 DEF Unreachable
    <2> QED BY <1>0, <1>3, <2>2, <2>10, <2>11 DEF Rank
  <1> QED BY <1>1, <1>2, <1>3

-----------------------------------------------------------------------------
(* The transfer callbacks map environments to environments. *)

LEMMA EvalTyped ==
    ASSUME NEW p, NEW env \in [Regs(p) -> Intervals], NEW o, TypedOperand(p, o)
    PROVE  eval_operand(o, env) \in Intervals
  <1>1. CASE Reg(o) BY <1>1 DEF TypedOperand, eval_operand
  <1>2. CASE ~Reg(o) BY <1>2, Literals DEF TypedOperand, eval_operand
  <1> QED BY <1>1, <1>2

LEMMA InstTyped ==
    ASSUME NEW p, NEW env \in [Regs(p) -> Intervals], NEW i,
           i.op # "check" => TypedOperand(p, i.a) /\ TypedOperand(p, i.b)
    PROVE  apply_inst(env, i) \in [Regs(p) -> Intervals]
  <1>1. CASE i.op = "check" BY <1>1 DEF apply_inst
  <1>2. CASE i.op # "check"
    <2>1. PICK a, b \in Intervals : a = eval_operand(i.a, env) /\ b = eval_operand(i.b, env)
      BY <1>2, EvalTyped
    <2>2. IAdd(a, b) \in Intervals /\ ISub(a, b) \in Intervals /\ IMul(a, b) \in Intervals
      BY OperationsTyped
    <2>3. eval_rvalue(i, env) \in Intervals BY <2>1, <2>2, Literals DEF eval_rvalue
    <2>4. apply_inst(env, i) = [env EXCEPT ![i.dst] = eval_rvalue(i, env)]
      BY <1>2 DEF apply_inst
    <2> QED BY <2>3, <2>4
  <1> QED BY <1>1, <1>2

(* The recursion by which IntervalBlock runs through the instructions. *)
BlockRec(env, insts, h) ==
    h = [t \in SUBSET DOMAIN insts |->
            IF t = {} THEN env ELSE apply_inst(h[t \ {Max(t)}], insts[Max(t)])]

LEMMA BlockTyped ==
    ASSUME NEW p, TypedProgram(p), NEW f, f.p = p, NEW b \in DOMAIN p.blocks,
           NEW env \in Envs(Regs(p))
    PROVE  IntervalBlock(f, b, env) \in Envs(Regs(p))
  <1>a. CASE env = Unreachable BY <1>a DEF IntervalBlock
  <1>b. CASE env # Unreachable
    <2> DEFINE A == [Regs(p) -> Intervals]
               insts == p.blocks[b].insts
               iter == CHOOSE h : BlockRec(env, insts, h)
    <2>0. env \in A BY <1>b DEF Envs
    <2>1. TypedBlock(p, p.blocks[b]) BY DEF TypedProgram
    <2>2. PICK n \in Nat : DOMAIN insts = 1 .. n BY <2>1 DEF TypedBlock
    <2>3. \A e \in A, k \in 1 .. n : apply_inst(e, insts[k]) \in A
      <3> SUFFICES ASSUME NEW e \in A, NEW k \in 1 .. n PROVE apply_inst(e, insts[k]) \in A
        OBVIOUS
      <3>1. insts[k].op # "check" => TypedOperand(p, insts[k].a) /\ TypedOperand(p, insts[k].b)
        BY <2>1, <2>2 DEF TypedBlock, TypedInst
      <3> HIDE DEF insts
      <3> QED BY <3>1, InstTyped
    <2> DEFINE F == [x \in A \X (1 .. n) |-> apply_inst(x[1], insts[x[2]])]
    <2>4. F \in [A \X (1 .. n) -> A]
      <3> HIDE DEF A, insts
      <3> QED BY <2>3
    <2>5. PICK g \in [SUBSET (1 .. n) -> A] : FoldRec(F, env, 1 .. n, g)
      <3> HIDE DEF F, A
      <3> QED BY <2>0, <2>4, FoldTyped
    <2>6. BlockRec(env, insts, g)
      <3>1. ASSUME NEW t \in SUBSET (1 .. n), t # {}
            PROVE  F[<<g[t \ {Max(t)}], Max(t)>>] = apply_inst(g[t \ {Max(t)}], insts[Max(t)])
        <4>1. Max(t) \in 1 .. n BY <3>1, LastOf
        <4>2. g[t \ {Max(t)}] \in A BY <2>5
        <4> HIDE DEF A, insts
        <4> QED BY <4>1, <4>2
      <3> HIDE DEF F, A, insts
      <3> QED BY <2>2, <2>5, <3>1 DEF BlockRec, FoldRec
    <2>7. PICK h : h = iter OBVIOUS
    <2>8. BlockRec(env, insts, h) BY <2>6, <2>7
    <2>9. h[{}] = env /\ \A t \in SUBSET (1 .. n) :
              t # {} => h[t] = apply_inst(h[t \ {Max(t)}], insts[Max(t)])
      <3> HIDE DEF insts, iter
      <3> QED BY <2>2, <2>8 DEF BlockRec
    <2>10. ASSUME NEW t \in SUBSET (1 .. n), t # {}, h[t \ {Max(t)}] \in A PROVE h[t] \in A
      <3>1. Max(t) \in 1 .. n BY <2>10, LastOf
      <3> HIDE DEF A, F, insts, iter
      <3>2. PICK e \in A : e = h[t \ {Max(t)}] BY <2>10
      <3>3. h[t] = apply_inst(e, insts[Max(t)]) BY <2>9, <2>10, <3>2
      <3> QED BY <2>3, <3>1, <3>3
    <2>11. h[1 .. n] \in A
      <3> HIDE DEF A, insts, iter
      <3> QED BY <2>0, <2>9, <2>10, FoldStays
    <2>12. IntervalBlock(f, b, env) = iter[DOMAIN insts]
      BY <1>b DEF IntervalBlock, FoldLeft, MapThenFoldSet, BlockRec
    <2> QED BY <2>2, <2>7, <2>11, <2>12 DEF Envs
  <1> QED BY <1>a, <1>b

LEMMA RefineRegTyped ==
    ASSUME NEW f, NEW env \in [f.regs -> Intervals], NEW r, NEW iv \in Intervals
    PROVE  refine_reg(f, env, r, iv) \in [f.regs -> Intervals]
  <1>1. \A x \in f.regs : meet(env[x], iv) \in Intervals BY OperationsTyped
  <1> QED BY <1>1 DEF refine_reg

LEMMA RefineTyped ==
    ASSUME NEW p, NEW f, f.regs = Regs(p), NEW env \in [Regs(p) -> Intervals], NEW op,
           NEW a, TypedOperand(p, a), NEW b, TypedOperand(p, b)
    PROVE  refine_by_cmp(f, env, op, a, b) \in [Regs(p) -> Intervals]
  <1>1. CASE op \notin {"slt", "sle", "sgt", "sge", "eq"} BY <1>1 DEF refine_by_cmp
  <1>2. CASE op \in {"slt", "sle", "sgt", "sge", "eq"}
    <2>1. PICK li, ri \in Intervals : li = eval_operand(a, env) /\ ri = eval_operand(b, env)
      BY EvalTyped
    <2>a. (op \in {"slt", "sgt"}) \in BOOLEAN OBVIOUS
    <2>2. PICK strict \in BOOLEAN : strict = (op \in {"slt", "sgt"}) BY <2>a, Zenon
    <2> DEFINE nl == CASE op \in {"slt", "sle"} -> as_upper_constraint(ri, strict)
                       [] op \in {"sgt", "sge"} -> as_lower_constraint(ri, strict)
                       [] op = "eq" -> ri
               nr == CASE op \in {"slt", "sle"} -> as_lower_constraint(li, strict)
                       [] op \in {"sgt", "sge"} -> as_upper_constraint(li, strict)
                       [] op = "eq" -> li
               left == IF Reg(a) THEN refine_reg(f, env, a.reg, meet(li, nl)) ELSE env
    <2>3. nl \in Intervals /\ nr \in Intervals
      <3>1. /\ as_upper_constraint(ri, strict) \in Intervals
            /\ as_lower_constraint(ri, strict) \in Intervals
            /\ as_lower_constraint(li, strict) \in Intervals
            /\ as_upper_constraint(li, strict) \in Intervals
        BY OperationsTyped
      <3> QED BY <1>2, <3>1
    <2>4. meet(li, nl) \in Intervals /\ meet(ri, nr) \in Intervals
      <3> HIDE DEF nl, nr
      <3> QED BY <2>3, OperationsTyped
    <2>5. left \in [f.regs -> Intervals]
      <3> HIDE DEF nl, nr
      <3> QED BY <2>4, RefineRegTyped
    <2>6. (IF Reg(b) THEN refine_reg(f, left, b.reg, meet(ri, nr)) ELSE left)
             \in [f.regs -> Intervals]
      <3> HIDE DEF nl, nr, left
      <3> QED BY <2>4, <2>5, RefineRegTyped
    <2>7. refine_by_cmp(f, env, op, a, b)
              = IF Reg(b) THEN refine_reg(f, left, b.reg, meet(ri, nr)) ELSE left
      BY <1>2, <2>1, <2>2, Zenon DEF refine_by_cmp
    <2> HIDE DEF nl, nr, left
    <2> QED BY <2>6, <2>7
  <1> QED BY <1>1, <1>2

(* A guard compares operands of the function. *)
LEMMA GuardTyped ==
    ASSUME NEW p, TypedProgram(p), NEW f, f.p = p, f.cmps = collect_cmps(p), NEW from, NEW to
    PROVE  \E n \in Nat : /\ DOMAIN Guard(f, from, to) = 1 .. n
                          /\ \A k \in 1 .. n : /\ TypedOperand(p, Guard(f, from, to)[k].a)
                                               /\ TypedOperand(p, Guard(f, from, to)[k].b)
  <1> DEFINE term == p.blocks[from].term
             c == f.cmps[term.cond]
             g == [op |-> IF term.else_blk = to THEN negate_cmp(c.op) ELSE c.op, a |-> c.a, b |-> c.b]
  <1>1. CASE Guard(f, from, to) = <<>>
    <2>1. DOMAIN Guard(f, from, to) = 1 .. 0 BY <1>1
    <2> QED BY <2>1
  <1>2. CASE Guard(f, from, to) # <<>>
    <2>1. Guard(f, from, to) = <<g>> /\ term.cond \in DOMAIN f.cmps BY <1>2, Zenon DEF Guard
    <2>2. PICK r : r = term.cond OBVIOUS
    <2>3. r \in {i.dst : i \in {j \in InstsOf(p) : j.op \in CmpOps}}
      BY <2>1, <2>2 DEF collect_cmps, DefsBy
    <2>4. c = CHOOSE i \in InstsOf(p) : i.op \in CmpOps /\ i.dst = r
      BY <2>2, <2>3 DEF collect_cmps, DefsBy
    <2>5. \E i \in InstsOf(p) : i.op \in CmpOps /\ i.dst = r BY <2>3
    <2>6. c \in InstsOf(p) /\ c.op \in CmpOps
      <3> HIDE DEF c
      <3> QED BY <2>4, <2>5
    <2>7. PICK i : i = c OBVIOUS
    <2>8. PICK b \in DOMAIN p.blocks : i \in Range(p.blocks[b].insts)
      <3> HIDE DEF c
      <3> QED BY <2>6, <2>7 DEF InstsOf
    <2>9. PICK k \in DOMAIN p.blocks[b].insts : i = p.blocks[b].insts[k] BY <2>8 DEF Range
    <2>10. i.op # "check"
      <3> HIDE DEF c
      <3> QED BY <2>6, <2>7 DEF CmpOps
    <2>11. TypedOperand(p, i.a) /\ TypedOperand(p, i.b)
      <3>1. TypedBlock(p, p.blocks[b]) BY DEF TypedProgram
      <3> QED BY <2>9, <2>10, <3>1 DEF TypedBlock, TypedInst
    <2>12. g.a = i.a /\ g.b = i.b BY <2>7
    <2> HIDE DEF g, c, term
    <2>13. /\ DOMAIN Guard(f, from, to) = 1 .. 1
           /\ Guard(f, from, to)[1] = g
      BY <2>1
    <2> QED BY <2>11, <2>12, <2>13
  <1> QED BY <1>1, <1>2

LEMMA EdgesOf ==
    ASSUME NEW p, TypedProgram(p), NEW b \in DOMAIN p.blocks
    PROVE  \E n \in Nat : DOMAIN OutEdges(p.blocks[b].term) = 1 .. n
  <1>1. PICK term : term = p.blocks[b].term OBVIOUS
  <1>2. term.op \in {"ret", "br", "condbr"} BY <1>1 DEF TypedProgram, TypedBlock
  <1>3. CASE term.op = "ret"
    <2>1. OutEdges(term) = <<>> BY <1>3 DEF OutEdges
    <2>2. DOMAIN OutEdges(term) = 1 .. 0 BY <2>1
    <2> QED BY <1>1, <2>2
  <1>4. CASE term.op = "br"
    <2>1. OutEdges(term) = <<[to |-> term.to, args |-> term.args]>> BY <1>4 DEF OutEdges
    <2>2. DOMAIN OutEdges(term) = 1 .. 1 BY <2>1
    <2> QED BY <1>1, <2>2
  <1>5. CASE term.op = "condbr"
    <2>1. OutEdges(term) = <<[to |-> term.then_blk, args |-> term.then_args],
                             [to |-> term.else_blk, args |-> term.else_args]>>
      BY <1>5 DEF OutEdges
    <2>2. DOMAIN OutEdges(term) = 1 .. 2 BY <2>1
    <2> QED BY <1>1, <2>2
  <1> QED BY <1>2, <1>3, <1>4, <1>5

(* The exit state as the guard of the edge refines it, and its recursion. *)
Guarded(f, from, to, exit) ==
    FoldLeft(LAMBDA e, c : refine_by_cmp(f, e, c.op, c.a, c.b), exit, Guard(f, from, to))
GuardRec(f, exit, gs, h) ==
    h = [t \in SUBSET DOMAIN gs |->
            IF t = {} THEN exit
            ELSE refine_by_cmp(f, h[t \ {Max(t)}], gs[Max(t)].op, gs[Max(t)].a, gs[Max(t)].b)]

LEMMA GuardedIs ==
    ASSUME NEW p, TypedProgram(p), NEW f, f.p = p, f.cmps = collect_cmps(p), f.regs = Regs(p),
           NEW from, NEW to, NEW exit \in [Regs(p) -> Intervals]
    PROVE  /\ Guarded(f, from, to, exit) \in [Regs(p) -> Intervals]
           /\ \E h : /\ GuardRec(f, exit, Guard(f, from, to), h)
                    /\ Guarded(f, from, to, exit) = h[DOMAIN Guard(f, from, to)]
  <1> DEFINE A == [Regs(p) -> Intervals]
             gs == Guard(f, from, to)
             iter == CHOOSE h : GuardRec(f, exit, gs, h)
             Next1(e, k) == refine_by_cmp(f, e, gs[k].op, gs[k].a, gs[k].b)
  <1>1. PICK n \in Nat : DOMAIN gs = 1 .. n /\ \A k \in 1 .. n : /\ TypedOperand(p, gs[k].a)
                                                              /\ TypedOperand(p, gs[k].b)
    BY GuardTyped
  <1>2. \A e \in A, k \in 1 .. n : Next1(e, k) \in A
    <2> HIDE DEF gs
    <2> QED BY <1>1, RefineTyped
  <1> DEFINE F == [x \in A \X (1 .. n) |-> Next1(x[1], x[2])]
  <1>3. F \in [A \X (1 .. n) -> A]
    <2> HIDE DEF A, Next1
    <2> QED BY <1>2
  <1>4. PICK g \in [SUBSET (1 .. n) -> A] : FoldRec(F, exit, 1 .. n, g)
    <2>1. exit \in A OBVIOUS
    <2> HIDE DEF F, A
    <2> QED BY <1>3, <2>1, FoldTyped
  <1>5. GuardRec(f, exit, gs, g)
    <2>1. ASSUME NEW t \in SUBSET (1 .. n), t # {}
          PROVE  F[<<g[t \ {Max(t)}], Max(t)>>] = Next1(g[t \ {Max(t)}], Max(t))
      <3>1. Max(t) \in 1 .. n BY <2>1, LastOf
      <3>2. g[t \ {Max(t)}] \in A BY <1>4
      <3> HIDE DEF A, gs, Next1
      <3> QED BY <3>1, <3>2
    <2> HIDE DEF F, A, gs
    <2> QED BY <1>1, <1>4, <2>1 DEF GuardRec, FoldRec
  <1>6. PICK h : h = iter OBVIOUS
  <1>7. GuardRec(f, exit, gs, h) BY <1>5, <1>6
  <1>8. h[{}] = exit /\ \A t \in SUBSET (1 .. n) : t # {} => h[t] = Next1(h[t \ {Max(t)}], Max(t))
    <2> HIDE DEF gs, iter
    <2> QED BY <1>1, <1>7 DEF GuardRec
  <1>9. ASSUME NEW t \in SUBSET (1 .. n), t # {}, h[t \ {Max(t)}] \in A PROVE h[t] \in A
    <2>1. Max(t) \in 1 .. n BY <1>9, LastOf
    <2> HIDE DEF A, F, gs, iter, Next1
    <2>2. PICK e \in A : e = h[t \ {Max(t)}] BY <1>9
    <2>3. h[t] = Next1(e, Max(t)) BY <1>8, <1>9, <2>2
    <2> QED BY <1>2, <2>1, <2>3
  <1>10. h[1 .. n] \in A
    <2>1. exit \in A OBVIOUS
    <2> HIDE DEF A, F, gs, iter, Next1
    <2> QED BY <1>8, <1>9, <2>1, FoldStays
  <1>11. Guarded(f, from, to, exit) = iter[DOMAIN gs]
    BY DEF Guarded, FoldLeft, MapThenFoldSet, GuardRec
  <1> HIDE DEF iter, gs, Next1, F
  <1>12. Guarded(f, from, to, exit) \in A BY <1>1, <1>6, <1>10, <1>11
  <1>13. GuardRec(f, exit, gs, h) /\ Guarded(f, from, to, exit) = h[DOMAIN gs]
    BY <1>6, <1>7, <1>11
  <1> QED BY <1>12, <1>13 DEF gs

LEMMA GuardedTyped ==
    ASSUME NEW p, TypedProgram(p), NEW f, f.p = p, f.cmps = collect_cmps(p), f.regs = Regs(p),
           NEW from, NEW to, NEW exit \in [Regs(p) -> Intervals]
    PROVE  Guarded(f, from, to, exit) \in [Regs(p) -> Intervals]
  BY GuardedIs

(* What an out-edge contributes to the block to, and the recursion over the edges. *)
Contributed(f, to, env, e) ==
    IF e.to # to THEN Unreachable
    ELSE [r \in f.regs |->
             IF r \in Range(f.p.blocks[to].params)
             THEN eval_operand(e.args[CHOOSE k \in DOMAIN f.p.blocks[to].params :
                                          f.p.blocks[to].params[k] = r], env)
             ELSE env[r]]
EdgeRec(f, to, env, es, h) ==
    h = [t \in SUBSET DOMAIN es |->
            IF t = {} THEN Unreachable
            ELSE EnvJoin(h[t \ {Max(t)}], Contributed(f, to, env, es[Max(t)]))]

LEMMA ContributedTyped ==
    ASSUME NEW p, TypedProgram(p), NEW f, f.p = p, f.regs = Regs(p),
           NEW from \in DOMAIN p.blocks, NEW to, NEW env \in [Regs(p) -> Intervals],
           NEW j \in DOMAIN OutEdges(p.blocks[from].term)
    PROVE  Contributed(f, to, env, OutEdges(p.blocks[from].term)[j]) \in Envs(Regs(p))
  <1>1. PICK e : e = OutEdges(p.blocks[from].term)[j] OBVIOUS
  <1>2. CASE e.to # to BY <1>1, <1>2 DEF Contributed, Envs
  <1>3. CASE e.to = to
    <2>1. PICK params : params = f.p.blocks[to].params OBVIOUS
    <2>2. TypedBlock(p, p.blocks[from]) BY DEF TypedProgram
    <2>3. \A k \in DOMAIN params : TypedOperand(p, e.args[k])
      BY <1>1, <1>3, <2>1, <2>2 DEF TypedBlock
    <2>4. ASSUME NEW r \in Range(params)
          PROVE  eval_operand(e.args[CHOOSE k \in DOMAIN params : params[k] = r], env) \in Intervals
      <3>1. \E k \in DOMAIN params : params[k] = r BY DEF Range
      <3>2. PICK k \in DOMAIN params : k = CHOOSE i \in DOMAIN params : params[i] = r BY <3>1
      <3>3. TypedOperand(p, e.args[k]) BY <2>3
      <3>4. eval_operand(e.args[k], env) \in Intervals BY <3>3, EvalTyped
      <3> QED BY <3>2, <3>4
    <2>5. Contributed(f, to, env, e)
             = [r \in f.regs |->
                   IF r \in Range(params)
                   THEN eval_operand(e.args[CHOOSE k \in DOMAIN params : params[k] = r], env)
                   ELSE env[r]]
      BY <1>3, <2>1 DEF Contributed
    <2>6. Contributed(f, to, env, e) \in [Regs(p) -> Intervals] BY <2>4, <2>5
    <2> QED BY <1>1, <2>6 DEF Envs
  <1> QED BY <1>2, <1>3

LEMMA EdgeIs ==
    ASSUME NEW p, TypedProgram(p), NEW f, f.p = p, f.cmps = collect_cmps(p), f.regs = Regs(p),
           NEW from \in DOMAIN p.blocks, NEW to, NEW exit \in Envs(Regs(p))
    PROVE  /\ IntervalEdge(f, from, to, exit) \in Envs(Regs(p))
           /\ exit # Unreachable =>
                \E h : /\ EdgeRec(f, to, Guarded(f, from, to, exit), OutEdges(p.blocks[from].term), h)
                     /\ IntervalEdge(f, from, to, exit) = h[DOMAIN OutEdges(p.blocks[from].term)]
  <1>a. CASE exit = Unreachable BY <1>a DEF IntervalEdge
  <1>b. CASE exit # Unreachable
    <2> DEFINE A == Envs(Regs(p))
               env == Guarded(f, from, to, exit)
               es == OutEdges(f.p.blocks[from].term)
               iter == CHOOSE h : EdgeRec(f, to, env, es, h)
               Next1(a, k) == EnvJoin(a, Contributed(f, to, env, es[k]))
    <2>0. Unreachable \in A BY DEF Envs
    <2>1. PICK n \in Nat : DOMAIN es = 1 .. n BY EdgesOf
    <2>2. \A a \in A, k \in 1 .. n : Next1(a, k) \in A
      <3>1. exit \in [Regs(p) -> Intervals] BY <1>b DEF Envs
      <3>2. env \in [Regs(p) -> Intervals] BY <3>1, GuardedTyped
      <3>3. \A k \in 1 .. n : Contributed(f, to, env, es[k]) \in A
        <4> HIDE DEF env
        <4> QED BY <2>1, <3>2, ContributedTyped
      <3> HIDE DEF env, es
      <3> QED BY <3>3, EnvsTyped
    <2> DEFINE F == [x \in A \X (1 .. n) |-> Next1(x[1], x[2])]
    <2>3. F \in [A \X (1 .. n) -> A]
      <3> HIDE DEF A, Next1
      <3> QED BY <2>2
    <2>4. PICK g \in [SUBSET (1 .. n) -> A] : FoldRec(F, Unreachable, 1 .. n, g)
      <3> HIDE DEF F, A
      <3> QED BY <2>0, <2>3, FoldTyped
    <2>5. EdgeRec(f, to, env, es, g)
      <3>1. ASSUME NEW t \in SUBSET (1 .. n), t # {}
            PROVE  F[<<g[t \ {Max(t)}], Max(t)>>] = Next1(g[t \ {Max(t)}], Max(t))
        <4>1. Max(t) \in 1 .. n BY <3>1, LastOf
        <4>2. g[t \ {Max(t)}] \in A BY <2>4
        <4> HIDE DEF A, env, es, Next1
        <4> QED BY <4>1, <4>2
      <3> HIDE DEF F, A, env, es
      <3> QED BY <2>1, <2>4, <3>1 DEF EdgeRec, FoldRec
    <2>6. PICK h : h = iter OBVIOUS
    <2>7. EdgeRec(f, to, env, es, h) BY <2>5, <2>6
    <2>8. h[{}] = Unreachable
            /\ \A t \in SUBSET (1 .. n) : t # {} => h[t] = Next1(h[t \ {Max(t)}], Max(t))
      <3> HIDE DEF env, es, iter
      <3> QED BY <2>1, <2>7 DEF EdgeRec
    <2>9. ASSUME NEW t \in SUBSET (1 .. n), t # {}, h[t \ {Max(t)}] \in A PROVE h[t] \in A
      <3>1. Max(t) \in 1 .. n BY <2>9, LastOf
      <3> HIDE DEF A, F, env, es, iter, Next1
      <3>2. PICK e \in A : e = h[t \ {Max(t)}] BY <2>9
      <3>3. h[t] = Next1(e, Max(t)) BY <2>8, <2>9, <3>2
      <3> QED BY <2>2, <3>1, <3>3
    <2>10. h[1 .. n] \in A
      <3> HIDE DEF A, F, env, es, iter, Next1
      <3> QED BY <2>0, <2>8, <2>9, FoldStays
    <2>11. IntervalEdge(f, from, to, exit) = iter[DOMAIN es]
      BY <1>b DEF IntervalEdge, FoldLeft, MapThenFoldSet, EdgeRec, Contributed, Guarded
    <2> HIDE DEF iter, env, es, Next1, F
    <2>12. IntervalEdge(f, from, to, exit) \in A BY <2>1, <2>6, <2>10, <2>11
    <2>13. EdgeRec(f, to, env, es, h) /\ IntervalEdge(f, from, to, exit) = h[DOMAIN es]
      BY <2>6, <2>7, <2>11
    <2> QED BY <2>12, <2>13 DEF env, es
  <1> QED BY <1>a, <1>b

LEMMA EdgeTyped ==
    ASSUME NEW p, TypedProgram(p), NEW f, f.p = p, f.cmps = collect_cmps(p), f.regs = Regs(p),
           NEW from \in DOMAIN p.blocks, NEW to, NEW exit \in Envs(Regs(p))
    PROVE  IntervalEdge(f, from, to, exit) \in Envs(Regs(p))
  BY EdgeIs

-----------------------------------------------------------------------------
(* The functions of the analysis are problems that solve is proved right for. *)

LEMMA FunctionFields ==
    ASSUME NEW p, NEW f, f = FunctionOf(p)
    PROVE  /\ f.p = p /\ f.g = GraphOf(p) /\ f.rpo = reverse_postorder(f.g)
           /\ f.regs = Regs(p) /\ f.cmps = collect_cmps(p)
  BY DEF FunctionOf

LEMMA GraphTyped ==
    ASSUME NEW p, TypedProgram(p)
    PROVE  Graph(GraphOf(p)) /\ Nodes(GraphOf(p)) = DOMAIN p.blocks
  <1>1. PICK n \in Nat \ {0} : Len(p.blocks) = n /\ DOMAIN p.blocks = 1 .. n BY DEF TypedProgram
  <1>2. PICK g : g = GraphOf(p) OBVIOUS
  <1>3. /\ g.node_count = n /\ g.entry = 1
        /\ g.succ = [b \in 1 .. n |-> [i \in DOMAIN OutEdges(p.blocks[b].term) |->
                                          OutEdges(p.blocks[b].term)[i].to]]
    BY <1>1, <1>2 DEF GraphOf
  <1>4. ASSUME NEW b \in 1 .. n
        PROVE  [i \in DOMAIN OutEdges(p.blocks[b].term) |-> OutEdges(p.blocks[b].term)[i].to]
                   \in Seq(1 .. n)
    <2>1. PICK es : es = OutEdges(p.blocks[b].term) OBVIOUS
    <2>2. PICK m \in Nat : DOMAIN es = 1 .. m BY <1>1, <2>1, EdgesOf
    <2>3. \A i \in 1 .. m : es[i].to \in 1 .. n
      BY <1>1, <2>1, <2>2 DEF TypedProgram, TypedBlock
    <2>4. [i \in DOMAIN es |-> es[i].to] \in [1 .. m -> 1 .. n] BY <2>2, <2>3
    <2>5. [i \in DOMAIN es |-> es[i].to] \in Seq(1 .. n) BY <2>4
    <2> QED BY <2>1, <2>5
  <1>5. g.succ \in [1 .. n -> Seq(1 .. n)] BY <1>3, <1>4
  <1>6. Nodes(g) = 1 .. n BY <1>3 DEF Nodes
  <1>7. 1 \in 1 .. n BY <1>1
  <1> QED BY <1>1, <1>2, <1>3, <1>5, <1>6, <1>7 DEF Graph

-----------------------------------------------------------------------------
(* The proofs about solve, for the interval analysis.  Both instances of Fixpoint, the
   one Absint runs and the one these proofs are about, mean the same. *)
IP == INSTANCE FixpointProofs WITH
          Bottom <- Unreachable, Join <- EnvJoin, Widen <- EnvWiden, EntryState <- Top,
          TransferBlock <- IntervalBlock, TransferEdge <- IntervalEdge,
          in_states <- i_in, out_states <- i_out

LEMMA SameNodes == \A g : IP!Nodes(g) = Nodes(g) /\ I!Nodes(g) = Nodes(g)
  BY DEF IP!Nodes, I!Nodes, Nodes

LEMMA SameRange == \A s : IP!Range(s) = Range(s) BY DEF IP!Range, Range

LEMMA SamePreds ==
    ASSUME NEW g, NEW u
    PROVE  IP!Preds(g, u) = I!Preds(g, u)
  BY DEF IP!Preds, I!Preds, IP!FlattenSeq, I!FlattenSeq, IP!Nodes, I!Nodes,
         IP!Cardinality, I!Cardinality, IP!IsFiniteSet, I!IsFiniteSet

LEMMA SameJoined ==
    ASSUME NEW f, NEW u, NEW outs
    PROVE  IP!Joined(f, u, outs) = I!Joined(f, u, outs)
  <1>1. PICK ps : ps = IP!Preds(f.g, u) /\ ps = I!Preds(f.g, u) BY SamePreds
  <1> QED BY <1>1 DEF IP!Joined, I!Joined, IP!FoldLeft, I!FoldLeft,
                      IP!MapThenFoldSet, I!MapThenFoldSet, IP!Max, I!Max

LEMMA SameRequeue ==
    ASSUME NEW q, NEW ss
    PROVE  IP!Requeue(q, ss) = I!Requeue(q, ss)
  BY DEF IP!Requeue, I!Requeue, IP!FoldLeft, I!FoldLeft, IP!MapThenFoldSet, I!MapThenFoldSet,
         IP!Range, I!Range, IP!Max, I!Max

LEMMA SameStep == IP!Step <=> I!Step
  <1>1. \A u : IP!Widens(u) = I!Widens(u) BY DEF IP!Widens, I!Widens
  <1> QED BY <1>1, SameJoined, SameRequeue DEF IP!Step, I!Step

LEMMA SameInit == \A P : IP!Init(P) <=> I!Init(P)
  BY SameNodes DEF IP!Init, I!Init

LEMMA SameSolved == IP!Solved <=> I!Solved BY DEF IP!Solved, I!Solved

(* A function of the analysis has an order with its entry and all successors, and its
   callbacks map environments of its registers to such environments. *)
LEMMA ProblemTyped ==
    ASSUME NEW p \in Programs, NEW f, f = FunctionOf(p)
    PROVE  /\ IP!WellFormed(f) /\ IP!CallbacksTyped(f, Envs(f.regs)) /\ IsFiniteSet(f.regs)
  <1>0. TypedProgram(p) BY ProgramsAssumption
  <1>1. /\ f.p = p /\ f.g = GraphOf(p) /\ f.rpo = reverse_postorder(f.g)
        /\ f.regs = Regs(p) /\ f.cmps = collect_cmps(p)
    BY FunctionFields
  <1>2. Graph(f.g) /\ Nodes(f.g) = DOMAIN p.blocks BY <1>0, <1>1, GraphTyped
  <1>3. IP!WellFormed(f)
    <2>1. /\ f.rpo \in Seq(Nodes(f.g)) /\ Closed(f.g, Range(f.rpo))
      BY <1>1, <1>2, ReversePostorderExact
    <2>2. Range(f.rpo) \subseteq Nodes(f.g) BY <2>1 DEF Range
    <2> QED BY <1>2, <2>1, <2>2, SameNodes, SameRange DEF IP!WellFormed, Graph, Closed
  <1>4. IP!CallbacksTyped(f, Envs(f.regs))
    <2>1. Top(f) \in Envs(f.regs) BY Literals DEF Top, Envs
    <2>2. \A u \in Nodes(f.g), a \in Envs(f.regs) : IntervalBlock(f, u, a) \in Envs(f.regs)
      BY <1>0, <1>1, <1>2, BlockTyped
    <2>3. \A u, v \in Nodes(f.g), a \in Envs(f.regs) : IntervalEdge(f, u, v, a) \in Envs(f.regs)
      BY <1>0, <1>1, <1>2, EdgeTyped
    <2> QED BY <2>1, <2>2, <2>3, SameNodes DEF IP!CallbacksTyped
  <1> QED BY <1>0, <1>1, <1>3, <1>4 DEF TypedProgram

LEMMA DomainOfEnvs ==
    ASSUME NEW R, IsFiniteSet(R)
    PROVE  IP!DomainTyped(Envs(R)) /\ IP!WidenDescends(Envs(R), Rank(R))
  <1>1. IP!DomainTyped(Envs(R)) BY EnvsTyped DEF IP!DomainTyped, Envs
  <1>2. IP!WidenDescends(Envs(R), Rank(R)) BY EnvWidenDescends DEF IP!WidenDescends
  <1> QED BY <1>1, <1>2

-----------------------------------------------------------------------------
(* The interval analysis as a phase of the specification. *)

(* While the interval analysis runs, and for ever where no zones follow, updates
   counts its changes. *)
Counting == phase = "interval" \/ fn.index = {}

IntervalInv ==
    /\ \E p \in Programs : fn = FunctionOf(p)
    /\ phase \in {"interval", "zone", "done"}
    /\ fn.index = {} => phase # "zone"
    /\ Counting => IP!EngineInv(Envs(fn.regs)) /\ IP!ChangesLeft(EnvChanges, Rank(fn.regs))

LEMMA IntervalInit ==
    ASSUME Init
    PROVE  IntervalInv
  <1>1. IP!Init({FunctionOf(p) : p \in Programs}) BY SameInit DEF Init
  <1>2. PICK p \in Programs : fn = FunctionOf(p) BY <1>1 DEF IP!Init
  <1>3. PICK R : R = fn.regs OBVIOUS
  <1>4. IP!WellFormed(fn) /\ IP!CallbacksTyped(fn, Envs(R)) /\ IsFiniteSet(R)
    BY <1>2, <1>3, ProblemTyped
  <1>5. IP!DomainTyped(Envs(R)) BY <1>4, DomainOfEnvs
  <1>6. IP!Solvable({fn}, Envs(R)) BY <1>4 DEF IP!Solvable
  <1>7. IP!Init({fn}) BY <1>1 DEF IP!Init
  <1>8. IP!EngineInv(Envs(R)) BY <1>5, <1>6, <1>7, IP!EngineInit
  <1>9. IP!ChangesLeft(EnvChanges, Rank(R))
    <2> SUFFICES ASSUME NEW u \in IP!Nodes(fn.g)
                 PROVE  updates[u] + Rank(R)[i_in[u]] <= FORCE_WIDEN_AFTER + EnvChanges
      BY DEF IP!ChangesLeft
    <2>1. updates[u] = 0 /\ i_in[u] = Unreachable BY <1>7 DEF IP!Init
    <2>2. Rank(R)[Unreachable] = 3 * Cardinality(R) + 1 BY DEF Rank, Envs
    <2>3. EnvChanges = 3 * Cardinality(R) + 1 BY <1>3 DEF EnvChanges
    <2>4. Cardinality(R) \in Nat BY <1>4, FS_CardinalityType
    <2> QED BY <2>1, <2>2, <2>3, <2>4, InfTyped
  <1>10. phase = "interval" BY DEF Init
  <1> QED BY <1>2, <1>3, <1>8, <1>9, <1>10 DEF IntervalInv

LEMMA IntervalStepKeeps ==
    ASSUME IntervalInv, IntervalStep
    PROVE  IntervalInv'
  <1>1. IP!Step /\ phase = "interval" /\ phase' = phase BY SameStep DEF IntervalStep
  <1>2. fn' = fn BY <1>1 DEF IP!Step
  <1>3. PICK p \in Programs : fn = FunctionOf(p) BY DEF IntervalInv
  <1>4. PICK R : R = fn.regs OBVIOUS
  <1>5. IsFiniteSet(R) BY <1>3, <1>4, ProblemTyped
  <1>6. PICK K \in Nat : K = EnvChanges /\ K = 3 * Cardinality(R) + 1
    <2>1. Cardinality(R) \in Nat BY <1>5, FS_CardinalityType
    <2> QED BY <1>4, <2>1 DEF EnvChanges
  <1>7. PICK S : S = Envs(R) OBVIOUS
  <1>8. PICK rank : rank = Rank(R) OBVIOUS
  <1>9. IP!DomainTyped(S) /\ IP!WidenDescends(S, rank) /\ rank \in [S -> 0 .. K]
    BY <1>5, <1>6, <1>7, <1>8, DomainOfEnvs, RankTyped
  <1>10. IP!EngineInv(S) /\ IP!ChangesLeft(K, rank)
    BY <1>1, <1>4, <1>6, <1>7, <1>8 DEF IntervalInv, Counting
  <1>11. IP!EngineInv(S)' BY <1>1, <1>9, <1>10, InfTyped, IP!EngineStep
  <1>12. IP!ChangesLeft(K, rank)' BY <1>1, <1>9, <1>10, InfTyped, IP!ChangesLeftStep
  <1>13. EnvChanges' = K /\ Envs(fn.regs)' = S /\ Rank(fn.regs)' = rank
    BY <1>2, <1>4, <1>6, <1>7, <1>8 DEF EnvChanges
  <1> QED BY <1>1, <1>2, <1>3, <1>11, <1>12, <1>13 DEF IntervalInv

(* Nothing that the interval invariant speaks of changes. *)
LEMMA IntervalKept ==
    ASSUME IntervalInv, UNCHANGED <<fn, i_in, i_out, worklist, updates>>,
           phase' \in {"interval", "zone", "done"},
           fn.index = {} => phase' # "zone", Counting' => Counting
    PROVE  IntervalInv'
  <1>1. fn' = fn /\ i_in' = i_in /\ i_out' = i_out /\ worklist' = worklist /\ updates' = updates
    OBVIOUS
  <1>2. (\E p \in Programs : fn = FunctionOf(p))' BY <1>1 DEF IntervalInv
  <1>3. PICK S, K, rank : S = Envs(fn.regs) /\ K = EnvChanges /\ rank = Rank(fn.regs) OBVIOUS
  <1>4. Envs(fn.regs)' = S /\ EnvChanges' = K /\ Rank(fn.regs)' = rank
    BY <1>1, <1>3 DEF EnvChanges
  <1>5. ASSUME Counting' PROVE IP!EngineInv(S)' /\ IP!ChangesLeft(K, rank)'
    <2>1. IP!EngineInv(S) /\ IP!ChangesLeft(K, rank) BY <1>3, <1>5 DEF IntervalInv
    <2> QED BY <1>1, <2>1
         DEF IP!EngineInv, IP!EngineTypes, IP!Settled, IP!Transferred, IP!Widens, IP!ChangesLeft
  <1> QED BY <1>1, <1>2, <1>4, <1>5 DEF IntervalInv

LEMMA IntervalNext ==
    ASSUME IntervalInv, [Next]_vars
    PROVE  IntervalInv'
  <1>1. CASE IntervalStep BY <1>1, IntervalStepKeeps
  <1>2. CASE StartZones
    <2>1. CASE fn.index = {}
      BY <1>2, <2>1, IntervalKept DEF StartZones, Counting
    <2>2. CASE fn.index # {}
      <3>1. phase' = "zone" /\ fn' = fn BY <1>2, <2>2 DEF StartZones
      <3> QED BY <2>2, <3>1 DEF IntervalInv, Counting
    <2> QED BY <2>1, <2>2
  <1>3. CASE ZoneStep
    <2>1. phase = "zone" /\ phase' = phase /\ fn' = fn BY <1>3 DEF ZoneStep, Z!Step
    <2> QED BY <2>1 DEF IntervalInv, Counting
  <1>4. CASE Finish
    <2>1. phase = "zone" /\ phase' = "done" /\ fn' = fn BY <1>4 DEF Finish
    <2> QED BY <2>1 DEF IntervalInv, Counting
  <1>5. CASE Done BY <1>5, IntervalKept DEF Done, vars, IntervalInv, Counting
  <1>6. CASE UNCHANGED vars BY <1>6, IntervalKept DEF vars, IntervalInv, Counting
  <1> QED BY <1>1, <1>2, <1>3, <1>4, <1>5, <1>6 DEF Next

(* The forced widening of solve bounds the interval analysis of every function: no
   block's entry environment changes more than FORCE_WIDEN_AFTER + 3 * registers + 1
   times, on reducible and irreducible graphs alike, so WorkBounded holds as long as
   updates counts the changes of the interval analysis. *)
THEOREM IntervalWorkBounded == Spec => [](Counting => WorkBounded)
  <1>1. Init => IntervalInv BY IntervalInit
  <1>2. IntervalInv /\ [Next]_vars => IntervalInv' BY IntervalNext
  <1>3. IntervalInv => (Counting => WorkBounded)
    <2> SUFFICES ASSUME IntervalInv, Counting PROVE WorkBounded OBVIOUS
    <2>1. PICK p \in Programs : fn = FunctionOf(p) BY DEF IntervalInv
    <2>2. PICK R, rank : R = fn.regs /\ rank = Rank(R) OBVIOUS
    <2>3. IP!EngineInv(Envs(R)) /\ IP!ChangesLeft(EnvChanges, rank)
      BY <2>2 DEF IntervalInv
    <2>4. IsFiniteSet(R) BY <2>1, <2>2, ProblemTyped
    <2>5. rank \in [Envs(R) -> 0 .. 3 * Cardinality(R) + 1] BY <2>2, <2>4, RankTyped
    <2>6. Cardinality(R) \in Nat /\ EnvChanges = 3 * Cardinality(R) + 1
      BY <2>2, <2>4, FS_CardinalityType DEF EnvChanges
    <2>7. /\ updates \in [IP!Nodes(fn.g) -> Nat] /\ i_in \in [IP!Nodes(fn.g) -> Envs(R)]
      BY <2>3 DEF IP!EngineInv, IP!EngineTypes
    <2>8. ASSUME NEW n \in DOMAIN updates PROVE updates[n] <= FORCE_WIDEN_AFTER + EnvChanges
      <3>1. updates[n] \in Nat /\ i_in[n] \in Envs(R) BY <2>7
      <3>2. rank[i_in[n]] \in 0 .. 3 * Cardinality(R) + 1 BY <2>5, <3>1
      <3>3. updates[n] + rank[i_in[n]] <= FORCE_WIDEN_AFTER + EnvChanges
        BY <2>3, <2>7 DEF IP!ChangesLeft
      <3> QED BY <2>6, <3>1, <3>2, <3>3, InfTyped
    <2> QED BY <2>8 DEF WorkBounded, Counting
  <1> QED BY <1>1, <1>2, <1>3, PTL DEF Spec

-----------------------------------------------------------------------------
(* A block runs its instructions one after the other, on values and on intervals. *)

RunStep(mem, r, i) ==
    IF r = <<>> \/ i.op = "check" THEN r
    ELSE IF Overflow = "stop" /\ WrapInt(Exact(i, r, mem)) # Exact(i, r, mem) THEN <<>>
         ELSE Assign(r, i.dst, WrapInt(Exact(i, r, mem)))

StepOf(mem, abs, r, i) == IF abs = "intervals" THEN apply_inst(r, i) ELSE RunStep(mem, r, i)

Upto(n, S) == n \in Nat /\ S \in SUBSET (1 .. n)

(* The recursion of the folds in RunTo and in IntervalBlock. *)
StepRec(mem, abs, base, insts, S, h) ==
    h = [t \in SUBSET S |->
            IF t = {} THEN base ELSE StepOf(mem, abs, h[t \ {Max(t)}], insts[Max(t)])]

LEMMA StepUnique ==
    ASSUME NEW mem, NEW abs, NEW base, NEW insts, NEW n, NEW S, NEW T, NEW g, NEW h,
           Upto(n, S), Upto(n, T),
           StepRec(mem, abs, base, insts, S, g), StepRec(mem, abs, base, insts, T, h),
           NEW u, u \in SUBSET S, u \in SUBSET T
    PROVE  g[u] = h[u]
  <1> USE DEF Upto
  <1> DEFINE Bad == {s \in SUBSET u : g[s] # h[s]}
  <1> SUFFICES ASSUME Bad # {} PROVE FALSE OBVIOUS
  <1>0. IsFiniteSet(1 .. n) BY FS_Interval
  <1>1. \A s \in SUBSET u : s \in SUBSET (1 .. n) /\ IsFiniteSet(s) BY <1>0, FS_Subset
  <1>2. PICK s \in Bad : \A t \in Bad : Cardinality(s) <= Cardinality(t)
    <2>1. \A s \in Bad : IsFiniteSet(s) BY <1>1
    <2> HIDE DEF Bad
    <2> QED BY <2>1, SmallestSet
  <1>a. s \in SUBSET S /\ s \in SUBSET T /\ s \in SUBSET u /\ g[s] # h[s] BY <1>2
  <1> HIDE DEF Bad
  <1>3. g[s] = IF s = {} THEN base ELSE StepOf(mem, abs, g[s \ {Max(s)}], insts[Max(s)])
    BY <1>a DEF StepRec
  <1>4. h[s] = IF s = {} THEN base ELSE StepOf(mem, abs, h[s \ {Max(s)}], insts[Max(s)])
    BY <1>a DEF StepRec
  <1>5. s # {} BY <1>a, <1>3, <1>4
  <1>6. Max(s) \in s /\ ~(Cardinality(s) <= Cardinality(s \ {Max(s)}))
    BY <1>1, <1>a, <1>5, Shorter
  <1>7. s \ {Max(s)} \notin Bad BY <1>2, <1>6
  <1>8. g[s \ {Max(s)}] = h[s \ {Max(s)}] BY <1>a, <1>7 DEF Bad
  <1> QED BY <1>a, <1>3, <1>4, <1>5, <1>8

LEMMA StepExists ==
    ASSUME NEW mem, NEW abs, NEW base, NEW insts, NEW n \in Nat, NEW S \in SUBSET (1 .. n)
    PROVE  \E h : StepRec(mem, abs, base, insts, S, h)
  <1> DEFINE Rec(s, g) == StepRec(mem, abs, base, insts, s, g)
             Has(s) == \E g : Rec(s, g)
             Bad == {s \in SUBSET S : ~Has(s)}
  <1> SUFFICES ASSUME Bad # {} PROVE FALSE OBVIOUS
  <1>0. IsFiniteSet(1 .. n) BY FS_Interval
  <1>1. \A s \in SUBSET S : s \in SUBSET (1 .. n) /\ IsFiniteSet(s) BY <1>0, FS_Subset
  <1>2. PICK T \in Bad : \A t \in Bad : Cardinality(T) <= Cardinality(t)
    <2>1. \A s \in Bad : IsFiniteSet(s) BY <1>1
    <2> HIDE DEF Bad
    <2> QED BY <2>1, SmallestSet
  <1>a. T \in SUBSET S /\ T \in SUBSET (1 .. n) BY <1>2
  <1>3. ASSUME NEW t \in SUBSET T, t # T PROVE Has(t)
    <2>1. IsFiniteSet(T) /\ IsFiniteSet(t) BY <1>1, <1>a
    <2>2. Cardinality(t) \in Nat /\ Cardinality(T) \in Nat BY <2>1, FS_CardinalityType
    <2>3. Cardinality(t) < Cardinality(T)
      <3> HIDE DEF Bad, Has
      <3> QED BY <1>3, <2>1, <2>2, FS_Subset
    <2>4. t \notin Bad
      <3> HIDE DEF Bad
      <3> QED BY <1>2, <2>2, <2>3
    <2>5. t \in SUBSET S BY <1>a
    <2> HIDE DEF Has
    <2> QED BY <2>4, <2>5
  <1> DEFINE H(t) == (CHOOSE g : Rec(t, g))[t]
             G == [s \in SUBSET T |->
                      IF s = {} THEN base
                      ELSE StepOf(mem, abs, H(s \ {Max(s)}), insts[Max(s)])]
  <1>4. ASSUME NEW t \in SUBSET T, t # T
        PROVE  \E g : Rec(t, g) /\ H(t) = g[t]
    <2>1. Has(t) BY <1>3, <1>4
    <2> HIDE DEF Rec
    <2> QED BY <2>1
  <1>6. ASSUME NEW s \in SUBSET T, s # {}
        PROVE  s \ {Max(s)} \in SUBSET T /\ s \ {Max(s)} # T
    <2>1. Max(s) \in s BY <1>6, <1>a, LastOf
    <2> QED BY <2>1
  <1>8. ASSUME NEW t \in SUBSET T, t # T PROVE G[t] = H(t)
    <2>1. PICK g : Rec(t, g) /\ H(t) = g[t] BY <1>4, <1>8
    <2>2. g[t] = IF t = {} THEN base ELSE StepOf(mem, abs, g[t \ {Max(t)}], insts[Max(t)])
      <3>1. t \in SUBSET t OBVIOUS
      <3> HIDE DEF G, H
      <3> QED BY <2>1, <3>1 DEF StepRec
    <2>3. G[t] = IF t = {} THEN base ELSE StepOf(mem, abs, H(t \ {Max(t)}), insts[Max(t)])
      OBVIOUS
    <2>4. CASE t = {}
      <3> HIDE DEF G, H, Rec
      <3> QED BY <2>1, <2>2, <2>3, <2>4
    <2>5. CASE t # {}
      <3>1. PICK v : v = t \ {Max(t)} OBVIOUS
      <3>2. v \in SUBSET T /\ v # T /\ v \in SUBSET t BY <1>6, <2>5, <3>1
      <3>3. PICK k : Rec(v, k) /\ H(v) = k[v] BY <1>4, <3>2
      <3>4. k[v] = g[v]
        <4>1. v \in SUBSET v /\ v \in SUBSET t /\ Upto(n, t) /\ Upto(n, v)
          BY <1>a, <3>2 DEF Upto
        <4>2. StepRec(mem, abs, base, insts, v, k) /\ StepRec(mem, abs, base, insts, t, g)
          BY <2>1, <3>3
        <4> HIDE DEF G, H, Rec, Has, Bad
        <4> QED BY <4>1, <4>2, StepUnique, SMTT(30)
      <3> HIDE DEF G, H, Rec
      <3> QED BY <2>1, <2>2, <2>3, <2>5, <3>1, <3>3, <3>4
    <2> QED BY <2>4, <2>5
  <1>9. Rec(T, G)
    <2>1. ASSUME NEW s \in SUBSET T, s # {}
          PROVE  StepOf(mem, abs, H(s \ {Max(s)}), insts[Max(s)])
                     = StepOf(mem, abs, G[s \ {Max(s)}], insts[Max(s)])
      <3>1. H(s \ {Max(s)}) = G[s \ {Max(s)}]
        <4>1. s \ {Max(s)} \in SUBSET T /\ s \ {Max(s)} # T BY <1>6, <2>1
        <4> HIDE DEF G, H
        <4> QED BY <1>8, <4>1
      <3> HIDE DEF G, H
      <3> QED BY <3>1
    <2>2. G = [s \in SUBSET T |->
                  IF s = {} THEN base
                  ELSE StepOf(mem, abs, G[s \ {Max(s)}], insts[Max(s)])]
      <3>1. G = [s \in SUBSET T |->
                  IF s = {} THEN base
                  ELSE StepOf(mem, abs, H(s \ {Max(s)}), insts[Max(s)])]
        OBVIOUS
      <3> HIDE DEF G, H
      <3> QED BY <2>1, <3>1
    <2> HIDE DEF G, H
    <2> QED BY <2>2 DEF StepRec
  <1>10. Has(T) BY <1>9
  <1> QED BY <1>2, <1>10

(* The environment after the first n instructions. *)
EnvAt(insts, n, env) == FoldLeft(apply_inst, env, SubSeq(insts, 1, n))

RunRec(mem, regs, insts, h) ==
    h = [t \in SUBSET DOMAIN insts |->
            IF t = {} THEN regs ELSE RunStep(mem, h[t \ {Max(t)}], insts[Max(t)])]

LEMMA PrefixIs ==
    ASSUME NEW X, NEW insts \in Seq(X), NEW n \in 0 .. Len(insts)
    PROVE  DOMAIN SubSeq(insts, 1, n) = 1 .. n /\ \A k \in 1 .. n : SubSeq(insts, 1, n)[k] = insts[k]
  OBVIOUS

LEMMA RunToIs ==
    ASSUME NEW X, NEW block, block.insts \in Seq(X), NEW n \in 0 .. Len(block.insts),
           NEW regs, NEW mem
    PROVE  \E h : /\ StepRec(mem, "values", regs, block.insts, 1 .. n, h)
                  /\ RunTo(block, n, regs, mem) = h[1 .. n]
  <1>1. PICK insts : insts = block.insts OBVIOUS
  <1>2. PICK sub : sub = SubSeq(insts, 1, n) OBVIOUS
  <1>3. DOMAIN sub = 1 .. n /\ (\A k \in 1 .. n : sub[k] = insts[k]) /\ n \in Nat
    BY <1>1, <1>2, PrefixIs
  <1>4. \A h : RunRec(mem, regs, sub, h) <=> StepRec(mem, "values", regs, insts, 1 .. n, h)
    <2> SUFFICES ASSUME NEW h
                 PROVE  RunRec(mem, regs, sub, h) <=> StepRec(mem, "values", regs, insts, 1 .. n, h)
      OBVIOUS
    <2>1. \A t \in SUBSET (1 .. n) : t # {} => Max(t) \in 1 .. n /\ sub[Max(t)] = insts[Max(t)]
      BY <1>3, LastOf
    <2>2. [t \in SUBSET (1 .. n) |-> IF t = {} THEN regs ELSE RunStep(mem, h[t \ {Max(t)}], sub[Max(t)])]
            = [t \in SUBSET (1 .. n) |->
                  IF t = {} THEN regs ELSE StepOf(mem, "values", h[t \ {Max(t)}], insts[Max(t)])]
      BY <2>1 DEF StepOf
    <2> QED BY <1>3, <2>2 DEF RunRec, StepRec
  <1>5. \E h : RunRec(mem, regs, sub, h)
    <2>1. \E h : StepRec(mem, "values", regs, insts, 1 .. n, h) BY <1>3, StepExists
    <2> QED BY <1>4, <2>1
  <1>6. PICK h : h = CHOOSE g : RunRec(mem, regs, sub, g) OBVIOUS
  <1>7. RunRec(mem, regs, sub, h) BY <1>5, <1>6
  <1>8. RunTo(block, n, regs, mem) = (CHOOSE g : RunRec(mem, regs, sub, g))[DOMAIN sub]
    BY <1>1, <1>2 DEF RunTo, FoldLeft, MapThenFoldSet, RunRec, RunStep
  <1> QED BY <1>1, <1>3, <1>4, <1>6, <1>7, <1>8

LEMMA EnvAtIs ==
    ASSUME NEW X, NEW insts \in Seq(X), NEW n \in 0 .. Len(insts), NEW env
    PROVE  \E h : /\ StepRec(<<>>, "intervals", env, insts, 1 .. n, h)
                  /\ EnvAt(insts, n, env) = h[1 .. n]
  <1>2. PICK sub : sub = SubSeq(insts, 1, n) OBVIOUS
  <1>3. DOMAIN sub = 1 .. n /\ (\A k \in 1 .. n : sub[k] = insts[k]) /\ n \in Nat
    BY <1>2, PrefixIs
  <1>4. \A h : BlockRec(env, sub, h) <=> StepRec(<<>>, "intervals", env, insts, 1 .. n, h)
    <2> SUFFICES ASSUME NEW h
                 PROVE  BlockRec(env, sub, h) <=> StepRec(<<>>, "intervals", env, insts, 1 .. n, h)
      OBVIOUS
    <2>1. \A t \in SUBSET (1 .. n) : t # {} => Max(t) \in 1 .. n /\ sub[Max(t)] = insts[Max(t)]
      BY <1>3, LastOf
    <2>2. [t \in SUBSET (1 .. n) |-> IF t = {} THEN env ELSE apply_inst(h[t \ {Max(t)}], sub[Max(t)])]
            = [t \in SUBSET (1 .. n) |->
                  IF t = {} THEN env ELSE StepOf(<<>>, "intervals", h[t \ {Max(t)}], insts[Max(t)])]
      BY <2>1 DEF StepOf
    <2> QED BY <1>3, <2>2 DEF BlockRec, StepRec
  <1>5. \E h : BlockRec(env, sub, h)
    <2>1. \E h : StepRec(<<>>, "intervals", env, insts, 1 .. n, h) BY <1>3, StepExists
    <2> QED BY <1>4, <2>1
  <1>6. PICK h : h = CHOOSE g : BlockRec(env, sub, g) OBVIOUS
  <1>7. BlockRec(env, sub, h) BY <1>5, <1>6
  <1>8. EnvAt(insts, n, env) = (CHOOSE g : BlockRec(env, sub, g))[DOMAIN sub]
    BY <1>2 DEF EnvAt, FoldLeft, MapThenFoldSet, BlockRec
  <1> QED BY <1>3, <1>4, <1>6, <1>7, <1>8

(* One instruction more is one step more. *)
LEMMA StepsUnfold ==
    ASSUME NEW mem, NEW abs, NEW base, NEW insts, NEW n \in Nat, n # 0, NEW g, NEW h,
           StepRec(mem, abs, base, insts, 1 .. n, g), StepRec(mem, abs, base, insts, 1 .. n - 1, h)
    PROVE  g[1 .. n] = StepOf(mem, abs, h[1 .. n - 1], insts[n])
  <1>1. PICK t : t = 1 .. n OBVIOUS
  <1>2. t \in SUBSET (1 .. n) /\ t # {} /\ n \in t BY <1>1
  <1>3. Max(t) = n
    <2>1. Max(t) \in t /\ \A i \in t : i <= Max(t) BY <1>2, LastOf
    <2> QED BY <1>1, <1>2, <2>1
  <1>4. t \ {Max(t)} = 1 .. n - 1 BY <1>1, <1>3
  <1>5. g[t] = StepOf(mem, abs, g[t \ {Max(t)}], insts[Max(t)]) BY <1>1, <1>2 DEF StepRec
  <1>6. g[1 .. n - 1] = h[1 .. n - 1]
    <2>1. PICK S, T : S = 1 .. n /\ T = 1 .. n - 1 OBVIOUS
    <2>2. Upto(n, S) /\ Upto(n, T) /\ T \in SUBSET S /\ T \in SUBSET T BY <2>1 DEF Upto
    <2>3. StepRec(mem, abs, base, insts, S, g) /\ StepRec(mem, abs, base, insts, T, h) BY <2>1
    <2>4. g[T] = h[T] BY <2>2, <2>3, StepUnique
    <2> QED BY <2>1, <2>4
  <1> QED BY <1>1, <1>3, <1>4, <1>5, <1>6

RunsBy(block, regs, mem) ==
    /\ RunTo(block, 0, regs, mem) = regs
    /\ \A k \in 1 .. Len(block.insts) :
          RunTo(block, k, regs, mem) = RunStep(mem, RunTo(block, k - 1, regs, mem), block.insts[k])

LEMMA RunSteps ==
    ASSUME NEW block, block.insts \in Seq(Range(block.insts)), NEW regs, NEW mem
    PROVE  RunsBy(block, regs, mem)
  <1>0. PICK X : block.insts \in Seq(X) /\ Len(block.insts) \in Nat OBVIOUS
  <1>1. RunTo(block, 0, regs, mem) = regs
    <2>1. 0 \in 0 .. Len(block.insts) BY <1>0
    <2>2. PICK h : /\ StepRec(mem, "values", regs, block.insts, 1 .. 0, h)
                   /\ RunTo(block, 0, regs, mem) = h[1 .. 0]
      BY <1>0, <2>1, RunToIs
    <2>3. 1 .. 0 = {} OBVIOUS
    <2> QED BY <2>2, <2>3 DEF StepRec
  <1>2. ASSUME NEW k \in 1 .. Len(block.insts)
        PROVE  RunTo(block, k, regs, mem) = RunStep(mem, RunTo(block, k - 1, regs, mem), block.insts[k])
    <2>1. k \in 0 .. Len(block.insts) /\ k - 1 \in 0 .. Len(block.insts) /\ k \in Nat /\ k # 0
      BY <1>0
    <2>2. PICK g : /\ StepRec(mem, "values", regs, block.insts, 1 .. k, g)
                   /\ RunTo(block, k, regs, mem) = g[1 .. k]
      BY <1>0, <2>1, RunToIs
    <2>3. PICK h : /\ StepRec(mem, "values", regs, block.insts, 1 .. k - 1, h)
                   /\ RunTo(block, k - 1, regs, mem) = h[1 .. k - 1]
      BY <1>0, <2>1, RunToIs, SMTT(30)
    <2>4. g[1 .. k] = StepOf(mem, "values", h[1 .. k - 1], block.insts[k])
      BY <2>1, <2>2, <2>3, StepsUnfold
    <2> QED BY <2>2, <2>3, <2>4 DEF StepOf
  <1> QED BY <1>1, <1>2 DEF RunsBy

LEMMA EnvSteps ==
    ASSUME NEW X, NEW insts \in Seq(X), NEW env
    PROVE  /\ EnvAt(insts, 0, env) = env
           /\ \A k \in 1 .. Len(insts) :
                  EnvAt(insts, k, env) = apply_inst(EnvAt(insts, k - 1, env), insts[k])
  <1>0. Len(insts) \in Nat OBVIOUS
  <1>1. EnvAt(insts, 0, env) = env
    <2>1. 0 \in 0 .. Len(insts) BY <1>0
    <2>2. PICK h : StepRec(<<>>, "intervals", env, insts, 1 .. 0, h) /\ EnvAt(insts, 0, env) = h[1 .. 0]
      BY <2>1, EnvAtIs
    <2>3. 1 .. 0 = {} OBVIOUS
    <2> QED BY <2>2, <2>3 DEF StepRec
  <1>2. ASSUME NEW k \in 1 .. Len(insts)
        PROVE  EnvAt(insts, k, env) = apply_inst(EnvAt(insts, k - 1, env), insts[k])
    <2>1. k \in 0 .. Len(insts) /\ k - 1 \in 0 .. Len(insts) /\ k \in Nat /\ k # 0 BY <1>0
    <2>2. PICK g : StepRec(<<>>, "intervals", env, insts, 1 .. k, g) /\ EnvAt(insts, k, env) = g[1 .. k]
      BY <2>1, EnvAtIs
    <2>3. PICK h : /\ StepRec(<<>>, "intervals", env, insts, 1 .. k - 1, h)
                   /\ EnvAt(insts, k - 1, env) = h[1 .. k - 1]
      BY <2>1, EnvAtIs
    <2>4. g[1 .. k] = StepOf(<<>>, "intervals", h[1 .. k - 1], insts[k])
      BY <2>1, <2>2, <2>3, StepsUnfold
    <2> QED BY <2>2, <2>3, <2>4 DEF StepOf
  <1> QED BY <1>1, <1>2

-----------------------------------------------------------------------------
(* What an environment stands for. *)

(* The values of a register, narrower than i128. *)
Words  == -Half .. Half - 1
Narrow == Half \in 1 .. Lim

(* The registers of an execution have words where they are defined. *)
Values(R) == UNION {[D -> Words] : D \in SUBSET R}
Gamma(R)  == [s \in Envs(R) |-> IF s = Unreachable THEN {}
                                ELSE {v \in Values(R) : \A r \in DOMAIN v : In(s[r], v[r])}]
EnvLeq(R) == {x \in Envs(R) \X Envs(R) :
                 x[1] = Unreachable \/ (x[2] # Unreachable /\ \A r \in R : leq(x[1][r], x[2][r]))}

LEMMA WordsFit ==
    ASSUME Narrow
    PROVE  /\ Half \in Int /\ Half >= 1 /\ Lim >= 1 /\ Words \subseteq I128 /\ Words \subseteq Int
           /\ \A x \in Words : -x \in I128
           /\ 0 \in Words
           /\ \A v \in Int : WrapInt(v) \in Words
  <1>1. Half \in Int /\ Half >= 1 /\ Half <= Lim /\ Lim \in Int BY InfTyped DEF Narrow
  <1>2. PICK H \in Int : H = Half /\ H >= 1 /\ H <= Lim BY <1>1
  <1>3. Words = -H .. H - 1 BY <1>2 DEF Words
  <1>4. ASSUME NEW v \in Int PROVE WrapInt(v) \in Words
    <2>1. PICK x, m \in Int : x = v + H /\ m = 2 * H /\ m > 0 BY <1>2
    <2>2. x % m \in 0 .. m - 1 BY <2>1
    <2>3. WrapInt(v) = (x % m) - H BY <1>2, <2>1 DEF WrapInt
    <2> QED BY <1>3, <2>1, <2>2, <2>3
  <1> QED BY <1>1, <1>2, <1>3, <1>4 DEF I128

LEMMA ValueIs ==
    ASSUME NEW R, NEW v
    PROVE  v \in Values(R) <=> /\ DOMAIN v \in SUBSET R /\ v = [r \in DOMAIN v |-> v[r]]
                               /\ \A r \in DOMAIN v : v[r] \in Words
  <1>1. ASSUME v \in Values(R)
        PROVE  /\ DOMAIN v \in SUBSET R /\ v = [r \in DOMAIN v |-> v[r]]
               /\ \A r \in DOMAIN v : v[r] \in Words
    <2>1. PICK D \in SUBSET R : v \in [D -> Words] BY <1>1 DEF Values
    <2> HIDE DEF Words
    <2> QED BY <2>1
  <1>2. ASSUME DOMAIN v \in SUBSET R, v = [r \in DOMAIN v |-> v[r]],
               \A r \in DOMAIN v : v[r] \in Words
        PROVE  v \in Values(R)
    <2>1. v \in [DOMAIN v -> Words] BY <1>2
    <2> QED BY <1>2, <2>1 DEF Values
  <1> QED BY <1>1, <1>2

LEMMA GammaIs ==
    ASSUME NEW R, R # {}, NEW env \in [R -> Intervals]
    PROVE  /\ env # Unreachable /\ env \in Envs(R)
           /\ \A v : v \in Gamma(R)[env] <=> v \in Values(R) /\ \A r \in DOMAIN v : In(env[r], v[r])
  <1>1. DOMAIN env = R /\ DOMAIN Unreachable = {} BY DEF Unreachable
  <1>2. env # Unreachable BY <1>1
  <1>3. env \in Envs(R) BY DEF Envs
  <1>4. Gamma(R)[env] = {v \in Values(R) : \A r \in DOMAIN v : In(env[r], v[r])}
    BY <1>2, <1>3 DEF Gamma
  <1> QED BY <1>2, <1>3, <1>4

LEMMA EnvLaws ==
    ASSUME Narrow, NEW R, R # {}
    PROVE  /\ IP!DomainLaws(Envs(R), EnvLeq(R))
           /\ IP!Concretizes(Envs(R), EnvLeq(R), Gamma(R))
  <1> DEFINE Le(a, b) == a = Unreachable \/ (b # Unreachable /\ \A r \in R : leq(a[r], b[r]))
  <1>1. \A a, b \in Envs(R) : <<a, b>> \in EnvLeq(R) <=> Le(a, b) BY DEF EnvLeq
  <1>2. \A a \in Envs(R) : a # Unreachable => a \in [R -> Intervals] BY DEF Envs
  <1>3. \A a \in Envs(R) : Le(a, a)
    <2> SUFFICES ASSUME NEW a \in Envs(R), a # Unreachable PROVE \A r \in R : leq(a[r], a[r])
      OBVIOUS
    <2> QED BY <1>2, OrderLaws
  <1>4. ASSUME NEW a \in Envs(R), NEW b \in Envs(R), NEW c \in Envs(R), Le(a, b), Le(b, c)
        PROVE  Le(a, c)
    <2> SUFFICES ASSUME a # Unreachable PROVE c # Unreachable /\ \A r \in R : leq(a[r], c[r])
      OBVIOUS
    <2>1. b # Unreachable /\ c # Unreachable BY <1>4
    <2>2. a \in [R -> Intervals] /\ b \in [R -> Intervals] /\ c \in [R -> Intervals]
      BY <1>2, <2>1
    <2>3. ASSUME NEW r \in R PROVE leq(a[r], c[r])
      <3>1. leq(a[r], b[r]) /\ leq(b[r], c[r]) BY <1>4, <2>1
      <3>2. a[r] \in Intervals /\ b[r] \in Intervals /\ c[r] \in Intervals BY <2>2
      <3> QED BY <3>1, <3>2, OrderLaws
    <2> QED BY <2>1, <2>3
  <1>5. ASSUME NEW a \in Envs(R), NEW b \in Envs(R)
        PROVE  Le(a, EnvJoin(a, b)) /\ Le(b, EnvJoin(a, b)) /\ Le(b, EnvWiden(a, b))
    <2>1. CASE a = Unreachable \/ b = Unreachable BY <1>3, <2>1 DEF EnvJoin, EnvWiden
    <2>2. CASE a # Unreachable /\ b # Unreachable
      <3>1. a \in [R -> Intervals] /\ b \in [R -> Intervals] BY <1>2, <2>2
      <3>2. /\ EnvJoin(a, b) = [r \in R |-> join(a[r], b[r])]
            /\ EnvWiden(a, b) = [r \in R |-> widen(a[r], b[r])]
        BY <2>2, <3>1 DEF EnvJoin, EnvWiden
      <3>3. EnvJoin(a, b) # Unreachable /\ EnvWiden(a, b) # Unreachable
        <4>1. DOMAIN Unreachable = {} BY DEF Unreachable
        <4> QED BY <3>2, <4>1
      <3>4. ASSUME NEW r \in R
            PROVE  /\ leq(a[r], join(a[r], b[r])) /\ leq(b[r], join(a[r], b[r]))
                   /\ leq(b[r], widen(a[r], b[r]))
        <4>1. a[r] \in Intervals /\ b[r] \in Intervals BY <3>1
        <4> QED BY <4>1, OrderLaws
      <3> QED BY <3>2, <3>3, <3>4
    <2> QED BY <2>1, <2>2
  <1>6. \A a, b \in Envs(R) : EnvJoin(a, b) \in Envs(R) /\ EnvWiden(a, b) \in Envs(R)
    BY EnvsTyped
  <1>7. Unreachable \in Envs(R) BY DEF Envs
  <1>8. IP!DomainLaws(Envs(R), EnvLeq(R))
    <2> HIDE DEF Le
    <2> QED BY <1>1, <1>3, <1>4, <1>5, <1>6, <1>7 DEF IP!DomainLaws, IP!DomainTyped
  <1>9. Gamma(R)[Unreachable] = {} BY <1>7 DEF Gamma
  <1>10. ASSUME NEW a \in Envs(R), NEW b \in Envs(R), Le(a, b), NEW v \in Gamma(R)[a]
         PROVE  v \in Gamma(R)[b]
    <2>1. a # Unreachable BY <1>9
    <2>2. b # Unreachable /\ \A r \in R : leq(a[r], b[r]) BY <1>10, <2>1
    <2>3. a \in [R -> Intervals] /\ b \in [R -> Intervals] BY <1>2, <2>1, <2>2
    <2>4. v \in Values(R) /\ \A r \in DOMAIN v : In(a[r], v[r]) BY <2>3, GammaIs
    <2>5. DOMAIN v \in SUBSET R /\ \A r \in DOMAIN v : v[r] \in Words BY <2>4, ValueIs
    <2>6. ASSUME NEW r \in DOMAIN v PROVE In(b[r], v[r])
      <3>1. r \in R BY <2>5
      <3>2. a[r] \in Intervals /\ b[r] \in Intervals /\ leq(a[r], b[r]) /\ In(a[r], v[r])
        BY <2>2, <2>3, <2>4, <3>1
      <3>3. v[r] \in Int BY <2>5, WordsFit
      <3> QED BY <3>2, <3>3, OrderLaws
    <2> QED BY <2>3, <2>4, <2>6, GammaIs
  <1> QED BY <1>1, <1>8, <1>9, <1>10 DEF IP!Concretizes

LEMMA WordsInFull ==
    ASSUME Narrow, NEW v \in Words
    PROVE  In(Full, v)
  <1>1. v \in Int /\ NegInf <= v /\ v <= PosInf BY WordsFit, InfTyped DEF I128
  <1>2. Full # Empty /\ Full[1] = NegInf /\ Full[2] = PosInf BY DEF Full, Empty
  <1> QED BY <1>1, <1>2 DEF In

(* An operand that is read has a word in its interval. *)
LEMMA EvalSound ==
    ASSUME Narrow, NEW p, Regs(p) # {}, NEW env \in [Regs(p) -> Intervals],
           NEW regs \in Gamma(Regs(p))[env], NEW o, Defined(o, regs)
    PROVE  Val(o, regs) \in Words /\ In(eval_operand(o, env), Val(o, regs))
           /\ eval_operand(o, env) \in Intervals
  <1>1. regs \in Values(Regs(p)) /\ \A r \in DOMAIN regs : In(env[r], regs[r]) BY GammaIs
  <1>2. DOMAIN regs \in SUBSET Regs(p) /\ \A r \in DOMAIN regs : regs[r] \in Words
    BY <1>1, ValueIs
  <1>3. CASE Reg(o) BY <1>1, <1>2, <1>3 DEF Defined, Val, eval_operand
  <1>4. CASE ~Reg(o)
    <2>1. PICK n : n = o.lit OBVIOUS
    <2>2. n \in Words /\ n \in I128 /\ n \in Int BY <1>4, <2>1, WordsFit DEF Defined, Words
    <2>3. Val(o, regs) = n /\ eval_operand(o, env) = <<n, n>>
      BY <1>4, <2>1 DEF Val, eval_operand, singleton
    <2>4. <<n, n>> # Empty BY DEF Empty
    <2>5. <<n, n>> \in Intervals BY <2>2, Literals DEF I128, singleton
    <2> QED BY <2>2, <2>3, <2>4, <2>5 DEF In
  <1> QED BY <1>3, <1>4

(* Memory holds integers. *)
Bytes(mem) == \A k \in DOMAIN mem : mem[k] \in Int

(* The right-hand side of an instruction, as long as it does not overflow. *)
LEMMA RvalueSound ==
    ASSUME Narrow, NEW p, Regs(p) # {}, NEW env \in [Regs(p) -> Intervals],
           NEW regs \in Gamma(Regs(p))[env], NEW mem, Bytes(mem),
           NEW i, TypedInst(p, i), i.op # "check", Defined(i.a, regs), Defined(i.b, regs)
    PROVE  /\ Exact(i, regs, mem) \in Int
           /\ Exact(i, regs, mem) \in Words => In(eval_rvalue(i, env), Exact(i, regs, mem))
           /\ eval_rvalue(i, env) \in Intervals
  <1>1. PICK x, y, a, b : /\ x = Val(i.a, regs) /\ y = Val(i.b, regs)
                          /\ a = eval_operand(i.a, env) /\ b = eval_operand(i.b, env)
    OBVIOUS
  <1>2. x \in Words /\ y \in Words /\ In(a, x) /\ In(b, y) /\ a \in Intervals /\ b \in Intervals
    BY <1>1, EvalSound
  <1>3. x \in Int /\ y \in Int /\ x \in I128 /\ y \in I128 /\ -y \in I128 BY <1>2, WordsFit
  <1>4. \A v \in Words : In(Full, v) BY WordsInFull
  <1>5. IAdd(a, b) \in Intervals /\ ISub(a, b) \in Intervals /\ IMul(a, b) \in Intervals
    BY <1>2, OperationsTyped
  <1>6. CASE i.op \in {"use", "sext"}
    <2>1. Exact(i, regs, mem) = x /\ eval_rvalue(i, env) = a
      BY <1>1, <1>6 DEF Exact, eval_rvalue, CmpOps
    <2> QED BY <1>2, <1>3, <2>1
  <1>7. CASE i.op = "add"
    <2>1. Exact(i, regs, mem) = x + y /\ eval_rvalue(i, env) = IAdd(a, b)
      BY <1>1, <1>7 DEF Exact, eval_rvalue, CmpOps
    <2>2. x + y \in Words => In(IAdd(a, b), x + y)
      <3> SUFFICES ASSUME x + y \in Words PROVE In(IAdd(a, b), x + y) OBVIOUS
      <3>1. x + y \in I128 BY WordsFit
      <3> QED BY <1>2, <1>3, <3>1, AddSound
    <2> QED BY <1>3, <1>5, <2>1, <2>2
  <1>8. CASE i.op = "sub"
    <2>1. Exact(i, regs, mem) = x - y /\ eval_rvalue(i, env) = ISub(a, b)
      BY <1>1, <1>8 DEF Exact, eval_rvalue, CmpOps
    <2>2. x - y \in Words => In(ISub(a, b), x - y)
      <3> SUFFICES ASSUME x - y \in Words PROVE In(ISub(a, b), x - y) OBVIOUS
      <3>1. x - y \in I128 BY WordsFit
      <3> QED BY <1>2, <1>3, <3>1, SubSound
    <2> QED BY <1>3, <1>5, <2>1, <2>2
  <1>9. CASE i.op = "mul"
    <2>1. Exact(i, regs, mem) = x * y /\ eval_rvalue(i, env) = IMul(a, b)
      BY <1>1, <1>9 DEF Exact, eval_rvalue, CmpOps
    <2>2. x * y \in Words => In(IMul(a, b), x * y)
      <3> SUFFICES ASSUME x * y \in Words PROVE In(IMul(a, b), x * y) OBVIOUS
      <3>1. x * y \in I128 BY WordsFit
      <3> QED BY <1>2, <1>3, <3>1, MulSound
    <2> QED BY <1>3, <1>5, <2>1, <2>2
  <1>10. CASE i.op \in {"ptroff", "trunc", "load"}
    <2>1. eval_rvalue(i, env) = Full BY <1>10 DEF eval_rvalue, CmpOps
    <2>2. Exact(i, regs, mem) \in Int
      <3>1. CASE i.op = "ptroff"
        <4>1. Exact(i, regs, mem) = x + y BY <1>1, <3>1 DEF Exact, CmpOps
        <4> QED BY <1>3, <4>1
      <3>2. CASE i.op = "trunc"
        <4>1. Exact(i, regs, mem) = x % 2 BY <1>1, <3>2 DEF Exact, CmpOps
        <4> QED BY <1>3, <4>1
      <3>3. CASE i.op = "load"
        <4>1. Exact(i, regs, mem) = IF x + 1 \in DOMAIN mem THEN mem[x + 1] ELSE 0
          BY <1>1, <3>3 DEF Exact, CmpOps
        <4> QED BY <4>1 DEF Bytes
      <3> QED BY <1>10, <3>1, <3>2, <3>3
    <2> QED BY <1>4, <2>1, <2>2, Literals
  <1>11. CASE i.op \in CmpOps
    <2>1. eval_rvalue(i, env) = <<0, 1>> BY <1>11 DEF eval_rvalue, CmpOps
    <2>2. Exact(i, regs, mem) = IF Holds(i.op, x, y) THEN 1 ELSE 0
      BY <1>1, <1>11, Zenon DEF Exact, CmpOps
    <2>3. Exact(i, regs, mem) \in {0, 1} BY <2>2
    <2>4. In(<<0, 1>>, 0) /\ In(<<0, 1>>, 1)
      <3>1. <<0, 1>> # Empty BY DEF Empty
      <3> QED BY <3>1 DEF In
    <2> QED BY <2>1, <2>3, <2>4, Literals
  <1> QED BY <1>6, <1>7, <1>8, <1>9, <1>10, <1>11 DEF TypedInst

(* An instruction ends the execution or leaves it within what apply_inst computes. *)
LEMMA InstSound ==
    ASSUME Narrow, Overflow = "stop", NEW p, Regs(p) # {}, NEW env \in [Regs(p) -> Intervals],
           NEW regs \in Gamma(Regs(p))[env], NEW mem, Bytes(mem),
           NEW i, TypedInst(p, i), i.op # "check" => i.dst \in Regs(p),
           \A o \in Uses(i) : Defined(o, regs)
    PROVE  /\ apply_inst(env, i) \in [Regs(p) -> Intervals]
           /\ RunStep(mem, regs, i) # <<>> => RunStep(mem, regs, i) \in Gamma(Regs(p))[apply_inst(env, i)]
  <1>1. CASE i.op = "check" BY <1>1 DEF RunStep, apply_inst
  <1>2. CASE i.op # "check"
    <2>1. Defined(i.a, regs) /\ Defined(i.b, regs) BY <1>2 DEF Uses
    <2>2. PICK v, iv : v = Exact(i, regs, mem) /\ iv = eval_rvalue(i, env) OBVIOUS
    <2>3. v \in Int /\ (v \in Words => In(iv, v)) /\ iv \in Intervals
      BY <1>2, <2>1, <2>2, RvalueSound
    <2>4. PICK next : next = apply_inst(env, i) /\ next = [env EXCEPT ![i.dst] = iv]
      BY <1>2, <2>2 DEF apply_inst
    <2>5. next \in [Regs(p) -> Intervals] BY <2>3, <2>4
    <2>6. ASSUME RunStep(mem, regs, i) # <<>>
          PROVE  RunStep(mem, regs, i) \in Gamma(Regs(p))[next]
      <3>1. regs # <<>> /\ WrapInt(v) = v /\ RunStep(mem, regs, i) = Assign(regs, i.dst, v)
        BY <1>2, <2>2, <2>6 DEF RunStep
      <3>2. v \in Words BY <2>3, <3>1, WordsFit
      <3>3. PICK w : w = RunStep(mem, regs, i) OBVIOUS
      <3>4. w = [r \in {i.dst} \cup DOMAIN regs |-> IF r = i.dst THEN v ELSE regs[r]]
        BY <3>1, <3>3 DEF Assign
      <3>5. /\ regs \in Values(Regs(p)) /\ \A r \in DOMAIN regs : In(env[r], regs[r]) BY GammaIs
      <3>6. DOMAIN regs \in SUBSET Regs(p) /\ \A r \in DOMAIN regs : regs[r] \in Words
        BY <3>5, ValueIs
      <3>7. i.dst \in Regs(p) BY <1>2
      <3>8. DOMAIN w = {i.dst} \cup DOMAIN regs
            /\ \A r \in DOMAIN w : w[r] = IF r = i.dst THEN v ELSE regs[r]
        BY <3>4
      <3>9. w \in Values(Regs(p))
        <4>1. DOMAIN w \in SUBSET Regs(p) /\ \A r \in DOMAIN w : w[r] \in Words
          BY <3>2, <3>6, <3>7, <3>8
        <4>2. w = [r \in DOMAIN w |-> w[r]] BY <3>4
        <4> QED BY <4>1, <4>2, ValueIs
      <3>10. ASSUME NEW r \in DOMAIN w PROVE In(next[r], w[r])
        <4>1. CASE r = i.dst
          <5>1. next[r] = iv BY <2>4, <3>7, <4>1
          <5> QED BY <2>3, <3>2, <3>8, <4>1, <5>1
        <4>2. CASE r # i.dst
          <5>1. r \in DOMAIN regs /\ r \in Regs(p) BY <3>6, <3>8, <4>2
          <5>2. next[r] = env[r] BY <2>4, <4>2, <5>1
          <5> QED BY <3>5, <3>8, <4>2, <5>1, <5>2
        <4> QED BY <4>1, <4>2
      <3> QED BY <2>5, <3>3, <3>9, <3>10, GammaIs
    <2> QED BY <2>4, <2>5, <2>6
  <1> QED BY <1>1, <1>2

(* The same for the first k instructions of a block. *)
LEMMA PrefixSound ==
    ASSUME Narrow, Overflow = "stop", NEW p, TypedProgram(p), Regs(p) # {},
           NEW b \in DOMAIN p.blocks, NEW block, block = p.blocks[b],
           NEW env \in [Regs(p) -> Intervals],
           NEW regs \in Gamma(Regs(p))[env], NEW mem, Bytes(mem),
           ReadsDefined(block, regs, mem),
           NEW k \in 0 .. Len(block.insts)
    PROVE  /\ EnvAt(block.insts, k, env) \in [Regs(p) -> Intervals]
           /\ RunTo(block, k, regs, mem) # <<>> =>
                  RunTo(block, k, regs, mem) \in Gamma(Regs(p))[EnvAt(block.insts, k, env)]
  <1>2. TypedBlock(p, block) BY DEF TypedProgram
  <1>a. RunsBy(block, regs, mem)
    <2>1. block.insts \in Seq(Range(block.insts)) BY <1>2 DEF TypedBlock
    <2> QED BY <2>1, RunSteps
  <1>1. PICK insts : insts = block.insts OBVIOUS
  <1> DEFINE R == Regs(p)
             E(j) == EnvAt(insts, j, env)
             V(j) == RunTo(block, j, regs, mem)
             Good(j) == E(j) \in [R -> Intervals] /\ (V(j) # <<>> => V(j) \in Gamma(R)[E(j)])
             Bad == {j \in 0 .. Len(insts) : ~Good(j)}
  <1> SUFFICES ASSUME Bad # {} PROVE FALSE BY <1>1
  <1>3. insts \in Seq(Range(insts)) /\ Len(insts) \in Nat /\ DOMAIN insts = 1 .. Len(insts)
    BY <1>1, <1>2 DEF TypedBlock
  <1>4. PICK j \in Bad : \A i \in Bad : j <= i
    <2>1. Bad \in SUBSET Nat BY <1>3
    <2> HIDE DEF Bad
    <2> QED BY <2>1, LeastOf
  <1>5. j \in 0 .. Len(insts) /\ ~Good(j) /\ j \in Nat BY <1>3, <1>4
  <1>6. E(0) = env /\ \A i \in 1 .. Len(insts) : E(i) = apply_inst(E(i - 1), insts[i])
    BY <1>3, EnvSteps
  <1>7. V(0) = regs /\ \A i \in 1 .. Len(insts) : V(i) = RunStep(mem, V(i - 1), insts[i])
    BY <1>1, <1>a DEF RunsBy
  <1>8. j # 0
    <2>1. E(0) = env /\ V(0) = regs BY <1>6, <1>7
    <2>2. Good(0)
      <3> HIDE DEF E, V
      <3> QED BY <2>1
    <2> HIDE DEF Good
    <2> QED BY <1>5, <2>2
  <1>9. j \in 1 .. Len(insts) /\ j - 1 \in 0 .. Len(insts) /\ ~(j <= j - 1) BY <1>3, <1>5, <1>8
  <1>10. Good(j - 1)
    <2>1. j - 1 \notin Bad
      <3> HIDE DEF Bad
      <3> QED BY <1>4, <1>9
    <2> HIDE DEF Good
    <2> QED BY <1>9, <2>1
  <1>11. PICK e, v, i : e = E(j - 1) /\ v = V(j - 1) /\ i = insts[j] OBVIOUS
  <1>12. e \in [R -> Intervals] /\ (v # <<>> => v \in Gamma(R)[e])
    <2> HIDE DEF E, V
    <2> QED BY <1>10, <1>11
  <1>13. E(j) = apply_inst(e, i) /\ V(j) = RunStep(mem, v, i)
    <2> HIDE DEF E, V
    <2> QED BY <1>6, <1>7, <1>9, <1>11
  <1>14. TypedInst(p, i) /\ (i.op # "check" => i.dst \in R)
    <2>1. TypedInst(p, i) BY <1>1, <1>2, <1>3, <1>9, <1>11 DEF TypedBlock
    <2>2. ASSUME i.op # "check" PROVE i.dst \in R
      <3>1. j \in {l \in DOMAIN block.insts : block.insts[l].op # "check"}
        BY <1>1, <1>3, <1>9, <1>11, <2>2
      <3>2. i.dst \in Defs(block)
        <4> HIDE DEF E, V
        <4> QED BY <1>1, <1>11, <3>1 DEF Defs
      <3> HIDE DEF E, V
      <3> QED BY <3>2 DEF Regs
    <2> QED BY <2>1, <2>2
  <1>15. v # <<>> => \A o \in Uses(i) : Defined(o, v)
    BY <1>1, <1>3, <1>9, <1>11 DEF ReadsDefined
  <1>16. apply_inst(e, i) \in [R -> Intervals]
    BY <1>12, <1>14, InstTyped DEF TypedInst
  <1>17. ASSUME RunStep(mem, v, i) # <<>> PROVE RunStep(mem, v, i) \in Gamma(R)[apply_inst(e, i)]
    <2>1. v # <<>> BY <1>17 DEF RunStep
    <2> HIDE DEF E, V
    <2> QED BY <1>12, <1>14, <1>15, <1>17, <2>1, InstSound
  <1>18. Good(j)
    <2> HIDE DEF E, V
    <2> QED BY <1>13, <1>16, <1>17
  <1> HIDE DEF Good
  <1> QED BY <1>5, <1>18

EndsWith(block, regs, mem, last) == last = RunTo(block, Len(block.insts), regs, mem)

LEMMA BlockSound ==
    ASSUME Narrow, Overflow = "stop", NEW p, TypedProgram(p), Regs(p) # {},
           NEW f, f.p = p, NEW b \in DOMAIN p.blocks, NEW block, block = p.blocks[b],
           NEW env \in [Regs(p) -> Intervals],
           NEW regs \in Gamma(Regs(p))[env], NEW mem, Bytes(mem),
           ReadsDefined(block, regs, mem),
           NEW last, EndsWith(block, regs, mem, last), last # <<>>
    PROVE  /\ IntervalBlock(f, b, env) \in [Regs(p) -> Intervals]
           /\ last \in Gamma(Regs(p))[IntervalBlock(f, b, env)]
  <1>1. PICK insts : insts = block.insts OBVIOUS
  <1>2. TypedBlock(p, block) BY DEF TypedProgram
  <1>3. insts \in Seq(Range(insts)) /\ Len(insts) \in Nat /\ Len(insts) \in 0 .. Len(insts)
    BY <1>1, <1>2 DEF TypedBlock
  <1>4. SubSeq(insts, 1, Len(insts)) = insts BY <1>3
  <1>5. env # Unreachable BY GammaIs
  <1>6. IntervalBlock(f, b, env) = EnvAt(insts, Len(insts), env)
    BY <1>1, <1>4, <1>5 DEF IntervalBlock, EnvAt
  <1>7. /\ EnvAt(block.insts, Len(insts), env) \in [Regs(p) -> Intervals]
        /\ RunTo(block, Len(insts), regs, mem) # <<>> =>
               RunTo(block, Len(insts), regs, mem)
                   \in Gamma(Regs(p))[EnvAt(block.insts, Len(insts), env)]
    BY <1>1, <1>3, PrefixSound
  <1>8. last = RunTo(block, Len(insts), regs, mem) BY <1>1 DEF EndsWith
  <1> QED BY <1>1, <1>6, <1>7, <1>8

-----------------------------------------------------------------------------
(* Guards. *)

LEMMA NegatedHolds ==
    ASSUME Narrow, NEW op \in CmpOps, NEW x \in Int, NEW y \in Int, ~Holds(op, x, y)
    PROVE  Holds(negate_cmp(op), x, y)
  <1>1. Unsigned(x) \in Int /\ Unsigned(y) \in Int
    <2>1. PICK m \in Int : m = 2 * Half /\ m > 0 BY WordsFit
    <2>2. x % m \in Int /\ y % m \in Int BY <2>1
    <2> QED BY <2>1, <2>2 DEF Unsigned
  <1>2. CASE op = "slt" BY <1>1, <1>2 DEF Holds, negate_cmp
  <1>3. CASE op = "sle" BY <1>1, <1>3 DEF Holds, negate_cmp
  <1>4. CASE op = "sgt" BY <1>1, <1>4 DEF Holds, negate_cmp
  <1>5. CASE op = "sge" BY <1>1, <1>5 DEF Holds, negate_cmp
  <1>6. CASE op = "ult" BY <1>1, <1>6 DEF Holds, negate_cmp
  <1>7. CASE op = "ule" BY <1>1, <1>7 DEF Holds, negate_cmp
  <1>8. CASE op = "ugt" BY <1>1, <1>8 DEF Holds, negate_cmp
  <1>9. CASE op = "uge" BY <1>1, <1>9 DEF Holds, negate_cmp
  <1>10. CASE op = "eq" BY <1>1, <1>10 DEF Holds, negate_cmp
  <1>11. CASE op = "ne" BY <1>1, <1>11 DEF Holds, negate_cmp
  <1> QED BY <1>2, <1>3, <1>4, <1>5, <1>6, <1>7, <1>8, <1>9, <1>10, <1>11 DEF CmpOps

LEMMA RefineRegSound ==
    ASSUME Narrow, NEW p, Regs(p) # {}, NEW f, f.regs = Regs(p), NEW env \in [Regs(p) -> Intervals],
           NEW regs \in Gamma(Regs(p))[env], NEW r, NEW iv \in Intervals,
           \A x \in CopyChain(f, r) \cap DOMAIN regs : In(iv, regs[x])
    PROVE  regs \in Gamma(Regs(p))[refine_reg(f, env, r, iv)]
  <1>1. PICK next : next = refine_reg(f, env, r, iv) OBVIOUS
  <1>2. next \in [Regs(p) -> Intervals] BY <1>1, RefineRegTyped
  <1>3. regs \in Values(Regs(p)) /\ \A x \in DOMAIN regs : In(env[x], regs[x]) BY GammaIs
  <1>4. DOMAIN regs \in SUBSET Regs(p) /\ \A x \in DOMAIN regs : regs[x] \in Words
    BY <1>3, ValueIs
  <1>5. ASSUME NEW x \in DOMAIN regs PROVE In(next[x], regs[x])
    <2>1. x \in Regs(p) /\ regs[x] \in Int /\ In(env[x], regs[x]) /\ env[x] \in Intervals
      BY <1>3, <1>4, WordsFit
    <2>2. next[x] = IF x \in CopyChain(f, r) THEN meet(env[x], iv) ELSE env[x]
      BY <1>1, <2>1 DEF refine_reg
    <2>3. CASE x \in CopyChain(f, r)
      <3>1. In(iv, regs[x]) BY <2>3
      <3>2. In(meet(env[x], iv), regs[x]) BY <2>1, <3>1, OrderLaws
      <3> QED BY <2>2, <2>3, <3>2
    <2> QED BY <2>1, <2>2, <2>3
  <1> QED BY <1>1, <1>2, <1>3, <1>5, GammaIs

(* What a comparison says of both its sides is true when it holds. *)
LEMMA RefineSound ==
    ASSUME Narrow, NEW p, Regs(p) # {}, NEW f, f.regs = Regs(p), NEW env \in [Regs(p) -> Intervals],
           NEW regs \in Gamma(Regs(p))[env], NEW op, NEW a, NEW b,
           Defined(a, regs), Defined(b, regs), Copies(f, a, regs), Copies(f, b, regs),
           Holds(op, Val(a, regs), Val(b, regs))
    PROVE  regs \in Gamma(Regs(p))[refine_by_cmp(f, env, op, a, b)]
  <1>1. CASE op \notin {"slt", "sle", "sgt", "sge", "eq"} BY <1>1 DEF refine_by_cmp
  <1>2. CASE op \in {"slt", "sle", "sgt", "sge", "eq"}
    <2>1. PICK li, ri : li = eval_operand(a, env) /\ ri = eval_operand(b, env) OBVIOUS
    <2>2. PICK x, y : x = Val(a, regs) /\ y = Val(b, regs) OBVIOUS
    <2>3. /\ x \in Words /\ In(li, x) /\ li \in Intervals
          /\ y \in Words /\ In(ri, y) /\ ri \in Intervals
      BY <2>1, <2>2, EvalSound
    <2>4. x \in I128 /\ y \in I128 /\ x \in Int /\ y \in Int /\ Lim >= 1 BY <2>3, WordsFit
    <2>a. (op \in {"slt", "sgt"}) \in BOOLEAN OBVIOUS
    <2>5. PICK strict \in BOOLEAN : strict = (op \in {"slt", "sgt"}) BY <2>a, Zenon
    <2> DEFINE nl == CASE op \in {"slt", "sle"} -> as_upper_constraint(ri, strict)
                       [] op \in {"sgt", "sge"} -> as_lower_constraint(ri, strict)
                       [] op = "eq" -> ri
               nr == CASE op \in {"slt", "sle"} -> as_lower_constraint(li, strict)
                       [] op \in {"sgt", "sge"} -> as_upper_constraint(li, strict)
                       [] op = "eq" -> li
               left == IF Reg(a) THEN refine_reg(f, env, a.reg, meet(li, nl)) ELSE env
    <2>6. nl \in Intervals /\ nr \in Intervals
      <3>1. /\ as_upper_constraint(ri, strict) \in Intervals
            /\ as_lower_constraint(ri, strict) \in Intervals
            /\ as_lower_constraint(li, strict) \in Intervals
            /\ as_upper_constraint(li, strict) \in Intervals
        BY <2>3, OperationsTyped
      <3> QED BY <1>2, <2>3, <3>1
    <2>7. In(nl, x) /\ In(nr, y)
      <3>1. Holds(op, x, y) BY <2>2
      <3>2. /\ x <= y => In(as_upper_constraint(ri, FALSE), x)
            /\ x < y => In(as_upper_constraint(ri, TRUE), x)
            /\ x >= y => In(as_lower_constraint(ri, FALSE), x)
            /\ x > y => In(as_lower_constraint(ri, TRUE), x)
        BY <2>3, <2>4, ConstraintSound
      <3>3. /\ y <= x => In(as_upper_constraint(li, FALSE), y)
            /\ y < x => In(as_upper_constraint(li, TRUE), y)
            /\ y >= x => In(as_lower_constraint(li, FALSE), y)
            /\ y > x => In(as_lower_constraint(li, TRUE), y)
        BY <2>3, <2>4, ConstraintSound
      <3>4. CASE op = "slt"
        <4>1. x < y /\ y > x BY <2>4, <3>1, <3>4 DEF Holds
        <4>2. strict = TRUE BY <2>5, <3>4, Zenon
        <4>3. nl = as_upper_constraint(ri, TRUE) /\ nr = as_lower_constraint(li, TRUE)
          BY <3>4, <4>2
        <4> QED BY <3>2, <3>3, <4>1, <4>3
      <3>5. CASE op = "sle"
        <4>1. x <= y /\ y >= x BY <2>4, <3>1, <3>5 DEF Holds
        <4>2. strict = FALSE BY <2>5, <3>5
        <4>3. nl = as_upper_constraint(ri, FALSE) /\ nr = as_lower_constraint(li, FALSE)
          BY <3>5, <4>2
        <4> QED BY <3>2, <3>3, <4>1, <4>3
      <3>6. CASE op = "sgt"
        <4>1. x > y /\ y < x BY <2>4, <3>1, <3>6 DEF Holds
        <4>2. strict = TRUE BY <2>5, <3>6, Zenon
        <4>3. nl = as_lower_constraint(ri, TRUE) /\ nr = as_upper_constraint(li, TRUE)
          BY <3>6, <4>2
        <4> QED BY <3>2, <3>3, <4>1, <4>3
      <3>7. CASE op = "sge"
        <4>1. x >= y /\ y <= x BY <2>4, <3>1, <3>7 DEF Holds
        <4>2. strict = FALSE BY <2>5, <3>7
        <4>3. nl = as_lower_constraint(ri, FALSE) /\ nr = as_upper_constraint(li, FALSE)
          BY <3>7, <4>2
        <4> QED BY <3>2, <3>3, <4>1, <4>3
      <3>8. CASE op = "eq"
        <4>1. x = y BY <2>4, <3>1, <3>8 DEF Holds
        <4>2. nl = ri /\ nr = li BY <3>8
        <4> QED BY <2>3, <4>1, <4>2
      <3> QED BY <1>2, <3>4, <3>5, <3>6, <3>7, <3>8
    <2> HIDE DEF nl, nr
    <2>8. /\ meet(li, nl) \in Intervals /\ meet(ri, nr) \in Intervals
          /\ In(meet(li, nl), x) /\ In(meet(ri, nr), y)
      <3>1. meet(li, nl) \in Intervals /\ meet(ri, nr) \in Intervals
        BY <2>3, <2>6, OperationsTyped
      <3>2. In(meet(li, nl), x) /\ In(meet(ri, nr), y) BY <2>3, <2>4, <2>6, <2>7, OrderLaws
      <3> QED BY <3>1, <3>2
    <2>9. left \in [Regs(p) -> Intervals] /\ regs \in Gamma(Regs(p))[left]
      <3>1. CASE ~Reg(a) BY <3>1
      <3>2. CASE Reg(a)
        <4>1. \A r \in CopyChain(f, a.reg) \cap DOMAIN regs : In(meet(li, nl), regs[r])
          BY <2>2, <2>8, <3>2 DEF Copies, Val
        <4> QED BY <2>8, <3>2, <4>1, RefineRegSound, RefineRegTyped
      <3> QED BY <3>1, <3>2
    <2> HIDE DEF left
    <2>10. regs \in Gamma(Regs(p))[IF Reg(b) THEN refine_reg(f, left, b.reg, meet(ri, nr)) ELSE left]
      <3>1. CASE ~Reg(b) BY <2>9, <3>1
      <3>2. CASE Reg(b)
        <4>1. \A r \in CopyChain(f, b.reg) \cap DOMAIN regs : In(meet(ri, nr), regs[r])
          BY <2>2, <2>8, <3>2 DEF Copies, Val
        <4> QED BY <2>8, <2>9, <3>2, <4>1, RefineRegSound
      <3> QED BY <3>1, <3>2
    <2>11. refine_by_cmp(f, env, op, a, b)
              = IF Reg(b) THEN refine_reg(f, left, b.reg, meet(ri, nr)) ELSE left
      BY <1>2, <2>1, <2>5, Zenon DEF refine_by_cmp, nl, nr, left
    <2> QED BY <2>10, <2>11
  <1> QED BY <1>1, <1>2

-----------------------------------------------------------------------------
(* Steps from block to block. *)

(* The edge j of a terminator is the one taken with these registers. *)
Takes(term, regs, j) ==
    /\ j \in DOMAIN OutEdges(term)
    /\ term.op = "br" => j = 1
    /\ term.op = "condbr" => j = IF regs[term.cond] = 1 THEN 1 ELSE 2

LEMMA EdgesAre ==
    ASSUME NEW term
    PROVE  /\ term.op = "ret" => OutEdges(term) = <<>> /\ DOMAIN OutEdges(term) = {}
           /\ term.op = "br" => /\ OutEdges(term) # <<>> /\ DOMAIN OutEdges(term) = 1 .. 1
                                /\ OutEdges(term)[1].to = term.to
           /\ term.op = "condbr" => /\ OutEdges(term) # <<>> /\ DOMAIN OutEdges(term) = 1 .. 2
                                    /\ OutEdges(term)[1].to = term.then_blk
                                    /\ OutEdges(term)[2].to = term.else_blk
  <1>1. CASE term.op = "ret"
    <2>1. OutEdges(term) = <<>> BY <1>1 DEF OutEdges
    <2> QED BY <1>1, <2>1
  <1>2. CASE term.op = "br"
    <2>1. PICK e : e = [to |-> term.to, args |-> term.args] OBVIOUS
    <2>2. OutEdges(term) = <<e>> BY <1>2, <2>1 DEF OutEdges
    <2>3. e.to = term.to BY <2>1
    <2> QED BY <1>2, <2>2, <2>3
  <1>3. CASE term.op = "condbr"
    <2>1. PICK e, g : /\ e = [to |-> term.then_blk, args |-> term.then_args]
                      /\ g = [to |-> term.else_blk, args |-> term.else_args]
      OBVIOUS
    <2>2. OutEdges(term) = <<e, g>> BY <1>3, <2>1 DEF OutEdges
    <2>3. e.to = term.then_blk /\ g.to = term.else_blk BY <2>1
    <2> QED BY <1>3, <2>2, <2>3
  <1> QED BY <1>1, <1>2, <1>3

Follows(f, t, term, last) ==
    /\ last # <<>>
    /\ \E j : /\ Takes(term, last, j)
              /\ t.b = OutEdges(term)[j].to
              /\ t.regs = Entering(f.p.blocks[t.b].params, OutEdges(term)[j], last)

LEMMA NextIs ==
    ASSUME NEW f, NEW s, NEW t \in ConcreteNext(f, s), NEW block, block = f.p.blocks[s.b],
           block.term.op \in {"ret", "br", "condbr"},
           NEW last, EndsWith(block, s.regs, s.run.mem, last)
    PROVE  Follows(f, t, block.term, last)
  <1> USE DEF Follows
  <1>0. last = RunTo(block, Len(block.insts), s.regs, s.run.mem) BY DEF EndsWith
  <1>1. PICK e \in Taken(block.term, last) :
            t = Arrive(f, s, e, last, Entering(f.p.blocks[e.to].params, e, last))
    BY <1>0 DEF ConcreteNext
  <1>2. t.b = e.to /\ t.regs = Entering(f.p.blocks[t.b].params, e, last)
    <2>1. PICK bound : bound = Entering(f.p.blocks[e.to].params, e, last) OBVIOUS
    <2>2. t = Arrive(f, s, e, last, bound) BY <1>1, <2>1
    <2>3. t.b = e.to /\ t.regs = bound BY <2>2 DEF Arrive
    <2> QED BY <2>1, <2>3
  <1>3. PICK term, edges : term = block.term /\ edges = OutEdges(term) OBVIOUS
  <1>4. last # <<>> /\ edges # <<>> /\ e = edges[IF term.op = "br" \/ last[term.cond] = 1 THEN 1 ELSE 2]
    BY <1>1, <1>3 DEF Taken
  <1>6. CASE term.op = "br"
    <2>1. e = edges[1] BY <1>4, <1>6
    <2>2. Takes(term, last, 1) BY <1>6, EdgesAre DEF Takes
    <2> QED BY <1>2, <1>3, <1>4, <2>1, <2>2
  <1>7. CASE term.op = "condbr"
    <2>1. PICK j : j = IF last[term.cond] = 1 THEN 1 ELSE 2 OBVIOUS
    <2>3. e = edges[j] BY <1>4, <1>7, <2>1
    <2>4. j \in 1 .. 2 BY <2>1
    <2>5. DOMAIN OutEdges(term) = 1 .. 2 BY <1>7, EdgesAre
    <2>6. Takes(term, last, j) BY <1>7, <2>1, <2>4, <2>5 DEF Takes
    <2> QED BY <1>2, <1>3, <1>4, <2>3, <2>6
  <1>8. CASE term.op = "ret" BY <1>3, <1>4, <1>8, EdgesAre
  <1> QED BY <1>3, <1>6, <1>7, <1>8

(* The guard of the edge taken holds. *)
LEMMA GuardSound ==
    ASSUME Narrow, NEW p, TypedProgram(p), Regs(p) # {},
           NEW f, f.p = p, f.cmps = collect_cmps(p), f.regs = Regs(p),
           NEW from \in DOMAIN p.blocks, NEW term, term = p.blocks[from].term,
           NEW env \in [Regs(p) -> Intervals], NEW regs \in Gamma(Regs(p))[env],
           BranchRead(f, term, regs), NEW j, Takes(term, regs, j),
           NEW to, to = OutEdges(term)[j].to
    PROVE  regs \in Gamma(Regs(p))[Guarded(f, from, to, env)]
  <1>1. PICK gs : gs = Guard(f, from, to) OBVIOUS
  <1>2. PICK h : GuardRec(f, env, gs, h) /\ Guarded(f, from, to, env) = h[DOMAIN gs]
    BY <1>1, GuardedIs
  <1>3. CASE gs = <<>>
    <2>1. DOMAIN gs = {} BY <1>3
    <2>2. h[{}] = env BY <1>2, <2>1 DEF GuardRec
    <2> QED BY <1>2, <2>1, <2>2
  <1>4. CASE gs # <<>>
    <2>1. PICK c : c = f.cmps[term.cond] OBVIOUS
    <2>2. PICK op : op = IF term.else_blk = to THEN negate_cmp(c.op) ELSE c.op OBVIOUS
    <2>3. PICK g : g = [op |-> op, a |-> c.a, b |-> c.b] OBVIOUS
    <2>4. /\ gs = <<g>> /\ term.op = "condbr" /\ term.cond \in DOMAIN f.cmps
          /\ ~(term.then_blk = to /\ term.else_blk = to)
      BY <1>1, <1>4, <2>1, <2>2, <2>3, Zenon DEF Guard
    <2>5. DOMAIN gs = 1 .. 1 /\ gs[1] = g /\ g.op = op /\ g.a = c.a /\ g.b = c.b BY <2>3, <2>4
    <2>6. h[1 .. 1] = refine_by_cmp(f, env, op, c.a, c.b)
      <3>1. PICK one : one = 1 .. 1 OBVIOUS
      <3>2. one = {1} /\ one # {} BY <3>1
      <3>3. Max(one) = 1 /\ one \ {Max(one)} = {}
        <4>1. one \in SUBSET (1 .. 1) BY <3>1
        <4>2. Max(one) \in one BY <3>2, <4>1, LastOf
        <4> QED BY <3>2, <4>2
      <3>4. h[{}] = env BY <1>2, <2>5 DEF GuardRec
      <3>5. h[one] = refine_by_cmp(f, h[one \ {Max(one)}], gs[Max(one)].op, gs[Max(one)].a, gs[Max(one)].b)
        BY <1>2, <2>5, <3>1, <3>2 DEF GuardRec
      <3> QED BY <2>5, <3>1, <3>3, <3>4, <3>5
    <2>7. /\ Defined(c.a, regs) /\ Defined(c.b, regs) /\ Copies(f, c.a, regs) /\ Copies(f, c.b, regs)
          /\ (regs[term.cond] = 1) = Holds(c.op, Val(c.a, regs), Val(c.b, regs))
      BY <2>1, <2>4, Zenon DEF BranchRead
    <2>8. Val(c.a, regs) \in Int /\ Val(c.b, regs) \in Int BY <2>7, EvalSound, WordsFit
    <2>9. c.op \in CmpOps
      <3>1. term.cond \in {i.dst : i \in {k \in InstsOf(p) : k.op \in CmpOps}}
        BY <2>4 DEF collect_cmps, DefsBy
      <3>2. c = CHOOSE i \in InstsOf(p) : i.op \in CmpOps /\ i.dst = term.cond
        BY <2>1, <3>1 DEF collect_cmps, DefsBy
      <3>3. \E i \in InstsOf(p) : i.op \in CmpOps /\ i.dst = term.cond BY <3>1
      <3> QED BY <3>2, <3>3
    <2>10. Holds(op, Val(c.a, regs), Val(c.b, regs))
      <3>1. OutEdges(term)[1].to = term.then_blk /\ OutEdges(term)[2].to = term.else_blk
        BY <2>4, EdgesAre
      <3>2. j = IF regs[term.cond] = 1 THEN 1 ELSE 2 BY <2>4 DEF Takes
      <3>3. CASE regs[term.cond] = 1
        <4>1. term.then_blk = to BY <3>1, <3>2, <3>3
        <4>2. op = c.op BY <2>2, <2>4, <4>1
        <4> QED BY <2>7, <3>3, <4>2, Zenon
      <3>4. CASE regs[term.cond] # 1
        <4>1. term.else_blk = to BY <3>1, <3>2, <3>4
        <4>2. op = negate_cmp(c.op) BY <2>2, <4>1
        <4>3. ~Holds(c.op, Val(c.a, regs), Val(c.b, regs)) BY <2>7, <3>4, Zenon
        <4> QED BY <2>8, <2>9, <4>2, <4>3, NegatedHolds
      <3> QED BY <3>3, <3>4
    <2>11. regs \in Gamma(Regs(p))[refine_by_cmp(f, env, op, c.a, c.b)]
      BY <2>7, <2>10, RefineSound
    <2> QED BY <1>2, <2>5, <2>6, <2>11
  <1> QED BY <1>3, <1>4

(* The parameters of a block are bound from the arguments at their places. *)
ArgOf(params, r) == CHOOSE k \in DOMAIN params : params[k] = r

EnvBound(next, R, params, e, env) ==
    /\ DOMAIN next = R
    /\ \A r \in R : next[r] = IF r \in Range(params) THEN eval_operand(e.args[ArgOf(params, r)], env)
                             ELSE env[r]
RegsBound(next, params, e, regs) ==
    /\ DOMAIN next = DOMAIN regs \cup Range(params) /\ next = [r \in DOMAIN next |-> next[r]]
    /\ \A r \in DOMAIN next : next[r] = IF r \in Range(params) THEN Val(e.args[ArgOf(params, r)], regs)
                                       ELSE regs[r]

LEMMA ContributedIs ==
    ASSUME NEW f, NEW to, NEW env, NEW e, e.to = to
    PROVE  EnvBound(Contributed(f, to, env, e), f.regs, f.p.blocks[to].params, e, env)
  BY DEF Contributed, ArgOf, EnvBound

LEMMA EnteringIs ==
    ASSUME NEW params, NEW e, NEW regs
    PROVE  RegsBound(Entering(params, e, regs), params, e, regs)
  <1>1. PICK D : D = DOMAIN regs \cup Range(params) OBVIOUS
  <1>2. PICK g : g = [r \in D |-> IF r \in Range(params) THEN Val(e.args[ArgOf(params, r)], regs) ELSE regs[r]]
    OBVIOUS
  <1>3. Entering(params, e, regs) = g BY <1>1, <1>2, Zenon DEF Entering, ArgOf
  <1>4. g = [r \in D |-> g[r]] /\ DOMAIN g = D BY <1>2
  <1>5. \A r \in D : g[r] = IF r \in Range(params) THEN Val(e.args[ArgOf(params, r)], regs) ELSE regs[r]
    BY <1>2
  <1> QED BY <1>1, <1>3, <1>4, <1>5 DEF RegsBound

LEMMA ContributedSound ==
    ASSUME Narrow, NEW p, TypedProgram(p), Regs(p) # {}, NEW f, f.p = p, f.regs = Regs(p),
           NEW from \in DOMAIN p.blocks, NEW term, term = p.blocks[from].term,
           NEW env \in [Regs(p) -> Intervals], NEW regs \in Gamma(Regs(p))[env],
           NEW j \in DOMAIN OutEdges(term), NEW e, e = OutEdges(term)[j], NEW to, to = e.to,
           NEW params, params = f.p.blocks[to].params,
           \A k \in DOMAIN params : Defined(e.args[k], regs)
    PROVE  /\ Contributed(f, to, env, e) \in Envs(Regs(p))
           /\ Entering(params, e, regs) \in Gamma(Regs(p))[Contributed(f, to, env, e)]
  <1>1. PICK next : next = Contributed(f, to, env, e) OBVIOUS
  <1>2. next \in Envs(Regs(p)) BY <1>1, ContributedTyped
  <1>3. /\ DOMAIN next = Regs(p)
        /\ \A r \in Regs(p) :
              next[r] = IF r \in Range(params) THEN eval_operand(e.args[ArgOf(params, r)], env) ELSE env[r]
    <2>1. EnvBound(Contributed(f, to, env, e), f.regs, f.p.blocks[to].params, e, env)
      BY ContributedIs
    <2>2. EnvBound(next, Regs(p), params, e, env) BY <1>1, <2>1
    <2> QED BY <2>2 DEF EnvBound
  <1>4. next # Unreachable /\ next \in [Regs(p) -> Intervals]
    <2>2. DOMAIN Unreachable = {} BY DEF Unreachable
    <2> QED BY <1>2, <1>3, <2>2 DEF Envs
  <1>5. regs \in Values(Regs(p)) /\ \A r \in DOMAIN regs : In(env[r], regs[r]) BY GammaIs
  <1>6. DOMAIN regs \in SUBSET Regs(p) /\ \A r \in DOMAIN regs : regs[r] \in Words
    BY <1>5, ValueIs
  <1>7. Range(params) \subseteq Regs(p)
    <2>1. to \in DOMAIN p.blocks
      <3>1. TypedBlock(p, p.blocks[from]) BY DEF TypedProgram
      <3> QED BY <3>1 DEF TypedBlock
    <2>2. Range(params) \subseteq Defs(p.blocks[to]) BY DEF Defs
    <2>3. Defs(p.blocks[to]) \subseteq Regs(p) BY <2>1 DEF Regs
    <2> QED BY <2>2, <2>3
  <1>8. PICK w : w = Entering(params, e, regs) OBVIOUS
  <1>9. /\ DOMAIN w = DOMAIN regs \cup Range(params) /\ w = [r \in DOMAIN w |-> w[r]]
        /\ \A r \in DOMAIN w :
               w[r] = IF r \in Range(params) THEN Val(e.args[ArgOf(params, r)], regs) ELSE regs[r]
    <2>1. RegsBound(w, params, e, regs) BY <1>8, EnteringIs
    <2> QED BY <2>1 DEF RegsBound
  <1>10. ASSUME NEW r \in DOMAIN w PROVE w[r] \in Words /\ In(next[r], w[r]) /\ r \in Regs(p)
    <2>1. r \in Regs(p) BY <1>6, <1>7, <1>9
    <2>2. CASE r \in Range(params)
      <3>1. \E k \in DOMAIN params : params[k] = r BY <2>2 DEF Range
      <3>2. PICK k \in DOMAIN params : k = ArgOf(params, r) BY <3>1 DEF ArgOf
      <3>3. Val(e.args[k], regs) \in Words /\ In(eval_operand(e.args[k], env), Val(e.args[k], regs))
        BY EvalSound
      <3>4. w[r] = Val(e.args[k], regs) /\ next[r] = eval_operand(e.args[k], env)
        BY <1>3, <1>9, <2>1, <2>2, <3>2
      <3> QED BY <2>1, <3>3, <3>4
    <2>3. CASE r \notin Range(params)
      <3>1. r \in DOMAIN regs /\ w[r] = regs[r] /\ next[r] = env[r] BY <1>3, <1>9, <2>1, <2>3
      <3> QED BY <1>5, <1>6, <2>1, <3>1
    <2> QED BY <2>2, <2>3
  <1>11. w \in Values(Regs(p)) BY <1>9, <1>10, ValueIs
  <1>12. w \in Gamma(Regs(p))[next] BY <1>4, <1>10, <1>11, GammaIs
  <1> QED BY <1>1, <1>2, <1>8, <1>12

(* What the edge taken contributes is part of what flows to its target. *)
LEMMA EdgeCovers ==
    ASSUME Narrow, NEW p, TypedProgram(p), Regs(p) # {},
           NEW f, f.p = p, f.cmps = collect_cmps(p), f.regs = Regs(p),
           NEW from \in DOMAIN p.blocks, NEW term, term = p.blocks[from].term,
           NEW to, NEW exit \in [Regs(p) -> Intervals], NEW j \in DOMAIN OutEdges(term)
    PROVE  Gamma(Regs(p))[Contributed(f, to, Guarded(f, from, to, exit), OutEdges(term)[j])]
               \subseteq Gamma(Regs(p))[IntervalEdge(f, from, to, exit)]
  <1>1. PICK es, env, S, G : /\ es = OutEdges(term) /\ env = Guarded(f, from, to, exit)
                             /\ S = Envs(Regs(p)) /\ G = Gamma(Regs(p))
    OBVIOUS
  <1>2. exit \in Envs(Regs(p)) /\ exit # Unreachable BY GammaIs
  <1>3. PICK h : EdgeRec(f, to, env, es, h) /\ IntervalEdge(f, from, to, exit) = h[DOMAIN es]
    BY <1>1, <1>2, EdgeIs
  <1>4. env \in [Regs(p) -> Intervals] BY <1>1, GuardedTyped
  <1>5. \A k \in DOMAIN es : Contributed(f, to, env, es[k]) \in S
    BY <1>1, <1>4, ContributedTyped
  <1>6. \A a, b \in S : /\ EnvJoin(a, b) \in S
                        /\ G[a] \subseteq G[EnvJoin(a, b)] /\ G[b] \subseteq G[EnvJoin(a, b)]
    <2>1. PICK Leq : IP!DomainLaws(S, Leq) /\ IP!Concretizes(S, Leq, G) BY <1>1, EnvLaws
    <2>2. \A a, b \in S : /\ EnvJoin(a, b) \in S
                          /\ <<a, EnvJoin(a, b)>> \in Leq /\ <<b, EnvJoin(a, b)>> \in Leq
      BY <2>1 DEF IP!DomainLaws, IP!DomainTyped
    <2>3. \A a, b \in S : <<a, b>> \in Leq => G[a] \subseteq G[b] BY <2>1 DEF IP!Concretizes
    <2> QED BY <2>2, <2>3
  <1>7. Unreachable \in S BY <1>1 DEF Envs
  <1>8. PICK n \in Nat : DOMAIN es = 1 .. n /\ n <= 2
    <2>1. term.op \in {"ret", "br", "condbr"} BY DEF TypedProgram, TypedBlock
    <2>2. CASE term.op = "ret"
      <3>1. DOMAIN es = 1 .. 0 BY <1>1, <2>2, EdgesAre
      <3> QED BY <3>1
    <2>3. CASE term.op = "br"
      <3>1. DOMAIN es = 1 .. 1 BY <1>1, <2>3, EdgesAre
      <3> QED BY <3>1
    <2>4. CASE term.op = "condbr"
      <3>1. DOMAIN es = 1 .. 2 BY <1>1, <2>4, EdgesAre
      <3> QED BY <3>1
    <2> QED BY <2>1, <2>2, <2>3, <2>4
  <1>9. h[{}] = Unreachable BY <1>3, <1>8 DEF EdgeRec
  <1>10. ASSUME 1 <= n
         PROVE  h[1 .. 1] = EnvJoin(Unreachable, Contributed(f, to, env, es[1]))
    <2>1. PICK t : t = 1 .. 1 OBVIOUS
    <2>2. t = {1} /\ t # {} /\ t \in SUBSET (1 .. n) BY <1>10, <2>1
    <2>3. Max(t) \in t BY <2>2, LastOf
    <2>4. Max(t) = 1 /\ t \ {Max(t)} = {} BY <2>2, <2>3
    <2>5. h[t] = EnvJoin(h[t \ {Max(t)}], Contributed(f, to, env, es[Max(t)]))
      BY <1>3, <1>8, <2>2 DEF EdgeRec
    <2> QED BY <1>9, <2>1, <2>4, <2>5
  <1>11. ASSUME n = 2
         PROVE  h[1 .. 2] = EnvJoin(h[1 .. 1], Contributed(f, to, env, es[2]))
    <2>1. PICK t : t = 1 .. 2 OBVIOUS
    <2>2. t = {1, 2} /\ t # {} /\ t \in SUBSET (1 .. n) BY <1>11, <2>1
    <2>3. Max(t) \in t /\ \A i \in t : i <= Max(t) BY <2>2, LastOf
    <2>4. Max(t) = 2 BY <2>2, <2>3
    <2>a. t \ {Max(t)} = 1 .. 1 BY <2>2, <2>4
    <2>5. h[t] = EnvJoin(h[t \ {Max(t)}], Contributed(f, to, env, es[Max(t)]))
      BY <1>3, <1>8, <2>2 DEF EdgeRec
    <2> QED BY <2>1, <2>4, <2>a, <2>5
  <1>12. PICK c : c = [k \in 1 .. n |-> Contributed(f, to, env, es[k])] OBVIOUS
  <1>13. \A k \in 1 .. n : c[k] \in S /\ c[k] = Contributed(f, to, env, es[k]) BY <1>5, <1>8, <1>12
  <1>14. j \in 1 .. n BY <1>1, <1>8
  <1>15. G[c[j]] \subseteq G[h[1 .. n]]
    <2>1. CASE n = 1
      <3>1. h[1 .. 1] = EnvJoin(Unreachable, c[1]) /\ c[1] \in S BY <1>10, <1>13, <2>1
      <3>2. j = 1 BY <1>14, <2>1
      <3> QED BY <1>6, <1>7, <2>1, <3>1, <3>2
    <2>2. CASE n = 2
      <3>1. PICK u : u = h[1 .. 1] OBVIOUS
      <3>2. u = EnvJoin(Unreachable, c[1]) /\ c[1] \in S /\ c[2] \in S
        BY <1>10, <1>13, <2>2, <3>1
      <3>3. h[1 .. 2] = EnvJoin(u, c[2]) BY <1>11, <1>13, <2>2, <3>1
      <3>4. u \in S /\ G[c[1]] \subseteq G[u] BY <1>6, <1>7, <3>2
      <3>5. G[u] \subseteq G[h[1 .. 2]] /\ G[c[2]] \subseteq G[h[1 .. 2]] BY <1>6, <3>2, <3>3, <3>4
      <3>6. j = 1 \/ j = 2 BY <1>14, <2>2
      <3> QED BY <2>2, <3>4, <3>5, <3>6
    <2> QED BY <1>8, <1>14, <2>1, <2>2
  <1>16. c[j] = Contributed(f, to, Guarded(f, from, to, exit), OutEdges(term)[j])
    BY <1>1, <1>13, <1>14
  <1> QED BY <1>1, <1>3, <1>8, <1>15, <1>16

(* A step follows an edge of the graph. *)
LEMMA NextFollows ==
    ASSUME NEW p, TypedProgram(p), NEW f, f.p = p, f.g = GraphOf(p),
           NEW s, s.b \in DOMAIN p.blocks, NEW t \in ConcreteNext(f, s)
    PROVE  t.b \in Range(f.g.succ[s.b])
  <1>1. PICK from, block, term, last :
            /\ from = s.b /\ block = p.blocks[from] /\ term = block.term
            /\ last = RunTo(block, Len(block.insts), s.regs, s.run.mem)
    OBVIOUS
  <1>2. from \in DOMAIN p.blocks /\ TypedBlock(p, block) BY <1>1 DEF TypedProgram
  <1>3. block = f.p.blocks[s.b] /\ block.term.op \in {"ret", "br", "condbr"}
        /\ EndsWith(block, s.regs, s.run.mem, last)
    BY <1>1, <1>2 DEF TypedBlock, EndsWith
  <1>4. Follows(f, t, block.term, last) BY <1>3, NextIs
  <1>5. PICK j : Takes(term, last, j) /\ t.b = OutEdges(term)[j].to BY <1>1, <1>4 DEF Follows
  <1>6. j \in DOMAIN OutEdges(term) BY <1>5 DEF Takes
  <1>7. f.g.succ[from] = [k \in DOMAIN OutEdges(p.blocks[from].term) |-> OutEdges(p.blocks[from].term)[k].to]
    BY <1>2 DEF GraphOf
  <1>8. f.g.succ[from] = [k \in DOMAIN OutEdges(term) |-> OutEdges(term)[k].to] BY <1>1, <1>7
  <1>9. j \in DOMAIN f.g.succ[from] /\ f.g.succ[from][j] = t.b BY <1>5, <1>6, <1>8
  <1> QED BY <1>1, <1>9 DEF Range

(* A step of an execution from block to block stays within the two transfer functions. *)
LEMMA MoveSound ==
    ASSUME Narrow, Overflow = "stop", NEW p \in Programs, Regs(p) # {}, NEW f, f = FunctionOf(p),
           NEW s, s.b \in DOMAIN p.blocks, Bytes(s.run.mem),
           SsaAt(f, s), NEW t \in ConcreteNext(f, s),
           NEW env \in Envs(Regs(p)), s.regs \in Gamma(Regs(p))[env]
    PROVE  /\ t.b \in Range(f.g.succ[s.b])
           /\ t.regs \in Gamma(Regs(p))[IntervalEdge(f, s.b, t.b, IntervalBlock(f, s.b, env))]
  <1>0. TypedProgram(p) BY ProgramsAssumption
  <1>1. f.p = p /\ f.g = GraphOf(p) /\ f.regs = Regs(p) /\ f.cmps = collect_cmps(p)
    BY FunctionFields
  <1>2. PICK from, block, regs, mem, term, last :
            /\ from = s.b /\ block = p.blocks[from] /\ regs = s.regs /\ mem = s.run.mem
            /\ term = block.term /\ last = RunTo(block, Len(block.insts), regs, mem)
    OBVIOUS
  <1>3. from \in DOMAIN p.blocks /\ TypedBlock(p, block) BY <1>0, <1>2 DEF TypedProgram
  <1>4. env \in [Regs(p) -> Intervals]
    <2>1. Gamma(Regs(p))[Unreachable] = {} BY DEF Gamma, Envs
    <2> QED BY <2>1 DEF Envs
  <1>5. /\ ReadsDefined(block, regs, mem)
        /\ last # <<>> => ArgsDefined(f, term, last) /\ BranchRead(f, term, last)
    BY <1>1, <1>2 DEF SsaAt
  <1>6. term.op \in {"ret", "br", "condbr"} BY <1>2, <1>3 DEF TypedBlock
  <1>7. PICK j : /\ last # <<>> /\ Takes(term, last, j) /\ t.b = OutEdges(term)[j].to
                 /\ t.regs = Entering(f.p.blocks[t.b].params, OutEdges(term)[j], last)
    <2>1. block = f.p.blocks[s.b] /\ block.term.op \in {"ret", "br", "condbr"}
      BY <1>1, <1>2, <1>6
    <2>2. EndsWith(block, s.regs, s.run.mem, last) BY <1>2 DEF EndsWith
    <2>3. Follows(f, t, block.term, last) BY <2>1, <2>2, NextIs
    <2> QED BY <1>2, <2>3 DEF Follows
  <1>8. PICK e, to, exit : /\ e = OutEdges(term)[j] /\ to = t.b /\ exit = IntervalBlock(f, from, env)
    OBVIOUS
  <1>9. exit \in [Regs(p) -> Intervals] /\ last \in Gamma(Regs(p))[exit]
    <2>1. regs \in Gamma(Regs(p))[env] /\ Bytes(mem) BY <1>2
    <2>2. EndsWith(block, regs, mem, last) BY <1>2 DEF EndsWith
    <2>3. f.p = p /\ TypedProgram(p) /\ block = p.blocks[from] BY <1>0, <1>1, <1>2
    <2>4. ReadsDefined(block, regs, mem) /\ last # <<>> BY <1>5, <1>7
    <2>5. /\ IntervalBlock(f, from, env) \in [Regs(p) -> Intervals]
          /\ last \in Gamma(Regs(p))[IntervalBlock(f, from, env)]
      BY <1>3, <1>4, <2>1, <2>2, <2>3, <2>4, BlockSound
    <2> QED BY <1>8, <2>5
  <1>10. j \in DOMAIN OutEdges(term) BY <1>7 DEF Takes
  <1>11. t.b \in Range(f.g.succ[s.b]) BY <1>0, <1>1, NextFollows
  <1>12. PICK guarded : guarded = Guarded(f, from, to, exit) OBVIOUS
  <1>13. guarded \in [Regs(p) -> Intervals] BY <1>0, <1>1, <1>9, <1>12, GuardedTyped
  <1>14. last \in Gamma(Regs(p))[guarded]
    <2>1. term = p.blocks[from].term /\ to = OutEdges(term)[j].to BY <1>2, <1>7, <1>8
    <2> QED BY <1>0, <1>1, <1>3, <1>5, <1>7, <1>9, <1>12, <2>1, GuardSound
  <1>15. Entering(f.p.blocks[to].params, e, last) \in Gamma(Regs(p))[Contributed(f, to, guarded, e)]
    <2>1. term = p.blocks[from].term /\ to = e.to BY <1>2, <1>7, <1>8
    <2>2. e \in Range(OutEdges(term)) BY <1>8, <1>10 DEF Range
    <2>3. \A k \in DOMAIN f.p.blocks[to].params : Defined(e.args[k], last)
      BY <1>5, <1>7, <2>1, <2>2 DEF ArgsDefined
    <2>4. PICK params : params = f.p.blocks[to].params OBVIOUS
    <2>5. Entering(params, e, last) \in Gamma(Regs(p))[Contributed(f, to, guarded, e)]
      BY <1>0, <1>1, <1>3, <1>8, <1>10, <1>13, <1>14, <2>1, <2>3, <2>4, ContributedSound
    <2> QED BY <2>4, <2>5
  <1>16. Gamma(Regs(p))[Contributed(f, to, guarded, e)] \subseteq Gamma(Regs(p))[IntervalEdge(f, from, to, exit)]
    <2>1. term = p.blocks[from].term BY <1>2
    <2> QED BY <1>0, <1>1, <1>3, <1>8, <1>9, <1>10, <1>12, <2>1, EdgeCovers
  <1>17. t.regs \in Gamma(Regs(p))[IntervalEdge(f, from, to, exit)] BY <1>7, <1>8, <1>15, <1>16
  <1> QED BY <1>2, <1>8, <1>11, <1>17

-----------------------------------------------------------------------------
(* Executions of the analysed function. *)

(* An execution in SSA form that enters n blocks, started with any words in any of the
   registers. *)
ConcreteRun(f, n, ex) ==
    /\ ex[1].b = f.g.entry /\ ex[1].regs \in Values(f.regs)
    /\ \A i \in 1 .. n : ex[i].b \in DOMAIN f.p.blocks /\ SsaAt(f, ex[i]) /\ Bytes(ex[i].run.mem)
    /\ \A i \in 1 .. n - 1 : ex[i + 1] \in ConcreteNext(f, ex[i])

(* Each block is entered with registers that its entry environment stands for. *)
Covered(f, n, ex) ==
    \A i \in 1 .. n : i_in[ex[i].b] \in Envs(f.regs) /\ ex[i].regs \in Gamma(f.regs)[i_in[ex[i].b]]

(* The blocks it enters, the registers it enters them with, and its moves. *)
MovesOf(n, ex, at, val, moves) ==
    /\ at = [i \in 1 .. n |-> ex[i].b] /\ val = [i \in 1 .. n |-> ex[i].regs]
    /\ moves = {<<at[i], val[i], at[i + 1], val[i + 1]>> : i \in 1 .. n - 1}

(* Top stands for every register file. *)
LEMMA TopCovers ==
    ASSUME Narrow, NEW f, f.regs # {}, NEW w \in Values(f.regs)
    PROVE  w \in Gamma(f.regs)[Top(f)]
  <1>1. PICK R : R = f.regs OBVIOUS
  <1>2. PICK top : top = Top(f) /\ top = [r \in R |-> Full] BY <1>1 DEF Top
  <1>3. top \in [R -> Intervals] /\ \A r \in R : top[r] = Full BY <1>2, Literals
  <1>4. DOMAIN w \in SUBSET R /\ \A r \in DOMAIN w : w[r] \in Words BY <1>1, ValueIs
  <1>5. \A r \in DOMAIN w : In(top[r], w[r]) BY <1>3, <1>4, WordsInFull
  <1> QED BY <1>1, <1>2, <1>3, <1>5, GammaIs

(* The analysis has the laws that the engine's soundness asks for. *)
LEMMA RunIsExecution ==
    ASSUME Narrow, Overflow = "stop", NEW p \in Programs, NEW f, f = FunctionOf(p), f.regs # {},
           NEW n \in Nat \ {0}, NEW ex, ConcreteRun(f, n, ex),
           NEW at, NEW val, NEW moves, MovesOf(n, ex, at, val, moves)
    PROVE  /\ IP!SoundFor(f, Envs(f.regs), Gamma(f.regs), moves)
           /\ IP!Execution(f, Gamma(f.regs), moves, n, at, val)
  <1>0. TypedProgram(p) BY ProgramsAssumption
  <1>1. f.p = p /\ f.g = GraphOf(p) /\ f.regs = Regs(p) BY FunctionFields
  <1>2. Nodes(f.g) = DOMAIN p.blocks BY <1>0, <1>1, GraphTyped
  <1>3. PICK S, G : S = Envs(Regs(p)) /\ G = Gamma(Regs(p)) OBVIOUS
  <1>4. ASSUME NEW i \in 1 .. n - 1, NEW a \in S, ex[i].regs \in G[a]
        PROVE  ex[i + 1].regs \in G[IntervalEdge(f, ex[i].b, ex[i + 1].b, IntervalBlock(f, ex[i].b, a))]
    <2>1. i \in 1 .. n OBVIOUS
    <2>2. PICK s, t : s = ex[i] /\ t = ex[i + 1] OBVIOUS
    <2>3. s.b \in DOMAIN p.blocks /\ SsaAt(f, s) /\ Bytes(s.run.mem) /\ t \in ConcreteNext(f, s)
      BY <1>1, <2>1, <2>2 DEF ConcreteRun
    <2>4. Regs(p) # {} /\ a \in Envs(Regs(p)) /\ s.regs \in Gamma(Regs(p))[a]
      BY <1>1, <1>3, <1>4, <2>2
    <2>5. t.regs \in Gamma(Regs(p))[IntervalEdge(f, s.b, t.b, IntervalBlock(f, s.b, a))]
      BY <2>3, <2>4, MoveSound
    <2> QED BY <1>3, <2>2, <2>5
  <1>5. \A w \in Values(Regs(p)) : w \in Gamma(f.regs)[Top(f)]
    <2>1. Regs(p) # {} BY <1>1
    <2> QED BY <1>1, <2>1, TopCovers
  <1>8. ASSUME NEW i \in 1 .. n - 1
        PROVE  ex[i].b \in Nodes(f.g) /\ ex[i + 1].b \in Range(f.g.succ[ex[i].b])
    <2>1. i \in 1 .. n OBVIOUS
    <2>2. PICK s, t : s = ex[i] /\ t = ex[i + 1] OBVIOUS
    <2>3. s.b \in DOMAIN p.blocks /\ SsaAt(f, s) /\ Bytes(s.run.mem) /\ t \in ConcreteNext(f, s)
      BY <1>1, <2>1, <2>2 DEF ConcreteRun
    <2>4. t.b \in Range(f.g.succ[s.b])
      BY <1>0, <1>1, <2>3, NextFollows
    <2> QED BY <1>2, <2>2, <2>3, <2>4
  <1>9. /\ at[1] = f.g.entry /\ val[1] \in Gamma(f.regs)[Top(f)]
    <2>1. 1 \in 1 .. n OBVIOUS
    <2>2. at[1] = ex[1].b /\ val[1] = ex[1].regs BY <2>1 DEF MovesOf
    <2> QED BY <1>1, <1>5, <2>2 DEF ConcreteRun
  <1>10. IP!Execution(f, Gamma(f.regs), moves, n, at, val) BY <1>9 DEF IP!Execution, MovesOf
  <1>11. IP!SoundFor(f, S, G, moves)
    <2> SUFFICES ASSUME NEW q, NEW u, NEW x, NEW y, <<q, x, u, y>> \in moves
                 PROVE  /\ q \in IP!Nodes(f.g) /\ u \in IP!Range(f.g.succ[q])
                        /\ \A a \in S : x \in G[a] => y \in G[IntervalEdge(f, q, u, IntervalBlock(f, q, a))]
      BY DEF IP!SoundFor
    <2>1. PICK i \in 1 .. n - 1 : <<q, x, u, y>> = <<at[i], val[i], at[i + 1], val[i + 1]>>
      BY DEF MovesOf
    <2>2. i \in 1 .. n /\ i + 1 \in 1 .. n BY <2>1
    <2>3. q = ex[i].b /\ x = ex[i].regs /\ u = ex[i + 1].b /\ y = ex[i + 1].regs
      BY <2>1, <2>2 DEF MovesOf
    <2> QED BY <1>4, <1>8, <2>1, <2>3, SameNodes, SameRange
  <1> QED BY <1>1, <1>3, <1>10, <1>11

(* When the interval analysis has solved, it covers the execution. *)
LEMMA SolvedCovers ==
    ASSUME Narrow, Overflow = "stop", IntervalInv, phase = "interval", I!Solved,
           fn.regs # {}, NEW n \in Nat \ {0}, NEW ex, ConcreteRun(fn, n, ex)
    PROVE  Covered(fn, n, ex)
  <1>1. PICK p \in Programs : fn = FunctionOf(p) BY DEF IntervalInv
  <1>2. PICK f, S, G, Leq : f = fn /\ S = Envs(f.regs) /\ G = Gamma(f.regs) /\ Leq = EnvLeq(f.regs)
    OBVIOUS
  <1>3. IP!DomainLaws(S, Leq) /\ IP!Concretizes(S, Leq, G) BY <1>2, EnvLaws
  <1>4. IP!EngineInv(S) BY <1>2 DEF IntervalInv, Counting
  <1>5. PICK at, val : at = [i \in 1 .. n |-> ex[i].b] /\ val = [i \in 1 .. n |-> ex[i].regs] OBVIOUS
  <1>6. PICK moves : MovesOf(n, ex, at, val, moves) BY <1>5 DEF MovesOf
  <1>7. IP!SoundFor(f, S, G, moves) /\ IP!Execution(f, G, moves, n, at, val)
    <2>1. f = FunctionOf(p) /\ f.regs # {} /\ ConcreteRun(f, n, ex) BY <1>1, <1>2
    <2>2. /\ IP!SoundFor(f, Envs(f.regs), Gamma(f.regs), moves)
          /\ IP!Execution(f, Gamma(f.regs), moves, n, at, val)
      BY <1>6, <2>1, RunIsExecution
    <2> QED BY <1>2, <2>2
  <1>8. IP!RunCovered(G, n, at, val) BY <1>2, <1>3, <1>4, <1>7, IP!RunStaysCovered
  <1>9. \A i \in 1 .. n : val[i] \in G[i_in[at[i]]] BY <1>8, SameSolved DEF IP!RunCovered
  <1>10. \A i \in 1 .. n : i_in[ex[i].b] \in S
    <2>1. i_in \in [Nodes(fn.g) -> S]
      BY <1>4, SameNodes DEF IP!EngineInv, IP!EngineTypes
    <2>2. Nodes(fn.g) = DOMAIN fn.p.blocks
      BY <1>1, ProgramsAssumption, FunctionFields, GraphTyped
    <2> QED BY <2>1, <2>2 DEF ConcreteRun
  <1> QED BY <1>2, <1>5, <1>9, <1>10 DEF Covered

(* The result of the interval analysis covers the execution from then on. *)
CoverInv(n, ex) ==
    /\ IntervalInv
    /\ phase # "interval" /\ fn.regs # {} /\ ConcreteRun(fn, n, ex) => Covered(fn, n, ex)

LEMMA CoverNext ==
    ASSUME Narrow, Overflow = "stop", NEW CONSTANT n \in Nat \ {0}, NEW CONSTANT ex,
           CoverInv(n, ex), [Next]_vars
    PROVE  CoverInv(n, ex)'
  <1>1. IntervalInv' BY IntervalNext DEF CoverInv
  <1>2. fn' = fn
    BY DEF Next, IntervalStep, I!Step, StartZones, ZoneStep, Z!Step, Finish, Done, vars
  <1>3. SUFFICES ASSUME phase' # "interval", fn.regs # {}, ConcreteRun(fn, n, ex)
                 PROVE  Covered(fn, n, ex)'
    <2>1. ConcreteRun(fn, n, ex)' <=> ConcreteRun(fn, n, ex)
      BY <1>2
    <2> QED BY <1>1, <1>2, <2>1 DEF CoverInv
  <1>4. i_in' = i_in
    <2>1. ~IntervalStep BY <1>3 DEF IntervalStep
    <2> QED BY <2>1 DEF Next, StartZones, ZoneStep, Finish, Done, vars
  <1>5. Covered(fn, n, ex)
    <2>1. CASE phase # "interval" BY <1>3, <2>1 DEF CoverInv
    <2>2. CASE phase = "interval"
      <3>1. StartZones
        BY <1>3, <2>2 DEF Next, IntervalStep, ZoneStep, Finish, Done, vars
      <3> QED BY <1>3, <2>2, <3>1, SolvedCovers DEF CoverInv, StartZones
    <2> QED BY <2>1, <2>2
  <1> QED BY <1>2, <1>4, <1>5 DEF Covered

LEMMA CoverHolds ==
    ASSUME Narrow, Overflow = "stop", NEW CONSTANT n \in Nat \ {0}, NEW CONSTANT ex
    PROVE  Spec => []CoverInv(n, ex)
  <1>1. Init => CoverInv(n, ex) BY IntervalInit DEF CoverInv, Init
  <1>2. CoverInv(n, ex) /\ [Next]_vars => CoverInv(n, ex)' BY CoverNext
  <1> QED BY <1>1, <1>2, PTL DEF Spec

(* What the interval analysis claims of an execution: it enters only blocks that are
   reachable, with every register in its interval. *)
RunInIntervals(n, ex) ==
    phase # "interval" /\ fn.regs # {} /\ ConcreteRun(fn, n, ex) =>
        \A i \in 1 .. n :
            /\ i_in[ex[i].b] # Unreachable
            /\ \A r \in DOMAIN ex[i].regs : In(i_in[ex[i].b][r], ex[i].regs[r])

(* The interval analysis is sound: once it has solved, every execution of the function,
   of any length and from any words in its registers, is in the intervals computed for
   the blocks it enters.  The executions are those of SSA form that an overflow ends, on
   registers narrower than i128. *)
THEOREM IntervalsCoverRuns ==
    ASSUME Narrow, Overflow = "stop", NEW CONSTANT n \in Nat \ {0}, NEW CONSTANT ex
    PROVE  Spec => []RunInIntervals(n, ex)
  <1>1. Spec => []CoverInv(n, ex) BY CoverHolds
  <1>2. ASSUME CoverInv(n, ex) PROVE RunInIntervals(n, ex)
    <2> SUFFICES ASSUME phase # "interval", fn.regs # {}, ConcreteRun(fn, n, ex), NEW i \in 1 .. n
                 PROVE  /\ i_in[ex[i].b] # Unreachable
                        /\ \A r \in DOMAIN ex[i].regs : In(i_in[ex[i].b][r], ex[i].regs[r])
      BY DEF RunInIntervals
    <2>1. PICK env, regs : env = i_in[ex[i].b] /\ regs = ex[i].regs OBVIOUS
    <2>2. env \in Envs(fn.regs) /\ regs \in Gamma(fn.regs)[env] BY <1>2, <2>1 DEF CoverInv, Covered
    <2>3. env # Unreachable /\ \A r \in DOMAIN regs : In(env[r], regs[r])
      BY <2>2 DEF Gamma
    <2> QED BY <2>1, <2>3
  <1> QED BY <1>1, <1>2, PTL

-----------------------------------------------------------------------------
(* The answers to checks. *)

SignedOps == {"slt", "sle", "sgt", "sge", "eq", "ne"}

(* What an answer says of a comparison. *)
Agrees(answer, op, x, y) ==
    /\ answer \in {"True", "False", "Unknown"}
    /\ answer = "True" => Holds(op, x, y)
    /\ answer = "False" => ~Holds(op, x, y)

LEMMA CompareSound ==
    ASSUME NEW op \in SignedOps, NEW a \in Intervals, NEW b \in Intervals,
           NEW x \in Int, NEW y \in Int, In(a, x), In(b, y)
    PROVE  Agrees(compare_intervals(op, a, b), op, x, y)
  <1>1. PICK al, ah, bl, bh \in Int : /\ al = a[1] /\ ah = a[2] /\ bl = b[1] /\ bh = b[2]
                                      /\ al <= x /\ x <= ah /\ bl <= y /\ y <= bh
    BY IntervalIs DEF In
  <1>2. ~IsEmpty(a) /\ ~IsEmpty(b) BY DEF In, IsEmpty
  <1>3. CASE op = "slt"
    <2>1. compare_intervals(op, a, b) = IF ah < bl THEN "True" ELSE IF bh <= al THEN "False" ELSE "Unknown"
      BY <1>1, <1>2, <1>3 DEF compare_intervals, Signed, Three
    <2>2. Holds(op, x, y) <=> x < y BY <1>3 DEF Holds
    <2> QED BY <1>1, <2>1, <2>2 DEF Agrees
  <1>4. CASE op = "sle"
    <2>1. compare_intervals(op, a, b) = IF ah <= bl THEN "True" ELSE IF bh < al THEN "False" ELSE "Unknown"
      BY <1>1, <1>2, <1>4 DEF compare_intervals, Signed, Three
    <2>2. Holds(op, x, y) <=> x <= y BY <1>4 DEF Holds
    <2> QED BY <1>1, <2>1, <2>2 DEF Agrees
  <1>5. CASE op = "sgt"
    <2>1. compare_intervals(op, a, b) = IF bh < al THEN "True" ELSE IF ah <= bl THEN "False" ELSE "Unknown"
      BY <1>1, <1>2, <1>5 DEF compare_intervals, Signed, Three
    <2>2. Holds(op, x, y) <=> x > y BY <1>5 DEF Holds
    <2> QED BY <1>1, <2>1, <2>2 DEF Agrees
  <1>6. CASE op = "sge"
    <2>1. compare_intervals(op, a, b) = IF bh <= al THEN "True" ELSE IF ah < bl THEN "False" ELSE "Unknown"
      BY <1>1, <1>2, <1>6 DEF compare_intervals, Signed, Three
    <2>2. Holds(op, x, y) <=> x >= y BY <1>6 DEF Holds
    <2> QED BY <1>1, <2>1, <2>2 DEF Agrees
  <1>7. CASE op = "eq"
    <2>1. compare_intervals(op, a, b) = IF al = ah /\ bl = bh /\ al = bl THEN "True"
                                        ELSE IF ah < bl \/ bh < al THEN "False" ELSE "Unknown"
      BY <1>1, <1>2, <1>7 DEF compare_intervals, Signed, Three
    <2>2. Holds(op, x, y) <=> x = y BY <1>7 DEF Holds
    <2> QED BY <1>1, <2>1, <2>2 DEF Agrees
  <1>8. CASE op = "ne"
    <2>1. compare_intervals(op, a, b) = IF al = ah /\ bl = bh /\ al = bl THEN "False"
                                        ELSE IF ah < bl \/ bh < al THEN "True" ELSE "Unknown"
      BY <1>1, <1>2, <1>8 DEF compare_intervals, Signed, Three, Negate3
    <2>2. Holds(op, x, y) <=> x # y BY <1>8 DEF Holds
    <2> QED BY <1>1, <2>1, <2>2 DEF Agrees
  <1> QED BY <1>3, <1>4, <1>5, <1>6, <1>7, <1>8 DEF SignedOps

(* A check whose comparisons are signed ones. *)
SignedCheck(i) == i.op = "check" /\ \A c \in i.cond.parts : c.op \in SignedOps

LEMMA ConditionSound ==
    ASSUME Narrow, NEW p, Regs(p) # {}, NEW env \in [Regs(p) -> Intervals],
           NEW regs \in Gamma(Regs(p))[env], NEW i, SignedCheck(i), \A o \in Uses(i) : Defined(o, regs)
    PROVE  eval_condition(i.cond, env) # "Unknown" =>
               Meaning(i.cond, regs) = (eval_condition(i.cond, env) = "True")
  <1>1. PICK cond, parts : cond = i.cond /\ parts = cond.parts OBVIOUS
  <1> DEFINE One(c) == compare_intervals(c.op, eval_operand(c.a, env), eval_operand(c.b, env))
             Part(c) == Holds(c.op, Val(c.a, regs), Val(c.b, regs))
             all == {One(c) : c \in parts}
  <1>2. ASSUME NEW c \in parts
        PROVE  /\ One(c) \in {"True", "False", "Unknown"}
               /\ One(c) = "True" => Part(c)
               /\ One(c) = "False" => ~Part(c)
    <2>1. c.op \in SignedOps BY <1>1 DEF SignedCheck
    <2>2. Uses(i) = UNION {{d.a, d.b} : d \in parts} BY <1>1 DEF Uses, SignedCheck
    <2>3. c.a \in Uses(i) /\ c.b \in Uses(i) BY <2>2
    <2>4. Defined(c.a, regs) /\ Defined(c.b, regs) BY <2>3
    <2>5. PICK a, b, x, y : /\ a = eval_operand(c.a, env) /\ b = eval_operand(c.b, env)
                            /\ x = Val(c.a, regs) /\ y = Val(c.b, regs)
      OBVIOUS
    <2>6. a \in Intervals /\ b \in Intervals /\ x \in Int /\ y \in Int /\ In(a, x) /\ In(b, y)
      BY <2>4, <2>5, EvalSound, WordsFit
    <2>7. Agrees(compare_intervals(c.op, a, b), c.op, x, y) BY <2>1, <2>6, CompareSound
    <2> QED BY <2>5, <2>7 DEF Agrees
  <1>3. env # Unreachable BY GammaIs
  <1>4. eval_condition(cond, env) =
            IF cond.kind = "all"
            THEN IF all \subseteq {"True"} THEN "True" ELSE IF "False" \in all THEN "False" ELSE "Unknown"
            ELSE IF "True" \in all THEN "True" ELSE IF all \subseteq {"False"} THEN "False" ELSE "Unknown"
    BY <1>1, <1>3 DEF eval_condition, Three
  <1>5. Meaning(cond, regs) = IF cond.kind = "all" THEN \A c \in parts : Part(c) ELSE \E c \in parts : Part(c)
    BY <1>1 DEF Meaning
  <1> HIDE DEF One, Part
  <1>6. CASE cond.kind = "all"
    <2>1. Meaning(cond, regs) = \A c \in parts : Part(c) BY <1>5, <1>6
    <2>2. all \subseteq {"True"} => \A c \in parts : Part(c) BY <1>2
    <2>3. "False" \in all => ~\A c \in parts : Part(c) BY <1>2
    <2> QED BY <1>1, <1>4, <1>6, <2>1, <2>2, <2>3
  <1>7. CASE cond.kind # "all"
    <2>1. Meaning(cond, regs) = \E c \in parts : Part(c) BY <1>5, <1>7
    <2>2. "True" \in all => \E c \in parts : Part(c) BY <1>2
    <2>3. all \subseteq {"False"} => ~\E c \in parts : Part(c) BY <1>2
    <2> QED BY <1>1, <1>4, <1>7, <2>1, <2>2, <2>3
  <1> QED BY <1>6, <1>7

(* An answer is right for every execution that enters the block within its environment. *)
LEMMA AnswerSound ==
    ASSUME Narrow, Overflow = "stop", NEW p, TypedProgram(p), fn.p = p, Regs(p) # {},
           NEW s, s.b \in DOMAIN p.blocks, Bytes(s.run.mem), SsaAt(fn, s),
           i_in[s.b] \in [Regs(p) -> Intervals], s.regs \in Gamma(Regs(p))[i_in[s.b]],
           NEW k \in DOMAIN p.blocks[s.b].insts, SignedCheck(p.blocks[s.b].insts[k])
    PROVE  CheckRight(s, k)
  <1>1. PICK b, block, insts, env, regs, mem :
            /\ b = s.b /\ block = p.blocks[b] /\ insts = block.insts /\ env = i_in[b]
            /\ regs = s.regs /\ mem = s.run.mem
    OBVIOUS
  <1>2. b \in DOMAIN p.blocks /\ TypedBlock(p, block) BY <1>1 DEF TypedProgram
  <1>3. ReadsDefined(block, regs, mem) BY <1>1 DEF SsaAt
  <1>4. /\ insts \in Seq(Range(insts)) /\ Len(insts) \in Nat /\ k \in 1 .. Len(insts)
        /\ k - 1 \in 0 .. Len(insts)
    <2>1. insts \in Seq(Range(insts)) BY <1>1, <1>2 DEF TypedBlock
    <2>2. k \in DOMAIN insts BY <1>1
    <2> QED BY <2>1, <2>2
  <1>5. PICK i, at, now : i = insts[k] /\ at = EnvAt(insts, k - 1, env) /\ now = RunTo(block, k - 1, regs, mem)
    OBVIOUS
  <1>6. at \in [Regs(p) -> Intervals] /\ (now # <<>> => now \in Gamma(Regs(p))[at])
    <2>1. env \in [Regs(p) -> Intervals] /\ regs \in Gamma(Regs(p))[env] /\ Bytes(mem)
      BY <1>1
    <2>2. k - 1 \in 0 .. Len(block.insts) BY <1>1, <1>4
    <2>3. /\ EnvAt(block.insts, k - 1, env) \in [Regs(p) -> Intervals]
          /\ RunTo(block, k - 1, regs, mem) # <<>> =>
                 RunTo(block, k - 1, regs, mem) \in Gamma(Regs(p))[EnvAt(block.insts, k - 1, env)]
      BY <1>1, <1>2, <1>3, <2>1, <2>2, PrefixSound
    <2> QED BY <1>1, <1>5, <2>3
  <1>7. env # Unreachable BY <1>1, GammaIs
  <1>8. Said(b, k) = eval_condition(i.cond, at)
    BY <1>1, <1>5, <1>7 DEF Said, EnvAt
  <1>9. now # <<>> => \A o \in Uses(i) : Defined(o, now)
    BY <1>1, <1>3, <1>5 DEF ReadsDefined
  <1>10. SignedCheck(i) BY <1>1, <1>5
  <1>11. ASSUME now # <<>>, eval_condition(i.cond, at) # "Unknown"
         PROVE  Meaning(i.cond, now) = (eval_condition(i.cond, at) = "True")
    BY <1>6, <1>9, <1>10, <1>11, ConditionSound
  <1> QED BY <1>1, <1>5, <1>8, <1>11 DEF CheckRight

ChecksRight(n, ex) ==
    phase # "interval" /\ fn.regs # {} /\ ConcreteRun(fn, n, ex) =>
        \A i \in 1 .. n : \A k \in DOMAIN fn.p.blocks[ex[i].b].insts :
            SignedCheck(fn.p.blocks[ex[i].b].insts[k]) => CheckRight(ex[i], k)

(* What TrivalentSound says of the executions of a small instance, for every function and
   every execution: where the interval analysis calls a check of signed comparisons true,
   it holds whenever it is reached, and where it calls one false, it never does. *)
THEOREM IntervalChecksRight ==
    ASSUME Narrow, Overflow = "stop", NEW CONSTANT n \in Nat \ {0}, NEW CONSTANT ex
    PROVE  Spec => []ChecksRight(n, ex)
  <1>1. Spec => []CoverInv(n, ex) BY CoverHolds
  <1>2. ASSUME CoverInv(n, ex) PROVE ChecksRight(n, ex)
    <2> SUFFICES ASSUME phase # "interval", fn.regs # {}, ConcreteRun(fn, n, ex), NEW i \in 1 .. n,
                        NEW k \in DOMAIN fn.p.blocks[ex[i].b].insts,
                        SignedCheck(fn.p.blocks[ex[i].b].insts[k])
                 PROVE  CheckRight(ex[i], k)
      BY DEF ChecksRight
    <2>1. PICK p \in Programs : fn = FunctionOf(p) BY <1>2 DEF CoverInv, IntervalInv
    <2>2. TypedProgram(p) /\ fn.p = p /\ fn.regs = Regs(p) BY <2>1, ProgramsAssumption, FunctionFields
    <2>3. PICK s : s = ex[i] OBVIOUS
    <2>4. s.b \in DOMAIN p.blocks /\ SsaAt(fn, s) /\ Bytes(s.run.mem)
      BY <2>2, <2>3 DEF ConcreteRun
    <2>5. i_in[s.b] \in Envs(Regs(p)) /\ s.regs \in Gamma(Regs(p))[i_in[s.b]]
      BY <1>2, <2>2, <2>3 DEF CoverInv, Covered
    <2>6. i_in[s.b] \in [Regs(p) -> Intervals] BY <2>5 DEF Gamma, Envs
    <2>7. Regs(p) # {} /\ k \in DOMAIN p.blocks[s.b].insts /\ SignedCheck(p.blocks[s.b].insts[k])
      BY <2>2, <2>3
    <2>8. CheckRight(s, k) BY <2>2, <2>4, <2>5, <2>6, <2>7, AnswerSound
    <2> QED BY <2>3, <2>8
  <1> QED BY <1>1, <1>2, PTL

=============================================================================
