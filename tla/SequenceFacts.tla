--------------------------- MODULE SequenceFacts ---------------------------
(***************************************************************************)
(* What the proofs about different components need of the same operators:  *)
(* least elements, the recursion behind the folds, and what FlattenSeq,    *)
(* Append and the concatenation of sequences contain.                      *)
(***************************************************************************)
EXTENDS Integers, SequencesExt, FiniteSetTheorems, WellFoundedInduction, TLAPS

-----------------------------------------------------------------------------
(* Sets of positions and the folds over them.  Each proof by induction takes a
   smallest counterexample. *)

LEMMA LeastOf ==
    ASSUME NEW S \in SUBSET Nat, S # {}
    PROVE  \E k \in S : \A j \in S : k <= j
  <1>1. PICK k \in S : \A j \in S : ~(<<j, k>> \in OpToRel(<, Nat))
    BY WFMin, NatLessThanWellFounded
  <1>2. \A j \in S : ~(j < k) BY <1>1 DEF OpToRel
  <1> QED BY <1>2

(* A smallest finite set with a property. *)
LEMMA SmallestSet ==
    ASSUME NEW F, \A s \in F : IsFiniteSet(s), F # {}
    PROVE  \E s \in F : \A t \in F : Cardinality(s) <= Cardinality(t)
  <1> DEFINE K == {Cardinality(s) : s \in F}
  <1>1. \A s \in F : Cardinality(s) \in Nat BY FS_CardinalityType
  <1>2. K \in SUBSET Nat /\ K # {} BY <1>1
  <1>3. PICK k \in K : \A j \in K : k <= j
    <2> HIDE DEF K
    <2> QED BY <1>2, LeastOf
  <1> QED BY <1>3

(* The last position of a set of positions is one of them. *)
LEMMA LastOf ==
    ASSUME NEW n \in Nat, NEW t \in SUBSET (1 .. n), t # {}
    PROVE  Max(t) \in t /\ \A i \in t : i <= Max(t)
  <1> DEFINE K == {n - i : i \in t}
  <1>0. \A i \in t : i \in Int /\ n - i \in Nat OBVIOUS
  <1>1. K \in SUBSET Nat /\ K # {} BY <1>0
  <1>2. PICK k \in K : \A j \in K : k <= j
    <2> HIDE DEF K
    <2> QED BY <1>1, LeastOf
  <1>3. PICK m \in t : k = n - m BY <1>2
  <1>4. ASSUME NEW i \in t PROVE m >= i
    <2>1. n - i \in K OBVIOUS
    <2>2. k <= n - i BY <1>2, <2>1
    <2> QED BY <1>0, <1>3, <2>2
  <1>5. \E x \in t : \A y \in t : x >= y BY <1>4
  <1>6. Max(t) \in t /\ \A y \in t : Max(t) >= y BY <1>5 DEF Max
  <1> QED BY <1>6

(* Without its last position a set of positions is smaller. *)
LEMMA Shorter ==
    ASSUME NEW n \in Nat, NEW t \in SUBSET (1 .. n), t # {}
    PROVE  /\ Max(t) \in t /\ IsFiniteSet(t)
           /\ ~(Cardinality(t) <= Cardinality(t \ {Max(t)}))
  <1>1. Max(t) \in t BY LastOf
  <1>2. IsFiniteSet(1 .. n) BY FS_Interval
  <1>3. IsFiniteSet(t) BY <1>2, FS_Subset
  <1>4. Cardinality(t \ {Max(t)}) = Cardinality(t) - 1 BY <1>1, <1>3, FS_RemoveElement
  <1>5. Cardinality(t) \in Nat BY <1>3, FS_CardinalityType
  <1> QED BY <1>1, <1>3, <1>4, <1>5

(* The recursion by which FoldLeft goes from base through the positions in S; F
   takes what it has and the next position. *)
FoldRec(F, base, S, g) ==
    g = [t \in SUBSET S |-> IF t = {} THEN base ELSE F[<<g[t \ {Max(t)}], Max(t)>>]]

(* The recursion determines what each set of positions folds to. *)
LEMMA FoldUnique ==
    ASSUME NEW F, NEW base, NEW n \in Nat, NEW S \in SUBSET (1 .. n), NEW T \in SUBSET (1 .. n),
           NEW g, NEW h, FoldRec(F, base, S, g), FoldRec(F, base, T, h),
           NEW u \in (SUBSET S) \cap (SUBSET T)
    PROVE  g[u] = h[u]
  <1> DEFINE Bad == {s \in SUBSET u : g[s] # h[s]}
  <1> SUFFICES ASSUME Bad # {} PROVE FALSE OBVIOUS
  <1>0. IsFiniteSet(1 .. n) BY FS_Interval
  <1>1. \A s \in SUBSET u : s \in SUBSET (1 .. n) /\ IsFiniteSet(s) BY <1>0, FS_Subset
  <1>2. PICK s \in Bad : \A t \in Bad : Cardinality(s) <= Cardinality(t)
    <2>1. \A s \in Bad : IsFiniteSet(s) BY <1>1
    <2> HIDE DEF Bad
    <2> QED BY <2>1, SmallestSet
  <1>3. /\ g[s] = IF s = {} THEN base ELSE F[<<g[s \ {Max(s)}], Max(s)>>]
        /\ h[s] = IF s = {} THEN base ELSE F[<<h[s \ {Max(s)}], Max(s)>>]
    <2>1. s \in SUBSET S /\ s \in SUBSET T BY <1>2
    <2> HIDE DEF Bad
    <2>2. g[s] = IF s = {} THEN base ELSE F[<<g[s \ {Max(s)}], Max(s)>>] BY <2>1 DEF FoldRec
    <2>3. h[s] = IF s = {} THEN base ELSE F[<<h[s \ {Max(s)}], Max(s)>>] BY <2>1 DEF FoldRec
    <2> QED BY <2>2, <2>3
  <1>4. s # {} BY <1>2, <1>3
  <1>5. Max(s) \in s /\ ~(Cardinality(s) <= Cardinality(s \ {Max(s)}))
    BY <1>1, <1>2, <1>4, Shorter
  <1>6. s \ {Max(s)} \notin Bad BY <1>2, <1>5
  <1>7. g[s \ {Max(s)}] = h[s \ {Max(s)}] BY <1>2, <1>6
  <1> QED BY <1>2, <1>3, <1>4, <1>7

(* The recursion has a solution. *)
LEMMA FoldExists ==
    ASSUME NEW F, NEW base, NEW n \in Nat, NEW S \in SUBSET (1 .. n)
    PROVE  \E g : FoldRec(F, base, S, g)
  <1> DEFINE Has(s) == \E g : FoldRec(F, base, s, g)
             Bad == {s \in SUBSET S : ~Has(s)}
  <1> SUFFICES ASSUME Bad # {} PROVE FALSE OBVIOUS
  <1>0. IsFiniteSet(1 .. n) BY FS_Interval
  <1>1. \A s \in SUBSET S : s \in SUBSET (1 .. n) /\ IsFiniteSet(s) BY <1>0, FS_Subset
  <1>2. PICK T \in Bad : \A t \in Bad : Cardinality(T) <= Cardinality(t)
    <2>1. \A s \in Bad : IsFiniteSet(s) BY <1>1
    <2> HIDE DEF Bad
    <2> QED BY <2>1, SmallestSet
  <1>a. T \in SUBSET S /\ T \in SUBSET (1 .. n) BY <1>2
  <1>3. ASSUME NEW t \in SUBSET T, t # T PROVE Has(t)
    <2>1. IsFiniteSet(T) /\ IsFiniteSet(t) BY <1>1, <1>a
    <2>2. Cardinality(t) \in Nat /\ Cardinality(T) \in Nat BY <2>1, FS_CardinalityType
    <2>3. Cardinality(t) < Cardinality(T)
      <3> HIDE DEF Bad, Has
      <3> QED BY <1>3, <2>1, <2>2, FS_Subset
    <2>4. t \notin Bad
      <3> HIDE DEF Bad
      <3> QED BY <1>2, <2>2, <2>3
    <2>5. t \in SUBSET S BY <1>a
    <2> HIDE DEF Has
    <2> QED BY <2>4, <2>5
  <1> DEFINE H(t) == (CHOOSE g : FoldRec(F, base, t, g))[t]
             G == [s \in SUBSET T |-> IF s = {} THEN base ELSE F[<<H(s \ {Max(s)}), Max(s)>>]]
  <1>4. ASSUME NEW t \in SUBSET T, t # T
        PROVE  \E g : FoldRec(F, base, t, g) /\ H(t) = g[t]
    <2>1. Has(t) BY <1>3, <1>4
    <2> QED BY <2>1
  <1>6. ASSUME NEW s \in SUBSET T, s # {}
        PROVE  s \ {Max(s)} \in SUBSET T /\ s \ {Max(s)} # T
    <2>1. Max(s) \in s BY <1>6, <1>a, LastOf
    <2> QED BY <2>1
  <1>8. ASSUME NEW t \in SUBSET T, t # T PROVE G[t] = H(t)
    <2>1. PICK g : FoldRec(F, base, t, g) /\ H(t) = g[t] BY <1>4, <1>8
    <2>2. g[t] = IF t = {} THEN base ELSE F[<<g[t \ {Max(t)}], Max(t)>>]
      <3>1. t \in SUBSET t OBVIOUS
      <3> HIDE DEF G, H
      <3> QED BY <2>1, <3>1 DEF FoldRec
    <2>3. G[t] = IF t = {} THEN base ELSE F[<<H(t \ {Max(t)}), Max(t)>>] OBVIOUS
    <2>4. CASE t = {}
      <3> HIDE DEF G, H
      <3> QED BY <2>1, <2>2, <2>3, <2>4
    <2>5. CASE t # {}
      <3>1. PICK v : v = t \ {Max(t)} OBVIOUS
      <3>2. v \in SUBSET T /\ v # T /\ v \in SUBSET t BY <1>6, <2>5, <3>1
      <3>3. PICK h : FoldRec(F, base, v, h) /\ H(v) = h[v] BY <1>4, <3>2
      <3>5. g[v] = h[v]
        <4>1. v \in (SUBSET t) \cap (SUBSET v) BY <3>2
        <4>2. t \in SUBSET (1 .. n) /\ v \in SUBSET (1 .. n) BY <1>a, <3>2
        <4> HIDE DEF G, H
        <4> QED BY <2>1, <3>3, <4>1, <4>2, FoldUnique
      <3> HIDE DEF G, H
      <3> QED BY <2>1, <2>2, <2>3, <2>5, <3>1, <3>3, <3>5
    <2> QED BY <2>4, <2>5
  <1>9. FoldRec(F, base, T, G)
    <2>1. ASSUME NEW s \in SUBSET T, s # {} PROVE H(s \ {Max(s)}) = G[s \ {Max(s)}]
      <3> HIDE DEF G, H
      <3> QED BY <1>6, <1>8, <2>1
    <2>2. G = [s \in SUBSET T |-> IF s = {} THEN base ELSE F[G[s \ {Max(s)}], Max(s)]]
      <3> HIDE DEF H
      <3> QED BY <2>1
    <2> HIDE DEF G, H
    <2> QED BY <2>2 DEF FoldRec
  <1>10. Has(T) BY <1>9
  <1> QED BY <1>2, <1>10

(* Its values stay in A when F does. *)
LEMMA FoldTyped ==
    ASSUME NEW A, NEW n \in Nat, NEW F \in [A \X (1 .. n) -> A], NEW base \in A
    PROVE  \E g \in [SUBSET (1 .. n) -> A] : FoldRec(F, base, 1 .. n, g)
  <1>0. PICK g : FoldRec(F, base, 1 .. n, g) BY FoldExists
  <1> DEFINE Bad == {t \in SUBSET (1 .. n) : g[t] \notin A}
  <1>1. ASSUME Bad # {} PROVE FALSE
    <2>0. IsFiniteSet(1 .. n) BY FS_Interval
    <2>1. \A s \in Bad : IsFiniteSet(s) BY <2>0, FS_Subset
    <2>2. PICK t \in Bad : \A s \in Bad : Cardinality(t) <= Cardinality(s)
      <3> HIDE DEF Bad
      <3> QED BY <1>1, <2>1, SmallestSet
    <2>3. t \in SUBSET (1 .. n) /\ g[t] \notin A BY <2>2
    <2>4. g[t] = IF t = {} THEN base ELSE F[<<g[t \ {Max(t)}], Max(t)>>] BY <1>0, <2>3 DEF FoldRec
    <2>5. t # {} BY <2>3, <2>4
    <2>6. Max(t) \in t /\ ~(Cardinality(t) <= Cardinality(t \ {Max(t)})) BY <2>3, <2>5, Shorter
    <2>7. t \ {Max(t)} \notin Bad
      <3> HIDE DEF Bad
      <3> QED BY <2>2, <2>6
    <2>8. g[t \ {Max(t)}] \in A /\ Max(t) \in 1 .. n BY <2>3, <2>6, <2>7
    <2> QED BY <2>3, <2>4, <2>5, <2>8
  <1>2. \A t \in SUBSET (1 .. n) : g[t] \in A BY <1>1
  <1>3. g \in [SUBSET (1 .. n) -> A] BY <1>0, <1>2 DEF FoldRec
  <1> QED BY <1>0, <1>3

-----------------------------------------------------------------------------
(* What sequences contain. *)

(* What the fold's recursion keeps in A stays in A to its end. *)
LEMMA FoldStays ==
    ASSUME NEW A, NEW n \in Nat, NEW h, h[{}] \in A,
           \A t \in SUBSET (1 .. n) : t # {} /\ h[t \ {Max(t)}] \in A => h[t] \in A
    PROVE  h[1 .. n] \in A
  <1> DEFINE Bad == {t \in SUBSET (1 .. n) : h[t] \notin A}
  <1> SUFFICES ASSUME Bad # {} PROVE FALSE OBVIOUS
  <1>0. IsFiniteSet(1 .. n) BY FS_Interval
  <1>1. \A s \in Bad : IsFiniteSet(s) BY <1>0, FS_Subset
  <1>2. PICK t \in Bad : \A s \in Bad : Cardinality(t) <= Cardinality(s)
    <2> HIDE DEF Bad
    <2> QED BY <1>1, SmallestSet
  <1>3. t \in SUBSET (1 .. n) /\ t # {} /\ h[t] \notin A BY <1>2
  <1>4. ~(Cardinality(t) <= Cardinality(t \ {Max(t)})) BY <1>3, Shorter
  <1>5. t \ {Max(t)} \notin Bad
    <2> HIDE DEF Bad
    <2> QED BY <1>2, <1>4
  <1>6. h[t \ {Max(t)}] \in A BY <1>3, <1>5
  <1> QED BY <1>3, <1>6

LEMMA AppendRange ==
    ASSUME NEW N, NEW x \in Seq(N), NEW e \in N
    PROVE  Append(x, e) \in Seq(N) /\ Range(Append(x, e)) = Range(x) \cup {e}
  <1>1. PICK y : y = Append(x, e) OBVIOUS
  <1>2. PICK k \in Nat : DOMAIN x = 1 .. k /\ DOMAIN y = 1 .. k + 1
                       /\ y \in Seq(N) /\ y[k + 1] = e
    BY <1>1
  <1>3. \A i \in 1 .. k : y[i] = x[i] BY <1>1, <1>2
  <1>4. \A i \in 1 .. k + 1 : i \in 1 .. k \/ i = k + 1 BY <1>2
  <1>5. k + 1 \in 1 .. k + 1 /\ \A i \in 1 .. k : i \in 1 .. k + 1 BY <1>2
  <1>6. Range(y) = Range(x) \cup {e} BY <1>2, <1>3, <1>4, <1>5 DEF Range
  <1> QED BY <1>1, <1>2, <1>6

(* The recursion by which FlattenSeq concatenates the first m of ss. *)
FlatRec(ss, m, g) == g = [i \in 1 .. m |-> IF i = 1 THEN ss[i] ELSE g[i - 1] \o ss[i]]

LEMMA FlatExists ==
    ASSUME NEW ss
    PROVE  \A m \in Nat : \E g : FlatRec(ss, m, g)
  <1> DEFINE Has(m) == \E g : FlatRec(ss, m, g)
             Bad == {m \in Nat : ~Has(m)}
  <1> SUFFICES ASSUME Bad # {} PROVE FALSE OBVIOUS
  <1>1. PICK m \in Bad : \A j \in Bad : m <= j
    <2>1. Bad \in SUBSET Nat OBVIOUS
    <2> HIDE DEF Bad
    <2> QED BY <2>1, LeastOf
  <1>2. m \in Nat /\ ~Has(m) BY <1>1
  <1>3. m # 0
    <2> SUFFICES ASSUME m = 0 PROVE FALSE OBVIOUS
    <2> DEFINE g == [i \in 1 .. 0 |-> i]
    <2>1. FlatRec(ss, 0, g) BY DEF FlatRec
    <2> QED BY <1>2, <2>1
  <1>4. m - 1 \in Nat /\ m - 1 \notin Bad
    <2>1. m - 1 \in Nat /\ ~(m <= m - 1) BY <1>2, <1>3
    <2> HIDE DEF Bad
    <2> QED BY <1>1, <2>1
  <1>5. PICK g : FlatRec(ss, m - 1, g) BY <1>4
  <1> DEFINE G == [i \in 1 .. m |-> IF i = 1 THEN ss[i] ELSE g[i - 1] \o ss[i]]
  <1>6. ASSUME NEW i \in 1 .. m - 1 PROVE G[i] = g[i]
    <2>1. i \in 1 .. m BY <1>2
    <2>2. g[i] = IF i = 1 THEN ss[i] ELSE g[i - 1] \o ss[i] BY <1>5 DEF FlatRec
    <2> QED BY <2>1, <2>2
  <1>7. FlatRec(ss, m, G)
    <2>1. ASSUME NEW i \in 1 .. m, i # 1 PROVE g[i - 1] = G[i - 1]
      <3>1. i - 1 \in 1 .. m - 1 BY <1>2, <2>1
      <3> HIDE DEF G
      <3> QED BY <1>6, <3>1
    <2>2. G = [i \in 1 .. m |-> IF i = 1 THEN ss[i] ELSE G[i - 1] \o ss[i]] BY <2>1
    <2> HIDE DEF G
    <2> QED BY <2>2 DEF FlatRec
  <1> QED BY <1>2, <1>7

LEMMA FlattenIs ==
    ASSUME NEW ss, NEW n \in Nat \ {0}, Len(ss) = n
    PROVE  \E g : FlatRec(ss, n, g) /\ FlattenSeq(ss) = g[n]
  <1> DEFINE flat == CHOOSE g : FlatRec(ss, n, g)
  <1>1. FlatRec(ss, n, flat) BY FlatExists
  <1>2. FlattenSeq(ss) = flat[n] BY DEF FlattenSeq, FlatRec
  <1> QED BY <1>1, <1>2

LEMMA ConcatRange ==
    ASSUME NEW A, NEW a \in Seq(A), NEW b \in Seq(A)
    PROVE  Range(a \o b) = Range(a) \cup Range(b)
  <1>1. \A i \in DOMAIN a : i \in DOMAIN (a \o b) /\ (a \o b)[i] = a[i] OBVIOUS
  <1>2. \A i \in DOMAIN b : Len(a) + i \in DOMAIN (a \o b) /\ (a \o b)[Len(a) + i] = b[i] OBVIOUS
  <1>3. \A i \in DOMAIN (a \o b) :
          \/ i \in DOMAIN a /\ (a \o b)[i] = a[i]
          \/ i - Len(a) \in DOMAIN b /\ (a \o b)[i] = b[i - Len(a)]
    OBVIOUS
  <1>4. Range(a \o b) \subseteq Range(a) \cup Range(b) BY <1>3 DEF Range
  <1>5. Range(a) \subseteq Range(a \o b) BY <1>1 DEF Range
  <1>6. Range(b) \subseteq Range(a \o b) BY <1>2 DEF Range
  <1> QED BY <1>4, <1>5, <1>6

(* FlattenSeq lists what occurs in one of its sequences, and nothing else. *)
LEMMA FlattenIn ==
    ASSUME NEW A, NEW n \in Nat, NEW ss \in [1 .. n -> Seq(A)]
    PROVE  /\ FlattenSeq(ss) \in Seq(A)
           /\ \A x : x \in Range(FlattenSeq(ss)) <=> \E j \in 1 .. n : x \in Range(ss[j])
  <1>0. ss \in Seq(Seq(A)) /\ Len(ss) = n OBVIOUS
  <1>1. CASE n = 0
    <2>1. ss = <<>> BY <1>0, <1>1
    <2>2. FlattenSeq(ss) = <<>> BY <1>0, <1>1, <2>1 DEF FlattenSeq
    <2>3. Range(<<>>) = {} /\ 1 .. n = {} BY <1>1 DEF Range
    <2>4. <<>> \in Seq(A) OBVIOUS
    <2> QED BY <2>2, <2>3, <2>4
  <1>2. CASE n # 0
    <2> DEFINE In(x, k) == x \in Seq(A) /\ \A y : y \in Range(x) <=> \E j \in 1 .. k : y \in Range(ss[j])
    <2>1. PICK g : FlatRec(ss, n, g) /\ FlattenSeq(ss) = g[n] BY <1>0, <1>2, FlattenIs
    <2> DEFINE Bad == {i \in 1 .. n : ~In(g[i], i)}
    <2>2. Bad = {}
      <3> SUFFICES ASSUME Bad # {} PROVE FALSE OBVIOUS
      <3>1. PICK i \in Bad : \A j \in Bad : i <= j
        <4>1. Bad \in SUBSET Nat OBVIOUS
        <4> HIDE DEF Bad
        <4> QED BY <4>1, LeastOf
      <3>2. i \in 1 .. n /\ ~In(g[i], i) BY <3>1
      <3>3. g[i] = IF i = 1 THEN ss[i] ELSE g[i - 1] \o ss[i] BY <2>1, <3>2 DEF FlatRec
      <3>4. ss[i] \in Seq(A) BY <3>2
      <3>5. i # 1
        <4>1. \A j \in 1 .. 1 : j = 1 OBVIOUS
        <4> QED BY <3>2, <3>3, <3>4, <4>1
      <3>6. i - 1 \in 1 .. n /\ i - 1 \notin Bad
        <4>1. i - 1 \in 1 .. n /\ ~(i <= i - 1) BY <3>2, <3>5
        <4> HIDE DEF Bad
        <4> QED BY <3>1, <4>1
      <3>7. In(g[i - 1], i - 1) BY <3>6
      <3>8. PICK x \in Seq(A) : x = g[i - 1] /\ In(x, i - 1) BY <3>7
      <3>9. g[i] = x \o ss[i] BY <3>3, <3>5, <3>8
      <3>10. x \o ss[i] \in Seq(A) BY <3>4
      <3>11. Range(x \o ss[i]) = Range(x) \cup Range(ss[i]) BY <3>4, ConcatRange
      <3>12. \A j \in 1 .. i : j = i \/ j \in 1 .. i - 1 BY <3>2
      <3>13. i \in 1 .. i /\ \A j \in 1 .. i - 1 : j \in 1 .. i BY <3>2
      <3>14. \A y : y \in Range(x \o ss[i]) <=> \E j \in 1 .. i : y \in Range(ss[j])
        BY <3>8, <3>11, <3>12, <3>13
      <3> QED BY <3>2, <3>9, <3>10, <3>14
    <2>3. n \in 1 .. n BY <1>2
    <2>4. In(g[n], n)
      <3> HIDE DEF In
      <3> QED BY <2>2, <2>3
    <2> QED BY <2>1, <2>4
  <1> QED BY <1>1, <1>2

=============================================================================
