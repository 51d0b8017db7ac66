------------------------- MODULE CdclSolverProofs ---------------------------
(***************************************************************************)
(* The second half of the proof about the SAT solver: every step keeps the *)
(* watches, what follows from the input and the state of the conflict      *)
(* analysis.  With it, the theorems about the solver.                      *)
(***************************************************************************)
EXTENDS CdclProofs

-----------------------------------------------------------------------------
(* The watch lists, the two-watched invariant, the settled unit clauses and the
   input clauses. *)

(* Outside a propagation round the lists hold every entry. *)
LEMMA ListsComplete ==
    ASSUME DbTypes, WatchListsExact, pc # "visit"
    PROVE  \A i \in 1 .. Len(clauses), l \in Lit : watches[i][l] = WatchCount(clauses[i], l)
  <1> SUFFICES ASSUME NEW i \in 1 .. Len(clauses), NEW l \in Lit
               PROVE  watches[i][l] = WatchCount(clauses[i], l)
    OBVIOUS
  <1>1. watches[i][l] \in Nat /\ i \in DOMAIN clauses BY DbDomains
  <1>2. watches[i][l] + 0 = WatchCount(clauses[i], l) BY <1>1 DEF WatchListsExact
  <1> QED BY <1>1, <1>2

LEMMA ListsNext ==
    ASSUME IInv, [Next]_vars
    PROVE  WatchListsExact'
  <1> USE DEF IInv, TrailInv, TypeOK
  <1>0. /\ Len(clauses) \in Nat /\ DOMAIN clauses = 1 .. Len(clauses)
        /\ \A i \in 1 .. Len(clauses) : watches[i] \in [Lit -> Nat] /\ clauses[i] \in Seq(Lit)
    BY DbDomains
  <1>a. DbTypes' /\ DOMAIN clauses' = 1 .. Len(clauses') BY DbTypesNext, LenProperties DEF DbTypes
  <1>1. CASE UNCHANGED <<db, prop, pc>> BY <1>1 DEF db, prop, WatchListsExact
  <1>2. ASSUME pc' # "visit",
               \A i \in 1 .. Len(clauses'), l \in Lit : watches'[i][l] = WatchCount(clauses'[i], l)
        PROVE  WatchListsExact'
    <2> SUFFICES ASSUME NEW i \in 1 .. Len(clauses'), NEW l \in Lit
                 PROVE  watches'[i][l] + 0 = WatchCount(clauses'[i], l)
      BY <1>a, <1>2 DEF WatchListsExact
    <2>1. clauses'[i] \in Seq(Lit) BY <1>a, ElementOfSeq DEF DbTypes
    <2>2. WatchCount(clauses'[i], l) \in 0 .. 2 BY <2>1, WatchCountTypes
    <2> QED BY <1>2, <2>2
  <1>3. CASE UNCHANGED db /\ pc # "visit" /\ pc' # "visit"
    BY <1>2, <1>3, ListsComplete DEF db
  <1>4. \/ SeedUnsat \/ SeedUnit \/ SeedSkip \/ SeedDone \/ PropagateDone \/ ConflictUnsat
        \/ ConflictTimeout \/ BeginAnalyze \/ MarkClause \/ WalkTrail \/ FormLemma
        => UNCHANGED db /\ pc # "visit" /\ pc' # "visit"
    BY DEF SeedUnsat, SeedUnit, SeedSkip, SeedDone, PropagateDone, ConflictUnsat,
           ConflictTimeout, BeginAnalyze, MarkClause, WalkTrail, FormLemma, Return
  <1>5. \/ Backjump \/ NoRestart \/ Restart \/ ReduceNothing \/ AllAssigned \/ OutOfBudget
        \/ DecideTimeout \/ (\E v \in Vars : Decide(v))
        => UNCHANGED db /\ pc # "visit" /\ pc' # "visit"
    BY DEF Backjump, NoRestart, Restart, ReduceNothing, AllAssigned, OutOfBudget,
           DecideTimeout, Decide, Return
  <1>6. CASE PropagatePop
    <2>1. pc = "propagate" /\ pc' = "visit" /\ clauses' = clauses BY <1>6 DEF PropagatePop
    <2>2. \A i \in 1 .. Len(clauses), l \in Lit : watches[i][l] = WatchCount(clauses[i], l)
      BY <2>1, ListsComplete
    <2>3. /\ \A j \in 1 .. Len(clauses) : todo'[j] = watches[j][false_lit']
          /\ \A j \in 1 .. Len(clauses), l \in Lit :
                watches'[j][l] = IF l = false_lit' THEN 0 ELSE watches[j][l]
      BY <1>6, PopLists
    <2> SUFFICES ASSUME NEW i \in 1 .. Len(clauses), NEW l \in Lit
                 PROVE  watches'[i][l] + (IF l = false_lit' THEN todo'[i] ELSE 0)
                            = watches[i][l]
      BY <1>0, <2>1, <2>2 DEF WatchListsExact
    <2>4. watches[i][l] \in Nat BY <1>0
    <2> QED BY <2>3, <2>4
  <1>7. CASE Visit
    <2>1. PICK i \in 1 .. Len(clauses) :
             VisitSatisfied(i) \/ VisitMove(i) \/ VisitUnit(i) \/ VisitConflict(i)
      BY <1>0, <1>7 DEF Visit
    <2> DEFINE c == Normalised(clauses[i])
    <2>2. pc = "visit" /\ todo[i] > 0
      BY <2>1 DEF VisitSatisfied, VisitMove, VisitUnit, VisitConflict, TakeEntry
    <2>3. /\ Len(c) >= 2 /\ Len(c) \in Nat /\ c \in Seq(Lit) /\ c[2] = false_lit /\ c[1] \in Lit
          /\ \A k \in 1 .. Len(c) : c[k] \in Lit
          /\ \A l \in Lit : WatchCount(c, l) = WatchCount(clauses[i], l)
          /\ false_lit \in Lit
      BY <2>2, VisitClause, LenProperties
    <2>4. /\ todo \in Seq(Nat) /\ Len(todo) = Len(clauses) /\ DOMAIN todo = 1 .. Len(clauses)
          /\ \A j \in 1 .. Len(clauses) : todo[j] \in Nat
      BY <2>2, LenProperties, ElementOfSeq DEF PropTypes
    <2>5. \A j \in 1 .. Len(clauses), l \in Lit :
             watches[j][l] + (IF l = false_lit THEN todo[j] ELSE 0) = WatchCount(clauses[j], l)
      BY <1>0, <2>2 DEF WatchListsExact
    <2>6. Len(clauses') = Len(clauses) BY <2>1, VisitEffect DEF SameStore
    <2> HIDE DEF c
    <2>7. CASE VisitSatisfied(i) \/ VisitUnit(i)
      <3>1. /\ pc' = "visit" /\ false_lit' = false_lit /\ clauses' = [clauses EXCEPT ![i] = c]
            /\ todo' = [todo EXCEPT ![i] = @ - 1]
            /\ watches' = [watches EXCEPT ![i][false_lit] = @ + 1]
        BY <2>7 DEF VisitSatisfied, VisitUnit, TakeEntry, KeepEntry, c
      <3>2. \A j \in 1 .. Len(clauses), l \in Lit :
               watches'[j][l] = watches[j][l] + (IF j = i /\ l = false_lit THEN 1 ELSE 0)
        BY <2>3, <3>1, OneEntryMore, ZenonT(40)
      <3> SUFFICES ASSUME NEW j \in 1 .. Len(clauses), NEW l \in Lit
                   PROVE  watches'[j][l] + (IF l = false_lit THEN todo'[j] ELSE 0)
                              = WatchCount(clauses'[j], l)
        BY <1>a, <2>6, <3>1 DEF WatchListsExact
      <3>3. WatchCount(clauses'[j], l) = WatchCount(clauses[j], l) BY <1>0, <2>3, <3>1
      <3>4. todo'[j] = IF j = i THEN todo[j] - 1 ELSE todo[j] BY <2>4, <3>1
      <3>5. watches[j][l] \in Nat /\ todo[j] \in Nat BY <1>0, <2>4
      <3>6. watches[j][l] + (IF l = false_lit THEN todo[j] ELSE 0) = WatchCount(clauses[j], l)
        BY <2>5
      <3>7. CASE l = false_lit /\ j = i BY <3>2, <3>3, <3>4, <3>5, <3>6, <3>7
      <3>8. CASE ~(l = false_lit /\ j = i) BY <3>2, <3>3, <3>4, <3>5, <3>6, <3>8
      <3> QED BY <3>7, <3>8
    <2>8. CASE VisitMove(i)
      <3>1. PICK k \in Replacements(c) :
               /\ clauses' = [clauses EXCEPT ![i] = Swap(c, 2, k)]
               /\ watches' = [watches EXCEPT ![i][c[k]] = @ + 1]
        BY <2>8 DEF VisitMove, c
      <3>2. pc' = "visit" /\ false_lit' = false_lit /\ todo' = [todo EXCEPT ![i] = @ - 1]
        BY <2>8 DEF VisitMove, TakeEntry
      <3>3. k \in 3 .. Len(c) /\ k \in 1 .. Len(c) /\ 2 \in 1 .. Len(c) /\ c[k] \in Lit
        BY <2>3, <3>1 DEF Replacements
      <3> DEFINE d == Swap(c, 2, k)
      <3>4. Len(d) = Len(c) /\ d[1] = c[1] /\ d[2] = c[k]
        <4>1. /\ Len(Swap(c, 2, k)) = Len(c)
              /\ \A m \in 1 .. Len(c) :
                   Swap(c, 2, k)[m] = IF m = k THEN c[2] ELSE IF m = 2 THEN c[k] ELSE c[m]
          <5>1. c \in Seq(Lit) /\ 2 \in 1 .. Len(c) /\ k \in 1 .. Len(c) BY <2>3, <3>3
          <5> QED BY <5>1, SwapLits
        <4> QED BY <2>3, <3>3, <4>1
      <3>5. \A l \in Lit : WatchCount(d, l) = WatchCount(c, l) + (IF l = c[k] THEN 1 ELSE 0)
                                                - (IF l = false_lit THEN 1 ELSE 0)
        <4> HIDE DEF d
        <4> QED BY <2>3, <3>4 DEF WatchCount
      <3> HIDE DEF d
      <3>6. \A j \in 1 .. Len(clauses), l \in Lit :
               watches'[j][l] = watches[j][l] + (IF j = i /\ l = c[k] THEN 1 ELSE 0)
        BY <3>1, <3>3, OneEntryMore
      <3> SUFFICES ASSUME NEW j \in 1 .. Len(clauses), NEW l \in Lit
                   PROVE  watches'[j][l] + (IF l = false_lit THEN todo'[j] ELSE 0)
                              = WatchCount(clauses'[j], l)
        BY <1>a, <2>6, <3>2 DEF WatchListsExact
      <3>7. clauses'[j] = IF j = i THEN d ELSE clauses[j] BY <1>0, <3>1 DEF d
      <3>8. todo'[j] = IF j = i THEN todo[j] - 1 ELSE todo[j] BY <2>4, <3>2
      <3>9. watches[j][l] \in Nat /\ todo[j] \in Nat BY <1>0, <2>4
      <3>10. WatchCount(clauses[j], l) \in Int BY <1>0, WatchCountTypes
      <3>11. CASE j = i
        <4>1. WatchCount(d, l) = WatchCount(clauses[i], l) + (IF l = c[k] THEN 1 ELSE 0)
                                     - (IF l = false_lit THEN 1 ELSE 0)
          BY <2>3, <3>5
        <4>2. watches[i][l] + (IF l = false_lit THEN todo[i] ELSE 0) = WatchCount(clauses[i], l)
          BY <2>5
        <4>3. watches'[i][l] = watches[i][l] + (IF l = c[k] THEN 1 ELSE 0) BY <3>6
        <4>4. CASE l = false_lit BY <3>7, <3>8, <3>9, <3>10, <3>11, <4>1, <4>2, <4>3, <4>4
        <4>5. CASE l # false_lit BY <3>7, <3>8, <3>9, <3>10, <3>11, <4>1, <4>2, <4>3, <4>5
        <4> QED BY <4>4, <4>5
      <3>12. CASE j # i BY <2>5, <3>6, <3>7, <3>8, <3>9, <3>12
      <3> QED BY <3>11, <3>12
    <2>9. CASE VisitConflict(i)
      <3>1. pc' = "conflict" /\ clauses' = [clauses EXCEPT ![i] = c]
        BY <2>9 DEF VisitConflict, c
      <3>2. \A j \in 1 .. Len(clauses), l \in Lit :
                watches'[j][l] = watches[j][l] + (IF l = false_lit THEN todo[j] ELSE 0)
        BY <1>0, <2>9, ConflictLists
      <3>3. \A j \in 1 .. Len(clauses), l \in Lit : WatchCount(clauses'[j], l) = WatchCount(clauses[j], l)
        BY <1>0, <2>3, <3>1
      <3> QED BY <1>2, <2>5, <2>6, <3>1, <3>2, <3>3
    <2> QED BY <2>1, <2>7, <2>8, <2>9
  <1>8. CASE VisitDone
    <2>1. pc = "visit" /\ pc' = "propagate" /\ UNCHANGED db /\ \A i \in DOMAIN todo : todo[i] = 0
      BY <1>8 DEF VisitDone
    <2>2. DOMAIN todo = 1 .. Len(clauses) BY <2>1, LenProperties DEF PropTypes
    <2>3. \A j \in 1 .. Len(clauses), l \in Lit : watches[j][l] = WatchCount(clauses[j], l)
      <3> SUFFICES ASSUME NEW j \in 1 .. Len(clauses), NEW l \in Lit
                   PROVE  watches[j][l] = WatchCount(clauses[j], l)
        OBVIOUS
      <3>1. watches[j][l] + (IF l = false_lit THEN todo[j] ELSE 0) = WatchCount(clauses[j], l)
        BY <1>0, <2>1 DEF WatchListsExact
      <3>2. watches[j][l] \in Nat /\ todo[j] = 0 BY <1>0, <2>1, <2>2
      <3> QED BY <3>1, <3>2
    <2> QED BY <1>2, <2>1, <2>3 DEF db
  <1>9. CASE AddLearnt
    <2>1. Store(lemma, lemma_lbd) /\ lemma \in Seq(Lit) /\ pc = "add" /\ pc' = "propagate"
      BY <1>9 DEF AddLearnt, LemTypes
    <2>2. WatchEntries(lemma) \in [Lit -> Nat]
          /\ \A l \in Lit : WatchEntries(lemma)[l] = WatchCount(lemma, l)
      BY <2>1, WatchCountTypes
    <2>3. /\ Len(clauses') = Len(clauses) + 1 /\ clauses'[Len(clauses) + 1] = lemma
          /\ watches'[Len(clauses) + 1] = WatchEntries(lemma)
          /\ \A i \in 1 .. Len(clauses) : clauses'[i] = clauses[i] /\ watches'[i] = watches[i]
      BY <2>1, <2>2, AppendProperties DEF Store, DbTypes
    <2>4. \A i \in 1 .. Len(clauses), l \in Lit : watches[i][l] = WatchCount(clauses[i], l)
      BY <2>1, ListsComplete
    <2>5. \A i \in 1 .. Len(clauses'), l \in Lit : watches'[i][l] = WatchCount(clauses'[i], l)
      BY <1>0, <2>2, <2>3, <2>4
    <2> QED BY <1>2, <2>1, <2>5
  <1>10. CASE ReduceDb
    <2>1. PICK N, kept : N \in Nat /\ Renumbers(N, kept) BY <1>10, ReduceEffect
    <2>2. pc' = "decide" BY <1>10 DEF ReduceDb
    <2>3. \A n \in 1 .. N : clauses'[n] \in Seq(Lit)
      BY <1>a, <2>1, ElementOfSeq DEF Renumbers, DbTypes
    <2>4. \A i \in 1 .. Len(clauses'), l \in Lit : watches'[i][l] = WatchCount(clauses'[i], l)
      BY <2>1, <2>3, WatchCountTypes DEF Renumbers
    <2> QED BY <1>2, <2>2, <2>4
  <1>11. Done \/ UNCHANGED vars => UNCHANGED <<db, prop, pc>> BY DEF Done, vars
  <1> QED
    BY <1>1, <1>3, <1>4, <1>5, <1>6, <1>7, <1>8, <1>9, <1>10, <1>11 DEF Next, Step

-----------------------------------------------------------------------------
(* Unit clauses and input clauses. *)

LEMMA OneLiteral ==
    ASSUME NEW c \in Seq(Lit), NEW d \in Seq(Lit), Lits(c) = Lits(d), Len(c) = 1, Len(d) = 1
    PROVE  c[1] = d[1]
  <1>1. DOMAIN c = 1 .. 1 /\ DOMAIN d = 1 .. 1 BY LenProperties
  <1>2. c[1] \in Lits(c) BY <1>1 DEF Lits
  <1>3. \A x \in Lits(d) : x = d[1] BY <1>1 DEF Lits
  <1> QED BY <1>2, <1>3

LEMMA FirstLit ==
    ASSUME DbTypes, NEW i \in 1 .. Len(clauses), Len(clauses[i]) >= 1
    PROVE  clauses[i][1] \in Lit
  <1>1. clauses[i] \in Seq(Lit) /\ Len(clauses[i]) \in Nat BY DbDomains
  <1>2. 1 \in 1 .. Len(clauses[i]) BY <1>1
  <1> QED BY <1>1, <1>2, ElementOfSeq

(* Clause i is not empty, and holds for good if it is unit. *)
Settled(i) ==
    /\ Len(clauses[i]) # 0
    /\ Len(clauses[i]) = 1 => LitTrue(clauses[i][1]) /\ level[clauses[i][1].var] = 0

LEMMA UnitsNext ==
    ASSUME IInv, [Next]_vars
    PROVE  UnitsSettled'
  <1> USE DEF IInv, TrailInv, TypeOK
  <1>0. /\ Len(clauses) \in Nat /\ DOMAIN clauses = 1 .. Len(clauses)
        /\ \A i \in 1 .. Len(clauses) : /\ clauses[i] \in Seq(Lit) /\ Len(clauses[i]) \in Nat
                                        /\ \A k \in 1 .. Len(clauses[i]) : clauses[i][k] \in Lit
    BY DbDomains
  <1>a. /\ DbTypes' /\ AsgTypes' /\ DOMAIN clauses' = 1 .. Len(clauses') /\ Len(clauses') \in Nat
        /\ \A i \in 1 .. Len(clauses') : clauses'[i] \in Seq(Lit)
    BY DbTypesNext, AsgTypesNext, LenProperties, ElementOfSeq DEF DbTypes
  (* True literals of level 0 stay so. *)
  <1>1. ASSUME NEW l \in Lit, LitTrue(l), level[l.var] = 0
        PROVE  LitTrue(l)' /\ level'[l.var] = 0
    <2>0. AnyEffect /\ l.var \in Vars /\ assign[l.var] # "none"
      BY <1>1, Effects, LitTypes, FalseAssigned
    <2>1. CASE Kept BY <1>1, <2>1 DEF Kept, LitTrue
    <2>2. ASSUME NEW m \in Lit, NEW r \in 1 .. Len(clauses'), Forced(m, r)
          PROVE  LitTrue(l)' /\ level'[l.var] = 0
      <3>1. r \in Nat BY <1>a
      <3> QED BY <1>1, <2>2, <3>1, ForcedKeeps
    <2>3. ASSUME NEW n \in Nat, n < Len(trail_lim), BacktrackTo(n)
          PROVE  LitTrue(l)' /\ level'[l.var] = 0
      <3>1. /\ \A v \in Vars : assign'[v] = IF assign[v] # "none" /\ level[v] <= n
                                           THEN assign[v] ELSE "none"
            /\ level' = level
        BY <2>3, BacktrackTrail DEF Trail
      <3>2. assign'[l.var] = assign[l.var] BY <1>1, <2>0, <3>1
      <3> QED BY <1>1, <3>1, <3>2 DEF LitTrue
    <2>4. ASSUME NEW v \in Vars, Decide(v) PROVE LitTrue(l)' /\ level'[l.var] = 0
      <3> DEFINE m == [var |-> v, val |-> "true"]
      <3>1. m \in Lit /\ LitFree(m) /\ Enqueue(m, 0, Len(trail_lim) + 1)
        BY <2>4, LitTypes DEF Bool, Decide, LitFree, DecisionLevel
      <3>2. Len(trail_lim) + 1 \in Nat /\ trail_lim' \in Seq(Nat) BY <1>a, AsgDomains DEF AsgTypes
      <3> HIDE DEF m
      <3> QED BY <1>1, <3>1, <3>2, EnqueueKeeps
    <2>5. CASE ReduceDb BY <1>1, <2>5 DEF ReduceDb, LitTrue
    <2>6. ASSUME SameStore, NEW m \in Lit, NEW r \in 1 .. Len(clauses), Forced(m, r)
          PROVE  LitTrue(l)' /\ level'[l.var] = 0
      BY <2>2, <2>6 DEF SameStore
    <2>7. ASSUME lemma[1] \in Lit, Forced(lemma[1], Len(clauses) + 1)
          PROVE  LitTrue(l)' /\ level'[l.var] = 0
      BY <2>2, <2>7 DEF Forced
    <2> QED BY <2>0, <2>1, <2>3, <2>4, <2>5, <2>6, <2>7 DEF AnyEffect
  (* A settled clause stays settled when it is permuted. *)
  <1>2. ASSUME NEW i \in 1 .. Len(clauses), NEW j \in 1 .. Len(clauses'), Settled(i),
               Lits(clauses'[j]) = Lits(clauses[i]), Len(clauses'[j]) = Len(clauses[i])
        PROVE  Settled(j)'
    <2> SUFFICES ASSUME Len(clauses'[j]) = 1
                 PROVE  LitTrue(clauses[j][1])' /\ level'[clauses'[j][1].var] = 0
      BY <1>2 DEF Settled
    <2>0. Len(clauses[i]) = 1 /\ clauses[i] \in Seq(Lit) /\ clauses'[j] \in Seq(Lit)
      BY <1>0, <1>2, <1>a
    <2>1. PICK l \in Lit : l = clauses[i][1] /\ clauses'[j][1] = l
      <3>1. clauses[i][1] \in Lit BY <2>0, ElementOfSeq
      <3> QED BY <1>2, <2>0, <3>1, OneLiteral
    <2>2. LitTrue(l) /\ level[l.var] = 0 BY <1>2, <2>0, <2>1 DEF Settled
    <2>3. LitTrue(l)' /\ level'[l.var] = 0 BY <1>1, <2>1, <2>2
    <2> QED BY <2>1, <2>3 DEF LitTrue
  <1>3. CASE pc = "done"
    <2>1. ~(Visit \/ PropagatePop \/ AddLearnt \/ ReduceDb)
      BY <1>3 DEF Visit, VisitSatisfied, VisitMove, VisitUnit, VisitConflict, TakeEntry,
         PropagatePop, AddLearnt, ReduceDb
    <2>2. ~(\/ SeedUnsat \/ SeedUnit \/ SeedSkip \/ SeedDone \/ PropagateDone \/ VisitDone
            \/ ConflictUnsat \/ ConflictTimeout \/ BeginAnalyze \/ MarkClause \/ WalkTrail)
      BY <1>3 DEF SeedUnsat, SeedUnit, SeedSkip, SeedDone, PropagateDone, VisitDone,
         ConflictUnsat, ConflictTimeout, BeginAnalyze, MarkClause, WalkTrail
    <2>3. ~(\/ FormLemma \/ Backjump \/ NoRestart \/ Restart \/ ReduceNothing \/ AllAssigned
            \/ OutOfBudget \/ DecideTimeout \/ \E v \in Vars : Decide(v))
      BY <1>3 DEF FormLemma, Backjump, NoRestart, Restart, ReduceNothing, AllAssigned,
         OutOfBudget, DecideTimeout, Decide
    <2>4. UNCHANGED vars BY <2>1, <2>2, <2>3 DEF Next, Step, Done
    <2> QED BY <1>3, <2>4 DEF vars, UnitsSettled
  <1>4. CASE pc = "seed"
    <2>1. ~(Visit \/ Done) BY <1>4 DEF Visit, VisitSatisfied, VisitMove, VisitUnit,
                                VisitConflict, TakeEntry, Done
    <2>2. ~(\/ PropagatePop \/ PropagateDone \/ VisitDone
            \/ ConflictUnsat \/ ConflictTimeout \/ BeginAnalyze \/ MarkClause \/ WalkTrail)
      BY <1>4 DEF PropagatePop, PropagateDone, VisitDone, ConflictUnsat,
         ConflictTimeout, BeginAnalyze, MarkClause, WalkTrail
    <2>3. ~(\/ FormLemma \/ Backjump \/ AddLearnt \/ NoRestart \/ Restart \/ ReduceDb
            \/ ReduceNothing \/ AllAssigned \/ OutOfBudget \/ DecideTimeout
            \/ \E v \in Vars : Decide(v))
      BY <1>4 DEF FormLemma, Backjump, AddLearnt, NoRestart, Restart, ReduceDb, ReduceNothing,
         AllAssigned, OutOfBudget, DecideTimeout, Decide
    <2>4. SeedUnsat \/ SeedUnit \/ SeedSkip \/ SeedDone \/ UNCHANGED vars
      BY <2>1, <2>2, <2>3 DEF Next, Step
    <2>5. \A i \in 1 .. Len(clauses) : i < seed => Settled(i)
      BY <1>0, <1>4 DEF UnitsSettled, Settled
    <2>6. CASE SeedUnsat BY <2>6 DEF SeedUnsat, Return, UnitsSettled
    <2>7. CASE UNCHANGED vars BY <2>7 DEF vars, db, asg, UnitsSettled, LitTrue
    <2>8. CASE SeedDone
      <3>1. clauses' = clauses /\ seed > Len(clauses) /\ pc' = "propagate" BY <2>8 DEF SeedDone, db
      <3>2. \A i \in 1 .. Len(clauses) : Settled(i)'
        <4> SUFFICES ASSUME NEW i \in 1 .. Len(clauses) PROVE Settled(i)' OBVIOUS
        <4>1. Settled(i) BY <1>0, <2>5, <3>1 DEF ControlTypes
        <4> QED BY <1>2, <3>1, <4>1
      <3> QED BY <1>0, <3>1, <3>2 DEF UnitsSettled, Settled
    <2>9. CASE SeedUnit \/ SeedSkip
      <3>1. /\ clauses' = clauses /\ seed' = seed + 1 /\ seed \in 1 .. Len(clauses)
            /\ trail_lim = <<>> /\ Len(trail_lim) = 0 /\ pc' = "seed"
        BY <1>0, <1>4, <2>9 DEF SeedUnit, SeedSkip, db, ControlOK, ControlTypes
      <3>2. ASSUME NEW i \in 1 .. Len(clauses), i < seed PROVE Settled(i)'
        BY <1>2, <2>5, <3>1, <3>2
      <3>3. ASSUME NEW i \in 1 .. Len(clauses), i = seed PROVE Settled(i)'
        <4> DEFINE l == clauses[i][1]
        <4>1. CASE SeedUnit
          <5>1. Len(clauses[i]) = 1 /\ LitFree(l) /\ Enqueue(l, i, Len(trail_lim))
                /\ l \in Lit /\ trail_lim' = trail_lim
            <6>1. Len(clauses[i]) = 1 /\ LitFree(l) /\ Enqueue(l, i, Len(trail_lim))
                  /\ trail_lim' = trail_lim
              BY <3>3, <4>1 DEF SeedUnit, DecisionLevel
            <6>2. l \in Lit BY <6>1, FirstLit
            <6> QED BY <6>1, <6>2
          <5>2. i \in Nat /\ Len(trail_lim) \in Nat /\ trail_lim' \in Seq(Nat)
            BY <1>0, <3>1, <5>1 DEF AsgTypes
          <5> HIDE DEF l
          <5>3. assign'[l.var] = l.val /\ level'[l.var] = 0 BY <3>1, <5>1, <5>2, EnqueueKeeps
          <5>4. Len(clauses'[i]) = 1 /\ clauses'[i][1] = l BY <3>1, <5>1 DEF l
          <5> QED BY <5>3, <5>4 DEF Settled, LitTrue
        <4>2. CASE SeedSkip
          <5>1. /\ UNCHANGED asg
                /\ Len(clauses[i]) > 1 \/ (Len(clauses[i]) = 1 /\ LitTrue(l))
            BY <3>3, <4>2 DEF SeedSkip
          <5>2. ASSUME Len(clauses[i]) = 1, LitTrue(l) PROVE level[l.var] = 0
            <6>1. l \in Lit BY <5>2, FirstLit
            <6>2. l.var \in Vars /\ assign[l.var] # "none" BY <5>2, <6>1, LitTypes, FalseAssigned
            <6>3. PICK p \in DOMAIN trail : trail[p] = l.var BY <6>2 DEF TrailExact
            <6>4. level[l.var] <= Len(trail_lim) BY <6>3 DEF LevelsCut
            <6> QED BY <3>1, <6>2, <6>4, AsgDomains
          <5>3. Settled(i) BY <1>0, <5>1, <5>2 DEF Settled
          <5> QED BY <3>1, <5>1, <5>3 DEF Settled, asg, LitTrue
        <4> QED BY <2>9, <4>1, <4>2
      <3>4. \A i \in 1 .. Len(clauses) : i < seed + 1 => Settled(i)'
        BY <1>0, <3>1, <3>2, <3>3
      <3> QED BY <1>0, <3>1, <3>4 DEF UnitsSettled, Settled
    <2> QED BY <2>4, <2>6, <2>7, <2>8, <2>9
  <1>5. CASE pc \notin {"seed", "done"}
    <2>1. \A i \in 1 .. Len(clauses) : Settled(i) BY <1>0, <1>5 DEF UnitsSettled, Settled
    <2> SUFFICES ASSUME NEW j \in 1 .. Len(clauses') PROVE Settled(j)'
      BY <1>a DEF UnitsSettled, Settled
    <2>2. CASE SameStore
      BY <1>2, <2>1, <2>2 DEF SameStore
    <2>3. CASE Store(lemma, lemma_lbd) /\ pc = "add" /\ Forced(lemma[1], Len(clauses) + 1)
      <3>1. lemma \in Seq(Lit) BY DEF LemTypes
      <3>2. /\ Len(clauses') = Len(clauses) + 1 /\ clauses'[Len(clauses) + 1] = lemma
            /\ \A i \in 1 .. Len(clauses) : clauses'[i] = clauses[i]
        BY <2>3, <3>1, AppendProperties DEF Store, DbTypes
      <3>3. CASE j \in 1 .. Len(clauses) BY <1>2, <2>1, <3>2, <3>3
      <3>4. CASE j = Len(clauses) + 1
        <4> DEFINE l == lemma[1]
        <4>1. l \in Lit /\ Len(lemma) >= 1 /\ (Len(lemma) = 1 => Len(trail_lim) = 0)
          BY <2>3, <3>1, ElementOfSeq, LenProperties DEF LemmaRight, DecisionLevel
        <4>2. Len(clauses) + 1 \in Nat BY <1>0
        <4> HIDE DEF l
        <4>3. assign'[l.var] = l.val /\ level'[l.var] = Len(trail_lim)
          BY <2>3, <4>1, <4>2, ForcedKeeps DEF l
        <4>4. clauses'[j] = lemma /\ clauses'[j][1] = l BY <3>2, <3>4 DEF l
        <4> QED BY <4>1, <4>3, <4>4 DEF Settled, LitTrue
      <3> QED BY <1>0, <3>2, <3>3, <3>4
    <2>4. CASE ReduceDb
      <3>1. PICK N, kept : N \in Nat /\ Renumbers(N, kept) BY <2>4, ReduceEffect
      <3>2. /\ kept[j] \in 1 .. Len(clauses) /\ Lits(clauses'[j]) = Lits(clauses[kept[j]])
            /\ Len(clauses'[j]) = Len(clauses[kept[j]])
        BY <3>1 DEF Renumbers
      <3> QED BY <1>2, <2>1, <3>2
    <2>5. CASE UNCHANGED db BY <1>2, <2>1, <2>5 DEF db
    <2>6. AnyEffect BY Effects
    <2> QED BY <2>2, <2>3, <2>4, <2>5, <2>6 DEF AnyEffect
  <1> QED BY <1>3, <1>4, <1>5

LEMMA InputNext ==
    ASSUME IInv, [Next]_vars
    PROVE  InputKept'
  <1> USE DEF IInv, TrailInv, TypeOK
  <1>0. /\ formula' = formula /\ AnyEffect /\ DOMAIN clauses = 1 .. Len(clauses)
        /\ Len(clauses) \in Nat
    BY Effects, DbDomains
  <1>a. DOMAIN clauses' = 1 .. Len(clauses') BY DbTypesNext, LenProperties DEF DbTypes
  <1>1. CASE SameStore BY <1>0, <1>1, <1>a DEF SameStore, InputKept
  <1>2. CASE Store(lemma, lemma_lbd)
    <2>1. lemma \in Seq(Lit) /\ lemma_lbd \in Nat BY DEF LemTypes
    <2>2. Len(clauses') = Len(clauses) + 1
          /\ \A i \in 1 .. Len(clauses) : clauses'[i] = clauses[i] /\ lbd'[i] = lbd[i]
      BY <1>2, <2>1, AppendProperties DEF Store, DbTypes
    <2>3. 1 .. Len(clauses) \subseteq DOMAIN clauses' BY <1>0, <1>a, <2>2
    <2> SUFFICES ASSUME NEW i \in DOMAIN formula
                 PROVE  \E j \in DOMAIN clauses' :
                          /\ lbd'[j] = 0 /\ Len(clauses'[j]) = Len(formula[i])
                          /\ Lits(clauses'[j]) = Lits(formula[i])
      BY <1>0 DEF InputKept
    <2>4. PICK j \in 1 .. Len(clauses) :
             /\ lbd[j] = 0 /\ Len(clauses[j]) = Len(formula[i]) /\ Lits(clauses[j]) = Lits(formula[i])
      BY <1>0 DEF InputKept
    <2>5. clauses'[j] = clauses[j] /\ lbd'[j] = lbd[j] /\ j \in DOMAIN clauses' BY <2>2, <2>3
    <2> QED BY <2>4, <2>5
  <1>3. CASE UNCHANGED db BY <1>0, <1>3 DEF db, InputKept
  <1>4. CASE ReduceDb
    <2>1. PICK N, kept : N \in Nat /\ Renumbers(N, kept) BY <1>4, ReduceEffect
    <2>2. DOMAIN clauses' = 1 .. N BY <1>a, <2>1 DEF Renumbers
    <2> SUFFICES ASSUME NEW i \in DOMAIN formula
                 PROVE  \E n \in 1 .. N : /\ lbd'[n] = 0 /\ Len(clauses'[n]) = Len(formula[i])
                                          /\ Lits(clauses'[n]) = Lits(formula[i])
      BY <1>0, <2>2 DEF InputKept
    <2>3. PICK j \in 1 .. Len(clauses) :
             /\ lbd[j] = 0 /\ Len(clauses[j]) = Len(formula[i]) /\ Lits(clauses[j]) = Lits(formula[i])
      BY <1>0 DEF InputKept
    <2>4. lbd[j] <= 2 BY <2>3
    <2>5. PICK n \in 1 .. N : kept[n] = j BY <2>1, <2>4 DEF Renumbers
    <2>6. /\ lbd'[n] = lbd[j] /\ Len(clauses'[n]) = Len(clauses[j])
          /\ Lits(clauses'[n]) = Lits(clauses[j])
      BY <2>1, <2>5 DEF Renumbers
    <2> QED BY <2>3, <2>6
  <1> QED BY <1>0, <1>1, <1>2, <1>3, <1>4 DEF AnyEffect

-----------------------------------------------------------------------------
(* The two-watched invariant. *)

LEMMA WatchedIs ==
    ASSUME NEW i, WatchedAt(i), Len(clauses[i]) >= 2
    PROVE  /\ LitFalse(clauses[i][1]) =>
                \/ /\ LitTrue(clauses[i][2])
                   /\ level[clauses[i][2].var] <= level[clauses[i][1].var]
                \/ Pending(i, clauses[i][1])
           /\ LitFalse(clauses[i][2]) =>
                \/ /\ LitTrue(clauses[i][1])
                   /\ level[clauses[i][1].var] <= level[clauses[i][2].var]
                \/ Pending(i, clauses[i][2])
  <1>1. 3 - 1 = 2 /\ 3 - 2 = 1 OBVIOUS
  <1> QED BY <1>1 DEF WatchedAt

(* To keep a clause watched it is enough that its literals stay what they are or
   become pending, and that what is pending stays so. *)
LEMMA StaysWatched ==
    ASSUME DbTypes, NEW i \in 1 .. Len(clauses), WatchedAt(i), clauses'[i] = clauses[i],
           ASSUME NEW m \in Lit, LitFalse(m)'
           PROVE  (LitFalse(m) /\ level'[m.var] = level[m.var]) \/ Pending(i, m)',
           ASSUME NEW m \in Lit, NEW w \in Lit, LitTrue(m), LitFalse(w)', ~Pending(i, w)',
                  level[m.var] <= level[w.var]
           PROVE  LitTrue(m)' /\ level'[m.var] = level[m.var],
           ASSUME NEW m \in Lit, LitFalse(m), LitFalse(m)', Pending(i, m), WatchCount(clauses[i], m) > 0
           PROVE  Pending(i, m)'
    PROVE  WatchedAt(i)'
  <1> SUFFICES ASSUME Len(clauses[i]) >= 2, NEW k \in {1, 2}, LitFalse(clauses[i][k])'
               PROVE  \/ /\ LitTrue(clauses[i][3 - k])'
                         /\ level'[clauses'[i][3 - k].var] <= level'[clauses'[i][k].var]
                      \/ Pending(i, clauses[i][k])'
    BY DEF WatchedAt
  <1>0. k \in 1 .. Len(clauses[i]) /\ 3 - k \in 1 .. Len(clauses[i]) BY DbDomains
  <1>1. PICK w \in Lit : w = clauses[i][k] /\ w = clauses'[i][k] BY <1>0, DbDomains
  <1>2. PICK o \in Lit : o = clauses[i][3 - k] /\ o = clauses'[i][3 - k] BY <1>0, DbDomains
  <1>3. LitFalse(w)' BY <1>1 DEF LitFalse
  <1> SUFFICES ASSUME ~Pending(i, w)'
               PROVE  LitTrue(o)' /\ level'[o.var] <= level'[w.var]
    BY <1>1, <1>2 DEF LitTrue, Pending
  <1>4. LitFalse(w) /\ level'[w.var] = level[w.var] BY <1>3
  <1>5. WatchCount(clauses[i], w) > 0 BY <1>1 DEF WatchCount
  <1>6. ~Pending(i, w) BY <1>3, <1>4, <1>5
  <1>7. LitTrue(o) /\ level[o.var] <= level[w.var]
    BY <1>1, <1>2, <1>4, <1>6 DEF WatchedAt
  <1> QED BY <1>3, <1>4, <1>7

(* What is pending is false on the current level. *)
LEMMA PendingLevel ==
    ASSUME IInv, NEW i, NEW m \in Lit, Pending(i, m)
    PROVE  level[m.var] = Len(trail_lim) /\ (pc \in Quiet => FALSE)
  <1> USE DEF IInv, TrailInv
  <1>1. CASE pc \in Settling BY <1>1 DEF Pending, DecisionLevel, Settling, Quiet
  <1>2. CASE pc \notin Settling
    <2>1. CASE \E k \in DOMAIN prop_queue : prop_queue[k] = m.var
      BY <2>1 DEF QueueCurrent, DecisionLevel
    <2>2. CASE pc = "visit" /\ m = false_lit BY <2>2 DEF QueueCurrent, DecisionLevel, Quiet
    <2> QED BY <1>2, <2>1, <2>2 DEF Pending
  <1> QED BY <1>1, <1>2

(* Three ways a step leaves an untouched clause watched. *)
LEMMA SameAsgWatched ==
    ASSUME IInv, NEW i \in 1 .. Len(clauses), clauses'[i] = clauses[i],
           UNCHANGED <<assign, level>>,
           ASSUME NEW m \in Lit, LitFalse(m), Pending(i, m), WatchCount(clauses[i], m) > 0
           PROVE  Pending(i, m)'
    PROVE  WatchedAt(i)'
  <1> USE DEF IInv, TrailInv, TypeOK
  <1>1. WatchedAt(i) BY DbDomains DEF Watched
  <1>2. \A m \in Lit : /\ (LitFalse(m)' <=> LitFalse(m))
                       /\ (LitTrue(m)' <=> LitTrue(m))
                       /\ level'[m.var] = level[m.var]
    BY DEF LitFalse, LitTrue
  <1> QED BY <1>1, <1>2, StaysWatched

LEMMA EnqueuedWatched ==
    ASSUME IInv, NEW l \in Lit, LitFree(l), NEW r \in Nat, NEW d \in Nat, Enqueue(l, r, d),
           trail_lim' \in Seq(Nat), NEW i \in 1 .. Len(clauses), clauses'[i] = clauses[i],
           pc \notin Settling, pc' \notin Settling,
           pc = "visit" => pc' = "visit" /\ false_lit' = false_lit /\ todo'[i] = todo[i]
    PROVE  WatchedAt(i)'
  <1> USE DEF IInv, TrailInv, TypeOK
  <1>1. WatchedAt(i) BY DbDomains DEF Watched
  <1>2. /\ \A v \in Vars : assign'[v] = (IF v = l.var THEN l.val ELSE assign[v])
                           /\ level'[v] = (IF v = l.var THEN d ELSE level[v])
        /\ \A m \in Lit : LitTrue(m) => LitTrue(m)' /\ level'[m.var] = level[m.var]
    BY EnqueueTypes, EnqueueKeeps
  <1>3. /\ DOMAIN prop_queue' = 1 .. Len(prop_queue) + 1
        /\ \A k \in 1 .. Len(prop_queue) : prop_queue'[k] = prop_queue[k]
        /\ prop_queue'[Len(prop_queue) + 1] = l.var
        /\ Len(prop_queue) \in Nat /\ DOMAIN prop_queue = 1 .. Len(prop_queue)
    BY EnqueueKeeps, AsgDomains
  <1>4. ASSUME NEW m \in Lit, LitFalse(m)'
        PROVE  (LitFalse(m) /\ level'[m.var] = level[m.var]) \/ Pending(i, m)'
    <2>1. m.var \in Vars BY LitTypes
    <2>2. CASE m.var = l.var
      <3>1. \E k \in DOMAIN prop_queue' : prop_queue'[k] = m.var BY <1>3, <2>2
      <3> QED BY <3>1 DEF Pending
    <2>3. CASE m.var # l.var BY <1>2, <1>4, <2>1, <2>3 DEF LitFalse
    <2> QED BY <2>2, <2>3
  <1>5. ASSUME NEW m \in Lit, Pending(i, m) PROVE Pending(i, m)'
    <2>1. CASE \E k \in DOMAIN prop_queue : prop_queue[k] = m.var
      <3>1. \E k \in DOMAIN prop_queue' : prop_queue'[k] = m.var BY <1>3, <2>1
      <3> QED BY <3>1 DEF Pending
    <2>2. CASE pc = "visit" /\ m = false_lit /\ todo[i] = WatchCount(clauses[i], m)
      BY <2>2 DEF Pending
    <2> QED BY <1>5, <2>1, <2>2 DEF Pending
  <1> QED BY <1>1, <1>2, <1>4, <1>5, StaysWatched

LEMMA UndoneWatched ==
    ASSUME IInv, NEW n \in Nat, n < Len(trail_lim), BacktrackTo(n),
           NEW i \in 1 .. Len(clauses), clauses'[i] = clauses[i]
    PROVE  WatchedAt(i)'
  <1> USE DEF IInv, TrailInv, TypeOK
  <1>1. WatchedAt(i) BY DbDomains DEF Watched
  <1>2. /\ \A v \in Vars : assign'[v] = IF assign[v] # "none" /\ level[v] <= n
                                        THEN assign[v] ELSE "none"
        /\ level' = level
    BY BacktrackTrail DEF Trail
  <1>3. Len(trail_lim) \in Nat /\ \A v \in Vars : level[v] \in Nat BY AsgDomains
  <1>4. ASSUME NEW m \in Lit, LitFalse(m)' PROVE LitFalse(m) /\ level[m.var] <= n
    <2>1. m.var \in Vars /\ Flip(m.val) # "none" BY LitTypes
    <2>2. assign'[m.var] # "none" BY <1>4, <2>1 DEF LitFalse
    <2> QED BY <1>2, <1>4, <2>1, <2>2 DEF LitFalse
  <1>5. ASSUME NEW m \in Lit, LitTrue(m), level[m.var] <= n PROVE LitTrue(m)'
    <2>1. m.var \in Vars /\ assign[m.var] # "none" BY <1>5, LitTypes, FalseAssigned
    <2> QED BY <1>2, <1>5, <2>1 DEF LitTrue
  <1>6. ASSUME NEW m \in Lit, LitFalse(m)', Pending(i, m) PROVE FALSE
    <2>1. level[m.var] = Len(trail_lim) /\ level[m.var] <= n BY <1>4, <1>6, PendingLevel
    <2> QED BY <1>3, <2>1
  <1>7. ASSUME NEW m \in Lit, NEW w \in Lit, LitTrue(m), LitFalse(w)', level[m.var] <= level[w.var]
        PROVE  LitTrue(m)'
    <2>1. level[w.var] <= n /\ level[w.var] \in Nat /\ level[m.var] \in Nat
      BY <1>3, <1>4, <1>7, LitTypes
    <2>2. level[m.var] <= n BY <1>7, <2>1
    <2> QED BY <1>5, <1>7, <2>2
  <1> QED BY <1>1, <1>2, <1>4, <1>6, <1>7, StaysWatched

(* The clause just visited. *)
LEMMA VisitedWatched ==
    ASSUME IInv, [Next]_vars, NEW i \in 1 .. Len(clauses),
           VisitSatisfied(i) \/ VisitMove(i) \/ VisitUnit(i) \/ VisitConflict(i)
    PROVE  WatchedAt(i)'
  <1> USE DEF IInv, TrailInv, TypeOK
  <1>0. DOMAIN clauses = 1 .. Len(clauses) /\ Len(clauses) \in Nat BY DbDomains
  <1>1. pc = "visit" /\ todo[i] > 0
    BY DEF VisitSatisfied, VisitMove, VisitUnit, VisitConflict, TakeEntry
  <1>2. PICK c : c = Normalised(clauses[i]) OBVIOUS
  <1>3. /\ Len(clauses[i]) >= 2 /\ c \in Seq(Lit) /\ Len(c) = Len(clauses[i])
        /\ c[2] = false_lit /\ c[1] \in Lit
        /\ \A l \in Lit : WatchCount(c, l) = WatchCount(clauses[i], l)
        /\ false_lit \in Lit /\ todo[i] \in Nat
        /\ \/ c = clauses[i]
           \/ clauses[i][1] = false_lit /\ c[1] = clauses[i][2]
    BY <1>1, <1>2, VisitClause
  <1>4. LitFalse(false_lit) /\ ~LitTrue(false_lit) /\ level[false_lit.var] = Len(trail_lim)
    BY <1>1, <1>3, FalseAssigned DEF QueueCurrent, DecisionLevel
  <1>5. LitFalse(c[1]) => Pending(i, c[1])
    <2>1. WatchedAt(i) BY <1>0 DEF Watched
    <2>2. CASE c = clauses[i] BY <1>3, <1>4, <2>1, <2>2, WatchedIs
    <2>3. CASE clauses[i][1] = false_lit /\ c[1] = clauses[i][2]
      BY <1>3, <1>4, <2>1, <2>3, WatchedIs
    <2> QED BY <1>3, <2>2, <2>3
  <1>6. /\ Len(trail_lim) \in Nat
        /\ \A m \in Lit : LitTrue(m) => level[m.var] \in Nat /\ level[m.var] <= Len(trail_lim)
    <2>1. Len(trail_lim) \in Nat BY AsgDomains
    <2> SUFFICES ASSUME NEW m \in Lit, LitTrue(m)
                 PROVE  level[m.var] \in Nat /\ level[m.var] <= Len(trail_lim)
      BY <2>1
    <2>2. m.var \in Vars /\ assign[m.var] # "none" BY LitTypes, FalseAssigned
    <2>3. PICK p \in DOMAIN trail : trail[p] = m.var BY <2>2 DEF TrailExact
    <2> QED BY <2>2, <2>3, AsgDomains DEF LevelsCut
  (* Enough: the two watches of the new clause, one by one. *)
  <1>7. ASSUME NEW a \in Lit, NEW b \in Lit, clauses'[i][1] = a, clauses'[i][2] = b,
               LitFalse(a)' => (LitTrue(b)' /\ level'[b.var] <= level'[a.var]) \/ Pending(i, a)',
               LitFalse(b)' => (LitTrue(a)' /\ level'[a.var] <= level'[b.var]) \/ Pending(i, b)'
        PROVE  WatchedAt(i)'
    <2>1. 3 - 1 = 2 /\ 3 - 2 = 1 OBVIOUS
    <2>2. /\ LitFalse(clauses[i][1])' => LitFalse(a)'
          /\ LitFalse(clauses[i][2])' => LitFalse(b)'
          /\ LitTrue(b)' => LitTrue(clauses[i][2])'
          /\ LitTrue(a)' => LitTrue(clauses[i][1])'
          /\ Pending(i, a)' => Pending(i, clauses[i][1])'
          /\ Pending(i, b)' => Pending(i, clauses[i][2])'
      BY <1>7 DEF LitFalse, LitTrue, Pending
    <2> QED BY <1>7, <2>1, <2>2 DEF WatchedAt
  <1>8. PICK a \in Lit, fl \in Lit : a = c[1] /\ fl = false_lit BY <1>3
  <1>9. CASE VisitSatisfied(i)
    <2>1. clauses' = [clauses EXCEPT ![i] = c] /\ LitTrue(c[1]) /\ UNCHANGED <<assign, level>>
      BY <1>2, <1>9 DEF VisitSatisfied, asg
    <2>2. clauses'[i] = c BY <1>0, <2>1
    <2>3. clauses'[i][1] = a /\ clauses'[i][2] = fl BY <1>3, <1>8, <2>2
    <2>4. LitTrue(a)' /\ level'[a.var] <= level'[fl.var]
      BY <1>4, <1>6, <1>8, <2>1 DEF LitTrue
    <2>5. ~LitFalse(a)'
      <3>1. ~LitFalse(a) BY <1>8, <2>1, FalseAssigned
      <3> QED BY <2>1, <3>1 DEF LitFalse
    <2> QED BY <1>7, <2>3, <2>4, <2>5
  <1>10. CASE VisitUnit(i)
    <2>1. /\ clauses' = [clauses EXCEPT ![i] = c] /\ LitFree(a)
          /\ Enqueue(a, i, Len(trail_lim)) /\ UNCHANGED trail_lim
      BY <1>2, <1>8, <1>10 DEF VisitUnit, DecisionLevel
    <2>2. clauses'[i] = c BY <1>0, <2>1
    <2>3. clauses'[i][1] = a /\ clauses'[i][2] = fl BY <1>3, <1>8, <2>2
    <2>4. i \in Nat /\ trail_lim' \in Seq(Nat) BY <1>0, <2>1 DEF AsgTypes
    <2>5. /\ assign'[a.var] = a.val /\ level'[a.var] = Len(trail_lim)
          /\ LitFalse(fl) => level'[fl.var] = level[fl.var]
      BY <1>6, <2>1, <2>4, EnqueueKeeps
    <2>6. LitTrue(a)' /\ level'[a.var] <= level'[fl.var]
      BY <1>4, <1>6, <1>8, <2>5 DEF LitTrue
    <2>7. ~LitFalse(a)' BY <2>5, LitTypes DEF LitFalse
    <2> QED BY <1>7, <2>3, <2>6, <2>7
  <1>11. CASE VisitConflict(i)
    <2>1. /\ clauses' = [clauses EXCEPT ![i] = c] /\ LitFalse(a) /\ pc' = "conflict"
          /\ UNCHANGED <<assign, level, trail_lim>>
      BY <1>2, <1>8, <1>11 DEF VisitConflict, asg
    <2>2. clauses'[i] = c BY <1>0, <2>1
    <2>3. clauses'[i][1] = a /\ clauses'[i][2] = fl BY <1>3, <1>8, <2>2
    <2>4. level[a.var] = Len(trail_lim) BY <1>5, <1>8, <2>1, PendingLevel
    <2>5. Pending(i, a)' /\ Pending(i, fl)'
      BY <1>4, <1>8, <2>1, <2>4 DEF Pending, Settling, DecisionLevel
    <2> QED BY <1>7, <2>3, <2>5
  <1>12. CASE VisitMove(i)
    <2>1. PICK k \in Replacements(c) : clauses' = [clauses EXCEPT ![i] = Swap(c, 2, k)]
      BY <1>2, <1>12 DEF VisitMove
    <2>2. /\ UNCHANGED <<assign, level, trail_lim, prop_queue, false_lit, pc>>
          /\ todo' = [todo EXCEPT ![i] = @ - 1]
      BY <1>12 DEF VisitMove, TakeEntry, asg
    <2>3. k \in 3 .. Len(c) /\ ~LitFalse(c[k]) /\ Len(c) \in Nat
      BY <1>3, <2>1, LenProperties DEF Replacements
    <2>4. k \in 1 .. Len(c) /\ 2 \in 1 .. Len(c) /\ 1 \in 1 .. Len(c) BY <2>3
    <2>5. PICK b \in Lit : b = c[k] BY <1>3, <2>4, ElementOfSeq
    <2>6. /\ \A m \in 1 .. Len(c) :
               Swap(c, 2, k)[m] = IF m = k THEN c[2] ELSE IF m = 2 THEN c[k] ELSE c[m]
          /\ Len(Swap(c, 2, k)) = Len(c)
      <3>1. c \in Seq(Lit) BY <1>3
      <3>2. 2 \in 1 .. Len(c) /\ k \in 1 .. Len(c) BY <2>4
      <3>3. SUFFICES ASSUME NEW m \in 1 .. Len(c)
                     PROVE  /\ Swap(c, 2, k)[m] = IF m = k THEN c[2]
                                                  ELSE IF m = 2 THEN c[k] ELSE c[m]
                            /\ Len(Swap(c, 2, k)) = Len(c)
        BY <3>2
      <3> QED BY <3>1, <3>2, <3>3, SwapLits
    <2>7. clauses'[i] = Swap(c, 2, k) BY <1>0, <2>1
    <2>8. clauses'[i][1] = a /\ clauses'[i][2] = b BY <1>8, <2>3, <2>4, <2>5, <2>6, <2>7
    <2>9. ~LitFalse(b)' /\ b # fl
      BY <1>4, <1>8, <2>2, <2>3, <2>5 DEF LitFalse
    <2>10. ASSUME LitFalse(a)' PROVE Pending(i, a)'
      <3>1. Pending(i, a) BY <1>5, <1>8, <2>2, <2>10 DEF LitFalse
      <3>2. CASE \E q \in DOMAIN prop_queue : prop_queue[q] = a.var
        BY <1>1, <2>2, <3>2 DEF Pending, Settling
      <3>3. CASE a = fl /\ todo[i] = WatchCount(clauses[i], a)
        <4>1. WatchCount(clauses[i], a) = WatchCount(c, a) BY <1>3
        <4>2. WatchCount(c, a) = 2 BY <1>3, <1>8, <3>3 DEF WatchCount
        <4>3. WatchCount(clauses'[i], a) = 1
          <5>1. Len(clauses'[i]) >= 2 BY <1>3, <2>6, <2>7
          <5> QED BY <2>8, <2>9, <3>3, <5>1 DEF WatchCount
        <4>4. todo'[i] = 1
          <5>1. i \in DOMAIN todo BY <1>1, LenProperties DEF PropTypes
          <5> QED BY <2>2, <3>3, <4>1, <4>2, <5>1
        <4> QED BY <1>1, <1>8, <2>2, <3>3, <4>3, <4>4 DEF Pending, Settling
      <3> QED BY <1>1, <1>8, <3>1, <3>2, <3>3 DEF Pending, Settling
    <2> QED BY <1>7, <2>8, <2>9, <2>10
  <1> QED BY <1>9, <1>10, <1>11, <1>12

(* Steps that leave the clauses and the values of the variables alone. *)
LEMMA QuietWatched ==
    ASSUME IInv, UNCHANGED <<clauses, assign, level, trail_lim>>,
           \/ pc' \in Settling
           \/ /\ pc' \notin Settling /\ pc \notin Settling /\ UNCHANGED prop_queue
              /\ pc = "visit" => \A i \in DOMAIN todo : todo[i] = 0
    PROVE  Watched'
  <1> USE DEF IInv, TrailInv, TypeOK
  <1>1. DOMAIN clauses = 1 .. Len(clauses) BY DbDomains
  <1>2. SUFFICES ASSUME NEW i \in 1 .. Len(clauses) PROVE WatchedAt(i)'
    BY <1>1 DEF Watched
  <1>3. ASSUME NEW m \in Lit, LitFalse(m), Pending(i, m), WatchCount(clauses[i], m) > 0
        PROVE  Pending(i, m)'
    <2>1. CASE pc' \in Settling
      <3>1. level[m.var] = Len(trail_lim) BY <1>3, PendingLevel
      <3> QED BY <2>1, <3>1 DEF Pending, DecisionLevel
    <2>2. CASE /\ pc' \notin Settling /\ pc \notin Settling /\ UNCHANGED prop_queue
               /\ pc = "visit" => \A j \in DOMAIN todo : todo[j] = 0
      <3>1. pc = "visit" => i \in DOMAIN todo BY LenProperties DEF PropTypes
      <3>2. ~(pc = "visit" /\ todo[i] = WatchCount(clauses[i], m)) BY <1>3, <2>2, <3>1
      <3> QED BY <1>3, <2>2, <3>2 DEF Pending
    <2> QED BY <2>1, <2>2
  <1>4. clauses'[i] = clauses[i] /\ UNCHANGED <<assign, level>> OBVIOUS
  <1> QED BY <1>3, <1>4, SameAsgWatched

LEMMA PoppedWatched ==
    ASSUME IInv, PropagatePop
    PROVE  Watched'
  <1> USE DEF IInv, TrailInv, TypeOK
  <1>1. /\ DOMAIN clauses = 1 .. Len(clauses)
        /\ UNCHANGED <<clauses, assign, level>> /\ pc' = "visit" /\ pc = "propagate"
        /\ prop_queue' = SubSeq(prop_queue, 1, Len(prop_queue) - 1)
    BY DbDomains DEF PropagatePop, Popped
  <1>2. SUFFICES ASSUME NEW i \in 1 .. Len(clauses) PROVE WatchedAt(i)'
    BY <1>1 DEF Watched
  <1>3. PICK n \in Nat : n = Len(prop_queue) BY LenProperties DEF AsgTypes
  <1>4. /\ n \in 1 .. n /\ DOMAIN prop_queue = 1 .. n
        /\ prop_queue[n] \in Vars /\ false_lit' = FalseLit(prop_queue[n])
        /\ todo'[i] = watches[i][false_lit'] /\ false_lit' \in Lit
    <2>1. prop_queue \in Seq(Vars) /\ DOMAIN prop_queue = 1 .. n
      BY <1>3, LenProperties DEF AsgTypes
    <2>2. /\ n \in 1 .. n /\ prop_queue[n] \in Vars
          /\ false_lit' = FalseLit(prop_queue[n]) /\ false_lit' \in Lit
      BY <1>3, <2>1, PopLists
    <2>3. todo'[i] = watches[i][false_lit'] BY PopLists
    <2> QED BY <2>1, <2>2, <2>3
  <1>5. todo'[i] = WatchCount(clauses[i], false_lit')
    <2>1. pc # "visit" BY <1>1
    <2> QED BY <1>4, <2>1, ListsComplete
  <1>6. \A k \in 1 .. n - 1 : k \in DOMAIN prop_queue' /\ prop_queue'[k] = prop_queue[k]
    BY <1>1, <1>3, <1>4 DEF AsgTypes
  <1>7. ASSUME NEW m \in Lit, LitFalse(m), Pending(i, m), WatchCount(clauses[i], m) > 0
        PROVE  Pending(i, m)'
    <2>1. PICK k \in 1 .. n : prop_queue[k] = m.var
      BY <1>1, <1>4, <1>7 DEF Pending, Settling
    <2>2. CASE k < n
      <3>1. k \in DOMAIN prop_queue' /\ prop_queue'[k] = m.var BY <1>3, <1>6, <2>1, <2>2
      <3> QED BY <1>1, <3>1 DEF Pending, Settling
    <2>3. CASE k = n
      <3>1. m = false_lit' BY <1>4, <1>7, <2>1, <2>3, FalseAssigned
      <3> QED BY <1>1, <1>5, <3>1 DEF Pending, Settling
    <2> QED BY <1>3, <2>2, <2>3
  <1>8. clauses'[i] = clauses[i] /\ UNCHANGED <<assign, level>> BY <1>1
  <1> QED BY <1>7, <1>8, SameAsgWatched

LEMMA VisitWatched ==
    ASSUME IInv, [Next]_vars, Visit
    PROVE  Watched'
  <1> USE DEF IInv, TrailInv, TypeOK
  <1>1. DOMAIN clauses = 1 .. Len(clauses) /\ Len(clauses) \in Nat BY DbDomains
  <1>2. PICK i \in 1 .. Len(clauses) :
             VisitSatisfied(i) \/ VisitMove(i) \/ VisitUnit(i) \/ VisitConflict(i)
    BY <1>1 DEF Visit
  <1>3. pc = "visit" BY <1>2 DEF VisitSatisfied, VisitMove, VisitUnit, VisitConflict, TakeEntry
  <1>4. DOMAIN clauses' = DOMAIN clauses
    BY <1>2 DEF VisitSatisfied, VisitMove, VisitUnit, VisitConflict
  <1>5. SUFFICES ASSUME NEW j \in 1 .. Len(clauses), j # i PROVE WatchedAt(j)'
    BY <1>1, <1>2, <1>4, VisitedWatched DEF Watched
  <1>6. clauses'[j] = clauses[j]
    BY <1>1, <1>2, <1>5 DEF VisitSatisfied, VisitMove, VisitUnit, VisitConflict
  <1>7. CASE VisitSatisfied(i) \/ VisitMove(i)
    <2>1. /\ UNCHANGED <<assign, level, trail_lim, prop_queue, false_lit, pc>>
          /\ todo' = [todo EXCEPT ![i] = @ - 1]
      BY <1>7 DEF VisitSatisfied, VisitMove, TakeEntry, asg
    <2>2. todo'[j] = todo[j]
      <3>1. j \in DOMAIN todo BY <1>3, LenProperties DEF PropTypes
      <3> QED BY <1>5, <2>1, <3>1
    <2>3. ASSUME NEW m \in Lit, LitFalse(m), Pending(j, m), WatchCount(clauses[j], m) > 0
          PROVE  Pending(j, m)'
      BY <1>3, <1>6, <2>1, <2>2, <2>3 DEF Pending, Settling
    <2> QED BY <1>6, <2>1, <2>3, SameAsgWatched
  <1>8. CASE VisitConflict(i)
    <2>1. UNCHANGED <<assign, level, trail_lim>> /\ pc' = "conflict"
      BY <1>8 DEF VisitConflict, asg
    <2>2. ASSUME NEW m \in Lit, LitFalse(m), Pending(j, m), WatchCount(clauses[j], m) > 0
          PROVE  Pending(j, m)'
      <3>1. level[m.var] = Len(trail_lim) BY <2>2, PendingLevel
      <3> QED BY <2>1, <3>1 DEF Pending, Settling, DecisionLevel
    <2> QED BY <1>6, <2>1, <2>2, SameAsgWatched
  <1>9. CASE VisitUnit(i)
    <2>1. PICK c : c = Normalised(clauses[i]) OBVIOUS
    <2>2. /\ LitFree(c[1]) /\ Enqueue(c[1], i, Len(trail_lim))
          /\ todo' = [todo EXCEPT ![i] = @ - 1] /\ todo[i] > 0
          /\ UNCHANGED <<trail_lim, false_lit, pc>>
      BY <1>9, <2>1 DEF VisitUnit, TakeEntry, DecisionLevel
    <2>3. c[1] \in Lit BY <1>3, <2>1, <2>2, VisitClause
    <2>4. todo'[j] = todo[j]
      <3>1. j \in DOMAIN todo BY <1>3, LenProperties DEF PropTypes
      <3> QED BY <1>5, <2>2, <3>1
    <2>5. Len(trail_lim) \in Nat /\ trail_lim' \in Seq(Nat) /\ i \in Nat
      BY <1>1, <2>2, AsgDomains DEF AsgTypes
    <2>6. pc \notin Settling /\ pc' \notin Settling BY <1>3, <2>2 DEF Settling
    <2>7. pc = "visit" => pc' = "visit" /\ false_lit' = false_lit /\ todo'[j] = todo[j]
      BY <2>2, <2>4
    <2> QED BY <1>6, <2>2, <2>3, <2>5, <2>6, <2>7, EnqueuedWatched
  <1> QED BY <1>2, <1>7, <1>8, <1>9

(* The lemma is watched by the literal it asserts and one of the level jumped to. *)
LEMMA LearntWatched ==
    ASSUME IInv, [Next]_vars, AddLearnt
    PROVE  Watched'
  <1> USE DEF IInv, TrailInv, TypeOK
  <1>1. PICK n \in Nat : n = Len(clauses) BY DbDomains
  <1>2. /\ pc = "add" /\ pc' = "propagate" /\ LitFree(lemma[1])
        /\ Enqueue(lemma[1], n + 1, Len(trail_lim)) /\ UNCHANGED trail_lim
        /\ clauses' = Append(clauses, lemma)
    BY <1>1 DEF AddLearnt, LemmaRight, Store, DecisionLevel
  <1>3. /\ DOMAIN clauses' = 1 .. n + 1 /\ clauses'[n + 1] = lemma
        /\ \A i \in 1 .. n : clauses'[i] = clauses[i]
    BY <1>1, <1>2 DEF DbTypes, LemTypes
  <1>4. /\ Len(lemma) \in Nat /\ Len(lemma) >= 1
        /\ \A k \in 1 .. Len(lemma) : lemma[k] \in Lit
    BY <1>2, LenProperties, ElementOfSeq DEF LemTypes, LemmaRight
  <1>5. PICK l \in Lit : l = lemma[1] BY <1>4
  <1>6. /\ LitFree(l) /\ Enqueue(l, n + 1, Len(trail_lim)) /\ n + 1 \in Nat
        /\ Len(trail_lim) \in Nat /\ trail_lim' \in Seq(Nat)
    BY <1>1, <1>2, <1>5, AsgDomains DEF AsgTypes
  <1>7. ASSUME NEW i \in 1 .. n PROVE WatchedAt(i)'
    <2>1. pc \notin Settling /\ pc' \notin Settling /\ pc # "visit" BY <1>2 DEF Settling
    <2>2. i \in 1 .. Len(clauses) /\ clauses'[i] = clauses[i] BY <1>1, <1>3, <1>7
    <2> QED BY <1>6, <2>1, <2>2, EnqueuedWatched
  <1>8. ASSUME Len(lemma) >= 2 PROVE WatchedAt(n + 1)'
    <2>1. PICK m \in Lit : m = lemma[2] BY <1>4, <1>8
    <2>2. LitFalse(m) /\ level[m.var] = Len(trail_lim)
      <3>1. 2 \in 2 .. Len(lemma) BY <1>4, <1>8
      <3> QED BY <1>2, <1>8, <2>1, <3>1 DEF LemmaRight, DecisionLevel
    <2>3. LitTrue(l)' /\ level'[l.var] = Len(trail_lim)
      BY <1>6, EnqueueKeeps DEF LitTrue
    <2>4. LitFalse(m)' /\ level'[m.var] = Len(trail_lim)
      BY <1>6, <2>2, EnqueueKeeps
    <2>5. ~LitFalse(l)' BY <2>3, LitTypes DEF LitTrue, LitFalse
    <2>6. clauses'[n + 1][1] = l /\ clauses'[n + 1][2] = m BY <1>3, <1>5, <2>1
    <2>7. SUFFICES ASSUME NEW k \in {1, 2}, LitFalse(clauses[n + 1][k])'
                   PROVE  /\ LitTrue(clauses[n + 1][3 - k])'
                          /\ level'[clauses'[n + 1][3 - k].var] <= level'[clauses'[n + 1][k].var]
      BY DEF WatchedAt
    <2>8. k = 2 BY <2>5, <2>6, <2>7 DEF LitFalse
    <2>9. /\ clauses'[n + 1][3 - k] = l /\ clauses'[n + 1][k] = m BY <2>6, <2>8
    <2>10. LitTrue(clauses[n + 1][3 - k])' BY <2>3, <2>9 DEF LitTrue
    <2>11. level'[l.var] <= level'[m.var] BY <1>6, <2>3, <2>4
    <2> QED BY <2>9, <2>10, <2>11
  <1>9. Len(lemma) < 2 => WatchedAt(n + 1)' BY <1>3, <1>4 DEF WatchedAt
  <1> QED BY <1>1, <1>3, <1>4, <1>7, <1>8, <1>9 DEF Watched

(* At level 0 a false watch is paired with a true one whatever their order, so
   reorder_watches leaves every clause watched. *)
LEMMA ReducedWatched ==
    ASSUME IInv, ReduceDb
    PROVE  Watched'
  <1> USE DEF IInv, TrailInv, TypeOK
  <1>1. PICK N, kept : N \in Nat /\ Renumbers(N, kept) BY ReduceEffect
  <1>2. pc = "reduce" /\ UNCHANGED <<assign, level>> BY DEF ReduceDb
  <1>3. \A m \in Lit : LitTrue(m) \/ LitFalse(m) => level[m.var] = 0
    <2> SUFFICES ASSUME NEW m \in Lit, LitTrue(m) \/ LitFalse(m) PROVE level[m.var] = 0
      OBVIOUS
    <2>1. m.var \in Vars /\ assign[m.var] # "none" BY LitTypes, FalseAssigned
    <2>2. PICK p \in DOMAIN trail : trail[p] = m.var BY <2>1 DEF TrailExact
    <2>3. Len(trail_lim) = 0 BY <1>2 DEF ControlOK
    <2> QED BY <2>1, <2>2, <2>3, AsgDomains DEF LevelsCut
  <1>4. DOMAIN clauses' = 1 .. N /\ \A n \in 1 .. N :
           kept[n] \in 1 .. Len(clauses) /\ clauses'[n] = Reordered(clauses[kept[n]])
    BY <1>1 DEF Renumbers
  <1>5. SUFFICES ASSUME NEW n \in 1 .. N PROVE WatchedAt(n)'
    BY <1>4 DEF Watched
  <1>6. PICK i \in 1 .. Len(clauses) : i = kept[n] BY <1>4
  <1>7. PICK c \in Seq(Lit) : c = clauses[i] BY DbDomains
  <1>8. PICK d : d = Reordered(c) OBVIOUS
  <1>9. d \in Seq(Lit) /\ Len(d) = Len(c) BY <1>8, ReorderedIs
  <1>10. clauses'[n] = d BY <1>4, <1>6, <1>7, <1>8
  <1>11. SUFFICES ASSUME Len(c) >= 2 PROVE WatchedAt(n)'
    BY <1>9, <1>10 DEF WatchedAt
  <1>12. c[1] \in Lit /\ c[2] \in Lit /\ d[1] \in Lit /\ d[2] \in Lit
    <2>1. 1 \in 1 .. Len(c) /\ 2 \in 1 .. Len(c) /\ 1 \in 1 .. Len(d) /\ 2 \in 1 .. Len(d)
      BY <1>9, <1>11, LenProperties
    <2> QED BY <1>9, <2>1, ElementOfSeq
  <1>13. /\ LitFalse(c[1]) => LitTrue(c[2]) /\ ~LitFalse(c[2])
         /\ LitFalse(c[2]) => LitTrue(c[1]) /\ ~LitFalse(c[1])
    <2>1. WatchedAt(i) BY DbDomains DEF Watched
    <2>2. pc \in Quiet BY <1>2 DEF Quiet
    <2>3. ~Pending(i, c[1]) /\ ~Pending(i, c[2]) BY <1>12, <2>2, PendingLevel
    <2>4. /\ LitFalse(c[1]) => LitTrue(c[2])
          /\ LitFalse(c[2]) => LitTrue(c[1])
      BY <1>7, <1>11, <2>1, <2>3, WatchedIs
    <2> QED BY <1>12, <2>4, FalseAssigned
  <1>14. ~LitFalse(d[1]) /\ (LitFalse(d[2]) => LitTrue(d[1]))
    BY <1>8, <1>11, <1>13, ReorderedIs
  <1>15. SUFFICES ASSUME NEW k \in {1, 2}, LitFalse(clauses[n][k])'
                  PROVE  /\ LitTrue(clauses[n][3 - k])'
                         /\ level'[clauses'[n][3 - k].var] <= level'[clauses'[n][k].var]
    BY DEF WatchedAt
  <1>16. k = 2 BY <1>2, <1>10, <1>14, <1>15 DEF LitFalse
  <1>17. LitFalse(d[2]) BY <1>2, <1>10, <1>15, <1>16 DEF LitFalse
  <1>18. LitTrue(d[1]) BY <1>14, <1>17
  <1> QED BY <1>2, <1>3, <1>10, <1>12, <1>16, <1>17, <1>18 DEF LitTrue

(* Every step keeps the two-watched invariant. *)
LEMMA WatchedNext ==
    ASSUME IInv, [Next]_vars
    PROVE  Watched'
  <1> USE DEF IInv, TrailInv, TypeOK
  <1>1. DOMAIN clauses = 1 .. Len(clauses) /\ Len(clauses) \in Nat BY DbDomains
  <1>2. CASE SeedUnsat \/ ConflictUnsat \/ ConflictTimeout \/ AllAssigned \/ OutOfBudget
             \/ DecideTimeout
    <2>1. UNCHANGED <<clauses, assign, level, trail_lim>> /\ pc' \in Settling
      BY <1>2 DEF SeedUnsat, ConflictUnsat, ConflictTimeout, AllAssigned, OutOfBudget,
                  DecideTimeout, Return, asg, db, Settling
    <2> QED BY <2>1, QuietWatched
  <1>3. CASE BeginAnalyze \/ MarkClause \/ WalkTrail \/ FormLemma
    <2>1. UNCHANGED <<clauses, assign, level, trail_lim>> /\ pc' \in Settling
      BY <1>3 DEF BeginAnalyze, MarkClause, WalkTrail, FormLemma, asg, db, Settling
    <2> QED BY <2>1, QuietWatched
  <1>4. CASE SeedSkip \/ SeedDone \/ PropagateDone \/ NoRestart \/ ReduceNothing \/ VisitDone
    <2>1. /\ UNCHANGED <<clauses, assign, level, trail_lim, prop_queue>>
          /\ pc' \notin Settling /\ pc \notin Settling
          /\ pc = "visit" => \A i \in DOMAIN todo : todo[i] = 0
      BY <1>4 DEF SeedSkip, SeedDone, PropagateDone, NoRestart, ReduceNothing, VisitDone,
                  asg, db, Settling
    <2> QED BY <2>1, QuietWatched
  <1>5. CASE SeedUnit
    <2>1. PICK l \in Lit : l = clauses[seed][1]
      BY <1>1, <1>5, FirstLit DEF SeedUnit, ControlTypes
    <2>2. /\ LitFree(l) /\ Enqueue(l, seed, Len(trail_lim)) /\ UNCHANGED <<trail_lim, clauses>>
          /\ pc = "seed" /\ pc' = "seed"
      BY <1>5, <2>1 DEF SeedUnit, DecisionLevel, db
    <2>3. /\ seed \in Nat /\ Len(trail_lim) \in Nat /\ trail_lim' \in Seq(Nat)
          /\ pc \notin Settling /\ pc' \notin Settling /\ pc # "visit"
      BY <2>2, AsgDomains DEF ControlTypes, AsgTypes, Settling
    <2>4. ASSUME NEW i \in 1 .. Len(clauses) PROVE WatchedAt(i)'
      BY <2>2, <2>3, EnqueuedWatched
    <2> QED BY <1>1, <2>2, <2>4 DEF Watched
  <1>6. ASSUME NEW v \in Vars, Decide(v) PROVE Watched'
    <2>1. PICK l \in Lit : l = [var |-> v, val |-> "true"] BY LitTypes DEF Bool
    <2>2. /\ LitFree(l) /\ Enqueue(l, 0, Len(trail_lim) + 1) /\ UNCHANGED clauses
          /\ pc = "decide" /\ pc' = "propagate" /\ trail_lim' = Append(trail_lim, Len(trail))
      BY <1>6, <2>1 DEF Decide, DecisionLevel, db, LitFree
    <2>3. /\ 0 \in Nat /\ Len(trail_lim) + 1 \in Nat /\ trail_lim' \in Seq(Nat)
          /\ pc \notin Settling /\ pc' \notin Settling /\ pc # "visit"
      BY <2>2, AsgDomains DEF ControlTypes, AsgTypes, Settling
    <2>4. ASSUME NEW i \in 1 .. Len(clauses) PROVE WatchedAt(i)'
      BY <2>2, <2>3, EnqueuedWatched
    <2> QED BY <1>1, <2>2, <2>4 DEF Watched
  <1>7. CASE Backjump
    <2>1. BacktrackTo(btlevel) /\ btlevel \in Nat /\ btlevel < Len(trail_lim) /\ UNCHANGED clauses
      BY <1>7 DEF Backjump, LemmaRight, LemTypes, DecisionLevel, db
    <2>2. ASSUME NEW i \in 1 .. Len(clauses) PROVE WatchedAt(i)'
      BY <2>1, UndoneWatched
    <2> QED BY <1>1, <2>1, <2>2 DEF Watched
  <1>8. CASE Restart
    <2>1. BacktrackTo(0) /\ 0 \in Nat /\ 0 < Len(trail_lim) /\ UNCHANGED clauses
      BY <1>8 DEF Restart, RestartDue, DecisionLevel, db
    <2>2. ASSUME NEW i \in 1 .. Len(clauses) PROVE WatchedAt(i)'
      BY <2>1, UndoneWatched
    <2> QED BY <1>1, <2>1, <2>2 DEF Watched
  <1>9. CASE UNCHANGED vars \/ Done
    <2>1. UNCHANGED <<clauses, assign, level, prop_queue, pc, trail_lim, false_lit, todo>>
      BY <1>9 DEF Done, vars, db, asg, prop
    <2> QED BY <2>1 DEF Watched, WatchedAt, LitFalse, LitTrue, Pending, DecisionLevel
  <1> QED BY <1>2, <1>3, <1>4, <1>5, <1>6, <1>7, <1>8, <1>9, PoppedWatched, VisitWatched,
             LearntWatched, ReducedWatched DEF Next, Step

-----------------------------------------------------------------------------
(* Every stored clause, every level-0 assignment and every resolvent of analyze
   follows from the input. *)

(* The input never changes, so neither does what follows from it. *)
LEMMA EntailedSame ==
    ASSUME formula' = formula, NEW S
    PROVE  Entailed(S)' <=> Entailed(S)
  BY DEF Entailed, ModelOf

(* A larger clause follows too. *)
LEMMA EntailedWeaker ==
    ASSUME NEW S, NEW T, Entailed(S), S \subseteq T
    PROVE  Entailed(T)
  BY DEF Entailed

(* A model of the input makes an assignment of level 0. *)
LEMMA LevelZeroHolds ==
    ASSUME IInv, NEW M \in Assignments, ModelOf(M, formula), NEW m \in Lit, LitFalse(m),
           level[m.var] = 0
    PROVE  ~Holds(m, M)
  <1> USE DEF IInv, TrailInv, TypeOK
  <1>1. m.var \in Vars /\ assign[m.var] # "none" /\ assign[m.var] = Flip(m.val)
    BY LitTypes, FalseAssigned DEF LitFalse
  <1>2. Entailed({TrueLit(m.var)}) BY <1>1 DEF LevelZeroEntailed
  <1>3. Holds(TrueLit(m.var), M) BY <1>2 DEF Entailed
  <1>4. M[m.var] = Flip(m.val) BY <1>1, <1>3 DEF Holds, TrueLit
  <1> QED BY <1>4, LitTypes DEF Holds

(* The level of an assigned variable is one of the current ones. *)
LEMMA AssignedLevel ==
    ASSUME IInv, NEW v \in Vars, assign[v] # "none"
    PROVE  /\ level[v] \in Nat /\ level[v] <= Len(trail_lim) /\ Len(trail_lim) \in Nat
           /\ \E p \in 1 .. Len(trail) : trail[p] = v
  <1> USE DEF IInv, TrailInv, TypeOK
  <1>1. PICK p \in DOMAIN trail : trail[p] = v BY DEF TrailExact
  <1> QED BY <1>1, AsgDomains DEF LevelsCut

LEMMA StoreNext ==
    ASSUME IInv, [Next]_vars
    PROVE  StoreEntailed'
  <1> USE DEF IInv, TrailInv, TypeOK
  <1>1. formula' = formula /\ AnyEffect BY Effects
  <1>2. DOMAIN clauses = 1 .. Len(clauses) /\ Len(clauses) \in Nat BY DbDomains
  <1>3. DOMAIN clauses' = 1 .. Len(clauses') BY DbTypesNext, LenProperties DEF DbTypes
  <1>4. SUFFICES ASSUME NEW i \in 1 .. Len(clauses') PROVE Entailed(Lits(clauses'[i]))
    BY <1>1, <1>3 DEF StoreEntailed, Entailed, ModelOf, Lits
  <1>5. CASE SameStore
    <2>1. i \in DOMAIN clauses /\ Lits(clauses'[i]) = Lits(clauses[i])
      BY <1>2, <1>4, <1>5 DEF SameStore
    <2>2. Entailed(Lits(clauses[i])) BY <2>1 DEF StoreEntailed
    <2> QED BY <2>1, <2>2
  <1>6. CASE UNCHANGED db
    <2>1. clauses' = clauses BY <1>6 DEF db
    <2> QED BY <1>2, <1>4, <2>1 DEF StoreEntailed
  <1>7. CASE pc = "add" /\ Store(lemma, lemma_lbd)
    <2>1. clauses' = Append(clauses, lemma) BY <1>7 DEF Store
    <2>2. clauses \in Seq(Seq(Lit)) /\ lemma \in Seq(Lit) BY DEF DbTypes, LemTypes
    <2>3. CASE i \in 1 .. Len(clauses)
      <3>1. clauses'[i] = clauses[i] BY <2>1, <2>2, <2>3
      <3> QED BY <1>2, <2>3, <3>1 DEF StoreEntailed
    <2>4. CASE i = Len(clauses) + 1
      <3>1. clauses'[i] = lemma BY <2>1, <2>2, <2>4
      <3> QED BY <1>7, <3>1 DEF LemmaRight
    <2> QED BY <1>2, <1>4, <2>1, <2>2, <2>3, <2>4
  <1>8. CASE ReduceDb
    <2>1. PICK N, kept : N \in Nat /\ Renumbers(N, kept) BY <1>8, ReduceEffect
    <2>2. kept[i] \in 1 .. Len(clauses) /\ Lits(clauses'[i]) = Lits(clauses[kept[i]])
      BY <1>4, <2>1 DEF Renumbers
    <2>3. Entailed(Lits(clauses[kept[i]])) BY <1>2, <2>2 DEF StoreEntailed
    <2> QED BY <2>2, <2>3
  <1> QED BY <1>1, <1>5, <1>6, <1>7, <1>8 DEF AnyEffect

(* A literal forced at level 0 follows from the input. *)
LEMMA ForcedEntailed ==
    ASSUME IInv, [Next]_vars, NEW l \in Lit, NEW r \in Nat, Forced(l, r), Len(trail_lim) = 0
    PROVE  Entailed({l})
  <1> USE DEF IInv, TrailInv, TypeOK
  <1>1. formula' = formula BY Effects
  <1>2. PICK S : S = Lits(clauses'[r]) OBVIOUS
  <1>3. r \in 1 .. Len(clauses') /\ l \in S /\ \A m \in S : m = l \/ LitFalse(m)
    BY <1>2 DEF Forced
  <1>4. clauses' \in Seq(Seq(Lit)) BY DbTypesNext DEF DbTypes
  <1>5. clauses'[r] \in Seq(Lit) /\ r \in DOMAIN clauses' BY <1>3, <1>4, LenProperties, ElementOfSeq
  <1>6. S \subseteq Lit BY <1>2, <1>5, LenProperties, ElementOfSeq DEF Lits
  <1>7. Entailed(S) BY <1>1, <1>2, <1>5, StoreNext DEF StoreEntailed, Entailed, ModelOf, Lits
  <1>8. SUFFICES ASSUME NEW M \in Assignments, ModelOf(M, formula) PROVE Holds(l, M)
    BY DEF Entailed
  <1>9. PICK m \in S : Holds(m, M) BY <1>7, <1>8 DEF Entailed
  <1>10. SUFFICES ASSUME LitFalse(m) PROVE FALSE BY <1>3, <1>9
  <1>11. m \in Lit /\ m.var \in Vars /\ assign[m.var] # "none"
    BY <1>6, <1>10, LitTypes, FalseAssigned
  <1>12. level[m.var] = 0 BY <1>11, AssignedLevel
  <1> QED BY <1>8, <1>9, <1>10, <1>11, <1>12, LevelZeroHolds

LEMMA LevelZeroNext ==
    ASSUME IInv, [Next]_vars
    PROVE  LevelZeroEntailed'
  <1> USE DEF IInv, TrailInv, TypeOK
  <1>1. formula' = formula /\ AnyEffect BY Effects
  <1>2. SUFFICES ASSUME NEW v \in Vars, assign'[v] # "none", level'[v] = 0
                 PROVE  Entailed({[var |-> v, val |-> assign'[v]]})
    BY <1>1 DEF LevelZeroEntailed, TrueLit, Entailed, ModelOf
  <1>3. ASSUME assign'[v] = assign[v], level'[v] = level[v]
        PROVE  Entailed({[var |-> v, val |-> assign'[v]]})
    BY <1>2, <1>3 DEF LevelZeroEntailed, TrueLit
  <1>4. ASSUME NEW l \in Lit, NEW r \in Nat, Forced(l, r)
        PROVE  Entailed({[var |-> v, val |-> assign'[v]]})
    <2>1. CASE assign[v] # "none"
      <3>1. assign'[v] = assign[v] /\ level'[v] = level[v] BY <1>4, <2>1, ForcedKeeps
      <3> QED BY <1>3, <3>1
    <2>2. CASE assign[v] = "none"
      <3>1. l.var = v
        BY <1>2, <1>4, <2>2, LitTypes DEF Forced, Enqueue, AsgTypes
      <3>2. assign'[v] = l.val /\ level'[v] = Len(trail_lim) BY <1>4, <3>1, ForcedKeeps
      <3>3. l = [var |-> v, val |-> assign'[v]] BY <3>1, <3>2 DEF Lit
      <3>4. Len(trail_lim) = 0 BY <1>2, <3>2
      <3>5. Entailed({l}) BY <1>4, <3>4, ForcedEntailed
      <3> QED BY <3>3, <3>5
    <2> QED BY <2>1, <2>2
  <1>5. CASE Kept
    <2>1. assign'[v] = assign[v] /\ level'[v] = level[v] BY <1>5 DEF Kept
    <2> QED BY <1>3, <2>1
  <1>6. ASSUME NEW n \in Nat, n < Len(trail_lim), BacktrackTo(n)
        PROVE  Entailed({[var |-> v, val |-> assign'[v]]})
    <2>1. /\ assign'[v] = IF assign[v] # "none" /\ level[v] <= n THEN assign[v] ELSE "none"
          /\ level' = level
      BY <1>6, BacktrackTrail DEF Trail
    <2>2. assign'[v] = assign[v] /\ level'[v] = level[v] BY <1>2, <2>1
    <2> QED BY <1>3, <2>2
  <1>7. ASSUME NEW u \in Vars, Decide(u)
        PROVE  Entailed({[var |-> v, val |-> assign'[v]]})
    <2>1. PICK l \in Lit : l = [var |-> u, val |-> "true"] BY LitTypes DEF Bool
    <2>2. Enqueue(l, 0, Len(trail_lim) + 1) BY <1>7, <2>1 DEF Decide, DecisionLevel
    <2>3. l.var = u /\ Len(trail_lim) \in Nat BY <2>1, AsgDomains
    <2>4. v # u BY <1>2, <2>2, <2>3 DEF Enqueue, AsgTypes
    <2>5. assign'[v] = assign[v] /\ level'[v] = level[v]
      BY <2>2, <2>3, <2>4 DEF Enqueue, AsgTypes
    <2> QED BY <1>3, <2>5
  <1>8. CASE ReduceDb
    <2>1. assign'[v] = assign[v] /\ level'[v] = level[v] BY <1>8 DEF ReduceDb
    <2> QED BY <1>3, <2>1
  <1>9. ASSUME NEW l \in Lit, NEW r \in 1 .. Len(clauses), Forced(l, r)
        PROVE  Entailed({[var |-> v, val |-> assign'[v]]})
    <2>1. r \in Nat BY DbDomains
    <2> QED BY <1>4, <1>9, <2>1
  <1>10. ASSUME lemma[1] \in Lit, Forced(lemma[1], Len(clauses) + 1)
         PROVE  Entailed({[var |-> v, val |-> assign'[v]]})
    <2>1. Len(clauses) + 1 \in Nat BY DbDomains
    <2> QED BY <1>4, <1>10, <2>1
  <1> QED BY <1>1, <1>5, <1>6, <1>7, <1>8, <1>9, <1>10 DEF AnyEffect

-----------------------------------------------------------------------------
(* Conflict analysis. *)

(* Which step enters which state of the analysis. *)
LEMMA EnteredBy ==
    ASSUME [Next]_vars, ~UNCHANGED vars
    PROVE  /\ pc' = "conflict" => \E i \in DOMAIN clauses : VisitConflict(i)
           /\ pc' = "mark" => BeginAnalyze \/ WalkTrail
           /\ pc' = "walk" => MarkClause
           /\ pc' = "form" => WalkTrail
           /\ pc' = "backjump" => FormLemma
           /\ pc' = "add" => Backjump
           /\ pc' = "done" =>
                \/ SeedUnsat \/ ConflictUnsat \/ ConflictTimeout
                \/ AllAssigned \/ OutOfBudget \/ DecideTimeout
           /\ pc # "done" /\ (pc' # "done" => UNCHANGED result)
           /\ \/ UNCHANGED seen /\ pc \notin {"mark", "walk", "form"}
              \/ MarkClause \/ WalkTrail \/ FormLemma
  <1>1. CASE SeedUnsat \/ ConflictUnsat \/ ConflictTimeout \/ AllAssigned \/ OutOfBudget
             \/ DecideTimeout
    BY <1>1 DEF SeedUnsat, ConflictUnsat, ConflictTimeout, AllAssigned, OutOfBudget,
                DecideTimeout, Return, ana
  <1>2. CASE SeedUnit \/ SeedSkip \/ SeedDone \/ PropagatePop \/ PropagateDone \/ VisitDone
    BY <1>2 DEF SeedUnit, SeedSkip, SeedDone, PropagatePop, PropagateDone, VisitDone, ana
  <1>3. CASE BeginAnalyze \/ MarkClause \/ WalkTrail
    BY <1>3 DEF BeginAnalyze, MarkClause, WalkTrail
  <1>4. CASE FormLemma \/ Backjump \/ AddLearnt
    BY <1>4 DEF FormLemma, Backjump, AddLearnt, ana
  <1>5. CASE NoRestart \/ Restart \/ ReduceDb \/ ReduceNothing
    BY <1>5 DEF NoRestart, Restart, ReduceDb, ReduceNothing, ana
  <1>6. CASE \E v \in Vars : Decide(v)
    BY <1>6 DEF Decide, ana
  <1>7. CASE Visit
    <2>1. PICK i \in DOMAIN clauses :
             VisitSatisfied(i) \/ VisitMove(i) \/ VisitUnit(i) \/ VisitConflict(i)
      BY <1>7 DEF Visit
    <2>2. CASE VisitConflict(i) BY <2>2 DEF VisitConflict
    <2>3. CASE VisitSatisfied(i) \/ VisitMove(i) \/ VisitUnit(i)
      <3>1. pc = "visit" /\ UNCHANGED <<pc, result, seen>>
        BY <2>3 DEF VisitSatisfied, VisitMove, VisitUnit, TakeEntry, ana
      <3> QED BY <3>1
    <2> QED BY <2>1, <2>2, <2>3
  <1> QED BY <1>1, <1>2, <1>3, <1>4, <1>5, <1>6, <1>7 DEF Next, Step, Done

(* Every literal of the clause that stops propagation is false, and the one just
   propagated is of the current level. *)
LEMMA ConflictNext ==
    ASSUME IInv, [Next]_vars
    PROVE  ConflictFound'
  <1> USE DEF IInv, TrailInv, TypeOK
  <1>1. CASE UNCHANGED vars
    BY <1>1 DEF vars, db, asg, ana, ConflictFound, Lits, LitFalse, DecisionLevel
  <1>2. SUFFICES ASSUME pc' = "conflict", ~UNCHANGED vars PROVE ConflictFound'
    BY <1>1 DEF ConflictFound
  <1>3. DOMAIN clauses = 1 .. Len(clauses) BY DbDomains
  <1>4. PICK i \in 1 .. Len(clauses) : VisitConflict(i) BY <1>2, <1>3, EnteredBy
  <1>5. PICK c : c = Normalised(clauses[i]) OBVIOUS
  <1>6. /\ pc = "visit" /\ todo[i] > 0 /\ LitFalse(c[1]) /\ Replacements(c) = {}
        /\ clauses' = [clauses EXCEPT ![i] = c] /\ confl' = i
        /\ UNCHANGED <<assign, level, trail_lim>>
    BY <1>4, <1>5 DEF VisitConflict, asg
  <1>7. /\ Len(c) >= 2 /\ c[2] = false_lit /\ DOMAIN c = 1 .. Len(c) /\ Len(c) \in Nat
    BY <1>5, <1>6, VisitClause, LenProperties
  <1>8. LitFalse(false_lit) /\ level[false_lit.var] = DecisionLevel
    BY <1>6 DEF QueueCurrent
  <1>9. \A l \in Lits(c) : LitFalse(l)
    <2> SUFFICES ASSUME NEW k \in 1 .. Len(c) PROVE LitFalse(c[k]) BY <1>7 DEF Lits
    <2>1. CASE k = 1 BY <1>6, <2>1
    <2>2. CASE k = 2 BY <1>7, <1>8, <2>2
    <2>3. CASE k \in 3 .. Len(c) BY <1>6, <2>3 DEF Replacements
    <2> QED BY <1>7, <2>1, <2>2, <2>3
  <1>10. false_lit \in Lits(c) BY <1>7 DEF Lits
  <1>11. clauses'[i] = c /\ confl' \in DOMAIN clauses' BY <1>3, <1>6
  <1>12. PICK S : S = Lits(c) OBVIOUS
  <1>13. Lits(clauses[confl])' = S BY <1>6, <1>11, <1>12 DEF Lits
  <1>14. PICK fl : fl = false_lit OBVIOUS
  <1>15. \E l \in S : level'[l.var] = DecisionLevel'
    BY <1>6, <1>8, <1>10, <1>12, <1>14 DEF DecisionLevel
  <1>16. \A l \in S : LitFalse(l)' BY <1>6, <1>9, <1>12 DEF LitFalse
  <1> QED BY <1>11, <1>13, <1>15, <1>16 DEF ConflictFound

(* Levels never fall along the trail. *)
LEMMA LevelsRise ==
    ASSUME IInv, NEW p \in 1 .. Len(trail), NEW q \in 1 .. Len(trail), q <= p
    PROVE  level[trail[q]] <= level[trail[p]]
  <1> USE DEF IInv, TrailInv, TypeOK
  <1>1. PICK j : j = level[trail[q]] OBVIOUS
  <1>2. /\ DOMAIN trail = 1 .. Len(trail) /\ trail[p] \in Vars /\ trail[q] \in Vars
        /\ j \in Nat /\ level[trail[p]] \in Nat /\ Len(trail) \in Nat
        /\ DOMAIN trail_lim = 1 .. Len(trail_lim) /\ Len(trail_lim) \in Nat
    BY <1>1, AsgDomains
  <1>3. CASE j = 0 BY <1>1, <1>2, <1>3
  <1>4. CASE j # 0
    <2>1. j \in 1 .. Len(trail_lim) BY <1>1, <1>2, <1>4 DEF LevelsCut
    <2>2. trail_lim[j] \in Nat BY <2>1, AsgDomains
    <2>3. trail_lim[j] < q BY <1>1, <1>2, <2>1 DEF LevelsCut
    <2>4. trail_lim[j] < p BY <1>2, <2>2, <2>3
    <2>5. j <= level[trail[p]] BY <1>2, <2>1, <2>4 DEF LevelsCut
    <2> QED BY <1>1, <2>5
  <1> QED BY <1>3, <1>4

(* What WalkTrail finds: the last marked variable on the trail is of the current
   level, the others of that level stand before it, and it has an antecedent unless
   it is the last one left. *)
LEMMA LatestMarked ==
    ASSUME IInv, pc = "walk", NEW p \in 1 .. idx, seen[trail[p]],
           \A q \in p + 1 .. idx : ~seen[trail[q]]
    PROVE  /\ trail[p] \in Marked /\ trail[p] \in Vars /\ p \in 1 .. Len(trail)
           /\ counter \in Nat /\ counter >= 1 /\ IsFiniteSet(Marked)
           /\ counter = Cardinality(Marked)
           /\ \A u \in Marked : u # trail[p] => \E q \in 1 .. p - 1 : trail[q] = u
           /\ counter = 1 => Marked = {trail[p]}
           /\ counter # 1 => \E u \in Marked : u # trail[p]
           /\ counter # 1 => reason[trail[p]] # 0
  <1> USE DEF IInv, TrailInv, TypeOK
  <1>0. /\ DOMAIN trail = 1 .. Len(trail) /\ Len(trail) \in Nat
        /\ \A q \in 1 .. Len(trail) : trail[q] \in Vars /\ level[trail[q]] \in Nat
        /\ Len(trail_lim) \in Nat /\ DOMAIN trail_lim = 1 .. Len(trail_lim)
        /\ \A j \in 1 .. Len(trail_lim) : trail_lim[j] \in Nat
    BY AsgDomains
  <1>1. /\ counter = Cardinality(Marked) /\ idx <= Len(trail) /\ Marked # {}
        /\ \A u \in Marked : \E q \in 1 .. idx : trail[q] = u
        /\ idx \in Nat
    BY DEF MarksRight, ResolventRight, AnaTypes
  <1>2. p \in 1 .. Len(trail) BY <1>0, <1>1
  <1>3. PICK v \in Vars : v = trail[p] BY <1>0, <1>2
  <1>4. \A u \in Marked : u # v => \E q \in 1 .. p - 1 : trail[q] = u
    <2> SUFFICES ASSUME NEW u \in Marked, u # v PROVE \E q \in 1 .. p - 1 : trail[q] = u
      OBVIOUS
    <2>1. PICK q \in 1 .. idx : trail[q] = u BY <1>1
    <2>2. seen[trail[q]] BY <2>1 DEF Marked
    <2>3. ~(q \in p + 1 .. idx) BY <2>2
    <2>4. q # p BY <1>3, <2>1
    <2>5. q \in 1 .. p - 1 BY <1>1, <2>3, <2>4
    <2> QED BY <2>1, <2>5
  <1>5. level[v] = Len(trail_lim)
    <2>1. PICK u \in Marked : TRUE BY <1>1
    <2>2. level[u] = Len(trail_lim) BY DEF Marked, DecisionLevel
    <2>3. CASE u = v BY <2>2, <2>3
    <2>4. CASE u # v
      <3>1. PICK q \in 1 .. p - 1 : trail[q] = u BY <1>4, <2>4
      <3>2. q \in 1 .. Len(trail) /\ q <= p BY <1>0, <1>2, <3>1
      <3>3. level[u] <= level[v] BY <1>2, <1>3, <3>1, <3>2, LevelsRise
      <3>4. level[v] <= Len(trail_lim) BY <1>0, <1>2, <1>3 DEF LevelsCut
      <3> QED BY <1>0, <1>2, <1>3, <2>2, <3>3, <3>4
    <2> QED BY <2>3, <2>4
  <1>6. v \in Marked BY <1>3, <1>5 DEF Marked, DecisionLevel
  <1>7. IsFiniteSet(Marked) /\ counter \in Nat
    <2>1. Marked \subseteq Vars BY DEF Marked
    <2> QED BY <1>1, <2>1, FiniteTypes
  <1>8. counter >= 1 BY <1>1, <1>7, FS_EmptySet
  <1>9. counter = 1 => Marked = {v}
    <2>1. ASSUME counter = 1 PROVE \E x : Marked = {x} BY <1>1, <1>7, <2>1, FS_Singleton
    <2> QED BY <1>6, <2>1
  <1>10. counter # 1 => \E u \in Marked : u # v
    <2>1. ASSUME \A u \in Marked : u = v PROVE counter = 1
      <3>1. Marked = {v} BY <1>6, <2>1
      <3> QED BY <1>1, <3>1, FS_Singleton
    <2> QED BY <2>1
  <1>11. ASSUME counter # 1 PROVE reason[v] # 0
    <2>1. SUFFICES ASSUME reason[v] = 0 PROVE FALSE OBVIOUS
    <2>2. PICK u \in Marked : u # v BY <1>10, <1>11
    <2>3. PICK q \in 1 .. p - 1 : trail[q] = u BY <1>4, <2>2
    <2>4. q \in 1 .. Len(trail) BY <1>0, <1>2, <2>3
    <2>5. PICK j \in 1 .. Len(trail_lim) : p = trail_lim[j] + 1
      BY <1>0, <1>2, <1>3, <2>1 DEF DecisionsFirst
    <2>6. ~(trail_lim[j] < q) BY <1>0, <2>3, <2>5
    <2>7. ~(j <= level[trail[q]]) BY <1>0, <2>4, <2>6 DEF LevelsCut
    <2>8. level[trail[q]] = Len(trail_lim) BY <2>3 DEF Marked, DecisionLevel
    <2> QED BY <1>0, <2>7, <2>8
  <1> QED BY <1>1, <1>2, <1>3, <1>4, <1>6, <1>7, <1>8, <1>9, <1>10, <1>11

(* The literals analyze has not met are false, above level 0, and stand on the part
   of the trail it has still to walk. *)
LEMMA FreshIs ==
    ASSUME IInv, pc = "mark"
    PROVE  /\ Lits(clauses[confl]) \subseteq Lit /\ Entailed(Lits(clauses[confl]))
           /\ \A l \in Lits(clauses[confl]) : l.var # pivot => LitFalse(l)
           /\ \A l \in Fresh :
                /\ l \in Lit /\ l.var \in Vars /\ LitFalse(l) /\ l = FalseLit(l.var)
                /\ assign[l.var] # "none" /\ level[l.var] \in 1 .. Len(trail_lim)
                /\ ~seen[l.var] /\ \E q \in 1 .. idx : trail[q] = l.var
  <1> USE DEF IInv, TrailInv, TypeOK
  <1>1. confl \in DOMAIN clauses /\ (FirstClause \/ LaterClause) BY DEF ResolventRight
  <1>2. Lits(clauses[confl]) \subseteq Lit BY <1>1, DbDomains
  <1>3. Entailed(Lits(clauses[confl])) BY <1>1 DEF StoreEntailed
  <1>4. ASSUME NEW l \in Lits(clauses[confl]), l.var # pivot
        PROVE  /\ LitFalse(l) /\ l.var \in Vars /\ assign[l.var] # "none"
               /\ \E q \in 1 .. idx : trail[q] = l.var
    <2>1. l \in Lit /\ l.var \in Vars BY <1>2, LitTypes
    <2>2. CASE FirstClause
      <3>1. LitFalse(l) /\ idx = Len(trail) BY <2>2 DEF FirstClause
      <3>2. assign[l.var] # "none" BY <2>1, <3>1, FalseAssigned
      <3> QED BY <2>1, <3>1, <3>2, AssignedLevel
    <2>3. CASE LaterClause
      <3>1. pivot \in Vars BY <2>3 DEF LaterClause
      <3>2. l # TrueLit(pivot) BY <1>4 DEF TrueLit
      <3>3. LitFalse(l) /\ \E q \in 1 .. idx : trail[q] = l.var
        BY <1>4, <2>3, <3>2 DEF LaterClause
      <3> QED BY <2>1, <3>3, FalseAssigned
    <2> QED BY <1>1, <2>2, <2>3
  <1>5. ASSUME NEW l \in Fresh
        PROVE  /\ l \in Lit /\ l.var \in Vars /\ LitFalse(l) /\ l = FalseLit(l.var)
               /\ assign[l.var] # "none" /\ level[l.var] \in 1 .. Len(trail_lim)
               /\ ~seen[l.var] /\ \E q \in 1 .. idx : trail[q] = l.var
    <2>1. l \in Lits(clauses[confl]) /\ l.var # pivot /\ ~seen[l.var] /\ level[l.var] > 0
      BY DEF Fresh
    <2>2. l \in Lit BY <1>2, <2>1
    <2>3. /\ LitFalse(l) /\ l.var \in Vars /\ assign[l.var] # "none"
          /\ \E q \in 1 .. idx : trail[q] = l.var
      BY <1>4, <2>1
    <2>4. l = FalseLit(l.var) BY <2>2, <2>3, FalseAssigned
    <2>5. level[l.var] \in 1 .. Len(trail_lim) BY <2>1, <2>3, AssignedLevel
    <2> QED BY <2>1, <2>2, <2>3, <2>4, <2>5
  <1> QED BY <1>2, <1>3, <1>4, <1>5

(* The marks after the literals of a clause are added. *)
LEMMA ClauseMarked ==
    ASSUME IInv, MarkClause
    PROVE  /\ UNCHANGED <<assign, level, trail, trail_lim, idx>>
           /\ pc = "mark" /\ pc' = "walk" /\ Marked \subseteq Marked'
           /\ \A v \in Vars : seen'[v] => seen[v] \/ \E l \in Fresh : l.var = v
           /\ \A v \in Vars : v \in Marked' <=>
                v \in Marked \/ \E l \in Fresh : l.var = v /\ level[v] = Len(trail_lim)
           /\ learnt' = learnt \cup {l \in Fresh : level[l.var] # Len(trail_lim)}
           /\ counter' = Cardinality(Marked')
  <1> USE DEF IInv, TrailInv, TypeOK
  <1> DEFINE here == {l.var : l \in {l \in Fresh : level[l.var] = DecisionLevel}}
  <1>1. /\ UNCHANGED <<assign, level, trail, trail_lim, idx>>
        /\ pc = "mark" /\ pc' = "walk"
        /\ seen' = [v \in Vars |-> seen[v] \/ \E l \in Fresh : l.var = v]
        /\ counter' = counter + Cardinality(here)
        /\ learnt' = learnt \cup {l \in Fresh : level[l.var] # Len(trail_lim)}
    BY DEF MarkClause, asg, DecisionLevel
  <1>2. \A l \in Fresh : l.var \in Vars /\ ~seen[l.var] BY <1>1, FreshIs
  <1>3. here \subseteq Vars BY <1>2
  <1>4. Marked \subseteq Vars BY DEF Marked
  <1>5. Marked \cap here = {} BY <1>2 DEF Marked
  <1>6. ASSUME NEW v \in Vars
        PROVE  v \in Marked' <=> v \in Marked \/ v \in here
    <2>1. v \in Marked' <=> seen'[v] /\ level[v] = DecisionLevel
      BY <1>1 DEF Marked, DecisionLevel
    <2>2. v \in Marked <=> seen[v] /\ level[v] = DecisionLevel BY DEF Marked
    <2>3. v \in here <=> (\E l \in Fresh : l.var = v) /\ level[v] = DecisionLevel OBVIOUS
    <2>4. seen'[v] <=> seen[v] \/ \E l \in Fresh : l.var = v BY <1>1
    <2> QED BY <2>1, <2>2, <2>3, <2>4
  <1>7. Marked' \subseteq Vars BY DEF Marked
  <1>8. Marked' = Marked \cup here BY <1>3, <1>4, <1>6, <1>7
  <1>9. counter = Cardinality(Marked) BY <1>1 DEF MarksRight
  <1>10. /\ IsFiniteSet(Marked) /\ IsFiniteSet(here)
         /\ Cardinality(Marked) \in Nat /\ Cardinality(here) \in Nat
    BY <1>3, <1>4, FiniteTypes
  <1>11. Cardinality(Marked \cup here) = Cardinality(Marked) + Cardinality(here)
    <2> HIDE DEF here
    <2>1. Cardinality(Marked \cup here)
            = Cardinality(Marked) + Cardinality(here) - Cardinality(Marked \cap here)
      BY <1>10, FS_Union
    <2>2. Cardinality(Marked \cap here) = 0 BY <1>5, FS_EmptySet
    <2> QED BY <1>10, <2>1, <2>2
  <1>12. counter' = Cardinality(Marked') BY <1>1, <1>8, <1>9, <1>11
  <1>13. \A v \in Vars : seen'[v] => seen[v] \/ \E l \in Fresh : l.var = v BY <1>1
  <1>14. \A v \in Vars : v \in Marked' <=>
                v \in Marked \/ \E l \in Fresh : l.var = v /\ level[v] = Len(trail_lim)
    BY <1>6 DEF DecisionLevel
  <1> QED BY <1>1, <1>8, <1>12, <1>13, <1>14

(* Every step keeps the marks right: the counter counts the marked variables of the
   current level, and analyze has them all before it on the trail. *)
LEMMA MarkClauseMarks ==
    ASSUME IInv, MarkClause
    PROVE  MarksRight'
  <1> USE DEF IInv, TrailInv, TypeOK
  <1>1. /\ UNCHANGED <<assign, level, trail, trail_lim, idx>>
        /\ pc = "mark" /\ pc' = "walk"
        /\ \A v \in Vars : seen'[v] => seen[v] \/ \E l \in Fresh : l.var = v
        /\ \A v \in Vars : v \in Marked' <=>
             v \in Marked \/ \E l \in Fresh : l.var = v /\ level[v] = Len(trail_lim)
        /\ learnt' = learnt \cup {l \in Fresh : level[l.var] # Len(trail_lim)}
        /\ counter' = Cardinality(Marked')
    BY ClauseMarked
  <1>2. /\ \A v \in Vars : seen[v] =>
              /\ assign[v] # "none" /\ level[v] > 0
              /\ level[v] # Len(trail_lim) => FalseLit(v) \in learnt
        /\ \A l \in learnt : LitFalse(l) /\ level[l.var] \in 1 .. Len(trail_lim) - 1
        /\ idx <= Len(trail)
        /\ \A v \in Marked : \E p \in 1 .. idx : trail[p] = v
    BY <1>1 DEF MarksRight, DecisionLevel
  <1>3. \A l \in Fresh :
           /\ LitFalse(l) /\ l = FalseLit(l.var) /\ assign[l.var] # "none"
           /\ level[l.var] \in 1 .. Len(trail_lim) /\ \E q \in 1 .. idx : trail[q] = l.var
    BY <1>1, FreshIs
  <1>4. Len(trail_lim) \in Nat BY AsgDomains
  <1>5. ASSUME NEW v \in Vars, seen'[v]
        PROVE  /\ assign[v] # "none" /\ level[v] > 0
               /\ level[v] # Len(trail_lim) => FalseLit(v) \in learnt'
    <2>1. CASE seen[v] BY <1>1, <1>2, <2>1
    <2>2. CASE \E l \in Fresh : l.var = v
      <3>1. PICK l \in Fresh : l.var = v BY <2>2
      <3>2. /\ l = FalseLit(v) /\ assign[v] # "none" /\ level[v] \in 1 .. Len(trail_lim)
        BY <1>3, <3>1
      <3> QED BY <1>1, <1>4, <3>1, <3>2
    <2> QED BY <1>1, <1>5, <2>1, <2>2
  <1>6. ASSUME NEW l \in learnt'
        PROVE  LitFalse(l) /\ level[l.var] \in 1 .. Len(trail_lim) - 1
    <2>1. CASE l \in learnt BY <1>2, <2>1
    <2>2. CASE l \in Fresh /\ level[l.var] # Len(trail_lim) BY <1>3, <1>4, <2>2
    <2> QED BY <1>1, <1>6, <2>1, <2>2
  <1>7. ASSUME NEW v \in Marked' PROVE \E p \in 1 .. idx : trail[p] = v
    <2>1. v \in Vars BY DEF Marked
    <2> QED BY <1>1, <1>2, <1>3, <1>7, <2>1
  <1>8. UNCHANGED <<DecisionLevel>> /\ \A v \in Vars : FalseLit(v)' = FalseLit(v)
    BY <1>1 DEF DecisionLevel, FalseLit
  <1>9. \A l : LitFalse(l)' <=> LitFalse(l) BY <1>1 DEF LitFalse
  <1>10. DecisionLevel = Len(trail_lim) BY DEF DecisionLevel
  <1> QED BY <1>1, <1>2, <1>5, <1>6, <1>7, <1>8, <1>9, <1>10 DEF MarksRight

(* A walk takes the latest marked variable; it stops when that was the last one. *)
LEMMA Walked ==
    ASSUME IInv, WalkTrail
    PROVE  \E p \in 1 .. Len(trail), v \in Vars :
             /\ v = trail[p] /\ v \in Marked /\ pivot' = v /\ idx' = p - 1
             /\ UNCHANGED <<assign, level, trail, trail_lim, learnt, clauses>>
             /\ pc = "walk" /\ seen' = [seen EXCEPT ![v] = FALSE]
             /\ Marked' = Marked \ {v} /\ counter' = Cardinality(Marked')
             /\ \A u \in Marked' : \E q \in 1 .. p - 1 : trail[q] = u
             /\ \/ pc' = "form" /\ Marked = {v}
                \/ /\ pc' = "mark" /\ Marked' # {} /\ reason[v] # 0
                   /\ confl' = reason[v]
  <1> USE DEF IInv, TrailInv, TypeOK
  <1>1. PICK p \in 1 .. idx :
         /\ seen[trail[p]]
         /\ \A q \in p + 1 .. idx : ~seen[trail[q]]
         /\ idx' = p - 1
         /\ counter' = counter - 1
         /\ pivot' = trail[p]
         /\ IF counter # 1 /\ reason[trail[p]] = 0
            THEN seen' = [v \in Vars |-> FALSE]
            ELSE seen' = [seen EXCEPT ![trail[p]] = FALSE]
         /\ IF counter = 1 \/ reason[trail[p]] = 0
            THEN pc' = "form" /\ UNCHANGED confl
            ELSE pc' = "mark" /\ confl' = reason[trail[p]]
    BY DEF WalkTrail
  <1>2. pc = "walk" /\ UNCHANGED <<assign, level, trail, trail_lim, learnt, clauses>>
    BY DEF WalkTrail, asg, db
  <1>3. /\ trail[p] \in Marked /\ trail[p] \in Vars /\ p \in 1 .. Len(trail)
        /\ counter \in Nat /\ counter >= 1 /\ IsFiniteSet(Marked)
        /\ counter = Cardinality(Marked)
        /\ \A u \in Marked : u # trail[p] => \E q \in 1 .. p - 1 : trail[q] = u
        /\ counter = 1 => Marked = {trail[p]}
        /\ counter # 1 => \E u \in Marked : u # trail[p]
        /\ counter # 1 => reason[trail[p]] # 0
    BY <1>1, <1>2, LatestMarked
  <1>4. PICK v \in Vars : v = trail[p] BY <1>3
  <1>5. seen' = [seen EXCEPT ![v] = FALSE] BY <1>1, <1>3, <1>4
  <1>6. Marked' = Marked \ {v}
    <2>1. Marked' = {u \in Vars : seen'[u] /\ level[u] = DecisionLevel}
      BY <1>2 DEF Marked, DecisionLevel
    <2>2. \A u \in Vars : seen'[u] <=> seen[u] /\ u # v BY <1>5 DEF AnaTypes
    <2> QED BY <2>1, <2>2 DEF Marked
  <1>7. counter' = Cardinality(Marked')
    <2>1. Cardinality(Marked \ {v}) = Cardinality(Marked) - 1
      BY <1>3, <1>4, FS_RemoveElement
    <2> QED BY <1>1, <1>3, <1>6, <2>1
  <1>8. \A u \in Marked' : \E q \in 1 .. p - 1 : trail[q] = u BY <1>3, <1>4, <1>6
  <1>9. \/ pc' = "form" /\ Marked = {v}
        \/ /\ pc' = "mark" /\ Marked' # {} /\ reason[v] # 0
           /\ confl' = reason[v]
    BY <1>1, <1>3, <1>4, <1>6
  <1> QED BY <1>1, <1>2, <1>3, <1>4, <1>5, <1>6, <1>7, <1>8, <1>9

LEMMA MarksNext ==
    ASSUME IInv, [Next]_vars
    PROVE  MarksRight'
  <1> USE DEF IInv, TrailInv, TypeOK
  <1>1. CASE UNCHANGED vars
    BY <1>1 DEF vars, asg, ana, MarksRight, Marked, DecisionLevel, LitFalse, FalseLit
  <1>2. CASE MarkClause BY <1>2, MarkClauseMarks
  <1>3. CASE WalkTrail
    <2>1. PICK p \in 1 .. Len(trail), v \in Vars :
             /\ v = trail[p] /\ v \in Marked /\ pivot' = v /\ idx' = p - 1
             /\ UNCHANGED <<assign, level, trail, trail_lim, learnt, clauses>>
             /\ pc = "walk" /\ seen' = [seen EXCEPT ![v] = FALSE]
             /\ Marked' = Marked \ {v} /\ counter' = Cardinality(Marked')
             /\ \A u \in Marked' : \E q \in 1 .. p - 1 : trail[q] = u
             /\ \/ pc' = "form" /\ Marked = {v}
                \/ /\ pc' = "mark" /\ Marked' # {} /\ reason[v] # 0
                   /\ confl' = reason[v]
      BY <1>3, Walked
    <2>2. /\ \A u \in Vars : seen[u] =>
                /\ assign[u] # "none" /\ level[u] > 0
                /\ level[u] # DecisionLevel => FalseLit(u) \in learnt
          /\ \A l \in learnt : LitFalse(l) /\ level[l.var] \in 1 .. DecisionLevel - 1
      BY <2>1 DEF MarksRight
    <2>3. \A u \in Vars : seen'[u] => seen[u] BY <2>1 DEF AnaTypes
    <2>4. /\ DecisionLevel' = DecisionLevel
          /\ \A u \in Vars : FalseLit(u)' = FalseLit(u)
          /\ \A l : LitFalse(l)' <=> LitFalse(l)
      BY <2>1 DEF DecisionLevel, FalseLit, LitFalse
    <2>5. idx' <= Len(trail) /\ Len(trail) \in Nat BY <2>1, AsgDomains
    <2>6. pc' \in {"mark", "form"} BY <2>1
    <2> QED BY <2>1, <2>2, <2>3, <2>4, <2>5, <2>6 DEF MarksRight
  <1>4. CASE FormLemma
    <2>1. /\ pc = "form" /\ pc' = "backjump"
          /\ seen' = [v \in Vars |-> seen[v] /\ \A l \in learnt : l.var # v]
      BY <1>4 DEF FormLemma
    <2>2. ASSUME NEW v \in Vars, seen'[v] PROVE FALSE
      <3>1. seen[v] /\ \A l \in learnt : l.var # v BY <2>1, <2>2
      <3>2. v \notin Marked BY <2>1 DEF ResolventRight
      <3>3. level[v] # DecisionLevel BY <3>1, <3>2 DEF Marked
      <3>4. FalseLit(v) \in learnt BY <2>1, <3>1, <3>3 DEF MarksRight
      <3>5. FalseLit(v).var = v BY DEF FalseLit
      <3> QED BY <3>1, <3>4, <3>5
    <2> QED BY <2>1, <2>2 DEF MarksRight
  <1>5. ASSUME UNCHANGED seen, pc \notin {"mark", "walk", "form"}, ~UNCHANGED vars
        PROVE  MarksRight'
    <2>1. \A v \in Vars : ~seen'[v] BY <1>5 DEF MarksRight
    <2>2. CASE pc' \notin {"mark", "walk", "form"} BY <2>1, <2>2 DEF MarksRight
    <2>3. CASE pc' \in {"mark", "walk", "form"}
      <3>1. BeginAnalyze
        <4>1. ~MarkClause /\ ~WalkTrail BY <1>5 DEF MarkClause, WalkTrail
        <4> QED BY <1>5, <2>3, <4>1, EnteredBy
      <3>2. learnt' = {} /\ counter' = 0 /\ idx' = Len(trail) /\ pc' = "mark" /\ trail' = trail
        BY <3>1 DEF BeginAnalyze, asg
      <3>3. Marked' = {} BY <2>1 DEF Marked
      <3>4. counter' = Cardinality(Marked') BY <3>2, <3>3, FS_EmptySet
      <3>5. Len(trail) \in Nat BY AsgDomains
      <3> QED BY <2>1, <3>2, <3>3, <3>4, <3>5 DEF MarksRight
    <2> QED BY <2>2, <2>3
  <1> QED BY <1>1, <1>2, <1>3, <1>4, <1>5, EnteredBy

(* Where a false literal of the clause being resolved goes, if it can hold at all. *)
LEMMA ResolvedLiteral ==
    ASSUME IInv, MarkClause, NEW M \in Assignments, ModelOf(M, formula),
           NEW l \in Lits(clauses[confl]), l.var # pivot, Holds(l, M)
    PROVE  l \in learnt' \cup FalseLits(Marked')
  <1> USE DEF IInv, TrailInv, TypeOK
  <1>1. pc = "mark" BY DEF MarkClause
  <1>2. l \in Lit /\ LitFalse(l) BY <1>1, FreshIs
  <1>3. l.var \in Vars /\ assign[l.var] # "none" /\ l = FalseLit(l.var)
    BY <1>2, LitTypes, FalseAssigned
  <1>4. level[l.var] # 0 BY <1>2, LevelZeroHolds
  <1>5. level[l.var] > 0 BY <1>3, <1>4, AssignedLevel
  <1>6. /\ Marked \subseteq Marked'
        /\ \A v \in Vars : v \in Marked' <=>
             v \in Marked \/ \E m \in Fresh : m.var = v /\ level[v] = Len(trail_lim)
        /\ learnt' = learnt \cup {m \in Fresh : level[m.var] # Len(trail_lim)}
    BY ClauseMarked
  <1>7. l.var \in Marked' => l \in FalseLits(Marked') BY <1>3 DEF FalseLits
  <1>8. CASE seen[l.var]
    <2>1. CASE level[l.var] = Len(trail_lim)
      <3>1. l.var \in Marked BY <1>3, <1>8, <2>1 DEF Marked, DecisionLevel
      <3> QED BY <1>6, <1>7, <3>1
    <2>2. CASE level[l.var] # Len(trail_lim)
      <3>1. FalseLit(l.var) \in learnt
        BY <1>1, <1>3, <1>8, <2>2 DEF MarksRight, DecisionLevel
      <3> QED BY <1>3, <1>6, <3>1
    <2> QED BY <2>1, <2>2
  <1>9. CASE ~seen[l.var]
    <2>1. l \in Fresh BY <1>5, <1>9 DEF Fresh
    <2>2. CASE level[l.var] = Len(trail_lim)
      <3>1. l.var \in Marked' BY <1>3, <1>6, <2>1, <2>2
      <3> QED BY <1>7, <3>1
    <2>3. CASE level[l.var] # Len(trail_lim) BY <1>6, <2>1, <2>3
    <2> QED BY <2>2, <2>3
  <1> QED BY <1>8, <1>9

(* Adding the literals of the clause to the marks and to learnt, and dropping those
   of level 0, resolves it with what was there: the result follows from the input. *)
LEMMA MarkClauseResolvent ==
    ASSUME IInv, MarkClause
    PROVE  Marked' # {} /\ Entailed(learnt' \cup FalseLits(Marked'))
  <1> USE DEF IInv, TrailInv, TypeOK
  <1>1. pc = "mark" BY DEF MarkClause
  <1>2. confl \in DOMAIN clauses /\ (FirstClause \/ LaterClause) BY <1>1 DEF ResolventRight
  <1>3. /\ Marked \subseteq Marked'
        /\ \A v \in Vars : v \in Marked' <=>
             v \in Marked \/ \E m \in Fresh : m.var = v /\ level[v] = Len(trail_lim)
        /\ learnt' = learnt \cup {m \in Fresh : level[m.var] # Len(trail_lim)}
    BY ClauseMarked
  <1>4. /\ Lits(clauses[confl]) \subseteq Lit /\ Entailed(Lits(clauses[confl]))
        /\ \A l \in Lits(clauses[confl]) : l.var # pivot => LitFalse(l)
    BY <1>1, FreshIs
  <1>5. Marked' # {}
    <2>1. CASE LaterClause BY <1>3, <2>1 DEF LaterClause
    <2>2. CASE FirstClause
      <3>1. PICK l \in Lits(clauses[confl]) : level[l.var] = DecisionLevel
        BY <2>2 DEF FirstClause
      <3>2. l \in Lit /\ l.var \in Vars BY <1>4, LitTypes
      <3>3. pivot = -1 /\ Marked = {} BY <2>2 DEF FirstClause
      <3>4. l.var # pivot BY <3>2, <3>3 DEF Vars
      <3>5. ~seen[l.var] BY <3>1, <3>2, <3>3 DEF Marked
      <3>6. Len(trail_lim) > 0
        <4>1. trail_lim # <<>> BY <1>1 DEF ControlOK
        <4> QED BY <4>1, EmptySeq, LenProperties DEF AsgTypes
      <3>7. l \in Fresh BY <3>1, <3>4, <3>5, <3>6 DEF Fresh, DecisionLevel
      <3>8. l.var \in Marked' BY <1>3, <3>1, <3>2, <3>7 DEF DecisionLevel
      <3> QED BY <3>8
    <2> QED BY <1>2, <2>1, <2>2
  <1>6. SUFFICES ASSUME NEW M \in Assignments, ModelOf(M, formula)
                 PROVE  \E l \in learnt' \cup FalseLits(Marked') : Holds(l, M)
    BY <1>5 DEF Entailed
  <1>7. PICK m \in Lits(clauses[confl]) : Holds(m, M) BY <1>4, <1>6 DEF Entailed
  <1>8. CASE m.var # pivot
    BY <1>6, <1>7, <1>8, ResolvedLiteral
  <1>9. CASE m.var = pivot
    <2>0. m \in Lit /\ m.var \in Vars BY <1>4, LitTypes
    <2>1. LaterClause
      <3>1. ~FirstClause BY <1>9, <2>0 DEF FirstClause, Vars
      <3> QED BY <1>2, <3>1
    <2>2. /\ pivot \in Vars /\ assign[pivot] # "none" /\ m = TrueLit(pivot)
          /\ Entailed(learnt \cup FalseLits(Marked \cup {pivot}))
      BY <1>9, <2>1 DEF LaterClause
    <2>3. PICK l \in learnt \cup FalseLits(Marked \cup {pivot}) : Holds(l, M)
      BY <1>6, <2>2 DEF Entailed
    <2>4. l # FalseLit(pivot)
      <3>1. M[pivot] = assign[pivot] BY <1>7, <2>2 DEF Holds, TrueLit
      <3>2. assign[pivot] \in Bool BY <2>2, AsgDomains
      <3>3. Flip(assign[pivot]) # assign[pivot] BY <3>2, LitTypes
      <3> QED BY <2>3, <3>1, <3>3 DEF Holds, FalseLit
    <2>5. l \in learnt \cup FalseLits(Marked) BY <2>3, <2>4 DEF FalseLits
    <2>6. l \in learnt' \cup FalseLits(Marked') BY <1>3, <2>5 DEF FalseLits
    <2> QED BY <2>3, <2>6
  <1> QED BY <1>8, <1>9

LEMMA ResolventNext ==
    ASSUME IInv, [Next]_vars
    PROVE  ResolventRight'
  <1> USE DEF IInv, TrailInv, TypeOK
  <1>1. CASE UNCHANGED vars
    <2>1. UNCHANGED <<formula, clauses, assign, level, trail, trail_lim, seen, learnt, counter,
                      pivot, idx, confl, pc>>
      BY <1>1 DEF vars, db, asg, ana
    <2>2. Marked' = Marked /\ DecisionLevel' = DecisionLevel
      BY <2>1 DEF Marked, DecisionLevel
    <2>3. /\ \A l : LitFalse(l)' <=> LitFalse(l)
          /\ Lits(clauses[confl])' = Lits(clauses[confl])
          /\ TrueLit(pivot)' = TrueLit(pivot) /\ FalseLit(pivot)' = FalseLit(pivot)
          /\ FalseLits(Marked)' = FalseLits(Marked)
          /\ FalseLits(Marked \cup {pivot})' = FalseLits(Marked \cup {pivot})
      BY <2>1, <2>2 DEF LitFalse, Lits, TrueLit, FalseLit, FalseLits
    <2>4. /\ Entailed(learnt \cup FalseLits(Marked))' <=> Entailed(learnt \cup FalseLits(Marked))
          /\ Entailed(learnt \cup FalseLits(Marked \cup {pivot}))'
               <=> Entailed(learnt \cup FalseLits(Marked \cup {pivot}))
          /\ Entailed(learnt \cup {FalseLit(pivot)})' <=> Entailed(learnt \cup {FalseLit(pivot)})
      BY <2>1, <2>3 DEF Entailed, ModelOf
    <2>5. (FirstClause' <=> FirstClause) /\ (LaterClause' <=> LaterClause)
      BY <2>1, <2>2, <2>3, <2>4 DEF FirstClause, LaterClause
    <2> QED BY <2>1, <2>2, <2>4, <2>5 DEF ResolventRight
  <1>2. formula' = formula BY Effects
  <1>3. CASE BeginAnalyze
    <2>1. /\ pc = "conflict" /\ pc' = "mark" /\ learnt' = {} /\ pivot' = -1 /\ idx' = Len(trail)
          /\ UNCHANGED <<clauses, assign, level, trail, trail_lim, seen, confl>>
      BY <1>3 DEF BeginAnalyze, db, asg
    <2>2. Marked' = {} BY <2>1 DEF MarksRight, Marked
    <2>3. /\ confl \in DOMAIN clauses
          /\ \A l \in Lits(clauses[confl]) : LitFalse(l)
          /\ \E l \in Lits(clauses[confl]) : level[l.var] = DecisionLevel
      BY <2>1 DEF ConflictFound
    <2>4. FirstClause'
      BY <2>1, <2>2, <2>3 DEF FirstClause, Lits, LitFalse, DecisionLevel
    <2> QED BY <2>1, <2>3, <2>4 DEF ResolventRight
  <1>4. CASE MarkClause
    <2>1. UNCHANGED assign /\ pc' = "walk" BY <1>4, ClauseMarked
    <2>2. Marked' # {} /\ Entailed(learnt' \cup FalseLits(Marked')) BY <1>4, MarkClauseResolvent
    <2>3. PICK S : S = learnt' \cup FalseLits(Marked') OBVIOUS
    <2>4. (learnt \cup FalseLits(Marked))' = S BY <2>1, <2>3 DEF FalseLits, FalseLit
    <2>5. Entailed(S)' BY <1>2, <2>2, <2>3, EntailedSame
    <2>6. Entailed(learnt \cup FalseLits(Marked))' BY <2>4, <2>5 DEF Entailed
    <2> QED BY <2>1, <2>2, <2>6 DEF ResolventRight
  <1>5. CASE WalkTrail
    <2>1. PICK p \in 1 .. Len(trail), v \in Vars :
             /\ v = trail[p] /\ v \in Marked /\ pivot' = v /\ idx' = p - 1
             /\ UNCHANGED <<assign, level, trail, trail_lim, learnt, clauses>>
             /\ pc = "walk" /\ seen' = [seen EXCEPT ![v] = FALSE]
             /\ Marked' = Marked \ {v} /\ counter' = Cardinality(Marked')
             /\ \A u \in Marked' : \E q \in 1 .. p - 1 : trail[q] = u
             /\ \/ pc' = "form" /\ Marked = {v}
                \/ /\ pc' = "mark" /\ Marked' # {} /\ reason[v] # 0
                   /\ confl' = reason[v]
      BY <1>5, Walked
    <2>2. Entailed(learnt \cup FalseLits(Marked)) BY <2>1 DEF ResolventRight
    <2>3. assign[v] # "none" /\ level[v] = DecisionLevel
      BY <2>1 DEF MarksRight, Marked
    <2>4. PICK S : S = learnt \cup FalseLits(Marked) OBVIOUS
    <2>5. Entailed(S)' BY <1>2, <2>2, <2>4, EntailedSame
    <2>6. CASE pc' = "form"
      <3>1. (learnt \cup {FalseLit(pivot)})' = S BY <2>1, <2>4, <2>6 DEF FalseLits, FalseLit
      <3>2. Entailed(learnt \cup {FalseLit(pivot)})' BY <2>5, <3>1 DEF Entailed
      <3>3. Marked' = {} BY <2>1, <2>6
      <3> QED BY <2>1, <2>3, <2>6, <3>2, <3>3 DEF ResolventRight, DecisionLevel
    <2>7. CASE pc' = "mark"
      <3>1. /\ Marked' # {} /\ reason[v] # 0 /\ confl' = reason[v] BY <2>1, <2>7
      <3>2. (learnt \cup FalseLits(Marked \cup {pivot}))' = S
        <4>1. Marked' \cup {v} = Marked BY <2>1
        <4> QED BY <2>1, <2>4, <4>1 DEF FalseLits, FalseLit
      <3>3. Entailed(learnt \cup FalseLits(Marked \cup {pivot}))' BY <2>5, <3>2 DEF Entailed
      <3>4. p \in DOMAIN trail /\ DOMAIN trail = 1 .. Len(trail) /\ Len(trail) \in Nat BY AsgDomains
      <3>5. /\ reason[v] \in DOMAIN clauses
            /\ \A l \in Lits(clauses[reason[v]]) :
                \/ l = TrueLit(v)
                \/ LitFalse(l) /\ \E q \in 1 .. p - 1 : trail[q] = l.var
        BY <2>1, <3>1, <3>4, AntecedentIs
      <3>6. ASSUME NEW l \in Lits(clauses[reason[v]]), l # TrueLit(v)
            PROVE  LitFalse(l) /\ l.var # v /\ \E q \in 1 .. p - 1 : trail[q] = l.var
        <4>1. PICK q \in 1 .. p - 1 : trail[q] = l.var BY <3>5, <3>6
        <4>2. q \in DOMAIN trail /\ q # p BY <3>4
        <4>3. l.var # v BY <2>1, <3>4, <4>1, <4>2 DEF TrailExact
        <4> QED BY <3>5, <3>6, <4>1, <4>3
      <3>7. ~seen'[v] BY <2>1 DEF AnaTypes
      <3>8. \A l : (LitFalse(l)' <=> LitFalse(l)) /\ DecisionLevel' = DecisionLevel
        BY <2>1 DEF LitFalse, DecisionLevel
      <3>9. TrueLit(pivot)' = TrueLit(v) /\ Lits(clauses[confl])' = Lits(clauses[reason[v]])
        BY <2>1, <3>1 DEF TrueLit, Lits
      <3>10. LaterClause'
        BY <2>1, <2>3, <3>1, <3>3, <3>6, <3>7, <3>8, <3>9 DEF LaterClause
      <3> QED BY <2>1, <2>7, <3>1, <3>5, <3>10 DEF ResolventRight
    <2> QED BY <2>1, <2>6, <2>7
  <1>6. CASE pc' \notin {"mark", "walk", "form"} BY <1>6 DEF ResolventRight
  <1> QED BY <1>1, <1>3, <1>4, <1>5, <1>6, EnteredBy

(* The asserting literal is written once: the n other places of the lemma are taken
   by the n literals of learnt. *)
LEMMA LearntPlaces ==
    ASSUME IInv, FormLemma
    PROVE  \A k \in 2 .. Len(lemma') : lemma'[k] \in learnt
  <1> USE DEF IInv, TrailInv, TypeOK
  <1>1. PICK n \in Nat : n = Cardinality(learnt) BY FormedLemma
  <1>2. PICK u : u = FalseLit(pivot) OBVIOUS
  <1>3. PICK c : c = lemma' OBVIOUS
  <1>4. /\ Len(c) = n + 1 /\ IsFiniteSet(learnt) /\ c \in [1 .. n + 1 -> learnt \cup {u}]
        /\ \A l \in learnt : \E k \in 2 .. n + 1 : c[k] = l
    BY <1>1, <1>2, <1>3, FormedLemma
  <1>5. pc = "form" BY DEF FormLemma
  <1>6. u \notin learnt
    <2>1. u.var = pivot /\ level[pivot] = DecisionLevel BY <1>2, <1>5 DEF ResolventRight, FalseLit
    <2>2. \A l \in learnt : level[l.var] \in 1 .. DecisionLevel - 1 BY <1>5 DEF MarksRight
    <2>3. DecisionLevel \in Nat BY AsgDomains DEF DecisionLevel
    <2> QED BY <2>1, <2>2, <2>3
  <1>7. SUFFICES ASSUME NEW k \in 2 .. n + 1, c[k] = u PROVE FALSE
    BY <1>3, <1>4
  <1>8. PICK f : f = [j \in 2 .. n + 1 |-> c[j]] OBVIOUS
  <1>9. f \in Surjection(2 .. n + 1, learnt \cup {u})
    <2>1. f \in [2 .. n + 1 -> learnt \cup {u}] BY <1>4, <1>8
    <2>2. \A l \in learnt \cup {u} : \E j \in 2 .. n + 1 : f[j] = l BY <1>4, <1>7, <1>8
    <2> QED BY <2>1, <2>2 DEF Surjection
  <1>10. IsFiniteSet(2 .. n + 1) /\ Cardinality(2 .. n + 1) = n
    <2>1. 2 \in Int /\ n + 1 \in Int OBVIOUS
    <2>2. /\ IsFiniteSet(2 .. n + 1)
          /\ Cardinality(2 .. n + 1) = IF 2 > n + 1 THEN 0 ELSE (n + 1) - 2 + 1
      BY <2>1, FS_Interval
    <2> QED BY <2>2
  <1>11. Cardinality(learnt \cup {u}) <= n
    BY <1>9, <1>10, FS_Surjection
  <1>12. Cardinality(learnt \cup {u}) = n + 1
    BY <1>1, <1>4, <1>6, FS_AddElement
  <1> QED BY <1>11, <1>12

LEMMA FormLemmaRight ==
    ASSUME IInv, [Next]_vars, FormLemma
    PROVE  LemmaRight'
  <1> USE DEF IInv, TrailInv, TypeOK
  <1>0. formula' = formula BY Effects
  <1>1. pc = "form" /\ pc' = "backjump" /\ UNCHANGED <<assign, level, trail_lim>>
    BY DEF FormLemma, asg
  <1>2. PICK n \in Nat : n = Cardinality(learnt) BY FormedLemma
  <1>3. PICK u \in Lit : u = FalseLit(pivot) BY FormedLemma
  <1>4. PICK c \in Seq(Lit) : c = lemma' BY FormedLemma
  <1>5. /\ Len(c) = n + 1 /\ c[1] = u
        /\ \A l \in learnt : \E k \in 2 .. n + 1 : c[k] = l
        /\ \A k \in 2 .. n + 1 : level[c[k].var] <= level[c[2].var]
        /\ btlevel' = IF n = 0 THEN 0 ELSE level[c[2].var]
        /\ \A k \in 2 .. n + 1 : c[k] \in learnt
    BY <1>2, <1>3, <1>4, FormedLemma, LearntPlaces
  <1>6. /\ pivot \in Vars /\ assign[pivot] # "none" /\ level[pivot] = Len(trail_lim)
        /\ Entailed(learnt \cup {u})
        /\ \A l \in learnt : LitFalse(l) /\ level[l.var] \in 1 .. Len(trail_lim) - 1
    BY <1>1, <1>3 DEF ResolventRight, MarksRight, DecisionLevel
  <1>7. Len(trail_lim) \in Nat /\ Len(trail_lim) > 0
    <2>1. trail_lim # <<>> BY <1>1 DEF ControlOK
    <2> QED BY <2>1, EmptySeq, LenProperties DEF AsgTypes
  <1>8. LitFalse(u) /\ level[u.var] = Len(trail_lim)
    <2>1. assign[pivot] \in Bool BY <1>6, AsgDomains
    <2> QED BY <1>3, <1>6, <2>1, LitTypes DEF LitFalse, FalseLit
  <1>9. Entailed(Lits(c))
    <2>1. learnt \cup {u} \subseteq Lits(c)
      <3>1. DOMAIN c = 1 .. n + 1 BY <1>5, LenProperties
      <3>2. \A k \in 1 .. n + 1 : c[k] \in Lits(c) BY <3>1 DEF Lits
      <3>3. \A l \in learnt : l \in Lits(c) BY <1>5, <3>2
      <3> QED BY <1>5, <3>2, <3>3
    <2> QED BY <1>6, <2>1, EntailedWeaker
  <1>10. Entailed(Lits(lemma))' BY <1>0, <1>4, <1>9 DEF Entailed, ModelOf, Lits
  <1>11. \A k \in 2 .. n + 1 : LitFalse(c[k]) /\ level[c[k].var] <= btlevel'
    BY <1>5, <1>6
  <1>12. n >= 1 => /\ btlevel' >= 1 /\ level[c[2].var] = btlevel'
                   /\ btlevel' < Len(trail_lim)
    <2>1. ASSUME n >= 1 PROVE c[2] \in learnt BY <1>5, <2>1
    <2> QED BY <1>5, <1>6, <1>7, <2>1
  <1>13. btlevel' < Len(trail_lim) BY <1>5, <1>7, <1>12
  <1>14. \A l : LitFalse(l)' <=> LitFalse(l) BY <1>1 DEF LitFalse
  <1>15. /\ Len(lemma') >= 1 /\ Len(lemma') = n + 1 BY <1>4, <1>5
  <1>16. /\ Entailed(Lits(lemma))'
         /\ \A k \in 2 .. Len(lemma') : LitFalse(lemma[k])' /\ level'[lemma'[k].var] <= btlevel'
    <2> SUFFICES ASSUME NEW k \in 2 .. n + 1
                 PROVE  LitFalse(lemma[k])' /\ level'[lemma'[k].var] <= btlevel'
      BY <1>10, <1>15
    <2> QED BY <1>1, <1>4, <1>11 DEF LitFalse
  <1>17. /\ Len(lemma') = 1 => btlevel' = 0
         /\ Len(lemma') >= 2 => btlevel' >= 1 /\ level'[lemma'[2].var] = btlevel'
    BY <1>1, <1>4, <1>5, <1>12, <1>15
  <1>18. /\ btlevel' < DecisionLevel'
         /\ LitFalse(lemma[1])' /\ level'[lemma'[1].var] = DecisionLevel'
    BY <1>1, <1>4, <1>5, <1>8, <1>13 DEF LitFalse, DecisionLevel
  <1> QED BY <1>1, <1>15, <1>16, <1>17, <1>18 DEF LemmaRight

(* The backjump frees the asserting literal and keeps the others false. *)
LEMMA BackjumpLemma ==
    ASSUME IInv, [Next]_vars, Backjump
    PROVE  LemmaRight'
  <1> USE DEF IInv, TrailInv, TypeOK
  <1>0. formula' = formula BY Effects
  <1>1. /\ pc = "backjump" /\ pc' = "add" /\ BacktrackTo(btlevel) /\ UNCHANGED <<lemma, btlevel>>
    BY DEF Backjump, lem
  <1>2. /\ Len(lemma) >= 1 /\ Entailed(Lits(lemma))
        /\ \A k \in 2 .. Len(lemma) : LitFalse(lemma[k]) /\ level[lemma[k].var] <= btlevel
        /\ Len(lemma) = 1 => btlevel = 0
        /\ Len(lemma) >= 2 => btlevel >= 1 /\ level[lemma[2].var] = btlevel
        /\ btlevel < Len(trail_lim) /\ btlevel \in Nat
        /\ LitFalse(lemma[1]) /\ level[lemma[1].var] = Len(trail_lim)
    BY <1>1 DEF LemmaRight, LemTypes, DecisionLevel
  <1>3. /\ Len(trail_lim') = btlevel /\ level' = level
        /\ \A v \in Vars : assign'[v] = IF assign[v] # "none" /\ level[v] <= btlevel
                                        THEN assign[v] ELSE "none"
    BY <1>1, <1>2, BacktrackTrail DEF Trail
  <1>4. Len(lemma) \in Nat /\ \A k \in 1 .. Len(lemma) : lemma[k] \in Lit
    BY LenProperties, ElementOfSeq DEF LemTypes
  <1>5. ASSUME NEW k \in 2 .. Len(lemma)
        PROVE  LitFalse(lemma[k])' /\ level'[lemma'[k].var] <= btlevel'
    <2>1. PICK l \in Lit : l = lemma[k] BY <1>4
    <2>2. l.var \in Vars /\ assign[l.var] # "none" /\ LitFalse(l) /\ level[l.var] <= btlevel
      BY <1>2, <2>1, LitTypes, FalseAssigned
    <2>3. assign'[l.var] = assign[l.var] BY <1>3, <2>2
    <2> QED BY <1>1, <1>3, <2>1, <2>2, <2>3 DEF LitFalse
  <1>6. LitFree(lemma[1])'
    <2>1. lemma[1].var \in Vars BY <1>2, <1>4, LitTypes
    <2>2. ~(level[lemma[1].var] <= btlevel) BY <1>2, AsgDomains
    <2> QED BY <1>1, <1>3, <2>1, <2>2 DEF LitFree
  <1>7. Entailed(Lits(lemma))' BY <1>0, <1>1, <1>2 DEF Entailed, ModelOf, Lits
  <1> QED BY <1>1, <1>2, <1>3, <1>5, <1>6, <1>7 DEF LemmaRight, DecisionLevel

LEMMA LemmaNext ==
    ASSUME IInv, [Next]_vars
    PROVE  LemmaRight'
  <1> USE DEF IInv, TrailInv, TypeOK
  <1>1. CASE UNCHANGED vars
    <2>1. UNCHANGED <<formula, assign, level, trail_lim, lemma, btlevel, pc>>
      BY <1>1 DEF vars, asg, lem
    <2>2. Entailed(Lits(lemma))' <=> Entailed(Lits(lemma))
      BY <2>1 DEF Entailed, ModelOf, Lits
    <2> QED BY <2>1, <2>2 DEF LemmaRight, LitFalse, LitFree, DecisionLevel
  <1>2. CASE pc' \notin {"backjump", "add"} BY <1>2 DEF LemmaRight
  <1> QED BY <1>1, <1>2, FormLemmaRight, BackjumpLemma, EnteredBy

-----------------------------------------------------------------------------
(* The answers. *)

(* A stored clause whose literals are all false at level 0 refutes the input. *)
LEMMA RefutedAtZero ==
    ASSUME IInv, NEW i \in DOMAIN clauses, trail_lim = <<>>,
           \A l \in Lits(clauses[i]) : LitFalse(l)
    PROVE  ~Satisfiable(formula)
  <1> USE DEF IInv, TrailInv, TypeOK
  <1>1. SUFFICES ASSUME NEW M \in Assignments, ModelOf(M, formula) PROVE FALSE
    BY DEF Satisfiable
  <1>2. Entailed(Lits(clauses[i])) BY DEF StoreEntailed
  <1>3. PICK l \in Lits(clauses[i]) : Holds(l, M) BY <1>1, <1>2 DEF Entailed
  <1>4. l \in Lit /\ LitFalse(l) BY <1>3, DbDomains
  <1>5. l.var \in Vars /\ assign[l.var] # "none" BY <1>4, LitTypes, FalseAssigned
  <1>6. level[l.var] = 0
    <2>1. Len(trail_lim) = 0 OBVIOUS
    <2> QED BY <1>5, <2>1, AssignedLevel
  <1> QED BY <1>1, <1>3, <1>4, <1>6, LevelZeroHolds

(* In a quiet state a stored clause has a true literal once all variables are
   assigned: its first watch, or the second one that excuses it. *)
LEMMA AllSatisfied ==
    ASSUME IInv, pc = "decide", \A v \in Vars : assign[v] # "none", NEW i \in DOMAIN clauses
    PROVE  \E l \in Lits(clauses[i]) : LitTrue(l)
  <1> USE DEF IInv, TrailInv, TypeOK
  <1>1. PICK c \in Seq(Lit) : c = clauses[i] BY DbDomains
  <1>2. /\ i \in 1 .. Len(clauses) /\ Len(c) \in Nat /\ DOMAIN c = 1 .. Len(c)
        /\ \A k \in 1 .. Len(c) : c[k] \in Lit /\ c[k] \in Lits(c)
    BY <1>1, DbDomains, LenProperties, ElementOfSeq DEF Lits
  <1>3. Len(c) # 0 /\ (Len(c) = 1 => LitTrue(c[1])) BY <1>1 DEF UnitsSettled
  <1>4. CASE Len(c) = 1 BY <1>1, <1>2, <1>3, <1>4
  <1>5. CASE Len(c) >= 2
    <2>1. c[1] \in Lit /\ c[1] \in Lits(c) /\ c[2] \in Lits(c) BY <1>2, <1>5
    <2>2. WatchedAt(i) BY <1>2 DEF Watched
    <2>3. ~Pending(i, c[1])
      <3>1. pc \in Quiet BY DEF Quiet
      <3> QED BY <2>1, <3>1, PendingLevel
    <2>4. LitFalse(c[1]) => LitTrue(c[2]) BY <1>1, <1>5, <2>2, <2>3, WatchedIs
    <2>5. LitTrue(c[1]) \/ LitFalse(c[1])
      <3>1. c[1].var \in Vars BY <2>1, LitTypes
      <3>2. ~LitFree(c[1]) BY <3>1 DEF LitFree
      <3> QED BY <2>1, <3>1, <3>2, AsgDomains, FalseAssigned
    <2> QED BY <1>1, <2>1, <2>4, <2>5
  <1> QED BY <1>2, <1>3, <1>4, <1>5

LEMMA AnswersNext ==
    ASSUME IInv, [Next]_vars
    PROVE  AnswersSound'
  <1> USE DEF IInv, TrailInv, TypeOK
  <1>1. CASE UNCHANGED vars
    <2>1. UNCHANGED <<formula, assign, result>> BY <1>1 DEF vars, asg
    <2> QED BY <2>1 DEF AnswersSound, UnsatSound, SatModel, Satisfiable, ModelOf, LitTrue
  <1>2. formula' = formula BY Effects
  <1>3. ASSUME result' \in {"none", "unknown"} PROVE AnswersSound'
    BY <1>3 DEF AnswersSound, UnsatSound, SatModel
  <1>4. ASSUME result' = "unsat", ~Satisfiable(formula) PROVE AnswersSound'
    BY <1>2, <1>4 DEF AnswersSound, UnsatSound, SatModel, Satisfiable, ModelOf
  <1>5. DOMAIN clauses = 1 .. Len(clauses) /\ Len(clauses) \in Nat BY DbDomains
  <1>6. CASE SeedUnsat
    <2>1. /\ pc = "seed" /\ seed <= Len(clauses) /\ result' = "unsat"
          /\ \/ Len(clauses[seed]) = 0
             \/ Len(clauses[seed]) = 1 /\ LitFalse(clauses[seed][1])
      BY <1>6 DEF SeedUnsat, Return
    <2>2. seed \in DOMAIN clauses BY <1>5, <2>1 DEF ControlTypes
    <2>3. trail_lim = <<>> BY <2>1 DEF ControlOK
    <2>4. DOMAIN clauses[seed] = 1 .. Len(clauses[seed]) /\ Len(clauses[seed]) \in Nat
      BY <1>5, <2>2, DbDomains
    <2>5. \A l \in Lits(clauses[seed]) : LitFalse(l)
      <3> SUFFICES ASSUME NEW k \in 1 .. Len(clauses[seed]) PROVE LitFalse(clauses[seed][k])
        BY <2>4 DEF Lits
      <3>1. PICK n \in Nat : n = Len(clauses[seed]) BY <2>4
      <3>2. n = 0 \/ n = 1 BY <2>1, <3>1
      <3>3. k \in 1 .. n BY <3>1
      <3>4. k = 1 /\ n = 1 BY <3>2, <3>3
      <3> QED BY <2>1, <3>1, <3>4
    <2> QED BY <1>4, <2>1, <2>2, <2>3, <2>5, RefutedAtZero
  <1>7. CASE ConflictUnsat
    <2>1. pc = "conflict" /\ trail_lim = <<>> /\ result' = "unsat"
      BY <1>7 DEF ConflictUnsat, Return
    <2>2. confl \in DOMAIN clauses /\ \A l \in Lits(clauses[confl]) : LitFalse(l)
      BY <2>1 DEF ConflictFound
    <2> QED BY <1>4, <2>1, <2>2, RefutedAtZero
  <1>8. CASE AllAssigned
    <2>1. /\ pc = "decide" /\ result' = "sat" /\ \A v \in Vars : assign[v] # "none"
          /\ assign' = assign
      BY <1>8 DEF AllAssigned, Return, asg
    <2>2. ASSUME NEW i \in DOMAIN formula
          PROVE  \E k \in DOMAIN formula[i] : LitTrue(formula[i][k])
      <3>1. PICK j \in DOMAIN clauses : Lits(clauses[j]) = Lits(formula[i])
        BY <2>2 DEF InputKept
      <3>2. PICK l \in Lits(formula[i]) : LitTrue(l) BY <2>1, <3>1, AllSatisfied
      <3> QED BY <3>2 DEF Lits
    <2>3. SatModel' BY <1>2, <2>1, <2>2 DEF SatModel, LitTrue
    <2> QED BY <2>1, <2>3 DEF AnswersSound, UnsatSound
  <1>9. CASE ConflictTimeout \/ OutOfBudget \/ DecideTimeout
    BY <1>3, <1>9 DEF ConflictTimeout, OutOfBudget, DecideTimeout, Return
  <1>10. ASSUME ~UNCHANGED vars, pc' # "done" PROVE AnswersSound'
    <2>1. pc # "done" /\ result' = result BY <1>10, EnteredBy
    <2>2. result = "none" BY <2>1 DEF ControlOK
    <2> QED BY <1>3, <2>1, <2>2
  <1> QED BY <1>1, <1>6, <1>7, <1>8, <1>9, <1>10, EnteredBy

-----------------------------------------------------------------------------
(* The invariant is inductive. *)

LEMMA InitTypes ==
    ASSUME Init
    PROVE  TypeOK
  <1> USE DEF Init
  <1>1. formula \in Seq(Seq(Lit)) BY FormulasAssumption
  <1>2. PICK n \in Nat : n = Len(formula) BY <1>1, LenProperties
  <1>3. DOMAIN formula = 1 .. n /\ \A i \in 1 .. n : formula[i] \in Seq(Lit)
    BY <1>1, <1>2, LenProperties, ElementOfSeq
  <1>4. lbd \in Seq(Nat) /\ Len(lbd) = n
    <2>1. lbd \in [1 .. n -> Nat] BY <1>3
    <2> QED BY <2>1, SeqDef, LenProperties
  <1>5. watches \in Seq([Lit -> Nat]) /\ Len(watches) = n
    <2>1. watches = [i \in 1 .. n |-> WatchEntries(formula[i])] BY <1>3
    <2>2. \A i \in 1 .. n : WatchEntries(formula[i]) \in [Lit -> Nat]
      BY <1>3, WatchCountTypes
    <2>3. watches \in [1 .. n -> [Lit -> Nat]] BY <2>1, <2>2
    <2> QED BY <2>3, SeqDef, LenProperties
  <1>6. DbTypes BY <1>1, <1>2, <1>4, <1>5 DEF DbTypes
  <1>7. AsgTypes BY DEF AsgTypes
  <1>8. AnaTypes /\ LemTypes BY DEF AnaTypes, LemTypes
  <1>9. PropTypes BY DEF PropTypes
  <1>10. HeurTypes
    <2>1. n \div 3 \in Nat BY <1>2
    <2>2. max_learnt \in Nat BY <1>2, <2>1, BoundsAssumption DEF num_original
    <2> QED BY <2>2, BoundsAssumption DEF HeurTypes
  <1>11. ControlTypes BY DEF ControlTypes, PCs
  <1> QED BY <1>6, <1>7, <1>8, <1>9, <1>10, <1>11 DEF TypeOK

LEMMA InitInv == Init => IInv
  <1> SUFFICES ASSUME Init PROVE IInv OBVIOUS
  <1> USE DEF Init
  <1>1. TypeOK BY InitTypes
  <1>2. DbTypes /\ AsgTypes BY <1>1 DEF TypeOK
  <1>3. TrailExact /\ LevelsCut /\ DecisionsFirst /\ Antecedents
    BY DEF TrailExact, LevelsCut, DecisionsFirst, Antecedents
  <1>4. QueueCurrent /\ ControlOK BY DEF QueueCurrent, ControlOK, Quiet
  <1>5. WatchListsExact
    <2>1. ASSUME NEW i \in DOMAIN clauses, NEW l \in Lit
          PROVE  watches[i][l] + 0 = WatchCount(clauses[i], l)
      <3>1. clauses[i] \in Seq(Lit) BY <1>2, DbDomains
      <3>2. watches[i] = WatchEntries(clauses[i]) OBVIOUS
      <3> QED BY <3>1, <3>2, WatchCountTypes
    <2> QED BY <2>1 DEF WatchListsExact
  <1>6. Watched
    <2>1. ASSUME NEW l \in Lit PROVE ~LitFalse(l) BY <2>1, LitTypes DEF LitFalse, Bool
    <2>2. SUFFICES ASSUME NEW i \in DOMAIN clauses, NEW k \in {1, 2}, Len(clauses[i]) >= 2
                   PROVE  ~LitFalse(clauses[i][k])
      BY DEF Watched, WatchedAt
    <2>3. clauses[i][k] \in Lit
      <3>1. i \in 1 .. Len(clauses) /\ k \in 1 .. Len(clauses[i]) BY <1>2, <2>2, DbDomains
      <3> QED BY <1>2, <3>1, DbDomains
    <2> QED BY <2>1, <2>3
  <1>7. UnitsSettled
    <2>1. \A i \in DOMAIN clauses : ~(i < 1) BY <1>2, DbDomains
    <2> QED BY <2>1 DEF UnitsSettled
  <1>8. InputKept BY DEF InputKept
  <1>9. StoreEntailed
    <2> SUFFICES ASSUME NEW i \in DOMAIN formula, NEW M \in Assignments, ModelOf(M, formula)
                 PROVE  \E l \in Lits(formula[i]) : Holds(l, M)
      BY DEF StoreEntailed, Entailed
    <2>1. PICK k \in DOMAIN formula[i] : Holds(formula[i][k], M) BY DEF ModelOf
    <2> QED BY <2>1 DEF Lits
  <1>10. LevelZeroEntailed BY DEF LevelZeroEntailed
  <1>11. MarksRight BY DEF MarksRight
  <1>12. ConflictFound /\ ResolventRight /\ LemmaRight
    BY DEF ConflictFound, ResolventRight, LemmaRight
  <1>13. AnswersSound BY DEF AnswersSound, UnsatSound, SatModel
  <1> QED BY <1>1, <1>3, <1>4, <1>5, <1>6, <1>7, <1>8, <1>9, <1>10, <1>11, <1>12, <1>13
          DEF IInv, TrailInv

LEMMA NextInv == IInv /\ [Next]_vars => IInv'
  BY TrailInvNext, ListsNext, WatchedNext, UnitsNext, InputNext, StoreNext, LevelZeroNext,
     MarksNext, ConflictNext, ResolventNext, LemmaNext, AnswersNext DEF IInv

(* The inductive invariant holds in every state solve reaches: the trail, the watch
   lists, the antecedents and the state of analyze are what they should be. *)
THEOREM SolverInvariant == Spec => []IInv
  BY InitInv, NextInv, PTL DEF Spec

-----------------------------------------------------------------------------
(* What it implies. *)

(* Where the code indexes without a test: the reasons of assigned variables and the
   conflict name stored clauses; a level's cut lies on the trail and the backjump goes to
   a level there is; the walk of analyze is on the trail; a clause in a watch list, or taken
   out of one by propagate, has two literals to look at, and a lemma has a first one. *)
IndicesInRange ==
    /\ \A v \in Vars : assign[v] # "none" => reason[v] \in 0 .. Len(clauses)
    /\ pc \in {"conflict", "mark"} => confl \in 1 .. Len(clauses)
    /\ \A j \in DOMAIN trail_lim : trail_lim[j] < Len(trail)
    /\ pc \in {"backjump", "add"} => btlevel <= Len(trail_lim) /\ Len(lemma) >= 1
    /\ pc \in {"mark", "walk"} => idx <= Len(trail)
    /\ pc = "walk" => idx >= 1
    /\ \A i \in DOMAIN clauses, l \in Lit :
         (watches[i][l] > 0 \/ (pc = "visit" /\ l = false_lit /\ todo[i] > 0)) => Len(clauses[i]) >= 2

(* Every variable of the solver keeps its type and no index of a clause, of the trail,
   of a level or of a watched literal is ever out of range, whatever the formula, the
   budget and the decisions. *)
THEOREM SolverTypes == Spec => [](TypeOK /\ IndicesInRange)
  <1>1. IInv => TypeOK BY DEF IInv, TrailInv
  <1>2. ASSUME IInv PROVE IndicesInRange
    <2> USE <1>2
    <2>1. TypeOK BY <1>1
    <2>2. /\ clauses \in Seq(Seq(Lit)) /\ trail \in Seq(Vars) /\ trail_lim \in Seq(Nat)
          /\ reason \in [Vars -> Nat] /\ idx \in Nat /\ btlevel \in Nat
          /\ watches \in Seq([Lit -> Nat]) /\ Len(watches) = Len(clauses)
      BY <2>1 DEF TypeOK, DbTypes, AsgTypes, AnaTypes, LemTypes
    <2>3. \A v \in Vars : assign[v] # "none" => reason[v] \in 0 .. Len(clauses)
      <3> SUFFICES ASSUME NEW v \in Vars, assign[v] # "none" PROVE reason[v] \in 0 .. Len(clauses)
        OBVIOUS
      <3>1. PICK p \in DOMAIN trail : trail[p] = v BY DEF IInv, TrailInv, TrailExact
      <3>2. reason[v] # 0 => reason[v] \in DOMAIN clauses
        BY <3>1 DEF IInv, TrailInv, Antecedents
      <3> QED BY <2>2, <3>2
    <2>4. pc \in {"conflict", "mark"} => confl \in 1 .. Len(clauses)
      BY <2>2 DEF IInv, ConflictFound, ResolventRight
    <2>5. \A j \in DOMAIN trail_lim : trail_lim[j] < Len(trail) BY DEF IInv, TrailInv, LevelsCut
    <2>6. pc \in {"backjump", "add"} => btlevel <= Len(trail_lim) /\ Len(lemma) >= 1
      BY <2>2 DEF IInv, LemmaRight, DecisionLevel
    <2>7. pc \in {"mark", "walk"} => idx <= Len(trail) BY DEF IInv, MarksRight
    <2>8. pc = "walk" => idx >= 1
      <3> SUFFICES ASSUME pc = "walk" PROVE idx >= 1 OBVIOUS
      <3>1. PICK v \in Marked : TRUE BY DEF IInv, ResolventRight
      <3>2. PICK p \in 1 .. idx : trail[p] = v BY <3>1 DEF IInv, MarksRight
      <3> QED BY <2>2, <3>2
    <2>9. \A i \in DOMAIN clauses, l \in Lit :
            (watches[i][l] > 0 \/ (pc = "visit" /\ l = false_lit /\ todo[i] > 0)) => Len(clauses[i]) >= 2
      <3> SUFFICES ASSUME NEW i \in DOMAIN clauses, NEW l \in Lit, ~(Len(clauses[i]) >= 2)
                   PROVE  /\ watches[i][l] = 0
                          /\ pc = "visit" /\ l = false_lit => todo[i] = 0
        BY <2>2
      <3>1. WatchCount(clauses[i], l) = 0 BY DEF WatchCount
      <3>2. watches[i][l] \in Nat BY <2>2
      <3>3. pc = "visit" => todo[i] \in Nat
        BY <2>1, <2>2 DEF TypeOK, PropTypes
      <3>4. watches[i][l] + (IF pc = "visit" /\ l = false_lit THEN todo[i] ELSE 0) = 0
        BY <3>1 DEF IInv, WatchListsExact
      <3> QED BY <3>2, <3>3, <3>4
    <2> QED BY <2>3, <2>4, <2>5, <2>6, <2>7, <2>8, <2>9 DEF IndicesInRange
  <1> QED BY <1>1, <1>2, SolverInvariant, PTL

(* solve answers Unsat only for an unsatisfiable input and Sat only with an
   assignment that satisfies it, for every formula. *)
THEOREM SolverAnswersSound == Spec => []AnswersSound
  <1>1. IInv => AnswersSound BY DEF IInv
  <1> QED BY <1>1, SolverInvariant, PTL

(* The watch lists hold exactly the entries the clauses call for, and between
   propagations no clause is unit or false unnoticed, across backjumps, restarts and
   reduce_db. *)
THEOREM SolverWatchesRight == Spec => []WatchesRight
  <1>1. ASSUME IInv PROVE WatchesRight
    <2> USE DEF IInv, TrailInv, TypeOK
    <2>1. SUFFICES ASSUME pc \in {"search", "reduce", "decide"}, NEW i \in DOMAIN clauses,
                          Len(clauses[i]) >= 2, NEW k \in {1, 2}, LitFalse(clauses[i][k])
                   PROVE  /\ LitTrue(clauses[i][3 - k])
                          /\ level[clauses[i][3 - k].var] <= level[clauses[i][k].var]
      BY <1>1 DEF WatchesRight, NoMissedImplication
    <2>2. clauses[i][k] \in Lit
      <3>1. i \in 1 .. Len(clauses) /\ k \in 1 .. Len(clauses[i]) BY <1>1, <2>1, DbDomains
      <3> QED BY <1>1, <3>1, DbDomains
    <2>3. pc \in Quiet BY <2>1 DEF Quiet
    <2>4. ~Pending(i, clauses[i][k]) BY <1>1, <2>2, <2>3, PendingLevel
    <2>5. WatchedAt(i) BY <1>1 DEF Watched
    <2> QED BY <2>1, <2>4, <2>5 DEF WatchedAt
  <1> QED BY <1>1, SolverInvariant, PTL

(* The antecedent of an assigned variable is the clause that forced it, also after
   reduce_db has renumbered the clauses. *)
THEOREM SolverReasonForces == Spec => []ReasonForces
  <1>1. ASSUME IInv PROVE ReasonForces
    <2> USE DEF IInv, TrailInv, TypeOK
    <2>1. SUFFICES ASSUME NEW v \in Vars, assign[v] # "none", reason[v] # 0
                   PROVE  /\ reason[v] <= Len(clauses)
                          /\ TrueLit(v) \in Lits(clauses[reason[v]])
                          /\ \A l \in Lits(clauses[reason[v]]) :
                               l.var # v => LitFalse(l) /\ level[l.var] <= level[v]
      BY DEF ReasonForces, TrueLit
    <2>2. PICK p \in 1 .. Len(trail) : trail[p] = v BY <1>1, <2>1, AssignedLevel
    <2>3. p \in DOMAIN trail /\ reason[trail[p]] # 0 /\ Len(trail) \in Nat
      BY <1>1, <2>1, <2>2, AsgDomains
    <2>4. /\ reason[v] \in DOMAIN clauses
          /\ TrueLit(v) \in Lits(clauses[reason[v]])
          /\ \A l \in Lits(clauses[reason[v]]) :
                \/ l = TrueLit(v)
                \/ LitFalse(l) /\ \E q \in 1 .. p - 1 : trail[q] = l.var
      BY <1>1, <2>2, <2>3, AntecedentIs
    <2>5. reason[v] <= Len(clauses) BY <1>1, <2>4, DbDomains
    <2>6. ASSUME NEW l \in Lits(clauses[reason[v]]), l.var # v
          PROVE  LitFalse(l) /\ level[l.var] <= level[v]
      <3>1. l # TrueLit(v) BY <2>6 DEF TrueLit
      <3>2. PICK q \in 1 .. p - 1 : trail[q] = l.var BY <2>4, <2>6, <3>1
      <3>3. q \in 1 .. Len(trail) /\ q <= p BY <2>3, <3>2
      <3>4. level[trail[q]] <= level[trail[p]] BY <1>1, <3>3, LevelsRise
      <3> QED BY <2>2, <2>4, <2>6, <3>1, <3>2, <3>4
    <2> QED BY <2>4, <2>5, <2>6
  <1> QED BY <1>1, SolverInvariant, PTL

(* A clause without repeated literals has two different watches. *)
LEMMA WatchesDiffer ==
    ASSUME NEW c \in Seq(Lit), Cardinality(Lits(c)) = Len(c), Len(c) >= 2
    PROVE  c[1] # c[2]
  <1>1. PICK n \in Nat : n = Len(c) BY LenProperties
  <1>2. DOMAIN c = 1 .. n /\ c \in [1 .. n -> Lit] BY <1>1, LenProperties, SeqDef
  <1>3. c \in Surjection(1 .. n, Lits(c)) BY <1>2 DEF Surjection, Lits
  <1>4. IsFiniteSet(1 .. n) /\ Cardinality(1 .. n) = n
    <2>1. 1 \in Int /\ n \in Int BY <1>1
    <2>2. /\ IsFiniteSet(1 .. n)
          /\ Cardinality(1 .. n) = IF 1 > n THEN 0 ELSE n - 1 + 1
      BY <2>1, FS_Interval
    <2> QED BY <1>1, <2>2
  <1>5. c \in Injection(1 .. n, Lits(c)) BY <1>1, <1>3, <1>4, FS_Surjection
  <1>6. 1 \in 1 .. n /\ 2 \in 1 .. n BY <1>1
  <1> QED BY <1>5, <1>6 DEF Injection, IsInjective

(* At "add" no stored clause is contained in the lemma: a stored clause has a true
   literal, or two literals that are not false, and the lemma has neither. *)
LEMMA LemmaIsNew ==
    ASSUME IInv
    PROVE  LemmaNew
  <1> USE DEF IInv, TrailInv, TypeOK
  <1>1. SUFFICES ASSUME pc = "add", NEW i \in DOMAIN clauses,
                        Cardinality(Lits(clauses[i])) = Len(clauses[i]),
                        Lits(clauses[i]) \subseteq Lits(lemma)
                 PROVE  FALSE
    BY DEF LemmaNew
  <1>2. PICK c \in Seq(Lit) : c = clauses[i] BY DbDomains
  <1>3. /\ i \in 1 .. Len(clauses) /\ Len(c) \in Nat /\ DOMAIN c = 1 .. Len(c)
        /\ \A k \in 1 .. Len(c) : c[k] \in Lit /\ c[k] \in Lits(lemma)
    BY <1>1, <1>2, DbDomains, LenProperties, ElementOfSeq DEF Lits
  <1>4. ASSUME NEW l \in Lits(lemma) PROVE l \in Lit /\ ~LitTrue(l) /\ (LitFalse(l) \/ l = lemma[1])
    <2>1. PICK k \in DOMAIN lemma : l = lemma[k] BY <1>4 DEF Lits
    <2>2. DOMAIN lemma = 1 .. Len(lemma) /\ Len(lemma) \in Nat /\ l \in Lit
      BY <2>1, LenProperties, ElementOfSeq DEF LemTypes
    <2>3. CASE k = 1
      <3>1. LitFree(l) BY <1>1, <2>1, <2>3 DEF LemmaRight
      <3> QED BY <2>1, <2>2, <2>3, <3>1, FalseAssigned
    <2>4. CASE k \in 2 .. Len(lemma)
      <3>1. LitFalse(l) BY <1>1, <2>1, <2>4 DEF LemmaRight
      <3> QED BY <2>2, <3>1, FalseAssigned
    <2> QED BY <2>1, <2>2, <2>3, <2>4
  <1>5. Len(c) # 0 /\ (Len(c) = 1 => LitTrue(c[1])) BY <1>1, <1>2 DEF UnitsSettled
  <1>6. CASE Len(c) = 1 BY <1>3, <1>4, <1>5, <1>6
  <1>7. CASE Len(c) >= 2
    <2>1. c[1] \in Lits(lemma) /\ c[2] \in Lits(lemma) BY <1>3, <1>7
    <2>2. c[1] # c[2] BY <1>1, <1>2, <1>7, WatchesDiffer
    <2>3. c[1] \in Lit /\ c[2] \in Lit /\ ~LitTrue(c[1]) /\ ~LitTrue(c[2]) BY <1>4, <2>1
    <2>4. LitFalse(c[1]) \/ LitFalse(c[2]) BY <1>4, <2>1, <2>2
    <2>5. ~Pending(i, c[1]) /\ ~Pending(i, c[2])
      <3>1. pc \in Quiet BY <1>1 DEF Quiet
      <3> QED BY <2>3, <3>1, PendingLevel
    <2>6. WatchedAt(i) BY <1>3 DEF Watched
    <2> QED BY <1>2, <1>7, <2>3, <2>4, <2>5, <2>6, WatchedIs
  <1> QED BY <1>3, <1>5, <1>6, <1>7

(* What analyze returns follows from the input, is asserting after the backjump and
   is not in the store yet; the walk back along the trail never leaves it and never
   meets a marked decision before the UIP. *)
THEOREM SolverLemmasRight == Spec => []LemmasRight
  <1>1. ASSUME IInv PROVE LemmasRight
    <2> USE DEF IInv, TrailInv, TypeOK
    <2>1. LearntEntailed BY <1>1 DEF LearntEntailed, StoreEntailed, LemmaRight
    <2>2. LemmaNew BY <1>1, LemmaIsNew
    <2>3. LemmaAsserting BY <1>1 DEF LemmaAsserting, LemmaRight, MarksRight
    <2>4. ASSUME pc = "walk" PROVE counter >= 1 /\ \E p \in 1 .. idx :
                                     seen[trail[p]] /\ level[trail[p]] = DecisionLevel
      <3>1. Marked # {} /\ counter = Cardinality(Marked)
            /\ \A v \in Marked : \E p \in 1 .. idx : trail[p] = v
        BY <1>1, <2>4 DEF ResolventRight, MarksRight
      <3>2. Marked \subseteq Vars BY DEF Marked
      <3>3. counter >= 1 BY <3>1, <3>2, FiniteTypes, FS_EmptySet
      <3>4. PICK v \in Marked : TRUE BY <3>1
      <3>5. PICK p \in 1 .. idx : trail[p] = v BY <3>1
      <3> QED BY <3>3, <3>5 DEF Marked
    <2>5. ASSUME pc = "walk", NEW p \in 1 .. idx, seen[trail[p]],
                 \A q \in p + 1 .. idx : ~seen[trail[q]]
          PROVE  /\ level[trail[p]] = DecisionLevel
                 /\ counter > 1 => reason[trail[p]] # 0
      <3>1. /\ trail[p] \in Marked /\ counter \in Nat
            /\ counter # 1 => reason[trail[p]] # 0
        BY <1>1, <2>5, LatestMarked
      <3> QED BY <3>1 DEF Marked
    <2>6. AnalyzeSafe BY <2>4, <2>5 DEF AnalyzeSafe
    <2> QED BY <2>1, <2>2, <2>3, <2>6 DEF LemmasRight
  <1> QED BY <1>1, SolverInvariant, PTL

(* reduce_db is the only step that drops clauses; it does so at decision level 0 and
   keeps the antecedent of every assigned variable. *)
THEOREM SolverDeletionSafe == Spec => DeletionSafe
  <1>1. ASSUME IInv, [Next]_vars, Len(clauses') < Len(clauses)
        PROVE  /\ trail_lim = <<>>
               /\ \A v \in Vars : assign[v] # "none" /\ reason[v] # 0 =>
                    Lits(clauses'[reason'[v]]) = Lits(clauses[reason[v]])
    <2> USE DEF IInv, TrailInv, TypeOK
    <2>1. AnyEffect BY <1>1, Effects
    <2>2. clauses \in Seq(Seq(Lit)) /\ lemma \in Seq(Lit) /\ Len(clauses) \in Nat
      BY <1>1, LenProperties DEF DbTypes, LemTypes
    <2>3. ~SameStore /\ ~UNCHANGED db BY <1>1, <2>2 DEF SameStore, db
    <2>4. ~Store(lemma, lemma_lbd) BY <1>1, <2>2 DEF Store
    <2>5. ReduceDb BY <2>1, <2>3, <2>4 DEF AnyEffect
    <2>6. trail_lim = <<>> BY <1>1, <2>5 DEF ReduceDb, ControlOK
    <2>7. PICK N, kept : N \in Nat /\ Renumbers(N, kept) BY <1>1, <2>5, ReduceEffect
    <2>8. ASSUME NEW v \in Vars, assign[v] # "none", reason[v] # 0
          PROVE  Lits(clauses'[reason'[v]]) = Lits(clauses[reason[v]])
      BY <2>7, <2>8 DEF Renumbers
    <2> QED BY <2>6, <2>8
  <1>2. IInv /\ [Next]_vars =>
          [Len(clauses') < Len(clauses) =>
             /\ trail_lim = <<>>
             /\ \A v \in Vars : assign[v] # "none" /\ reason[v] # 0 =>
                  Lits(clauses'[reason'[v]]) = Lits(clauses[reason[v]])]_vars
    BY <1>1
  <1> QED BY <1>2, SolverInvariant, PTL DEF Spec, DeletionSafe
=============================================================================
