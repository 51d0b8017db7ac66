---------------------------- MODULE CdclProofs ------------------------------
(***************************************************************************)
(* The inductive invariant of the SAT solver, and the first half of its    *)
(* proof, for every input, budget and restart policy: lemmas about the     *)
(* operators of the model, and that every step keeps the types, the trail, *)
(* the antecedents, the propagation queue and the control part.            *)
(***************************************************************************)
EXTENDS Cdcl, FiniteSetTheorems, SequenceTheorems, WellFoundedInduction, TLAPS

TrueLit(v) == [var |-> v, val |-> assign[v]]
FalseLit(v) == [var |-> v, val |-> Flip(assign[v])]

(* The trail lists every assigned variable once. *)
TrailExact ==
    /\ \A p \in DOMAIN trail : assign[trail[p]] # "none"
    /\ \A v \in Vars : assign[v] # "none" => \E p \in DOMAIN trail : trail[p] = v
    /\ \A p, q \in DOMAIN trail : trail[p] = trail[q] => p = q

(* trail_lim cuts the trail into its decision levels, none of them empty. *)
LevelsCut ==
    /\ \A j \in DOMAIN trail_lim : trail_lim[j] < Len(trail)
    /\ \A j, k \in DOMAIN trail_lim : j < k => trail_lim[j] < trail_lim[k]
    /\ \A p \in DOMAIN trail : level[trail[p]] <= Len(trail_lim)
    /\ \A p \in DOMAIN trail, j \in DOMAIN trail_lim :
         trail_lim[j] < p <=> j <= level[trail[p]]

(* Only the first variable of a level, the decision, has no antecedent. *)
DecisionsFirst ==
    \A p \in DOMAIN trail :
        reason[trail[p]] = 0 => \E j \in DOMAIN trail_lim : p = trail_lim[j] + 1

(* An antecedent was unit when it was used: its other literals are false and
   stand earlier on the trail. *)
Antecedents ==
    \A p \in DOMAIN trail : reason[trail[p]] # 0 =>
        /\ reason[trail[p]] \in DOMAIN clauses
        /\ TrueLit(trail[p]) \in Lits(clauses[reason[trail[p]]])
        /\ \A l \in Lits(clauses[reason[trail[p]]]) :
             \/ l = TrueLit(trail[p])
             \/ LitFalse(l) /\ \E q \in 1 .. p - 1 : trail[q] = l.var

Quiet == {"add", "search", "reduce", "decide"}

(* What waits to be propagated was assigned on the current level. *)
QueueCurrent ==
    /\ \A k \in DOMAIN prop_queue :
         assign[prop_queue[k]] # "none" /\ level[prop_queue[k]] = DecisionLevel
    /\ pc \in Quiet => prop_queue = <<>>
    /\ pc = "visit" => /\ false_lit \in Lit /\ LitFalse(false_lit)
                       /\ level[false_lit.var] = DecisionLevel

Conflicting == {"conflict", "mark", "walk", "form", "backjump", "add", "done"}

(* Control: where the solver is at level 0, where it is not, and where no clause
   is being resolved. *)
ControlOK ==
    /\ pc = "seed" => clauses = formula
    /\ pc \in {"seed", "reduce"} => trail_lim = <<>>
    /\ pc \in {"mark", "walk", "form", "backjump"} => trail_lim # <<>>
    /\ pc \notin Conflicting => confl = 0
    /\ pc # "done" => result = "none"

(* Every stored clause, and every assignment of level 0, follows from the input. *)
StoreEntailed == \A i \in DOMAIN clauses : Entailed(Lits(clauses[i]))
LevelZeroEntailed ==
    \A v \in Vars : assign[v] # "none" /\ level[v] = 0 => Entailed({TrueLit(v)})

(* Every input clause is still in the store, as a permutation with LBD 0. *)
InputKept ==
    \A i \in DOMAIN formula : \E j \in DOMAIN clauses :
        /\ lbd[j] = 0 /\ Len(clauses[j]) = Len(formula[i])
        /\ Lits(clauses[j]) = Lits(formula[i])

(* No stored clause is empty and the unit ones are satisfied for good, as soon as
   the seeding loop has passed them. *)
UnitsSettled ==
    pc # "done" =>
    \A i \in DOMAIN clauses : (pc = "seed" => i < seed) =>
        /\ Len(clauses[i]) # 0
        /\ Len(clauses[i]) = 1 => LitTrue(clauses[i][1]) /\ level[clauses[i][1].var] = 0

Settling == {"conflict", "mark", "walk", "form", "backjump", "done"}

(* A false watch is excused while its variable waits for propagation or clause i
   waits for its visit; after a conflict, while the level is about to be undone. *)
Pending(i, w) ==
    IF pc \in Settling THEN level[w.var] = DecisionLevel
    ELSE \/ \E k \in DOMAIN prop_queue : prop_queue[k] = w.var
         \/ pc = "visit" /\ w = false_lit /\ todo[i] = WatchCount(clauses[i], w)

WatchedAt(i) ==
    Len(clauses[i]) >= 2 =>
        \A k \in {1, 2} :
            LET w == clauses[i][k]
                o == clauses[i][3 - k]
            IN  LitFalse(w) => \/ LitTrue(o) /\ level[o.var] <= level[w.var]
                               \/ Pending(i, w)

Watched == \A i \in DOMAIN clauses : WatchedAt(i)

-----------------------------------------------------------------------------
(* The analysis of a conflict: learnt and the marked variables of the current
   level are the resolvent so far. *)

Marked == {v \in Vars : seen[v] /\ level[v] = DecisionLevel}
FalseLits(S) == {FalseLit(v) : v \in S}

MarksRight ==
    /\ pc \notin {"mark", "walk", "form"} => \A v \in Vars : ~seen[v]
    /\ pc \in {"mark", "walk", "form"} =>
         /\ \A v \in Vars : seen[v] =>
              /\ assign[v] # "none" /\ level[v] > 0
              /\ level[v] # DecisionLevel => FalseLit(v) \in learnt
         /\ \A l \in learnt : LitFalse(l) /\ level[l.var] \in 1 .. DecisionLevel - 1
    /\ pc \in {"mark", "walk"} =>
         /\ counter = Cardinality(Marked)
         /\ idx <= Len(trail)
         /\ \A v \in Marked : \E p \in 1 .. idx : trail[p] = v

ConflictFound ==
    pc = "conflict" =>
        /\ confl \in DOMAIN clauses
        /\ \A l \in Lits(clauses[confl]) : LitFalse(l)
        /\ \E l \in Lits(clauses[confl]) : level[l.var] = DecisionLevel

(* The clause about to be resolved in: the conflict, or the antecedent of the pivot. *)
FirstClause ==
    /\ pivot = -1 /\ learnt = {} /\ Marked = {} /\ idx = Len(trail)
    /\ \A l \in Lits(clauses[confl]) : LitFalse(l)
    /\ \E l \in Lits(clauses[confl]) : level[l.var] = DecisionLevel
LaterClause ==
    /\ pivot \in Vars /\ assign[pivot] # "none" /\ level[pivot] = DecisionLevel
    /\ ~seen[pivot] /\ Marked # {}
    /\ Entailed(learnt \cup FalseLits(Marked \cup {pivot}))
    /\ \A l \in Lits(clauses[confl]) :
         \/ l = TrueLit(pivot)
         \/ LitFalse(l) /\ l.var # pivot /\ \E q \in 1 .. idx : trail[q] = l.var

ResolventRight ==
    /\ pc = "mark" => confl \in DOMAIN clauses /\ (FirstClause \/ LaterClause)
    /\ pc = "walk" => Marked # {} /\ Entailed(learnt \cup FalseLits(Marked))
    /\ pc = "form" =>
         /\ pivot \in Vars /\ assign[pivot] # "none" /\ level[pivot] = DecisionLevel
         /\ Marked = {}
         /\ Entailed(learnt \cup {FalseLit(pivot)})

LemmaRight ==
    /\ pc \in {"backjump", "add"} =>
         /\ Len(lemma) >= 1 /\ Entailed(Lits(lemma))
         /\ \A k \in 2 .. Len(lemma) : LitFalse(lemma[k]) /\ level[lemma[k].var] <= btlevel
         /\ Len(lemma) = 1 => btlevel = 0
         /\ Len(lemma) >= 2 => btlevel >= 1 /\ level[lemma[2].var] = btlevel
    /\ pc = "backjump" => /\ btlevel < DecisionLevel
                          /\ LitFalse(lemma[1]) /\ level[lemma[1].var] = DecisionLevel
    /\ pc = "add" => btlevel = DecisionLevel /\ LitFree(lemma[1])

TrailInv == TypeOK /\ TrailExact /\ LevelsCut /\ DecisionsFirst /\ Antecedents
            /\ QueueCurrent /\ ControlOK
IInv == /\ TrailInv
        /\ WatchListsExact /\ Watched /\ UnitsSettled /\ InputKept
        /\ StoreEntailed /\ LevelZeroEntailed
        /\ MarksRight /\ ConflictFound /\ ResolventRight /\ LemmaRight
        /\ AnswersSound

-----------------------------------------------------------------------------
(* The operators of the model. *)

(* Literals. *)
LEMMA LitTypes ==
    /\ \A l \in Lit : l.var \in Vars /\ l.val \in Bool /\ Negated(l) \in Lit
    /\ \A v \in Vars, b \in Bool : [var |-> v, val |-> b] \in Lit
    /\ \A b \in Bool : Flip(b) \in Bool /\ Flip(b) # b /\ Flip(Flip(b)) = b
    /\ \A b \in Bool : b # "none"
    /\ \A l, m \in Lit : l.var = m.var /\ l.val = m.val => l = m
  BY DEF Lit, Bool, Negated, Flip

(* A swap permutes a clause. *)
LEMMA SwapLits ==
    ASSUME NEW c \in Seq(Lit), NEW i \in 1 .. Len(c), NEW j \in 1 .. Len(c)
    PROVE  /\ Swap(c, i, j) \in Seq(Lit) /\ Len(Swap(c, i, j)) = Len(c)
           /\ Lits(Swap(c, i, j)) = Lits(c)
           /\ \A k \in 1 .. Len(c) :
                Swap(c, i, j)[k] = IF k = j THEN c[i] ELSE IF k = i THEN c[j] ELSE c[k]
  <1> DEFINE d == Swap(c, i, j)
  <1>1. DOMAIN c = 1 .. Len(c) /\ \A k \in 1 .. Len(c) : c[k] \in Lit
    BY LenProperties
  <1>2. d \in [1 .. Len(c) -> Lit] BY <1>1 DEF Swap
  <1>3. d \in Seq(Lit) /\ Len(d) = Len(c) BY <1>2, SeqDef, LenProperties
  <1>4. \A k \in 1 .. Len(c) : d[k] = IF k = j THEN c[i] ELSE IF k = i THEN c[j] ELSE c[k]
    BY <1>1 DEF Swap
  <1>5. Lits(d) = Lits(c)
    <2>1. DOMAIN d = DOMAIN c BY <1>1, <1>2
    <2>2. \A x : x \in Lits(d) => x \in Lits(c) BY <1>1, <1>4, <2>1 DEF Lits
    <2>3. \A x : x \in Lits(c) => x \in Lits(d)
      <3>1. \A k \in 1 .. Len(c) : \E m \in 1 .. Len(c) : d[m] = c[k]
        BY <1>4
      <3> QED BY <1>1, <2>1, <3>1 DEF Lits
    <2> QED BY <2>2, <2>3
  <1> QED BY <1>3, <1>4, <1>5

-----------------------------------------------------------------------------
(* Enqueue and backtracking. *)

(* Enqueuing a free literal keeps the types of the assignment. *)
LEMMA EnqueueTypes ==
    ASSUME AsgTypes, NEW l \in Lit, NEW r \in Nat, NEW d \in Nat, Enqueue(l, r, d),
           trail_lim' \in Seq(Nat)
    PROVE  /\ AsgTypes'
           /\ Len(trail') = Len(trail) + 1
           /\ \A p \in 1 .. Len(trail) : trail'[p] = trail[p]
           /\ trail'[Len(trail) + 1] = l.var
           /\ \A k \in 1 .. Len(prop_queue) : prop_queue'[k] = prop_queue[k]
           /\ Len(prop_queue') = Len(prop_queue) + 1
           /\ prop_queue'[Len(prop_queue) + 1] = l.var
           /\ \A v \in Vars : /\ assign'[v] = IF v = l.var THEN l.val ELSE assign[v]
                              /\ level'[v] = IF v = l.var THEN d ELSE level[v]
                              /\ reason'[v] = IF v = l.var THEN r ELSE reason[v]
  <1>1. l.var \in Vars /\ l.val \in Bool BY LitTypes
  <1>2. /\ trail' \in Seq(Vars) /\ prop_queue' \in Seq(Vars)
        /\ Len(trail') = Len(trail) + 1
        /\ \A p \in 1 .. Len(trail) : trail'[p] = trail[p]
        /\ trail'[Len(trail) + 1] = l.var
        /\ \A k \in 1 .. Len(prop_queue) : prop_queue'[k] = prop_queue[k]
        /\ Len(prop_queue') = Len(prop_queue) + 1
        /\ prop_queue'[Len(prop_queue) + 1] = l.var
    BY <1>1, AppendProperties DEF AsgTypes, Enqueue
  <1>3. /\ assign' \in [Vars -> Bool \cup {"none"}]
        /\ level' \in [Vars -> Nat] /\ reason' \in [Vars -> Nat]
    BY <1>1 DEF AsgTypes, Enqueue
  <1>4. \A v \in Vars : /\ assign'[v] = IF v = l.var THEN l.val ELSE assign[v]
                        /\ level'[v] = IF v = l.var THEN d ELSE level[v]
                        /\ reason'[v] = IF v = l.var THEN r ELSE reason[v]
    BY <1>1 DEF AsgTypes, Enqueue
  <1> QED BY <1>2, <1>3, <1>4 DEF AsgTypes

(* The trail, its levels and its decisions. *)
Trail == TrailExact /\ LevelsCut /\ DecisionsFirst

(* Positions of a sequence. *)
LEMMA AsgDomains ==
    ASSUME AsgTypes
    PROVE  /\ DOMAIN trail = 1 .. Len(trail) /\ Len(trail) \in Nat
           /\ \A p \in 1 .. Len(trail) : trail[p] \in Vars
           /\ DOMAIN trail_lim = 1 .. Len(trail_lim) /\ Len(trail_lim) \in Nat
           /\ \A j \in 1 .. Len(trail_lim) : trail_lim[j] \in Nat
           /\ DOMAIN prop_queue = 1 .. Len(prop_queue) /\ Len(prop_queue) \in Nat
           /\ \A k \in 1 .. Len(prop_queue) : prop_queue[k] \in Vars
           /\ \A v \in Vars : /\ assign[v] \in Bool \cup {"none"}
                              /\ level[v] \in Nat /\ reason[v] \in Nat
  BY LenProperties, ElementOfSeq DEF AsgTypes

(* A literal forced on the current level joins the end of the trail. *)
LEMMA EnqueueTrail ==
    ASSUME AsgTypes, Trail, NEW l \in Lit, LitFree(l), NEW r \in Nat \ {0},
           Enqueue(l, r, Len(trail_lim)), UNCHANGED trail_lim
    PROVE  AsgTypes' /\ Trail'
  <1> DEFINE n == Len(trail)
  <1>0. Len(trail_lim) \in Nat /\ trail_lim' \in Seq(Nat) BY AsgDomains DEF AsgTypes
  <1>1. AsgTypes'
    BY <1>0, EnqueueTypes
  <1>2. /\ Len(trail') = n + 1 /\ trail'[n + 1] = l.var
        /\ \A p \in 1 .. n : trail'[p] = trail[p]
        /\ \A v \in Vars : /\ assign'[v] = IF v = l.var THEN l.val ELSE assign[v]
                           /\ level'[v] = IF v = l.var THEN Len(trail_lim) ELSE level[v]
                           /\ reason'[v] = IF v = l.var THEN r ELSE reason[v]
    BY <1>0, EnqueueTypes
  <1>3. n \in Nat /\ DOMAIN trail = 1 .. n /\ DOMAIN trail' = 1 .. n + 1
        /\ \A p \in 1 .. n : trail[p] \in Vars
    BY <1>1, <1>2, AsgDomains, LenProperties DEF AsgTypes
  <1>4. l.var \in Vars /\ l.val # "none" /\ assign[l.var] = "none" BY LitTypes DEF LitFree
  <1>5. \A p \in 1 .. n : trail[p] # l.var BY <1>3, <1>4 DEF Trail, TrailExact
  <1>6. TrailExact'
    <2>1. \A p \in DOMAIN trail' : assign'[trail'[p]] # "none"
      BY <1>2, <1>3, <1>4, <1>5 DEF Trail, TrailExact
    <2>2. \A v \in Vars : assign'[v] # "none" => \E p \in DOMAIN trail' : trail'[p] = v
      BY <1>2, <1>3 DEF Trail, TrailExact
    <2>3. \A p, q \in DOMAIN trail' : trail'[p] = trail'[q] => p = q
      BY <1>2, <1>3, <1>5 DEF Trail, TrailExact
    <2> QED BY <2>1, <2>2, <2>3 DEF TrailExact
  <1>7. \A j \in DOMAIN trail_lim : trail_lim[j] \in Nat /\ trail_lim[j] < n
    BY AsgDomains DEF Trail, LevelsCut
  <1>8. LevelsCut'
    <2>1. \A p \in DOMAIN trail' : level'[trail'[p]] <= Len(trail_lim)
      BY <1>2, <1>3, <1>4, <1>5, AsgDomains DEF Trail, LevelsCut
    <2>2. \A p \in DOMAIN trail', j \in DOMAIN trail_lim :
             trail_lim[j] < p <=> j <= level'[trail'[p]]
      <3> SUFFICES ASSUME NEW p \in DOMAIN trail', NEW j \in DOMAIN trail_lim
                   PROVE  trail_lim[j] < p <=> j <= level'[trail'[p]]
        OBVIOUS
      <3>1. CASE p = n + 1
        BY <1>2, <1>3, <1>4, <1>7, <3>1, AsgDomains
      <3>2. CASE p # n + 1
        BY <1>2, <1>3, <1>5, <3>2 DEF Trail, LevelsCut
      <3> QED BY <3>1, <3>2
    <2>3. \A j \in DOMAIN trail_lim : trail_lim[j] < Len(trail')
      BY <1>2, <1>3, <1>7
    <2> QED BY <2>1, <2>2, <2>3 DEF Trail, LevelsCut
  <1>9. DecisionsFirst'
    BY <1>2, <1>3, <1>4, <1>5 DEF Trail, DecisionsFirst
  <1> QED BY <1>1, <1>6, <1>8, <1>9 DEF Trail

(* A decision opens a level. *)
LEMMA DecideTrail ==
    ASSUME AsgTypes, Trail, NEW l \in Lit, LitFree(l), 
           Enqueue(l, 0, Len(trail_lim) + 1), trail_lim' = Append(trail_lim, Len(trail))
    PROVE  AsgTypes' /\ Trail'
  <1> DEFINE n == Len(trail)
             d == Len(trail_lim)
  <1>0. n \in Nat /\ d \in Nat BY AsgDomains
  <1>1. /\ trail_lim' \in Seq(Nat) /\ Len(trail_lim') = d + 1
        /\ trail_lim'[d + 1] = n
        /\ \A j \in 1 .. d : trail_lim'[j] = trail_lim[j]
        /\ DOMAIN trail_lim' = 1 .. d + 1
    BY <1>0, AppendProperties, LenProperties DEF AsgTypes
  <1>2. AsgTypes'
    BY <1>0, <1>1, EnqueueTypes
  <1>3. /\ Len(trail') = n + 1 /\ trail'[n + 1] = l.var
        /\ \A p \in 1 .. n : trail'[p] = trail[p]
        /\ \A v \in Vars : /\ assign'[v] = IF v = l.var THEN l.val ELSE assign[v]
                           /\ level'[v] = IF v = l.var THEN d + 1 ELSE level[v]
                           /\ reason'[v] = IF v = l.var THEN 0 ELSE reason[v]
    BY <1>0, <1>1, EnqueueTypes
  <1>4. DOMAIN trail = 1 .. n /\ DOMAIN trail' = 1 .. n + 1
        /\ \A p \in 1 .. n : trail[p] \in Vars
    BY <1>2, <1>3, AsgDomains, LenProperties DEF AsgTypes
  <1>5. l.var \in Vars /\ l.val # "none" /\ assign[l.var] = "none" BY LitTypes DEF LitFree
  <1>6. \A p \in 1 .. n : trail[p] # l.var BY <1>4, <1>5 DEF Trail, TrailExact
  <1>7. TrailExact'
    <2>1. \A p \in DOMAIN trail' : assign'[trail'[p]] # "none"
      BY <1>0, <1>3, <1>4, <1>5, <1>6 DEF Trail, TrailExact
    <2>2. \A v \in Vars : assign'[v] # "none" => \E p \in DOMAIN trail' : trail'[p] = v
      <3> SUFFICES ASSUME NEW v \in Vars, assign'[v] # "none"
                   PROVE  \E p \in 1 .. n + 1 : trail'[p] = v
        BY <1>4
      <3>1. CASE v = l.var
        <4>1. n + 1 \in 1 .. n + 1 BY <1>0
        <4> QED BY <1>3, <3>1, <4>1
      <3>2. CASE v # l.var
        <4>1. PICK p \in 1 .. n : trail[p] = v BY <1>3, <1>4, <3>2 DEF Trail, TrailExact
        <4> QED BY <1>0, <1>3, <4>1
      <3> QED BY <3>1, <3>2
    <2>3. \A p, q \in DOMAIN trail' : trail'[p] = trail'[q] => p = q
      BY <1>0, <1>3, <1>4, <1>6 DEF Trail, TrailExact
    <2> QED BY <2>1, <2>2, <2>3 DEF TrailExact
  <1>8. /\ DOMAIN trail_lim = 1 .. d
        /\ \A j \in 1 .. d : trail_lim[j] \in Nat /\ trail_lim[j] < n
    BY AsgDomains DEF Trail, LevelsCut
  <1>9. LevelsCut'
    <2>1. \A p \in DOMAIN trail' : level'[trail'[p]] <= Len(trail_lim')
      <3>1. \A p \in 1 .. n : level[trail[p]] \in Nat /\ level[trail[p]] <= d
        BY <1>4, AsgDomains DEF Trail, LevelsCut
      <3>2. \A p \in 1 .. n : level'[trail'[p]] <= d + 1
        <4> TAKE p \in 1 .. n
        <4>1. level'[trail'[p]] = level[trail[p]] BY <1>3, <1>4, <1>6
        <4> QED BY <1>0, <3>1, <4>1
      <3>3. level'[trail'[n + 1]] <= d + 1 BY <1>0, <1>3, <1>5
      <3>4. \A p \in 1 .. n + 1 : p \in 1 .. n \/ p = n + 1 BY <1>0
      <3>5. \A p \in 1 .. n + 1 : level'[trail'[p]] <= d + 1 BY <3>2, <3>3, <3>4
      <3> QED BY <1>1, <1>4, <3>5
    <2>2. \A p \in DOMAIN trail', j \in DOMAIN trail_lim' :
             trail_lim'[j] < p <=> j <= level'[trail'[p]]
      <3> SUFFICES ASSUME NEW p \in 1 .. n + 1, NEW j \in 1 .. d + 1
                   PROVE  trail_lim'[j] < p <=> j <= level'[trail'[p]]
        BY <1>1, <1>4
      <3>1. CASE p = n + 1
        BY <1>0, <1>1, <1>3, <1>5, <1>8, <3>1
      <3>2. CASE p # n + 1 /\ j # d + 1
        <4>1. /\ p \in 1 .. n /\ j \in 1 .. d /\ trail'[p] = trail[p] /\ trail[p] \in Vars
              /\ trail_lim'[j] = trail_lim[j] /\ trail[p] # l.var
          BY <1>0, <1>1, <1>3, <1>4, <1>6, <3>2
        <4>2. level'[trail'[p]] = level[trail[p]] BY <1>3, <4>1
        <4> QED BY <1>4, <1>8, <4>1, <4>2 DEF Trail, LevelsCut
      <3>3. CASE p # n + 1 /\ j = d + 1
        <4>1. p \in 1 .. n /\ level[trail[p]] \in Nat /\ level[trail[p]] <= d
          BY <1>0, <1>4, <3>3, AsgDomains DEF Trail, LevelsCut
        <4> QED BY <1>0, <1>1, <1>3, <1>4, <1>6, <3>3, <4>1
      <3> QED BY <3>1, <3>2, <3>3
    <2>3. \A j \in DOMAIN trail_lim' : trail_lim'[j] < Len(trail')
      BY <1>0, <1>1, <1>3, <1>8
    <2>4. \A j, k \in DOMAIN trail_lim' : j < k => trail_lim'[j] < trail_lim'[k]
      BY <1>0, <1>1, <1>8 DEF Trail, LevelsCut
    <2> QED BY <2>1, <2>2, <2>3, <2>4 DEF LevelsCut
  <1>10. DecisionsFirst'
    <2> SUFFICES ASSUME NEW p \in 1 .. n + 1, reason'[trail'[p]] = 0
                 PROVE  \E j \in 1 .. d + 1 : p = trail_lim'[j] + 1
      BY <1>1, <1>4 DEF DecisionsFirst
    <2>1. CASE p = n + 1 BY <1>0, <1>1, <2>1
    <2>2. CASE p # n + 1
      BY <1>0, <1>1, <1>3, <1>4, <1>6, <1>8, <2>2 DEF Trail, DecisionsFirst
    <2> QED BY <2>1, <2>2
  <1> QED BY <1>2, <1>7, <1>9, <1>10 DEF Trail

(* Backtracking keeps exactly the part of the trail up to its target level. *)
LEMMA BacktrackTrail ==
    ASSUME AsgTypes, Trail, NEW n \in Nat, n < Len(trail_lim), BacktrackTo(n)
    PROVE  /\ AsgTypes' /\ Trail'
           /\ Len(trail_lim') = n /\ prop_queue' = <<>> /\ UNCHANGED <<level, reason>>
           /\ Len(trail') <= Len(trail)
           /\ \A p \in 1 .. Len(trail') : trail'[p] = trail[p]
           /\ \A p \in 1 .. Len(trail) : p <= Len(trail') <=> level[trail[p]] <= n
           /\ \A v \in Vars : assign'[v] = IF assign[v] # "none" /\ level[v] <= n
                                           THEN assign[v] ELSE "none"
  <1> DEFINE t == trail_lim[n + 1]
             undone == {trail[p] : p \in t + 1 .. Len(trail)}
  <1>1. /\ Len(trail_lim) \in Nat /\ DOMAIN trail_lim = 1 .. Len(trail_lim)
        /\ \A j \in 1 .. Len(trail_lim) : trail_lim[j] \in Nat
        /\ Len(trail) \in Nat /\ DOMAIN trail = 1 .. Len(trail)
        /\ \A p \in 1 .. Len(trail) : trail[p] \in Vars
        /\ \A v \in Vars : level[v] \in Nat
    BY AsgDomains
  <1>0. /\ \A j \in 1 .. Len(trail_lim) : trail_lim[j] < Len(trail)
        /\ \A j, k \in 1 .. Len(trail_lim) : j < k => trail_lim[j] < trail_lim[k]
        /\ \A p \in 1 .. Len(trail) : level[trail[p]] <= Len(trail_lim)
        /\ \A p \in 1 .. Len(trail), j \in 1 .. Len(trail_lim) :
             trail_lim[j] < p <=> j <= level[trail[p]]
    BY <1>1 DEF Trail, LevelsCut
  <1>2. n + 1 \in 1 .. Len(trail_lim) /\ t \in Nat /\ t < Len(trail)
    <2>1. n + 1 \in 1 .. Len(trail_lim) BY <1>1
    <2> QED BY <1>0, <1>1, <2>1
  <1>3. /\ trail' = SubSeq(trail, 1, t)
        /\ assign' = [v \in Vars |-> IF v \in undone THEN "none" ELSE assign[v]]
        /\ trail_lim' = SubSeq(trail_lim, 1, n)
        /\ prop_queue' = <<>> /\ UNCHANGED <<level, reason>>
    BY <1>1 DEF BacktrackTo, DecisionLevel
  <1>4. /\ trail' \in Seq(Vars) /\ Len(trail') = t /\ DOMAIN trail' = 1 .. t
        /\ \A p \in 1 .. t : trail'[p] = trail[p]
    <2>1. \A p \in 1 .. t : p \in 1 .. Len(trail) BY <1>1, <1>2
    <2>2. trail' = [p \in 1 .. t |-> trail[p]] BY <1>1, <1>2, <1>3 DEF AsgTypes
    <2>3. trail' \in [1 .. t -> Vars] BY <1>1, <2>1, <2>2
    <2>4. trail' \in Seq(Vars) BY <1>2, <2>3, SeqDef
    <2>5. DOMAIN trail' = 1 .. t BY <2>2
    <2>6. Len(trail') = t BY <1>2, <2>4, <2>5, LenProperties
    <2> QED BY <2>2, <2>4, <2>5, <2>6
  <1>5. /\ trail_lim' \in Seq(Nat) /\ Len(trail_lim') = n /\ DOMAIN trail_lim' = 1 .. n
        /\ \A j \in 1 .. n : trail_lim'[j] = trail_lim[j]
    <2>1. \A p \in 1 .. n : p \in 1 .. Len(trail_lim) BY <1>1, <1>2
    <2>2. trail_lim' = [p \in 1 .. n |-> trail_lim[p]] BY <1>1, <1>2, <1>3 DEF AsgTypes
    <2>3. trail_lim' \in [1 .. n -> Nat] BY <1>1, <2>1, <2>2
    <2> QED BY <2>2, <2>3, SeqDef, LenProperties
  <1>6. \A p \in 1 .. Len(trail) : p <= t <=> level[trail[p]] <= n
    <2> TAKE p \in 1 .. Len(trail)
    <2>1. trail[p] \in Vars /\ level[trail[p]] \in Nat BY <1>1
    <2>2. t < p <=> n + 1 <= level[trail[p]] BY <1>0, <1>2
    <2> QED BY <1>2, <2>1, <2>2
  <1>7. \A v \in Vars : assign'[v] = IF assign[v] # "none" /\ level[v] <= n
                                    THEN assign[v] ELSE "none"
    <2> SUFFICES ASSUME NEW v \in Vars, assign[v] # "none"
                 PROVE  v \in undone <=> ~(level[v] <= n)
      BY <1>3
    <2>1. PICK p \in 1 .. Len(trail) : trail[p] = v BY <1>1 DEF Trail, TrailExact
    <2>2. \A q \in 1 .. Len(trail) : trail[q] = v => q = p
      BY <1>1, <2>1 DEF Trail, TrailExact
    <2>3. v \in undone <=> p \in t + 1 .. Len(trail) BY <1>1, <1>2, <2>1, <2>2
    <2> QED BY <1>1, <1>2, <1>6, <2>1, <2>3
  <1>8. AsgTypes'
    <2>1. assign' \in [Vars -> Bool \cup {"none"}] BY <1>3 DEF AsgTypes
    <2>2. level' \in [Vars -> Nat] /\ reason' \in [Vars -> Nat] BY <1>3 DEF AsgTypes
    <2>3. prop_queue' \in Seq(Vars) BY <1>3
    <2> QED BY <1>4, <1>5, <2>1, <2>2, <2>3 DEF AsgTypes
  <1>9. TrailExact'
    <2>0. \A p \in 1 .. t : p \in 1 .. Len(trail) /\ p <= t BY <1>1, <1>2
    <2>1. \A p \in DOMAIN trail' : assign'[trail'[p]] # "none"
      <3> SUFFICES ASSUME NEW p \in 1 .. t PROVE assign'[trail[p]] # "none" BY <1>4
      <3>1. trail[p] \in Vars /\ assign[trail[p]] # "none"
        BY <1>1, <2>0 DEF Trail, TrailExact
      <3>2. level[trail[p]] <= n BY <1>6, <2>0
      <3> QED BY <1>7, <3>1, <3>2
    <2>2. \A v \in Vars : assign'[v] # "none" => \E p \in DOMAIN trail' : trail'[p] = v
      <3> SUFFICES ASSUME NEW v \in Vars, assign'[v] # "none"
                   PROVE  \E p \in 1 .. t : trail'[p] = v
        BY <1>4
      <3>1. assign[v] # "none" /\ level[v] <= n BY <1>7
      <3>2. PICK p \in 1 .. Len(trail) : trail[p] = v BY <1>1, <3>1 DEF Trail, TrailExact
      <3>3. p <= t BY <1>6, <3>1, <3>2
      <3>4. p \in 1 .. t BY <1>1, <1>2, <3>3
      <3> QED BY <1>4, <3>2, <3>4
    <2>3. \A p, q \in DOMAIN trail' : trail'[p] = trail'[q] => p = q
      BY <1>1, <1>4, <2>0 DEF Trail, TrailExact
    <2> QED BY <2>1, <2>2, <2>3 DEF TrailExact
  <1>10. LevelsCut'
    <2>0. /\ \A j \in 1 .. n : j \in 1 .. Len(trail_lim) /\ j < n + 1
          /\ \A p \in 1 .. t : p \in 1 .. Len(trail) /\ p <= t
      BY <1>1, <1>2
    <2>1. \A j \in 1 .. n : trail_lim[j] < t BY <1>0, <1>2, <2>0
    <2>2. \A j, k \in 1 .. n : j < k => trail_lim[j] < trail_lim[k] BY <1>0, <2>0
    <2>3. \A p \in 1 .. t : level[trail[p]] <= n BY <1>6, <2>0
    <2>4. \A p \in 1 .. t, j \in 1 .. n : trail_lim[j] < p <=> j <= level[trail[p]]
      BY <1>0, <2>0
    <2>5. \A p \in 1 .. t : level'[trail'[p]] = level[trail[p]] BY <1>3, <1>4
    <2> QED BY <1>4, <1>5, <2>1, <2>2, <2>3, <2>4, <2>5 DEF LevelsCut
  <1>11. DecisionsFirst'
    <2> SUFFICES ASSUME NEW p \in 1 .. t, reason[trail[p]] = 0
                 PROVE  \E j \in 1 .. n : p = trail_lim[j] + 1
      <3> SUFFICES ASSUME NEW p \in 1 .. t, reason'[trail'[p]] = 0
                   PROVE  \E j \in 1 .. n : p = trail_lim'[j] + 1
        <4>1. DOMAIN trail' = 1 .. t /\ DOMAIN trail_lim' = 1 .. n BY <1>4, <1>5
        <4> QED BY <4>1 DEF DecisionsFirst
      <3>1. reason[trail[p]] = 0 BY <1>3, <1>4
      <3>2. PICK j \in 1 .. n : p = trail_lim[j] + 1 BY <3>1
      <3> QED BY <1>5, <3>2
    <2>1. p \in 1 .. Len(trail) BY <1>1, <1>2
    <2>2. PICK j \in 1 .. Len(trail_lim) : p = trail_lim[j] + 1
      BY <1>1, <2>1 DEF Trail, DecisionsFirst
    <2>3. j <= level[trail[p]]
      <3>1. trail_lim[j] \in Nat /\ level[trail[p]] \in Nat BY <1>1, <2>1
      <3>2. trail_lim[j] < p BY <2>1, <2>2, <3>1
      <3>3. trail_lim[j] < p <=> j <= level[trail[p]]
        BY <1>1, <2>1 DEF Trail, LevelsCut
      <3> QED BY <3>2, <3>3
    <2>4. level[trail[p]] <= n BY <1>6, <2>1, <1>2
    <2> QED BY <1>1, <2>1, <2>2, <2>3, <2>4
  <1> QED BY <1>1, <1>2, <1>3, <1>4, <1>5, <1>6, <1>7, <1>8, <1>9, <1>10, <1>11 DEF Trail

-----------------------------------------------------------------------------
(* The clause store. *)

LEMMA DbDomains ==
    ASSUME DbTypes
    PROVE  /\ Len(clauses) \in Nat /\ DOMAIN clauses = 1 .. Len(clauses)
           /\ DOMAIN lbd = 1 .. Len(clauses) /\ DOMAIN watches = 1 .. Len(clauses)
           /\ \A i \in 1 .. Len(clauses) :
                /\ clauses[i] \in Seq(Lit) /\ lbd[i] \in Nat /\ watches[i] \in [Lit -> Nat]
                /\ Len(clauses[i]) \in Nat /\ DOMAIN clauses[i] = 1 .. Len(clauses[i])
                /\ \A k \in 1 .. Len(clauses[i]) : clauses[i][k] \in Lit
                /\ Lits(clauses[i]) \subseteq Lit
  <1>1. /\ Len(clauses) \in Nat /\ DOMAIN clauses = 1 .. Len(clauses)
        /\ DOMAIN lbd = 1 .. Len(clauses) /\ DOMAIN watches = 1 .. Len(clauses)
    BY LenProperties DEF DbTypes
  <1>2. \A i \in 1 .. Len(clauses) :
           clauses[i] \in Seq(Lit) /\ lbd[i] \in Nat /\ watches[i] \in [Lit -> Nat]
    BY <1>1, ElementOfSeq DEF DbTypes
  <1>3. \A i \in 1 .. Len(clauses) :
           /\ Len(clauses[i]) \in Nat /\ DOMAIN clauses[i] = 1 .. Len(clauses[i])
           /\ \A k \in 1 .. Len(clauses[i]) : clauses[i][k] \in Lit
    BY <1>2, LenProperties, ElementOfSeq
  <1>4. \A i \in 1 .. Len(clauses) : Lits(clauses[i]) \subseteq Lit
    BY <1>3 DEF Lits
  <1> QED BY <1>1, <1>2, <1>3, <1>4

(* The entries a clause owes do not change when its watches are swapped. *)
LEMMA WatchCountTypes ==
    /\ \A c \in Seq(Lit), l \in Lit : WatchCount(c, l) \in 0 .. 2
    /\ \A c \in Seq(Lit) : WatchEntries(c) \in [Lit -> Nat]
    /\ \A c \in Seq(Lit), l \in Lit : WatchEntries(c)[l] = WatchCount(c, l)
  BY DEF WatchCount, WatchEntries

(* The clause of an entry taken from the list of false_lit watches false_lit, at
   position 2 once propagate has normalised it. *)
LEMMA VisitClause ==
    ASSUME DbTypes, PropTypes, WatchListsExact, pc = "visit",
           NEW i \in 1 .. Len(clauses), todo[i] > 0,
           NEW c, c = Normalised(clauses[i])
    PROVE  /\ Len(clauses[i]) >= 2 /\ c \in Seq(Lit) /\ Len(c) = Len(clauses[i])
           /\ Lits(c) = Lits(clauses[i]) /\ c[2] = false_lit /\ c[1] \in Lit
           /\ DOMAIN c = 1 .. Len(c) /\ \A k \in 1 .. Len(c) : c[k] \in Lit
           /\ \A l \in Lit : WatchCount(c, l) = WatchCount(clauses[i], l)
           /\ false_lit \in Lit /\ todo[i] \in Nat /\ watches[i] \in [Lit -> Nat]
           /\ todo[i] + watches[i][false_lit] = WatchCount(clauses[i], false_lit)
           /\ \/ c = clauses[i]
              \/ clauses[i][1] = false_lit /\ c[1] = clauses[i][2]
           /\ \A k \in 3 .. Len(c) : c[k] = clauses[i][k]
  <1> DEFINE a == clauses[i]
  <1>1. a \in Seq(Lit) /\ watches[i] \in [Lit -> Nat] /\ DOMAIN clauses = 1 .. Len(clauses)
        /\ Len(a) \in Nat
    BY DbDomains
  <1>2. false_lit \in Lit /\ todo \in Seq(Nat) /\ Len(todo) = Len(clauses)
    BY DEF PropTypes
  <1>3. todo[i] \in Nat BY <1>2, ElementOfSeq
  <1>4. watches[i][false_lit] \in Nat BY <1>1, <1>2
  <1>5. todo[i] + watches[i][false_lit] = WatchCount(a, false_lit)
    <2>1. watches[i][false_lit] + (IF pc = "visit" /\ false_lit = false_lit THEN todo[i] ELSE 0)
              = WatchCount(clauses[i], false_lit)
      BY <1>1, <1>2 DEF WatchListsExact
    <2>2. watches[i][false_lit] + todo[i] = WatchCount(clauses[i], false_lit) BY <2>1
    <2> QED BY <1>3, <1>4, <2>2
  <1>6. Len(a) >= 2 /\ (a[1] = false_lit \/ a[2] = false_lit)
    BY <1>1, <1>3, <1>4, <1>5 DEF WatchCount
  <1>7. CASE a[1] = false_lit
    <2>1. c = Swap(a, 1, 2) BY <1>7 DEF Normalised
    <2>2. 1 \in 1 .. Len(a) /\ 2 \in 1 .. Len(a) BY <1>1, <1>6
    <2>3. /\ c \in Seq(Lit) /\ Len(c) = Len(a) /\ Lits(c) = Lits(a)
          /\ \A k \in 1 .. Len(a) : c[k] = IF k = 2 THEN a[1] ELSE IF k = 1 THEN a[2] ELSE a[k]
      <3> HIDE DEF a
      <3>1. /\ Swap(a, 1, 2) \in Seq(Lit) /\ Len(Swap(a, 1, 2)) = Len(a)
            /\ Lits(Swap(a, 1, 2)) = Lits(a)
            /\ \A k \in 1 .. Len(a) :
                 Swap(a, 1, 2)[k] = IF k = 2 THEN a[1] ELSE IF k = 1 THEN a[2] ELSE a[k]
        BY <1>1, <2>2, SwapLits
      <3> QED BY <2>1, <3>1
    <2>4. DOMAIN c = 1 .. Len(c) /\ \A k \in 1 .. Len(c) : c[k] \in Lit
      BY <2>3, LenProperties, ElementOfSeq
    <2>5. c[1] = a[2] /\ c[2] = a[1] BY <2>2, <2>3
    <2>6. \A l \in Lit : WatchCount(c, l) = WatchCount(a, l)
      BY <2>3, <2>5 DEF WatchCount
    <2>7. \A k \in 3 .. Len(c) : c[k] = a[k] BY <1>1, <2>3
    <2> QED BY <1>1, <1>2, <1>3, <1>5, <1>6, <1>7, <2>2, <2>3, <2>4, <2>5, <2>6, <2>7
  <1>8. CASE a[1] # false_lit
    <2>1. c = a /\ c[2] = false_lit BY <1>6, <1>8 DEF Normalised
    <2>2. DOMAIN c = 1 .. Len(c) /\ \A k \in 1 .. Len(c) : c[k] \in Lit
      BY <1>1, <2>1, LenProperties, ElementOfSeq
    <2> QED BY <1>1, <1>2, <1>3, <1>5, <1>6, <2>1, <2>2
  <1> QED BY <1>7, <1>8

(* A set of positions that is not empty has a first one. *)
LEMMA LeastPosition ==
    ASSUME NEW S \in SUBSET Nat, S # {}
    PROVE  \E k \in S : \A j \in S : k <= j
  <1>1. PICK k \in S : \A j \in S : ~(<<j, k>> \in OpToRel(<, Nat))
    BY WFMin, NatLessThanWellFounded
  <1>2. \A j \in S : ~(j < k) BY <1>1 DEF OpToRel
  <1> QED BY <1>2

(* The literal reorder_watches brings forward. *)
LEMMA FirstNonFalseIs ==
    ASSUME NEW c \in Seq(Lit), NEW from \in 1 .. Len(c)
    PROVE  /\ FirstNonFalse(c, from) \in from .. Len(c)
           /\ ~LitFalse(c[from]) => FirstNonFalse(c, from) = from
           /\ (\E k \in from .. Len(c) : ~LitFalse(c[k])) => ~LitFalse(c[FirstNonFalse(c, from)])
           /\ \A k \in from .. Len(c) : ~LitFalse(c[k]) => FirstNonFalse(c, from) <= k
  <1> DEFINE nf == {k \in from .. Len(c) : ~LitFalse(c[k])}
             f == CHOOSE k \in nf : \A j \in nf : k <= j
  <1>1. Len(c) \in Nat BY LenProperties
  <1>2. CASE nf = {}
    <2>1. FirstNonFalse(c, from) = from BY <1>2 DEF FirstNonFalse
    <2>2. \A k \in from .. Len(c) : LitFalse(c[k]) BY <1>2
    <2> QED BY <1>1, <2>1, <2>2
  <1>3. CASE nf # {}
    <2>1. FirstNonFalse(c, from) = f BY <1>3 DEF FirstNonFalse
    <2>2. nf \in SUBSET Nat BY <1>1
    <2>3. \E k \in nf : \A j \in nf : k <= j BY <1>3, <2>2, LeastPosition
    <2>4. f \in nf /\ \A j \in nf : f <= j BY <2>3
    <2>5. ~LitFalse(c[from]) => from \in nf BY <1>1
    <2> HIDE DEF f
    <2> QED BY <1>1, <2>1, <2>4, <2>5
  <1> QED BY <1>2, <1>3

(* reorder_watches permutes a clause; when the clause had no missed implication,
   its first watch is not false, and is true if the second one is false. *)
LEMMA ReorderedIs ==
    ASSUME NEW c \in Seq(Lit)
    PROVE  /\ Reordered(c) \in Seq(Lit) /\ Len(Reordered(c)) = Len(c)
           /\ Lits(Reordered(c)) = Lits(c)
           /\ Len(c) = 1 => Reordered(c)[1] = c[1]
           /\ (/\ Len(c) >= 2 /\ (LitFalse(c[1]) => LitTrue(c[2]) /\ ~LitFalse(c[2]))
               /\ LitFalse(c[2]) => LitTrue(c[1]) /\ ~LitFalse(c[1]))
              => /\ ~LitFalse(Reordered(c)[1])
                 /\ LitFalse(Reordered(c)[2]) => LitTrue(Reordered(c)[1])
  <1>1. Len(c) \in Nat BY LenProperties
  <1>2. CASE Len(c) < 2 BY <1>1, <1>2 DEF Reordered
  <1>3. CASE Len(c) >= 2
    <2> DEFINE f1 == FirstNonFalse(c, 1)
               c1 == Swap(c, 1, f1)
               f2 == FirstNonFalse(c1, 2)
               d == Swap(c1, 2, f2)
    <2>1. f1 \in 1 .. Len(c) /\ (~LitFalse(c[1]) => f1 = 1)
          /\ (~LitFalse(c[2]) => f1 <= 2 /\ ~LitFalse(c[f1]))
      BY <1>1, <1>3, FirstNonFalseIs
    <2>2. /\ c1 \in Seq(Lit) /\ Len(c1) = Len(c) /\ Lits(c1) = Lits(c)
          /\ \A k \in 1 .. Len(c) : c1[k] = IF k = f1 THEN c[1] ELSE IF k = 1 THEN c[f1] ELSE c[k]
      <3> HIDE DEF f1
      <3>1. f1 \in 1 .. Len(c) /\ 1 \in 1 .. Len(c) BY <1>1, <1>3, <2>1
      <3> QED BY <3>1, SwapLits
    <2>3. f2 \in 2 .. Len(c) /\ (~LitFalse(c1[2]) => f2 = 2)
      <3> HIDE DEF c1
      <3> QED BY <1>1, <1>3, <2>2, FirstNonFalseIs
    <2>4. /\ d \in Seq(Lit) /\ Len(d) = Len(c) /\ Lits(d) = Lits(c)
          /\ \A k \in 1 .. Len(c) : d[k] = IF k = f2 THEN c1[2] ELSE IF k = 2 THEN c1[f2] ELSE c1[k]
      <3> HIDE DEF f2, c1
      <3>1. f2 \in 1 .. Len(c1) /\ 2 \in 1 .. Len(c1) BY <1>1, <1>3, <2>2, <2>3
      <3> QED BY <2>2, <3>1, SwapLits
    <2>5. Reordered(c) = d BY <1>1, <1>3 DEF Reordered
    <2>6. ASSUME LitFalse(c[1]) => LitTrue(c[2]) /\ ~LitFalse(c[2]),
                 LitFalse(c[2]) => LitTrue(c[1]) /\ ~LitFalse(c[1])
          PROVE  ~LitFalse(d[1]) /\ (LitFalse(d[2]) => LitTrue(d[1]))
      <3> HIDE DEF f1, f2, c1, d
      <3>1. d[1] = c1[1] BY <1>1, <1>3, <2>3, <2>4
      <3>2. CASE LitFalse(c[1])
        <4>1. f1 = 2 \/ f1 = 1 BY <1>1, <2>1, <2>6, <3>2
        <4>2. f1 # 1 BY <2>1, <2>6, <3>2
        <4>3. c1[1] = c[2] BY <1>1, <1>3, <2>2, <4>1, <4>2
        <4> QED BY <2>6, <3>1, <3>2, <4>3
      <3>3. CASE ~LitFalse(c[1])
        <4>1. c1[1] = c[1] /\ c1[2] = c[2] BY <1>1, <1>3, <2>1, <2>2, <3>3
        <4>2. CASE LitFalse(c[2]) BY <2>6, <3>1, <3>3, <4>1, <4>2
        <4>3. CASE ~LitFalse(c[2])
          <5>1. f2 = 2 BY <2>3, <4>1, <4>3
          <5>2. d[2] = c[2] BY <1>1, <1>3, <2>4, <4>1, <5>1
          <5> QED BY <3>1, <3>3, <4>1, <4>3, <5>2
        <4> QED BY <4>2, <4>3
      <3> QED BY <3>2, <3>3
    <2> HIDE DEF d
    <2> QED BY <1>1, <1>3, <2>4, <2>5, <2>6
  <1> QED BY <1>1, <1>2, <1>3

(* What reduce_db leaves: N clauses, the one at n being a permutation of the old
   one at kept[n]; only learnt clauses of LBD above 2 that are nobody's antecedent
   are gone, and reasons follow their clauses. *)
Renumbers(N, kept) ==
    /\ DbTypes' /\ Len(clauses') = N /\ kept \in [1 .. N -> 1 .. Len(clauses)]
    /\ \A n \in 1 .. N :
         /\ clauses'[n] = Reordered(clauses[kept[n]])
         /\ Lits(clauses'[n]) = Lits(clauses[kept[n]])
         /\ Len(clauses'[n]) = Len(clauses[kept[n]])
         /\ lbd'[n] = lbd[kept[n]]
         /\ watches'[n] = WatchEntries(clauses'[n])
    /\ \A i \in 1 .. Len(clauses) : lbd[i] <= 2 => \E n \in 1 .. N : kept[n] = i
    /\ reason' \in [Vars -> Nat]
    /\ \A v \in Vars :
         IF assign[v] = "none" \/ reason[v] = 0 THEN reason'[v] = reason[v]
         ELSE reason'[v] \in 1 .. N /\ kept[reason'[v]] = reason[v]

LEMMA ReduceEffect ==
    ASSUME DbTypes, AsgTypes, TrailExact, Antecedents, ReduceDb
    PROVE  \E N, kept : N \in Nat /\ Renumbers(N, kept)
  <1>1. PICK R \in SUBSET Candidates :
           LET S    == DOMAIN clauses \ R
               kept == [n \in 1 .. Cardinality(S) |->
                           CHOOSE i \in S : Cardinality({j \in S : j < i}) = n - 1]
               new  == [n \in DOMAIN kept |-> Reordered(clauses[kept[n]])]
           IN  /\ Enumerates(kept, S)
               /\ clauses' = new
               /\ lbd' = [n \in DOMAIN kept |-> lbd[kept[n]]]
               /\ watches' = [n \in DOMAIN kept |-> WatchEntries(new[n])]
               /\ reason' = Remapped(kept)
    BY DEF ReduceDb
  <1> DEFINE S    == DOMAIN clauses \ R
             N    == Cardinality(S)
             kept == [n \in 1 .. N |->
                           CHOOSE i \in S : Cardinality({j \in S : j < i}) = n - 1]
  <1>2. /\ Enumerates(kept, S)
        /\ clauses' = [n \in 1 .. N |-> Reordered(clauses[kept[n]])]
        /\ lbd' = [n \in 1 .. N |-> lbd[kept[n]]]
        /\ watches' = [n \in 1 .. N |-> WatchEntries(Reordered(clauses[kept[n]]))]
        /\ reason' = Remapped(kept)
    BY <1>1
  <1>3. Len(clauses) \in Nat /\ DOMAIN clauses = 1 .. Len(clauses)
        /\ \A i \in 1 .. Len(clauses) : clauses[i] \in Seq(Lit) /\ lbd[i] \in Nat
    BY DbDomains
  <1>4. N \in Nat
    <2>1. IsFiniteSet(1 .. Len(clauses)) BY <1>3, FS_Interval
    <2>2. IsFiniteSet(S) BY <1>3, <2>1, FS_Difference
    <2> QED BY <2>2, FS_CardinalityType
  <1>5. DOMAIN kept = 1 .. N /\ S \subseteq 1 .. Len(clauses) BY <1>3
  <1>5a. kept = [n \in 1 .. N |-> kept[n]]
    <2> DEFINE g(n) == CHOOSE i \in S : Cardinality({j \in S : j < i}) = n - 1
    <2>1. kept = [n \in 1 .. N |-> g(n)] OBVIOUS
    <2> HIDE DEF g, kept
    <2> QED BY <2>1
  <1> HIDE DEF kept, N
  <1>6. /\ kept \in [1 .. N -> S]
        /\ \A i \in S : \E n \in 1 .. N : kept[n] = i
    <2>1. \A n \in 1 .. N : kept[n] \in S BY <1>2, <1>5 DEF Enumerates
    <2>3. \A i \in S : \E n \in 1 .. N : kept[n] = i BY <1>2, <1>5 DEF Enumerates
    <2> QED BY <1>5a, <2>1, <2>3
  <1>7. \A n \in 1 .. N :
           /\ kept[n] \in 1 .. Len(clauses)
           /\ clauses'[n] = Reordered(clauses[kept[n]])
           /\ Lits(clauses'[n]) = Lits(clauses[kept[n]])
           /\ Len(clauses'[n]) = Len(clauses[kept[n]])
           /\ clauses'[n] \in Seq(Lit)
           /\ lbd'[n] = lbd[kept[n]] /\ lbd'[n] \in Nat
           /\ watches'[n] = WatchEntries(clauses'[n])
           /\ watches'[n] \in [Lit -> Nat]
    <2> SUFFICES ASSUME NEW n \in 1 .. N
                 PROVE  /\ kept[n] \in 1 .. Len(clauses)
                        /\ clauses'[n] = Reordered(clauses[kept[n]])
                        /\ Lits(clauses'[n]) = Lits(clauses[kept[n]])
                        /\ Len(clauses'[n]) = Len(clauses[kept[n]])
                        /\ clauses'[n] \in Seq(Lit)
                        /\ lbd'[n] = lbd[kept[n]] /\ lbd'[n] \in Nat
                        /\ watches'[n] = WatchEntries(clauses'[n])
                        /\ watches'[n] \in [Lit -> Nat]
      OBVIOUS
    <2>1. kept[n] \in 1 .. Len(clauses) BY <1>5, <1>6
    <2>2. clauses[kept[n]] \in Seq(Lit) /\ lbd[kept[n]] \in Nat BY <1>3, <2>1
    <2>3. /\ clauses'[n] = Reordered(clauses[kept[n]]) /\ lbd'[n] = lbd[kept[n]]
          /\ watches'[n] = WatchEntries(clauses'[n])
      BY <1>2
    <2>4. /\ clauses'[n] \in Seq(Lit) /\ Lits(clauses'[n]) = Lits(clauses[kept[n]])
          /\ Len(clauses'[n]) = Len(clauses[kept[n]])
      BY <2>2, <2>3, ReorderedIs
    <2>5. watches'[n] \in [Lit -> Nat] BY <2>3, <2>4, WatchCountTypes
    <2> QED BY <2>1, <2>2, <2>3, <2>4, <2>5
  <1>8. DbTypes' /\ Len(clauses') = N
    <2>1. clauses' \in [1 .. N -> Seq(Lit)] BY <1>2, <1>7
    <2>2. lbd' \in [1 .. N -> Nat] BY <1>2, <1>7
    <2>3. watches' \in [1 .. N -> [Lit -> Nat]]
      <3>1. watches' = [n \in 1 .. N |-> watches'[n]] BY <1>2
      <3> QED BY <1>7, <3>1
    <2>4. clauses' \in Seq(Seq(Lit)) /\ lbd' \in Seq(Nat) /\ watches' \in Seq([Lit -> Nat])
      BY <1>4, <2>1, <2>2, <2>3, SeqDef
    <2>5. Len(clauses') = N /\ Len(lbd') = N /\ Len(watches') = N
      BY <1>4, <2>1, <2>2, <2>3, <2>4, LenProperties
    <2>6. formula' \in Seq(Seq(Lit)) BY DEF ReduceDb, DbTypes
    <2> QED BY <2>4, <2>5, <2>6 DEF DbTypes
  <1>9. \A i \in 1 .. Len(clauses) : lbd[i] <= 2 => \E n \in 1 .. N : kept[n] = i
    <2> SUFFICES ASSUME NEW i \in 1 .. Len(clauses), lbd[i] <= 2
                 PROVE  i \in S
      BY <1>6
    <2>1. i \notin Candidates BY <1>3 DEF Candidates
    <2> QED BY <1>3, <2>1
  <1>10. \A v \in Vars :
         IF assign[v] = "none" \/ reason[v] = 0 THEN reason'[v] = reason[v]
         ELSE reason'[v] \in 1 .. N /\ kept[reason'[v]] = reason[v]
    <2> SUFFICES ASSUME NEW v \in Vars, assign[v] # "none", reason[v] # 0
                 PROVE  reason'[v] \in 1 .. N /\ kept[reason'[v]] = reason[v]
      BY <1>2 DEF Remapped
    <2>1. PICK p \in DOMAIN trail : trail[p] = v BY DEF TrailExact
    <2>2. reason[v] \in DOMAIN clauses BY <2>1 DEF Antecedents
    <2>3. reason[v] \in Locked BY <2>1 DEF Locked
    <2>4. reason[v] \in S BY <2>2, <2>3 DEF Candidates
    <2>5. \E n \in 1 .. N : kept[n] = reason[v] BY <1>6, <2>4
    <2>6. reason'[v] = CHOOSE n \in 1 .. N : kept[n] = reason[v] BY <1>2, <1>5 DEF Remapped
    <2> QED BY <2>5, <2>6
  <1>11. reason' \in [Vars -> Nat]
    <2>1. \A v \in Vars : reason'[v] \in Nat BY <1>4, <1>10, AsgDomains
    <2>2. reason' = [v \in Vars |-> reason'[v]] BY <1>2 DEF Remapped
    <2> QED BY <2>1, <2>2
  <1>12. kept \in [1 .. N -> 1 .. Len(clauses)] BY <1>5, <1>6
  <1>13. Renumbers(N, kept) BY <1>7, <1>8, <1>9, <1>10, <1>11, <1>12 DEF Renumbers
  <1> QED BY <1>4, <1>13

-----------------------------------------------------------------------------
(* What the steps do to the clause store and to the assignment. *)

(* The clauses are permuted in place. *)
SameStore ==
    /\ clauses' \in Seq(Seq(Lit)) /\ Len(clauses') = Len(clauses) /\ lbd' = lbd
    /\ \A i \in 1 .. Len(clauses) :
         Lits(clauses'[i]) = Lits(clauses[i]) /\ Len(clauses'[i]) = Len(clauses[i])

Kept == UNCHANGED <<assign, level, reason, trail, trail_lim>>

(* l is enqueued because all other literals of clause r are false. *)
Forced(l, r) ==
    /\ LitFree(l) /\ r \in 1 .. Len(clauses') /\ l \in Lits(clauses'[r])
    /\ \A m \in Lits(clauses'[r]) : m = l \/ LitFalse(m)
    /\ Enqueue(l, r, Len(trail_lim)) /\ UNCHANGED trail_lim

(* Replacing a clause by a permutation of it. *)
LEMMA SameStoreExcept ==
    ASSUME DbTypes, NEW i \in 1 .. Len(clauses), NEW c \in Seq(Lit),
           Lits(c) = Lits(clauses[i]), Len(c) = Len(clauses[i]),
           clauses' = [clauses EXCEPT ![i] = c], lbd' = lbd
    PROVE  SameStore /\ clauses'[i] = c
  <1>1. /\ DOMAIN clauses = 1 .. Len(clauses) /\ clauses \in Seq(Seq(Lit))
    BY DbDomains DEF DbTypes
  <1>2. clauses' \in Seq(Seq(Lit)) /\ Len(clauses') = Len(clauses)
    BY <1>1, ExceptSeq
  <1>3. \A j \in 1 .. Len(clauses) : clauses'[j] = IF j = i THEN c ELSE clauses[j]
    BY <1>1
  <1> QED BY <1>2, <1>3 DEF SameStore

(* Visiting an entry moves watches inside its clause, and forces a literal only
   when every other literal of the clause is false. *)
LEMMA VisitEffect ==
    ASSUME DbTypes, AsgTypes, PropTypes, QueueCurrent, WatchListsExact,
           NEW i \in 1 .. Len(clauses)
    PROVE  /\ VisitSatisfied(i) \/ VisitMove(i) \/ VisitConflict(i) => SameStore /\ Kept
           /\ VisitUnit(i) => SameStore /\ \E l \in Lit : Forced(l, i)
  <1> SUFFICES ASSUME VisitSatisfied(i) \/ VisitMove(i) \/ VisitUnit(i) \/ VisitConflict(i)
               PROVE  /\ VisitSatisfied(i) => SameStore /\ Kept
                      /\ VisitMove(i) => SameStore /\ Kept
                      /\ VisitConflict(i) => SameStore /\ Kept
                      /\ VisitUnit(i) => SameStore /\ \E l \in Lit : Forced(l, i)
    OBVIOUS
  <1>1. pc = "visit" /\ todo[i] > 0 /\ lbd' = lbd
    BY DEF VisitSatisfied, VisitMove, VisitUnit, VisitConflict, TakeEntry
  <1> DEFINE c == Normalised(clauses[i])
  <1>2. /\ Len(c) >= 2 /\ c \in Seq(Lit) /\ Len(c) = Len(clauses[i])
        /\ Lits(c) = Lits(clauses[i]) /\ c[2] = false_lit /\ c[1] \in Lit
        /\ DOMAIN c = 1 .. Len(c) /\ Len(c) \in Nat
    BY <1>1, VisitClause, LenProperties
  <1> HIDE DEF c
  <1>3. ASSUME VisitSatisfied(i) PROVE SameStore /\ Kept
    <2>1. clauses' = [clauses EXCEPT ![i] = c] /\ Kept
      BY <1>3 DEF VisitSatisfied, c, asg, Kept
    <2>2. SameStore BY <1>1, <1>2, <2>1, SameStoreExcept
    <2> QED BY <2>1, <2>2
  <1>4. ASSUME VisitConflict(i) PROVE SameStore /\ Kept
    <2>1. clauses' = [clauses EXCEPT ![i] = c] /\ Kept
      BY <1>4 DEF VisitConflict, c, asg, Kept
    <2>2. SameStore BY <1>1, <1>2, <2>1, SameStoreExcept
    <2> QED BY <2>1, <2>2
  <1>5. ASSUME VisitMove(i) PROVE SameStore /\ Kept
    <2>1. PICK k \in Replacements(c) : clauses' = [clauses EXCEPT ![i] = Swap(c, 2, k)]
      BY <1>5 DEF VisitMove, c
    <2>2. k \in 3 .. Len(c) /\ k \in 1 .. Len(c) /\ 2 \in 1 .. Len(c)
      BY <1>2, <2>1 DEF Replacements
    <2>3. /\ Swap(c, 2, k) \in Seq(Lit) /\ Len(Swap(c, 2, k)) = Len(c)
          /\ Lits(Swap(c, 2, k)) = Lits(c)
      BY <1>2, <2>2, SwapLits
    <2>4. SameStore BY <1>1, <1>2, <2>1, <2>3, SameStoreExcept
    <2>5. Kept BY <1>5 DEF VisitMove, asg, Kept
    <2> QED BY <2>4, <2>5
  <1>6. ASSUME VisitUnit(i) PROVE SameStore /\ \E l \in Lit : Forced(l, i)
    <2>1. /\ clauses' = [clauses EXCEPT ![i] = c] /\ LitFree(c[1]) /\ Replacements(c) = {}
          /\ Enqueue(c[1], i, Len(trail_lim)) /\ UNCHANGED trail_lim
      BY <1>6 DEF VisitUnit, c, DecisionLevel
    <2>2. SameStore /\ clauses'[i] = c BY <1>1, <1>2, <2>1, SameStoreExcept
    <2>3. i \in 1 .. Len(clauses') BY <2>2 DEF SameStore
    <2>4. c[1] \in Lits(c) BY <1>2 DEF Lits
    <2>5. \A m \in Lits(c) : m = c[1] \/ LitFalse(m)
      <3>1. LitFalse(c[2]) BY <1>1, <1>2 DEF QueueCurrent
      <3>2. \A k \in 3 .. Len(c) : LitFalse(c[k]) BY <2>1 DEF Replacements
      <3>3. \A k \in 1 .. Len(c) : k = 1 \/ k = 2 \/ k \in 3 .. Len(c) BY <1>2
      <3> QED BY <1>2, <3>1, <3>2, <3>3 DEF Lits
    <2>6. Forced(c[1], i) BY <2>1, <2>2, <2>3, <2>4, <2>5 DEF Forced
    <2> QED BY <1>2, <2>2, <2>6
  <1> QED BY <1>3, <1>4, <1>5, <1>6

(* Every step of the solver is of one of these kinds. *)
AnyEffect ==
    \/ SameStore /\ Kept
    \/ SameStore /\ \E l \in Lit, r \in 1 .. Len(clauses) : Forced(l, r)
    \/ /\ pc = "add" /\ Store(lemma, lemma_lbd)
       /\ lemma[1] \in Lit /\ Forced(lemma[1], Len(clauses) + 1)
    \/ SameStore /\ \E n \in Nat : n < Len(trail_lim) /\ BacktrackTo(n)
    \/ UNCHANGED db /\ \E v \in Vars : Decide(v)
    \/ ReduceDb

LEMMA Effects ==
    ASSUME TrailInv, WatchListsExact, LemmaRight, [Next]_vars
    PROVE  formula' = formula /\ AnyEffect
  <1> USE DEF TrailInv, TypeOK
  <1>0. /\ clauses \in Seq(Seq(Lit)) /\ Len(clauses) \in Nat
        /\ DOMAIN clauses = 1 .. Len(clauses)
    BY DbDomains DEF DbTypes
  <1>1. UNCHANGED <<clauses, lbd>> => SameStore BY <1>0 DEF SameStore
  <1>2. ASSUME UNCHANGED <<formula, db, asg>> PROVE formula' = formula /\ AnyEffect
    <2>1. UNCHANGED <<clauses, lbd, formula>> /\ Kept BY <1>2 DEF db, asg, Kept
    <2> QED BY <1>1, <2>1 DEF AnyEffect
  <1>3. ASSUME \/ SeedUnsat \/ SeedSkip \/ SeedDone \/ PropagateDone \/ VisitDone
               \/ ConflictUnsat \/ ConflictTimeout \/ BeginAnalyze
        PROVE  UNCHANGED <<formula, db, asg>>
    BY <1>3 DEF SeedUnsat, SeedSkip, SeedDone, PropagateDone, VisitDone,
                ConflictUnsat, ConflictTimeout, BeginAnalyze, Return
  <1>4. ASSUME \/ MarkClause \/ WalkTrail \/ FormLemma \/ NoRestart \/ ReduceNothing
               \/ AllAssigned \/ OutOfBudget \/ DecideTimeout \/ Done
        PROVE  UNCHANGED <<formula, db, asg>>
    BY <1>4 DEF MarkClause, WalkTrail, FormLemma, NoRestart, ReduceNothing,
                AllAssigned, OutOfBudget, DecideTimeout, Return, Done, vars
  <1>5. CASE SeedUnit
    <2> DEFINE c == clauses[seed]
    <2>1. /\ seed \in 1 .. Len(clauses) /\ Len(c) = 1 /\ LitFree(c[1])
          /\ Enqueue(c[1], seed, Len(trail_lim))
          /\ UNCHANGED <<formula, db, trail_lim>>
      BY <1>0, <1>5 DEF SeedUnit, ControlTypes, DecisionLevel
    <2>2. c \in Seq(Lit) /\ DOMAIN c = 1 .. 1 /\ c[1] \in Lit
      BY <2>1, DbDomains
    <2>3. Lits(c) = {c[1]} BY <2>2 DEF Lits
    <2>4. clauses' = clauses /\ lbd' = lbd /\ formula' = formula BY <2>1 DEF db
    <2>5. Forced(c[1], seed) BY <2>1, <2>3, <2>4 DEF Forced
    <2> QED BY <1>1, <2>1, <2>2, <2>4, <2>5 DEF AnyEffect
  <1>6. CASE PropagatePop
    BY <1>1, <1>6 DEF PropagatePop, Kept, AnyEffect
  <1>7. CASE Visit
    <2>1. PICK i \in 1 .. Len(clauses) :
             VisitSatisfied(i) \/ VisitMove(i) \/ VisitUnit(i) \/ VisitConflict(i)
      BY <1>0, <1>7 DEF Visit
    <2>2. formula' = formula
      BY <2>1 DEF VisitSatisfied, VisitMove, VisitUnit, VisitConflict
    <2>3. SameStore /\ (Kept \/ \E l \in Lit : Forced(l, i)) BY <2>1, VisitEffect
    <2> QED BY <2>2, <2>3 DEF AnyEffect
  <1>8. CASE Backjump
    <2>1. btlevel \in Nat /\ btlevel < Len(trail_lim)
      BY <1>8 DEF Backjump, LemmaRight, LemTypes, DecisionLevel
    <2>2. BacktrackTo(btlevel) /\ UNCHANGED <<formula, clauses, lbd>>
      BY <1>8 DEF Backjump, db
    <2> QED BY <1>1, <2>1, <2>2 DEF AnyEffect
  <1>9. CASE AddLearnt
    <2>1. /\ pc = "add" /\ Store(lemma, lemma_lbd) /\ UNCHANGED <<formula, trail_lim>>
          /\ LitFree(lemma[1]) /\ Enqueue(lemma[1], Len(clauses) + 1, Len(trail_lim))
      BY <1>9 DEF AddLearnt, LemmaRight, DecisionLevel
    <2>2. /\ lemma \in Seq(Lit) /\ Len(lemma) >= 1 /\ Len(lemma) \in Nat
          /\ DOMAIN lemma = 1 .. Len(lemma)
          /\ \A k \in 2 .. Len(lemma) : LitFalse(lemma[k])
      BY <2>1, LenProperties DEF LemmaRight, LemTypes
    <2>3. lemma[1] \in Lit /\ lemma[1] \in Lits(lemma) BY <2>2, ElementOfSeq DEF Lits
    <2>4. \A m \in Lits(lemma) : m = lemma[1] \/ LitFalse(m)
      <3>1. \A k \in 1 .. Len(lemma) : k = 1 \/ k \in 2 .. Len(lemma) BY <2>2
      <3> QED BY <2>2, <3>1 DEF Lits
    <2>5. Len(clauses') = Len(clauses) + 1 /\ clauses'[Len(clauses) + 1] = lemma
      BY <1>0, <2>1, <2>2, AppendProperties DEF Store
    <2>6. Forced(lemma[1], Len(clauses) + 1)
      BY <1>0, <2>1, <2>3, <2>4, <2>5 DEF Forced
    <2> QED BY <2>1, <2>3, <2>6 DEF AnyEffect
  <1>10. CASE Restart
    <2>1. 0 < Len(trail_lim) BY <1>10 DEF Restart, RestartDue, DecisionLevel
    <2>2. BacktrackTo(0) /\ UNCHANGED <<formula, clauses, lbd>>
      BY <1>10 DEF Restart, db
    <2> QED BY <1>1, <2>1, <2>2 DEF AnyEffect
  <1>11. CASE ReduceDb BY <1>11 DEF ReduceDb, AnyEffect
  <1>12. ASSUME NEW v \in Vars, Decide(v) PROVE formula' = formula /\ AnyEffect
    BY <1>12 DEF Decide, AnyEffect
  <1>13. CASE UNCHANGED vars BY <1>2, <1>13 DEF vars
  <1> QED
    BY <1>2, <1>3, <1>4, <1>5, <1>6, <1>7, <1>8, <1>9, <1>10, <1>11, <1>12, <1>13
    DEF Next, Step

(* The old clauses keep their indices and their literals. *)
ClausesKept ==
    /\ DOMAIN clauses \subseteq DOMAIN clauses'
    /\ \A i \in DOMAIN clauses : Lits(clauses'[i]) = Lits(clauses[i])

LEMMA ClausesKeptIs ==
    ASSUME DbTypes, LemTypes, SameStore \/ Store(lemma, lemma_lbd)
    PROVE  /\ ClausesKept
           /\ clauses' \in Seq(Seq(Lit)) /\ DOMAIN clauses' = 1 .. Len(clauses')
  <1>1. clauses \in Seq(Seq(Lit)) /\ Len(clauses) \in Nat /\ DOMAIN clauses = 1 .. Len(clauses)
    BY DbDomains DEF DbTypes
  <1>2. CASE SameStore
    <2>1. DOMAIN clauses' = 1 .. Len(clauses) BY <1>1, <1>2, LenProperties DEF SameStore
    <2> QED BY <1>1, <1>2, <2>1 DEF SameStore, ClausesKept
  <1>3. CASE Store(lemma, lemma_lbd)
    <2>1. /\ clauses' \in Seq(Seq(Lit)) /\ Len(clauses') = Len(clauses) + 1
          /\ \A i \in 1 .. Len(clauses) : clauses'[i] = clauses[i]
      BY <1>1, <1>3, AppendProperties DEF Store, LemTypes
    <2>2. DOMAIN clauses' = 1 .. Len(clauses) + 1 BY <2>1, LenProperties
    <2> QED BY <1>1, <2>1, <2>2 DEF ClausesKept
  <1> QED BY <1>2, <1>3

(* Where the literals of an antecedent stand. *)
LEMMA AntecedentIs ==
    ASSUME DbTypes, AsgTypes, Antecedents, NEW p \in DOMAIN trail, reason[trail[p]] # 0
    PROVE  /\ reason[trail[p]] \in DOMAIN clauses
           /\ TrueLit(trail[p]) \in Lits(clauses[reason[trail[p]]])
           /\ \A l \in Lits(clauses[reason[trail[p]]]) :
                /\ l \in Lit /\ l.var \in Vars
                /\ \/ l = TrueLit(trail[p])
                   \/ LitFalse(l) /\ \E q \in 1 .. p - 1 : trail[q] = l.var
  <1>1. reason[trail[p]] \in DOMAIN clauses BY DEF Antecedents
  <1>2. Lits(clauses[reason[trail[p]]]) \subseteq Lit BY <1>1, DbDomains
  <1> QED BY <1>1, <1>2, LitTypes DEF Antecedents

(* A false literal is assigned; a free one is not false. *)
LEMMA FalseAssigned ==
    ASSUME NEW l \in Lit
    PROVE  /\ LitFalse(l) => assign[l.var] # "none" /\ ~LitFree(l) /\ ~LitTrue(l)
           /\ LitTrue(l) => assign[l.var] # "none" /\ ~LitFree(l) /\ ~LitFalse(l)
           /\ LitFalse(l) => l = FalseLit(l.var)
           /\ LitTrue(l) => l = TrueLit(l.var)
           /\ assign[l.var] \in Bool \cup {"none"} => LitFalse(l) \/ LitTrue(l) \/ LitFree(l)
  <1>1. l = [var |-> l.var, val |-> l.val] BY DEF Lit
  <1>2. l.val \in Bool BY DEF Lit
  <1>3. Flip(l.val) # l.val /\ Flip(l.val) # "none" /\ l.val # "none" /\ Flip(Flip(l.val)) = l.val
    BY <1>2 DEF Flip, Bool
  <1>4. LitFalse(l) => l = FalseLit(l.var) BY <1>1, <1>3 DEF LitFalse, FalseLit
  <1>5. LitTrue(l) => l = TrueLit(l.var) BY <1>1 DEF LitTrue, TrueLit
  <1>6. assign[l.var] \in Bool \cup {"none"} => LitFalse(l) \/ LitTrue(l) \/ LitFree(l)
    BY <1>2 DEF LitFalse, LitTrue, LitFree, Bool, Flip
  <1> QED BY <1>3, <1>4, <1>5, <1>6 DEF LitFalse, LitTrue, LitFree

LEMMA ForcedAntecedents ==
    ASSUME DbTypes, AsgTypes, Trail, Antecedents, ClausesKept,
           clauses' \in Seq(Seq(Lit)), DOMAIN clauses' = 1 .. Len(clauses'),
           NEW l \in Lit, NEW r \in Nat \ {0}, Forced(l, r)
    PROVE  Antecedents'
  <1> DEFINE n == Len(trail)
  <1>0. Len(trail_lim) \in Nat /\ trail_lim' \in Seq(Nat) /\ trail \in Seq(Vars)
    BY AsgDomains DEF Forced, AsgTypes
  <1>1. /\ Len(trail') = n + 1 /\ trail'[n + 1] = l.var
        /\ \A p \in 1 .. n : trail'[p] = trail[p]
        /\ AsgTypes'
        /\ \A v \in Vars : /\ assign'[v] = IF v = l.var THEN l.val ELSE assign[v]
                           /\ reason'[v] = IF v = l.var THEN r ELSE reason[v]
    <2>1. PICK d \in Nat : d = Len(trail_lim) BY <1>0
    <2>2. Enqueue(l, r, d) BY <2>1 DEF Forced
    <2>3. r \in Nat OBVIOUS
    <2> HIDE DEF n
    <2>4. /\ Len(trail') = Len(trail) + 1 /\ trail'[Len(trail) + 1] = l.var
          /\ \A p \in 1 .. Len(trail) : trail'[p] = trail[p]
      BY <1>0, <2>2, <2>3, EnqueueTypes
    <2>5. AsgTypes' BY <1>0, <2>2, <2>3, EnqueueTypes
    <2>6. \A v \in Vars : /\ assign'[v] = IF v = l.var THEN l.val ELSE assign[v]
                          /\ reason'[v] = IF v = l.var THEN r ELSE reason[v]
      BY <1>0, <2>2, <2>3, EnqueueTypes
    <2> QED BY <2>4, <2>5, <2>6 DEF n
  <1>2. n \in Nat /\ DOMAIN trail = 1 .. n /\ DOMAIN trail' = 1 .. n + 1
        /\ \A p \in 1 .. n : trail[p] \in Vars
    <2>1. n \in Nat /\ DOMAIN trail = 1 .. n /\ \A p \in 1 .. n : trail[p] \in Vars
      BY AsgDomains
    <2>2. trail' \in Seq(Vars) BY <1>1 DEF AsgTypes
    <2>3. DOMAIN trail' = 1 .. Len(trail') BY <2>2, LenProperties
    <2> QED BY <1>1, <2>1, <2>3
  <1>3. l.var \in Vars /\ assign[l.var] = "none" BY LitTypes DEF Forced, LitFree
  <1>4. \A p \in 1 .. n : trail[p] # l.var BY <1>2, <1>3 DEF Trail, TrailExact
  <1> SUFFICES ASSUME NEW p \in 1 .. n + 1, reason'[trail'[p]] # 0
               PROVE  /\ reason'[trail'[p]] \in DOMAIN clauses'
                      /\ [var |-> trail'[p], val |-> assign'[trail'[p]]] \in Lits(clauses'[reason'[trail'[p]]])
                      /\ \A m \in Lits(clauses'[reason'[trail'[p]]]) :
                           \/ m = [var |-> trail'[p], val |-> assign'[trail'[p]]]
                           \/ LitFalse(m)' /\ \E q \in 1 .. p - 1 : trail'[q] = m.var
    BY <1>2 DEF Antecedents, TrueLit, LitFalse
  <1>5. ASSUME NEW m \in Lit, LitFalse(m) PROVE LitFalse(m)' /\ m.var # l.var
    <2>1. assign[m.var] # "none" /\ m.var \in Vars BY <1>5, FalseAssigned, LitTypes
    <2>2. assign'[m.var] = assign[m.var] BY <1>1, <1>3, <2>1
    <2> QED BY <1>3, <1>5, <2>1, <2>2 DEF LitFalse
  <1>6. CASE p \in 1 .. n
    <2> DEFINE v == trail[p]
    <2>1. trail'[p] = v /\ v \in Vars /\ v # l.var /\ p \in DOMAIN trail BY <1>1, <1>2, <1>4, <1>6
    <2>2. reason'[v] = reason[v] /\ assign'[v] = assign[v] /\ reason[v] # 0 BY <1>1, <2>1
    <2>3. /\ reason[v] \in DOMAIN clauses
          /\ TrueLit(v) \in Lits(clauses[reason[v]])
          /\ \A m \in Lits(clauses[reason[v]]) :
                /\ m \in Lit
                /\ \/ m = TrueLit(v)
                   \/ LitFalse(m) /\ \E q \in 1 .. p - 1 : trail[q] = m.var
      BY <2>1, <2>2, AntecedentIs
    <2>4. TrueLit(v)' = TrueLit(v) BY <2>1, <2>2 DEF TrueLit
    <2>5. Lits(clauses'[reason[v]]) = Lits(clauses[reason[v]]) /\ reason[v] \in DOMAIN clauses'
      BY <2>3 DEF ClausesKept
    <2>6. \A q \in 1 .. p - 1 : trail'[q] = trail[q] BY <1>1, <1>2, <1>6
    <2>7. [var |-> trail'[p], val |-> assign'[trail'[p]]] = TrueLit(v) BY <2>1, <2>4 DEF TrueLit
    <2> HIDE DEF v
    <2>8. \A m \in Lits(clauses[reason[v]]) :
             m = TrueLit(v) \/ (LitFalse(m)' /\ \E q \in 1 .. p - 1 : trail'[q] = m.var)
      BY <1>5, <2>3, <2>6
    <2> QED BY <2>1, <2>2, <2>3, <2>5, <2>7, <2>8
  <1>7. CASE p = n + 1
    <2>1. trail'[p] = l.var /\ reason'[l.var] = r /\ assign'[l.var] = l.val
      BY <1>1, <1>3, <1>7
    <2>2. [var |-> trail'[p], val |-> assign'[trail'[p]]] = l BY <2>1 DEF TrueLit, Lit
    <2>3. r \in DOMAIN clauses' /\ l \in Lits(clauses'[r])
          /\ \A m \in Lits(clauses'[r]) : m = l \/ LitFalse(m)
      BY DEF Forced
    <2>4. Lits(clauses'[r]) \subseteq Lit
      <3>1. clauses'[r] \in Seq(Lit) BY <2>3, ElementOfSeq
      <3> QED BY <3>1, ElementOfSeq, LenProperties DEF Lits
    <2>5. \A m \in Lits(clauses'[r]) : LitFalse(m) => \E q \in 1 .. p - 1 : trail'[q] = m.var
      <3> SUFFICES ASSUME NEW m \in Lits(clauses'[r]), LitFalse(m)
                   PROVE  \E q \in 1 .. p - 1 : trail'[q] = m.var
        OBVIOUS
      <3>1. m \in Lit BY <2>4
      <3>2. assign[m.var] # "none" /\ m.var \in Vars BY <3>1, FalseAssigned, LitTypes
      <3>3. PICK q \in 1 .. n : trail[q] = m.var BY <1>2, <3>2 DEF Trail, TrailExact
      <3> QED BY <1>1, <1>2, <1>7, <3>3
    <2>6. \A m \in Lits(clauses'[r]) :
             m = l \/ (LitFalse(m)' /\ \E q \in 1 .. p - 1 : trail'[q] = m.var)
      <3> SUFFICES ASSUME NEW m \in Lits(clauses'[r]), m # l
                   PROVE  LitFalse(m)' /\ \E q \in 1 .. p - 1 : trail'[q] = m.var
        OBVIOUS
      <3>1. m \in Lit /\ LitFalse(m) BY <2>3, <2>4
      <3>2. LitFalse(m)' BY <1>5, <3>1
      <3> QED BY <2>5, <3>1, <3>2
    <2>7. reason'[trail'[p]] = r BY <2>1
    <2> QED BY <2>2, <2>3, <2>6, <2>7
  <1>8. p \in 1 .. n \/ p = n + 1 BY <1>2
  <1> QED BY <1>6, <1>7, <1>8

LEMMA UndoAntecedents ==
    ASSUME DbTypes, AsgTypes, Trail, Antecedents, ClausesKept,
           NEW n \in Nat, n < Len(trail_lim), BacktrackTo(n)
    PROVE  Antecedents'
  <1> DEFINE t == Len(trail')
  <1>1. /\ AsgTypes' /\ UNCHANGED <<level, reason>> /\ t <= Len(trail)
        /\ \A p \in 1 .. t : trail'[p] = trail[p]
        /\ \A p \in 1 .. Len(trail) : p <= t <=> level[trail[p]] <= n
        /\ \A v \in Vars : assign'[v] = IF assign[v] # "none" /\ level[v] <= n
                                           THEN assign[v] ELSE "none"
    BY BacktrackTrail
  <1>2. /\ t \in Nat /\ DOMAIN trail' = 1 .. t /\ Len(trail) \in Nat
        /\ DOMAIN trail = 1 .. Len(trail) /\ \A p \in 1 .. Len(trail) : trail[p] \in Vars
    BY <1>1, AsgDomains, LenProperties DEF AsgTypes
  <1> HIDE DEF t
  <1>3. \A p \in 1 .. t : p \in 1 .. Len(trail) /\ assign'[trail[p]] = assign[trail[p]]
    BY <1>1, <1>2 DEF Trail, TrailExact
  <1> SUFFICES ASSUME NEW p \in 1 .. t, reason[trail[p]] # 0
               PROVE  /\ reason[trail[p]] \in DOMAIN clauses'
                      /\ TrueLit(trail[p]) \in Lits(clauses'[reason[trail[p]]])
                      /\ \A m \in Lits(clauses'[reason[trail[p]]]) :
                           \/ m = TrueLit(trail[p])
                           \/ LitFalse(m)' /\ \E q \in 1 .. p - 1 : trail'[q] = m.var
    <2> SUFFICES ASSUME NEW p \in 1 .. t, reason'[trail'[p]] # 0
                 PROVE  /\ reason'[trail'[p]] \in DOMAIN clauses'
                        /\ [var |-> trail'[p], val |-> assign'[trail'[p]]]
                             \in Lits(clauses'[reason'[trail'[p]]])
                        /\ \A m \in Lits(clauses'[reason'[trail'[p]]]) :
                             \/ m = [var |-> trail'[p], val |-> assign'[trail'[p]]]
                             \/ LitFalse(m)' /\ \E q \in 1 .. p - 1 : trail'[q] = m.var
      BY <1>2 DEF Antecedents, TrueLit, LitFalse
    <2>1. trail'[p] = trail[p] /\ reason' = reason /\ reason[trail[p]] # 0 BY <1>1
    <2>2. [var |-> trail'[p], val |-> assign'[trail'[p]]] = TrueLit(trail[p])
      BY <1>3, <2>1 DEF TrueLit
    <2> QED BY <2>1, <2>2
  <1>4. p \in DOMAIN trail BY <1>2, <1>3
  <1> DEFINE c == clauses[reason[trail[p]]]
  <1>5. /\ reason[trail[p]] \in DOMAIN clauses /\ TrueLit(trail[p]) \in Lits(c)
        /\ \A m \in Lits(c) : /\ m \in Lit /\ m.var \in Vars
                              /\ \/ m = TrueLit(trail[p])
                                 \/ LitFalse(m) /\ \E q \in 1 .. p - 1 : trail[q] = m.var
    BY <1>4, AntecedentIs
  <1>6. reason[trail[p]] \in DOMAIN clauses' /\ Lits(clauses'[reason[trail[p]]]) = Lits(c)
    BY <1>5 DEF ClausesKept
  <1> HIDE DEF c
  <1>7. ASSUME NEW m \in Lits(c), LitFalse(m), NEW q \in 1 .. p - 1, trail[q] = m.var
        PROVE  LitFalse(m)' /\ trail'[q] = m.var
    <2>1. q \in 1 .. t BY <1>2
    <2>2. trail'[q] = trail[q] /\ assign'[m.var] = assign[m.var] BY <1>1, <1>3, <1>7, <2>1
    <2> QED BY <1>7, <2>2 DEF LitFalse
  <1> QED BY <1>5, <1>6, <1>7

LEMMA DecideAntecedents ==
    ASSUME DbTypes, AsgTypes, Trail, Antecedents, UNCHANGED clauses,
           NEW v \in Vars, Decide(v)
    PROVE  Antecedents'
  <1> DEFINE l == [var |-> v, val |-> "true"]
             n == Len(trail)
  <1>1. l \in Lit /\ Len(trail_lim) \in Nat /\ n \in Nat BY LitTypes, AsgDomains DEF Bool
  <1>2. trail_lim' \in Seq(Nat)
    BY <1>1, AppendProperties DEF Decide, AsgTypes
  <1>3. Enqueue(l, 0, Len(trail_lim) + 1) /\ assign[v] = "none" BY DEF Decide, DecisionLevel
  <1>4. l.var = v /\ l.val = "true" OBVIOUS
  <1> HIDE DEF l
  <1>5. /\ Len(trail') = n + 1 /\ trail'[n + 1] = v
        /\ \A p \in 1 .. n : trail'[p] = trail[p]
        /\ AsgTypes'
        /\ \A u \in Vars : /\ assign'[u] = IF u = v THEN "true" ELSE assign[u]
                           /\ reason'[u] = IF u = v THEN 0 ELSE reason[u]
    <2>1. Len(trail_lim) + 1 \in Nat BY <1>1
    <2>2. /\ Len(trail') = n + 1 /\ trail'[n + 1] = l.var
          /\ \A p \in 1 .. n : trail'[p] = trail[p]
          /\ AsgTypes'
          /\ \A u \in Vars : /\ assign'[u] = IF u = l.var THEN l.val ELSE assign[u]
                             /\ reason'[u] = IF u = l.var THEN 0 ELSE reason[u]
      BY <1>1, <1>2, <1>3, <2>1, EnqueueTypes
    <2> QED BY <1>4, <2>2
  <1>6. /\ DOMAIN trail = 1 .. n /\ DOMAIN trail' = 1 .. n + 1
        /\ \A p \in 1 .. n : trail[p] \in Vars /\ trail[p] # v
    <2>1. DOMAIN trail' = 1 .. n + 1 BY <1>5, LenProperties DEF AsgTypes
    <2>2. DOMAIN trail = 1 .. n /\ \A p \in 1 .. n : trail[p] \in Vars BY AsgDomains
    <2> QED BY <1>3, <2>1, <2>2 DEF Trail, TrailExact
  <1> SUFFICES ASSUME NEW p \in 1 .. n + 1, reason'[trail'[p]] # 0
               PROVE  /\ reason'[trail'[p]] \in DOMAIN clauses
                      /\ [var |-> trail'[p], val |-> assign'[trail'[p]]]
                           \in Lits(clauses[reason'[trail'[p]]])
                      /\ \A m \in Lits(clauses[reason'[trail'[p]]]) :
                           \/ m = [var |-> trail'[p], val |-> assign'[trail'[p]]]
                           \/ LitFalse(m)' /\ \E q \in 1 .. p - 1 : trail'[q] = m.var
    BY <1>6 DEF Antecedents, TrueLit, LitFalse
  <1>7. /\ p \in 1 .. n /\ trail'[p] = trail[p] /\ p \in DOMAIN trail
        /\ reason'[trail[p]] = reason[trail[p]] /\ assign'[trail[p]] = assign[trail[p]]
    <2>1. p # n + 1 BY <1>5
    <2>2. p \in 1 .. n BY <1>1, <2>1
    <2> QED BY <1>5, <1>6, <2>2
  <1> DEFINE c == clauses[reason[trail[p]]]
  <1>8. /\ reason[trail[p]] \in DOMAIN clauses /\ TrueLit(trail[p]) \in Lits(c)
        /\ \A m \in Lits(c) : /\ m \in Lit /\ m.var \in Vars
                              /\ \/ m = TrueLit(trail[p])
                                 \/ LitFalse(m) /\ \E q \in 1 .. p - 1 : trail[q] = m.var
    BY <1>7, AntecedentIs
  <1>9. [var |-> trail'[p], val |-> assign'[trail'[p]]] = TrueLit(trail[p])
    BY <1>7 DEF TrueLit
  <1>10. reason'[trail'[p]] = reason[trail[p]] BY <1>7
  <1> HIDE DEF c
  <1>11. ASSUME NEW m \in Lits(c), LitFalse(m), NEW q \in 1 .. p - 1, trail[q] = m.var
        PROVE  LitFalse(m)' /\ trail'[q] = m.var
    <2>1. q \in 1 .. n BY <1>1, <1>7
    <2>2. trail'[q] = trail[q] /\ m.var # v /\ m.var \in Vars BY <1>5, <1>6, <1>11, <2>1
    <2>3. assign'[m.var] = assign[m.var] BY <1>5, <2>2
    <2> QED BY <1>11, <2>2, <2>3 DEF LitFalse
  <1> QED BY <1>8, <1>9, <1>10, <1>11 DEF c

LEMMA ReduceAntecedents ==
    ASSUME DbTypes, AsgTypes, TrailExact, Antecedents, ReduceDb
    PROVE  Antecedents'
  <1>1. PICK N, kept : N \in Nat /\ Renumbers(N, kept) BY ReduceEffect
  <1>2. UNCHANGED <<assign, trail>> BY DEF ReduceDb
  <1>3. DOMAIN clauses' = 1 .. N /\ \A n \in 1 .. N : Lits(clauses'[n]) = Lits(clauses[kept[n]])
    BY <1>1, LenProperties DEF Renumbers, DbTypes
  <1>4. \A p \in DOMAIN trail : trail[p] \in Vars /\ assign[trail[p]] # "none"
    BY AsgDomains DEF TrailExact
  <1> SUFFICES ASSUME NEW p \in DOMAIN trail, reason'[trail[p]] # 0
               PROVE  /\ reason'[trail[p]] \in 1 .. N
                      /\ Lits(clauses'[reason'[trail[p]]]) = Lits(clauses[reason[trail[p]]])
                      /\ reason[trail[p]] # 0
    BY <1>2, <1>3 DEF Antecedents, TrueLit, LitFalse
  <1>5. reason'[trail[p]] \in 1 .. N /\ kept[reason'[trail[p]]] = reason[trail[p]]
        /\ reason[trail[p]] # 0
    BY <1>1, <1>4 DEF Renumbers
  <1> QED BY <1>3, <1>5

-----------------------------------------------------------------------------
(* Types. *)

LEMMA FiniteTypes ==
    /\ IsFiniteSet(Vars) /\ IsFiniteSet(Lit)
    /\ \A S : S \subseteq Vars => IsFiniteSet(S) /\ Cardinality(S) \in Nat
    /\ \A S : S \subseteq Lit => IsFiniteSet(S) /\ Cardinality(S) \in Nat
  <1>1. IsFiniteSet(Vars) BY NumVarsAssumption, FS_Interval DEF Vars
  <1>2. IsFiniteSet(Bool)
    <2>1. IsFiniteSet({"true"}) BY FS_Singleton
    <2>2. IsFiniteSet({"true"} \cup {"false"}) BY <2>1, FS_AddElement
    <2>3. Bool = {"true"} \cup {"false"} BY DEF Bool
    <2> QED BY <2>2, <2>3
  <1>3. IsFiniteSet(Vars \X Bool) BY <1>1, <1>2, FS_Product
  <1>4. IsFiniteSet(Lit)
    <2> DEFINE f == [l \in Lit |-> <<l.var, l.val>>]
    <2>1. f \in [Lit -> Vars \X Bool] BY LitTypes
    <2>2. \A l, m \in Lit : f[l] = f[m] => l = m BY LitTypes
    <2>3. f \in Injection(Lit, Vars \X Bool) BY <2>1, <2>2 DEF Injection, IsInjective
    <2> HIDE DEF f
    <2> QED BY <1>3, <2>3, FS_Injection
  <1>5. \A S : S \subseteq Vars => IsFiniteSet(S) /\ Cardinality(S) \in Nat
    BY <1>1, FS_Subset, FS_CardinalityType
  <1>6. \A S : S \subseteq Lit => IsFiniteSet(S) /\ Cardinality(S) \in Nat
    BY <1>4, FS_Subset, FS_CardinalityType
  <1> QED BY <1>1, <1>4, <1>5, <1>6

(* One entry more in the list of m for clause i. *)
LEMMA OneEntryMore ==
    ASSUME DbTypes, NEW i \in 1 .. Len(clauses), NEW m \in Lit,
           watches' = [watches EXCEPT ![i][m] = @ + 1]
    PROVE  /\ watches' \in Seq([Lit -> Nat]) /\ Len(watches') = Len(clauses)
           /\ \A j \in 1 .. Len(clauses), l \in Lit :
                watches'[j][l] = watches[j][l] + (IF j = i /\ l = m THEN 1 ELSE 0)
  <1>1. /\ watches \in Seq([Lit -> Nat]) /\ Len(watches) = Len(clauses)
        /\ DOMAIN watches = 1 .. Len(clauses)
        /\ \A j \in 1 .. Len(clauses) : watches[j] \in [Lit -> Nat]
    BY DbDomains DEF DbTypes
  <1> DEFINE w == [watches[i] EXCEPT ![m] = @ + 1]
  <1>2. w \in [Lit -> Nat] /\ \A l \in Lit : w[l] = watches[i][l] + (IF l = m THEN 1 ELSE 0)
    <2>1. watches[i] \in [Lit -> Nat] BY <1>1
    <2>2. watches[i][m] + 1 \in Nat BY <2>1
    <2> QED BY <2>1, <2>2
  <1>3. watches' = [watches EXCEPT ![i] = w] OBVIOUS
  <1> HIDE DEF w
  <1>4. watches' \in Seq([Lit -> Nat]) /\ Len(watches') = Len(clauses)
    BY <1>1, <1>2, <1>3, ExceptSeq
  <1>5. \A j \in 1 .. Len(clauses) : watches'[j] = IF j = i THEN w ELSE watches[j]
    BY <1>1, <1>3
  <1>6. \A j \in 1 .. Len(clauses), l \in Lit :
           watches'[j][l] = watches[j][l] + (IF j = i /\ l = m THEN 1 ELSE 0)
    <2> SUFFICES ASSUME NEW j \in 1 .. Len(clauses), NEW l \in Lit
                 PROVE  watches'[j][l] = watches[j][l] + (IF j = i /\ l = m THEN 1 ELSE 0)
      OBVIOUS
    <2>1. watches[j][l] \in Nat BY <1>1
    <2> QED BY <1>2, <1>5, <2>1
  <1> QED BY <1>4, <1>6

(* What one step does to the watch lists. *)
LEMMA PopLists ==
    ASSUME DbTypes, AsgTypes, QueueCurrent, PropagatePop
    PROVE  /\ watches' \in Seq([Lit -> Nat]) /\ Len(watches') = Len(clauses)
           /\ todo' \in Seq(Nat) /\ Len(todo') = Len(clauses) /\ false_lit' \in Lit
           /\ false_lit' = FalseLit(prop_queue[Len(prop_queue)])
           /\ prop_queue[Len(prop_queue)] \in Vars /\ Len(prop_queue) \in DOMAIN prop_queue
           /\ \A j \in 1 .. Len(clauses) : todo'[j] = watches[j][false_lit']
           /\ \A j \in 1 .. Len(clauses), l \in Lit :
                watches'[j][l] = IF l = false_lit' THEN 0 ELSE watches[j][l]
  <1> DEFINE v == prop_queue[Len(prop_queue)]
             fl == [var |-> v, val |-> Flip(assign[v])]
  <1>1. /\ Len(prop_queue) \in DOMAIN prop_queue /\ v \in Vars
    <2>1. prop_queue \in Seq(Vars) /\ prop_queue # <<>> BY DEF AsgTypes, PropagatePop
    <2>2. Len(prop_queue) \in Nat /\ DOMAIN prop_queue = 1 .. Len(prop_queue) BY <2>1, LenProperties
    <2>3. Len(prop_queue) # 0 BY <2>1, EmptySeq
    <2> QED BY <2>1, <2>2, <2>3, ElementOfSeq
  <1>2. fl \in Lit
    <2>1. assign[v] \in Bool BY <1>1 DEF AsgTypes, QueueCurrent
    <2> QED BY <1>1, <2>1, LitTypes
  <1>3. /\ false_lit' = fl
        /\ todo' = [i \in 1 .. Len(clauses) |-> watches[i][fl]]
        /\ watches' = [i \in 1 .. Len(clauses) |-> [watches[i] EXCEPT ![fl] = 0]]
    BY DbDomains DEF PropagatePop
  <1>4. Len(clauses) \in Nat /\ \A j \in 1 .. Len(clauses) : watches[j] \in [Lit -> Nat]
    BY DbDomains
  <1>5. fl = FalseLit(v) BY DEF FalseLit
  <1> HIDE DEF fl
  <1>6. todo' \in [1 .. Len(clauses) -> Nat] BY <1>2, <1>3, <1>4
  <1>7. watches' \in [1 .. Len(clauses) -> [Lit -> Nat]] BY <1>2, <1>3, <1>4
  <1>8. todo' \in Seq(Nat) /\ watches' \in Seq([Lit -> Nat])
        /\ Len(todo') = Len(clauses) /\ Len(watches') = Len(clauses)
    <2> DEFINE n == Len(clauses)
    <2> HIDE DEF n
    <2>1. n \in Nat /\ todo' \in [1 .. n -> Nat] /\ watches' \in [1 .. n -> [Lit -> Nat]]
      BY <1>4, <1>6, <1>7 DEF n
    <2>2. todo' \in Seq(Nat) /\ watches' \in Seq([Lit -> Nat]) BY <2>1, SeqDef
    <2>3. Len(todo') = n /\ Len(watches') = n BY <2>1, <2>2, LenProperties
    <2> QED BY <2>2, <2>3 DEF n
  <1>9. \A j \in 1 .. Len(clauses), l \in Lit :
           watches'[j][l] = IF l = fl THEN 0 ELSE watches[j][l]
    BY <1>2, <1>3, <1>4
  <1> QED BY <1>1, <1>2, <1>3, <1>5, <1>8, <1>9

LEMMA ConflictLists ==
    ASSUME DbTypes, PropTypes, NEW i \in DOMAIN clauses, VisitConflict(i)
    PROVE  /\ watches' \in Seq([Lit -> Nat]) /\ Len(watches') = Len(clauses)
           /\ \A j \in 1 .. Len(clauses), l \in Lit :
                watches'[j][l] = watches[j][l] + (IF l = false_lit THEN todo[j] ELSE 0)
  <1>1. Len(clauses) \in Nat /\ \A j \in 1 .. Len(clauses) : watches[j] \in [Lit -> Nat]
    BY DbDomains
  <1>2. /\ watches' = [j \in 1 .. Len(clauses) |->
                          [watches[j] EXCEPT ![false_lit] = @ + todo[j]]]
    BY DbDomains DEF VisitConflict
  <1>3. false_lit \in Lit /\ \A j \in 1 .. Len(clauses) : todo[j] \in Nat
    BY ElementOfSeq DEF VisitConflict, PropTypes
  <1>4. \A j \in 1 .. Len(clauses) :
           [watches[j] EXCEPT ![false_lit] = @ + todo[j]] \in [Lit -> Nat]
    BY <1>1, <1>3
  <1>5. watches' \in [1 .. Len(clauses) -> [Lit -> Nat]] BY <1>2, <1>4
  <1>6. watches' \in Seq([Lit -> Nat]) /\ Len(watches') = Len(clauses)
    BY <1>1, <1>5, SeqDef, LenProperties
  <1>7. \A j \in 1 .. Len(clauses), l \in Lit :
           watches'[j][l] = watches[j][l] + (IF l = false_lit THEN todo[j] ELSE 0)
    BY <1>1, <1>2, <1>3
  <1> QED BY <1>6, <1>7

-----------------------------------------------------------------------------
(* Steps of the solver keep the types, the trail, the antecedents, the propagation
   queue and the control part. *)

(* Which steps touch which part of the state. *)
LEMMA Frames ==
    ASSUME [Next]_vars
    PROVE  /\ UNCHANGED db \/ PropagatePop \/ Visit \/ AddLearnt \/ ReduceDb
           /\ \/ UNCHANGED asg \/ SeedUnit \/ PropagatePop \/ Visit \/ Backjump
              \/ AddLearnt \/ Restart \/ ReduceDb \/ (\E v \in Vars : Decide(v))
           /\ \/ UNCHANGED ana \/ Visit \/ BeginAnalyze \/ MarkClause \/ WalkTrail
              \/ FormLemma \/ AddLearnt
           /\ UNCHANGED lem \/ FormLemma \/ AddLearnt
           /\ UNCHANGED prop \/ PropagatePop \/ Visit \/ VisitDone
  <1>1. CASE SeedUnsat \/ ConflictUnsat \/ ConflictTimeout
             \/ AllAssigned \/ OutOfBudget \/ DecideTimeout
    BY <1>1 DEF SeedUnsat, ConflictUnsat, ConflictTimeout, AllAssigned, OutOfBudget,
                DecideTimeout, Return
  <1>2. CASE SeedUnit BY <1>2 DEF SeedUnit
  <1>3. CASE SeedSkip \/ SeedDone \/ PropagateDone BY <1>3 DEF SeedSkip, SeedDone, PropagateDone
  <1>4. CASE PropagatePop BY <1>4 DEF PropagatePop
  <1>5. CASE Visit
    <2>1. PICK i \in DOMAIN clauses :
             VisitSatisfied(i) \/ VisitMove(i) \/ VisitUnit(i) \/ VisitConflict(i)
      BY <1>5 DEF Visit
    <2> QED BY <1>5, <2>1 DEF VisitSatisfied, VisitMove, VisitUnit, VisitConflict
  <1>6. CASE VisitDone BY <1>6 DEF VisitDone
  <1>7. CASE BeginAnalyze BY <1>7 DEF BeginAnalyze
  <1>8. CASE MarkClause BY <1>8 DEF MarkClause
  <1>9. CASE WalkTrail BY <1>9 DEF WalkTrail
  <1>10. CASE FormLemma BY <1>10 DEF FormLemma
  <1>11. CASE Backjump BY <1>11 DEF Backjump
  <1>12. CASE AddLearnt BY <1>12 DEF AddLearnt
  <1>13. CASE NoRestart BY <1>13 DEF NoRestart
  <1>14. CASE Restart BY <1>14 DEF Restart
  <1>15. CASE ReduceDb BY <1>15 DEF ReduceDb
  <1>16. CASE ReduceNothing BY <1>16 DEF ReduceNothing
  <1>17. CASE \E v \in Vars : Decide(v) BY <1>17 DEF Decide
  <1>18. CASE Done \/ UNCHANGED vars BY <1>18 DEF Done, vars
  <1> QED
    BY <1>1, <1>2, <1>3, <1>4, <1>5, <1>6, <1>7, <1>8, <1>9, <1>10, <1>11, <1>12,
       <1>13, <1>14, <1>15, <1>16, <1>17, <1>18 DEF Next, Step

(* The trail, its levels, and the antecedents, through every kind of effect. *)
LEMMA TrailNext ==
    ASSUME IInv, [Next]_vars
    PROVE  /\ formula' = formula /\ Trail' /\ Antecedents'
           /\ Kept \/ AsgTypes'
  <1> USE DEF IInv, TrailInv, TypeOK
  <1>0. formula' = formula /\ AnyEffect BY Effects
  <1>1. Trail BY DEF Trail
  <1>2. CASE SameStore /\ Kept
    <2>1. Trail' BY <1>1, <1>2 DEF Kept, Trail, TrailExact, LevelsCut, DecisionsFirst
    <2>2. ClausesKept BY <1>2, ClausesKeptIs
    <2>3. Antecedents'
      BY <1>2, <2>2 DEF Kept, Antecedents, ClausesKept, TrueLit, LitFalse
    <2> QED BY <1>0, <1>2, <2>1, <2>3
  <1>3. ASSUME NEW l \in Lit, NEW r \in 1 .. Len(clauses'), Forced(l, r),
               SameStore \/ Store(lemma, lemma_lbd)
        PROVE  AsgTypes' /\ Trail' /\ Antecedents'
    <2>1. ClausesKept /\ clauses' \in Seq(Seq(Lit)) /\ DOMAIN clauses' = 1 .. Len(clauses')
      BY <1>3, ClausesKeptIs
    <2>2. r \in Nat \ {0} BY <2>1, LenProperties
    <2>3. AsgTypes' /\ Trail' BY <1>1, <1>3, <2>2, EnqueueTrail DEF Forced
    <2>4. Antecedents' BY <1>1, <1>3, <2>1, <2>2, ForcedAntecedents
    <2> QED BY <2>3, <2>4
  <1>4. ASSUME SameStore, NEW n \in Nat, n < Len(trail_lim), BacktrackTo(n)
        PROVE  AsgTypes' /\ Trail' /\ Antecedents'
    <2>1. ClausesKept BY <1>4, ClausesKeptIs
    <2> QED BY <1>1, <1>4, <2>1, BacktrackTrail, UndoAntecedents
  <1>5. ASSUME UNCHANGED db, NEW v \in Vars, Decide(v)
        PROVE  AsgTypes' /\ Trail' /\ Antecedents'
    <2>1. [var |-> v, val |-> "true"] \in Lit BY LitTypes DEF Bool
    <2>2. AsgTypes' /\ Trail'
      BY <1>1, <1>5, <2>1, DecideTrail DEF Decide, DecisionLevel, LitFree
    <2>3. Antecedents' BY <1>1, <1>5, DecideAntecedents DEF db
    <2> QED BY <2>2, <2>3
  <1>6. CASE ReduceDb
    <2>1. PICK N, kept : N \in Nat /\ Renumbers(N, kept) BY <1>1, <1>6, ReduceEffect DEF Trail
    <2>2. UNCHANGED <<assign, level, trail, trail_lim, prop_queue>> BY <1>6 DEF ReduceDb
    <2>3. reason' \in [Vars -> Nat]
          /\ \A v \in Vars : assign[v] # "none" /\ reason'[v] = 0 => reason[v] = 0
      BY <2>1 DEF Renumbers
    <2>4. AsgTypes' BY <2>2, <2>3 DEF AsgTypes
    <2>5. \A p \in DOMAIN trail : trail[p] \in Vars /\ assign[trail[p]] # "none"
      BY AsgDomains DEF TrailExact
    <2>6. TrailExact' /\ LevelsCut' BY <2>2 DEF TrailExact, LevelsCut
    <2>7. DecisionsFirst' BY <2>2, <2>3, <2>5 DEF DecisionsFirst
    <2>8. Antecedents' BY <1>6, ReduceAntecedents
    <2> QED BY <1>0, <2>4, <2>6, <2>7, <2>8 DEF Trail
  <1>7. ASSUME SameStore, NEW l \in Lit, NEW r \in 1 .. Len(clauses), Forced(l, r)
        PROVE  AsgTypes' /\ Trail' /\ Antecedents'
    BY <1>3, <1>7 DEF SameStore
  <1>8. ASSUME lemma[1] \in Lit, Store(lemma, lemma_lbd), Forced(lemma[1], Len(clauses) + 1)
        PROVE  AsgTypes' /\ Trail' /\ Antecedents'
    BY <1>3, <1>8 DEF Forced
  <1> QED BY <1>0, <1>2, <1>4, <1>5, <1>6, <1>7, <1>8 DEF AnyEffect

LEMMA DbTypesNext ==
    ASSUME IInv, [Next]_vars
    PROVE  DbTypes'
  <1> USE DEF IInv, TrailInv, TypeOK
  <1>0. formula' = formula /\ formula \in Seq(Seq(Lit)) BY TrailNext DEF DbTypes
  <1>1. CASE UNCHANGED db BY <1>0, <1>1 DEF db, DbTypes
  <1>2. CASE PropagatePop
    <2>1. watches' \in Seq([Lit -> Nat]) /\ Len(watches') = Len(clauses) BY <1>2, PopLists
    <2> QED BY <1>0, <1>2, <2>1 DEF PropagatePop, DbTypes
  <1>3. CASE Visit
    <2>1. PICK i \in 1 .. Len(clauses) :
             VisitSatisfied(i) \/ VisitMove(i) \/ VisitUnit(i) \/ VisitConflict(i)
      BY <1>3, DbDomains DEF Visit
    <2>2. SameStore BY <2>1, VisitEffect
    <2>3. watches' \in Seq([Lit -> Nat]) /\ Len(watches') = Len(clauses)
      <3>1. CASE VisitSatisfied(i) \/ VisitUnit(i)
        <4>1. false_lit \in Lit /\ watches' = [watches EXCEPT ![i][false_lit] = @ + 1]
          BY <3>1 DEF VisitSatisfied, VisitUnit, KeepEntry, TakeEntry, PropTypes
        <4> QED BY <4>1, OneEntryMore
      <3>2. CASE VisitMove(i)
        <4> DEFINE c == Normalised(clauses[i])
        <4>1. PICK k \in Replacements(c) : watches' = [watches EXCEPT ![i][c[k]] = @ + 1]
          BY <3>2 DEF VisitMove
        <4>2. /\ Len(c) \in Nat /\ \A j \in 1 .. Len(c) : c[j] \in Lit
          BY <3>2, VisitClause, LenProperties DEF VisitMove, TakeEntry
        <4>3. c[k] \in Lit BY <4>1, <4>2 DEF Replacements
        <4> QED BY <4>1, <4>3, OneEntryMore
      <3>3. CASE VisitConflict(i) BY <3>3, ConflictLists, DbDomains
      <3> QED BY <2>1, <3>1, <3>2, <3>3
    <2> QED BY <1>0, <2>2, <2>3 DEF SameStore, DbTypes
  <1>4. CASE AddLearnt
    <2>1. Store(lemma, lemma_lbd) /\ lemma \in Seq(Lit) /\ lemma_lbd \in Nat
      BY <1>4 DEF AddLearnt, LemTypes
    <2>2. WatchEntries(lemma) \in [Lit -> Nat] BY <2>1, WatchCountTypes
    <2>3. /\ clauses' \in Seq(Seq(Lit)) /\ Len(clauses') = Len(clauses) + 1
          /\ lbd' \in Seq(Nat) /\ Len(lbd') = Len(lbd) + 1
          /\ watches' \in Seq([Lit -> Nat]) /\ Len(watches') = Len(watches) + 1
      BY <2>1, <2>2, AppendProperties DEF Store, DbTypes
    <2> QED BY <1>0, <2>3 DEF DbTypes
  <1>5. CASE ReduceDb BY <1>5, ReduceEffect DEF Renumbers
  <1> QED BY <1>1, <1>2, <1>3, <1>4, <1>5, Frames

LEMMA AsgTypesNext ==
    ASSUME IInv, [Next]_vars
    PROVE  AsgTypes'
  <1> USE DEF IInv, TrailInv, TypeOK
  <1> SUFFICES ASSUME Kept PROVE prop_queue' \in Seq(Vars)
    BY TrailNext DEF Kept, AsgTypes
  <1>0. prop_queue \in Seq(Vars) /\ Len(prop_queue) \in Nat BY AsgDomains DEF AsgTypes
  <1>1. CASE UNCHANGED prop_queue BY <1>0, <1>1
  <1>2. CASE PropagatePop
    <2>1. prop_queue' = SubSeq(prop_queue, 1, Len(prop_queue) - 1)
      BY <1>2 DEF PropagatePop, Popped
    <2> QED BY <1>0, <2>1
  <1>3. ASSUME NEW l \in Lit, NEW r, NEW d, Enqueue(l, r, d) PROVE prop_queue' \in Seq(Vars)
    BY <1>0, <1>3, LitTypes, AppendProperties DEF Enqueue
  <1>4. CASE Visit
    <2>1. PICK i \in 1 .. Len(clauses) :
             VisitSatisfied(i) \/ VisitMove(i) \/ VisitUnit(i) \/ VisitConflict(i)
      BY <1>4, DbDomains DEF Visit
    <2>2. CASE VisitUnit(i)
      <3>1. PICK l \in Lit : Forced(l, i) BY <2>2, VisitEffect
      <3> QED BY <1>3, <3>1 DEF Forced
    <2>3. CASE VisitSatisfied(i) \/ VisitMove(i) \/ VisitConflict(i)
      BY <1>1, <2>3 DEF VisitSatisfied, VisitMove, VisitConflict, asg
    <2> QED BY <2>1, <2>2, <2>3
  <1>5. CASE SeedUnit
    <2>1. seed \in 1 .. Len(clauses) BY <1>5, DbDomains DEF SeedUnit, ControlTypes
    <2>2. clauses[seed][1] \in Lit BY <1>5, <2>1, DbDomains DEF SeedUnit
    <2> QED BY <1>3, <1>5, <2>2 DEF SeedUnit
  <1>6. CASE AddLearnt
    <2>1. lemma[1] \in Lit
      BY <1>6, ElementOfSeq, LenProperties DEF AddLearnt, LemmaRight, LemTypes
    <2> QED BY <1>1, <1>3, <1>6, <2>1 DEF AddLearnt
  <1>7. CASE Backjump \/ Restart
    <2>1. \E n : BacktrackTo(n) BY <1>7 DEF Backjump, Restart
    <2>2. prop_queue' = prop_queue \/ prop_queue' = <<>> BY <2>1 DEF BacktrackTo, asg
    <2>3. CASE prop_queue' = <<>> BY <2>3
    <2> QED BY <1>1, <2>2, <2>3
  <1>8. CASE ReduceDb BY <1>1, <1>8 DEF ReduceDb
  <1>9. ASSUME NEW v \in Vars, Decide(v) PROVE prop_queue' \in Seq(Vars)
    <2>1. [var |-> v, val |-> "true"] \in Lit BY LitTypes DEF Bool
    <2> QED BY <1>3, <1>9, <2>1 DEF Decide
  <1>10. CASE UNCHANGED asg BY <1>1, <1>10 DEF asg
  <1> QED BY <1>2, <1>4, <1>5, <1>6, <1>7, <1>8, <1>9, <1>10, Frames

LEMMA PropTypesNext ==
    ASSUME IInv, [Next]_vars
    PROVE  PropTypes'
  <1> USE DEF IInv, TrailInv, TypeOK
  <1>1. CASE PropagatePop
    <2>1. todo' \in Seq(Nat) /\ Len(todo') = Len(clauses) /\ false_lit' \in Lit
      BY <1>1, PopLists
    <2> QED BY <1>1, <2>1 DEF PropagatePop, PropTypes
  <1>2. CASE Visit
    <2>1. PICK i \in 1 .. Len(clauses) :
             VisitSatisfied(i) \/ VisitMove(i) \/ VisitUnit(i) \/ VisitConflict(i)
      BY <1>2, DbDomains DEF Visit
    <2>2. CASE VisitConflict(i) BY <2>2 DEF VisitConflict, PropTypes
    <2>3. CASE VisitSatisfied(i) \/ VisitMove(i) \/ VisitUnit(i)
      <3>1. /\ pc = "visit" /\ todo[i] > 0 /\ todo' = [todo EXCEPT ![i] = @ - 1]
            /\ false_lit' = false_lit
        BY <2>3 DEF VisitSatisfied, VisitMove, VisitUnit, TakeEntry
      <3>2. /\ todo \in Seq(Nat) /\ Len(todo) = Len(clauses) /\ false_lit \in Lit
        BY <3>1 DEF PropTypes
      <3>3. todo[i] \in Nat /\ DOMAIN todo = 1 .. Len(clauses) BY <3>2, ElementOfSeq, LenProperties
      <3>4. todo[i] - 1 \in Nat BY <3>1, <3>3
      <3>5. todo' \in Seq(Nat) /\ Len(todo') = Len(todo) BY <3>1, <3>2, <3>4, ExceptSeq
      <3>6. Len(clauses') = Len(clauses) BY <2>1, VisitEffect DEF SameStore
      <3> QED BY <3>1, <3>2, <3>5, <3>6 DEF PropTypes
    <2> QED BY <2>1, <2>2, <2>3
  <1>3. CASE VisitDone BY <1>3 DEF VisitDone, PropTypes
  <1>4. CASE UNCHANGED <<prop, pc, clauses>> BY <1>4 DEF prop, PropTypes
  <1>5. CASE UNCHANGED prop /\ pc' # "visit" BY <1>5 DEF prop, PropTypes
  <1>6. SeedUnit \/ SeedSkip => UNCHANGED <<prop, pc, clauses>> BY DEF SeedUnit, SeedSkip, db
  <1>7. \/ SeedUnsat \/ SeedDone \/ PropagateDone \/ ConflictUnsat \/ ConflictTimeout
        \/ BeginAnalyze \/ MarkClause \/ WalkTrail
        => UNCHANGED prop /\ pc' # "visit"
    BY DEF SeedUnsat, SeedDone, PropagateDone, ConflictUnsat, ConflictTimeout, Return,
           BeginAnalyze, MarkClause, WalkTrail
  <1>8. \/ FormLemma \/ Backjump \/ AddLearnt \/ NoRestart \/ Restart \/ ReduceDb
        \/ ReduceNothing \/ AllAssigned \/ OutOfBudget \/ DecideTimeout
        \/ (\E v \in Vars : Decide(v))
        => UNCHANGED prop /\ pc' # "visit"
    BY DEF FormLemma, Backjump, AddLearnt, NoRestart, Restart, ReduceDb, ReduceNothing,
           AllAssigned, OutOfBudget, DecideTimeout, Decide, Return
  <1>9. Done \/ UNCHANGED vars => UNCHANGED <<prop, pc, clauses>> BY DEF Done, vars, db
  <1> QED BY <1>1, <1>2, <1>3, <1>4, <1>5, <1>6, <1>7, <1>8, <1>9 DEF Next, Step

LEMMA AnaTypesNext ==
    ASSUME IInv, [Next]_vars
    PROVE  AnaTypes'
  <1> USE DEF IInv, TrailInv, TypeOK
  <1>1. CASE UNCHANGED ana BY <1>1 DEF ana, AnaTypes
  <1>2. CASE Visit
    <2>1. PICK i \in 1 .. Len(clauses) :
             VisitSatisfied(i) \/ VisitMove(i) \/ VisitUnit(i) \/ VisitConflict(i)
      BY <1>2, DbDomains DEF Visit
    <2>2. CASE VisitConflict(i)
      <3>1. i \in Nat BY DbDomains
      <3> QED BY <2>2, <3>1 DEF VisitConflict, AnaTypes
    <2> QED BY <1>1, <2>1, <2>2 DEF VisitSatisfied, VisitMove, VisitUnit
  <1>3. CASE BeginAnalyze
    <2>1. Len(trail) \in Nat BY AsgDomains
    <2> QED BY <1>3, <2>1 DEF BeginAnalyze, AnaTypes
  <1>4. CASE MarkClause
    <2> DEFINE here == {l.var : l \in {l \in Fresh : level[l.var] = DecisionLevel}}
    <2>1. /\ seen' = [v \in Vars |-> seen[v] \/ \E l \in Fresh : l.var = v]
          /\ counter' = counter + Cardinality(here)
          /\ learnt' = learnt \cup {l \in Fresh : level[l.var] # DecisionLevel}
          /\ UNCHANGED <<pivot, idx, confl>>
      BY <1>4 DEF MarkClause
    <2>2. confl \in 1 .. Len(clauses) BY <1>4, DbDomains DEF MarkClause, ResolventRight
    <2>3. Fresh \subseteq Lit BY <2>2, DbDomains DEF Fresh
    <2>4. here \subseteq Vars BY <2>3, LitTypes
    <2>5. Cardinality(here) \in Nat BY <2>4, FiniteTypes
    <2> HIDE DEF here
    <2>6. counter' \in Int /\ learnt' \subseteq Lit BY <2>1, <2>3, <2>5 DEF AnaTypes
    <2>7. seen' \in [Vars -> BOOLEAN]
      <3>1. \A v \in Vars : (seen[v] \/ \E l \in Fresh : l.var = v) \in BOOLEAN OBVIOUS
      <3> QED BY <2>1, <3>1
    <2> QED BY <2>1, <2>6, <2>7 DEF AnaTypes
  <1>5. CASE WalkTrail
    <2>1. PICK p \in 1 .. idx :
             /\ idx' = p - 1 /\ counter' = counter - 1 /\ pivot' = trail[p]
             /\ \/ seen' = [v \in Vars |-> FALSE]
                \/ seen' = [seen EXCEPT ![trail[p]] = FALSE]
             /\ UNCHANGED confl \/ confl' = reason[trail[p]]
             /\ UNCHANGED learnt
      BY <1>5 DEF WalkTrail
    <2>2. p \in 1 .. Len(trail) /\ p - 1 \in Nat
      BY <1>5, AsgDomains DEF WalkTrail, MarksRight, AnaTypes
    <2>3. trail[p] \in Vars BY <2>2, AsgDomains
    <2>4. reason[trail[p]] \in Nat BY <2>3, AsgDomains
    <2>5. seen' \in [Vars -> BOOLEAN] BY <2>1, <2>3 DEF AnaTypes
    <2> QED BY <2>1, <2>2, <2>3, <2>4, <2>5 DEF AnaTypes
  <1>6. CASE FormLemma
    <2>1. seen' = [v \in Vars |-> seen[v] /\ \A l \in learnt : l.var # v]
          /\ UNCHANGED <<learnt, counter, pivot, idx, confl>>
      BY <1>6 DEF FormLemma
    <2>2. seen' \in [Vars -> BOOLEAN]
      <3>1. \A v \in Vars : (seen[v] /\ \A l \in learnt : l.var # v) \in BOOLEAN OBVIOUS
      <3> QED BY <2>1, <3>1
    <2> QED BY <2>1, <2>2 DEF AnaTypes
  <1>7. CASE AddLearnt BY <1>7 DEF AddLearnt, AnaTypes
  <1> QED BY <1>1, <1>2, <1>3, <1>4, <1>5, <1>6, <1>7, Frames

(* The levels in a set of literals are at most as many as the literals. *)
LEMMA LevelsFinite ==
    ASSUME NEW S, S \subseteq Lit
    PROVE  Cardinality({level[l.var] : l \in S}) \in Nat
  <1> DEFINE T == {level[l.var] : l \in S}
             f == [l \in S |-> level[l.var]]
  <1>1. f \in Surjection(S, T) BY DEF Surjection
  <1>2. IsFiniteSet(S) BY FiniteTypes
  <1> HIDE DEF f, T
  <1>3. IsFiniteSet(T) BY <1>1, <1>2, FS_Surjection
  <1>4. Cardinality(T) \in Nat BY <1>3, FS_CardinalityType
  <1> QED BY <1>4 DEF T

(* The lemma analyze forms: the asserting literal, then all of learnt. *)
LEMMA FormedLemma ==
    ASSUME IInv, FormLemma
    PROVE  /\ lemma' \in Seq(Lit) /\ Len(lemma') = Cardinality(learnt) + 1
           /\ Cardinality(learnt) \in Nat /\ IsFiniteSet(learnt)
           /\ lemma'[1] = FalseLit(pivot) /\ FalseLit(pivot) \in Lit
           /\ lemma' \in [1 .. Cardinality(learnt) + 1 -> learnt \cup {FalseLit(pivot)}]
           /\ \A l \in learnt : \E k \in 2 .. Len(lemma') : lemma'[k] = l
           /\ \A k \in 2 .. Len(lemma') : level[lemma'[k].var] <= level[lemma'[2].var]
           /\ btlevel' = IF Cardinality(learnt) = 0 THEN 0 ELSE level[lemma'[2].var]
           /\ lemma_lbd' = Cardinality({level[l.var] : l \in learnt \cup {FalseLit(pivot)}})
  <1> USE DEF IInv, TrailInv, TypeOK
  <1> DEFINE n == Cardinality(learnt)
             u == FalseLit(pivot)
             lits == learnt \cup {u}
  <1>1. PICK c \in [1 .. n + 1 -> lits] :
             /\ c[1] = u /\ \A l \in learnt : \E k \in 2 .. n + 1 : c[k] = l
             /\ SecondHighest(c)
             /\ lemma' = c
             /\ btlevel' = IF n = 0 THEN 0 ELSE level[c[2].var]
             /\ lemma_lbd' = Cardinality({level[l.var] : l \in lits})
    BY DEF FormLemma, FalseLit
  <1>2. learnt \subseteq Lit BY DEF AnaTypes
  <1>3. u \in Lit
    <2>1. pivot \in Vars /\ assign[pivot] \in Bool
      BY DEF FormLemma, ResolventRight, AsgTypes
    <2> QED BY <2>1, LitTypes DEF FalseLit
  <1>4. n \in Nat /\ IsFiniteSet(learnt) BY <1>2, FiniteTypes
  <1> HIDE DEF u, n
  <1>5. c \in Seq(Lit) /\ Len(c) = n + 1
    <2>1. c \in [1 .. n + 1 -> Lit] BY <1>1, <1>2, <1>3
    <2>2. n + 1 \in Nat BY <1>4
    <2>3. c \in Seq(Lit) BY <2>1, <2>2, SeqDef
    <2> QED BY <2>1, <2>2, <2>3, LenProperties
  <1>6. \A k \in 2 .. Len(c) : level[c[k].var] <= level[c[2].var] BY <1>1 DEF SecondHighest
  <1> QED BY <1>1, <1>3, <1>4, <1>5, <1>6 DEF u, n

LEMMA LemTypesNext ==
    ASSUME IInv, [Next]_vars
    PROVE  LemTypes'
  <1> USE DEF IInv, TrailInv, TypeOK
  <1>1. CASE UNCHANGED lem BY <1>1 DEF lem, LemTypes
  <1>2. CASE FormLemma
    <2> DEFINE u == FalseLit(pivot)
    <2>1. learnt \cup {u} \subseteq Lit BY <1>2, FormedLemma DEF AnaTypes
    <2>2. lemma_lbd' \in Nat BY <1>2, <2>1, FormedLemma, LevelsFinite
    <2>3. btlevel' \in Nat
      <3>1. CASE Cardinality(learnt) = 0 BY <1>2, <3>1, FormedLemma
      <3>2. CASE Cardinality(learnt) # 0
        <4>1. lemma' \in Seq(Lit) /\ Len(lemma') >= 2 /\ btlevel' = level[lemma'[2].var]
          BY <1>2, <3>2, FormedLemma
        <4>2. lemma'[2] \in Lit BY <4>1, ElementOfSeq, LenProperties
        <4> QED BY <4>1, <4>2, LitTypes, AsgDomains
      <3> QED BY <3>1, <3>2
    <2> QED BY <1>2, <2>2, <2>3, FormedLemma DEF LemTypes
  <1>3. CASE AddLearnt
    <2>1. lemma' = <<>> /\ lemma_lbd' = 0 /\ btlevel' = 0 BY <1>3 DEF AddLearnt
    <2>2. lemma' \in Seq(Lit) BY <2>1
    <2> QED BY <2>1, <2>2 DEF LemTypes
  <1> QED BY <1>1, <1>2, <1>3, Frames

(* Counters and program counters. *)
LEMMA ControlTypesNext ==
    ASSUME IInv, [Next]_vars
    PROVE  HeurTypes' /\ ControlTypes'
  <1> USE DEF IInv, TrailInv, TypeOK
  <1>1. HeurTypes'
    <2>1. CASE UNCHANGED heur BY <2>1 DEF heur, HeurTypes
    <2>2. CASE AddLearnt BY <2>2 DEF AddLearnt, HeurTypes
    <2>3. CASE Restart BY <2>3 DEF Restart, AdvanceLuby, HeurTypes
    <2>4. CASE ReduceDb \/ ReduceNothing
      <3>1. max_learnt + max_learnt \div 2 \in Nat BY DEF HeurTypes
      <3> QED BY <2>4, <3>1 DEF ReduceDb, ReduceNothing, HeurTypes
    <2>5. CASE DecideTimeout \/ \E v \in Vars : Decide(v)
      <3>1. /\ budget_left > 0 /\ budget_left' = budget_left - 1
            /\ UNCHANGED <<conflicts_since_restart, luby_u, luby_v, max_learnt>>
        BY <2>5 DEF DecideTimeout, Decide
      <3> QED BY <3>1 DEF HeurTypes
    <2>6. \/ UNCHANGED heur \/ AddLearnt \/ Restart \/ ReduceDb \/ ReduceNothing
          \/ DecideTimeout \/ \E v \in Vars : Decide(v)
      <3>1. \/ SeedUnsat \/ SeedUnit \/ SeedSkip \/ SeedDone \/ PropagatePop \/ PropagateDone
            \/ VisitDone \/ ConflictUnsat \/ ConflictTimeout
            => UNCHANGED heur
        BY DEF SeedUnsat, SeedUnit, SeedSkip, SeedDone, PropagatePop, PropagateDone,
               VisitDone, ConflictUnsat, ConflictTimeout
      <3>2. \/ BeginAnalyze \/ MarkClause \/ WalkTrail \/ FormLemma \/ Backjump \/ NoRestart
            \/ AllAssigned \/ OutOfBudget
            => UNCHANGED heur
        BY DEF BeginAnalyze, MarkClause, WalkTrail, FormLemma, Backjump, NoRestart,
               AllAssigned, OutOfBudget
      <3>3. Visit => UNCHANGED heur
        BY DEF Visit, VisitSatisfied, VisitMove, VisitUnit, VisitConflict
      <3>4. Done \/ UNCHANGED vars => UNCHANGED heur BY DEF Done, vars
      <3> QED BY <3>1, <3>2, <3>3, <3>4 DEF Next, Step
    <2> QED BY <2>1, <2>2, <2>3, <2>4, <2>5, <2>6
  <1>2. ControlTypes'
    <2> USE DEF ControlTypes, PCs
    <2>1. CASE SeedUnsat \/ ConflictUnsat \/ ConflictTimeout \/ AllAssigned \/ OutOfBudget
               \/ DecideTimeout
      BY <2>1 DEF SeedUnsat, ConflictUnsat, ConflictTimeout, AllAssigned, OutOfBudget,
                  DecideTimeout, Return
    <2>2. CASE SeedUnit \/ SeedSkip \/ SeedDone \/ PropagateDone \/ PropagatePop \/ VisitDone
      BY <2>2 DEF SeedUnit, SeedSkip, SeedDone, PropagateDone, PropagatePop, VisitDone
    <2>3. CASE Visit
      BY <2>3 DEF Visit, VisitSatisfied, VisitMove, VisitUnit, VisitConflict
    <2>4. CASE BeginAnalyze \/ MarkClause \/ WalkTrail \/ FormLemma \/ Backjump
      BY <2>4 DEF BeginAnalyze, MarkClause, WalkTrail, FormLemma, Backjump
    <2>5. CASE AddLearnt \/ NoRestart \/ Restart \/ ReduceDb \/ ReduceNothing
      BY <2>5 DEF AddLearnt, NoRestart, Restart, ReduceDb, ReduceNothing
    <2>6. CASE \E v \in Vars : Decide(v) BY <2>6 DEF Decide
    <2>7. CASE Done \/ UNCHANGED vars BY <2>7 DEF Done, vars
    <2> QED BY <2>1, <2>2, <2>3, <2>4, <2>5, <2>6, <2>7 DEF Next, Step
  <1> QED BY <1>1, <1>2

LEMMA TypesNext ==
    ASSUME IInv, [Next]_vars
    PROVE  TypeOK'
  BY DbTypesNext, AsgTypesNext, AnaTypesNext, LemTypesNext, PropTypesNext, ControlTypesNext
  DEF TypeOK

-----------------------------------------------------------------------------
(* The propagation queue and the control state. *)

(* An enqueue changes nothing about the variables already assigned. *)
LEMMA EnqueueKeeps ==
    ASSUME AsgTypes, NEW l \in Lit, LitFree(l), NEW r \in Nat, NEW d \in Nat,
           Enqueue(l, r, d), trail_lim' \in Seq(Nat)
    PROVE  /\ \A v \in Vars : assign[v] # "none" =>
                /\ assign'[v] = assign[v] /\ level'[v] = level[v] /\ reason'[v] = reason[v]
                /\ v # l.var
           /\ assign'[l.var] = l.val /\ level'[l.var] = d /\ l.var \in Vars /\ l.val # "none"
           /\ \A m \in Lit : /\ LitFalse(m) => LitFalse(m)' /\ level'[m.var] = level[m.var]
                             /\ LitTrue(m) => LitTrue(m)' /\ level'[m.var] = level[m.var]
           /\ DOMAIN prop_queue' = 1 .. Len(prop_queue) + 1
           /\ \A k \in 1 .. Len(prop_queue) : prop_queue'[k] = prop_queue[k]
           /\ prop_queue'[Len(prop_queue) + 1] = l.var
  <1>1. \A v \in Vars : /\ assign'[v] = IF v = l.var THEN l.val ELSE assign[v]
                        /\ level'[v] = IF v = l.var THEN d ELSE level[v]
                        /\ reason'[v] = IF v = l.var THEN r ELSE reason[v]
    BY EnqueueTypes
  <1>2. l.var \in Vars /\ l.val # "none" /\ assign[l.var] = "none" BY LitTypes DEF LitFree
  <1>3. \A v \in Vars : assign[v] # "none" =>
           /\ assign'[v] = assign[v] /\ level'[v] = level[v] /\ reason'[v] = reason[v]
           /\ v # l.var
    BY <1>1, <1>2
  <1>4. ASSUME NEW m \in Lit
        PROVE  /\ LitFalse(m) => LitFalse(m)' /\ level'[m.var] = level[m.var]
               /\ LitTrue(m) => LitTrue(m)' /\ level'[m.var] = level[m.var]
    <2>1. m.var \in Vars /\ (LitFalse(m) \/ LitTrue(m) => assign[m.var] # "none")
      BY LitTypes, FalseAssigned
    <2> QED BY <1>3, <2>1 DEF LitFalse, LitTrue
  <1>5. /\ prop_queue' \in Seq(Vars) /\ Len(prop_queue') = Len(prop_queue) + 1
        /\ \A k \in 1 .. Len(prop_queue) : prop_queue'[k] = prop_queue[k]
        /\ prop_queue'[Len(prop_queue) + 1] = l.var
    BY EnqueueTypes DEF AsgTypes
  <1>6. DOMAIN prop_queue' = 1 .. Len(prop_queue) + 1 BY <1>5, LenProperties
  <1> QED BY <1>1, <1>2, <1>3, <1>4, <1>5, <1>6

(* The same for a forced literal, which joins the queue on the current level. *)
LEMMA ForcedKeeps ==
    ASSUME AsgTypes, QueueCurrent, NEW l \in Lit, NEW r \in Nat, Forced(l, r)
    PROVE  /\ \A v \in Vars : assign[v] # "none" =>
                assign'[v] = assign[v] /\ level'[v] = level[v] /\ reason'[v] = reason[v]
           /\ assign'[l.var] = l.val /\ level'[l.var] = Len(trail_lim)
           /\ \A m \in Lit : /\ LitFalse(m) => LitFalse(m)' /\ level'[m.var] = level[m.var]
                             /\ LitTrue(m) => LitTrue(m)' /\ level'[m.var] = level[m.var]
           /\ \A k \in DOMAIN prop_queue' :
                assign'[prop_queue'[k]] # "none" /\ level'[prop_queue'[k]] = Len(trail_lim')
  <1>1. Len(trail_lim) \in Nat /\ trail_lim' \in Seq(Nat) BY AsgDomains DEF Forced, AsgTypes
  <1>2. LitFree(l) /\ Enqueue(l, r, Len(trail_lim)) /\ trail_lim' = trail_lim BY DEF Forced
  <1>3. /\ \A v \in Vars : assign[v] # "none" =>
              assign'[v] = assign[v] /\ level'[v] = level[v] /\ reason'[v] = reason[v]
        /\ assign'[l.var] = l.val /\ level'[l.var] = Len(trail_lim) /\ l.val # "none"
        /\ \A m \in Lit : /\ LitFalse(m) => LitFalse(m)' /\ level'[m.var] = level[m.var]
                          /\ LitTrue(m) => LitTrue(m)' /\ level'[m.var] = level[m.var]
    BY <1>1, <1>2, EnqueueKeeps
  <1>4. /\ DOMAIN prop_queue' = 1 .. Len(prop_queue) + 1
        /\ \A k \in 1 .. Len(prop_queue) : prop_queue'[k] = prop_queue[k]
        /\ prop_queue'[Len(prop_queue) + 1] = l.var
    BY <1>1, <1>2, EnqueueKeeps
  <1>5. ASSUME NEW k \in DOMAIN prop_queue'
        PROVE  assign'[prop_queue'[k]] # "none" /\ level'[prop_queue'[k]] = Len(trail_lim')
    <2>1. Len(prop_queue) \in Nat /\ DOMAIN prop_queue = 1 .. Len(prop_queue) BY AsgDomains
    <2>2. CASE k = Len(prop_queue) + 1 BY <1>2, <1>3, <1>4, <2>2
    <2>3. CASE k \in 1 .. Len(prop_queue)
      <3>1. /\ prop_queue[k] \in Vars /\ assign[prop_queue[k]] # "none"
            /\ level[prop_queue[k]] = Len(trail_lim)
        BY <2>1, <2>3, AsgDomains DEF QueueCurrent, DecisionLevel
      <3> QED BY <1>2, <1>3, <1>4, <2>3, <3>1
    <2> QED BY <1>4, <2>1, <2>2, <2>3
  <1> QED BY <1>3, <1>5

LEMMA QueueNext ==
    ASSUME IInv, [Next]_vars
    PROVE  QueueCurrent'
  <1> USE DEF IInv, TrailInv, TypeOK
  <1>1. CASE UNCHANGED asg /\ pc' \notin Quiet \cup {"visit"}
    BY <1>1 DEF asg, QueueCurrent, DecisionLevel
  <1>2. CASE UNCHANGED <<asg, prop, pc>>
    BY <1>2 DEF asg, prop, QueueCurrent, DecisionLevel, LitFalse
  <1>3. \/ SeedUnsat \/ SeedSkip \/ SeedDone \/ VisitDone \/ ConflictUnsat
        \/ ConflictTimeout \/ BeginAnalyze \/ MarkClause \/ WalkTrail \/ FormLemma
        \/ AllAssigned \/ OutOfBudget \/ DecideTimeout
        => UNCHANGED asg /\ pc' \notin Quiet \cup {"visit"}
    BY DEF SeedUnsat, SeedSkip, SeedDone, VisitDone, ConflictUnsat, ConflictTimeout,
           BeginAnalyze, MarkClause, WalkTrail, FormLemma, AllAssigned, OutOfBudget,
           DecideTimeout, Return, Quiet
  <1>4. CASE PropagateDone \/ NoRestart \/ ReduceNothing
    <2>1. UNCHANGED asg /\ prop_queue = <<>> /\ pc' # "visit"
      BY <1>4 DEF PropagateDone, NoRestart, ReduceNothing, QueueCurrent, Quiet
    <2> QED BY <2>1 DEF asg, QueueCurrent, DecisionLevel
  <1>5. ASSUME NEW l \in Lit, NEW r \in Nat, Forced(l, r), pc' \notin Quiet,
               UNCHANGED <<false_lit, pc>> \/ pc' # "visit"
        PROVE  QueueCurrent'
    <2>1. \A k \in DOMAIN prop_queue' :
             assign'[prop_queue'[k]] # "none" /\ level'[prop_queue'[k]] = Len(trail_lim')
      BY <1>5, ForcedKeeps
    <2>2. ASSUME pc' = "visit"
          PROVE  /\ false_lit' \in Lit /\ LitFalse(false_lit)'
                 /\ level'[false_lit'.var] = Len(trail_lim')
      <3>1. /\ pc = "visit" /\ false_lit' = false_lit /\ false_lit \in Lit
            /\ LitFalse(false_lit) /\ level[false_lit.var] = Len(trail_lim)
            /\ trail_lim' = trail_lim
        BY <1>5, <2>2 DEF QueueCurrent, DecisionLevel, Forced
      <3>2. \A m \in Lit : LitFalse(m) => LitFalse(m)' /\ level'[m.var] = level[m.var]
        BY <1>5, ForcedKeeps
      <3>3. assign'[false_lit.var] = Flip(false_lit.val) /\ level'[false_lit.var] = level[false_lit.var]
        BY <3>1, <3>2 DEF LitFalse
      <3> QED BY <3>1, <3>3 DEF LitFalse
    <2> QED BY <1>5, <2>1, <2>2 DEF QueueCurrent, DecisionLevel
  <1>6. CASE SeedUnit
    <2> DEFINE c == clauses[seed]
    <2>1. /\ seed \in 1 .. Len(clauses) /\ Len(c) = 1 /\ LitFree(c[1])
          /\ Enqueue(c[1], seed, Len(trail_lim)) /\ clauses' = clauses
          /\ UNCHANGED trail_lim /\ pc' = "seed"
      BY <1>6, DbDomains DEF SeedUnit, ControlTypes, DecisionLevel, db
    <2>2. DOMAIN c = 1 .. 1 /\ c[1] \in Lit BY <2>1, DbDomains
    <2>3. Lits(c) = {c[1]} BY <2>2 DEF Lits
    <2>4. Forced(c[1], seed) /\ seed \in Nat BY <2>1, <2>3, DbDomains DEF Forced
    <2> QED BY <1>5, <2>1, <2>2, <2>4 DEF Quiet
  <1>7. CASE PropagatePop
    <2> DEFINE n == Len(prop_queue)
               v == prop_queue[n]
    <2>1. false_lit' = FalseLit(v) /\ v \in Vars /\ n \in DOMAIN prop_queue /\ false_lit' \in Lit
      BY <1>7, PopLists
    <2>2. assign[v] \in Bool /\ level[v] = Len(trail_lim)
      BY <2>1, AsgDomains DEF QueueCurrent, DecisionLevel
    <2>3. UNCHANGED <<assign, level, trail_lim>> /\ pc' = "visit" BY <1>7 DEF PropagatePop
    <2>4. false_lit'.var = v /\ false_lit'.val = Flip(assign[v]) BY <2>1 DEF FalseLit
    <2>5. assign'[false_lit'.var] = Flip(false_lit'.val) BY <2>2, <2>3, <2>4, LitTypes
    <2>6. /\ n \in Nat /\ prop_queue \in Seq(Vars) /\ DOMAIN prop_queue = 1 .. n
          /\ prop_queue' = SubSeq(prop_queue, 1, n - 1)
      BY <1>7, AsgDomains DEF PropagatePop, Popped, AsgTypes
    <2> HIDE DEF n
    <2>7. prop_queue' = [k \in 1 .. n - 1 |-> prop_queue[k]] BY <2>6
    <2>8. \A k \in DOMAIN prop_queue' : k \in DOMAIN prop_queue /\ prop_queue'[k] = prop_queue[k]
      BY <2>6, <2>7
    <2>9. \A k \in DOMAIN prop_queue' :
             assign'[prop_queue'[k]] # "none" /\ level'[prop_queue'[k]] = Len(trail_lim')
      BY <2>3, <2>8 DEF QueueCurrent, DecisionLevel
    <2>10. level'[false_lit'.var] = Len(trail_lim') BY <2>2, <2>3, <2>4
    <2> QED BY <2>1, <2>3, <2>5, <2>9, <2>10 DEF QueueCurrent, DecisionLevel, LitFalse, Quiet
  <1>8. CASE Visit
    <2>1. PICK i \in 1 .. Len(clauses) :
             VisitSatisfied(i) \/ VisitMove(i) \/ VisitUnit(i) \/ VisitConflict(i)
      BY <1>8, DbDomains DEF Visit
    <2>2. CASE VisitSatisfied(i) \/ VisitMove(i)
      <3>1. UNCHANGED <<asg, false_lit, pc>> BY <2>2 DEF VisitSatisfied, VisitMove
      <3> QED BY <3>1 DEF asg, QueueCurrent, DecisionLevel, LitFalse
    <2>3. CASE VisitConflict(i) BY <1>1, <2>3 DEF VisitConflict, Quiet
    <2>4. CASE VisitUnit(i)
      <3>1. PICK l \in Lit : Forced(l, i) BY <2>4, VisitEffect
      <3>2. i \in Nat /\ pc' = "visit" /\ UNCHANGED <<false_lit, pc>>
        BY <2>4, DbDomains DEF VisitUnit, TakeEntry
      <3> QED BY <1>5, <3>1, <3>2 DEF Quiet
    <2> QED BY <2>1, <2>2, <2>3, <2>4
  <1>9. CASE Backjump \/ Restart
    <2>1. PICK n \in Nat : n < Len(trail_lim) /\ BacktrackTo(n)
      BY <1>9 DEF Backjump, Restart, RestartDue, DecisionLevel, LemmaRight, LemTypes
    <2>2. prop_queue' = <<>> BY <2>1, BacktrackTrail DEF Trail
    <2>3. pc' # "visit" BY <1>9 DEF Backjump, Restart
    <2> QED BY <2>2, <2>3 DEF QueueCurrent
  <1>10. CASE AddLearnt
    <2>1. AnyEffect /\ pc = "add" /\ pc' = "propagate" BY <1>10, Effects DEF AddLearnt
    <2>2. lemma[1] \in Lit /\ LitFree(lemma[1])
      BY <2>1, ElementOfSeq, LenProperties DEF LemmaRight, LemTypes
    <2>3. Enqueue(lemma[1], Len(clauses) + 1, Len(trail_lim)) /\ UNCHANGED trail_lim
      BY <1>10, <2>2 DEF AddLearnt, DecisionLevel
    <2>4. DOMAIN prop_queue = 1 .. 0 /\ Len(prop_queue) = 0 BY <2>1 DEF QueueCurrent, Quiet
    <2>5. /\ Len(trail_lim) \in Nat /\ Len(clauses) + 1 \in Nat /\ trail_lim' \in Seq(Nat)
      BY <2>3, AsgDomains, DbDomains DEF AsgTypes
    <2>6. /\ DOMAIN prop_queue' = 1 .. Len(prop_queue) + 1
          /\ prop_queue'[Len(prop_queue) + 1] = lemma[1].var
          /\ assign'[lemma[1].var] # "none" /\ level'[lemma[1].var] = Len(trail_lim)
      <3> DEFINE l == lemma[1]
      <3> HIDE DEF l
      <3>1. l \in Lit /\ LitFree(l) /\ Enqueue(l, Len(clauses) + 1, Len(trail_lim))
        BY <2>2, <2>3 DEF l
      <3>2. /\ DOMAIN prop_queue' = 1 .. Len(prop_queue) + 1
            /\ prop_queue'[Len(prop_queue) + 1] = l.var
            /\ assign'[l.var] = l.val /\ l.val # "none" /\ level'[l.var] = Len(trail_lim)
        BY <2>5, <3>1, EnqueueKeeps
      <3> QED BY <3>2 DEF l
    <2> QED BY <2>1, <2>3, <2>4, <2>6 DEF QueueCurrent, DecisionLevel, Quiet
  <1>11. CASE ReduceDb
    <2>1. UNCHANGED <<assign, level, trail_lim, prop_queue>> /\ pc = "reduce" /\ pc' = "decide"
      BY <1>11 DEF ReduceDb
    <2> QED BY <2>1 DEF QueueCurrent, DecisionLevel, Quiet
  <1>12. ASSUME NEW v \in Vars, Decide(v) PROVE QueueCurrent'
    <2> DEFINE l == [var |-> v, val |-> "true"]
    <2>1. l \in Lit /\ l.var = v /\ l.val = "true" BY LitTypes DEF Bool
    <2>2. /\ Enqueue(l, 0, Len(trail_lim) + 1) /\ LitFree(l) /\ pc' = "propagate"
          /\ pc = "decide" /\ trail_lim' = Append(trail_lim, Len(trail))
      BY <1>12 DEF Decide, DecisionLevel, LitFree
    <2>3. DOMAIN prop_queue = 1 .. 0 /\ Len(prop_queue) = 0 BY <2>2 DEF QueueCurrent, Quiet
    <2>4. /\ trail_lim' \in Seq(Nat) /\ Len(trail_lim') = Len(trail_lim) + 1
          /\ Len(trail_lim) + 1 \in Nat
      BY <2>2, AppendProperties, AsgDomains DEF AsgTypes
    <2> HIDE DEF l
    <2>5. /\ DOMAIN prop_queue' = 1 .. Len(prop_queue) + 1
          /\ prop_queue'[Len(prop_queue) + 1] = l.var
          /\ assign'[l.var] = l.val /\ l.val # "none" /\ level'[l.var] = Len(trail_lim) + 1
      BY <2>1, <2>2, <2>4, EnqueueKeeps
    <2> QED BY <2>2, <2>3, <2>4, <2>5 DEF QueueCurrent, DecisionLevel, Quiet
  <1>13. Done \/ UNCHANGED vars => UNCHANGED <<asg, prop, pc>> BY DEF Done, vars
  <1> QED
    BY <1>1, <1>2, <1>3, <1>4, <1>6, <1>7, <1>8, <1>9, <1>10, <1>11, <1>12, <1>13
    DEF Next, Step

LEMMA ControlNext ==
    ASSUME IInv, [Next]_vars
    PROVE  ControlOK'
  <1> USE DEF IInv, TrailInv, TypeOK, ControlOK, Conflicting
  <1>1. CASE SeedUnsat \/ ConflictUnsat \/ ConflictTimeout \/ AllAssigned \/ OutOfBudget
             \/ DecideTimeout
    BY <1>1 DEF SeedUnsat, ConflictUnsat, ConflictTimeout, AllAssigned, OutOfBudget,
                DecideTimeout, Return
  <1>2. CASE SeedUnit \/ SeedSkip
    BY <1>2 DEF SeedUnit, SeedSkip, db, asg, ana
  <1>3. CASE SeedDone \/ PropagateDone \/ PropagatePop \/ VisitDone
    BY <1>3 DEF SeedDone, PropagateDone, PropagatePop, VisitDone, asg, ana
  <1>4. CASE Visit
    <2>1. PICK i \in DOMAIN clauses :
             VisitSatisfied(i) \/ VisitMove(i) \/ VisitUnit(i) \/ VisitConflict(i)
      BY <1>4 DEF Visit
    <2>2. CASE VisitConflict(i) BY <2>2 DEF VisitConflict, asg
    <2>3. CASE VisitSatisfied(i) \/ VisitMove(i) \/ VisitUnit(i)
      <3>1. pc = "visit" /\ UNCHANGED <<pc, confl, result>>
        BY <2>3 DEF VisitSatisfied, VisitMove, VisitUnit, TakeEntry, ana
      <3> QED BY <3>1
    <2> QED BY <2>1, <2>2, <2>3
  <1>5. CASE BeginAnalyze \/ MarkClause \/ FormLemma
    BY <1>5 DEF BeginAnalyze, MarkClause, FormLemma, asg
  <1>6. CASE WalkTrail
    <2>1. pc = "walk" /\ pc' \in {"form", "mark"} /\ UNCHANGED <<trail_lim, result>>
      BY <1>6 DEF WalkTrail, asg
    <2> QED BY <2>1
  <1>7. CASE Backjump BY <1>7 DEF Backjump
  <1>8. CASE AddLearnt BY <1>8 DEF AddLearnt
  <1>9. CASE NoRestart \/ ReduceNothing BY <1>9 DEF NoRestart, ReduceNothing, ana
  <1>10. CASE Restart
    <2>1. BacktrackTo(0) /\ 0 < Len(trail_lim)
      BY <1>10 DEF Restart, RestartDue, DecisionLevel
    <2>2. Len(trail_lim') = 0 /\ AsgTypes' BY <2>1, BacktrackTrail DEF Trail
    <2>3. trail_lim' = <<>> BY <2>2, EmptySeq DEF AsgTypes
    <2> QED BY <1>10, <2>3 DEF Restart, ana
  <1>11. CASE ReduceDb BY <1>11 DEF ReduceDb, ana
  <1>12. CASE \E v \in Vars : Decide(v) BY <1>12 DEF Decide, ana
  <1>13. CASE Done \/ UNCHANGED vars BY <1>13 DEF Done, vars, db, asg, ana
  <1> QED
    BY <1>1, <1>2, <1>3, <1>4, <1>5, <1>6, <1>7, <1>8, <1>9, <1>10, <1>11, <1>12, <1>13
    DEF Next, Step

(* The first part of the inductive invariant. *)
LEMMA TrailInvNext ==
    ASSUME IInv, [Next]_vars
    PROVE  TrailInv'
  BY TypesNext, TrailNext, QueueNext, ControlNext DEF TrailInv, Trail
=============================================================================
