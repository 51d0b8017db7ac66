-------------------------------- MODULE Cdcl --------------------------------
(***************************************************************************)
(* The CDCL SAT solver of crates/solver: Solver::solve and everything it   *)
(* calls (two-watched-literal propagation, 1-UIP analysis, backjumping,    *)
(* Luby restarts, LBD-based deletion of learnt clauses).                   *)
(*                                                                         *)
(* Control is kept step by step.  Data is abstracted in three places only: *)
(*   - a watch list is the bag of its entries, so its visiting order is    *)
(*     arbitrary;                                                          *)
(*   - VSIDS activities are left out: a decision takes any unassigned      *)
(*     variable, a superset of what any activity order can pick;           *)
(*   - the wall clock is left out: any test of it may report a timeout.    *)
(* Sequences and clause indices are 1-based; index 0 stands for None.      *)
(***************************************************************************)
EXTENDS Integers, Sequences, FiniteSets

CONSTANTS
    NumVars,        \* Solver::num_vars
    Formulas,       \* the clause lists Solver::new may be given
    Budget,         \* the decision budget passed to solve
    RestartUnit,    \* RESTART_UNIT
    MinLearntLimit  \* MIN_LEARNT_LIMIT

Vars == 0 .. NumVars - 1
Bool == {"true", "false"}

(* A literal is a variable and the value of it that makes the literal true. *)
Lit == [var : Vars, val : Bool]
NoLit == [var |-> -1, val |-> "none"]

ASSUME NumVarsAssumption == NumVars \in Nat
ASSUME FormulasAssumption == \A F \in Formulas : F \in Seq(Seq(Lit))
ASSUME BoundsAssumption == /\ Budget \in Nat
                           /\ RestartUnit \in Nat \ {0}
                           /\ MinLearntLimit \in Nat \ {0}

VARIABLES
    formula,        \* the input, never written: what the answer is about
    clauses, lbd,   \* the clause store; positions 1 and 2 of a clause are watched
    watches,        \* watches[i][l]: entries of clause i in the list of literal l
    assign, level, reason, trail, trail_lim, prop_queue,
    seen, learnt, counter, pivot, idx, confl,          \* locals of analyze
    lemma, lemma_lbd, btlevel,                         \* what analyze returns
    false_lit, todo,                                   \* locals of propagate
    seed,                                              \* the seeding loop's ci
    conflicts_since_restart, luby_u, luby_v, max_learnt, budget_left,
    pc, result

db   == <<clauses, lbd, watches>>
asg  == <<assign, level, reason, trail, trail_lim, prop_queue>>
ana  == <<seen, learnt, counter, pivot, idx, confl>>
lem  == <<lemma, lemma_lbd, btlevel>>
prop == <<false_lit, todo>>
heur == <<conflicts_since_restart, luby_u, luby_v, max_learnt, budget_left>>
vars == <<formula, db, asg, ana, lem, prop, seed, heur, pc, result>>

-----------------------------------------------------------------------------
(* Values of literals, and the meaning of a formula. *)

Flip(b) == IF b = "true" THEN "false" ELSE "true"
Negated(l) == [var |-> l.var, val |-> Flip(l.val)]

(* lit_value(l) = Some(true), Some(false), None *)
LitTrue(l) == assign[l.var] = l.val
LitFalse(l) == assign[l.var] = Flip(l.val)
LitFree(l) == assign[l.var] = "none"

Lits(c) == {c[k] : k \in DOMAIN c}
Assignments == [Vars -> Bool]
Holds(l, M) == M[l.var] = l.val
ModelOf(M, F) == \A i \in DOMAIN F : \E k \in DOMAIN F[i] : Holds(F[i][k], M)
Satisfiable(F) == \E M \in Assignments : ModelOf(M, F)

(* The clause with literals S follows from the input. *)
Entailed(S) ==
    \A M \in Assignments : ModelOf(M, formula) => \E l \in S : Holds(l, M)

num_original == Len(formula)
DecisionLevel == Len(trail_lim)
Swap(c, i, j) == [c EXCEPT ![i] = c[j], ![j] = c[i]]

(* The number of entries a clause owes to the watch list of l. *)
WatchCount(c, l) ==
    IF Len(c) < 2 THEN 0
    ELSE (IF c[1] = l THEN 1 ELSE 0) + (IF c[2] = l THEN 1 ELSE 0)

WatchEntries(c) == [l \in Lit |-> WatchCount(c, l)]

-----------------------------------------------------------------------------
(* Solver::new, then the first line of solve. *)

Init ==
    /\ formula \in Formulas
    /\ clauses = formula
    /\ lbd = [i \in DOMAIN formula |-> 0]
    /\ watches = [i \in DOMAIN formula |-> WatchEntries(formula[i])]
    /\ assign = [v \in Vars |-> "none"]
    /\ level = [v \in Vars |-> 0]
    /\ reason = [v \in Vars |-> 0]
    /\ trail = <<>> /\ trail_lim = <<>> /\ prop_queue = <<>>
    /\ seen = [v \in Vars |-> FALSE]
    /\ learnt = {} /\ counter = 0 /\ pivot = -1 /\ idx = 0 /\ confl = 0
    /\ lemma = <<>> /\ lemma_lbd = 0 /\ btlevel = 0
    /\ false_lit = NoLit /\ todo = <<>>
    /\ seed = 1
    /\ conflicts_since_restart = 0 /\ luby_u = 1 /\ luby_v = 1
    /\ max_learnt = IF num_original \div 3 > MinLearntLimit
                    THEN num_original \div 3 ELSE MinLearntLimit
    /\ budget_left = Budget
    /\ pc = "seed" /\ result = "none"

(* The None arm of enqueue: l is assigned true at decision level d. *)
Enqueue(l, r, d) ==
    /\ assign' = [assign EXCEPT ![l.var] = l.val]
    /\ level' = [level EXCEPT ![l.var] = d]
    /\ reason' = [reason EXCEPT ![l.var] = r]
    /\ trail' = Append(trail, l.var)
    /\ prop_queue' = Append(prop_queue, l.var)

(* backtrack_to: an early return when there is nothing to undo. *)
MutBacktrackOneShort(n) ==
    IF DecisionLevel <= n + 1 THEN UNCHANGED asg
    ELSE LET target == trail_lim[n + 2]
             undone == {trail[p] : p \in target + 1 .. Len(trail)}
         IN  /\ trail' = SubSeq(trail, 1, target)
             /\ assign' = [v \in Vars |-> IF v \in undone THEN "none" ELSE assign[v]]
             /\ trail_lim' = SubSeq(trail_lim, 1, n + 1)
             /\ prop_queue' = <<>>
             /\ UNCHANGED <<level, reason>>
BacktrackTo(n) ==
    IF DecisionLevel <= n THEN UNCHANGED asg
    ELSE LET target == trail_lim[n + 1]
             undone == {trail[p] : p \in target + 1 .. Len(trail)}
         IN  /\ trail' = SubSeq(trail, 1, target)
             /\ assign' = [v \in Vars |-> IF v \in undone THEN "none" ELSE assign[v]]
             /\ trail_lim' = SubSeq(trail_lim, 1, n)
             /\ prop_queue' = <<>>
             /\ UNCHANGED <<level, reason>>

Return(r) ==
    /\ result' = r
    /\ pc' = "done"
    /\ UNCHANGED <<formula, db, asg, ana, lem, prop, seed>>

-----------------------------------------------------------------------------
(* solve: seeding propagation from the unit clauses. *)

SeedUnsat ==
    /\ pc = "seed" /\ seed <= Len(clauses)
    /\ \/ Len(clauses[seed]) = 0
       \/ Len(clauses[seed]) = 1 /\ LitFalse(clauses[seed][1])
    /\ Return("unsat") /\ UNCHANGED heur

SeedUnit ==
    /\ pc = "seed" /\ seed <= Len(clauses)
    /\ Len(clauses[seed]) = 1 /\ LitFree(clauses[seed][1])
    /\ Enqueue(clauses[seed][1], seed, DecisionLevel)
    /\ seed' = seed + 1
    /\ UNCHANGED <<formula, db, trail_lim, ana, lem, prop, heur, pc, result>>

SeedSkip ==
    /\ pc = "seed" /\ seed <= Len(clauses)
    /\ \/ Len(clauses[seed]) > 1
       \/ Len(clauses[seed]) = 1 /\ LitTrue(clauses[seed][1])
    /\ seed' = seed + 1
    /\ UNCHANGED <<formula, db, asg, ana, lem, prop, heur, pc, result>>

SeedDone ==
    /\ pc = "seed" /\ seed > Len(clauses)
    /\ pc' = "propagate"
    /\ UNCHANGED <<formula, db, asg, ana, lem, prop, seed, heur, result>>

-----------------------------------------------------------------------------
(* propagate: pop a variable, take the watch list of its false literal out,
   and visit every entry of it. *)

(* prop_queue is a stack. *)
MutPoppedKept(q) == q
Popped(q) == SubSeq(q, 1, Len(q) - 1)

PropagatePop ==
    /\ pc = "propagate" /\ prop_queue # <<>>
    /\ LET v  == prop_queue[Len(prop_queue)]
           fl == [var |-> v, val |-> Flip(assign[v])]
       IN  /\ false_lit' = fl
           /\ todo' = [i \in DOMAIN clauses |-> watches[i][fl]]
           /\ watches' = [i \in DOMAIN clauses |-> [watches[i] EXCEPT ![fl] = 0]]
    /\ prop_queue' = Popped(prop_queue)
    /\ pc' = "visit"
    /\ UNCHANGED <<formula, clauses, lbd, assign, level, reason, trail, trail_lim,
                   ana, lem, seed, heur, result>>

PropagateDone ==
    /\ pc = "propagate" /\ prop_queue = <<>>
    /\ pc' = "search"
    /\ UNCHANGED <<formula, db, asg, ana, lem, prop, seed, heur, result>>

(* The clause with its false watch normalised to position 2. *)
Normalised(c) == IF c[1] = false_lit THEN Swap(c, 1, 2) ELSE c

MutReplacementsLate(c) == {k \in 4 .. Len(c) : ~LitFalse(c[k])}
Replacements(c) == {k \in 3 .. Len(c) : ~LitFalse(c[k])}

TakeEntry(i) ==
    /\ pc = "visit" /\ todo[i] > 0
    /\ todo' = [todo EXCEPT ![i] = @ - 1]

MutKeepEntryDropped(i) == UNCHANGED watches
KeepEntry(i) == watches' = [watches EXCEPT ![i][false_lit] = @ + 1]

VisitSatisfied(i) ==
    /\ TakeEntry(i)
    /\ LET c == Normalised(clauses[i])
       IN  LitTrue(c[1]) /\ clauses' = [clauses EXCEPT ![i] = c]
    /\ KeepEntry(i)
    /\ UNCHANGED <<formula, lbd, asg, ana, lem, false_lit, seed, heur, pc, result>>

VisitMove(i) ==
    /\ TakeEntry(i)
    /\ LET c == Normalised(clauses[i])
       IN  /\ ~LitTrue(c[1])
           /\ \E k \in Replacements(c) :
                /\ \A j \in Replacements(c) : k <= j
                /\ clauses' = [clauses EXCEPT ![i] = Swap(c, 2, k)]
                /\ watches' = [watches EXCEPT ![i][c[k]] = @ + 1]
    /\ UNCHANGED <<formula, lbd, asg, ana, lem, false_lit, seed, heur, pc, result>>

VisitUnit(i) ==
    /\ TakeEntry(i)
    /\ LET c == Normalised(clauses[i])
       IN  /\ LitFree(c[1]) /\ Replacements(c) = {}
           /\ clauses' = [clauses EXCEPT ![i] = c]
           /\ Enqueue(c[1], i, DecisionLevel)
    /\ KeepEntry(i)
    /\ UNCHANGED <<formula, lbd, trail_lim, ana, lem, false_lit, seed, heur, pc, result>>

(* The untouched tail of the list goes back with the entries already kept. *)
VisitConflict(i) ==
    /\ pc = "visit" /\ todo[i] > 0
    /\ LET c == Normalised(clauses[i])
       IN  /\ LitFalse(c[1]) /\ Replacements(c) = {}
           /\ clauses' = [clauses EXCEPT ![i] = c]
    /\ watches' = [j \in DOMAIN clauses |->
                      [watches[j] EXCEPT ![false_lit] = @ + todo[j]]]
    /\ todo' = <<>> /\ false_lit' = NoLit
    /\ confl' = i
    /\ pc' = "conflict"
    /\ UNCHANGED <<formula, lbd, asg, seen, learnt, counter, pivot, idx, lem,
                   seed, heur, result>>

Visit == \E i \in DOMAIN clauses : \/ VisitSatisfied(i)
                                   \/ VisitMove(i)
                                   \/ VisitUnit(i)
                                   \/ VisitConflict(i)

VisitDone ==
    /\ pc = "visit" /\ \A i \in DOMAIN todo : todo[i] = 0
    /\ todo' = <<>> /\ false_lit' = NoLit
    /\ pc' = "propagate"
    /\ UNCHANGED <<formula, db, asg, ana, lem, seed, heur, result>>

-----------------------------------------------------------------------------
(* solve: what follows a conflict. *)

ConflictUnsat ==
    /\ pc = "conflict" /\ trail_lim = <<>>
    /\ Return("unsat") /\ UNCHANGED heur

ConflictTimeout ==
    /\ pc = "conflict" /\ trail_lim # <<>>
    /\ Return("unknown") /\ UNCHANGED heur

BeginAnalyze ==
    /\ pc = "conflict" /\ trail_lim # <<>>
    /\ learnt' = {} /\ counter' = 0 /\ pivot' = -1 /\ idx' = Len(trail)
    /\ pc' = "mark"
    /\ UNCHANGED <<formula, db, asg, seen, confl, lem, prop, seed, heur, result>>

(* The literals of the clause being resolved that analyze has not met yet. *)
Fresh == {l \in Lits(clauses[confl]) :
             l.var # pivot /\ ~seen[l.var] /\ level[l.var] > 0}

(* analyze: the loop over the literals of the clause being resolved. *)
MarkClause ==
    /\ pc = "mark"
    /\ LET fresh == Fresh
           here  == {l.var : l \in {l \in fresh : level[l.var] = DecisionLevel}}
       IN  /\ seen' = [v \in Vars |-> seen[v] \/ \E l \in fresh : l.var = v]
           /\ counter' = counter + Cardinality(here)
           /\ learnt' = learnt \cup {l \in fresh : level[l.var] # DecisionLevel}
    /\ pc' = "walk"
    /\ UNCHANGED <<formula, db, asg, pivot, idx, confl, lem, prop, seed, heur, result>>

(* analyze: walk back to the latest marked variable.  It is the UIP when it is
   the last one of its level; otherwise its antecedent is resolved in.  A marked
   variable without antecedent is taken as the UIP and clears all marks. *)
WalkTrail ==
    /\ pc = "walk"
    /\ \E p \in 1 .. idx :
         /\ seen[trail[p]]
         /\ \A q \in p + 1 .. idx : ~seen[trail[q]]
         /\ idx' = p - 1
         /\ counter' = counter - 1
         /\ pivot' = trail[p]
         /\ IF counter # 1 /\ reason[trail[p]] = 0
            THEN seen' = [v \in Vars |-> FALSE]
            ELSE seen' = [seen EXCEPT ![trail[p]] = FALSE]
         /\ IF counter = 1 \/ reason[trail[p]] = 0
            THEN pc' = "form" /\ UNCHANGED confl
            ELSE pc' = "mark" /\ confl' = reason[trail[p]]
    /\ UNCHANGED <<formula, db, asg, learnt, lem, prop, seed, heur, result>>

(* The second literal has the highest level of all but the first. *)
MutSecondAny(c) == TRUE
SecondHighest(c) == \A k \in 2 .. Len(c) : level[c[k].var] <= level[c[2].var]

(* analyze, after the loop: the asserting literal first, one of the highest
   level second, the marks reset.  The order of the others is left open. *)
FormLemma ==
    /\ pc = "form"
    /\ LET uip  == [var |-> pivot, val |-> Flip(assign[pivot])]
           n    == Cardinality(learnt)
           lits == learnt \cup {uip}
       IN  \E c \in [1 .. n + 1 -> lits] :
             /\ c[1] = uip /\ \A l \in learnt : \E k \in 2 .. n + 1 : c[k] = l
             /\ SecondHighest(c)
             /\ lemma' = c
             /\ btlevel' = IF n = 0 THEN 0 ELSE level[c[2].var]
             /\ lemma_lbd' = Cardinality({level[l.var] : l \in lits})
             /\ seen' = [v \in Vars |-> seen[v] /\ \A l \in learnt : l.var # v]
    /\ pc' = "backjump"
    /\ UNCHANGED <<formula, db, asg, learnt, counter, pivot, idx, confl, prop,
                   seed, heur, result>>

Backjump ==
    /\ pc = "backjump"
    /\ BacktrackTo(btlevel)
    /\ pc' = "add"
    /\ UNCHANGED <<formula, db, ana, lem, prop, seed, heur, result>>

(* add_learnt: the new clause and its watches. *)
Store(c, b) ==
    /\ clauses' = Append(clauses, c)
    /\ lbd' = Append(lbd, b)
    /\ watches' = Append(watches, WatchEntries(c))

(* add_learnt, then enqueue of the asserting literal (a no-op unless it is free). *)
AddLearnt ==
    /\ pc = "add"
    /\ Store(lemma, lemma_lbd)
    /\ IF LitFree(lemma[1]) THEN Enqueue(lemma[1], Len(clauses) + 1, DecisionLevel)
                            ELSE UNCHANGED <<assign, level, reason, trail, prop_queue>>
    /\ conflicts_since_restart' = conflicts_since_restart + 1
    /\ lemma' = <<>> /\ learnt' = {} /\ pivot' = -1 /\ confl' = 0
    /\ lemma_lbd' = 0 /\ btlevel' = 0 /\ idx' = 0
    /\ pc' = "propagate"
    /\ UNCHANGED <<formula, trail_lim, seen, counter, prop, seed, luby_u, luby_v,
                   max_learnt, budget_left, result>>

-----------------------------------------------------------------------------
(* solve: the head of the search loop. *)

RestartDue ==
    DecisionLevel > 0 /\ conflicts_since_restart >= RestartUnit * luby_v

NoRestart ==
    /\ pc = "search" /\ ~RestartDue
    /\ pc' = "decide"
    /\ UNCHANGED <<formula, db, asg, ana, lem, prop, seed, heur, result>>

(* advance_luby: u & -u is the largest power of two dividing u. *)
LowestBitIs(u, v) == u % v = 0 /\ (u \div v) % 2 = 1

AdvanceLuby ==
    IF LowestBitIs(luby_u, luby_v) THEN luby_u' = luby_u + 1 /\ luby_v' = 1
                                   ELSE luby_v' = 2 * luby_v /\ UNCHANGED luby_u

Restart ==
    /\ pc = "search" /\ RestartDue
    /\ BacktrackTo(0)
    /\ conflicts_since_restart' = 0
    /\ AdvanceLuby
    /\ pc' = IF Len(clauses) - num_original > max_learnt THEN "reduce" ELSE "decide"
    /\ UNCHANGED <<formula, db, ana, lem, prop, seed, max_learnt, budget_left, result>>

(* reduce_db: locked clauses, the candidates, and their worse half (sort_by_key
   is stable, so the lower index goes first among equals). *)
Locked == {reason[v] : v \in {trail[p] : p \in DOMAIN trail}}
Candidates == {ci \in num_original + 1 .. Len(clauses) : lbd[ci] > 2 /\ ci \notin Locked}

WorseHalf(R) ==
    /\ Cardinality(R) = Cardinality(Candidates) \div 2
    /\ \A r \in R, c \in Candidates \ R : lbd[r] > lbd[c] \/ (lbd[r] = lbd[c] /\ r < c)

(* The surviving indices in order: new index n is old index kept[n]. *)
Enumerates(kept, S) ==
    /\ \A n \in DOMAIN kept : kept[n] \in S
    /\ \A i \in S : \E n \in DOMAIN kept : kept[n] = i
    /\ \A m, n \in DOMAIN kept : m < n => kept[m] < kept[n]

(* reorder_watches: up to two non-false literals are moved to the front. *)
FirstNonFalse(c, from) ==
    LET nf == {k \in from .. Len(c) : ~LitFalse(c[k])}
    IN  IF nf = {} THEN from ELSE CHOOSE k \in nf : \A j \in nf : k <= j

Reordered(c) ==
    IF Len(c) < 2 THEN c
    ELSE LET c1 == Swap(c, 1, FirstNonFalse(c, 1))
         IN  Swap(c1, 2, FirstNonFalse(c1, 2))

(* The reasons of assigned variables follow their clauses to the new indices. *)
MutRemapNot(kept) == reason
Remapped(kept) ==
    [v \in Vars |-> IF assign[v] = "none" \/ reason[v] = 0 THEN reason[v]
                    ELSE CHOOSE n \in DOMAIN kept : kept[n] = reason[v]]

ReduceDb ==
    /\ pc = "reduce"
    /\ \E R \in SUBSET Candidates :
         /\ WorseHalf(R) /\ R # {}
         /\ LET S    == DOMAIN clauses \ R
                kept == [n \in 1 .. Cardinality(S) |->
                            CHOOSE i \in S : Cardinality({j \in S : j < i}) = n - 1]
                new  == [n \in DOMAIN kept |-> Reordered(clauses[kept[n]])]
            IN  /\ Enumerates(kept, S)
                /\ clauses' = new
                /\ lbd' = [n \in DOMAIN kept |-> lbd[kept[n]]]
                /\ watches' = [n \in DOMAIN kept |-> WatchEntries(new[n])]
                /\ reason' = Remapped(kept)
    /\ max_learnt' = max_learnt + max_learnt \div 2
    /\ pc' = "decide"
    /\ UNCHANGED <<formula, assign, level, trail, trail_lim, prop_queue, ana, lem,
                   prop, seed, conflicts_since_restart, luby_u, luby_v, budget_left, result>>

(* reduce_db's early return when the worse half is empty. *)
ReduceNothing ==
    /\ pc = "reduce" /\ Cardinality(Candidates) \div 2 = 0
    /\ max_learnt' = max_learnt + max_learnt \div 2
    /\ pc' = "decide"
    /\ UNCHANGED <<formula, db, asg, ana, lem, prop, seed, conflicts_since_restart,
                   luby_u, luby_v, budget_left, result>>

AllAssigned ==
    /\ pc = "decide" /\ \A v \in Vars : assign[v] # "none"
    /\ Return("sat") /\ UNCHANGED heur

OutOfBudget ==
    /\ pc = "decide" /\ \E v \in Vars : assign[v] = "none"
    /\ budget_left = 0
    /\ Return("unknown") /\ UNCHANGED heur

DecideTimeout ==
    /\ pc = "decide" /\ \E v \in Vars : assign[v] = "none"
    /\ budget_left > 0
    /\ budget_left' = budget_left - 1
    /\ Return("unknown")
    /\ UNCHANGED <<conflicts_since_restart, luby_u, luby_v, max_learnt>>

Decide(v) ==
    /\ pc = "decide" /\ assign[v] = "none"
    /\ budget_left > 0
    /\ budget_left' = budget_left - 1
    /\ trail_lim' = Append(trail_lim, Len(trail))
    /\ Enqueue([var |-> v, val |-> "true"], 0, DecisionLevel + 1)
    /\ pc' = "propagate"
    /\ UNCHANGED <<formula, db, ana, lem, prop, seed, conflicts_since_restart,
                   luby_u, luby_v, max_learnt, result>>

Done == pc = "done" /\ UNCHANGED vars

Step ==
    \/ SeedUnsat \/ SeedUnit \/ SeedSkip \/ SeedDone
    \/ PropagatePop \/ PropagateDone \/ Visit \/ VisitDone
    \/ ConflictUnsat \/ ConflictTimeout \/ BeginAnalyze
    \/ MarkClause \/ WalkTrail \/ FormLemma \/ Backjump \/ AddLearnt
    \/ NoRestart \/ Restart \/ ReduceDb \/ ReduceNothing
    \/ AllAssigned \/ OutOfBudget \/ DecideTimeout \/ (\E v \in Vars : Decide(v))

Next == Step \/ Done

(* solve runs on one thread and never waits, so it keeps taking steps. *)
Spec == Init /\ [][Next]_vars /\ WF_vars(Step)
-----------------------------------------------------------------------------
(* Properties. *)

PCs == {"seed", "propagate", "visit", "conflict", "mark", "walk", "form",
        "backjump", "add", "search", "reduce", "decide", "done"}

DbTypes ==
    /\ formula \in Seq(Seq(Lit)) /\ clauses \in Seq(Seq(Lit))
    /\ lbd \in Seq(Nat) /\ Len(lbd) = Len(clauses)
    /\ watches \in Seq([Lit -> Nat]) /\ Len(watches) = Len(clauses)
AsgTypes ==
    /\ assign \in [Vars -> Bool \cup {"none"}]
    /\ level \in [Vars -> Nat] /\ reason \in [Vars -> Nat]
    /\ trail \in Seq(Vars) /\ trail_lim \in Seq(Nat) /\ prop_queue \in Seq(Vars)
AnaTypes ==
    /\ seen \in [Vars -> BOOLEAN] /\ learnt \subseteq Lit /\ counter \in Int
    /\ pivot \in Vars \cup {-1} /\ idx \in Nat /\ confl \in Nat
LemTypes == lemma \in Seq(Lit) /\ lemma_lbd \in Nat /\ btlevel \in Nat
PropTypes ==
    /\ false_lit \in Lit \cup {NoLit} /\ todo \in Seq(Nat)
    /\ (pc = "visit" => false_lit \in Lit /\ Len(todo) = Len(clauses))
HeurTypes ==
    /\ conflicts_since_restart \in Nat
    /\ luby_u \in Nat \ {0} /\ luby_v \in Nat \ {0}
    /\ max_learnt \in Nat /\ budget_left \in Nat
ControlTypes ==
    seed \in Nat \ {0} /\ pc \in PCs /\ result \in {"none", "sat", "unsat", "unknown"}

(* Every variable of the solver keeps its type. *)
TypeOK == /\ DbTypes /\ AsgTypes /\ AnaTypes /\ LemTypes /\ PropTypes
          /\ HeurTypes /\ ControlTypes

(* The trusted answer: solve returns Unsat only for an unsatisfiable input. *)
UnsatSound == result = "unsat" => ~Satisfiable(formula)

(* solve returns Sat only with an assignment that satisfies every input clause,
   although propagation only ever looked at two literals of each. *)
SatModel ==
    result = "sat" =>
        \A i \in DOMAIN formula : \E k \in DOMAIN formula[i] : LitTrue(formula[i][k])

(* Every learnt clause, when analyze returns it and whenever solve comes back to
   its loop (the store reordered, reduced or renumbered), is a consequence of the
   input: learning removes no model. *)
LearntEntailed ==
    /\ pc = "search" => \A i \in DOMAIN clauses : i > num_original => Entailed(Lits(clauses[i]))
    /\ pc \in {"backjump", "add"} => Entailed(Lits(lemma))

(* Watch lists and clauses never drift apart: a clause has exactly the entries
   its first two literals call for, those taken out by propagate included. *)
WatchListsExact ==
    \A i \in DOMAIN clauses : \A l \in Lit :
        watches[i][l] + (IF pc = "visit" /\ l = false_lit THEN todo[i] ELSE 0)
            = WatchCount(clauses[i], l)

(* The two-watched invariant between propagations, across backjumps, restarts
   and deletions: a watch is false only if the other one is true and was made
   true at no higher level, so no backjump can uncover a missed implication. *)
NoMissedImplication ==
    pc \in {"search", "reduce", "decide"} =>
        \A i \in DOMAIN clauses : Len(clauses[i]) >= 2 =>
            \A k \in {1, 2} :
                LET w == clauses[i][k]
                    o == clauses[i][3 - k]
                IN  LitFalse(w) => LitTrue(o) /\ level[o.var] <= level[w.var]

(* The antecedent of an assigned variable is the clause that forced it, also
   after reduce_db has moved the clauses: it holds the variable's true literal
   and its other literals are false, at no higher level. *)
ReasonForces ==
    \A v \in Vars : assign[v] # "none" /\ reason[v] # 0 =>
        /\ reason[v] <= Len(clauses)
        /\ [var |-> v, val |-> assign[v]] \in Lits(clauses[reason[v]])
        /\ \A l \in Lits(clauses[reason[v]]) :
             l.var # v => LitFalse(l) /\ level[l.var] <= level[v]

(* The 1-UIP walk never runs off the trail, never underflows its counter and
   never meets a marked variable without antecedent before the UIP: the None
   arm of analyze is unreachable, as its comment says. *)
AnalyzeSafe ==
    pc = "walk" =>
        /\ counter >= 1
        /\ \E p \in 1 .. idx : seen[trail[p]] /\ level[trail[p]] = DecisionLevel
        /\ \A p \in 1 .. idx :
             (seen[trail[p]] /\ \A q \in p + 1 .. idx : ~seen[trail[q]])
                => /\ level[trail[p]] = DecisionLevel
                   /\ counter > 1 => reason[trail[p]] # 0

(* The lemma is asserting: after the backjump exactly its first literal is free
   and the others are false, so the enqueue that follows never fails, and the
   analysis leaves no mark behind. *)
LemmaAsserting ==
    pc = "add" =>
        /\ LitFree(lemma[1])
        /\ \A k \in 2 .. Len(lemma) : LitFalse(lemma[k])
        /\ \A v \in Vars : ~seen[v]

(* No clause is learnt while a clause of the store already says as much (clauses
   without repeated literals): every conflict teaches something. *)
LemmaNew ==
    pc = "add" =>
        \A i \in DOMAIN clauses :
            Cardinality(Lits(clauses[i])) = Len(clauses[i])
                => ~(Lits(clauses[i]) \subseteq Lits(lemma))

(* reduce_db drops clauses only at decision level 0, and never one that is the
   antecedent of an assigned variable. *)
DeletionSafe ==
    [][Len(clauses') < Len(clauses) =>
          /\ trail_lim = <<>>
          /\ \A v \in Vars : assign[v] # "none" /\ reason[v] # 0 =>
               Lits(clauses'[reason'[v]]) = Lits(clauses[reason[v]])]_vars

(* solve always returns, whatever the decisions, restarts and deletions do. *)
Termination == <>(pc = "done")

(* What solve answers is right: Unsat only without a model, Sat only with one. *)
AnswersSound == UnsatSound /\ SatModel

(* What analyze returns is a new consequence of the input that is asserting after
   the backjump, and computing it never walks off the trail. *)
LemmasRight == LearntEntailed /\ LemmaNew /\ LemmaAsserting /\ AnalyzeSafe

(* Watch lists match the clauses, and between propagations no clause has lost both
   its watches unnoticed. *)
WatchesRight == WatchListsExact /\ NoMissedImplication

=============================================================================
