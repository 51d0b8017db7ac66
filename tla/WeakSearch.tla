----------------------------- MODULE WeakSearch -----------------------------
(***************************************************************************)
(* The weak-memory detector around the operational model: the bounded      *)
(* depth-first search of op_reachable, weak_memory_nonrobustness, which    *)
(* runs it under both models, and the choice of thread groups to run it on *)
(* (verifier/src/interleave/weakmem_check.rs).  A reference definition of  *)
(* sequential consistency, one shared memory and one event at a time,      *)
(* judges what the model and the detectors answer.                         *)
(***************************************************************************)
EXTENDS WeakMem, SequencesExt

CONSTANTS
  SearchCeiling,   \* SEARCH_CEILING
  Searched         \* the programs the search is run on

ASSUME SearchAssumption == SearchCeiling \in Nat /\ Searched \subseteq DOMAIN Programs

VARIABLES
  phase,           \* "run": one execution; "sc", "weak": which search runs; "done"
  stack,           \* the states to visit, the top last
  visited,
  out,             \* the terminal observations found under each model
  budget,
  cut              \* whether a search was stopped with states left to visit

searchVars == <<phase, stack, visited, out, budget, cut>>

-----------------------------------------------------------------------------
(* weak_memory_nonrobustness *)

\* search_estimate: the product of (events + 1), times 4 per thread.
search_estimate(p) == FoldSeq(LAMBDA th, acc : acc * (Len(th.events) + 1) * 4, 1, p)

search_budget(p) == IF search_estimate(p) < SearchCeiling THEN search_estimate(p) ELSE SearchCeiling

product_fits(p) == search_estimate(p) <= SearchCeiling

\* What op_reachable pushes for a state, in the order of its loops: the flushes
\* and the events of one thread, the deliveries of one propagating write.
FlushesOf(p, s, w, t) ==
  LET xs == SetToSeq({x \in Locations(p) : CanFlush(s, w, t, x)})
  IN  [k \in DOMAIN xs |-> Flushed(s, t, xs[k])]

DeliveriesOf(p, s, w, n) ==
  FlattenSeq([u \in Threads(p) |-> IF CanDeliver(s, w, n, u) THEN <<Delivered(p, s, n, u)>> ELSE <<>>])

StepsOf(p, s, w, t) ==
  FlattenSeq([i \in Events(p, t) |-> IF CanExec(p, s, w, t, i) THEN <<Executed(p, s, w, t, i)>> ELSE <<>>])

Successors(p, s, w) ==
  FlattenSeq([t \in Threads(p) |-> FlushesOf(p, s, w, t)])
    \o FlattenSeq([n \in DOMAIN s.pending |-> DeliveriesOf(p, s, w, n)])
    \o FlattenSeq([t \in Threads(p) |-> StepsOf(p, s, w, t)])

StartSearch ==
  /\ stack = <<InitState(P)>>
  /\ visited = {}
  /\ out = [sc |-> {}, weak |-> {}]
  /\ budget = search_budget(P)
  /\ cut = [sc |-> FALSE, weak |-> FALSE]

\* One turn of the loop of op_reachable.
\* Wrong variant: states that differ only in what was read count as the same.
MutVisitState ==
  LET s == Last(stack)
  IN  /\ phase \in {"sc", "weak"} /\ stack # <<>> /\ budget > 0
      /\ budget' = budget - 1
      /\ visited' = visited \cup {[s EXCEPT !.obs = <<>>]}
      /\ IF [s EXCEPT !.obs = <<>>] \in visited \/ Terminal(P, s) THEN stack' = Front(stack)
         ELSE stack' = Front(stack) \o Successors(P, s, phase = "weak")
      /\ out' = IF [s EXCEPT !.obs = <<>>] \notin visited /\ Terminal(P, s)
                THEN [out EXCEPT ![phase] = @ \cup {s.obs}] ELSE out
      /\ UNCHANGED <<phase, cut>>

VisitState ==
  LET s == Last(stack)
  IN  /\ phase \in {"sc", "weak"} /\ stack # <<>> /\ budget > 0
      /\ budget' = budget - 1
      /\ visited' = visited \cup {s}
      /\ IF s \in visited \/ Terminal(P, s) THEN stack' = Front(stack)
         ELSE stack' = Front(stack) \o Successors(P, s, phase = "weak")
      /\ out' = IF s \notin visited /\ Terminal(P, s) THEN [out EXCEPT ![phase] = @ \cup {s.obs}]
                ELSE out
      /\ UNCHANGED <<phase, cut>>

\* The stack is empty, or the budget is used up with a state already popped.
EndSearch ==
  /\ phase \in {"sc", "weak"}
  /\ stack = <<>> \/ budget = 0
  /\ cut' = [cut EXCEPT ![phase] = stack # <<>>]
  /\ IF phase = "sc"
     THEN phase' = "weak" /\ stack' = <<InitState(P)>> /\ budget' = search_budget(P)
     ELSE phase' = "done" /\ stack' = <<>> /\ budget' = 0
  /\ visited' = {}
  /\ UNCHANGED out

-----------------------------------------------------------------------------
(* find_weak_memory_bugs *)

IsFull(e) == e.k \in {"Fence", "Acquire", "Release", "Join", "Spawn"}

\* An earlier event of these kinds on another location, with no full barrier
\* and no barrier of kind `fence` in between.
Overtaken(th, q, kinds, fence) ==
  \E j \in 1..(q - 1) :
    /\ th.events[j].k \in kinds /\ th.events[j].x # th.events[q].x
    /\ \A m \in (j + 1)..(q - 1) : ~IsFull(th.events[m]) /\ th.events[m].k # fence

has_reorder_window(th) ==
  \E q \in DOMAIN th.events :
    \/ th.events[q].k \in Writes /\ Overtaken(th, q, Writes, "WFence")
    \/ th.events[q].k \in Reads /\ Overtaken(th, q, Writes, "")
    \/ th.events[q].k = "Read" /\ Overtaken(th, q, Reads, "RFence")

shares(p, i, j) ==
  \/ written(p[i]) \cap touched(p[j]) # {}
  \/ written(p[j]) \cap touched(p[i]) # {}

\* The union-find classes of `shares`: sets of threads closed under it, none
\* of whose proper subsets is.
Groups(p) ==
  LET closed == {g \in SUBSET Threads(p) :
                   g # {} /\ \A i \in g, j \in Threads(p) \ g : ~shares(p, i, j)}
  IN  {g \in closed : \A h \in closed : h \subseteq g => h = g}

shared_two(a, b) == Cardinality(a \cap b) >= 2

\* The thread of a set of threads, in order.
Sub(p, g) == LET is == SetToSortSeq(g, <) IN [k \in DOMAIN is |-> p[is[k]]]

\* The sets of threads the search is run on together.  (The check of a spawned
\* function against a second instance of itself is the search on two copies.)
CheckedSets(p) ==
  LET window(i) == has_reorder_window(p[i])
      two(i, j) == shared_two(touched(p[i]), touched(p[j]))
      groups == {g \in Groups(p) :
                   /\ Cardinality(g) >= 2
                   /\ \E i \in g : window(i)
                   /\ \E i, j \in g : i # j /\ two(i, j)}
      pairs(g) == {{q[1], q[2]} : q \in {r \in g \X g : r[1] < r[2] /\ shares(p, r[1], r[2])
                                 /\ (window(r[1]) \/ window(r[2])) /\ two(r[1], r[2])}}
  IN  UNION {IF product_fits(Sub(p, g)) THEN {g} ELSE pairs(g) : g \in groups}

-----------------------------------------------------------------------------
(* Reference: sequential consistency over one memory. *)

ScInit(p) ==
  [ip |-> [t \in Threads(p) |-> 0], mem |-> [x \in Locations(p) |-> InitTag],
   held |-> [t \in Threads(p) |-> {}],
   started |-> {t \in Threads(p) : parent_of(p, t) = 0}, obs |-> <<>>]

\* The next event of thread t may be executed.
ScEnabled(p, s, t) ==
  LET e == Ev(p, t, s.ip[t] + 1)
  IN  /\ t \in s.started /\ s.ip[t] < Len(p[t].events)
      /\ e.k = "Acquire" => \A o \in Threads(p) \ {t} : e.x \notin s.held[o]
      /\ e.k = "Join" => \A c \in Threads(p) : parent_of(p, c) = t => s.ip[c] = Len(p[c].events)

\* The state after it.
ScStep(p, s, t) ==
  LET i == s.ip[t] + 1
      e == Ev(p, t, i)
      moved == [s EXCEPT !.ip[t] = i]
  IN  CASE e.k \in Writes    -> [moved EXCEPT !.mem[e.x] = <<t, i>>]
        [] e.k \in Reads     -> [moved EXCEPT !.obs = [r \in DOMAIN s.obs \cup {<<t, i>>} |->
                                                         IF r = <<t, i>> THEN s.mem[e.x] ELSE s.obs[r]]]
        [] e.k = "Acquire"   -> [moved EXCEPT !.held[t] = @ \cup {e.x}]
        [] e.k = "Release"   -> [moved EXCEPT !.held[t] = @ \ {e.x}]
        [] e.k = "Spawn"     -> [moved EXCEPT !.started = @ \cup {index_of(p, e.x)}]
        [] OTHER             -> moved

ScNext(p, s) == {ScStep(p, s, t) : t \in {u \in Threads(p) : ScEnabled(p, s, u)}}

AllEvents(p) == UNION {{t} \X Events(p, t) : t \in Threads(p)}

\* The states after at most n events.
ScReach(p, n) ==
  LET reach[k \in 0..n] ==
        IF k = 0 THEN {ScInit(p)}
        ELSE LET seen == reach[k - 1] IN seen \cup UNION {ScNext(p, s) : s \in seen}
  IN  reach[n]

ScStates(p) == ScReach(p, Cardinality(AllEvents(p)))

\* The observations of complete sequentially consistent executions, a sequence
\* with one entry per program (as is RaceFree).
ScObs == <<>> \o [n \in DOMAIN Programs |->
  LET p == Programs[n]
  IN  {s.obs : s \in {r \in ScStates(p) : \A t \in Threads(p) : r.ip[t] = Len(p[t].events)}}]

\* Two threads about to make conflicting accesses in some sequentially
\* consistent execution.
RaceFree == <<>> \o [n \in DOMAIN Programs |->
  LET p == Programs[n]
      next(s) == {t \in s.started \cap Threads(p) : s.ip[t] < Len(p[t].events)}
      ev(s, t) == Ev(p, t, s.ip[t] + 1)
  IN  ~ \E s \in ScStates(p) : \E t, u \in next(s) :
          /\ t # u /\ ev(s, t).x = ev(s, u).x
          /\ ev(s, t).k \in Writes /\ ev(s, u).k \in Accesses]

-----------------------------------------------------------------------------
(* The specification: one execution, or the detector's pair of searches. *)

SInit ==
  \/ /\ Init
     /\ phase = "run" /\ stack = <<>> /\ visited = {} /\ budget = 0
     /\ out = [sc |-> {}, weak |-> {}] /\ cut = [sc |-> FALSE, weak |-> FALSE]
  \/ /\ prog \in Searched /\ weak = FALSE
     /\ st = InitState(Programs[prog])
     /\ phase = "sc" /\ StartSearch

SNext ==
  \/ phase = "run" /\ Next /\ UNCHANGED searchVars
  \/ (VisitState \/ EndSearch) /\ UNCHANGED vars

SSpec == SInit /\ [][SNext]_<<vars, searchVars>>

-----------------------------------------------------------------------------
(* Properties *)

Finished == phase = "run" /\ Terminal(P, st)

\* Every tag a thread can see, buffer or send was written by an event already
\* executed, to that location.
TypeOK ==
  /\ prog \in DOMAIN Programs /\ weak \in BOOLEAN
  /\ phase \in {"run", "sc", "weak", "done"} /\ budget \in 0..SearchCeiling
  /\ LET tags(x) == {InitTag} \cup {r \in UNION {{t} \X st.consumed[t] : t \in Threads(P)} :
                                       Ev(P, r[1], r[2]).k \in Writes /\ Ev(P, r[1], r[2]).x = x}
     IN  /\ \A t \in Threads(P) : st.consumed[t] \subseteq Events(P, t)
         /\ \A t \in Threads(P), x \in Locations(P) :
              /\ st.views[t][x] \in tags(x)
              /\ \A n \in DOMAIN st.bufs[t][x] : st.bufs[t][x][n] \in tags(x)
         /\ \A n \in DOMAIN st.pending : /\ st.pending[n].tag \in tags(st.pending[n].loc)
                                         /\ st.pending[n].delivered \subseteq Threads(P)
         /\ \A r \in DOMAIN st.obs : st.obs[r] \in tags(Ev(P, r[1], r[2]).x)

\* `weak = false gives sequential consistency`: what the model's executions
\* observe is what interleavings over one memory observe.
ScMatchesReference == Finished /\ ~weak => st.obs \in ScObs[prog]

\* Locks, spawn and join are full synchronisation: a program whose conflicting
\* accesses are ordered by them shows no weak behaviour.
RaceFreeIsSC == Finished /\ weak /\ RaceFree[prog] => st.obs \in ScObs[prog]

SingleWriter(p) == \A t, u \in Threads(p) : t # u => written(p[t]) \cap written(p[u]) = {}

Fenced(th) ==
  \A i, j \in DOMAIN th.events :
    (i < j /\ th.events[i].k \in Accesses /\ th.events[j].k \in Accesses)
      => \E m \in i..j : th.events[m].k = "Fence"

\* A full barrier between any two accesses makes every thread agree on the order
\* of writes, with any number of threads, as long as one thread writes a location.
FencedIsSC ==
  (Finished /\ weak /\ SingleWriter(P) /\ \A t \in Threads(P) : Fenced(P[t]))
    => st.obs \in ScObs[prog]

\* No read overtakes a read of the same location.
NoRepeatedRead(th) ==
  \A i, j \in DOMAIN th.events :
    (i < j /\ th.events[j].k = "Read" /\ th.events[i].k \in Reads /\ th.events[i].x = th.events[j].x)
      => \E m \in i..j : IsFull(th.events[m]) \/ th.events[m].k = "RFence"

\* The pruning test of the detector is exact for two threads that write different
\* locations and do not read one location twice in a row: without a reorder
\* window in either there is nothing the search could find.
NoWindowIsSC ==
  (/\ Finished /\ weak /\ Len(P) = 2 /\ SingleWriter(P)
   /\ \A t \in Threads(P) : NoRepeatedRead(P[t])
   /\ Threads(P) \notin CheckedSets(P))
    => st.obs \in ScObs[prog]

\* Some event of these kinds thread t could execute now.
Enabled(t, kinds) ==
  {Ev(P, t, i).x : i \in {j \in Events(P, t) : Ev(P, t, j).k \in kinds /\ CanExec(P, st, weak, t, j)}}

\* The lockset searches miss no pair they look for: when two threads can both go
\* ahead, one freeing and one using (or freeing) an object, one swapping and one
\* modifying, one taking and one dropping a reference, the object is reported.
PairsReported ==
  phase = "run" =>
    \A t, u \in Threads(P) : t # u =>
      /\ \A x \in Enabled(t, {"Free"}) \cap Enabled(u, Accesses) : <<x, FALSE>> \in find_cross_thread_uaf(P)
      /\ \A x \in Enabled(t, {"Free"}) \cap Enabled(u, {"Free"}) : <<x, TRUE>> \in find_cross_thread_uaf(P)
      /\ Enabled(t, {"Cas"}) \cap Enabled(u, Writes \cup {"Free"}) \subseteq find_aba(P)
      /\ Enabled(t, {"RefGet"}) \cap Enabled(u, {"RefPut"}) \subseteq find_refcount_races(P)

\* The data-race pass misses no race on a location that is locked somewhere: when
\* two functions can both go ahead on it and one writes, it is reported.
RacesReported ==
  phase = "run" =>
    \A t, u \in Threads(P) : (t # u /\ P[t].name # P[u].name) =>
      \A x \in Enabled(t, Writes) \cap Enabled(u, Accesses) :
        (\E a \in TaggedAccesses(P) : a.location = x /\ a.lockset # {})
          => x \in detect_races(TaggedAccesses(P), {}, FALSE)

\* A search that was not cut short under sequential consistency found exactly the
\* sequentially consistent observations.
SearchExact ==
  (phase \in {"weak", "done"} /\ ~cut.sc) => out.sc = ScObs[prog]

=============================================================================
