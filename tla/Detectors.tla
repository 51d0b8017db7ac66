----------------------------- MODULE Detectors -----------------------------
(***************************************************************************)
(* The detectors that search thread traces beyond single events: lost      *)
(* updates (interleave/atomicity.rs), lock-order cycles (lockorder.rs),    *)
(* store buffering (interleave/atomicity.rs) and objects left dangling     *)
(* between independent entries (interleave/crossentry.rs).  What they      *)
(* report is judged by executions: the sequentially consistent runs of     *)
(* WeakMem, the weak search, and sequences of entry calls over slots that  *)
(* hold real objects.                                                      *)
(***************************************************************************)
EXTENDS WeakSearch, Components

CONSTANTS
  Globals,     \* the object class reached through a global slot -> the slot's class
  ScOnly,      \* the programs not run under the weak model
  Entries,     \* the programs whose threads are called one after another
  MaxCalls     \* the most calls in one sequence

VARIABLE sys   \* slots, who freed which object, the calls made and their errors

-----------------------------------------------------------------------------
(* atomicity_violation: depth first over the interleavings of two traces,    *)
(* with no visited set.                                                      *)

NoWitness == [location |-> "", schedule |-> <<>>]

LostInit == [ip |-> <<0, 0>>, held |-> <<{}, {}>>, pending |-> <<{}, {}>>, interrupted |-> <<{}, {}>>]

\* Thread t has an event left, and no lock of the other thread blocks it.
CanStep(traces, s, t) ==
  /\ s.ip[t] < Len(traces[t])
  /\ LET e == traces[t][s.ip[t] + 1] IN e.k = "Acquire" => e.x \notin s.held[3 - t]

\* Wrong variant: a write leaves the other thread's open read alone.
MutLostStep(s, t, e) ==
  LET moved == [s EXCEPT !.ip[t] = @ + 1]
  IN  CASE e.k = "Acquire" -> [moved EXCEPT !.held[t] = @ \cup {e.x}]
        [] e.k = "Release" -> [moved EXCEPT !.held[t] = @ \ {e.x}]
        [] e.k \in Reads   -> [moved EXCEPT !.pending[t] = @ \cup {e.x}]
        [] e.k \in Writes  -> [moved EXCEPT !.pending[t] = @ \ {e.x}, !.interrupted[t] = @ \ {e.x}]
        [] OTHER           -> moved

\* One event applied to the child state of dfs.
LostStep(s, t, e) ==
  LET moved == [s EXCEPT !.ip[t] = @ + 1]
      o == 3 - t
  IN  CASE e.k = "Acquire" -> [moved EXCEPT !.held[t] = @ \cup {e.x}]
        [] e.k = "Release" -> [moved EXCEPT !.held[t] = @ \ {e.x}]
        [] e.k \in Reads   -> [moved EXCEPT !.pending[t] = @ \cup {e.x}]
        [] e.k \in Writes  -> [moved EXCEPT !.interrupted[o] = @ \cup (s.pending[o] \cap {e.x}),
                                            !.pending[t] = @ \ {e.x},
                                            !.interrupted[t] = @ \ {e.x}]
        [] OTHER           -> moved

\* The search below s: the first witness and the budget left.
RECURSIVE dfs(_, _, _, _)
dfs(traces, s, schedule, left) ==
  LET Try(r, t) ==
        IF r.witness # NoWitness \/ ~CanStep(traces, s, t) THEN r
        ELSE LET e == traces[t][s.ip[t] + 1]
                 longer == Append(schedule, <<t, e>>)
             IN  IF e.k = "Rmw" /\ e.x \in s.interrupted[t]
                 THEN [r EXCEPT !.witness = [location |-> e.x, schedule |-> longer]]
                 ELSE dfs(traces, LostStep(s, t, e), longer, r.left)
  IN  IF left = 0 THEN [witness |-> NoWitness, left |-> 0]
      ELSE FoldLeft(Try, [witness |-> NoWitness, left |-> left - 1], <<1, 2>>)

atomicity_violation(a, b) == dfs(<<a.events, b.events>>, LostInit, <<>>, search_budget(<<a, b>>))

\* The pairs find_atomicity_violations searches: a spawned writer with a second
\* instance of itself, and both orders of threads of which one writes what the
\* other touches.
LostPairs(p) ==
  {q \in Threads(p) \X Threads(p) :
     IF q[1] = q[2] THEN written(p[q[1]]) # {} /\ p[q[1]].name \in spawned_names(p)
     ELSE shares(p, q[1], q[2])}

\* What each searched pair of each program gives.
LostResults == <<>> \o [n \in DOMAIN Programs |->
  [q \in LostPairs(Programs[n]) |-> atomicity_violation(Programs[n][q[1]], Programs[n][q[2]])] @@ <<>>]

-----------------------------------------------------------------------------
(* detect_cycles *)

\* The executor notes an edge for every other class held at an acquire.
LockEdges(p) ==
  UNION {{[function |-> p[t].name, from |-> h, to |-> Ev(p, t, i).x] :
            h \in heldAt(p[t], i) \ {Ev(p, t, i).x}} :
         <<t, i>> \in {r \in UNION {{u} \X Events(p, u) : u \in Threads(p)} : Ev(p, r[1], r[2]).k = "Acquire"}}

\* Wrong variant: only the classic two-lock cycle counts.
Mutdetect_cycles(edges) ==
  {[classes |-> {e.from, e.to}, functions |-> {e.function, f.function}] :
     <<e, f>> \in {q \in edges \X edges : q[1].from = q[2].to /\ q[1].to = q[2].from}}

detect_cycles(edges) ==
  LET names == SetToSeq({e.from : e \in edges} \cup {e.to : e \in edges})
      adj == <<>> \o [u \in DOMAIN names |->
               SetToSeq({v \in DOMAIN names : \E e \in edges : e.from = names[u] /\ e.to = names[v]})]
      sccs == Range(Tarjan(adj, [u \in DOMAIN names |-> u]))
      within(c) == {e \in edges : e.from \in c /\ e.to \in c}
  IN  {[classes |-> c, functions |-> {e.function : e \in within(c)}] :
         c \in {{names[u] : u \in scc} : scc \in {s \in sccs : Cardinality(s) >= 2}}}

Cycles == <<>> \o [n \in DOMAIN Programs |-> detect_cycles(LockEdges(Programs[n]))]

-----------------------------------------------------------------------------
(* store_buffer_violations *)

buffered_write_read_pairs(th) ==
  {<<th.events[q[1]].x, th.events[q[2]].x>> : q \in {r \in (DOMAIN th.events) \X (DOMAIN th.events) :
     /\ r[1] < r[2]
     /\ th.events[r[1]].k \in Writes /\ th.events[r[2]].k \in Reads
     /\ th.events[r[1]].x # th.events[r[2]].x
     /\ \A m \in (r[1] + 1)..(r[2] - 1) : ~IsFull(th.events[m])}}

\* The location pairs reported, each with the threads that show it.
store_buffer_violations(p) ==
  {[threads |-> <<q[1], q[2]>>, locations |-> ab] :
     <<q, ab>> \in {r \in (Threads(p) \X Threads(p)) \X (Locations(p) \X Locations(p)) :
        /\ r[1][1] < r[1][2]
        /\ r[2] \in buffered_write_read_pairs(p[r[1][1]])
        /\ <<r[2][2], r[2][1]>> \in buffered_write_read_pairs(p[r[1][2]])}}

-----------------------------------------------------------------------------
(* find_cross_entry_uaf: each root is Live or Dangling.                      *)

is_global_rooted(x) == x \in DOMAIN Globals \/ \E r \in DOMAIN Globals : Globals[r] = x

root_slot(x) == IF x \in DOMAIN Globals THEN Globals[x] ELSE x

\* Wrong variant: a write to the slot counts as a use, like one through it.
Mutroot_effect(e, root) ==
  CASE e.k \in {"Free", "RefPut"} /\ e.x = root             -> "Free"
    [] e.k \in Accesses \cup {"RefGet"} /\ e.x = root        -> "Use"
    [] OTHER                                                -> "None"

root_effect(e, root) ==
  CASE e.k \in {"Free", "RefPut"} /\ e.x = root             -> "Free"
    [] e.k \in Writes /\ e.x = root_slot(root)              -> "Clear"
    [] e.k \in Accesses \cup {"RefGet"} /\ e.x = root        -> "Use"
    [] OTHER                                                -> "None"

\* The state a trace leaves the root in, and the errors on the way.
simulate_root(events, root, start) ==
  FoldLeft(LAMBDA s, e :
             LET eff == root_effect(e, root)
             IN  CASE eff = "Free"  -> [s EXCEPT !.st = "Dangling",
                                                 !.double = @ \/ s.st = "Dangling"]
                   [] eff = "Clear" -> [s EXCEPT !.st = "Live"]
                   [] eff = "Use"   -> [s EXCEPT !.uaf = @ \/ s.st = "Dangling"]
                   [] OTHER         -> s,
           [st |-> start, uaf |-> FALSE, double |-> FALSE], events)

\* The reports: the root, whether it is freed twice, and the two entries.
find_cross_entry_uaf(p) ==
  LET kinds == Accesses \cup {"Free", "RefPut", "RefGet"}
      roots == {x \in UNION {{e.x : e \in {f \in Range(p[t].events) : f.k \in kinds}} : t \in Threads(p)} :
                  is_global_rooted(x)}
      freers(r) == {t \in Threads(p) : simulate_root(p[t].events, r, "Live").st = "Dangling"}
      other(r, j) == CHOOSE f \in freers(r) \ {j} : \A g \in freers(r) \ {j} : f <= g
      hit(r, j, d) == LET s == simulate_root(p[j].events, r, "Dangling")
                      IN  freers(r) \ {j} # {} /\ (IF d THEN s.double ELSE s.uaf)
      users(r, d) == {j \in Threads(p) : hit(r, j, d)}
      first(r, d) == CHOOSE j \in users(r, d) : \A k \in users(r, d) : j <= k
  IN  {[location |-> q[1], double |-> q[2],
        entries |-> <<other(q[1], first(q[1], q[2])), first(q[1], q[2])>>] :
         q \in {x \in roots \X BOOLEAN : users(x[1], x[2]) # {}}}

\* A state set by one entry and forbidden by another.
find_cross_entry_typestate(p) ==
  LET named(t, k) == {e.x : e \in {f \in Range(p[t].events) : f.k = k}}
  IN  UNION {named(q[1], "SetState") \cap named(q[2], "RequireNot") :
               q \in {r \in Threads(p) \X Threads(p) : r[1] # r[2]}}

UafReports == <<>> \o [n \in DOMAIN Programs |-> find_cross_entry_uaf(Programs[n])]

-----------------------------------------------------------------------------
(* Reference: entries called one after another.  A slot holds an object;     *)
(* writing the slot stores a new object, and freeing an object leaves every  *)
(* slot that holds it as it is.                                              *)

SysInit ==
  [slots |-> [s \in {Globals[r] : r \in DOMAIN Globals} |-> s],
   freer |-> <<>>, set |-> {}, fresh |-> 0, calls |-> <<>>, errs |-> {}]

\* The outcomes of one event of entry j; a dropped reference may or may not be
\* the last one.
EventOutcomes(s, j, e) ==
  LET call == Len(s.calls)
      isRoot == e.x \in DOMAIN Globals
      obj == s.slots[root_slot(e.x)]
      gone == obj \in DOMAIN s.freer
      err(kind, by) == [kind |-> kind, root |-> e.x, entry |-> j, by |-> by[1], sameCall |-> by[2] = call]
      freed == [s EXCEPT !.freer = (obj :> <<j, call>>) @@ @,
                         !.errs = IF gone THEN @ \cup {err("double", s.freer[obj])} ELSE @]
      setters == {b \in s.set : b[1] = e.x}
  IN  CASE e.k = "Free" /\ isRoot   -> {freed}
        [] e.k = "RefPut" /\ isRoot -> {freed, s}
        [] e.k \in Writes /\ e.x \in DOMAIN s.slots ->
             {[s EXCEPT !.slots[e.x] = ToString(s.fresh), !.fresh = @ + 1]}
        [] e.k \in Accesses \cup {"RefGet"} /\ isRoot /\ gone ->
             {[s EXCEPT !.errs = @ \cup {err("use", s.freer[obj])}]}
        [] e.k = "SetState"   -> {[s EXCEPT !.set = @ \cup {<<e.x, j, call>>}]}
        [] e.k = "RequireNot" ->
             {[s EXCEPT !.errs = @ \cup {err("state", <<b[2], b[3]>>) : b \in setters}]}
        [] OTHER -> {s}

CallOutcomes(p, s, j) ==
  FoldLeft(LAMBDA ss, e : UNION {EventOutcomes(t, j, e) : t \in ss},
           {[s EXCEPT !.calls = Append(@, j)]}, p[j].events)

CallEntry ==
  /\ phase = "entries" /\ Len(sys.calls) < MaxCalls
  /\ \E j \in Threads(P) : sys' \in CallOutcomes(P, sys, j)
  /\ UNCHANGED <<vars, searchVars>>

-----------------------------------------------------------------------------

DInit ==
  /\ sys = SysInit
  /\ \/ SInit /\ (prog \in ScOnly => ~weak)
     \/ /\ prog \in Entries /\ weak = FALSE /\ st = InitState(Programs[prog])
        /\ phase = "entries" /\ stack = <<>> /\ visited = {} /\ budget = 0
        /\ out = [sc |-> {}, weak |-> {}] /\ cut = [sc |-> FALSE, weak |-> FALSE]

DNext == (SNext /\ UNCHANGED sys) \/ CallEntry

DSpec == DInit /\ [][DNext]_<<vars, searchVars, sys>>

-----------------------------------------------------------------------------
(* Properties *)

\* The last access of x by thread t before its event j is a read.
OpenRead(t, j, x) ==
  LET before == {i \in 1..(j - 1) : Ev(P, t, i).k \in Accesses /\ Ev(P, t, i).x = x}
  IN  IF before = {} \/ Ev(P, t, Max(before)).k \notin Reads THEN 0 ELSE Max(before)

\* Thread t is about to store to x what it computed from a value of x that
\* another thread has replaced since: the triples <<t, the other thread, x>>.
LosingUpdate ==
  {<<t, st.views[t][Ev(P, t, j).x][1], Ev(P, t, j).x>> : <<t, j>> \in
     {r \in UNION {{u} \X Events(P, u) : u \in Threads(P)} :
        /\ Ev(P, r[1], r[2]).k = "Rmw"
        /\ CanExec(P, st, weak, r[1], r[2])
        /\ LET x == Ev(P, r[1], r[2]).x
               i == OpenRead(r[1], r[2], x)
           IN  i # 0 /\ st.obs[<<r[1], i>>] # st.views[r[1]][x]}}

\* A schedule respects program order and locks, and shows a read of x by one
\* thread, then a write of it by the other, then the first one's dependent write.
Realises(w, traces) ==
  LET n == Len(w.schedule)
      t == w.schedule[n][1]
      of(u) == SelectSeq(w.schedule, LAMBDA z : z[1] = u)
      at(k, u, kinds) == w.schedule[k][1] = u /\ w.schedule[k][2].k \in kinds /\ w.schedule[k][2].x = w.location
      holds(k, u, l) == \E a \in 1..(k - 1) :
                          /\ w.schedule[a] = <<u, [k |-> "Acquire", x |-> l]>>
                          /\ \A b \in (a + 1)..(k - 1) : w.schedule[b] # <<u, [k |-> "Release", x |-> l]>>
  IN  /\ \A u \in 1..2 : \A k \in DOMAIN of(u) : of(u)[k][2] = traces[u][k]
      /\ \A k \in 1..n : w.schedule[k][2].k = "Acquire" => ~holds(k, 3 - w.schedule[k][1], w.schedule[k][2].x)
      /\ at(n, t, {"Rmw"})
      /\ \E a \in 1..n, b \in 1..n : a < b /\ at(a, t, Reads) /\ at(b, 3 - t, Writes)

\* The searches of a pair of threads, one for each order of the two.
SearchesOf(t, o) == {LostResults[prog][q] : q \in {<<t, o>>, <<o, t>>} \cap DOMAIN LostResults[prog]}

\* The update of x is the one the search of one of the orders reports.
ReportedAt(rs, x) == \E r \in rs : r.witness.location = x

\* A search stops at its first witness (atomicity.rs:122-134), so a location is
\* passed over when the search of either order stops at another one.
PassedOver(rs, x) == \A r \in rs : r.witness.location \notin {"", x}

\* A lost update of x that some interleaving of two threads performs is reported
\* for x by a search of that pair, or every search of the pair stopped at a lost
\* update of another location, or its budget ran out; a reported schedule is a
\* real one.  The second case is less than the "one per location" of
\* atomicity.rs:3-5: a pair of threads that loses two locations may get one report.
LostUpdatesExact ==
  phase = "run" /\ ~weak =>
    /\ \A q \in LosingUpdate :
         LET rs == SearchesOf(q[1], q[2])
         IN  /\ rs # {}
             /\ \/ ReportedAt(rs, q[3]) \/ PassedOver(rs, q[3])
                \/ \E r \in rs : r.left = 0
    /\ st = InitState(P) =>
         \A q \in DOMAIN LostResults[prog] :
           LET w == LostResults[prog][q].witness
           IN  w # NoWitness => Realises(w, <<P[q[1]].events, P[q[2]].events>>)

\* The lock thread t waits for and does not get, none for a thread that can go on.
WaitsFor(t) ==
  {Ev(P, t, i).x : i \in {j \in Events(P, t) :
     /\ Ev(P, t, j).k = "Acquire" /\ st.spawned[t] /\ takeable(P, st, weak, t, j)
     /\ \E o \in Threads(P) \ {t} : Ev(P, t, j).x \in st.held[o]}}

Deadlocked(D) ==
  D # {} /\ \A t \in D : WaitsFor(t) # {} /\ \A l \in WaitsFor(t) : \E o \in D \ {t} : l \in st.held[o]

\* Threads that wait for each other's locks in a circle, however many, are
\* reported as one lock-order cycle that names their locks and functions.
DeadlocksReported ==
  phase = "run" =>
    \A D \in SUBSET Threads(P) :
      (Deadlocked(D) /\ \A E \in SUBSET D : Deadlocked(E) => E = D)
        => \E c \in Cycles[prog] : /\ UNION {WaitsFor(t) : t \in D} \subseteq c.classes
                                   /\ {P[t].name : t \in D} \subseteq c.functions

\* Thread t writes a and reads b later only with a write barrier in between.
WriteFenced(t, a, b) ==
  \A i, j \in Events(P, t) :
    (/\ i < j /\ Ev(P, t, i).k \in Writes /\ Ev(P, t, i).x = a
     /\ Ev(P, t, j).k \in Reads /\ Ev(P, t, j).x = b)
      => \E m \in i..j : Ev(P, t, m).k = "WFence"

FencedReport(w) ==
  /\ WriteFenced(w.threads[1], w.locations[1], w.locations[2])
  /\ WriteFenced(w.threads[2], w.locations[2], w.locations[1])

\* A reported store-buffer pair is one the weak model shows (some execution has an
\* outcome that no sequentially consistent one has), except a pair in which both
\* threads have a write barrier between their write and their read.  That one is
\* reported (atomicity.rs:78 passes over WFence, as interleave.rs:54-57 says such a
\* barrier does not fix it) although the model, where a WFence waits until every
\* buffer is empty (weakmem.rs:281-287), has no such execution: the two detectors
\* disagree on what smp_wmb orders.
StoreBufferReal ==
  (phase = "done" /\ ~cut.weak) =>
    LET reports == store_buffer_violations(P)
    IN  reports # {} => (out.weak \ ScObs[prog] # {} <=> \E w \in reports : ~FencedReport(w))

\* A call that uses or frees an object another entry freed earlier, after any
\* sequence of calls, is reported; and calling the two reported entries one after
\* the other is enough to see it.
CrossEntryExact ==
  phase = "entries" =>
    /\ \A e \in sys.errs : e.by # e.entry =>
         IF e.kind = "state" THEN e.root \in find_cross_entry_typestate(P)
         ELSE \E w \in UafReports[prog] : w.location = e.root /\ w.double = (e.kind = "double")
    /\ sys.calls = <<>> =>
         \A w \in UafReports[prog] :
           \E s \in UNION {CallOutcomes(P, t, w.entries[2]) : t \in CallOutcomes(P, sys, w.entries[1])} :
             \E e \in s.errs : /\ e.root = w.location /\ e.kind = (IF w.double THEN "double" ELSE "use")
                               /\ e.by = w.entries[1] /\ e.entry = w.entries[2]

\* The operational model agrees with one memory under sequential consistency, and
\* the weak one is brought back to it by locks, spawns, joins and full barriers,
\* and in the groups the search is spared.
MemoryModelRight == ScMatchesReference /\ RaceFreeIsSC /\ FencedIsSC /\ NoWindowIsSC

\* The detectors that read the traces without running them: no pair of events that
\* can meet, no race and no deadlock goes unreported, and a reported store-buffer
\* pair is real.
StaticDetectorsRight == PairsReported /\ RacesReported /\ DeadlocksReported /\ StoreBufferReal

=============================================================================
