------------------------------ MODULE WeakMem ------------------------------
(***************************************************************************)
(* Thread traces of the concurrency detectors (verifier/src/interleave.rs) *)
(* and the detectors that read them without running them: the lockset      *)
(* searches for use after free, ABA and refcount races, and the Eraser     *)
(* data-race pass.  Locations, locks and functions are names; a report is  *)
(* the set of locations it names, its order and its wording are left out.  *)
(*                                                                         *)
(* Then the operational memory model of interleave/weakmem.rs:             *)
(* one OpState per state, one action per kind of event, buffer flush or    *)
(* propagation.  `weak` chooses between sequential consistency (a write    *)
(* reaches every view at once) and the weak model (per-location store      *)
(* buffers, writes that reach the other threads one at a time, plain reads *)
(* that overtake earlier reads).                                           *)
(*                                                                         *)
(* A write's tag is the pair <<thread, event>> that stores it; <<0, 0>> is *)
(* the initial value.  A read's id is its pair as well.  The effects are   *)
(* operators on an OpState, since the search explores many of them.        *)
(***************************************************************************)
EXTENDS Naturals, Sequences, FiniteSets

CONSTANT Programs      \* a sequence of programs: each a sequence of threads

\* One event of a trace: its kind and the class it names ("" where it names none).
\* A Typestate event carries its kind, class, protocol and state in one payload:
\* here the kind tells a set from a require-not and x names the other three.
Event ==
  [k : {"Acquire", "Release", "Read", "DepRead", "Write", "Rmw", "Fence", "WFence",
        "RFence", "Spawn", "Join", "Free", "Cas", "RefGet", "RefPut",
        "SetState", "RequireNot"},
   x : STRING]

Thread == [name : STRING, events : Seq(Event)]

ASSUME ProgramsAssumption == Programs \in Seq(Seq(Thread))

Threads(p) == DOMAIN p
Events(p, t) == DOMAIN p[t].events
Ev(p, t, i) == p[t].events[i]

Writes == {"Write", "Rmw"}
Reads == {"Read", "DepRead"}
Accesses == Writes \cup Reads

\* Thread::written, Thread::touched
written(th) == {th.events[i].x : i \in {j \in DOMAIN th.events : th.events[j].k \in Writes}}
touched(th) == {th.events[i].x : i \in {j \in DOMAIN th.events : th.events[j].k \in Accesses}}

\* Every class some thread of p accesses.
Locations(p) == UNION {touched(p[t]) : t \in Threads(p)}

spawned_names(p) ==
  {Ev(p, s[1], s[2]).x :
     s \in {r \in UNION {{t} \X Events(p, t) : t \in Threads(p)} : Ev(p, r[1], r[2]).k = "Spawn"}}

-----------------------------------------------------------------------------
(* LifetimeTracker: what step has recorded when event i is reached.          *)

\* The locks held: the last lock event on them was an Acquire.
heldAt(th, i) ==
  {th.events[j].x : j \in {a \in 1..(i - 1) :
     /\ th.events[a].k = "Acquire"
     /\ \A b \in (a + 1)..(i - 1) :
          ~(th.events[b].k = "Release" /\ th.events[b].x = th.events[a].x)}}

\* The functions joined: a Join takes over every child spawned before it.
joinedAt(th, i) ==
  {th.events[j].x : j \in {a \in 1..(i - 1) :
     /\ th.events[a].k = "Spawn"
     /\ \E b \in (a + 1)..(i - 1) : th.events[b].k = "Join"}}

snap(th, i) == [x |-> th.events[i].x, held |-> heldAt(th, i), joined |-> joinedAt(th, i)]

\* free_and_access_locksets, cas_and_mod_locksets, get_and_put_locksets: the
\* records of the events of some kinds.
Locksets(th, kinds) == {snap(th, i) : i \in {j \in DOMAIN th.events : th.events[j].k \in kinds}}

lifetime_ordered(a, an, b, bn) == bn \in a.joined \/ an \in b.joined

\* The locations on which a record of the one thread meets one of the other.
Concurrent(as, an, bs, bn) ==
  {a.x : a \in {c \in as : \E b \in bs :
     c.x = b.x /\ c.held \cap b.held = {} /\ ~lifetime_ordered(c, an, b, bn)}}

\* The name of the second instance of a spawned function (`f#2`).
Copy == "#2"

\* The search all three detectors share: every ordered pair of threads, then a
\* spawned function against a second instance of itself.
FindPairs(p, kinds1, kinds2) ==
  LET first(t) == Locksets(p[t], kinds1)
      second(t) == Locksets(p[t], kinds2)
  IN  UNION {Concurrent(first(q[1]), p[q[1]].name, second(q[2]), p[q[2]].name) :
               q \in {r \in Threads(p) \X Threads(p) : r[1] # r[2]}}
      \cup
      UNION {Concurrent(first(i), p[i].name, second(i), Copy) :
               i \in {t \in Threads(p) : p[t].name \in spawned_names(p)}}

\* find_cross_thread_uaf reports a location once as a use after free and once as
\* a double free; scanning i < j only is the same, the condition being symmetric.
find_cross_thread_uaf(p) ==
  (FindPairs(p, {"Free"}, Accesses) \X {FALSE}) \cup (FindPairs(p, {"Free"}, {"Free"}) \X {TRUE})

find_aba(p) == FindPairs(p, {"Cas"}, Writes \cup {"Free"})

find_refcount_races(p) == FindPairs(p, {"RefGet"}, {"RefPut"})

-----------------------------------------------------------------------------
(* The data-race pass.  The executor hands it one record per access to a     *)
(* shared location, with the lockset held there.                             *)

IRQOFF == "@irqoff"

TaggedAccesses(p) ==
  {[function |-> p[s[1]].name, location |-> Ev(p, s[1], s[2]).x,
    write |-> Ev(p, s[1], s[2]).k \in Writes, lockset |-> heldAt(p[s[1]], s[2])] :
     s \in {r \in UNION {{t} \X Events(p, t) : t \in Threads(p)} : Ev(p, r[1], r[2]).k \in Accesses}}

\* detect_races: the locations reported.  `oracle` says whether the set of
\* functions that may run concurrently is known.
detect_races(accesses, concurrent, oracle) ==
  LET live == {a \in accesses : oracle => a.function \in concurrent}
      at(x) == {a \in live : a.location = x}
      union(x) == UNION {a.lockset : a \in at(x)}
      candidate(x) == {l \in union(x) : \A a \in at(x) : l \in a.lockset}
      eraser(x) == candidate(x) = {} /\ union(x) # {}
      irq_unsafe(x) == IRQOFF \in union(x) /\ IRQOFF \notin candidate(x)
      min_fns == IF oracle THEN 1 ELSE 2
  IN  {x \in {a.location : a \in live} :
         /\ eraser(x) \/ irq_unsafe(x)
         /\ \E a \in at(x) : a.write
         /\ Cardinality({a.function : a \in at(x)}) >= min_fns}

-----------------------------------------------------------------------------
(* The operational memory model. *)

VARIABLES
  prog,      \* which program of Programs runs
  weak,      \* the memory model
  st         \* the OpState

vars == <<prog, weak, st>>

InitTag == <<0, 0>>

-----------------------------------------------------------------------------
(* OpProgram::new *)

\* index_of: the first thread of that name, 0 if there is none.
index_of(p, name) ==
  IF \E t \in Threads(p) : p[t].name = name
  THEN CHOOSE t \in Threads(p) : p[t].name = name /\ \A u \in 1..(t - 1) : p[u].name # name
  ELSE 0

\* spawn_target[t][i]: the child event i of thread t starts, 0 for none.
spawn_target(p, t, i) ==
  LET c == index_of(p, Ev(p, t, i).x)
  IN  IF Ev(p, t, i).k = "Spawn" /\ c # t THEN c ELSE 0

\* parent_of: later threads overwrite earlier ones.
parent_of(p, c) ==
  LET spawners == {t \in Threads(p) : \E i \in Events(p, t) : spawn_target(p, t, i) = c}
  IN  IF spawners = {} THEN 0 ELSE CHOOSE t \in spawners : \A u \in spawners : u <= t

\* The first OpState of op_reachable.
InitState(p) ==
  [consumed |-> [t \in Threads(p) |-> {}],
   bufs     |-> [t \in Threads(p) |-> [x \in Locations(p) |-> <<>>]],
   views    |-> [t \in Threads(p) |-> [x \in Locations(p) |-> InitTag]],
   pending  |-> <<>>,
   held     |-> [t \in Threads(p) |-> {}],
   spawned  |-> [t \in Threads(p) |-> parent_of(p, t) = 0],
   obs      |-> <<>>]

-----------------------------------------------------------------------------
(* Guards *)

\* takeable
takeable(p, s, w, t, i) ==
  /\ i \notin s.consumed[t]
  /\ \A j \in 1..(i - 1) :
       \/ j \in s.consumed[t]
       \/ w /\ Ev(p, t, i).k = "Read" /\ Ev(p, t, j).k \in Reads

bufs_empty(s, t) == \A x \in DOMAIN s.bufs[t] : s.bufs[t][x] = <<>>

no_pending_from(s, t) == \A n \in DOMAIN s.pending : s.pending[n].writer # t

\* Wrong variant: a full barrier does not wait for the writes of others.
Mutno_pending_to(s, t) == TRUE

no_pending_to(s, t) == \A n \in DOMAIN s.pending : t \in s.pending[n].delivered

\* Everything t wrote has reached every view.
Drained(s, t) == bufs_empty(s, t) /\ no_pending_from(s, t)

\* What each kind of event waits for.
Ready(p, s, t, i) ==
  LET e == Ev(p, t, i)
  IN  /\ e.k \in {"Fence", "WFence", "Spawn", "Join", "Acquire", "Release"} => Drained(s, t)
      /\ e.k = "Fence" => no_pending_to(s, t)
      /\ e.k = "Join" =>
           \A c \in Threads(p) : parent_of(p, c) = t => s.consumed[c] = Events(p, c) /\ Drained(s, c)
      /\ e.k = "Acquire" => \A o \in Threads(p) \ {t} : e.x \notin s.held[o]

\* Thread t may execute event i now.
CanExec(p, s, w, t, i) == s.spawned[t] /\ takeable(p, s, w, t, i) /\ Ready(p, s, t, i)

CanFlush(s, w, t, x) == w /\ s.bufs[t][x] # <<>>

\* Write n may reach thread u: earlier writes of the same writer to the same
\* location have.
CanDeliver(s, w, n, u) ==
  /\ w
  /\ u \notin s.pending[n].delivered
  /\ \A m \in 1..(n - 1) :
       (s.pending[m].writer = s.pending[n].writer /\ s.pending[m].loc = s.pending[n].loc)
         => u \in s.pending[m].delivered

-----------------------------------------------------------------------------
(* Effects *)

\* op_read: store-to-load forwarding, then the thread's own view.
op_read(s, t, x) ==
  IF s.bufs[t][x] # <<>> THEN s.bufs[t][x][Len(s.bufs[t][x])] ELSE s.views[t][x]

Flushed(s, t, x) ==
  [s EXCEPT !.bufs[t][x] = Tail(@),
            !.views[t][x] = Head(s.bufs[t][x]),
            !.pending = Append(@, [writer |-> t, loc |-> x, tag |-> Head(s.bufs[t][x]),
                                   delivered |-> {t}])]

\* The sequence without its n-th element.
Without(q, n) == SubSeq(q, 1, n - 1) \o SubSeq(q, n + 1, Len(q))

Delivered(p, s, n, u) ==
  LET reached == s.pending[n].delivered \cup {u}
  IN  [s EXCEPT !.views[u][s.pending[n].loc] = s.pending[n].tag,
                !.pending = IF reached = Threads(p) THEN Without(@, n)
                            ELSE [@ EXCEPT ![n].delivered = reached]]

Consumed(s, t, i) == [s EXCEPT !.consumed[t] = @ \cup {i}]

Written(p, s, w, t, i) ==
  LET x == Ev(p, t, i).x
  IN  IF w THEN [Consumed(s, t, i) EXCEPT !.bufs[t][x] = Append(@, <<t, i>>)]
      ELSE [Consumed(s, t, i) EXCEPT !.views = [u \in Threads(p) |-> [@[u] EXCEPT ![x] = <<t, i>>]]]

Observed(p, s, t, i) ==
  [Consumed(s, t, i) EXCEPT
     !.obs = [r \in DOMAIN s.obs \cup {<<t, i>>} |->
                IF r = <<t, i>> THEN op_read(s, t, Ev(p, t, i).x) ELSE s.obs[r]]]

Spawned(p, s, t, i) ==
  IF spawn_target(p, t, i) = 0 THEN Consumed(s, t, i)
  ELSE [Consumed(s, t, i) EXCEPT !.spawned[spawn_target(p, t, i)] = TRUE]

\* The state after thread t executes event i.
Executed(p, s, w, t, i) ==
  LET e == Ev(p, t, i)
  IN  CASE e.k \in Writes      -> Written(p, s, w, t, i)
        [] e.k \in Reads       -> Observed(p, s, t, i)
        [] e.k = "Spawn"       -> Spawned(p, s, t, i)
        [] e.k = "Acquire"     -> [Consumed(s, t, i) EXCEPT !.held[t] = @ \cup {e.x}]
        [] e.k = "Release"     -> [Consumed(s, t, i) EXCEPT !.held[t] = @ \ {e.x}]
        [] OTHER               -> Consumed(s, t, i)

\* The `done` test of op_reachable.
Terminal(p, s) ==
  /\ \A t \in Threads(p) : s.consumed[t] = Events(p, t) /\ bufs_empty(s, t)
  /\ s.pending = <<>>

-----------------------------------------------------------------------------
(* One execution *)

P == Programs[prog]

Init ==
  /\ prog \in DOMAIN Programs
  /\ weak \in BOOLEAN
  /\ st = InitState(Programs[prog])

\* A buffered write leaves its buffer and starts to propagate.
Flush ==
  /\ \E t \in Threads(P), x \in Locations(P) : CanFlush(st, weak, t, x) /\ st' = Flushed(st, t, x)
  /\ UNCHANGED <<prog, weak>>

\* A propagating write reaches one more thread.
Deliver ==
  /\ \E n \in DOMAIN st.pending, u \in Threads(P) :
       CanDeliver(st, weak, n, u) /\ st' = Delivered(P, st, n, u)
  /\ UNCHANGED <<prog, weak>>

\* A thread executes an event of one of these kinds.
Exec(kinds) ==
  /\ \E t \in Threads(P) : \E i \in Events(P, t) :
       /\ Ev(P, t, i).k \in kinds
       /\ CanExec(P, st, weak, t, i)
       /\ st' = Executed(P, st, weak, t, i)
  /\ UNCHANGED <<prog, weak>>

Write == Exec(Writes)
Read == Exec(Reads)
Barrier == Exec({"Fence", "WFence", "RFence"})
Fork == Exec({"Spawn"})
JoinChildren == Exec({"Join"})
Acquire == Exec({"Acquire"})
Release == Exec({"Release"})
Marker == Exec({"Free", "Cas", "RefGet", "RefPut", "SetState", "RequireNot"})

Next ==
  \/ Flush \/ Deliver
  \/ Write \/ Read \/ Barrier \/ Fork \/ JoinChildren \/ Acquire \/ Release \/ Marker

Spec == Init /\ [][Next]_vars

=============================================================================
