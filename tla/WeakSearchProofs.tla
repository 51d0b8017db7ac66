-------------------------- MODULE WeakSearchProofs --------------------------
(***************************************************************************)
(* The concurrency detectors, for every sequence of programs.  With weak   *)
(* = FALSE the operational model observes what interleavings over one      *)
(* memory observe, and a search of op_reachable that was not cut short     *)
(* finds all of it and nothing else; the detectors that compare locksets   *)
(* miss no pair of events that two threads can both go ahead with.         *)
(***************************************************************************)
EXTENDS WeakSearch, SequenceFacts

-----------------------------------------------------------------------------
(* Programs. *)

LEMMA ProgramTyped ==
    ASSUME NEW n \in DOMAIN Programs
    PROVE  Programs[n] \in Seq(Thread)
  BY ProgramsAssumption

LEMMA ThreadShape ==
    ASSUME NEW p \in Seq(Thread)
    PROVE  /\ Len(p) \in Nat /\ Threads(p) = 1 .. Len(p)
           /\ \A t \in Threads(p) :
                /\ t \in Nat \ {0} /\ p[t] \in Thread
                /\ p[t].events \in Seq(Event) /\ Len(p[t].events) \in Nat
                /\ Events(p, t) = 1 .. Len(p[t].events)
                /\ \A i \in Events(p, t) : Ev(p, t, i) \in Event
  <1>1. Len(p) \in Nat /\ Threads(p) = 1 .. Len(p) BY DEF Threads
  <1>2. ASSUME NEW t \in Threads(p)
        PROVE  /\ t \in Nat \ {0} /\ p[t] \in Thread
               /\ p[t].events \in Seq(Event) /\ Len(p[t].events) \in Nat
               /\ Events(p, t) = 1 .. Len(p[t].events)
               /\ \A i \in Events(p, t) : Ev(p, t, i) \in Event
    <2>1. t \in Nat \ {0} /\ p[t] \in Thread BY <1>1
    <2>2. PICK q \in Seq(Event) : q = p[t].events BY <2>1 DEF Thread
    <2>3. Len(q) \in Nat /\ DOMAIN q = 1 .. Len(q) /\ \A i \in DOMAIN q : q[i] \in Event OBVIOUS
    <2> QED BY <2>1, <2>2, <2>3 DEF Events, Ev
  <1> QED BY <1>1, <1>2

LEMMA AllEventsFinite ==
    ASSUME NEW p \in Seq(Thread)
    PROVE  IsFiniteSet(AllEvents(p)) /\ Cardinality(AllEvents(p)) \in Nat
  <1> DEFINE F == {{t} \X Events(p, t) : t \in Threads(p)}
  <1>1. IsFiniteSet(Threads(p)) BY ThreadShape, FS_Interval
  <1>2. IsFiniteSet(F)
    <2> DEFINE f == [t \in Threads(p) |-> {t} \X Events(p, t)]
    <2>1. f \in Surjection(Threads(p), F) BY DEF Surjection
    <2> HIDE DEF f, F
    <2> QED BY <1>1, <2>1, FS_Surjection
  <1>3. ASSUME NEW t \in Threads(p) PROVE IsFiniteSet({t} \X Events(p, t))
    <2>1. IsFiniteSet({t}) BY FS_Singleton
    <2>2. PICK n \in Nat : Events(p, t) = 1 .. n BY ThreadShape
    <2>3. IsFiniteSet(Events(p, t)) BY <2>2, FS_Interval
    <2> QED BY <2>1, <2>3, FS_Product
  <1>4. \A S \in F : IsFiniteSet(S) BY <1>3
  <1>5. IsFiniteSet(UNION F)
    <2> HIDE DEF F
    <2> QED BY <1>2, <1>4, FS_UNION
  <1>6. IsFiniteSet(AllEvents(p)) BY <1>5 DEF AllEvents
  <1> QED BY <1>6, FS_CardinalityType

(* A location is named by an access. *)
LEMMA AccessLocation ==
    ASSUME NEW p \in Seq(Thread), NEW t \in Threads(p), NEW i \in Events(p, t),
           Ev(p, t, i).k \in Accesses
    PROVE  Ev(p, t, i).x \in Locations(p)
  BY DEF Locations, touched, Events, Ev

LEMMA IndexTyped ==
    ASSUME NEW p \in Seq(Thread), NEW x
    PROVE  index_of(p, x) \in Nat
  <1>1. \A t \in Threads(p) : t \in Nat BY ThreadShape
  <1> DEFINE S == {t \in Threads(p) : p[t].name = x}
  <1>2. CASE S # {}
    <2>1. S \in SUBSET Nat BY <1>1
    <2>2. PICK k \in S : \A j \in S : k <= j
      <3> HIDE DEF S
      <3> QED BY <1>2, <2>1, LeastOf
    <2>3. \A u \in 1 .. (k - 1) : p[u].name # x
      <3>1. Threads(p) = 1 .. Len(p) /\ Len(p) \in Nat BY ThreadShape
      <3>2. \A u \in 1 .. (k - 1) : u \in Threads(p) /\ ~(k <= u) BY <3>1
      <3> QED BY <2>2, <3>2
    <2>4. \E t \in Threads(p) : p[t].name = x /\ \A u \in 1 .. (t - 1) : p[u].name # x BY <2>2, <2>3
    <2>5. index_of(p, x) \in Threads(p) BY <2>4 DEF index_of
    <2> QED BY <1>1, <2>5
  <1>3. CASE S = {}
    BY <1>3 DEF index_of
  <1> QED BY <1>2, <1>3

-----------------------------------------------------------------------------
(* The reference: sequentially consistent states. *)

Tag == Nat \X Nat
Observations == UNION {[D -> Tag] : D \in SUBSET Tag}

ScState(p) ==
  [ip : [Threads(p) -> Nat], mem : [Locations(p) -> Tag], held : [Threads(p) -> SUBSET STRING],
   started : SUBSET Nat, obs : Observations]

ScTyped(p, r) == r \in ScState(p) /\ \A t \in Threads(p) : r.ip[t] <= Len(p[t].events)

LEMMA ScInitTyped ==
    ASSUME NEW p \in Seq(Thread)
    PROVE  ScTyped(p, ScInit(p))
  <1>1. \A t \in Threads(p) : t \in Nat /\ Len(p[t].events) \in Nat BY ThreadShape
  <1>2. <<>> \in Observations
    <2>1. <<>> \in [{} -> Tag] OBVIOUS
    <2> QED BY <2>1 DEF Observations
  <1>3. InitTag \in Tag BY DEF InitTag, Tag
  <1>4. ScInit(p) \in ScState(p) BY <1>1, <1>2, <1>3 DEF ScInit, ScState
  <1>5. \A t \in Threads(p) : ScInit(p).ip[t] = 0 BY DEF ScInit
  <1> QED BY <1>1, <1>4, <1>5 DEF ScTyped

(* The event a step executes, and its effect by kind. *)
At(r, t) == r.ip[t] + 1
NextEv(p, r, t) == Ev(p, t, At(r, t))
Moved(r, t) == [r EXCEPT !.ip[t] = At(r, t)]
Saw(p, r, t) ==
  [q \in DOMAIN r.obs \cup {<<t, At(r, t)>>} |->
     IF q = <<t, At(r, t)>> THEN r.mem[NextEv(p, r, t).x] ELSE r.obs[q]]

Effects(p, r, t, s) ==
  LET e == NextEv(p, r, t)
      m == Moved(r, t)
  IN  /\ e.k \in Writes => s = [m EXCEPT !.mem[e.x] = <<t, At(r, t)>>]
      /\ e.k \in Reads => s = [m EXCEPT !.obs = Saw(p, r, t)]
      /\ e.k = "Acquire" => s = [m EXCEPT !.held[t] = @ \cup {e.x}]
      /\ e.k = "Release" => s = [m EXCEPT !.held[t] = @ \ {e.x}]
      /\ e.k = "Spawn" => s = [m EXCEPT !.started = @ \cup {index_of(p, e.x)}]
      /\ e.k \notin Accesses \cup {"Acquire", "Release", "Spawn"} => s = m

LEMMA ScStepIs ==
    ASSUME NEW p \in Seq(Thread), NEW r, ScTyped(p, r), NEW t \in Threads(p), ScEnabled(p, r, t)
    PROVE  /\ At(r, t) \in Events(p, t) /\ At(r, t) \in Nat /\ NextEv(p, r, t) \in Event
           /\ Effects(p, r, t, ScStep(p, r, t))
  <1>1. r.ip[t] \in Nat /\ r.ip[t] < Len(p[t].events) BY DEF ScTyped, ScState, ScEnabled
  <1>2. At(r, t) \in Events(p, t) /\ At(r, t) \in Nat BY <1>1, ThreadShape DEF At
  <1>3. NextEv(p, r, t) \in Event BY <1>2, ThreadShape DEF NextEv
  <1> DEFINE e == NextEv(p, r, t)
             m == Moved(r, t)
             s == ScStep(p, r, t)
  <1> USE DEF ScStep, Writes, Reads, NextEv, Moved, At
  <1>4. e.k \in Writes => s = [m EXCEPT !.mem[e.x] = <<t, At(r, t)>>] OBVIOUS
  <1>5. e.k \in Reads => s = [m EXCEPT !.obs = Saw(p, r, t)] BY DEF Saw
  <1>6. e.k = "Acquire" => s = [m EXCEPT !.held[t] = @ \cup {e.x}] OBVIOUS
  <1>7. e.k = "Release" => s = [m EXCEPT !.held[t] = @ \ {e.x}] OBVIOUS
  <1>8. e.k = "Spawn" => s = [m EXCEPT !.started = @ \cup {index_of(p, e.x)}] OBVIOUS
  <1>9. e.k \notin Accesses \cup {"Acquire", "Release", "Spawn"} => s = m BY DEF Accesses
  <1> HIDE DEF ScStep, Writes, Reads, NextEv, Moved, At
  <1>10. Effects(p, r, t, s) BY <1>4, <1>5, <1>6, <1>7, <1>8, <1>9 DEF Effects
  <1> QED BY <1>2, <1>3, <1>10

LEMMA ScStepTyped ==
    ASSUME NEW p \in Seq(Thread), NEW r, ScTyped(p, r), NEW t \in Threads(p), ScEnabled(p, r, t)
    PROVE  /\ ScTyped(p, ScStep(p, r, t))
           /\ ScStep(p, r, t).ip = [r.ip EXCEPT ![t] = At(r, t)]
  <1> DEFINE i == At(r, t)
             e == NextEv(p, r, t)
             m == Moved(r, t)
             s == ScStep(p, r, t)
             new == [r.ip EXCEPT ![t] = i]
             o == Saw(p, r, t)
  <1>1. r \in ScState(p) BY DEF ScTyped
  <1>2. /\ i \in Events(p, t) /\ i \in Nat /\ e \in Event
        /\ Effects(p, r, t, s)
    BY ScStepIs
  <1>3. t \in Nat /\ <<t, i>> \in Tag BY <1>2, ThreadShape DEF Tag
  <1>4. e.x \in STRING /\ index_of(p, e.x) \in Nat BY <1>2, IndexTyped DEF Event
  <1>5. e.k \in Accesses => e.x \in Locations(p) BY <1>2, AccessLocation DEF NextEv
  <1>6. m \in ScState(p) /\ m.ip = new /\ m.mem = r.mem /\ m.held = r.held /\ m.started = r.started
        /\ m.obs = r.obs
    BY <1>1, <1>2 DEF ScState, Moved
  <1>7. s \in ScState(p) /\ s.ip = new
    <2> HIDE DEF s, new
    <2>1. CASE e.k \in Writes
      <3>1. s = [m EXCEPT !.mem[e.x] = <<t, i>>] BY <1>2, <2>1, Zenon DEF Effects
      <3>2. PICK w : w = [m.mem EXCEPT ![e.x] = <<t, i>>] OBVIOUS
      <3>3. m.mem \in [Locations(p) -> Tag] BY <1>6 DEF ScState
      <3>4. w \in [Locations(p) -> Tag] BY <1>3, <3>2, <3>3
      <3> HIDE DEF m, e
      <3>5. s = [m EXCEPT !.mem = w] BY <3>1, <3>2
      <3> QED BY <1>6, <3>4, <3>5 DEF ScState
    <2>2. CASE e.k \in Reads
      <3>1. o \in Observations
        <4>1. PICK D \in SUBSET Tag : r.obs \in [D -> Tag] BY <1>1 DEF ScState, Observations
        <4>2. r.mem[e.x] \in Tag BY <1>1, <1>5, <2>2 DEF ScState, Accesses
        <4>3. o \in [D \cup {<<t, i>>} -> Tag] BY <4>1, <4>2 DEF Saw
        <4>4. D \cup {<<t, i>>} \in SUBSET Tag BY <1>3, <4>1
        <4> QED BY <4>3, <4>4 DEF Observations
      <3> QED BY <1>2, <1>6, <2>2, <3>1 DEF ScState, Effects
    <2>3. CASE e.k = "Acquire"
      <3>1. PICK h : h = [m.held EXCEPT ![t] = @ \cup {e.x}] OBVIOUS
      <3>2. s = [m EXCEPT !.held = h] BY <1>2, <2>3, <3>1 DEF Effects
      <3>3. h \in [Threads(p) -> SUBSET STRING] BY <1>4, <1>6, <3>1 DEF ScState
      <3> QED BY <1>6, <3>2, <3>3 DEF ScState
    <2>4. CASE e.k = "Release"
      <3>1. PICK h : h = [m.held EXCEPT ![t] = @ \ {e.x}] OBVIOUS
      <3>2. s = [m EXCEPT !.held = h] BY <1>2, <2>4, <3>1 DEF Effects
      <3>3. h \in [Threads(p) -> SUBSET STRING] BY <1>6, <3>1 DEF ScState
      <3> QED BY <1>6, <3>2, <3>3 DEF ScState
    <2>5. CASE e.k = "Spawn"
      BY <1>2, <1>4, <1>6, <2>5, SMTT(30) DEF ScState, Effects
    <2>6. CASE e.k \notin Accesses \cup {"Acquire", "Release", "Spawn"}
      BY <1>2, <1>6, <2>6 DEF Effects
    <2> QED BY <2>1, <2>2, <2>3, <2>4, <2>5, <2>6 DEF Accesses
  <1>8. \A u \in Threads(p) : s.ip[u] <= Len(p[u].events)
    <2>1. i <= Len(p[t].events) BY <1>2, ThreadShape
    <2>2. \A u \in Threads(p) : r.ip[u] <= Len(p[u].events) BY DEF ScTyped
    <2>3. \A u \in Threads(p) : new[u] = IF u = t THEN i ELSE r.ip[u] BY <1>1 DEF ScState
    <2> HIDE DEF s, new
    <2> QED BY <1>7, <2>1, <2>2, <2>3
  <1> QED BY <1>7, <1>8 DEF ScTyped

(* The events executed so far: every step adds one. *)
Done(p, r) == UNION {{t} \X (1 .. r.ip[t]) : t \in Threads(p)}

LEMMA DoneTyped ==
    ASSUME NEW p \in Seq(Thread), NEW r, ScTyped(p, r)
    PROVE  /\ Done(p, r) \subseteq AllEvents(p) /\ IsFiniteSet(Done(p, r))
           /\ Cardinality(Done(p, r)) \in 0 .. Cardinality(AllEvents(p))
  <1>1. ASSUME NEW t \in Threads(p) PROVE 1 .. r.ip[t] \subseteq Events(p, t)
    <2>1. r.ip[t] \in Nat /\ r.ip[t] <= Len(p[t].events) BY DEF ScTyped, ScState
    <2> QED BY <2>1, ThreadShape
  <1>2. Done(p, r) \subseteq AllEvents(p) BY <1>1 DEF Done, AllEvents
  <1>3. IsFiniteSet(AllEvents(p)) /\ Cardinality(AllEvents(p)) \in Nat BY AllEventsFinite
  <1>4. IsFiniteSet(Done(p, r)) /\ Cardinality(Done(p, r)) <= Cardinality(AllEvents(p))
    BY <1>2, <1>3, FS_Subset
  <1>5. Cardinality(Done(p, r)) \in Nat BY <1>4, FS_CardinalityType
  <1> QED BY <1>2, <1>3, <1>4, <1>5

LEMMA DoneGrows ==
    ASSUME NEW p \in Seq(Thread), NEW r, ScTyped(p, r), NEW t \in Threads(p), ScEnabled(p, r, t)
    PROVE  /\ Cardinality(Done(p, ScStep(p, r, t))) = Cardinality(Done(p, r)) + 1
           /\ Cardinality(Done(p, r)) + 1 \in 0 .. Cardinality(AllEvents(p))
  <1>1. PICK s : s = ScStep(p, r, t) OBVIOUS
  <1>2. ScTyped(p, s) /\ s.ip = [r.ip EXCEPT ![t] = r.ip[t] + 1] BY <1>1, ScStepTyped, SMTT(30) DEF At
  <1>3. r.ip \in [Threads(p) -> Nat] BY DEF ScTyped, ScState
  <1>4. \A u \in Threads(p) : s.ip[u] = IF u = t THEN r.ip[t] + 1 ELSE r.ip[u] BY <1>2, <1>3
  <1>5. \A n \in Nat : 1 .. (n + 1) = (1 .. n) \cup {n + 1} OBVIOUS
  <1>6. Done(p, s) = Done(p, r) \cup {<<t, r.ip[t] + 1>>}
    <2>1. \A u \in Threads(p) : u # t => {u} \X (1 .. s.ip[u]) = {u} \X (1 .. r.ip[u]) BY <1>4
    <2>2. {t} \X (1 .. s.ip[t]) = ({t} \X (1 .. r.ip[t])) \cup {<<t, r.ip[t] + 1>>} BY <1>3, <1>4, <1>5
    <2> QED BY <2>1, <2>2 DEF Done
  <1>7. <<t, r.ip[t] + 1>> \notin Done(p, r)
    <2>1. r.ip[t] + 1 \notin 1 .. r.ip[t] BY <1>3
    <2> QED BY <2>1 DEF Done
  <1>8. IsFiniteSet(Done(p, r)) BY DoneTyped
  <1>9. Cardinality(Done(p, s)) = Cardinality(Done(p, r)) + 1 BY <1>6, <1>7, <1>8, FS_AddElement
  <1>10. Cardinality(Done(p, s)) \in 0 .. Cardinality(AllEvents(p)) BY <1>2, DoneTyped
  <1> QED BY <1>1, <1>9, <1>10

(* The recursion behind ScReach, its solution and its values. *)
ReachRec(p, n, g) ==
  g = [k \in 0 .. n |-> IF k = 0 THEN {ScInit(p)} ELSE g[k - 1] \cup UNION {ScNext(p, s) : s \in g[k - 1]}]

LEMMA ReachExists ==
    ASSUME NEW p
    PROVE  \A n \in Nat : \E g : ReachRec(p, n, g)
  <1> DEFINE More(S) == S \cup UNION {ScNext(p, s) : s \in S}
             Has(n) == \E g : ReachRec(p, n, g)
             Bad == {n \in Nat : ~Has(n)}
  <1> SUFFICES ASSUME Bad # {} PROVE FALSE OBVIOUS
  <1>1. PICK n \in Bad : \A j \in Bad : n <= j
    <2>1. Bad \in SUBSET Nat OBVIOUS
    <2> HIDE DEF Bad
    <2> QED BY <2>1, LeastOf
  <1>2. n \in Nat /\ ~Has(n) BY <1>1
  <1>3. n # 0
    <2> SUFFICES ASSUME n = 0 PROVE FALSE OBVIOUS
    <2> DEFINE g == [k \in 0 .. 0 |-> {ScInit(p)}]
    <2>1. \A k \in 0 .. 0 : k = 0 OBVIOUS
    <2>2. ReachRec(p, 0, g) BY <2>1 DEF ReachRec
    <2> QED BY <1>2, <2>2
  <1>4. n - 1 \in Nat /\ n - 1 \notin Bad
    <2>1. n - 1 \in Nat /\ ~(n <= n - 1) BY <1>2, <1>3
    <2> HIDE DEF Bad
    <2> QED BY <1>1, <2>1
  <1>5. PICK g : ReachRec(p, n - 1, g) BY <1>4
  <1> DEFINE G == [k \in 0 .. n |-> IF k = 0 THEN {ScInit(p)} ELSE More(g[k - 1])]
  <1>6. ASSUME NEW k \in 0 .. n - 1 PROVE G[k] = g[k]
    <2>1. k \in 0 .. n BY <1>2
    <2>2. g[k] = IF k = 0 THEN {ScInit(p)} ELSE More(g[k - 1]) BY <1>5 DEF ReachRec
    <2> QED BY <2>1, <2>2
  <1>7. ReachRec(p, n, G)
    <2>1. ASSUME NEW k \in 0 .. n, k # 0 PROVE g[k - 1] = G[k - 1]
      <3>1. k - 1 \in 0 .. n - 1 BY <1>2, <2>1
      <3> HIDE DEF G
      <3> QED BY <1>6, <3>1
    <2>2. G = [k \in 0 .. n |-> IF k = 0 THEN {ScInit(p)} ELSE More(G[k - 1])] BY <2>1
    <2> HIDE DEF G
    <2> QED BY <2>2 DEF ReachRec
  <1> QED BY <1>2, <1>7

LEMMA ReachIs ==
    ASSUME NEW p, NEW n \in Nat
    PROVE  \E g : ReachRec(p, n, g) /\ ScReach(p, n) = g[n]
  <1> DEFINE reach == CHOOSE g : ReachRec(p, n, g)
  <1>1. ReachRec(p, n, reach) BY ReachExists
  <1>2. ScReach(p, n) = reach[n] BY DEF ScReach, ReachRec
  <1> QED BY <1>1, <1>2

(* A set that holds the initial state and is closed under steps holds every state. *)
LEMMA ScStatesLeast ==
    ASSUME NEW p \in Seq(Thread), NEW S, ScInit(p) \in S,
           \A r \in S : \A t \in Threads(p) : ScEnabled(p, r, t) => ScStep(p, r, t) \in S
    PROVE  ScStates(p) \subseteq S
  <1> DEFINE n == Cardinality(AllEvents(p))
  <1>1. n \in Nat BY AllEventsFinite
  <1>2. PICK g : ReachRec(p, n, g) /\ ScStates(p) = g[n]
    <2> HIDE DEF n
    <2> QED BY <1>1, ReachIs DEF ScStates, n
  <1> HIDE DEF n
  <1> DEFINE Bad == {k \in 0 .. n : ~(g[k] \subseteq S)}
  <1>3. Bad = {}
    <2> SUFFICES ASSUME Bad # {} PROVE FALSE OBVIOUS
    <2>1. PICK k \in Bad : \A j \in Bad : k <= j
      <3>1. Bad \in SUBSET Nat BY <1>1
      <3> HIDE DEF Bad
      <3> QED BY <3>1, LeastOf
    <2>2. k \in 0 .. n /\ ~(g[k] \subseteq S) BY <2>1
    <2>3. g[k] = IF k = 0 THEN {ScInit(p)} ELSE g[k - 1] \cup UNION {ScNext(p, s) : s \in g[k - 1]}
      BY <1>2, <2>2 DEF ReachRec
    <2>4. k # 0 BY <2>2, <2>3
    <2>5. k - 1 \in 0 .. n /\ ~(k <= k - 1) BY <1>1, <2>2, <2>4
    <2>6. k - 1 \notin Bad
      <3> HIDE DEF Bad
      <3> QED BY <2>1, <2>5
    <2>7. g[k - 1] \subseteq S BY <2>5, <2>6
    <2>8. \A s \in g[k - 1] : ScNext(p, s) \subseteq S BY <2>7 DEF ScNext
    <2> QED BY <2>2, <2>3, <2>4, <2>7, <2>8
  <1>4. n \in 0 .. n BY <1>1
  <1> QED BY <1>2, <1>3, <1>4

(* The states are typed, and closed under steps: as many rounds as there are events
   are enough, since a state is found in the round that counts its events. *)
LEMMA ScStatesClosed ==
    ASSUME NEW p \in Seq(Thread)
    PROVE  /\ ScInit(p) \in ScStates(p)
           /\ \A r \in ScStates(p) : ScTyped(p, r)
           /\ \A r \in ScStates(p) : \A t \in Threads(p) :
                ScEnabled(p, r, t) => ScStep(p, r, t) \in ScStates(p)
  <1> DEFINE n == Cardinality(AllEvents(p))
             Level(r) == Cardinality(Done(p, r))
  <1>1. n \in Nat BY AllEventsFinite
  <1>2. PICK g : ReachRec(p, n, g) /\ ScStates(p) = g[n]
    <2> HIDE DEF n
    <2> QED BY <1>1, ReachIs DEF ScStates, n
  <1>a. \A r : ScTyped(p, r) => Level(r) \in 0 .. n BY DoneTyped
  <1>b. ASSUME NEW r, ScTyped(p, r), NEW t \in Threads(p), ScEnabled(p, r, t)
        PROVE  Level(ScStep(p, r, t)) = Level(r) + 1 /\ Level(r) + 1 \in 0 .. n
    BY <1>b, DoneGrows
  <1>c. Level(ScInit(p)) = 0
    <2>1. \A t \in Threads(p) : ScInit(p).ip[t] = 0 BY DEF ScInit
    <2>2. 1 .. 0 = {} OBVIOUS
    <2>3. Done(p, ScInit(p)) = {} BY <2>1, <2>2 DEF Done
    <2> QED BY <2>3, FS_EmptySet
  <1> HIDE DEF n, Level
  <1>3. \A k \in 0 .. n : g[k] = IF k = 0 THEN {ScInit(p)}
                               ELSE g[k - 1] \cup UNION {ScNext(p, s) : s \in g[k - 1]}
    BY <1>2 DEF ReachRec
  <1>4. g[0] = {ScInit(p)}
    <2>1. 0 \in 0 .. n BY <1>1
    <2> QED BY <1>3, <2>1
  <1>5. \A k \in 0 .. n : k + 1 \in 0 .. n =>
          g[k] \subseteq g[k + 1] /\ \A s \in g[k] : ScNext(p, s) \subseteq g[k + 1]
    <2> SUFFICES ASSUME NEW k \in 0 .. n, k + 1 \in 0 .. n
                 PROVE  g[k] \subseteq g[k + 1] /\ \A s \in g[k] : ScNext(p, s) \subseteq g[k + 1]
      OBVIOUS
    <2>1. k + 1 # 0 /\ (k + 1) - 1 = k BY <1>1
    <2>2. g[k + 1] = g[k] \cup UNION {ScNext(p, s) : s \in g[k]} BY <1>3, <2>1
    <2> QED BY <2>2
  <1>6. \A k \in 0 .. n : g[k] \subseteq g[n]
    <2> DEFINE Bad == {d \in 0 .. n : ~(g[n - d] \subseteq g[n])}
    <2>1. Bad = {}
      <3> SUFFICES ASSUME Bad # {} PROVE FALSE OBVIOUS
      <3>1. PICK d \in Bad : \A j \in Bad : d <= j
        <4>1. Bad \in SUBSET Nat BY <1>1
        <4> HIDE DEF Bad
        <4> QED BY <4>1, LeastOf
      <3>2. d \in 0 .. n /\ ~(g[n - d] \subseteq g[n]) BY <3>1
      <3>3. d # 0
        <4>1. n - 0 = n BY <1>1
        <4> QED BY <3>2, <4>1
      <3>4. d - 1 \in 0 .. n /\ ~(d <= d - 1) BY <1>1, <3>2, <3>3
      <3>5. d - 1 \notin Bad
        <4> HIDE DEF Bad
        <4> QED BY <3>1, <3>4
      <3>6. g[n - (d - 1)] \subseteq g[n] BY <3>4, <3>5
      <3>7. n - d \in 0 .. n /\ (n - d) + 1 = n - (d - 1) /\ n - (d - 1) \in 0 .. n BY <1>1, <3>2, <3>3
      <3>8. g[n - d] \subseteq g[n - (d - 1)] BY <1>5, <3>7
      <3> QED BY <3>2, <3>6, <3>8
    <2>2. ASSUME NEW k \in 0 .. n PROVE g[k] \subseteq g[n]
      <3>1. n - k \in 0 .. n /\ n - (n - k) = k BY <1>1
      <3>2. n - k \notin Bad BY <2>1
      <3> QED BY <3>1, <3>2
    <2> QED BY <2>2
  <1> DEFINE S == {r \in g[n] : ScTyped(p, r) /\ r \in g[Level(r)]}
  <1>7. ScInit(p) \in S
    <2>1. 0 \in 0 .. n BY <1>1
    <2> QED BY <1>4, <1>6, <1>c, <2>1, ScInitTyped
  <1>8. ASSUME NEW r \in S, NEW t \in Threads(p), ScEnabled(p, r, t) PROVE ScStep(p, r, t) \in S
    <2>1. ScTyped(p, r) /\ r \in g[Level(r)] /\ Level(r) \in 0 .. n BY <1>a
    <2>2. PICK s : s = ScStep(p, r, t) OBVIOUS
    <2>3. ScTyped(p, s) /\ Level(s) = Level(r) + 1 /\ Level(s) \in 0 .. n
      BY <1>8, <1>b, <2>1, <2>2, ScStepTyped
    <2>4. s \in ScNext(p, r) BY <1>8, <2>2 DEF ScNext
    <2>5. s \in g[Level(s)] BY <1>5, <2>1, <2>3, <2>4
    <2>6. s \in g[n] BY <1>6, <2>3, <2>5
    <2> QED BY <2>2, <2>3, <2>5, <2>6
  <1>9. ScStates(p) \subseteq S
    <2> HIDE DEF S
    <2> QED BY <1>7, <1>8, ScStatesLeast
  <1>10. ScStates(p) = S BY <1>2, <1>9
  <1> HIDE DEF S
  <1>11. \A r \in S : ScTyped(p, r) BY DEF S
  <1> QED BY <1>7, <1>8, <1>10, <1>11

-----------------------------------------------------------------------------
(* The operational model without the weak rules. *)

(* The OpState that stands for a reference state: a prefix of each thread is
   consumed, nothing is buffered or propagating, all views are the memory. *)
Rep(p, r) ==
  [consumed |-> [t \in Threads(p) |-> 1 .. r.ip[t]],
   bufs     |-> [t \in Threads(p) |-> [x \in Locations(p) |-> <<>>]],
   views    |-> [t \in Threads(p) |-> r.mem],
   pending  |-> <<>>,
   held     |-> r.held,
   spawned  |-> [t \in Threads(p) |-> t \in r.started],
   obs      |-> r.obs]

LEMMA RepInit ==
    ASSUME NEW p \in Seq(Thread)
    PROVE  Rep(p, ScInit(p)) = InitState(p)
  <1>1. \A t \in Threads(p) : 1 .. ScInit(p).ip[t] = {} BY DEF ScInit
  <1>2. \A t \in Threads(p) : (t \in ScInit(p).started) = (parent_of(p, t) = 0) BY DEF ScInit
  <1>3. ScInit(p).mem = [x \in Locations(p) |-> InitTag] /\ ScInit(p).held = [t \in Threads(p) |-> {}]
        /\ ScInit(p).obs = <<>>
    BY DEF ScInit
  <1>4. [t \in Threads(p) |-> 1 .. ScInit(p).ip[t]] = [t \in Threads(p) |-> {}] BY <1>1
  <1>5. [t \in Threads(p) |-> t \in ScInit(p).started] = [t \in Threads(p) |-> parent_of(p, t) = 0] BY <1>2
  <1> QED BY <1>3, <1>4, <1>5 DEF Rep, InitState

LEMMA RepDrained ==
    ASSUME NEW p \in Seq(Thread), NEW r, NEW t \in Threads(p)
    PROVE  Drained(Rep(p, r), t) /\ no_pending_to(Rep(p, r), t) /\ bufs_empty(Rep(p, r), t)
  <1>1. bufs_empty(Rep(p, r), t) BY DEF bufs_empty, Rep
  <1>2. DOMAIN Rep(p, r).pending = {} BY DEF Rep
  <1>3. no_pending_from(Rep(p, r), t) /\ no_pending_to(Rep(p, r), t) BY <1>2 DEF no_pending_from, no_pending_to
  <1> QED BY <1>1, <1>3 DEF Drained

(* A thread may execute an event exactly when the reference may take a step of it,
   and then it is the next event. *)
LEMMA RepCan ==
    ASSUME NEW p \in Seq(Thread), NEW r, ScTyped(p, r), NEW t \in Threads(p), NEW i \in Events(p, t)
    PROVE  CanExec(p, Rep(p, r), FALSE, t, i) <=> ScEnabled(p, r, t) /\ i = r.ip[t] + 1
  <1> DEFINE s == Rep(p, r)
  <1>0. /\ \A u \in Threads(p) : r.ip[u] \in Nat /\ r.ip[u] <= Len(p[u].events)
        /\ i \in Nat \ {0} /\ i <= Len(p[t].events)
    BY ThreadShape DEF ScTyped, ScState
  <1>1. \A u \in Threads(p) : s.consumed[u] = 1 .. r.ip[u] BY DEF Rep
  <1>2. s.held = r.held /\ s.spawned[t] = (t \in r.started) BY DEF Rep
  <1>3. takeable(p, s, FALSE, t, i) <=> i = r.ip[t] + 1
    <2>1. takeable(p, s, FALSE, t, i) <=> i \notin 1 .. r.ip[t] /\ \A j \in 1 .. (i - 1) : j \in 1 .. r.ip[t]
      BY <1>1 DEF takeable
    <2>2. (i \notin 1 .. r.ip[t] /\ \A j \in 1 .. (i - 1) : j \in 1 .. r.ip[t]) <=> i = r.ip[t] + 1
      <3>1. ASSUME i \notin 1 .. r.ip[t], \A j \in 1 .. (i - 1) : j \in 1 .. r.ip[t] PROVE i = r.ip[t] + 1
        <4>1. i > r.ip[t] BY <1>0, <3>1
        <4>2. CASE i = 1 BY <1>0, <4>1, <4>2
        <4>3. CASE i # 1
          <5>1. i - 1 \in 1 .. (i - 1) BY <1>0, <4>3
          <5> QED BY <1>0, <3>1, <4>1, <5>1
        <4> QED BY <4>2, <4>3
      <3>2. ASSUME i = r.ip[t] + 1 PROVE i \notin 1 .. r.ip[t] /\ \A j \in 1 .. (i - 1) : j \in 1 .. r.ip[t]
        BY <1>0, <3>2
      <3> QED BY <3>1, <3>2
    <2> QED BY <2>1, <2>2
  <1>4. \A c \in Threads(p) : s.consumed[c] = Events(p, c) <=> r.ip[c] = Len(p[c].events)
    <2> TAKE c \in Threads(p)
    <2>1. PICK a \in Nat, b \in Nat : a = r.ip[c] /\ b = Len(p[c].events) /\ Events(p, c) = 1 .. b /\ a <= b
      BY <1>0, ThreadShape
    <2>2. 1 .. a = 1 .. b <=> a = b
      <3>1. ASSUME 1 .. a = 1 .. b, a # b PROVE FALSE
        <4>1. b \in 1 .. b /\ b \notin 1 .. a BY <2>1, <3>1
        <4> QED BY <3>1, <4>1
      <3> QED BY <3>1
    <2> QED BY <1>1, <2>1, <2>2
  <1>5. Drained(s, t) /\ no_pending_to(s, t) /\ \A c \in Threads(p) : Drained(s, c) BY RepDrained
  <1> DEFINE e == Ev(p, t, i)
  <1>6. Ready(p, s, t, i) <=>
          /\ e.k = "Join" => \A c \in Threads(p) : parent_of(p, c) = t => r.ip[c] = Len(p[c].events)
          /\ e.k = "Acquire" => \A o \in Threads(p) \ {t} : e.x \notin r.held[o]
    <2> HIDE DEF s
    <2> QED BY <1>2, <1>4, <1>5 DEF Ready
  <1> HIDE DEF s
  <1>7. CASE i = r.ip[t] + 1
    <2>1. r.ip[t] < Len(p[t].events) BY <1>0, <1>7
    <2> QED BY <1>2, <1>3, <1>6, <1>7, <2>1 DEF CanExec, ScEnabled, s
  <1>8. CASE i # r.ip[t] + 1
    BY <1>3, <1>8 DEF CanExec, s
  <1> QED BY <1>7, <1>8

(* Executing that event leads to the OpState of the reference's next state. *)
LEMMA RepStep ==
    ASSUME NEW p \in Seq(Thread), NEW r, ScTyped(p, r), NEW t \in Threads(p), ScEnabled(p, r, t)
    PROVE  Executed(p, Rep(p, r), FALSE, t, At(r, t)) = Rep(p, ScStep(p, r, t))
  <1> DEFINE i == At(r, t)
             e == NextEv(p, r, t)
             s == Rep(p, r)
             m == Moved(r, t)
             n == ScStep(p, r, t)
             B == [u \in Threads(p) |-> [x \in Locations(p) |-> <<>>]]
             C == [u \in Threads(p) |-> 1 .. m.ip[u]]
             V(q) == [u \in Threads(p) |-> q.mem]
             A(q) == [u \in Threads(p) |-> u \in q.started]
  <1>1. r \in ScState(p) BY DEF ScTyped
  <1>2. i \in Events(p, t) /\ i \in Nat /\ e \in Event /\ e = Ev(p, t, i) /\ Effects(p, r, t, n)
    BY ScStepIs DEF NextEv
  <1>3. m.ip = [r.ip EXCEPT ![t] = i] /\ m.mem = r.mem /\ m.held = r.held /\ m.started = r.started
        /\ m.obs = r.obs /\ m \in ScState(p)
    BY <1>1, <1>2 DEF ScState, Moved
  <1>4. [s.consumed EXCEPT ![t] = @ \cup {i}] = C
    <2>1. \A u \in Threads(p) : m.ip[u] = IF u = t THEN i ELSE r.ip[u] BY <1>1, <1>3 DEF ScState
    <2>2. 1 .. i = (1 .. r.ip[t]) \cup {i} BY <1>1 DEF ScState, At
    <2>3. s.consumed = [u \in Threads(p) |-> 1 .. r.ip[u]] BY DEF Rep
    <2> HIDE DEF i, m, s
    <2> QED BY <2>1, <2>2, <2>3
  <1>5. Consumed(s, t, i) =
          [consumed |-> C, bufs |-> B, views |-> V(r), pending |-> <<>>,
           held |-> r.held, spawned |-> A(r), obs |-> r.obs]
    <2>1. s = [consumed |-> s.consumed, bufs |-> B, views |-> V(r), pending |-> <<>>,
               held |-> r.held, spawned |-> A(r), obs |-> r.obs]
      BY DEF Rep
    <2> HIDE DEF C, i, s, B, V, A
    <2>2. Consumed(s, t, i) = [s EXCEPT !.consumed = C] BY <1>4 DEF Consumed
    <2> QED BY <2>1, <2>2
  <1>6. ASSUME NEW q, q.ip = m.ip
        PROVE  Rep(p, q) = [consumed |-> C, bufs |-> B, views |-> V(q), pending |-> <<>>,
                            held |-> q.held, spawned |-> A(q), obs |-> q.obs]
    BY <1>6 DEF Rep
  <1>v. \A q : q.mem = r.mem => V(q) = V(r) OBVIOUS
  <1>s. \A q : q.started = r.started => A(q) = A(r) OBVIOUS
  <1> HIDE DEF C, B, s, i, e, m, n, V, A
  <1>7. CASE e.k \in Writes
    <2>1. n = [m EXCEPT !.mem[e.x] = <<t, i>>] BY <1>2, <1>7 DEF Effects, e, m, n, i
    <2>2. n.ip = m.ip /\ n.mem = [r.mem EXCEPT ![e.x] = <<t, i>>] /\ n.held = r.held
          /\ n.started = r.started /\ n.obs = r.obs
      BY <1>3, <2>1 DEF ScState
    <2>3. Executed(p, s, FALSE, t, i) = Written(p, s, FALSE, t, i) BY <1>2, <1>7 DEF Executed, Reads, Writes
    <2>4. Written(p, s, FALSE, t, i) =
            [Consumed(s, t, i) EXCEPT !.views = [u \in Threads(p) |-> [@[u] EXCEPT ![e.x] = <<t, i>>]]]
      BY <1>2 DEF Written
    <2>5. Written(p, s, FALSE, t, i) =
            [Consumed(s, t, i) EXCEPT !.views = V(n)]
      <3>1. PICK k : k = Consumed(s, t, i) OBVIOUS
      <3>2. \A u \in Threads(p) : k.views[u] = r.mem BY <1>5, <3>1 DEF V
      <3>3. [u \in Threads(p) |-> [k.views[u] EXCEPT ![e.x] = <<t, i>>]]
              = V(n)
        BY <2>2, <3>2 DEF V
      <3> QED BY <2>4, <3>1, <3>3
    <2>6. Rep(p, n) = [consumed |-> C, bufs |-> B, views |-> V(n), pending |-> <<>>,
                       held |-> n.held, spawned |-> A(n), obs |-> n.obs]
      BY <1>6, <2>2
    <2>7. n.held = r.held /\ n.obs = r.obs /\ A(n) = A(r) BY <1>s, <2>2
    <2>8. Rep(p, n) = Written(p, s, FALSE, t, i)
      <3>1. PICK k : k = Consumed(s, t, i) OBVIOUS
      <3>2. PICK v, h, a, o : v = V(n) /\ h = r.held /\ a = A(r) /\ o = r.obs OBVIOUS
      <3>3. k = [consumed |-> C, bufs |-> B, views |-> V(r), pending |-> <<>>, held |-> h, spawned |-> a, obs |-> o]
        BY <1>5, <3>1, <3>2
      <3>4. [k EXCEPT !.views = v] =
              [consumed |-> C, bufs |-> B, views |-> v, pending |-> <<>>, held |-> h, spawned |-> a, obs |-> o]
        BY <3>3
      <3> QED BY <2>5, <2>6, <2>7, <3>1, <3>2, <3>4
    <2> QED BY <2>3, <2>8 DEF s, i, n
  <1>8. CASE e.k \in Reads
    <2>1. n = [m EXCEPT !.obs = Saw(p, r, t)] BY <1>2, <1>8 DEF Effects, e, m, n, i
    <2>2. n.ip = m.ip /\ n.mem = r.mem /\ n.held = r.held /\ n.started = r.started /\ n.obs = Saw(p, r, t)
      BY <1>3, <2>1 DEF ScState
    <2>3. Executed(p, s, FALSE, t, i) = Observed(p, s, t, i) BY <1>2, <1>8 DEF Executed, Reads, Writes
    <2>4. op_read(s, t, e.x) = r.mem[e.x]
      <3>1. e.x \in Locations(p) BY <1>2, <1>8, AccessLocation DEF Accesses
      <3> QED BY <3>1 DEF op_read, s, Rep
    <2>5. s.obs = r.obs BY DEF s, Rep
    <2>6. [q \in DOMAIN s.obs \cup {<<t, i>>} |-> IF q = <<t, i>> THEN op_read(s, t, Ev(p, t, i).x) ELSE s.obs[q]]
            = Saw(p, r, t)
      BY <1>2, <2>4, <2>5 DEF Saw, e, i
    <2>7. Observed(p, s, t, i) = [Consumed(s, t, i) EXCEPT !.obs = Saw(p, r, t)] BY <2>6 DEF Observed
    <2>8. Rep(p, n) = [consumed |-> C, bufs |-> B, views |-> V(n), pending |-> <<>>,
                       held |-> n.held, spawned |-> A(n), obs |-> n.obs]
      BY <1>6, <2>2
    <2>9. Rep(p, n) = Observed(p, s, t, i) BY <1>5, <1>v, <1>s, <2>2, <2>7, <2>8
    <2> QED BY <2>3, <2>9 DEF s, i, n
  <1>9. CASE e.k = "Acquire"
    <2>1. n = [m EXCEPT !.held[t] = @ \cup {e.x}] BY <1>2, <1>9 DEF Effects, e, m, n, i
    <2>2. n.ip = m.ip /\ n.mem = r.mem /\ n.held = [r.held EXCEPT ![t] = @ \cup {e.x}]
          /\ n.started = r.started /\ n.obs = r.obs
      BY <1>3, <2>1 DEF ScState
    <2>3. Executed(p, s, FALSE, t, i) = [Consumed(s, t, i) EXCEPT !.held[t] = @ \cup {e.x}]
      BY <1>2, <1>9 DEF Executed, Reads, Writes
    <2>4. Rep(p, n) = [consumed |-> C, bufs |-> B, views |-> V(n), pending |-> <<>>,
                       held |-> n.held, spawned |-> A(n), obs |-> n.obs]
      BY <1>6, <2>2
    <2>5. PICK k : k = Consumed(s, t, i) OBVIOUS
    <2>6. [k EXCEPT !.held[t] = @ \cup {e.x}] = [k EXCEPT !.held = [k.held EXCEPT ![t] = @ \cup {e.x}]]
      OBVIOUS
    <2>7. k.held = r.held BY <1>5, <2>5
    <2>8. Executed(p, s, FALSE, t, i) = [k EXCEPT !.held = n.held] BY <2>2, <2>3, <2>5, <2>6, <2>7
    <2>9. V(n) = V(r) /\ A(n) = A(r) /\ n.obs = r.obs BY <1>v, <1>s, <2>2
    <2>10. Rep(p, n) = Executed(p, s, FALSE, t, i)
      <3>1. PICK v, h, a, o : v = V(r) /\ h = n.held /\ a = A(r) /\ o = r.obs OBVIOUS
      <3>2. k = [consumed |-> C, bufs |-> B, views |-> v, pending |-> <<>>, held |-> r.held, spawned |-> a, obs |-> o]
        BY <1>5, <2>5, <3>1
      <3>3. [k EXCEPT !.held = h] =
              [consumed |-> C, bufs |-> B, views |-> v, pending |-> <<>>, held |-> h, spawned |-> a, obs |-> o]
        BY <3>2
      <3> QED BY <2>4, <2>8, <2>9, <3>1, <3>3
    <2> QED BY <2>10 DEF s, i, n
  <1>10. CASE e.k = "Release"
    <2>1. n = [m EXCEPT !.held[t] = @ \ {e.x}] BY <1>2, <1>10 DEF Effects, e, m, n, i
    <2>2. n.ip = m.ip /\ n.mem = r.mem /\ n.held = [r.held EXCEPT ![t] = @ \ {e.x}]
          /\ n.started = r.started /\ n.obs = r.obs
      BY <1>3, <2>1 DEF ScState
    <2>3. Executed(p, s, FALSE, t, i) = [Consumed(s, t, i) EXCEPT !.held[t] = @ \ {e.x}]
      BY <1>2, <1>10 DEF Executed, Reads, Writes
    <2>4. Rep(p, n) = [consumed |-> C, bufs |-> B, views |-> V(n), pending |-> <<>>,
                       held |-> n.held, spawned |-> A(n), obs |-> n.obs]
      BY <1>6, <2>2
    <2>5. PICK k : k = Consumed(s, t, i) OBVIOUS
    <2>6. [k EXCEPT !.held[t] = @ \ {e.x}] = [k EXCEPT !.held = [k.held EXCEPT ![t] = @ \ {e.x}]]
      OBVIOUS
    <2>7. k.held = r.held BY <1>5, <2>5
    <2>8. Executed(p, s, FALSE, t, i) = [k EXCEPT !.held = n.held] BY <2>2, <2>3, <2>5, <2>6, <2>7
    <2>9. V(n) = V(r) /\ A(n) = A(r) /\ n.obs = r.obs BY <1>v, <1>s, <2>2
    <2>10. Rep(p, n) = Executed(p, s, FALSE, t, i)
      <3>1. PICK v, h, a, o : v = V(r) /\ h = n.held /\ a = A(r) /\ o = r.obs OBVIOUS
      <3>2. k = [consumed |-> C, bufs |-> B, views |-> v, pending |-> <<>>, held |-> r.held, spawned |-> a, obs |-> o]
        BY <1>5, <2>5, <3>1
      <3>3. [k EXCEPT !.held = h] =
              [consumed |-> C, bufs |-> B, views |-> v, pending |-> <<>>, held |-> h, spawned |-> a, obs |-> o]
        BY <3>2
      <3> QED BY <2>4, <2>8, <2>9, <3>1, <3>3
    <2> QED BY <2>10 DEF s, i, n
  <1>11. CASE e.k = "Spawn"
    <2> DEFINE x == index_of(p, e.x)
    <2>1. n = [m EXCEPT !.started = @ \cup {x}] BY <1>2, <1>11 DEF Effects, e, m, n, i
    <2>2. n.ip = m.ip /\ n.mem = r.mem /\ n.held = r.held /\ n.started = r.started \cup {x} /\ n.obs = r.obs
      BY <1>3, <2>1 DEF ScState
    <2>3. Executed(p, s, FALSE, t, i) = Spawned(p, s, t, i) BY <1>2, <1>11 DEF Executed, Reads, Writes
    <2>4. spawn_target(p, t, i) = IF x # t THEN x ELSE 0 BY <1>2, <1>11 DEF spawn_target
    <2>5. t \in r.started BY DEF ScEnabled
    <2>6. 0 \notin Threads(p) BY ThreadShape
    <2>7. Rep(p, n) = [consumed |-> C, bufs |-> B, views |-> V(n), pending |-> <<>>,
                       held |-> n.held, spawned |-> A(n), obs |-> n.obs]
      BY <1>6, <2>2
    <2>8. CASE spawn_target(p, t, i) = 0
      <3> HIDE DEF x
      <3>1. x = t \/ x = 0 BY <2>4, <2>8
      <3>2. A(n) = A(r)
        <4>1. \A u \in Threads(p) : u \in n.started <=> u \in r.started BY <2>2, <2>5, <2>6, <3>1
        <4> QED BY <4>1 DEF A
      <3>3. Spawned(p, s, t, i) = Consumed(s, t, i) BY <2>8 DEF Spawned
      <3> QED BY <1>5, <1>v, <2>2, <2>3, <2>7, <3>2, <3>3 DEF s, i, n
    <2>9. CASE spawn_target(p, t, i) # 0
      <3>0. x # t /\ x = spawn_target(p, t, i) BY <2>4, <2>9
      <3> HIDE DEF x
      <3>1. Spawned(p, s, t, i) = [Consumed(s, t, i) EXCEPT !.spawned[x] = TRUE] BY <2>9, <3>0 DEF Spawned
      <3>2. [A(r) EXCEPT ![x] = TRUE] = A(n)
        <4>1. \A u \in Threads(p) : u # x => A(r)[u] = A(n)[u] BY <2>2 DEF A
        <4>2. x \in Threads(p) => A(n)[x] = TRUE BY <2>2 DEF A
        <4>3. /\ DOMAIN A(r) = Threads(p) /\ A(r) = [u \in Threads(p) |-> A(r)[u]]
              /\ DOMAIN A(n) = Threads(p) /\ A(n) = [u \in Threads(p) |-> A(n)[u]]
          BY DEF A
        <4> QED BY <4>1, <4>2, <4>3
      <3>3. PICK k : k = Consumed(s, t, i) OBVIOUS
      <3>4. [k EXCEPT !.spawned[x] = TRUE] = [k EXCEPT !.spawned = [k.spawned EXCEPT ![x] = TRUE]] OBVIOUS
      <3>5. k.spawned = A(r) BY <1>5, <3>3
      <3>6. Spawned(p, s, t, i) = [k EXCEPT !.spawned = A(n)] BY <3>1, <3>2, <3>3, <3>4, <3>5
      <3>7. V(n) = V(r) BY <1>v, <2>2
      <3>8. Rep(p, n) = Spawned(p, s, t, i) BY <1>5, <2>2, <2>7, <3>3, <3>6, <3>7
      <3> QED BY <2>3, <3>8 DEF s, i, n
    <2> QED BY <2>8, <2>9
  <1>12. CASE e.k \notin Accesses \cup {"Acquire", "Release", "Spawn"}
    <2>1. n = m BY <1>2, <1>12 DEF Effects, e, m, n, i
    <2>2. Executed(p, s, FALSE, t, i) = Consumed(s, t, i) BY <1>2, <1>12 DEF Executed, Reads, Writes, Accesses
    <2>3. Rep(p, m) = [consumed |-> C, bufs |-> B, views |-> V(m), pending |-> <<>>,
                       held |-> m.held, spawned |-> A(m), obs |-> m.obs]
      BY <1>6
    <2>4. Rep(p, n) = Executed(p, s, FALSE, t, i) BY <1>3, <1>5, <1>v, <1>s, <2>1, <2>2, <2>3
    <2> QED BY <2>4 DEF s, i, n
  <1> QED BY <1>7, <1>8, <1>9, <1>10, <1>11, <1>12 DEF Accesses

LEMMA RepTerminal ==
    ASSUME NEW p \in Seq(Thread), NEW r, ScTyped(p, r)
    PROVE  Terminal(p, Rep(p, r)) <=> \A t \in Threads(p) : r.ip[t] = Len(p[t].events)
  <1>1. \A t \in Threads(p) : bufs_empty(Rep(p, r), t) BY RepDrained
  <1>2. Rep(p, r).pending = <<>> BY DEF Rep
  <1>3. \A t \in Threads(p) : Rep(p, r).consumed[t] = 1 .. r.ip[t] BY DEF Rep
  <1>4. \A t \in Threads(p) : 1 .. r.ip[t] = Events(p, t) <=> r.ip[t] = Len(p[t].events)
    <2> TAKE t \in Threads(p)
    <2>1. PICK a \in Nat, b \in Nat : a = r.ip[t] /\ b = Len(p[t].events) /\ Events(p, t) = 1 .. b /\ a <= b
      BY ThreadShape DEF ScTyped, ScState
    <2>2. ASSUME 1 .. a = 1 .. b, a # b PROVE FALSE
      <3>1. b \in 1 .. b /\ b \notin 1 .. a BY <2>1, <2>2
      <3> QED BY <2>2, <3>1
    <2> QED BY <2>1, <2>2
  <1> QED BY <1>1, <1>2, <1>3, <1>4 DEF Terminal

(* The OpStates that stand for a sequentially consistent state: the initial state is
   one, and executing an event leads to another. *)
Reached(p) == {Rep(p, r) : r \in ScStates(p)}

LEMMA ReachedClosed ==
    ASSUME NEW p \in Seq(Thread)
    PROVE  /\ InitState(p) \in Reached(p)
           /\ \A s \in Reached(p) : \A t \in Threads(p) : \A i \in Events(p, t) :
                CanExec(p, s, FALSE, t, i) => Executed(p, s, FALSE, t, i) \in Reached(p)
  <1>1. InitState(p) \in Reached(p) BY RepInit, ScStatesClosed DEF Reached
  <1>2. ASSUME NEW r \in ScStates(p), NEW t \in Threads(p), NEW i \in Events(p, t),
               CanExec(p, Rep(p, r), FALSE, t, i)
        PROVE  Executed(p, Rep(p, r), FALSE, t, i) \in Reached(p)
    <2>1. ScTyped(p, r) BY ScStatesClosed
    <2>2. ScEnabled(p, r, t) /\ i = At(r, t) BY <1>2, <2>1, RepCan DEF At
    <2>3. Executed(p, Rep(p, r), FALSE, t, i) = Rep(p, ScStep(p, r, t)) BY <2>1, <2>2, RepStep
    <2>4. ScStep(p, r, t) \in ScStates(p) BY <2>2, ScStatesClosed
    <2> QED BY <2>3, <2>4 DEF Reached
  <1> QED BY <1>1, <1>2 DEF Reached

(* A set of OpStates with the initial one that is closed under execution holds all of
   them; the states with nothing left to execute need not be closed. *)
LEMMA ReachedLeast ==
    ASSUME NEW p \in Seq(Thread), NEW S, InitState(p) \in S,
           \A s \in S : ~Terminal(p, s) => \A t \in Threads(p) : \A i \in Events(p, t) :
             CanExec(p, s, FALSE, t, i) => Executed(p, s, FALSE, t, i) \in S
    PROVE  Reached(p) \subseteq S
  <1> DEFINE T == {r \in ScStates(p) : Rep(p, r) \in S}
  <1>1. ScInit(p) \in T BY RepInit, ScStatesClosed
  <1>2. ASSUME NEW r \in T, NEW t \in Threads(p), ScEnabled(p, r, t) PROVE ScStep(p, r, t) \in T
    <2>1. ScTyped(p, r) /\ r \in ScStates(p) /\ Rep(p, r) \in S BY ScStatesClosed
    <2>2. At(r, t) \in Events(p, t) BY <1>2, <2>1, ScStepIs
    <2>3. CanExec(p, Rep(p, r), FALSE, t, At(r, t))
      <3>1. PICK i \in Events(p, t) : i = At(r, t) /\ i = r.ip[t] + 1 BY <2>2 DEF At
      <3>2. CanExec(p, Rep(p, r), FALSE, t, i) BY <1>2, <2>1, <3>1, RepCan
      <3> QED BY <3>1, <3>2
    <2>4. ~Terminal(p, Rep(p, r))
      <3>1. r.ip[t] # Len(p[t].events) BY <1>2, <2>1 DEF ScEnabled, ScTyped, ScState
      <3> QED BY <2>1, <3>1, RepTerminal
    <2>5. Rep(p, ScStep(p, r, t)) \in S BY <1>2, <2>1, <2>2, <2>3, <2>4, RepStep
    <2>6. ScStep(p, r, t) \in ScStates(p) BY <1>2, <2>1, ScStatesClosed
    <2> QED BY <2>5, <2>6
  <1>3. ScStates(p) \subseteq T
    <2> HIDE DEF T
    <2> QED BY <1>1, <1>2, ScStatesLeast
  <1> QED BY <1>3 DEF Reached

LEMMA ScObsIs ==
    ASSUME NEW n \in DOMAIN Programs
    PROVE  ScObs[n] = {s.obs : s \in {u \in Reached(Programs[n]) : Terminal(Programs[n], u)}}
  <1> DEFINE p(k) == Programs[k]
             O(k) == {s.obs : s \in {r \in ScStates(p(k)) : \A t \in Threads(p(k)) : r.ip[t] = Len(p(k)[t].events)}}
             f == [k \in DOMAIN Programs |-> O(k)]
  <1>1. p(n) \in Seq(Thread) BY ProgramTyped
  <1>2. ScObs = <<>> \o f BY DEF ScObs
  <1>3. f \in Seq({f[k] : k \in DOMAIN Programs})
    <2>1. PICK m \in Nat : DOMAIN Programs = 1 .. m BY ProgramsAssumption
    <2>2. DOMAIN f = 1 .. m BY <2>1
    <2>3. f = [k \in 1 .. m |-> f[k]] BY <2>1
    <2> HIDE DEF f
    <2>4. f \in [1 .. m -> {f[k] : k \in DOMAIN Programs}] BY <2>1, <2>2, <2>3
    <2> QED BY <2>4
  <1>4. <<>> \o f = f
    <2> HIDE DEF f
    <2> QED BY <1>3
  <1>5. ScObs[n] = O(n) BY <1>2, <1>4
  <1>6. \A r \in ScStates(p(n)) : /\ Terminal(p(n), Rep(p(n), r)) <=> \A t \in Threads(p(n)) : r.ip[t] = Len(p(n)[t].events)
                                  /\ Rep(p(n), r).obs = r.obs
    <2>1. \A r \in ScStates(p(n)) : ScTyped(p(n), r) BY <1>1, ScStatesClosed
    <2>2. \A r : Rep(p(n), r).obs = r.obs BY DEF Rep
    <2> HIDE DEF p
    <2> QED BY <1>1, <2>1, <2>2, RepTerminal
  <1>7. O(n) = {s.obs : s \in {u \in Reached(p(n)) : Terminal(p(n), u)}}
    <2> HIDE DEF p
    <2> QED BY <1>6 DEF Reached
  <1> QED BY <1>5, <1>7

-----------------------------------------------------------------------------
(* The search. *)

LEMMA SingleRange ==
    ASSUME NEW A, NEW x \in A, NEW b \in BOOLEAN
    PROVE  /\ (IF b THEN <<x>> ELSE <<>>) \in Seq(A)
           /\ \A y : y \in Range(IF b THEN <<x>> ELSE <<>>) <=> b /\ y = x
  <1>1. <<x>> \in Seq(A) /\ DOMAIN <<x>> = 1 .. 1 /\ <<x>>[1] = x OBVIOUS
  <1>2. \A k \in 1 .. 1 : k = 1 OBVIOUS
  <1>3. Range(<<x>>) = {x} BY <1>1, <1>2 DEF Range
  <1>4. Range(<<>>) = {} BY DEF Range
  <1>5. <<>> \in Seq(A) OBVIOUS
  <1>6. CASE b = TRUE BY <1>1, <1>3, <1>6
  <1>7. CASE b = FALSE BY <1>4, <1>5, <1>7
  <1> QED BY <1>6, <1>7

(* The last state of the stack and the rest of it. *)
LEMMA LastAndFront ==
    ASSUME NEW A, NEW q \in Seq(A), q # <<>>
    PROVE  /\ Last(q) \in A /\ Front(q) \in Seq(A)
           /\ Range(q) = Range(Front(q)) \cup {Last(q)}
  <1>1. PICK n \in Nat : Len(q) = n + 1 /\ DOMAIN q = 1 .. n + 1
    <2>1. Len(q) \in Nat /\ Len(q) # 0 /\ DOMAIN q = 1 .. Len(q) OBVIOUS
    <2>2. Len(q) - 1 \in Nat /\ Len(q) = (Len(q) - 1) + 1 BY <2>1
    <2> QED BY <2>1, <2>2
  <1>2. PICK f : f = Front(q) OBVIOUS
  <1>3. f \in Seq(A) /\ DOMAIN f = 1 .. n /\ \A k \in 1 .. n : f[k] = q[k] BY <1>1, <1>2 DEF Front
  <1>4. Last(q) = q[n + 1] /\ Last(q) \in A BY <1>1 DEF Last
  <1>5. \A k \in 1 .. n + 1 : k \in 1 .. n \/ k = n + 1 BY <1>1
  <1>6. n + 1 \in 1 .. n + 1 /\ \A k \in 1 .. n : k \in 1 .. n + 1 BY <1>1
  <1>7. Range(q) = Range(f) \cup {Last(q)} BY <1>1, <1>3, <1>4, <1>5, <1>6 DEF Range
  <1> QED BY <1>2, <1>3, <1>4, <1>7

(* What is pushed for a state without the weak rules: its successors. *)
LEMMA StepsIn ==
    ASSUME NEW p \in Seq(Thread), NEW s \in Reached(p), NEW t \in Threads(p)
    PROVE  /\ StepsOf(p, s, FALSE, t) \in Seq(Reached(p))
           /\ \A x : x \in Range(StepsOf(p, s, FALSE, t)) <=>
                \E i \in Events(p, t) : CanExec(p, s, FALSE, t, i) /\ x = Executed(p, s, FALSE, t, i)
  <1> DEFINE A == Reached(p)
             can(i) == CanExec(p, s, FALSE, t, i)
             new(i) == Executed(p, s, FALSE, t, i)
             one(i) == IF can(i) THEN <<new(i)>> ELSE <<>>
             ss == [i \in Events(p, t) |-> one(i)]
  <1>1. PICK n \in Nat : Events(p, t) = 1 .. n BY ThreadShape
  <1>2. ASSUME NEW i \in Events(p, t)
        PROVE  one(i) \in Seq(A) /\ \A y : y \in Range(one(i)) <=> can(i) /\ y = new(i)
    <2>1. can(i) => new(i) \in A BY ReachedClosed
    <2> HIDE DEF A, can, new
    <2>2. CASE can(i)
      <3>1. one(i) = IF TRUE THEN <<new(i)>> ELSE <<>> BY <2>2
      <3>2. new(i) \in A BY <2>1, <2>2
      <3> QED BY <2>2, <3>1, <3>2, SingleRange
    <2>3. CASE ~can(i)
      <3>1. one(i) = <<>> BY <2>3
      <3>2. Range(<<>>) = {} BY DEF Range
      <3> QED BY <2>3, <3>1, <3>2
    <2> QED BY <2>2, <2>3
  <1>3. ss \in [1 .. n -> Seq(A)] BY <1>1, <1>2
  <1>4. StepsOf(p, s, FALSE, t) = FlattenSeq(ss) BY DEF StepsOf
  <1>5. \A i \in 1 .. n : ss[i] = one(i) BY <1>1
  <1> HIDE DEF A, can, new, one, ss
  <1>6. /\ FlattenSeq(ss) \in Seq(A)
        /\ \A x : x \in Range(FlattenSeq(ss)) <=> \E i \in 1 .. n : x \in Range(ss[i])
    BY <1>3, FlattenIn
  <1>7. \A x : x \in Range(FlattenSeq(ss)) <=> \E i \in 1 .. n : can(i) /\ x = new(i)
    BY <1>1, <1>2, <1>5, <1>6
  <1> QED BY <1>1, <1>4, <1>6, <1>7 DEF A, can, new

LEMMA SuccessorsIn ==
    ASSUME NEW p \in Seq(Thread), NEW s \in Reached(p)
    PROVE  /\ Successors(p, s, FALSE) \in Seq(Reached(p))
           /\ \A x : x \in Range(Successors(p, s, FALSE)) <=>
                \E t \in Threads(p) : \E i \in Events(p, t) :
                  CanExec(p, s, FALSE, t, i) /\ x = Executed(p, s, FALSE, t, i)
  <1> DEFINE A == Reached(p)
             f1 == [t \in Threads(p) |-> FlushesOf(p, s, FALSE, t)]
             f2 == [n \in DOMAIN s.pending |-> DeliveriesOf(p, s, FALSE, n)]
             f3 == [t \in Threads(p) |-> StepsOf(p, s, FALSE, t)]
  <1>0. PICK n \in Nat : Threads(p) = 1 .. n BY ThreadShape
  <1>1. FlattenSeq(f1) \in Seq(A) /\ Range(FlattenSeq(f1)) = {}
    <2>1. ASSUME NEW t \in Threads(p) PROVE FlushesOf(p, s, FALSE, t) = <<>>
      <3>1. {x \in Locations(p) : CanFlush(s, FALSE, t, x)} = {} BY DEF CanFlush
      <3>2. SetToSeq({}) \in [1 .. 0 -> {}]
        <4>1. <<>> \in [1 .. 0 -> {}] /\ IsInjective(<<>>) BY DEF IsInjective
        <4>2. Cardinality({}) = 0 BY FS_EmptySet
        <4> QED BY <4>1, <4>2 DEF SetToSeq
      <3>3. DOMAIN SetToSeq({}) = {} BY <3>2
      <3>4. FlushesOf(p, s, FALSE, t) =
              [k \in DOMAIN SetToSeq({}) |-> Flushed(s, t, SetToSeq({})[k])]
        BY <3>1 DEF FlushesOf
      <3>5. FlushesOf(p, s, FALSE, t) = [k \in {} |-> Flushed(s, t, SetToSeq({})[k])] BY <3>3, <3>4
      <3>6. [k \in {} |-> Flushed(s, t, SetToSeq({})[k])] = <<>> OBVIOUS
      <3> QED BY <3>5, <3>6
    <2>2. f1 \in [1 .. n -> Seq(A)]
      <3>1. <<>> \in Seq(A) OBVIOUS
      <3> HIDE DEF A
      <3> QED BY <1>0, <2>1, <3>1
    <2>3. \A t \in 1 .. n : Range(f1[t]) = {}
      <3>1. Range(<<>>) = {} BY DEF Range
      <3>2. \A t \in 1 .. n : f1[t] = <<>> BY <1>0, <2>1
      <3> HIDE DEF f1
      <3> QED BY <3>1, <3>2
    <2> HIDE DEF A, f1
    <2>4. /\ FlattenSeq(f1) \in Seq(A)
          /\ \A x : x \in Range(FlattenSeq(f1)) <=> \E j \in 1 .. n : x \in Range(f1[j])
      BY <2>2, FlattenIn
    <2> QED BY <2>3, <2>4
  <1>2. FlattenSeq(f2) \in Seq(A) /\ Range(FlattenSeq(f2)) = {}
    <2>1. s.pending = <<>> BY DEF Reached, Rep
    <2>2. f2 \in [1 .. 0 -> Seq(A)] BY <2>1
    <2> HIDE DEF A, f2
    <2>3. /\ FlattenSeq(f2) \in Seq(A)
          /\ \A x : x \in Range(FlattenSeq(f2)) <=> \E j \in 1 .. 0 : x \in Range(f2[j])
      BY <2>2, FlattenIn
    <2>4. 1 .. 0 = {} OBVIOUS
    <2> QED BY <2>3, <2>4
  <1>3. /\ FlattenSeq(f3) \in Seq(A)
        /\ \A x : x \in Range(FlattenSeq(f3)) <=> \E t \in 1 .. n : x \in Range(StepsOf(p, s, FALSE, t))
    <2>1. f3 \in [1 .. n -> Seq(A)] BY <1>0, StepsIn
    <2>2. \A t \in 1 .. n : f3[t] = StepsOf(p, s, FALSE, t) BY <1>0
    <2> HIDE DEF A, f3
    <2> QED BY <2>1, <2>2, FlattenIn
  <1>4. Successors(p, s, FALSE) = FlattenSeq(f1) \o FlattenSeq(f2) \o FlattenSeq(f3) BY DEF Successors
  <1> HIDE DEF A, f1, f2, f3
  <1>5. PICK a \in Seq(A), b \in Seq(A), c \in Seq(A) :
          /\ a = FlattenSeq(f1) /\ b = FlattenSeq(f2) /\ c = FlattenSeq(f3)
          /\ Successors(p, s, FALSE) = (a \o b) \o c
    BY <1>1, <1>2, <1>3, <1>4
  <1>6. PICK d \in Seq(A) : d = a \o b /\ Range(d) = Range(a) \cup Range(b)
    <2>1. a \o b \in Seq(A) OBVIOUS
    <2>2. Range(a \o b) = Range(a) \cup Range(b) BY ConcatRange
    <2> QED BY <2>1, <2>2
  <1>7. d \o c \in Seq(A) /\ Range(d \o c) = Range(d) \cup Range(c) BY ConcatRange
  <1>8. Successors(p, s, FALSE) \in Seq(A) BY <1>5, <1>6, <1>7
  <1>9. \A x : x \in Range(Successors(p, s, FALSE)) <=> \E t \in Threads(p) : x \in Range(StepsOf(p, s, FALSE, t))
    <2>1. Range(Successors(p, s, FALSE)) = Range(c) BY <1>1, <1>2, <1>5, <1>6, <1>7
    <2>2. \A x : x \in Range(c) <=> \E t \in 1 .. n : x \in Range(StepsOf(p, s, FALSE, t)) BY <1>3, <1>5
    <2> QED BY <1>0, <2>1, <2>2
  <1>10. \A t \in Threads(p) : \A x : x \in Range(StepsOf(p, s, FALSE, t)) <=>
           \E i \in Events(p, t) : CanExec(p, s, FALSE, t, i) /\ x = Executed(p, s, FALSE, t, i)
    BY StepsIn
  <1>11. \A x : x \in Range(Successors(p, s, FALSE)) <=>
            \E t \in Threads(p) : \E i \in Events(p, t) :
              CanExec(p, s, FALSE, t, i) /\ x = Executed(p, s, FALSE, t, i)
    <2> TAKE x
    <2>1. ASSUME x \in Range(Successors(p, s, FALSE))
          PROVE  \E t \in Threads(p) : \E i \in Events(p, t) :
                   CanExec(p, s, FALSE, t, i) /\ x = Executed(p, s, FALSE, t, i)
      <3>1. PICK t \in Threads(p) : x \in Range(StepsOf(p, s, FALSE, t)) BY <1>9, <2>1
      <3>2. \E i \in Events(p, t) : CanExec(p, s, FALSE, t, i) /\ x = Executed(p, s, FALSE, t, i)
        BY <1>10, <3>1
      <3> QED BY <3>2
    <2>2. ASSUME NEW t \in Threads(p), NEW i \in Events(p, t),
                 CanExec(p, s, FALSE, t, i), x = Executed(p, s, FALSE, t, i)
          PROVE  x \in Range(Successors(p, s, FALSE))
      <3>1. x \in Range(StepsOf(p, s, FALSE, t)) BY <1>10, <2>2
      <3> QED BY <1>9, <3>1
    <2> QED BY <2>1, <2>2
  <1> QED BY <1>8, <1>11 DEF A

(* What a state of the search contributes once it was visited: its observations when it
   is complete, and otherwise its successors to the stack. *)
Explored(p, s, seen, todo, obs) ==
  IF Terminal(p, s) THEN s.obs \in obs
  ELSE \A t \in Threads(p) : \A i \in Events(p, t) :
         CanExec(p, s, FALSE, t, i) => Executed(p, s, FALSE, t, i) \in seen \cup todo

(* The inductive invariant: a run without the weak rules only meets sequentially
   consistent states; neither does the search under sequential consistency, which
   forgets no successor and reports only what it visited. *)
SearchTyped ==
  /\ prog \in DOMAIN Programs /\ weak \in BOOLEAN
  /\ phase \in {"run", "sc", "weak", "done"}
  /\ out = [sc |-> out.sc, weak |-> out.weak]
  /\ cut = [sc |-> cut.sc, weak |-> cut.weak]

RunReached == phase = "run" /\ ~weak => st \in Reached(P)

ScSearched ==
  phase = "sc" =>
    /\ stack \in Seq(Reached(P)) /\ visited \subseteq Reached(P)
    /\ InitState(P) \in visited \cup Range(stack)
    /\ \A s \in visited : Explored(P, s, visited, Range(stack), out.sc)
    /\ \A o \in out.sc : \E s \in visited : Terminal(P, s) /\ s.obs = o

SearchInv == SearchTyped /\ RunReached /\ ScSearched /\ SearchExact

LEMMA SearchInvInit == SInit => SearchInv
  <1> SUFFICES ASSUME SInit PROVE SearchInv OBVIOUS
  <1>1. SearchTyped BY SearchAssumption DEF SInit, SearchTyped, Init, StartSearch
  <1>2. P \in Seq(Thread) BY <1>1, ProgramTyped DEF SearchTyped, P
  <1>3. st = InitState(P) BY DEF SInit, Init, P
  <1>4. RunReached BY <1>2, <1>3, ReachedClosed DEF RunReached
  <1>5. ScSearched
    <2> SUFFICES ASSUME phase = "sc" PROVE ScSearched BY DEF ScSearched
    <2>1. stack = <<InitState(P)>> /\ visited = {} /\ out.sc = {} BY DEF SInit, StartSearch
    <2>2. PICK x \in Reached(P) : x = InitState(P) BY <1>2, ReachedClosed
    <2>3. <<x>> \in Seq(Reached(P)) OBVIOUS
    <2>4. x \in Range(<<x>>)
      <3>1. DOMAIN <<x>> = 1 .. 1 /\ <<x>>[1] = x OBVIOUS
      <3> QED BY <3>1 DEF Range
    <2> QED BY <2>1, <2>2, <2>3, <2>4 DEF ScSearched
  <1>6. SearchExact BY DEF SInit, SearchExact
  <1> QED BY <1>1, <1>4, <1>5, <1>6 DEF SearchInv

(* A step of one execution. *)
LEMMA RunStep ==
    ASSUME SearchInv, phase = "run", Next, UNCHANGED searchVars
    PROVE  SearchInv'
  <1>1. prog' = prog /\ weak' = weak
    BY DEF Next, Flush, Deliver, Write, Read, Barrier, Fork, JoinChildren, Acquire, Release, Marker, Exec
  <1>2. P \in Seq(Thread) BY ProgramTyped DEF SearchInv, SearchTyped, P
  <1>3. P' = P BY <1>1 DEF P
  <1>4. phase' = phase /\ stack' = stack /\ visited' = visited /\ out' = out /\ cut' = cut
    BY DEF searchVars
  <1>5. SearchTyped' BY <1>1, <1>4 DEF SearchInv, SearchTyped
  <1>6. RunReached'
    <2> SUFFICES ASSUME ~weak PROVE st' \in Reached(P) BY <1>1, <1>3, <1>4 DEF RunReached
    <2>1. weak = FALSE BY DEF SearchInv, SearchTyped
    <2>2. st \in Reached(P) BY DEF SearchInv, RunReached
    <2>3. \E t \in Threads(P) : \E i \in Events(P, t) :
            CanExec(P, st, FALSE, t, i) /\ st' = Executed(P, st, FALSE, t, i)
      <3>1. ~Flush BY <2>1 DEF Flush, CanFlush
      <3>2. ~Deliver BY <2>1 DEF Deliver, CanDeliver
      <3>3. PICK kinds : Exec(kinds)
        BY <3>1, <3>2 DEF Next, Write, Read, Barrier, Fork, JoinChildren, Acquire, Release, Marker
      <3> QED BY <2>1, <3>3 DEF Exec
    <2> QED BY <1>2, <2>2, <2>3, ReachedClosed
  <1>7. ScSearched' BY <1>4 DEF ScSearched
  <1>8. SearchExact' BY <1>4 DEF SearchExact
  <1> QED BY <1>5, <1>6, <1>7, <1>8 DEF SearchInv

(* A state stays explored when the visited states and the observations grow and nothing
   leaves the stack without having been visited. *)
LEMMA ExploredKept ==
    ASSUME NEW p, NEW s, NEW seen, NEW todo, NEW obs, NEW seen2, NEW todo2, NEW obs2,
           Explored(p, s, seen, todo, obs), seen \cup todo \subseteq seen2 \cup todo2, obs \subseteq obs2
    PROVE  Explored(p, s, seen2, todo2, obs2)
  BY DEF Explored

(* A turn of the search under sequential consistency. *)
LEMMA ScVisit ==
    ASSUME SearchInv, phase = "sc", VisitState, UNCHANGED vars
    PROVE  ScSearched'
  <1> DEFINE s == Last(stack)
             A == Reached(P)
  <1>1. P \in Seq(Thread) BY ProgramTyped DEF SearchInv, SearchTyped, P
  <1>2. P' = P /\ phase' = "sc" BY DEF P, vars, VisitState
  <1>3. /\ stack \in Seq(A) /\ visited \subseteq A /\ InitState(P) \in visited \cup Range(stack)
        /\ \A u \in visited : Explored(P, u, visited, Range(stack), out.sc)
        /\ \A o \in out.sc : \E u \in visited : Terminal(P, u) /\ u.obs = o
    BY DEF SearchInv, ScSearched
  <1>4. s \in A /\ Front(stack) \in Seq(A) /\ Range(stack) = Range(Front(stack)) \cup {s}
    <2> HIDE DEF A
    <2> QED BY <1>3, LastAndFront DEF VisitState
  <1>5. out = [sc |-> out.sc, weak |-> out.weak] BY DEF SearchInv, SearchTyped
  <1>6. visited' = visited \cup {s} BY DEF VisitState
  <1> SUFFICES /\ stack' \in Seq(A) /\ visited' \subseteq A
               /\ InitState(P) \in visited' \cup Range(stack')
               /\ \A u \in visited' : Explored(P, u, visited', Range(stack'), out'.sc)
               /\ \A o \in out'.sc : \E u \in visited' : Terminal(P, u) /\ u.obs = o
    BY <1>2 DEF ScSearched
  <1>7. CASE s \in visited
    <2>1. stack' = Front(stack) /\ out' = out BY <1>7 DEF VisitState
    <2>2. visited' = visited BY <1>6, <1>7
    <2>3. visited \cup Range(stack) \subseteq visited' \cup Range(stack') BY <1>4, <1>7, <2>1, <2>2
    <2>4. \A u \in visited' : Explored(P, u, visited', Range(stack'), out'.sc)
      <3>1. \A u \in visited : Explored(P, u, visited', Range(stack'), out.sc)
        BY <1>3, <2>3, ExploredKept
      <3> QED BY <2>1, <2>2, <3>1
    <2> HIDE DEF s, A
    <2> QED BY <1>3, <1>4, <2>1, <2>2, <2>3, <2>4
  <1>8. CASE s \notin visited /\ Terminal(P, s)
    <2>1. stack' = Front(stack) BY <1>8 DEF VisitState
    <2>2. out' = [out EXCEPT !["sc"] = @ \cup {s.obs}] BY <1>8 DEF VisitState
    <2>3. out'.sc = out.sc \cup {s.obs} BY <1>5, <2>2
    <2>4. visited \cup Range(stack) \subseteq visited' \cup Range(stack') BY <1>4, <1>6, <2>1
    <2>5. \A u \in visited : Explored(P, u, visited', Range(stack'), out'.sc)
      BY <1>3, <2>3, <2>4, ExploredKept
    <2>6. Explored(P, s, visited', Range(stack'), out'.sc) BY <1>8, <2>3 DEF Explored
    <2> HIDE DEF s, A
    <2> QED BY <1>3, <1>4, <1>6, <1>8, <2>1, <2>3, <2>4, <2>5, <2>6
  <1>9. CASE s \notin visited /\ ~Terminal(P, s)
    <2>1. stack' = Front(stack) \o Successors(P, s, FALSE) /\ out' = out BY <1>9 DEF VisitState
    <2>2. /\ Successors(P, s, FALSE) \in Seq(A)
          /\ \A x : x \in Range(Successors(P, s, FALSE)) <=>
               \E t \in Threads(P) : \E i \in Events(P, t) :
                 CanExec(P, s, FALSE, t, i) /\ x = Executed(P, s, FALSE, t, i)
      BY <1>1, <1>4, SuccessorsIn
    <2> HIDE DEF s, A
    <2>3. PICK a \in Seq(A), b \in Seq(A) : a = Front(stack) /\ b = Successors(P, s, FALSE) BY <1>4, <2>2
    <2>4. stack' \in Seq(A) /\ Range(stack') = Range(a) \cup Range(b)
      <3>1. a \o b \in Seq(A) OBVIOUS
      <3>2. Range(a \o b) = Range(a) \cup Range(b) BY ConcatRange
      <3> QED BY <2>1, <2>3, <3>1, <3>2
    <2>5. visited \cup Range(stack) \subseteq visited' \cup Range(stack') BY <1>4, <1>6, <2>3, <2>4
    <2>6. \A u \in visited : Explored(P, u, visited', Range(stack'), out'.sc)
      <3>1. \A u \in visited : Explored(P, u, visited', Range(stack'), out.sc)
        BY <1>3, <2>5, ExploredKept
      <3> QED BY <2>1, <3>1
    <2>7. Explored(P, s, visited', Range(stack'), out'.sc)
      <3>1. ASSUME NEW t \in Threads(P), NEW i \in Events(P, t), CanExec(P, s, FALSE, t, i)
            PROVE  Executed(P, s, FALSE, t, i) \in Range(stack')
        <4>1. Executed(P, s, FALSE, t, i) \in Range(b) BY <2>2, <2>3, <3>1
        <4> QED BY <2>4, <4>1
      <3> QED BY <1>9, <3>1 DEF Explored
    <2> QED BY <1>3, <1>4, <1>6, <2>1, <2>4, <2>5, <2>6, <2>7
  <1> QED BY <1>7, <1>8, <1>9

(* The search under sequential consistency ran to its end: what it visited is closed
   under execution, so it is everything. *)
LEMMA ScComplete ==
    ASSUME SearchInv, phase = "sc", stack = <<>>
    PROVE  out.sc = ScObs[prog]
  <1>1. P \in Seq(Thread) /\ prog \in DOMAIN Programs /\ P = Programs[prog]
    BY ProgramTyped DEF SearchInv, SearchTyped, P
  <1>2. /\ visited \subseteq Reached(P) /\ InitState(P) \in visited
        /\ \A u \in visited : Explored(P, u, visited, {}, out.sc)
        /\ \A o \in out.sc : \E u \in visited : Terminal(P, u) /\ u.obs = o
    <2>1. Range(stack) = {} BY DEF Range
    <2> QED BY <2>1 DEF SearchInv, ScSearched
  <1>3. \A u \in visited : ~Terminal(P, u) => \A t \in Threads(P) : \A i \in Events(P, t) :
          CanExec(P, u, FALSE, t, i) => Executed(P, u, FALSE, t, i) \in visited
    BY <1>2 DEF Explored
  <1>4. Reached(P) = visited
    <2>1. Reached(P) \subseteq visited BY <1>1, <1>2, <1>3, ReachedLeast
    <2> QED BY <1>2, <2>1
  <1>5. \A u \in visited : Terminal(P, u) => u.obs \in out.sc BY <1>2 DEF Explored
  <1>6. ScObs[prog] = {u.obs : u \in {v \in Reached(P) : Terminal(P, v)}} BY <1>1, ScObsIs
  <1> QED BY <1>2, <1>4, <1>5, <1>6

LEMMA SearchInvStep == SearchInv /\ [SNext]_<<vars, searchVars>> => SearchInv'
  <1> SUFFICES ASSUME SearchInv, [SNext]_<<vars, searchVars>> PROVE SearchInv' OBVIOUS
  <1>1. CASE phase = "run" /\ Next /\ UNCHANGED searchVars BY <1>1, RunStep
  <1>2. CASE VisitState /\ UNCHANGED vars
    <2>1. prog' = prog /\ weak' = weak /\ st' = st /\ phase' = phase /\ cut' = cut BY <1>2 DEF VisitState, vars
    <2>2. phase \in {"sc", "weak"} BY <1>2 DEF VisitState
    <2>3. out = [sc |-> out.sc, weak |-> out.weak] BY DEF SearchInv, SearchTyped
    <2>4. out' = [sc |-> out'.sc, weak |-> out'.weak] /\ (phase = "weak" => out'.sc = out.sc)
      <3>1. CASE out' = out BY <2>3, <3>1
      <3>2. CASE out' = [out EXCEPT ![phase] = @ \cup {Last(stack).obs}]
        <4>1. CASE phase = "sc" BY <2>3, <3>2, <4>1
        <4>2. CASE phase = "weak" BY <2>3, <3>2, <4>2
        <4> QED BY <2>2, <4>1, <4>2
      <3> QED BY <1>2, <3>1, <3>2 DEF VisitState
    <2>5. SearchTyped' BY <2>1, <2>4 DEF SearchInv, SearchTyped
    <2>6. RunReached' BY <2>1, <2>2 DEF RunReached
    <2>7. ScSearched'
      <3>1. CASE phase = "sc" BY <1>2, <3>1, ScVisit
      <3>2. CASE phase = "weak" BY <2>1, <3>2 DEF ScSearched
      <3> QED BY <2>2, <3>1, <3>2
    <2>8. SearchExact' BY <2>1, <2>2, <2>4 DEF SearchInv, SearchExact
    <2> QED BY <2>5, <2>6, <2>7, <2>8 DEF SearchInv
  <1>3. CASE EndSearch /\ UNCHANGED vars
    <2>1. prog' = prog /\ weak' = weak /\ st' = st /\ out' = out BY <1>3 DEF EndSearch, vars
    <2>2. phase \in {"sc", "weak"} /\ phase' = (IF phase = "sc" THEN "weak" ELSE "done") BY <1>3 DEF EndSearch
    <2>3. cut = [sc |-> cut.sc, weak |-> cut.weak] BY DEF SearchInv, SearchTyped
    <2>4. cut' = [cut EXCEPT ![phase] = stack # <<>>] BY <1>3 DEF EndSearch
    <2>5. SearchTyped'
      <3>1. cut' = [sc |-> cut'.sc, weak |-> cut'.weak]
        <4>1. CASE phase = "sc" BY <2>3, <2>4, <4>1
        <4>2. CASE phase = "weak" BY <2>3, <2>4, <4>2
        <4> QED BY <2>2, <4>1, <4>2
      <3> QED BY <2>1, <2>2, <3>1 DEF SearchInv, SearchTyped
    <2>6. RunReached' /\ ScSearched' BY <2>2 DEF RunReached, ScSearched
    <2>7. SearchExact'
      <3> SUFFICES ASSUME ~cut'.sc PROVE out.sc = ScObs[prog] BY <2>1 DEF SearchExact
      <3>1. CASE phase = "sc"
        <4>1. cut'.sc = (stack # <<>>) BY <2>3, <2>4, <3>1
        <4> QED BY <3>1, <4>1, ScComplete
      <3>2. CASE phase = "weak"
        <4>1. cut'.sc = cut.sc BY <2>3, <2>4, <3>2
        <4> QED BY <3>2, <4>1 DEF SearchInv, SearchExact
      <3> QED BY <2>2, <3>1, <3>2
    <2> QED BY <2>5, <2>6, <2>7 DEF SearchInv
  <1>4. CASE UNCHANGED <<vars, searchVars>>
    <2>1. prog' = prog /\ weak' = weak /\ st' = st /\ phase' = phase /\ stack' = stack
          /\ visited' = visited /\ out' = out /\ cut' = cut
      BY <1>4 DEF vars, searchVars
    <2>2. P' = P BY <2>1 DEF P
    <2>3. SearchTyped' /\ SearchExact' BY <2>1 DEF SearchInv, SearchTyped, SearchExact
    <2>4. RunReached' /\ ScSearched' BY <2>1, <2>2 DEF SearchInv, RunReached, ScSearched
    <2> QED BY <2>3, <2>4 DEF SearchInv
  <1> QED BY <1>1, <1>2, <1>3, <1>4 DEF SNext

(* What a search that was not cut short reports for sequential consistency is exactly
   the observations of the interleavings over one memory, for every program, every
   budget and every search (op_reachable, weak_memory_nonrobustness). *)
THEOREM SearchIsExact == SSpec => []SearchExact
  <1>1. SearchInv => SearchExact BY DEF SearchInv
  <1> QED BY <1>1, SearchInvInit, SearchInvStep, PTL DEF SSpec

(* `weak = false gives sequential consistency': a complete execution of the operational
   model without the weak rules observes what some interleaving over one memory does. *)
THEOREM ModelIsSC == SSpec => []ScMatchesReference
  <1>1. SearchInv => ScMatchesReference
    <2> SUFFICES ASSUME SearchInv, Finished, ~weak PROVE st.obs \in ScObs[prog] BY DEF ScMatchesReference
    <2>1. prog \in DOMAIN Programs /\ P = Programs[prog] BY DEF SearchInv, SearchTyped, P
    <2>2. st \in Reached(P) /\ Terminal(P, st) BY DEF SearchInv, RunReached, Finished
    <2> QED BY <2>1, <2>2, ScObsIs
  <1> QED BY <1>1, SearchInvInit, SearchInvStep, PTL DEF SSpec

-----------------------------------------------------------------------------
(* The detectors that read the traces: locks and joins of an execution, under
   either memory model, against what LifetimeTracker records. *)

Fields == {"consumed", "bufs", "views", "pending", "held", "spawned", "obs"}

Shaped(p, s) == DOMAIN s = Fields /\ DOMAIN s.consumed = Threads(p) /\ DOMAIN s.held = Threads(p)

(* The locks a thread holds after an event. *)
Relocked(p, s, t, i) ==
  IF Ev(p, t, i).k = "Acquire" THEN [s.held EXCEPT ![t] = @ \cup {Ev(p, t, i).x}]
  ELSE IF Ev(p, t, i).k = "Release" THEN [s.held EXCEPT ![t] = @ \ {Ev(p, t, i).x}]
  ELSE s.held

(* What an execution does to the events taken and to the locks. *)
Taken(p, s, t, i, n) ==
  /\ Shaped(p, n)
  /\ n.consumed = [s.consumed EXCEPT ![t] = @ \cup {i}]
  /\ n.held = Relocked(p, s, t, i)

LEMMA ExecLocks ==
    ASSUME NEW p, NEW s, Shaped(p, s), NEW w, NEW t \in Threads(p), NEW i
    PROVE  Taken(p, s, t, i, Executed(p, s, w, t, i))
  <1> DEFINE e == Ev(p, t, i)
             n == Executed(p, s, w, t, i)
             C == [s.consumed EXCEPT ![t] = @ \cup {i}]
  <1>0. DOMAIN C = Threads(p) BY DEF Shaped
  <1>1. PICK k : k = Consumed(s, t, i) OBVIOUS
  <1>2. DOMAIN k = Fields /\ k.consumed = C /\ k.held = s.held
    <2> HIDE DEF C
    <2>1. k = [s EXCEPT !.consumed = C] BY <1>1 DEF Consumed, C
    <2> QED BY <2>1 DEF Shaped, Fields
  <1> HIDE DEF C
  <1> SUFFICES DOMAIN n = Fields /\ n.consumed = C /\ n.held = Relocked(p, s, t, i)
    <2>1. DOMAIN Relocked(p, s, t, i) = Threads(p) BY DEF Relocked, Shaped
    <2> QED BY <1>0, <2>1 DEF Taken, Shaped, C
  <1>3. CASE e.k \in Writes
    <2>1. n = Written(p, s, w, t, i) BY <1>3 DEF Executed, Reads, Writes
    <2>2. Relocked(p, s, t, i) = s.held BY <1>3 DEF Relocked, Writes
    <2>3. CASE w
      <3>1. n = [k EXCEPT !.bufs[t][e.x] = Append(@, <<t, i>>)] BY <1>1, <2>1, <2>3 DEF Written
      <3> QED BY <1>2, <2>2, <3>1 DEF Fields
    <2>4. CASE ~w
      <3>1. n = [k EXCEPT !.views = [u \in Threads(p) |-> [@[u] EXCEPT ![e.x] = <<t, i>>]]]
        BY <1>1, <2>1, <2>4 DEF Written
      <3> QED BY <1>2, <2>2, <3>1 DEF Fields
    <2> QED BY <2>3, <2>4
  <1>4. CASE e.k \in Reads
    <2>1. PICK o : n = [k EXCEPT !.obs = o] BY <1>1, <1>4 DEF Executed, Observed, Reads, Writes
    <2>2. Relocked(p, s, t, i) = s.held BY <1>4 DEF Relocked, Reads
    <2> QED BY <1>2, <2>1, <2>2 DEF Fields
  <1>5. CASE e.k = "Spawn"
    <2>1. n = Spawned(p, s, t, i) BY <1>5 DEF Executed, Reads, Writes
    <2>2. Relocked(p, s, t, i) = s.held BY <1>5 DEF Relocked
    <2>3. n = k \/ n = [k EXCEPT !.spawned[spawn_target(p, t, i)] = TRUE] BY <1>1, <2>1 DEF Spawned
    <2> QED BY <1>2, <2>2, <2>3 DEF Fields
  <1>6. CASE e.k = "Acquire"
    <2>1. n = [k EXCEPT !.held[t] = @ \cup {e.x}] BY <1>1, <1>6 DEF Executed, Reads, Writes
    <2>2. Relocked(p, s, t, i) = [k.held EXCEPT ![t] = @ \cup {e.x}] BY <1>2, <1>6 DEF Relocked
    <2> QED BY <1>2, <2>1, <2>2 DEF Fields
  <1>7. CASE e.k = "Release"
    <2>1. n = [k EXCEPT !.held[t] = @ \ {e.x}] BY <1>1, <1>7 DEF Executed, Reads, Writes
    <2>2. Relocked(p, s, t, i) = [k.held EXCEPT ![t] = @ \ {e.x}] BY <1>2, <1>7 DEF Relocked
    <2> QED BY <1>2, <2>1, <2>2 DEF Fields
  <1>8. CASE e.k \notin Accesses \cup {"Spawn", "Acquire", "Release"}
    <2>1. n = k BY <1>1, <1>8 DEF Executed, Reads, Writes, Accesses
    <2>2. Relocked(p, s, t, i) = s.held BY <1>8 DEF Relocked
    <2> QED BY <1>2, <2>1, <2>2
  <1> QED BY <1>3, <1>4, <1>5, <1>6, <1>7, <1>8 DEF Accesses

(* A flush or a delivery leaves the events, the locks and the threads alone. *)
LEMMA PropagationLocks ==
    ASSUME NEW p, NEW s, Shaped(p, s)
    PROVE  \A n : ((\E t, x : n = Flushed(s, t, x)) \/ (\E m, u : n = Delivered(p, s, m, u)))
             => Shaped(p, n) /\ n.consumed = s.consumed /\ n.held = s.held
  <1>1. ASSUME NEW t, NEW x, NEW n, n = Flushed(s, t, x)
        PROVE  DOMAIN n = Fields /\ n.consumed = s.consumed /\ n.held = s.held
    BY <1>1 DEF Flushed, Shaped, Fields
  <1>2. ASSUME NEW m, NEW u, NEW n, n = Delivered(p, s, m, u)
        PROVE  DOMAIN n = Fields /\ n.consumed = s.consumed /\ n.held = s.held
    BY <1>2 DEF Delivered, Shaped, Fields
  <1> QED BY <1>1, <1>2 DEF Shaped

(* Thread t took lock x and did not release it again. *)
Holds(p, c, t, x) ==
  \E a \in c[t] : /\ Ev(p, t, a).k = "Acquire" /\ Ev(p, t, a).x = x
                  /\ \A b \in c[t] : b > a => ~(Ev(p, t, b).k = "Release" /\ Ev(p, t, b).x = x)

(* Only plain reads overtake: any other event comes after everything before it.  The
   locks held are those the executed events took, no two threads hold the same one, and
   the children of a thread that joined are finished. *)
InOrder(p, c) ==
  \A t \in Threads(p) : /\ c[t] \subseteq Events(p, t)
                        /\ \A j \in c[t] : Ev(p, t, j).k # "Read" => 1 .. (j - 1) \subseteq c[t]

LocksHeld(p, c, h) == \A t \in Threads(p) : \A x : x \in h[t] <=> Holds(p, c, t, x)

Exclusive(p, h) == \A t, u \in Threads(p) : t # u => h[t] \cap h[u] = {}

ChildrenDone(p, c) ==
  \A t, u \in Threads(p) : \A j \in c[t] :
    (Ev(p, t, j).k = "Join" /\ parent_of(p, u) = t) => c[u] = Events(p, u)

LockInv(p, s) ==
  /\ Shaped(p, s)
  /\ InOrder(p, s.consumed) /\ LocksHeld(p, s.consumed, s.held)
  /\ Exclusive(p, s.held) /\ ChildrenDone(p, s.consumed)

LEMMA LockInvInit ==
    ASSUME NEW p
    PROVE  LockInv(p, InitState(p))
  <1>1. PICK s : s = InitState(p) OBVIOUS
  <1>2. /\ DOMAIN s = Fields /\ s.consumed = [t \in Threads(p) |-> {}]
        /\ s.held = [t \in Threads(p) |-> {}]
    BY <1>1 DEF InitState, Fields
  <1>3. Shaped(p, s) /\ InOrder(p, s.consumed) /\ Exclusive(p, s.held) /\ ChildrenDone(p, s.consumed)
    BY <1>2 DEF Shaped, InOrder, Exclusive, ChildrenDone
  <1>4. LocksHeld(p, s.consumed, s.held) BY <1>2 DEF LocksHeld, Holds
  <1> QED BY <1>1, <1>3, <1>4 DEF LockInv

(* When an event may be executed, what was executed before it in its thread and is not
   a plain read comes before it in the trace. *)
LEMMA BeforeIt ==
    ASSUME NEW p \in Seq(Thread), NEW s, InOrder(p, s.consumed), NEW w, NEW t \in Threads(p),
           NEW i \in Events(p, t), takeable(p, s, w, t, i)
    PROVE  /\ i \in Nat /\ s.consumed[t] \subseteq Nat /\ i \notin s.consumed[t]
           /\ \A b \in s.consumed[t] : Ev(p, t, b).k # "Read" => b < i
           /\ \A j \in 1 .. (i - 1) : Ev(p, t, j).k \notin Reads => j \in s.consumed[t]
           /\ Ev(p, t, i).k # "Read" => 1 .. (i - 1) \subseteq s.consumed[t]
  <1>1. Events(p, t) \subseteq Nat \ {0} /\ i \in Nat \ {0} BY ThreadShape
  <1>2. s.consumed[t] \subseteq Nat \ {0} BY <1>1 DEF InOrder
  <1>3. i \notin s.consumed[t] BY DEF takeable
  <1>4. ASSUME NEW b \in s.consumed[t], Ev(p, t, b).k # "Read" PROVE b < i
    <2>1. 1 .. (b - 1) \subseteq s.consumed[t] BY <1>4 DEF InOrder
    <2>2. CASE b > i
      <3>1. i \in 1 .. (b - 1) BY <1>1, <1>2, <2>2
      <3> QED BY <1>3, <2>1, <3>1
    <2> QED BY <1>1, <1>2, <1>3, <2>2
  <1> QED BY <1>1, <1>2, <1>3, <1>4 DEF takeable

LEMMA LocksKept ==
    ASSUME NEW p \in Seq(Thread), NEW s, LockInv(p, s), NEW w, NEW t \in Threads(p),
           NEW i \in Events(p, t), CanExec(p, s, w, t, i),
           NEW d, d = [s.consumed EXCEPT ![t] = @ \cup {i}],
           NEW x
    PROVE  x \in Relocked(p, s, t, i)[t] <=> Holds(p, d, t, x)
  <1> DEFINE c == s.consumed
             e == Ev(p, t, i)
  <1>1. d[t] = c[t] \cup {i} BY DEF LockInv, Shaped
  <1>2. /\ i \in Nat /\ c[t] \subseteq Nat /\ i \notin c[t]
        /\ \A b \in c[t] : Ev(p, t, b).k # "Read" => b < i
    BY BeforeIt DEF CanExec, LockInv
  <1>3. x \in s.held[t] <=> Holds(p, c, t, x) BY DEF LockInv, LocksHeld
  <1>4. CASE e.k = "Acquire" /\ e.x = x
    <2>1. x \in Relocked(p, s, t, i)[t] BY <1>4 DEF Relocked, LockInv, Shaped
    <2>2. \A b \in d[t] : b > i => Ev(p, t, b).k = "Read" BY <1>1, <1>2
    <2>3. Holds(p, d, t, x) BY <1>1, <1>4, <2>2 DEF Holds
    <2> QED BY <2>1, <2>3
  <1>5. CASE e.k = "Release" /\ e.x = x
    <2>1. x \notin Relocked(p, s, t, i)[t] BY <1>5 DEF Relocked, LockInv, Shaped
    <2>2. ASSUME Holds(p, d, t, x) PROVE FALSE
      <3>1. PICK a \in d[t] : /\ Ev(p, t, a).k = "Acquire"
                              /\ \A b \in d[t] : b > a => ~(Ev(p, t, b).k = "Release" /\ Ev(p, t, b).x = x)
        BY <2>2 DEF Holds
      <3>2. a # i BY <1>5, <3>1
      <3>3. a < i BY <1>1, <1>2, <3>1, <3>2
      <3>4. i > a BY <1>1, <1>2, <3>2, <3>3
      <3> QED BY <1>1, <1>5, <3>1, <3>4
    <2> QED BY <2>1, <2>2
  <1>6. CASE ~(e.k \in {"Acquire", "Release"} /\ e.x = x)
    <2>1. x \in Relocked(p, s, t, i)[t] <=> x \in s.held[t]
      <3> DEFINE h == s.held[t]
      <3>1. Relocked(p, s, t, i)[t] = IF e.k = "Acquire" THEN h \cup {e.x}
                                      ELSE IF e.k = "Release" THEN h \ {e.x} ELSE h
        BY DEF Relocked, LockInv, Shaped
      <3> HIDE DEF h, e
      <3> QED BY <1>6, <3>1 DEF h
    <2>2. ASSUME Holds(p, c, t, x) PROVE Holds(p, d, t, x)
      <3>1. PICK a \in c[t] : /\ Ev(p, t, a).k = "Acquire" /\ Ev(p, t, a).x = x
                              /\ \A b \in c[t] : b > a => ~(Ev(p, t, b).k = "Release" /\ Ev(p, t, b).x = x)
        BY <2>2 DEF Holds
      <3>2. \A b \in d[t] : b > a => ~(Ev(p, t, b).k = "Release" /\ Ev(p, t, b).x = x) BY <1>1, <1>6, <3>1
      <3> QED BY <1>1, <3>1, <3>2 DEF Holds
    <2>3. ASSUME Holds(p, d, t, x) PROVE Holds(p, c, t, x)
      <3>1. PICK a \in d[t] : /\ Ev(p, t, a).k = "Acquire" /\ Ev(p, t, a).x = x
                              /\ \A b \in d[t] : b > a => ~(Ev(p, t, b).k = "Release" /\ Ev(p, t, b).x = x)
        BY <2>3 DEF Holds
      <3>2. a \in c[t] BY <1>1, <1>6, <3>1
      <3> QED BY <1>1, <3>1, <3>2 DEF Holds
    <2> QED BY <1>3, <2>1, <2>2, <2>3
  <1> QED BY <1>4, <1>5, <1>6

(* Executing an event keeps the invariant. *)
LEMMA LockInvExec ==
    ASSUME NEW p \in Seq(Thread), NEW s, LockInv(p, s), NEW w, NEW t \in Threads(p),
           NEW i \in Events(p, t), CanExec(p, s, w, t, i)
    PROVE  LockInv(p, Executed(p, s, w, t, i))
  <1> DEFINE c == s.consumed
             g == Relocked(p, s, t, i)
             e == Ev(p, t, i)
  <1>1. PICK n : n = Executed(p, s, w, t, i) OBVIOUS
  <1>2. PICK d : d = [c EXCEPT ![t] = @ \cup {i}] OBVIOUS
  <1>3. Shaped(p, n) /\ n.consumed = d /\ n.held = g
    <2>1. Shaped(p, s) BY DEF LockInv
    <2>2. Taken(p, s, t, i, n) BY <1>1, <2>1, ExecLocks
    <2> QED BY <1>2, <2>2 DEF Taken
  <1>4. d[t] = c[t] \cup {i} /\ \A u \in Threads(p) : u # t => d[u] = c[u]
    BY <1>2 DEF LockInv, Shaped
  <1>5. \A u \in Threads(p) : u # t => g[u] = s.held[u] BY DEF Relocked, LockInv, Shaped
  <1>6. InOrder(p, d)
    <2>1. \A u \in Threads(p) : u # t => d[u] \subseteq Events(p, u) /\
            \A j \in d[u] : Ev(p, u, j).k # "Read" => 1 .. (j - 1) \subseteq d[u]
      BY <1>4 DEF LockInv, InOrder
    <2>2. d[t] \subseteq Events(p, t) BY <1>4 DEF LockInv, InOrder
    <2>3. \A j \in c[t] : Ev(p, t, j).k # "Read" => 1 .. (j - 1) \subseteq d[t] BY <1>4 DEF LockInv, InOrder
    <2>4. Ev(p, t, i).k # "Read" => 1 .. (i - 1) \subseteq d[t]
      <3>1. Ev(p, t, i).k # "Read" => 1 .. (i - 1) \subseteq c[t] BY BeforeIt DEF LockInv, CanExec
      <3> QED BY <1>4, <3>1
    <2>5. \A j \in d[t] : Ev(p, t, j).k # "Read" => 1 .. (j - 1) \subseteq d[t] BY <1>4, <2>3, <2>4
    <2> QED BY <2>1, <2>2, <2>5 DEF InOrder
  <1>7. LocksHeld(p, d, g)
    <2>1. ASSUME NEW u \in Threads(p), u # t, NEW x PROVE x \in g[u] <=> Holds(p, d, u, x)
      <3>1. x \in s.held[u] <=> Holds(p, c, u, x) BY DEF LockInv, LocksHeld
      <3>2. d[u] = c[u] /\ g[u] = s.held[u] BY <1>4, <1>5, <2>1
      <3> QED BY <3>1, <3>2 DEF Holds
    <2>2. \A x : x \in g[t] <=> Holds(p, d, t, x) BY <1>2, LocksKept
    <2> QED BY <2>1, <2>2 DEF LocksHeld
  <1>8. Exclusive(p, g)
    <2>1. \A u, v \in Threads(p) : u # v => s.held[u] \cap s.held[v] = {} BY DEF LockInv, Exclusive
    <2>2. g[t] \subseteq s.held[t] \cup {e.x} /\ (e.k # "Acquire" => g[t] \subseteq s.held[t])
      BY DEF Relocked, LockInv, Shaped
    <2>3. e.k = "Acquire" => \A o \in Threads(p) : o # t => e.x \notin s.held[o] BY DEF CanExec, Ready
    <2>4. \A o \in Threads(p) : o # t => g[t] \cap s.held[o] = {}
      <3> HIDE DEF g, e
      <3> QED BY <2>1, <2>2, <2>3
    <2> HIDE DEF g
    <2> QED BY <1>5, <2>1, <2>4 DEF Exclusive
  <1>9. ChildrenDone(p, d)
    <2> SUFFICES ASSUME NEW v \in Threads(p), NEW u \in Threads(p), NEW j \in d[v],
                        Ev(p, v, j).k = "Join", parent_of(p, u) = v
                 PROVE  d[u] = Events(p, u)
      BY DEF ChildrenDone
    <2>1. c[u] \subseteq d[u] /\ d[u] \subseteq Events(p, u) BY <1>4, <1>6 DEF InOrder
    <2>2. c[u] = Events(p, u)
      <3>1. CASE j \in c[v] BY <3>1 DEF LockInv, ChildrenDone
      <3>2. CASE j \notin c[v]
        <4>1. v = t /\ j = i BY <1>4, <3>2
        <4> QED BY <4>1 DEF CanExec, Ready
      <3> QED BY <3>1, <3>2
    <2> QED BY <2>1, <2>2
  <1> QED BY <1>1, <1>3, <1>6, <1>7, <1>8, <1>9 DEF LockInv

(* The locks recorded for an event that may be executed are the locks held there. *)
LEMMA HeldThere ==
    ASSUME NEW p \in Seq(Thread), NEW s, LockInv(p, s), NEW w, NEW t \in Threads(p),
           NEW i \in Events(p, t), CanExec(p, s, w, t, i)
    PROVE  heldAt(p[t], i) \subseteq s.held[t]
  <1> DEFINE c == s.consumed[t]
  <1>1. /\ i \in Nat /\ c \subseteq Nat
        /\ \A b \in c : Ev(p, t, b).k # "Read" => b < i
        /\ \A j \in 1 .. (i - 1) : Ev(p, t, j).k \notin Reads => j \in c
    BY BeforeIt DEF CanExec, LockInv
  <1>2. \A j : Ev(p, t, j) = p[t].events[j] BY DEF Ev
  <1> SUFFICES ASSUME NEW x \in heldAt(p[t], i) PROVE x \in s.held[t] OBVIOUS
  <1>3. PICK a \in 1 .. (i - 1) :
          /\ Ev(p, t, a).k = "Acquire" /\ Ev(p, t, a).x = x
          /\ \A b \in (a + 1) .. (i - 1) : ~(Ev(p, t, b).k = "Release" /\ Ev(p, t, b).x = x)
    BY <1>2 DEF heldAt
  <1>4. a \in c BY <1>1, <1>3 DEF Reads
  <1>5. ASSUME NEW b \in c, b > a PROVE ~(Ev(p, t, b).k = "Release" /\ Ev(p, t, b).x = x)
    <2>1. CASE Ev(p, t, b).k = "Release"
      <3>1. b < i BY <1>1, <2>1
      <3>2. b \in (a + 1) .. (i - 1) BY <1>1, <1>5, <3>1
      <3> QED BY <1>3, <3>2
    <2> QED BY <2>1
  <1>6. Holds(p, s.consumed, t, x) BY <1>3, <1>4, <1>5 DEF Holds
  <1> QED BY <1>6 DEF LockInv, LocksHeld

LEMMA HeldApart ==
    ASSUME NEW p \in Seq(Thread), NEW s, LockInv(p, s), NEW w,
           NEW t \in Threads(p), NEW i \in Events(p, t), CanExec(p, s, w, t, i),
           NEW u \in Threads(p), NEW j \in Events(p, u), CanExec(p, s, w, u, j), t # u
    PROVE  heldAt(p[t], i) \cap heldAt(p[u], j) = {}
  <1>1. heldAt(p[t], i) \subseteq s.held[t] BY HeldThere
  <1>2. heldAt(p[u], j) \subseteq s.held[u] BY HeldThere
  <1>3. s.held[t] \cap s.held[u] = {} BY DEF LockInv, Exclusive
  <1> QED BY <1>1, <1>2, <1>3

(* The set of functions detect_races counts. *)
FunctionsAt(A, x) == {a.function : a \in {b \in A : b.location = x}}

LEMMA DetectedIn ==
    ASSUME NEW A, NEW x, NEW a \in A, NEW b \in A, NEW c \in A,
           a.location = x, b.location = x, c.location = x, a.write,
           a.lockset \cap b.lockset = {}, c.lockset # {}, Cardinality(FunctionsAt(A, x)) >= 2
    PROVE  x \in detect_races(A, {}, FALSE)
  <1> DEFINE at == {q \in A : q.location = x}
             union == UNION {q.lockset : q \in at}
             candidate == {l \in union : \A q \in at : l \in q.lockset}
  <1>1. a \in at /\ b \in at /\ c \in at OBVIOUS
  <1>2. candidate = {} BY <1>1
  <1>3. union # {} BY <1>1
  <1>4. \E q \in at : q.write BY <1>1
  <1>5. Cardinality({q.function : q \in at}) >= 2 BY DEF FunctionsAt
  <1>6. {q \in A : FALSE => q.function \in {}} = A OBVIOUS
  <1>7. x \in {q.location : q \in A} OBVIOUS
  <1> QED BY <1>2, <1>3, <1>4, <1>5, <1>6, <1>7 DEF detect_races

LEMMA PairSize ==
    ASSUME NEW m, NEW n, m # n
    PROVE  Cardinality({m} \cup {n}) = 2
  <1>1. IsFiniteSet({m}) /\ Cardinality({m}) = 1 BY FS_Singleton
  <1>2. n \notin {m} OBVIOUS
  <1>3. Cardinality({m} \cup {n}) = Cardinality({m}) + 1 BY <1>1, <1>2, FS_AddElement
  <1> QED BY <1>1, <1>3

(* Two functions named there are two. *)
LEMMA TwoFunctions ==
    ASSUME NEW p \in Seq(Thread), NEW x, NEW m, NEW n, m # n,
           m \in FunctionsAt(TaggedAccesses(p), x), n \in FunctionsAt(TaggedAccesses(p), x)
    PROVE  Cardinality(FunctionsAt(TaggedAccesses(p), x)) >= 2
  <1> DEFINE F == FunctionsAt(TaggedAccesses(p), x)
             N == {p[t].name : t \in Threads(p)}
             f == [t \in Threads(p) |-> p[t].name]
  <1>1. IsFiniteSet(Threads(p)) BY ThreadShape, FS_Interval
  <1>2. IsFiniteSet(N)
    <2>1. f \in Surjection(Threads(p), N) BY DEF Surjection
    <2> HIDE DEF f, N
    <2> QED BY <1>1, <2>1, FS_Surjection
  <1>3. F \subseteq N
    <2>1. \A a \in TaggedAccesses(p) : a.function \in N BY DEF TaggedAccesses
    <2> QED BY <2>1 DEF FunctionsAt
  <1> HIDE DEF F, N, f
  <1>4. IsFiniteSet(F) BY <1>2, <1>3, FS_Subset
  <1>6. Cardinality({m} \cup {n}) = 2 BY PairSize
  <1>7. {m} \cup {n} \in SUBSET F BY DEF F
  <1>8. Cardinality({m} \cup {n}) <= Cardinality(F) BY <1>4, <1>7, FS_Subset
  <1>9. Cardinality(F) \in Nat BY <1>4, FS_CardinalityType
  <1> QED BY <1>6, <1>8, <1>9 DEF F

(* Two threads that can both go ahead on a location that is locked somewhere. *)
LEMMA RaceFound ==
    ASSUME NEW p \in Seq(Thread), NEW s, LockInv(p, s), NEW w,
           NEW t \in Threads(p), NEW i \in Events(p, t), CanExec(p, s, w, t, i), Ev(p, t, i).k \in Writes,
           NEW u \in Threads(p), NEW j \in Events(p, u), CanExec(p, s, w, u, j), Ev(p, u, j).k \in Accesses,
           t # u, p[t].name # p[u].name, Ev(p, t, i).x = Ev(p, u, j).x,
           NEW c \in TaggedAccesses(p), c.location = Ev(p, t, i).x, c.lockset # {}
    PROVE  Ev(p, t, i).x \in detect_races(TaggedAccesses(p), {}, FALSE)
  <1> DEFINE A == TaggedAccesses(p)
             x == Ev(p, t, i).x
             R(v, m) == [function |-> p[v].name, location |-> Ev(p, v, m).x,
                         write |-> Ev(p, v, m).k \in Writes, lockset |-> heldAt(p[v], m)]
  <1>1. ASSUME NEW v \in Threads(p), NEW m \in Events(p, v), Ev(p, v, m).k \in Accesses PROVE R(v, m) \in A
    <2>0. <<v, m>>[1] = v /\ <<v, m>>[2] = m OBVIOUS
    <2>1. PICK r : r = <<v, m>> /\ r[1] = v /\ r[2] = m BY <2>0
    <2>2. r \in {v} \X Events(p, v) BY <2>1
    <2>3. r \in {q \in UNION {{g} \X Events(p, g) : g \in Threads(p)} : Ev(p, q[1], q[2]).k \in Accesses}
      BY <1>1, <2>1, <2>2
    <2>4. R(r[1], r[2]) \in A BY <2>3 DEF TaggedAccesses
    <2> QED BY <2>1, <2>4
  <1>2. PICK a \in A : a = R(t, i) BY <1>1 DEF Accesses
  <1>3. PICK b \in A : b = R(u, j) BY <1>1
  <1>4. heldAt(p[t], i) \cap heldAt(p[u], j) = {} BY HeldApart
  <1>5. a.location = x /\ b.location = x /\ a.write /\ a.lockset \cap b.lockset = {}
        /\ a.function = p[t].name /\ b.function = p[u].name
    BY <1>2, <1>3, <1>4
  <1> HIDE DEF A, x, R
  <1>6. a.function \in FunctionsAt(A, x) /\ b.function \in FunctionsAt(A, x) BY <1>5 DEF FunctionsAt
  <1>7. Cardinality(FunctionsAt(A, x)) >= 2 BY <1>5, <1>6, TwoFunctions DEF A
  <1>8. c \in A /\ c.location = x BY DEF A, x
  <1>9. x \in detect_races(A, {}, FALSE) BY <1>5, <1>7, <1>8, DetectedIn
  <1> QED BY <1>9 DEF A, x

RunLocks == prog \in DOMAIN Programs /\ (phase = "run" => LockInv(P, st))

LEMMA RunLocksInit == SInit => RunLocks
  <1> SUFFICES ASSUME SInit PROVE RunLocks OBVIOUS
  <1>1. prog \in DOMAIN Programs /\ st = InitState(P) BY SearchAssumption DEF SInit, Init, P
  <1> QED BY <1>1, LockInvInit DEF RunLocks

LEMMA RunLocksStep == RunLocks /\ [SNext]_<<vars, searchVars>> => RunLocks'
  <1> SUFFICES ASSUME RunLocks, [SNext]_<<vars, searchVars>> PROVE RunLocks' OBVIOUS
  <1>0. P \in Seq(Thread) BY ProgramTyped DEF RunLocks, P
  <1>1. CASE phase = "run" /\ Next /\ UNCHANGED searchVars
    <2>1. prog' = prog
      BY <1>1 DEF Next, Flush, Deliver, Write, Read, Barrier, Fork, JoinChildren, Acquire, Release, Marker, Exec
    <2>2. P' = P BY <2>1 DEF P
    <2>3. LockInv(P, st) BY <1>1 DEF RunLocks
    <2>4. LockInv(P, st')
      <3>1. ASSUME (\E t, x : st' = Flushed(st, t, x)) \/ (\E m, u : st' = Delivered(P, st, m, u))
            PROVE  LockInv(P, st')
        <4>1. Shaped(P, st') /\ st'.consumed = st.consumed /\ st'.held = st.held
          BY <2>3, <3>1, PropagationLocks DEF LockInv
        <4> QED BY <2>3, <4>1 DEF LockInv
      <3>2. CASE Flush BY <3>1, <3>2 DEF Flush
      <3>3. CASE Deliver BY <3>1, <3>3 DEF Deliver
      <3>4. ASSUME NEW kinds, Exec(kinds) PROVE LockInv(P, st')
        <4>1. \E t \in Threads(P) : \E i \in Events(P, t) :
                CanExec(P, st, weak, t, i) /\ st' = Executed(P, st, weak, t, i)
          BY <3>4 DEF Exec
        <4> QED BY <1>0, <2>3, <4>1, LockInvExec
      <3>5. CASE \E kinds : Exec(kinds) BY <3>4, <3>5
      <3> QED BY <1>1, <3>2, <3>3, <3>5
               DEF Next, Write, Read, Barrier, Fork, JoinChildren, Acquire, Release, Marker
    <2> QED BY <2>1, <2>2, <2>4 DEF RunLocks
  <1>2. CASE (VisitState \/ EndSearch) /\ UNCHANGED vars
    <2>1. prog' = prog /\ phase' # "run" BY <1>2 DEF VisitState, EndSearch, vars
    <2> QED BY <2>1 DEF RunLocks
  <1>3. CASE UNCHANGED <<vars, searchVars>>
    <2>1. prog' = prog /\ st' = st /\ phase' = phase BY <1>3 DEF vars, searchVars
    <2>2. P' = P BY <2>1 DEF P
    <2> QED BY <2>1, <2>2 DEF RunLocks
  <1> QED BY <1>1, <1>2, <1>3 DEF SNext

(* The data-race pass misses no race on a location that is locked somewhere, under
   either memory model: the locks recorded for two accesses that can both go ahead are
   locks held at the same time by two threads, so they have none in common. *)
THEOREM RacesAreReported == SSpec => []RacesReported
  <1>1. RunLocks => RacesReported
    <2> SUFFICES ASSUME RunLocks, phase = "run", NEW t \in Threads(P), NEW u \in Threads(P),
                        t # u, P[t].name # P[u].name,
                        NEW x \in Enabled(t, Writes) \cap Enabled(u, Accesses),
                        NEW c \in TaggedAccesses(P), c.location = x, c.lockset # {}
                 PROVE  x \in detect_races(TaggedAccesses(P), {}, FALSE)
      BY DEF RacesReported
    <2>1. P \in Seq(Thread) /\ LockInv(P, st) BY ProgramTyped DEF RunLocks, P
    <2>2. PICK i \in Events(P, t) :
            Ev(P, t, i).k \in Writes /\ CanExec(P, st, weak, t, i) /\ x = Ev(P, t, i).x
      BY DEF Enabled
    <2>3. PICK j \in Events(P, u) :
            Ev(P, u, j).k \in Accesses /\ CanExec(P, st, weak, u, j) /\ x = Ev(P, u, j).x
      BY DEF Enabled
    <2>4. Ev(P, t, i).x \in detect_races(TaggedAccesses(P), {}, FALSE)
      <3>1. c.location = Ev(P, t, i).x /\ Ev(P, t, i).x = Ev(P, u, j).x BY <2>2, <2>3
      <3> QED BY <2>1, <2>2, <2>3, <3>1, RaceFound
    <2> QED BY <2>2, <2>4
  <1> QED BY <1>1, RunLocksInit, RunLocksStep, PTL DEF SSpec

(* One function has one thread, and one thread starts it: parent_of then names the
   thread whose Join waits for it, which LifetimeTracker takes for granted. *)
WellSpawned(p) ==
  /\ \A t, u \in Threads(p) : p[t].name = p[u].name => t = u
  /\ \A c, t, u \in Threads(p) : \A i \in Events(p, t), j \in Events(p, u) :
       (spawn_target(p, t, i) = c /\ spawn_target(p, u, j) = c) => t = u

LEMMA ParentIs ==
    ASSUME NEW p \in Seq(Thread), WellSpawned(p), NEW t \in Threads(p), NEW u \in Threads(p), t # u,
           NEW a \in Events(p, t), Ev(p, t, a).k = "Spawn", Ev(p, t, a).x = p[u].name
    PROVE  parent_of(p, u) = t
  <1>1. Threads(p) = 1 .. Len(p) /\ Len(p) \in Nat BY ThreadShape
  <1>2. index_of(p, p[u].name) = u
    <2> DEFINE Is(v) == p[v].name = p[u].name /\ \A m \in 1 .. (v - 1) : p[m].name # p[u].name
    <2>1. Is(u)
      <3>1. \A m \in 1 .. (u - 1) : m \in Threads(p) /\ m # u BY <1>1
      <3> QED BY <3>1 DEF WellSpawned
    <2>2. \A v \in Threads(p) : Is(v) => v = u BY DEF WellSpawned
    <2>3. index_of(p, p[u].name) = CHOOSE v \in Threads(p) : Is(v) BY DEF index_of
    <2> HIDE DEF Is
    <2> QED BY <2>1, <2>2, <2>3
  <1>3. spawn_target(p, t, a) = u BY <1>2 DEF spawn_target
  <1> DEFINE S == {v \in Threads(p) : \E m \in Events(p, v) : spawn_target(p, v, m) = u}
  <1>4. S = {t}
    <2>1. t \in S BY <1>3
    <2>2. ASSUME NEW v \in S PROVE v = t
      <3>1. PICK m \in Events(p, v) : spawn_target(p, v, m) = u OBVIOUS
      <3> QED BY <1>3, <3>1 DEF WellSpawned
    <2> HIDE DEF S
    <2> QED BY <2>1, <2>2
  <1>5. parent_of(p, u) = IF S = {} THEN 0 ELSE CHOOSE v \in S : \A m \in S : m <= v BY DEF parent_of
  <1> HIDE DEF S
  <1>6. \A m \in S : m <= t BY <1>1, <1>4
  <1> QED BY <1>4, <1>5, <1>6

(* A thread that can still go ahead was not joined by another that can. *)
LEMMA NotJoined ==
    ASSUME NEW p \in Seq(Thread), WellSpawned(p), NEW s, LockInv(p, s), NEW w,
           NEW t \in Threads(p), NEW i \in Events(p, t), CanExec(p, s, w, t, i),
           NEW u \in Threads(p), NEW j \in Events(p, u), CanExec(p, s, w, u, j), t # u
    PROVE  p[u].name \notin joinedAt(p[t], i)
  <1> SUFFICES ASSUME p[u].name \in joinedAt(p[t], i) PROVE FALSE OBVIOUS
  <1>1. PICK a \in 1 .. (i - 1) :
          /\ Ev(p, t, a).k = "Spawn" /\ Ev(p, t, a).x = p[u].name
          /\ \E b \in (a + 1) .. (i - 1) : Ev(p, t, b).k = "Join"
    BY DEF joinedAt, Ev
  <1>2. PICK b \in (a + 1) .. (i - 1) : Ev(p, t, b).k = "Join" BY <1>1
  <1>3. i \in 1 .. Len(p[t].events) /\ Len(p[t].events) \in Nat /\ Events(p, t) = 1 .. Len(p[t].events)
    BY ThreadShape
  <1>4. a \in Events(p, t) /\ b \in 1 .. (i - 1) BY <1>1, <1>2, <1>3
  <1>5. parent_of(p, u) = t BY <1>1, <1>4, ParentIs
  <1>6. b \in s.consumed[t] BY <1>2, <1>4, BeforeIt DEF CanExec, LockInv, Reads
  <1>7. s.consumed[u] = Events(p, u) BY <1>2, <1>5, <1>6 DEF LockInv, ChildrenDone
  <1>8. j \notin s.consumed[u] BY DEF CanExec, takeable
  <1> QED BY <1>7, <1>8

(* The search over pairs of threads reports what two threads can both do. *)
LEMMA PairFound ==
    ASSUME NEW p \in Seq(Thread), WellSpawned(p), NEW s, LockInv(p, s), NEW w, NEW kt, NEW ku,
           NEW t \in Threads(p), NEW i \in Events(p, t), CanExec(p, s, w, t, i), Ev(p, t, i).k \in kt,
           NEW u \in Threads(p), NEW j \in Events(p, u), CanExec(p, s, w, u, j), Ev(p, u, j).k \in ku,
           t # u, Ev(p, t, i).x = Ev(p, u, j).x
    PROVE  Ev(p, t, i).x \in FindPairs(p, kt, ku)
  <1>1. PICK a : a = snap(p[t], i) OBVIOUS
  <1>2. PICK b : b = snap(p[u], j) OBVIOUS
  <1>3. a.x = Ev(p, t, i).x /\ a.held = heldAt(p[t], i) /\ a.joined = joinedAt(p[t], i)
    BY <1>1 DEF snap, Ev
  <1>4. b.x = Ev(p, u, j).x /\ b.held = heldAt(p[u], j) /\ b.joined = joinedAt(p[u], j)
    BY <1>2 DEF snap, Ev
  <1>5. a \in Locksets(p[t], kt) BY <1>1 DEF Locksets, Ev, Events
  <1>6. b \in Locksets(p[u], ku) BY <1>2 DEF Locksets, Ev, Events
  <1>7. a.held \cap b.held = {}
    <2>1. heldAt(p[t], i) \cap heldAt(p[u], j) = {} BY HeldApart
    <2> QED BY <1>3, <1>4, <2>1
  <1>8. ~lifetime_ordered(a, p[t].name, b, p[u].name)
    <2>1. p[u].name \notin joinedAt(p[t], i) BY NotJoined
    <2>2. p[t].name \notin joinedAt(p[u], j) BY NotJoined
    <2> QED BY <1>3, <1>4, <2>1, <2>2 DEF lifetime_ordered
  <1>9. a.x \in Concurrent(Locksets(p[t], kt), p[t].name, Locksets(p[u], ku), p[u].name)
    <2>1. a.x = b.x BY <1>3, <1>4
    <2> QED BY <1>5, <1>6, <1>7, <1>8, <2>1 DEF Concurrent
  <1>10. PICK q \in Threads(p) \X Threads(p) : q = <<t, u>> /\ q[1] = t /\ q[2] = u /\ q[1] # q[2]
    <2>1. <<t, u>>[1] = t /\ <<t, u>>[2] = u /\ <<t, u>> \in Threads(p) \X Threads(p) OBVIOUS
    <2> QED BY <2>1
  <1>11. a.x \in UNION {Concurrent(Locksets(p[r[1]], kt), p[r[1]].name, Locksets(p[r[2]], ku), p[r[2]].name) :
                          r \in {v \in Threads(p) \X Threads(p) : v[1] # v[2]}}
    <2>1. a.x \in Concurrent(Locksets(p[q[1]], kt), p[q[1]].name, Locksets(p[q[2]], ku), p[q[2]].name)
      BY <1>9, <1>10
    <2> QED BY <1>10, <2>1
  <1>12. a.x \in FindPairs(p, kt, ku) BY <1>11 DEF FindPairs
  <1> QED BY <1>3, <1>12

(* The lockset searches for use after free, double free, ABA and refcount races miss no
   pair of events that two threads can both go ahead with, under either memory model, in
   every program where one thread starts a function.  (With two starters only one of
   their joins waits for it and the detector believes both.) *)
THEOREM PairsAreReported == SSpec => [](WellSpawned(P) => PairsReported)
  <1>1. RunLocks => (WellSpawned(P) => PairsReported)
    <2> SUFFICES ASSUME RunLocks, WellSpawned(P), phase = "run",
                        NEW t \in Threads(P), NEW u \in Threads(P), t # u
                 PROVE
           /\ \A x \in Enabled(t, {"Free"}) \cap Enabled(u, Accesses) : <<x, FALSE>> \in find_cross_thread_uaf(P)
           /\ \A x \in Enabled(t, {"Free"}) \cap Enabled(u, {"Free"}) : <<x, TRUE>> \in find_cross_thread_uaf(P)
           /\ Enabled(t, {"Cas"}) \cap Enabled(u, Writes \cup {"Free"}) \subseteq find_aba(P)
           /\ Enabled(t, {"RefGet"}) \cap Enabled(u, {"RefPut"}) \subseteq find_refcount_races(P)
      BY DEF PairsReported
    <2>1. P \in Seq(Thread) /\ LockInv(P, st) BY ProgramTyped DEF RunLocks, P
    <2>2. ASSUME NEW kt, NEW ku, NEW x \in Enabled(t, kt) \cap Enabled(u, ku)
          PROVE  x \in FindPairs(P, kt, ku)
      <3>1. PICK i \in Events(P, t) : Ev(P, t, i).k \in kt /\ CanExec(P, st, weak, t, i) /\ x = Ev(P, t, i).x
        BY DEF Enabled
      <3>2. PICK j \in Events(P, u) : Ev(P, u, j).k \in ku /\ CanExec(P, st, weak, u, j) /\ x = Ev(P, u, j).x
        BY DEF Enabled
      <3>3. Ev(P, t, i).x \in FindPairs(P, kt, ku)
        <4>1. Ev(P, t, i).x = Ev(P, u, j).x BY <3>1, <3>2
        <4> QED BY <2>1, <3>1, <3>2, <4>1, PairFound
      <3> QED BY <3>1, <3>3
    <2>3. \A x : x \in Enabled(t, {"Free"}) \cap Enabled(u, Accesses) => <<x, FALSE>> \in find_cross_thread_uaf(P)
      BY <2>2 DEF find_cross_thread_uaf
    <2>4. \A x : x \in Enabled(t, {"Free"}) \cap Enabled(u, {"Free"}) => <<x, TRUE>> \in find_cross_thread_uaf(P)
      BY <2>2 DEF find_cross_thread_uaf
    <2>5. Enabled(t, {"Cas"}) \cap Enabled(u, Writes \cup {"Free"}) \subseteq find_aba(P) BY <2>2 DEF find_aba
    <2>6. Enabled(t, {"RefGet"}) \cap Enabled(u, {"RefPut"}) \subseteq find_refcount_races(P)
      BY <2>2 DEF find_refcount_races
    <2> QED BY <2>3, <2>4, <2>5, <2>6
  <1> QED BY <1>1, RunLocksInit, RunLocksStep, PTL DEF SSpec
=============================================================================
