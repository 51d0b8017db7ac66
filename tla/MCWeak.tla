------------------------------- MODULE MCWeak -------------------------------
(* Litmus programs for the detectors; the names follow their tests. *)
EXTENDS Detectors

E(k, x) == [k |-> k, x |-> x]
R(x) == E("Read", x)
D(x) == E("DepRead", x)
W(x) == E("Write", x)
U(x) == E("Rmw", x)
F == E("Fence", "")
WF == E("WFence", "")
RF == E("RFence", "")
A(l) == E("Acquire", l)
L(l) == E("Release", l)
Sp(n) == E("Spawn", n)
Jn == E("Join", "")
Fr(x) == E("Free", x)
T(n, evs) == [name |-> n, events |-> evs]

\* Weak behaviours: store buffering, message passing, opposite orders of two
\* independent writes, two reads of one location, two writers of one location.
Litmus == <<
  <<T("t1", <<W("x"), R("y")>>), T("t2", <<W("y"), R("x")>>)>>,
  <<T("t1", <<W("x"), W("y")>>), T("t2", <<R("y"), R("x")>>)>>,
  <<T("w1", <<W("x")>>), T("w2", <<W("y")>>), T("r1", <<R("x"), D("y")>>), T("r2", <<R("y"), D("x")>>)>>,
  <<T("t1", <<W("x")>>), T("t2", <<R("x"), R("x")>>)>>,
  <<T("t1", <<W("x"), F, R("x")>>), T("t2", <<W("x"), F, R("x")>>)>> >>

\* The same with barriers.
Barriers == <<
  <<T("t1", <<W("x"), F, R("y")>>), T("t2", <<W("y"), F, R("x")>>)>>,
  <<T("t1", <<W("x"), WF, W("y")>>), T("t2", <<R("y"), RF, R("x")>>)>>,
  <<T("t1", <<W("x"), WF, W("y")>>), T("t2", <<R("y"), D("x")>>)>>,
  <<T("t1", <<U("x"), R("x"), W("x")>>), T("t2", <<R("x"), F, D("x"), W("y")>>)>>,
  <<T("w1", <<W("x")>>), T("w2", <<W("y")>>), T("r1", <<R("x"), F, R("y")>>), T("r2", <<R("y"), F, R("x")>>)>> >>

\* Locks, spawn and join.
Synchronised == <<
  <<T("t1", <<A("l"), R("x"), U("x"), L("l")>>), T("t2", <<A("l"), R("x"), U("x"), R("y"), L("l")>>),
    T("t3", <<A("l"), W("y"), W("x"), L("l")>>)>>,
  <<T("a", <<W("x"), Sp("b"), Jn, R("y"), R("x")>>), T("b", <<R("x"), W("y"), W("x")>>)>>,
  <<T("a", <<A("l"), W("x"), L("l"), R("x")>>), T("b", <<A("m"), W("x"), L("m")>>)>>,
  <<T("a", <<A("l"), W("x"), L("l")>>), T("b", <<R("x")>>)>>,
  <<T("a", <<W("x"), Sp("b"), W("y"), Jn, R("y")>>), T("b", <<R("x"), Sp("c"), Jn, R("x")>>), T("c", <<W("x")>>)>> >>

\* Frees, swaps and references.
Lifetimes == <<
  <<T("a", <<Sp("b"), R("o"), Jn, Fr("o")>>), T("b", <<R("o"), W("o")>>)>>,
  <<T("a", <<Sp("b"), Fr("o"), Jn>>), T("b", <<A("l"), R("o"), L("l")>>)>>,
  <<T("a", <<A("l"), Fr("o"), L("l")>>), T("b", <<A("l"), A("m"), W("o"), L("m"), L("l"), Fr("o")>>)>>,
  <<T("a", <<A("l"), A("m"), E("Cas", "o"), L("l"), E("RefGet", "q"), L("m")>>),
    T("b", <<A("m"), W("o"), L("m"), A("l"), Fr("o"), E("RefPut", "q"), L("l"), E("SetState", "o")>>)>> >>

\* Lock orders: two and three locks in a circle, the same below a common lock, a
\* consistent order, and a circle that closes only through a third function.
LockOrders == <<
  <<T("f", <<A("a"), A("b"), L("b"), L("a")>>), T("g", <<A("b"), A("a"), L("a"), L("b")>>)>>,
  <<T("f", <<A("a"), A("b"), L("b"), L("a")>>), T("g", <<A("b"), A("c"), L("c"), L("b")>>),
    T("h", <<A("c"), A("a"), L("a"), L("c")>>)>>,
  <<T("f", <<A("m"), A("a"), A("b"), L("b"), L("a"), L("m")>>), T("g", <<A("m"), A("b"), A("a"), L("a"), L("b"), L("m")>>)>>,
  <<T("f", <<A("a"), A("b"), L("a"), A("c"), L("b"), L("c")>>), T("g", <<A("a"), A("c"), L("c"), L("a")>>)>>,
  <<T("f", <<A("a"), A("b"), L("a"), A("c"), L("b"), L("c")>>), T("g", <<A("c"), A("b"), L("c"), L("b")>>),
    T("h", <<A("b"), A("a"), L("b"), L("a")>>)>> >>

\* Read-modify-writes: bare, in one critical section, split over two, against a
\* plain write, with a re-read, of two locations, in a spawned function, and of two
\* locations of which every search of the pair stops at the same one.
Updates == <<
  <<T("a", <<R("x"), U("x")>>), T("b", <<R("x"), U("x")>>)>>,
  <<T("a", <<A("l"), R("x"), L("l"), A("l"), U("x"), L("l")>>), T("b", <<A("l"), R("x"), U("x"), L("l")>>)>>,
  <<T("a", <<R("x"), R("y"), R("x"), U("x")>>), T("b", <<W("x"), W("y")>>), T("c", <<R("y"), U("y"), U("x")>>)>>,
  <<T("a", <<R("x"), R("y"), U("y"), U("x")>>), T("b", <<R("y"), U("x"), U("y")>>)>>,
  <<T("m", <<Sp("a"), W("x"), Jn, R("x"), U("x")>>), T("a", <<R("x"), U("x")>>)>>,
  <<T("a", <<R("x"), R("y"), U("x"), U("y")>>), T("b", <<W("x"), W("y")>>)>> >>

\* Entries over two global slots s and t, whose objects are o and q.
Opens == <<T("close", <<Fr("o")>>), T("read", <<R("o")>>), T("open", <<W("s"), R("o")>>)>>
Chains == << Opens,
  <<T("close", <<Fr("o"), W("s")>>), T("ioctl", <<R("o"), W("o")>>), T("put", <<E("RefPut", "o"), R("q")>>)>>,
  <<T("drop", <<E("RefPut", "o"), E("RefPut", "q")>>), T("reset", <<W("t"), E("RefGet", "q"), Fr("o")>>),
    T("use", <<W("s"), D("o"), U("q")>>)>>,
  <<T("release", <<R("o"), Fr("o"), E("SetState", "o.closed")>>), T("ioctl", <<E("RequireNot", "o.closed"), R("q")>>)>> >>

\* Every pair of threads of which the one accesses x and then y, the other y and
\* then x, each with or without a barrier in between.
Shape(n, x, y) ==
  LET first == <<W(x), R(x)>>
      between == << <<>>, <<F>>, <<WF>>, <<RF>> >>
      second == <<W(y), R(y), D(y)>>
  IN  Append(<<first[(n % 2) + 1]>> \o between[((n \div 2) % 4) + 1], second[(n \div 8) + 1])

TwoByTwo ==
  [n \in 1..576 |-> <<T("t1", Shape((n - 1) % 24, "x", "y")), T("t2", Shape((n - 1) \div 24, "y", "x"))>>]

MCPrograms == Litmus \o Barriers \o Synchronised \o Lifetimes \o LockOrders \o Updates \o Chains \o TwoByTwo

\* Store buffering, message passing, two locked or forked programs, and those of
\* TwoByTwo in which both threads write before they read, with every barrier that
\* leaves the pair reported.
MCSearched ==
  {1, 2, 4, 6, 12} \cup {34 + n : n \in {k \in DOMAIN TwoByTwo : store_buffer_violations(TwoByTwo[k]) # {}}}

\* The programs of LockOrders, Updates and Chains: their reports are about
\* sequentially consistent runs.
MCScOnly == 20..34

\* The programs of Chains.
MCEntries == 31..34

MCGlobals == [o |-> "s", q |-> "t"]

=============================================================================
