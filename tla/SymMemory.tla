----------------------------- MODULE SymMemory -----------------------------
(* The memory model of the symbolic executor: what a load returns from the *)
(* list of store records, the checks an access, an offset, a free and a    *)
(* block copy must pass, and the effect of each memory instruction on the  *)
(* path state.  A step takes the instruction, its identity, the path state *)
(* and the explorer, and returns both as they are afterwards.              *)
EXTENDS SymValues

CONSTANTS SizeMax,     \* the largest size that does not wrap (u64::MAX)
          FitMax       \* the largest allocation there can be (isize::MAX)

ASSUME SizesAssumption == FitMax \in Nat \ {0} /\ SizeMax \in Nat /\ FitMax <= SizeMax

PtrSize == 1     \* the size of a pointer in the units of sizes and offsets

Result(s, x) == [s |-> s, e |-> x]
Bind(s, reg, v) == IF reg = 0 THEN s ELSE [s EXCEPT !.env = Put(@, reg, v)]

HasRegion(p, s) == p.prov.k = "reg" /\ p.prov.r <= Len(s.regions)
RegionOf(p, s)  == s.regions[p.prov.r]
\* What a proof about a region rests on: its contract, or that the allocator
\* returned memory.
Grounds(reg) == IF reg.contract = "" THEN "alloc-succeeds" ELSE reg.contract
NewRegion(s, reg) ==
  [s EXCEPT !.regions = Append(@, reg),
            !.facts   = Append(@, Bin("<=", Con(0), reg.size))]
RegionPtr(r, align) == PtrTo(ProvRegion(r), Con(0), align, 0)

InBounds(off, len, size) ==
  LET end == Bin("+", off, len)
  IN  <<Bin("<=", Con(0), off), Bin("<=", off, end), Bin("<=", end, size)>>
InRange(off, size) == <<Bin("<=", Con(0), off), Bin("<=", off, size)>>

-----------------------------------------------------------------------------
(* Loads. *)
\* Must: the store covers the load; No: their ranges are apart; else May.
offsets_alias(a, b, sizea, sizeb, s, x) ==
  IF sizea >= sizeb /\ prove(Bin("=", a.off, b.off), s, x) THEN "must"
  ELSE IF \/ prove(Bin("<=", Bin("+", a.off, Con(sizea)), b.off), s, x)
          \/ prove(Bin("<=", Bin("+", b.off, Con(sizeb)), a.off), s, x)
       THEN "no"
  ELSE "may"

\* Wrong variant: two opaque pointers with different identities are different
\* objects.
Mutalias_check(a, b, sizea, sizeb, s, x) ==
  IF a.prov = b.prov THEN offsets_alias(a, b, sizea, sizeb, s, x) ELSE "no"

alias_check(a, b, sizea, sizeb, s, x) ==
  IF a.prov = b.prov /\ BaseKey(a) # {} THEN offsets_alias(a, b, sizea, sizeb, s, x)
  ELSE IF a.prov.k = "reg" /\ b.prov.k = "reg" THEN "no"
  ELSE "may"

\* load_value: the newest record that may alias decides; with none, memory not
\* written on this path, which reads the same each time at a constant offset.
LoadFrom(al, p, size, ptr, id, s, x) ==
  LET hits == {k \in DOMAIN s.heap : al[k] # "no"}
      top  == CHOOSE k \in hits : \A j \in hits : j <= k
      key  == BaseKey(p) \X {<<p.off, size>>}
      f    == FreshValue(x, ptr, "fld")
      u    == FreshScalar(x, "user")
  IN  CASE hits # {} /\ al[top] = "must" ->
             [v |-> s.heap[top].value, from |-> "stored", s |-> s,
              e |-> IF s.heap[top].overtaken THEN [x EXCEPT !.misled = @ \cup {id}] ELSE x]
        [] hits # {} /\ al[top] = "may" ->
             [v |-> f.v, from |-> "uncertain", s |-> s, e |-> f.e]
        [] hits = {} /\ HasRegion(p, s) /\ RegionOf(p, s).user /\ ~ptr ->
             [v |-> u.v, from |-> "stored", s |-> s, e |-> u.e]
        [] OTHER ->
             IF key = {} \/ ~IsCon(p.off)
             THEN [v |-> f.v, from |-> "unwritten", s |-> s, e |-> f.e]
             ELSE LET k == CHOOSE k \in key : TRUE
                  IN  IF k \in DOMAIN s.unwritten
                      THEN [v |-> s.unwritten[k], from |-> "unwritten", s |-> s, e |-> x]
                      ELSE [v |-> f.v, from |-> "unwritten",
                            s |-> [s EXCEPT !.unwritten = Put(@, k, f.v)], e |-> f.e]

load_value(p, size, ptr, id, s, x) ==
  LoadFrom([k \in DOMAIN s.heap |-> alias_check(s.heap[k].target, p, s.heap[k].size, size, s, x)],
           p, size, ptr, id, s, x)

is_fresh_alloc(p, s) ==
  HasRegion(p, s) /\ RegionOf(p, s).contract = "" /\ ~RegionOf(p, s).assumed

-----------------------------------------------------------------------------
(* Checks. *)
\* A choice of pointers is checked once for each side, under its condition.
Side(p, sub) == PtrTo(sub.prov, Bin("+", sub.off, p.off), sub.align, sub.borrow)
Under(s, c)  == [s EXCEPT !.pathcond = Append(@, c)]

\* A base aligned well enough leaves the question to the offset.
Aligned(p, reg, align, s, x) ==
  LET rem == Bin("mod", p.off, Con(align))
  IN  IF \/ align <= 1 \/ p.align % align = 0
         \/ reg.align >= align /\ prove(Bin("=", rem, Con(0)), s, x)
      THEN "proven"
      ELSE IF /\ reg.align >= align /\ s.exact
              /\ prove(Bin("#", rem, Con(0)), s, x) /\ feasibility_witness(s, x)
           THEN "refuted" ELSE "unknown"

\* Only a write to a read-only global is a violation for certain.
Permitted(x, id, perm, reg, s) ==
  IF perm = "ValidWrite" /\ ~reg.write /\ reg.kind = "global"
  THEN record_temporal(x, id, perm, TRUE, s)
  ELSE record(x, id, perm, perm = "ValidWrite" => reg.write)

\* The null check of an access, then the ones that need the region behind it.
AccessNull(x, id, p, nonnull, isnull, s) ==
  IF nonnull THEN record(x, id, "NoNullDeref", TRUE)
  ELSE IF isnull THEN record_temporal(x, id, "NoNullDeref", TRUE, s)
  ELSE record(x, id, "NoNullDeref", FALSE)
AccessRegion(x, y, id, p, reg, size, align, perm, s) ==
  LET mode == IF reg.assumed /\ ~expr_has_genuine_leaf(p.off, y) THEN "off"
              ELSE IF reg.nowrap # {} THEN "possible" ELSE "off"
      x2 == record_temporal(x, id, "NoUseAfterFree", ~reg.live, s)
      x3 == record_mem(x2, id, "InBounds", decide(InBounds(p.off, Con(size), reg.size), s, y, mode,
                                                    reg.nowrap))
      x4 == record_mem(x3, id, "Alignment", Aligned(p, reg, align, s, y))
  IN  Permitted(x4, id, perm, reg, s)
AccessGrounds(reg, nonnull, x) == IF nonnull /\ reg.live THEN Assume(x, Grounds(reg)) ELSE x
AccessAt(x, y, id, p, nonnull, size, align, perm, s) ==
  IF ~HasRegion(p, s)
  THEN RecordAll(x, id, <<"NoUseAfterFree", "InBounds", "Alignment", perm>>, FALSE)
  ELSE AccessGrounds(RegionOf(p, s), nonnull,
                     AccessRegion(x, y, id, p, RegionOf(p, s), size, align, perm, s))
AccessChecked(x, id, p, nonnull, size, align, perm, s) ==
  LET isnull == \/ p.prov.k = "null"
                \/ /\ p.prov.k = "unk" /\ p.prov.id # 0
                   /\ prove(Bin("=", Sym("ptr#", p.prov.id), Con(0)), s, x)
  IN  AccessAt(AccessNull(x, id, p, nonnull, isnull, s), x, id, p, nonnull, size, align, perm, s)
IsNonNull(p, s, x) ==
  \/ p.prov.k = "reg"
  \/ /\ p.prov.k = "unk" /\ p.prov.id # 0
     /\ \/ p.prov.id \in s.nonnull
        \/ prove(Bin("#", Sym("ptr#", p.prov.id), Con(0)), s, x)

RECURSIVE check_access(_, _, _, _, _, _, _)
check_access(x, id, p, size, align, perm, s) ==
  IF p.prov.k = "sel"
  THEN check_access(
         check_access(x, id, Side(p, p.prov.p), size, align, perm, Under(s, p.prov.c)),
         id, Side(p, p.prov.q), size, align, perm, Under(s, Not(p.prov.c)))
  ELSE AccessChecked(IF p.prov.k = "unk" /\ p.prov.id \in x.mixed
                     THEN [x EXCEPT !.misled = @ \cup {id}] ELSE x,
                     id, p, IsNonNull(p, s, x), size, align, perm, s)

check_valid_value(x, id, v, lo, hi, s) ==
  LET within == Bin("and", Bin("<=", Con(lo), v), Bin("<=", v, Con(hi - 1)))
  IN  record_mem(x, id, "ValidValue",
        IF prove(within, s, x) THEN "proven"
        ELSE IF s.exact /\ prove(Not(within), s, x) /\ feasibility_witness(s, x)
             THEN "refuted" ELSE "unknown")

ArithDecided(x, id, reg, d) ==
  IF d = "proven" THEN Assume(record_mem(x, id, "ValidPointerArith", d), Grounds(reg))
  ELSE record_mem(x, id, "ValidPointerArith", d)
RECURSIVE check_ptr_arith(_, _, _, _)
check_ptr_arith(x, id, p, s) ==
  IF p.prov.k = "sel"
  THEN check_ptr_arith(check_ptr_arith(x, id, Side(p, p.prov.p), Under(s, p.prov.c)),
                       id, Side(p, p.prov.q), Under(s, Not(p.prov.c)))
  ELSE IF ~HasRegion(p, s) THEN record(x, id, "ValidPointerArith", FALSE)
  ELSE ArithDecided(x, id, RegionOf(p, s), decide(InRange(p.off, RegionOf(p, s).size), s, x, "off", {}))

\* check_dealloc: only the live base of an allocation of this function may be
\* freed; that free is the one that ends the region.
check_dealloc(x, id, p, s) ==
  LET reg == RegionOf(p, s)
      ok  == prove(Bin("=", p.off, Con(0)), s, x)
  IN  IF ~HasRegion(p, s) \/ reg.contract # ""
      THEN Result(s, record(x, id, "NoDoubleFree", FALSE))
      ELSE IF reg.kind # "heap" \/ ~reg.live
      THEN Result(s, record_temporal(x, id, "NoDoubleFree", TRUE, s))
      ELSE IF ok
      THEN Result([s EXCEPT !.regions[p.prov.r].live = FALSE],
                  Assume(record(x, id, "NoDoubleFree", TRUE), "alloc-succeeds"))
      ELSE Result(s, record(x, id, "NoDoubleFree", FALSE))

\* check_mem_intrinsic: both ranges of a block copy; a counterexample is only
\* sought for the destination, once the source is known to be in bounds.
Copies(kind) == kind \in {"copy", "move"}
ProvesAll(conj, s, x) == \A i \in DOMAIN conj : prove(conj[i], s, x)
BlockBounds(srcin, dst, len, s, x) ==
  IF ~srcin \/ ~HasRegion(dst, s) THEN "unknown"
  ELSE IF RegionOf(dst, s).nowrap # {}
  THEN decide(InBounds(dst.off, len, RegionOf(dst, s).size), s, x, "possible", RegionOf(dst, s).nowrap)
  ELSE IF ProvesAll(InBounds(dst.off, len, RegionOf(dst, s).size), s, x)
  THEN "proven" ELSE "unknown"
BlockOverlap(x, id, kind, dst, src, len, s) ==
  LET apart == Bin("or", Bin("<=", Bin("+", dst.off, len), src.off),
                         Bin("<=", Bin("+", src.off, len), dst.off))
  IN  IF kind # "copy" THEN x
      ELSE record_mem(x, id, "NoForbiddenOverlap",
             IF BaseKey(dst) # {} /\ BaseKey(dst) = BaseKey(src)
             THEN decide(<<apart>>, s, x, "possible", {}) ELSE "proven")
BlockGrounds(regs, x) == [x EXCEPT !.assumptions = @ \cup {Grounds(reg) : reg \in regs}]

check_mem_intrinsic(x, id, kind, dst, src, len, s) ==
  LET ptrs == IF Copies(kind) THEN {dst, src} ELSE {dst}
      nn   == \A p \in ptrs : HasRegion(p, s)
      live == nn /\ \A p \in ptrs : RegionOf(p, s).live
      srcin == Copies(kind) => /\ HasRegion(src, s)
                               /\ ProvesAll(InBounds(src.off, len, RegionOf(src, s).size), s, x)
      x1 == record(record(x, id, "NoNullDeref", nn), id, "NoUseAfterFree", live)
      x2 == record_mem(x1, id, "InBounds", BlockBounds(srcin, dst, len, s, x))
      x3 == record(x2, id, "ValidWrite", HasRegion(dst, s) /\ RegionOf(dst, s).write)
      x4 == RecordAll(x3, id, IF Copies(kind) THEN <<"ValidRead">> ELSE <<>>, HasRegion(src, s))
  IN  BlockGrounds(IF live THEN {RegionOf(p, s) : p \in ptrs} ELSE {},
                   BlockOverlap(x4, id, kind, dst, src, len, s))

-----------------------------------------------------------------------------
(* Rust's borrow stacks, per region; <<0>> stands for a poisoned stack. *)
Poisoned == <<0>>
Retagged(i, p, stack, s) ==
  LET s1    == IF i.dst \in DOMAIN s.env /\ IsPtr(s.env[i.dst])
               THEN [s EXCEPT !.env[i.dst].borrow = i.dst] ELSE s
      pos   == SelectInSeq(stack, LAMBDA t : t = p.borrow)
      new   == IF ~i.unique
               THEN IF i.dst \in ToSet(stack) THEN stack ELSE Append(stack, i.dst)
               ELSE IF p.borrow = 0 THEN <<i.dst>>
               ELSE IF pos > 0 THEN Append(SubSeq(stack, 1, pos), i.dst)
               ELSE Poisoned
  IN  IF p.prov.k # "reg" \/ stack = Poisoned THEN s
      ELSE [s1 EXCEPT !.borrows = Put(@, p.prov.r, new)]
RetagOf(i, p, s) ==
  Retagged(i, p, IF p.prov.k = "reg" THEN At(s.borrows, p.prov.r, <<>>) ELSE <<>>, s)
step_retag(i, s, x) == RetagOf(i, eval_pointer(i.src, s, x).v, s)

check_borrow_access(id, write, p, s, x) ==
  LET stack == At(s.borrows, p.prov.r, <<>>)
      pos   == SelectInSeq(stack, LAMBDA t : t = p.borrow)
  IN  IF \/ ~x.aliasing \/ p.borrow = 0 \/ p.prov.k # "reg"
         \/ p.prov.r \notin DOMAIN s.borrows \/ stack = Poisoned
      THEN Result(s, x)
      ELSE IF pos = 0
      THEN Result(s, record_temporal(x, id, "NoAliasingViolation", TRUE, s))
      ELSE IF write
      THEN Result([s EXCEPT !.borrows[p.prov.r] = SubSeq(@, 1, pos)], x)
      ELSE Result(s, x)

-----------------------------------------------------------------------------
(* Instructions. *)
\* The size of n elements, in the width of a pointer; that it is an allocation's
\* and so did not wrap; and that it did not wrap, asked in bug-finding mode of a
\* count that is not a constant.
ByteSize(n, stride) ==
  IF stride = 1 THEN n ELSE Bin("mod", Bin("*", n, Con(stride)), Con(SizeMax + 1))
size_no_wrap_fact(n, stride) == Bin("<=", n, Con(FitMax \div stride))
size_overflow_goal(n, stride) ==
  IF IsCon(n) \/ stride <= 1 THEN <<>> ELSE <<Bin("<=", n, Con(SizeMax \div stride))>>
SizeOverflow(n, stride, s, x) ==
  IF x.bugs THEN decide(size_overflow_goal(n, stride), s, x, "possible", {}) ELSE "proven"

StepAlloc(i, id, s, x) ==
  LET n   == eval_scalar(i.n, s, x)
      reg == Region(i.kind, ByteSize(n.v, i.stride), i.align, TRUE, TRUE,
                    IF i.kind = "global" THEN "mmio" ELSE "", {size_no_wrap_fact(n.v, i.stride)},
                    i.kind = "stack" /\ i.n.k # "int")
      s1  == NewRegion(s, reg)
  IN  Result(Bind(s1, i.dst, RegionPtr(Len(s1.regions), i.align)),
             record_mem(n.e, id, "NoSizeOverflow", SizeOverflow(n.v, i.stride, s, n.e)))

\* The index is taken as it is, without sign extension.
Displaced(i, b, k) ==
  PtrTo(b.prov, Bin("+", b.off, Bin("*", k, Con(i.stride))),
        gcd(b.align, IF IsCon(k) THEN k.n * i.stride ELSE i.stride), b.borrow)
OffsetTo(i, id, p, s, x) == Result(Bind(s, i.dst, p), check_ptr_arith(x, id, p, s))
OffsetBy(i, id, b, k, s) == OffsetTo(i, id, Displaced(i, b, k.v), s, k.e)
OffsetFrom(i, id, b, s) == OffsetBy(i, id, b.v, eval_scalar(i.idx, s, b.e), s)
StepPtrOffset(i, id, s, x) == OffsetFrom(i, id, eval_pointer(i.base, s, x), s)

\* Labels flow with a loaded pointer to what it points at, with a scalar to
\* the register.
LabelsAt(p, s) ==
  IF HasRegion(p, s) THEN RegionOf(p, s).labels
  ELSE IF p.prov.k = "unk" /\ p.prov.id # 0 THEN At(s.opaque_labels, p.prov.id, {})
  ELSE {}
AddLabels(p, labels, s) ==
  IF labels = {} THEN s
  ELSE IF HasRegion(p, s) THEN [s EXCEPT !.regions[p.prov.r].labels = @ \cup labels]
  ELSE IF p.prov.k = "unk" /\ p.prov.id # 0
       THEN [s EXCEPT !.opaque_labels = Put(@, p.prov.id, At(@, p.prov.id, {}) \cup labels)]
  ELSE s

\* l is what load_value returned for the pointer p.  Memory of this function's
\* own that no store on an exact path reached is uninitialised.
LoadChecks(i, id, p, l, s, s2) ==
  LET x1 == IF /\ l.from = "unwritten" /\ s.exact
               /\ is_fresh_alloc(p, s) /\ feasibility_witness(s, l.e)
            THEN record_mem(l.e, id, "ValidRead", "refuted") ELSE l.e
  IN  IF i.range # <<>> /\ ~IsPtr(l.v)
      THEN check_valid_value(x1, id, l.v.e, i.range[1], i.range[2], s2) ELSE x1
LoadLabels(i, p, l, s1) ==
  LET lb == LabelsAt(p, s1)
  IN  IF i.isptr /\ IsPtr(l.v) THEN AddLabels(l.v, lb, s1)
      ELSE IF ~i.isptr /\ lb # {}
      THEN [s1 EXCEPT !.tainted = Put(@, i.dst, At(@, i.dst, {}) \cup lb)]
      ELSE s1
Loaded(i, id, p, l, s) ==
  LET s2 == LoadLabels(i, p, l, [l.s EXCEPT !.exact = @ /\ l.from = "stored"])
  IN  Result(Bind(s2, i.dst, l.v), LoadChecks(i, id, p, l, s, s2))
LoadBorrowed(i, id, p, b, s) == Loaded(i, id, p, load_value(p, i.size, i.isptr, id, b.s, b.e), s)

LoadAt(i, id, p, s, x) ==
  LoadBorrowed(i, id, p, check_borrow_access(id, FALSE, p, s,
                           check_access(x, id, p, i.size, i.align, "ValidRead", s)), s)
StepLoad(i, id, s, x) ==
  LET p == eval_pointer(i.ptr, s, x) IN LoadAt(i, id, p.v, s, p.e)

\* i.shared: the address register is a shared borrow (&T).
SharedWrite(i, id, s, x) ==
  IF x.aliasing /\ i.shared THEN record_temporal(x, id, "NoAliasingViolation", TRUE, s) ELSE x
StoreBorrowed(i, p, b) ==
  LET v  == eval_value(i.val, b.s, b.e)
      s1 == IF i.val.k = "reg" THEN AddLabels(p, At(b.s.tainted, i.val.v, {}), b.s) ELSE b.s
  IN  Result([s1 EXCEPT !.heap = Append(@, Record(p, v.v, i.size)),
                        !.refs = <<>>], v.e)
StoreAt(i, id, p, s, x) ==
  StoreBorrowed(i, p, check_borrow_access(id, TRUE, p, s,
    SharedWrite(i, id, s, check_access(x, id, p, i.size, i.align, "ValidWrite", s))))
StepStore(i, id, s, x) ==
  LET p == eval_pointer(i.ptr, s, x) IN StoreAt(i, id, p.v, s, p.e)

StepDealloc(i, id, s, x) ==
  LET p == eval_pointer(i.ptr, s, x) IN check_dealloc(p.e, id, p.v, s)

StepLifetime(i, s, x) ==
  LET p == eval_pointer(i.ptr, s, x).v
  IN  IF HasRegion(p, s) THEN [s EXCEPT !.regions[p.prov.r].live = i.begin] ELSE s

\* A reference the type system vouches for: the same region each time it is
\* taken from the same place.
RefKey(p) == IF IsCon(p.off) THEN BaseKey(p) \X {p.off.n} ELSE {}
NewRef(i, p, key, s) ==
  LET r  == Len(s.regions) + 1
      s1 == NewRegion(s, [Region("global", Con(i.size), 1, TRUE, i.write,
                                 "valid-reference", {Truth(TRUE)}, i.assumed)
                          EXCEPT !.labels = LabelsAt(p, s)])
  IN  Bind([s1 EXCEPT !.refs = IF key = {} THEN @ ELSE Put(@, CHOOSE k \in key : TRUE, r)],
           i.dst, RegionPtr(r, i.align))
Witnessed(i, p, key, s) ==
  LET old == {s.refs[k] : k \in key \cap DOMAIN s.refs}
  IN  IF old # {} THEN Bind(s, i.dst, RegionPtr(CHOOSE o \in old : TRUE, i.align))
      ELSE NewRef(i, p, key, s)
StepRefWitness(i, s, x) ==
  LET p == eval_pointer(i.src, s, x)
  IN  IF i.assumed /\ ~x.valid_params THEN Result(s, x)
      ELSE Result(Witnessed(i, p.v, RefKey(p.v), s),
                  IF i.assumed THEN Assume(p.e, "valid-params") ELSE p.e)

Havocked(s) == [s EXCEPT !.heap = <<>>, !.unwritten = <<>>, !.refs = <<>>]

\* memcpy, memmove and memset forget every store and keep the one to the
\* destination; its value is the source's when the length is a constant.
BlockStored(d, len, l, s) ==
  Result([Havocked(s) EXCEPT !.heap  = <<Record(d, l.v, len)>>,
                             !.exact = @ /\ l.from = "stored"], l.e)
BlockSet(d, len, s, x) ==
  LET f == FreshValue(x, FALSE, "fld")
  IN  BlockStored(d, len, [v |-> f.v, from |-> "set", e |-> f.e], s)
BlockMoved(i, id, d, src, s, x) ==
  IF i.len.k # "int" THEN Result([Havocked(s) EXCEPT !.exact = FALSE], x)
  ELSE IF i.kind \in {"copy", "move"}
  THEN BlockStored(d, i.len.v, load_value(src, i.len.v, FALSE, id, s, x), s)
  ELSE BlockSet(d, i.len.v, s, x)
\* The operands of a block operation, and what its check records.
BlockOperands(i, s, x) ==
  LET d  == eval_pointer(i.dst, s, x)
      sp == eval_pointer(i.src, s, d.e)
      n  == eval_scalar(i.len, s, sp.e)
  IN  [dst |-> d.v, src |-> sp.v, n |-> n.v, e |-> n.e]

BlockChecked(i, id, o, s) ==
  BlockMoved(i, id, o.dst, o.src, s, check_mem_intrinsic(o.e, id, i.kind, o.dst, o.src, o.n, s))
StepMemIntrinsic(i, id, s, x) == BlockChecked(i, id, BlockOperands(i, s, x), s)

\* copy_from_user: the destination now holds user values; fetching one user
\* address twice on a path is a double fetch.
UserFilled(id, dst, src, s, x) ==
  LET s1  == IF HasRegion(dst, s) THEN [s EXCEPT !.regions[dst.prov.r].user = TRUE] ELSE s
      key == IF IsCon(src.off) THEN BaseKey(src) \X {src.off.n} ELSE {}
  IN  Result([Havocked(s1) EXCEPT !.fetched = @ \cup key],
             record_temporal(x, id, "DoubleFetch", key \cap s.fetched # {}, s1))
FillChecked(id, o, s) ==
  UserFilled(id, o.dst, o.src, s, check_mem_intrinsic(o.e, id, "fill", o.dst, o.src, o.n, s))
StepUserFill(i, id, s, x) == FillChecked(id, BlockOperands(i, s, x), s)

range_has_unwritten_bytes(p, n, s, x) ==
  \E k \in 0..(n - 1) :
     load_value([p EXCEPT !.off = Bin("+", @, Con(k))], 1, FALSE, 0, s, x).from = "unwritten"

\* copy_to_user: no unwritten unit of this function's own memory may leave.
Drained(i, id, p, s, x) ==
  IF /\ s.exact /\ is_fresh_alloc(p, s) /\ i.len.k = "int"
     /\ range_has_unwritten_bytes(p, i.len.v, s, x)
     /\ feasibility_witness(s, x)
  THEN record_mem(x, id, "NoInfoLeak", "refuted") ELSE x
DrainChecked(i, id, p, n, s) ==
  Result(s, Drained(i, id, p, s, check_mem_intrinsic(n.e, id, "drain", p, p, n.v, s)))
StepUserDrain(i, id, s, x) ==
  LET d == eval_pointer(i.dst, s, x)
  IN  DrainChecked(i, id, d.v, eval_scalar(i.len, s, d.e), s)

\* The labels of an assigned register are those of its operands.
rvalue_taint(ops, s) == UNION {At(s.tainted, o.v, {}) : o \in {y \in ops : y.k = "reg"}}
Retaint(dst, ops, s) ==
  [s EXCEPT !.tainted = IF rvalue_taint(ops, s) = {} THEN Drop(@, {dst})
                        ELSE Put(@, dst, rvalue_taint(ops, s))]

\* Scalar instructions; a division checks its divisor.  What the interval analysis
\* knows of the divisor (i.bounds: the least and the greatest value it can have
\* there, -1 where there is no non-negative one) is assumed while it is decided.
Assigned(i, ops, s, r) == Result(Bind(Retaint(i.dst, ops, s), i.dst, r.v), r.e)
push_bound_facts(i, d, s) ==
  [s EXCEPT !.facts = @ \o
     (IF i.b.k = "reg" /\ i.bounds[1] >= 0 THEN <<Bin("<=", Con(i.bounds[1]), d)>> ELSE <<>>)
     \o (IF i.b.k = "reg" /\ i.bounds[2] >= 0 THEN <<Bin("<=", d, Con(i.bounds[2]))>> ELSE <<>>)]
Divided(i, id, b, s) ==
  FreshScalar(record_mem(b.e, id, "NoDivByZero",
                         decide(<<Bin("#", b.v, Con(0))>>, push_bound_facts(i, b.v, s), b.e,
                                "possible", {})), "?")
Computed(i, id, a, s) ==
  IF i.o = "div" THEN Divided(i, id, eval_scalar(i.b, s, a.e), s)
  ELSE LET b == eval_scalar(i.b, s, a.e) IN [v |-> Scalar(Bin(i.o, a.v, b.v)), e |-> b.e]
Compared(c) == [v |-> Scalar(c.v), e |-> c.e]
StepArith(i, id, s, x) ==
  Assigned(i, {i.a, i.b}, s,
           IF i.o \in {"=", "#", "<="} THEN Compared(eval_ptr_aware_cmp(i.o, i.a, i.b, s, x))
           ELSE Computed(i, id, eval_scalar(i.a, s, x), s))

StepSelect(i, s, x) ==
  LET c == eval_scalar(i.c, s, x)
      a == eval_value(i.a, s, c.e)
      b == eval_value(i.b, s, a.e)
  IN  Assigned(i, {i.c, i.a, i.b}, s, select(c.v, a.v, b.v, b.e))

\* The address of a local must not outlive the frame.
RECURSIVE points_into_frame_stack(_, _)
points_into_frame_stack(p, s) ==
  CASE p.prov.k = "reg" -> HasRegion(p, s) /\ RegionOf(p, s).kind = "stack"
    [] p.prov.k = "sel" -> \/ points_into_frame_stack(p.prov.p, s)
                           \/ points_into_frame_stack(p.prov.q, s)
    [] OTHER -> FALSE
check_return(i, id, s, x) ==
  LET r == eval_value(i.val, s, x)
  IN  record_temporal(r.e, id, "NoDanglingDeref",
                      IsPtr(r.v) /\ points_into_frame_stack(r.v, s), s)
=============================================================================
